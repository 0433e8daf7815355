SPECIFICATION Spec
CONSTANTS
    s1 = s1  s2 = s2  s3 = s3
    PipeSize = 1
    RequestSize = 2
    MaxOutput = 2
    MaxFrames = 3
    HasCancelURL = TRUE
    Path = {"bin", "home", "tmp"}
    Protected = {"bin"}
    Alias = {"name"}
    Content = {"x", "y", "#!"}
    Script = {"#!"}
    Harmless = {"bin"}
    ShellTask = {"s"}
    MaxSwaps = 3
    Entries = 3
    MaxListed = 2
    MaxResults = 2
    MaxSearchFiles = 2
    MaxHits = 2
    Editor = {"x", "y"}
    File = {"f", "g"}
    Word = {"a", "b"}
    EditRequests <- EditRequestsValue
    MaxEdits = 1
    MaxFileChanges = 3
    MaxRuns = 2
    MaxPosts = 1
    Lines <- LinesValue
    Message = {"first", "late", "other"}
    NonceOf <- NonceOfValue
    StampOf <- StampOfValue
    Window = 2
    Keep = 5
    Lag = 1
    Receiver = {"h1", "h2"}
    MaxTime = 9
    Address = {s1, s2, s3, "a4", "a5"}
    Claimant = {"r1", "r2"}
    ClaimWindow = 2
    PerAddress = 1
    Globally = 2
    MapTarget = 4
    ClaimLag = 1
    ClaimTime = 6
SYMMETRY Symmetry
INVARIANTS
     LaunchedIsApproved UntruncatedIsComplete  NoReplay 
PROPERTIES ChangesAsPromised
CHECK_DEADLOCK FALSE
