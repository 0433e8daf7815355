SPECIFICATION Spec
CONSTANTS
    s1 = s1  s2 = s2
    Item = {"a"}
    Writer = {"w1", "w2"}
    Subscriber = {"desktop", "phone"}
    Buffer <- BufferValue
    MaxVersion = 2
    MaxRefresh = 3
    MaxDrops = 1
    InboxSize = 2
    MaxStreams = 4
    MaxCommands = 2
    SnapTask = {"t1", "t2"}
    SnapApproval = {"p1", "p2"}
    ActiveTaskLimit = 2
    TaskLimit = 3
    PendingApprovalLimit = 2
    ApprovalLimit = 3
    MaxMessages = 1
    MessageLimit = 1
    MaxSnapChanges = 1
    Agent = {"agent"}
    Connector = {"slack"}
    Action = {"q1", "q2", "q3"}
    ActionOf <- ActionOfValue
    Admin = {s1, s2}
    MaxStops = 1
    Proc = {s1, s2, "c3"}
    MaxLaunches = 2
    Opener = {"o1", "o2"}
    Build = {"old", "new", "edited"}
    Supports <- SupportsValue
    ChecksumOf <- ChecksumOfValue
    Session = {1, 2, 3, 4}
    DeviceOf <- DeviceOfValue
    StartedAt <- StartedAtValue
    Identity = {"dev", "r1", "r2"}
    FilesOf <- FilesOfValue
    MaxBuilds = 3
SYMMETRY Symmetry
INVARIANTS
     PrivacyAgreed SnapshotIsFaithful ActionTakesEffectOnce 
    OneActiveCore WindowHasItsCore   SuccessfulBuildIsOfOneIdentity
CHECK_DEADLOCK FALSE
