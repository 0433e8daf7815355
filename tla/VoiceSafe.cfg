CONSTANTS
    h1 = h1
    h2 = h2
    h3 = h3
    d1 = d1
    d2 = d2
    j1 = j1
    j2 = j2
    None = None
    Session <- TwoSessions
    Handler <- Handlers3
    Drainer <- Drainers
    Job <- Jobs2
    DeviceOf <- OneDevice
    ConversationOf <- OwnTalk
    Operation = {"start", "ring", "reconnect", "turn", "end"}
    MaxFaults = 1
    MaxRestarts = 1
SPECIFICATION CallSpec
SYMMETRY MCSymmetry
INVARIANT OneCallPerDevice
INVARIANT MediaNeverOrphaned
INVARIANT SingleSpeaker
PROPERTY DialogFollowsTable
CHECK_DEADLOCK FALSE
