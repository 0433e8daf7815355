CONSTANTS
    h1 = h1
    h2 = h2
    h3 = h3
    d1 = d1
    d2 = d2
    j1 = j1
    j2 = j2
    None = None
    Session <- OneSession
    Handler <- Handlers3
    Drainer <- OneDrainer
    Job <- Jobs1
    DeviceOf <- OneDevice
    ConversationOf <- OwnTalk
    Operation = {"start", "turn"}
    MaxFaults = 0
    MaxRestarts = 0
SPECIFICATION LiveSpec
PROPERTY SpeechEnds
CHECK_DEADLOCK FALSE
