SPECIFICATION FairSpec
CONSTANTS
    None = None
    Device = {d1}
    Token = {t1, t2, t3}
    Code = {}
    MaxVersion = 2
    Scenario <- LiveScenarios
    MaxEvents = 1
    MaxLate = 1
    MaxStale = 1
PROPERTY
    RotationSettles
CHECK_DEADLOCK FALSE
