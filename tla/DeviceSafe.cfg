SPECIFICATION Spec
CONSTANTS
    None = None
    Device = {d1, d2}
    Token = {t1, t2, t3}
    Code = {c1, c2}
    MaxVersion = 3
    Scenario <- SafetyScenarios
    MaxEvents = 1
    MaxLate = 1
    MaxStale = 1
SYMMETRY Symmetry
INVARIANTS
    
    NoStaleStream
    
    SingleUseCode
CHECK_DEADLOCK FALSE
