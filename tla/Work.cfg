CONSTANTS
    ask = ask
    gated = gated
    plain = plain
    wA = wA
    wB = wB
    Task <- MCTask
    Worker <- MCWorker
    RootOf <- MCRootOf
    TaskType <- MCTaskType
    MaxRetries <- MCMaxRetries
    NeedsApproval <- MCNeeds
    Priorities = {0, 1}
    None = None
    Budget <- BudgetWork
SPECIFICATION Spec
CONSTRAINT MCCases
SYMMETRY MCSymmetry
 
INVARIANT ShellEffectAtMostOnce
INVARIANT EffectRequiresConsent
 
CHECK_DEADLOCK FALSE
