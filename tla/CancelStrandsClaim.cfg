CONSTANTS
    top = top
    kidA = kidA
    kidB = kidB
    wA = wA
    wB = wB
    Task <- MCLone
    Worker <- MCWorker
    RootOf <- MCRootOf
    NeedsApproval = {}
    Priorities = {0, 1}
    None = None
    TaskType <- MCLoneType
    MaxRetries <- MCMaxRetries
    Budget <- BudgetCancel
SPECIFICATION FairSpec
PROPERTY CancellationTakesEffect
CHECK_DEADLOCK FALSE
