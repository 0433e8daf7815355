CONSTANTS
    top = top
    kidA = kidA
    kidB = kidB
    wA = wA
    wB = wB
    Task <- MCTask
    Worker <- MCWorker
    RootOf <- MCRootOf
    TaskType <- MCTaskType
    MaxRetries <- MCMaxRetries
    NeedsApproval = {}
    Priorities = {0, 1}
    None = None
    Budget <- BudgetCrash
CHECK_DEADLOCK FALSE
SPECIFICATION FairSpec
PROPERTY EveryTaskSettles
