SPECIFICATION Spec
CONSTANTS
    Conversation = {"chat", "local"}
    Request = {"asked", "sent", "stored", "note"}
    ConversationOf <- MCConversationOf
    Child = {a, b}
    Delegates <- MCDelegates
    External = {"asked"}
    MaxRetries = 1
    Handler = {h1, h2}
    Notice = {"note"}
    DeviceText = {"sent"}
    Stored = {"stored"}
    RetainDefault = TRUE
    Budgets <- MCBudgets
SYMMETRY IngressSymmetry
INVARIANTS
    EventsMatchGraphs
    NonRetainedGraphIsScrubbed
    SweepSparesOpenWork
PROPERTIES
    RestartReconciles
CHECK_DEADLOCK FALSE
