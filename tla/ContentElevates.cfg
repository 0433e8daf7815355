SPECIFICATION Spec
CONSTANTS
    Conversation = {"chat"}
    Request = {"sent", "next"}
    ConversationOf <- MCConversationOf
    Child = {a, b}
    Delegates <- MCDelegates
    External = {}
    MaxRetries = 1
    Handler = {h1}
    Notice = {}
    DeviceText = {"sent", "next"}
    Stored = {}
    RetainDefault = TRUE
    Budgets <- MCElevates
PROPERTIES
    ContentCannotElevate
CHECK_DEADLOCK FALSE
