CONSTANTS
    Watchers = {scheduled, byhand}
    Scheduled = scheduled
    MaxCommands = 2
    Batch = 2
    Waits = {1}
    StaleAfter = 1
    LockWait = 1
    LoginTime = 1
    MaxFaults = 1
    MaxLogins = 0
SPECIFICATION Spec
INVARIANTS
    OneBrowser
    AnswerStands
    LossHasCause
PROPERTIES
    KeepsContract
