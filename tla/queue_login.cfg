CONSTANTS
    Watchers = {scheduled}
    Scheduled = scheduled
    MaxCommands = 2
    Batch = 2
    Waits = {1, 2}
    StaleAfter = 2
    LockWait = 3
    LoginTime = 4
    MaxFaults = 1
    MaxLogins = 1
SPECIFICATION FairSpec
INVARIANT StaleOnlyAfterBrowserWork
PROPERTIES
    CallsReturn
    ProfileIsFreed
