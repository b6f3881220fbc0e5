SPECIFICATION FairSpec
CONSTANTS
    w1 = w1
    w2 = w2
    t1 = t1
    t2 = t2
    NoTime = NoTime
    Watches <- OneWatch
    Times <- OneTime
    Priority <- T1Only
    BatchLimit = 1
    Modes = {"ASK", "AUTO"}
    Commands = {"APPROVE", "RESERVE_NOW"}
    MaxJobs = 2
    MaxFaults = 1
PROPERTIES
    JobsAreTakenUp
    JobsAreAnswered
    EndedIsRetired
    RemovedIsForgotten
