SPECIFICATION Spec
CONSTANTS
    w1 = w1
    w2 = w2
    t1 = t1
    t2 = t2
    NoTime = NoTime
    Watches <- OneWatch
    Times <- OneTime
    Priority <- T1Only
    BatchLimit = 2
    Modes = {"ASK"}
    Commands = {"APPROVE", "DECLINE"}
    MaxJobs = 2
    MaxFaults = 0
PROPERTY ReservedIsFinal
