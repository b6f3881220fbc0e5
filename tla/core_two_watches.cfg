SPECIFICATION Spec
CONSTANTS
    w1 = w1
    w2 = w2
    t1 = t1
    t2 = t2
    NoTime = NoTime
    Watches <- TwoWatches
    Times <- OneTime
    Priority <- T1Only
    BatchLimit = 2
    Modes = {"AUTO", "ASK"}
    Commands = {"CHECK_NOW", "RESERVE_NOW", "APPROVE", "DECLINE"}
    MaxJobs = 1
    MaxFaults = 1
INVARIANT CopiesAreCurrent
PROPERTY KeepsLifecycle
