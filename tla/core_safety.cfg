SPECIFICATION Spec
CONSTANTS
    w1 = w1
    w2 = w2
    t1 = t1
    t2 = t2
    NoTime = NoTime
    Watches <- OneWatch
    Times <- TwoTimes
    Priority <- T2First
    BatchLimit = 1
    Modes = {"AUTO", "ASK", "NOTIFY"}
    Commands = {"CHECK_NOW", "RESERVE_NOW", "APPROVE", "DECLINE"}
    MaxJobs = 2
    MaxFaults = 1
INVARIANTS
    SurplusHasCause
    AtMostOncePerJob
    AttemptsAreAuthorised
    RowsAreBacked
    BookingsAreAccounted
    NothingIsUnasked
PROPERTY PausedIsLeftAlone
