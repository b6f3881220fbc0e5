CONSTANTS
    Pages <- SmallPages
    Wishes <- SomeWishes
    Limit = 2
    MaxFlips = 2
    MaxFailures = 1
SPECIFICATION Spec
INVARIANTS
    CandidateWasOpen
    BestIsTaken
    ErrorHasCause
CHECK_DEADLOCK FALSE
