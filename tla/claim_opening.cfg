CONSTANTS
    IntervalMin = 3
    IntervalMax = 4
    Window = 4
    TightMin = 1
    TightMax = 2
    BackoffBase = 2
    BackoffMax = 5
    ZoneAhead = 5
    Lag = 1
    Starts <- StartAfterCreation
    Ends <- ShortAndLongWatches
    Openings <- LateOpening
    MaxErrors = 3
    MaxUnsaved = 1
    MaxNow = 18
SPECIFICATION Spec
PROPERTIES
    TightBeforeOpen
