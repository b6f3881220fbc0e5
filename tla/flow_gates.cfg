SPECIFICATION FairSpec
CONSTANTS
    slot = slot
    other = other
    alike = alike
    Wanted = slot
    Others <- OtherSlots
    LookAlikes <- Alike
    Markers <- AllMarkers
    Pages <- SomePages
    NewBoxes <- NoBoxes
    MaxChanges = 2
    MaxFaults = 1
INVARIANT WrongSlotOnlyUnseen
PROPERTIES
    SettledBlockersStopTheClick
    KeepsContract
    KeepsFairContract
CHECK_DEADLOCK FALSE
