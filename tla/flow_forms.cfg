SPECIFICATION Spec
CONSTANTS
    slot = slot
    other = other
    alike = alike
    Wanted = slot
    Others <- NoSlots
    LookAlikes <- NoSlots
    Markers <- OnlyConsent
    Pages <- AllPages
    NewBoxes <- FewBoxes
    MaxChanges = 1
    MaxFaults = 1
INVARIANTS
    ConsentsAreDecided
    ConsentGateIsExplained
    CouponIsSafe
    
CHECK_DEADLOCK FALSE
