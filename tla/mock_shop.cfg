CONSTANTS
    a = a
    b = b
    Coupons = {a, b}
    Catalogues <- SomeCatalogues
    MaxChanges = 1
    NoCoupon = NoCoupon
SPECIFICATION FairSpec
INVARIANTS
    CouponIsHonest
    FullPriceHasCause
    CouponStopHasCause
PROPERTIES
    KeepsContract
CHECK_DEADLOCK FALSE
