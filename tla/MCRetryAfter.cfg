SPECIFICATION Spec
CONSTANTS
    Half = 64
    Second = 10
    DefaultRetries = 2
    DefaultBase = 2
    DefaultMax = 50
    Policies <- SmallPolicies
    Headers <- AllHeaders
CHECK_DEADLOCK FALSE
INVARIANT RetryAfterHonoured
