SPECIFICATION FairAuthSpec
CONSTANTS
    Callers = {c1, c2, c3}
    Nobody = Nobody
    MaxLogins = 3
INVARIANTS
    AuthInv
PROPERTIES
    OnlyFreshCached
    CallsReturn
    ImplementsCache
