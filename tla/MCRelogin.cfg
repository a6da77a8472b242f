SPECIFICATION FairSpec
CONSTANTS
    c1 = c1
    c2 = c2
    Callers = {c1, c2}
    Nobody = Nobody
    MaxLogins = 3
    Requests <- MixedWrites
    CallsEach = 1
    MaxRevocations = 2
    Lossy = FALSE
    Configs <- LoginOnly
    Retries = 0
    RetryStatuses <- DefaultStatuses
    RetryErrors = TRUE
CHECK_DEADLOCK FALSE
INVARIANTS
    ResendIsFresher
    UnauthorizedOnlyIfRevoked
    LoginsAccounted
PROPERTIES
    EveryCallReturns
    UsesPasswordAuth
