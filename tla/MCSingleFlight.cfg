SPECIFICATION Spec
CONSTANTS
    c1 = c1
    c2 = c2
    Callers = {c1, c2}
    Nobody = Nobody
    MaxLogins = 5
    Requests <- OnlyReads
    CallsEach = 2
    MaxRevocations = 2
    Lossy = FALSE
    Configs <- LoginOnly
    Retries = 0
    RetryStatuses <- DefaultStatuses
    RetryErrors = TRUE
CHECK_DEADLOCK FALSE
INVARIANT SingleFlight
