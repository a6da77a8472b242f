SPECIFICATION Spec
CONSTANTS
    c1 = c1
    c2 = c2
    Callers = {c1}
    Nobody = Nobody
    MaxLogins = 2
    Requests <- OnlyReads
    CallsEach = 1
    MaxRevocations = 1
    Lossy = FALSE
    Configs <- LoginOnly
    Retries = 1
    RetryStatuses <- DefaultStatuses
    RetryErrors = TRUE
CHECK_DEADLOCK FALSE
INVARIANT FailedLoginNotRetried
