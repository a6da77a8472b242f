SPECIFICATION Spec
CONSTANTS
    c1 = c1
    c2 = c2
    Callers = {c1}
    Nobody = Nobody
    MaxLogins = 2
    Requests <- AllKinds
    CallsEach = 2
    MaxRevocations = 1
    Lossy = TRUE
    Configs <- AllConfigs
    Retries = 1
    RetryStatuses <- DefaultStatuses
    RetryErrors = TRUE
CHECK_DEADLOCK FALSE
INVARIANTS
    TypeOK
    BoundedWork
    CredentialsStayOnTheirPlane
PROPERTIES
    ImplementsCalls
