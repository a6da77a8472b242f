SPECIFICATION Spec
CONSTANTS
    Callers = {a, b}
    Attempts = 2
    Fields = {enabled, hour}
    Resources = {"secret", "scan", "plan", "key"}
    MaxCalls <- MCMaxCalls
SYMMETRY Alike
INVARIANTS
    TypeOK
    OneHTTPClient
    NoSilentOrphan
    PollFitsScan
    AcknowledgedIsKept
PROPERTIES
    UndoneByOverlapOnly
