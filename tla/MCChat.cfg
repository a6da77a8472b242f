SPECIFICATION Spec
CONSTANTS
    Tokens = {"token", "newline"}
    Values <- EmptyOrToken
    NewLine = "newline"
    MaxLines = 4
    ChatRequests <- MCRequests
INVARIANTS
    TypeOK
    PayloadsSurvive
    PartOnlyBeforeError
    NilMeansAll
    AnswerFitsCall
    SentinelMeansStatus
PROPERTIES
    ImplementsDelivery
