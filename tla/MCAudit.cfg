SPECIFICATION Spec
CONSTANTS
    Foreign <- MCForeign
    Dropped <- MCDropped
INVARIANTS
    SplitsByParameters
    CoveredNotReported
    
    CallsStayApart
