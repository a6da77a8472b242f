SPECIFICATION FairSpec
CONSTANT Items <- TwoFiles
CHECK_DEADLOCK FALSE
INVARIANTS
    UploadInv
    EndMeansWhole
    AtMostOneLateRead
PROPERTIES
    UploadReturns
    WriterEnds
