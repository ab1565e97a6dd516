SPECIFICATION FairSpec
CONSTANTS
    MaxEdges = 5
    MaxWaiting = 1
INVARIANTS
    TypeOK
    MaskedWhileOwed
    EdgeNotForgotten
PROPERTIES
    ReportSettles
CHECK_DEADLOCK FALSE
