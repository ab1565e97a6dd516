SPECIFICATION FairSpec
CONSTANTS
    r1 = r1
    r2 = r2
    Readers = {r1, r2}
    MaxEdges = 4
INVARIANTS
    TypeOK
PROPERTIES
    ImplementsMailbox
    ReadsReturn
    LastReportAgrees
