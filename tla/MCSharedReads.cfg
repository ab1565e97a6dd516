SPECIFICATION Spec
CONSTANTS
    r1 = r1
    r2 = r2
    Readers = {r1, r2}
    Readings <- Ends
    Stack <- StackBytes
INVARIANTS
    TypeOK
    DeliveredFromOverlap
SYMMETRY Symmetry
