SPECIFICATION Spec
CONSTANTS
    f1 = f1
    f2 = f2
    Files = {f1, f2}
    ConfOrder <- TwoRegisters
    LedPin = LedPin
    OtherPin = OtherPin
    Setup = Setup
    Neighbour = Neighbour
INVARIANTS
    TypeOK
    PortKept
