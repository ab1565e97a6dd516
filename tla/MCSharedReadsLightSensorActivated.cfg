SPECIFICATION Spec
CONSTANTS
    r1 = r1
    r2 = r2
    Readers = {r1}
    Readings <- Ends
    Stack <- StackBytes
INVARIANT
    LightSensorActivated
CHECK_DEADLOCK FALSE
