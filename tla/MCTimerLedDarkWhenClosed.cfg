SPECIFICATION Spec
CONSTANTS
    f1 = f1
    f2 = f2
    f3 = f3
    Files = {f1}
    Periods = {500}
    DefaultPeriod = 1000
    NotArmed = NotArmed
INVARIANT
    DarkWhenClosed
