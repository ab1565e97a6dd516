SPECIFICATION FairSpec
CONSTANTS
    f1 = f1
    f2 = f2
    f3 = f3
    Files = {f1, f2, f3}
    Periods = {500}
    DefaultPeriod = 1000
    NotArmed = NotArmed
INVARIANTS
    TypeOK
    NoTimerWithoutFile
    ClosedStaysQuiet
    StartedKeepsBlinking
PROPERTY
    StopsReturn
