SPECIFICATION FairSpec
CONSTANTS
    f1 = f1
    f2 = f2
    f3 = f3
    f4 = f4
    Files = {f1, f2, f3, f4}
INVARIANTS
    TypeOK
    LockCountsTakers
    StatusMeansUsed
    NoStrandedWaiter
    HoldersBounded
PROPERTIES
    BusyHasCause
    ImplementsExclusiveLed
    CallsReturn
    WaiterServed
CHECK_DEADLOCK FALSE
