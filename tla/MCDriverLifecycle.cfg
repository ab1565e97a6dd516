SPECIFICATION Spec
CONSTANT MaxUsers = 2
INVARIANTS
    FailedInitReleasesAll
    UnloadReleasesAll
    ReleasesOnlyWhatItHolds
    FaultsOnlyInKnownWindows
CHECK_DEADLOCK FALSE
