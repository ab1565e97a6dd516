SPECIFICATION FairSpec
CONSTANTS
    r1 = r1
    r2 = r2
    Readers = {r1, r2}
    NonBlock = {r2}
    Async = {r1}
    MaxEdges = 4
INVARIANTS
    TypeOK
    EdgeNotForgotten
    NoLostWakeup
    NoDoubleDelivery
    OnlyOpenFilesSignalled
PROPERTIES
    EventsAlternate
    DebounceSettles
    SleeperWakes
    SigioArrives
