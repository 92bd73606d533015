SPECIFICATION Spec
CONSTANTS
    PageLimit = 1
    Lists <- MCLists
    Overtaken = 1
    Fixtures = 2
    StudiesLimit = 2
    FailedAfter <- MCFailedAfter
    Bounds <- MCBounds
INVARIANTS
    ListsAreHonest
    DuplicatesAreInterruptions
    ReadyMeansProcessed
CHECK_DEADLOCK FALSE
