\* Four elements, two of which may stay in memory; a counter of three bits.
SPECIFICATION FairSpec
CONSTANTS
    e1 = e1
    e2 = e2
    e3 = e3
    e4 = e4
    Null = Null
    Ids = {e1, e2, e3, e4}
    InitEls = {}
    MaxEls = 2
    MaxQueue = 4
    MaxDeletes = 3
    Wrap = 8
INVARIANTS
    TypeOK
    CountBehindList
    NeverBackOfEmpty
    NoDuplicates
    QueueSound
    IdleWithinLimit
PROPERTIES
    DeathIsAnonymousOrDeleted
    ListDrains
\* The process may die.
CHECK_DEADLOCK FALSE
