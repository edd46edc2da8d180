\* What --num-els promises, against what is counted.
SPECIFICATION FairSpec
CONSTANTS
    e1 = e1
    e2 = e2
    e3 = e3
    Null = Null
    Ids = {e1, e2, e3}
    InitEls = {}
    MaxEls = 1
    MaxQueue = 3
    MaxDeletes = 2
    Wrap = 8
PROPERTY MemoryBounded
\* The process may die.
CHECK_DEADLOCK FALSE
