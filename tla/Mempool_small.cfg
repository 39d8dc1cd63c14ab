CONSTANTS
    t1 = t1
    t2 = t2
    h1 = h1
    h2 = h2
    h3 = h3
    Null = Null
    Garbage = Garbage
    Threads = {t1, t2}
    CoreNum = 2
    Lengths = {8, 2000, 66000, 70000}
    Heap = {h1, h2}
    MaxOwned = 1
SPECIFICATION FairSpec
INVARIANTS TypeOK SmallExclusive ListsIntact BigEnough
PROPERTIES AllocReturns
CHECK_DEADLOCK FALSE
