CONSTANTS
    p1 = p1
    p2 = p2
    c1 = c1
    c2 = c2
    v1 = v1
    v2 = v2
    Null = Null
    Pushers = {p1, p2}
    Poppers = {c1, c2}
    Values = {v1, v2}
    DetailSize = 2
    MaxElements = 3
    MaxCells = 4
    SizeMod = 8
SPECIFICATION MCSpec
INVARIANTS SizeCounts RingHolds KindsApart
PROPERTIES Linearizable CallsReturn
