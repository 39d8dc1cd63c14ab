CONSTANTS
    p1 = p1
    p2 = p2
    c1 = c1
    c2 = c2
    k1 = k1
    n1 = n1
    n2 = n2
    n3 = n3
    n4 = n4
    Null = Null
    Pushers = {p1, p2}
    Poppers = {c1, c2}
    Clearers = {k1}
    Nodes = {n1, n2, n3, n4}
    RecoverLimit = 2
    Values = {1, 2, 3, 4}
    SizeMod = 8
SPECIFICATION MCSpec
INVARIANTS SizeCounts EndsNotFreed
PROPERTIES Linearizable EndsAdvance

SYMMETRY Symmetry
