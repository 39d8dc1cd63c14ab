CONSTANTS
    p1 = p1
    p2 = p2
    c1 = c1
    k1 = k1
    n1 = n1
    n2 = n2
    n3 = n3
    n4 = n4
    n5 = n5
    v1 = v1
    v2 = v2
    v3 = v3
    v4 = v4
    Null = Null
    Pushers = {p1, p2}
    Poppers = {c1}
    Clearers = {k1}
    Nodes = {n1, n2, n3, n4, n5}
    RecoverLimit = 1
    Values = {v1, v2, v3, v4}
    SizeMod = 8
SPECIFICATION Spec
INVARIANTS SizeCounts NodesInUse
PROPERTIES Linearizable
SYMMETRY Symmetry
