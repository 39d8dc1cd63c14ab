CONSTANTS
    t1 = t1
    t2 = t2
    t3 = t3
    v1 = v1
    v2 = v2
    Absent = Absent
    None = None
    Threads = {t1, t2, t3}
    Keys = {10, 42}
    Hash <- HashOf
    Values = {v1, v2}
    SizeMod = 2
    Memory = {0, 1}
SPECIFICATION Spec
INVARIANTS TypeOK MapExclusive NodeExclusive EachOnce
PROPERTIES Linearizable
SYMMETRY Symmetry
