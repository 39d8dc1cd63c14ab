CONSTANTS
    t1 = t1
    t2 = t2
    t3 = t3
    v1 = v1
    v2 = v2
    Absent = Absent
    None = None
    Threads = {t1}
    Keys = {10}
    Hash <- HashOf
    Values = {v1, v2}
    SizeMod = 4
    Memory = {0}
SPECIFICATION Spec
INVARIANTS SizeIsCount
