CONSTANTS
    t1 = t1
    t2 = t2
    t3 = t3
    o1 = o1
    o2 = o2
    o3 = o3
    o4 = o4
    o5 = o5
    o6 = o6
    Null = Null
    Threads = {t1, t2, t3}
    Removers = {t1}
    Objects = {o1, o2, o3, o4, o5, o6}
    RecoverLists = 1
    RecoverLimit = 2
    MaxSlots = 3
    WarmSlots = 2
    WarmRetired = {o1, o2, o3}
    SlotsWanted <- OneEach
SPECIFICATION Spec
INVARIANTS ScanCollectsAll
