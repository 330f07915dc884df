CONSTANTS
    s1 = s1
    s2 = s2
    Slot = {s1, s2}
    First = s1
    NPAGE = 13
    PGSIZE = 2
    NPTE = 2
    KERNBASE = 8
    MINSZ = 1
    Deltas <- SmallDeltas
    Segments = {1, 8}
SPECIFICATION Spec
INVARIANTS
    OneOwner
    SizeIsMapped
