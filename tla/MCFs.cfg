CONSTANTS
    p1 = p1
    p2 = p2
    NoProc = NoProc
    Proc = {p1, p2}
    Name = {"a", "b"}
    Calls <- TreeCalls
    NINODES = 4
    NINODE = 3
    MAXLINK = 2
SPECIFICATION Spec
INVARIANTS
    CacheExact
    IsTree
PROPERTIES
    FreedIsUnused
CHECK_DEADLOCK FALSE
