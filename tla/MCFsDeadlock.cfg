CONSTANTS
    p1 = p1
    p2 = p2
    NoProc = NoProc
    Proc = {p1, p2}
    Name = {"a", "b"}
    Calls <- FileCalls
    NINODES = 4
    NINODE = 4
    MAXLINK = 2
SPECIFICATION Spec
INVARIANTS
    NoDeadlock
CHECK_DEADLOCK FALSE
