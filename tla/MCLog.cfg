CONSTANTS
    p1 = p1
    p2 = p2
    b1 = b1
    b2 = b2
    zero = zero
    one = one
    Proc = {p1, p2}
    Block = {b1, b2}
    Val = {zero, one}
    Zero = zero
    NoBlock = NoBlock
    MAXOPBLOCKS = 3
    LOGSIZE = 6
    NLOG = 7
    OPBLOCKS = 2
SPECIFICATION FairSpec
INVARIANTS
    LogInv
    DurableWhenIdle
PROPERTIES
    CrashAtomic
    SleeperWakes
