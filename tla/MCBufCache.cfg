CONSTANTS
    p1 = p1
    p2 = p2
    b1 = b1
    b2 = b2
    k1 = k1
    k2 = k2
    k3 = k3
    NoProc = NoProc
    NoBlock = NoBlock
    NoBuf = NoBuf
    Proc = {p1, p2}
    Buf = {b1, b2}
    Block = {k1, k2, k3}
    Value = {0, 1}
    MAXPIN = 1
    Outcome = {TRUE}
SPECIFICATION FairSpec
INVARIANTS
    CacheExact
PROPERTIES
    OneContent
    BwriteWrites
    RequestsEnd
