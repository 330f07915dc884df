CONSTANTS
    Proc = {p1, p2}
    Inum = {i1, i2}
    NFILE = 2
    NOFILE = 2
    SIZE = 5
    BPB = 8
    BSIZE = 2
    NDIRECT = 1
    NINDIRECT = 2
    MAXOPBLOCKS = 6
    Modes <- ReadWrite
    Texts <- ShortTexts
    Counts = {3}
    MAXCALLS = 4
    NoProc = NoProc
SPECIFICATION Spec
CHECK_DEADLOCK FALSE
INVARIANTS BlocksExact WithinReservation FilesCounted
PROPERTY IsFileStore
SYMMETRY Symmetry
