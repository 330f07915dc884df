CONSTANTS
    p1 = p1
    p2 = p2
    NoProc = NoProc
    Proc = {p1, p2}
    Parent = p1
    Value = {0, 1}
    PIPESIZE = 2
    UINT = 4
    MAXCOUNT = 2
    Texts <- LongTexts
    Victims = {p2}
SPECIFICATION FairSpec
CHECK_DEADLOCK FALSE
INVARIANTS
    FreedIsUnused
    SleepersMustWait
PROPERTIES
    IsFifo
    CloseReleases
