CONSTANTS
    p1 = p1
    p2 = p2
    NoProc = NoProc
    Proc = {p1, p2}
    INPUT_BUF = 3
    UINT = 6
    MAXCOUNT = 2
    Victims = {p2}
SPECIFICATION FairSpec
PROPERTIES
    CommittedIsFixed
    EofIsEmptyRead
    LineIsRead
