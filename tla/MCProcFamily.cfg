CONSTANTS
    c0 = c0
    CPU = {c0}
    BootCPU = c0
    NPROC = 3
    MAXPID = 3
    UINT = 1
    MAXSLEEP = 0
    Victims = {2}
    Calls = {"fork", "exit", "wait", "kill"}
SPECIFICATION FairSpec
INVARIANTS
    NoLostChild
PROPERTIES
    OrphanReaped
    KilledExits
