CONSTANTS
    c0 = c0
    c1 = c1
    CPU = {c0, c1}
    BootCPU = c0
    NPROC = 2
    MAXPID = 3
    UINT = 2
    MAXSLEEP = 1
    Victims = {1, 2}
    Calls = {"fork", "exit", "wait", "kill", "sleep", "fault"}
SPECIFICATION Spec
INVARIANTS
    SwitchSafe
    NoLostTick
