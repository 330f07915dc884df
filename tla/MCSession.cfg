CONSTANTS
    MAXARGS = 10
    NPROC = 5
    NPIPE = 1
    Sessions <- SomeSessions
    HISTORY = 2
    Clock <- TwoMinutes
    Name = {"f", "g"}
    Original = "f"
    Stored <- TwoLines
    Texts <- Text13
    LineNums = {1, 2, 3}
    Ranges <- SomeRanges
    MAXCMDS = 3
SPECIFICATION Spec
CHECK_DEADLOCK FALSE
INVARIANTS PromptMeansDone ParsesBack KeepsText SavedIsRead QuitLosesOnlyEdits ShowsRange
PROPERTIES CommandsEnd InitServes
