SPECIFICATION Spec
CONSTANTS
    Calls <- MCCalls
    Transient = {"use_skill"}
    Asked = {"bash"}
    Denied = {"write"}
    KeepRecent = 0
    MaxTurns = 2
    MaxRuns = 3
    Faults = {"cancel", "sink", "audit", "save", "model", "tool", "budget"}
INVARIANT StreamTellsTheSession
INVARIANT ToolsAreAuthorized
INVARIANT OnlyReceiptsAreKept
CHECK_DEADLOCK FALSE
