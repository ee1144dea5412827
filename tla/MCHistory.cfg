SPECIFICATION Spec
CONSTANTS
    Calls <- MCCalls
    Transient = {"use_skill"}
    Asked = {"bash"}
    Denied = {"write"}
    KeepRecent = 4
    MaxTurns = 2
    MaxRuns = 2
    Faults = {}
INVARIANT HistoryKeepsMessages
CHECK_DEADLOCK FALSE
