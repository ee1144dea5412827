SPECIFICATION FairSpec
CONSTANTS
    k1 = k1
    k2 = k2
    a = a
    NoView = NoView
    NumStages = 3
    ArtifactIDs = {a}
    Keys = {k1, k2}
    SourceStages = {1}
    Given = {"plain"}
    MaxOperations = 2
    MaxProjects = 2
    MaxTurns = 3
    Faults = {"crash", "cancel", "io"}
INVARIANT TypeOK
INVARIANT AskedMeansAwaited
PROPERTY InputKept
PROPERTY NeverReplays
PROPERTY TurnEnds
CHECK_DEADLOCK FALSE
