SPECIFICATION FairSpec
CONSTANTS
    w1 = w1
    w2 = w2
    a = a
    b = b
    NoProject = NoProject
    NumStages = 2
    ArtifactIDs = {a}
    Workers = {w1, w2}
    MaxFiles = 3
    MaxBatch = 1
    MaxRevision = 5
    MaxCrashes = 1
    Faults = {"artifact_io"}
PROPERTY RunSettles
INVARIANT RunningMeansOwnedOrCrashed
CHECK_DEADLOCK FALSE
