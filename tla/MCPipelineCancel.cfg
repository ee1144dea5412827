SPECIFICATION Spec
CONSTANTS
    w1 = w1
    w2 = w2
    a = a
    b = b
    NoProject = NoProject
    NumStages = 3
    ArtifactIDs = {a}
    Workers = {w1, w2}
    MaxFiles = 3
    MaxBatch = 1
    MaxRevision = 6
    MaxCrashes = 1
    Faults = {"cancel"}
SYMMETRY WorkerSymmetry
INVARIANT RunningMeansOwnedOrCrashed
CHECK_DEADLOCK FALSE
