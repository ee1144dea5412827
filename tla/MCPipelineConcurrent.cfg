SPECIFICATION Spec
CONSTANTS
    w1 = w1
    w2 = w2
    a = a
    b = b
    NoProject = NoProject
    NumStages = 2
    ArtifactIDs = {a}
    Workers = {w1, w2}
    MaxFiles = 3
    MaxBatch = 1
    MaxRevision = 6
    MaxCrashes = 1
    Faults = {"crash", "cancel", "artifact_io"}
SYMMETRY WorkerSymmetry
INVARIANT TypeOK
INVARIANT ReferencedFilesExist
INVARIANT SingleOwner
PROPERTY FailureIsRecorded
PROPERTY ImplementsLifecycle
CHECK_DEADLOCK FALSE
