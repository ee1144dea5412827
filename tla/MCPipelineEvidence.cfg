SPECIFICATION Spec
CONSTANTS
    w1 = w1
    w2 = w2
    a = a
    b = b
    NoProject = NoProject
    NumStages = 2
    ArtifactIDs = {a}
    Workers = {w1}
    MaxFiles = 3
    MaxBatch = 1
    MaxRevision = 6
    MaxCrashes = 1
    Faults = {}
INVARIANT EvidenceBackedByVerify
CHECK_DEADLOCK FALSE
