SPECIFICATION Spec
CONSTANTS
    w1 = w1
    w2 = w2
    a = a
    b = b
    NoProject = NoProject
    NumStages = 3
    ArtifactIDs = {a, b}
    Workers = {w1}
    MaxFiles = 3
    MaxBatch = 2
    MaxRevision = 6
    MaxCrashes = 1
    Faults = {"crash", "cancel", "artifact_io", "project_io"}
SYMMETRY IDSymmetry
INVARIANT ManifestDescribesFiles
INVARIANT OutputFromRecordedInputs
INVARIANT IndexIsDisk
INVARIANT BudgetHolds
CHECK_DEADLOCK FALSE
