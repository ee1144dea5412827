SPECIFICATION Spec
CONSTANTS
    w1 = w1
    w2 = w2
    gen1 = gen1
    gen2 = gen2
    Absent = Absent
    NoProject = NoProject
    NumStages = 2
    ArtifactIDs = {gen1, gen2}
    Appliers = {w1}
    NumFiles = 2
    MaxRevision = 6
    MaxEdits = 1
    MaxPublished = 3
    Faults = {"crash", "cancel", "audit", "artifact_io", "project_io", "tree_io"}
    People = {"edit", "remove"}
SYMMETRY IDSymmetry
INVARIANT TypeOK
INVARIANT PastEmitMeansLanded
INVARIANT ReferencesArePublished
PROPERTY ImplementsLifecycle
CHECK_DEADLOCK FALSE
