SPECIFICATION Spec
CONSTANTS
    w1 = w1
    w2 = w2
    gen1 = gen1
    gen2 = gen2
    Absent = Absent
    NoProject = NoProject
    NumStages = 2
    ArtifactIDs = {gen1}
    Appliers = {w1}
    NumFiles = 2
    MaxRevision = 5
    MaxEdits = 0
    MaxPublished = 3
    Faults = {"cancel"}
    People = {}
INVARIANT ReportIsExact
CHECK_DEADLOCK FALSE
