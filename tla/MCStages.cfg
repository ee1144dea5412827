SPECIFICATION Spec
CONSTANTS
    ExtractReplies <- MCExtractReplies
    InferReplies <- MCInferReplies
    Outputs <- MCOutputs
    Garbage = Garbage
    Unknown = Unknown
    NoArtifact = NoArtifact
    Half = 128
    MaxRegisters = 2
    MaxIRQs = 2
    AutoApply = FALSE
    MaxRuns = 7
INVARIANT SoundMap
INVARIANT InferKeepsTheMap
INVARIANT CodeSaysUnknown
INVARIANT VerdictIsEarned
CHECK_DEADLOCK FALSE
