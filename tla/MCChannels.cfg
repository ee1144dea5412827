SPECIFICATION FairSpec
CONSTANTS
    Enabled = {"cli", "telegram"}
    Updates = 3
    Unwanted = {2}
    MaxConcurrency = 1
    MaxCrashes = 1
    Faults = {"signal", "poll", "fatal", "client", "terminal"}
INVARIANT ReturnedMeansQuiet
INVARIANT ConfirmedMeansTaken
INVARIANT AnsweredOnce
PROPERTY KeepsUp
CHECK_DEADLOCK FALSE
