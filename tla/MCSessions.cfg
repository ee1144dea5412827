SPECIFICATION FairSpec
CONSTANTS
    k1 = k1
    k2 = k2
    r1 = r1
    r2 = r2
    Nobody = Nobody
    Keys = {k1, k2}
    Requests = {r1, r2}
    MaxRequests = 4
    Faults = {"crash", "save", "run", "compact"}
INVARIANT TypeOK
INVARIANT LiveIsSaved
INVARIANT RunSeesItsSession
INVARIANT ExchangesAreKept
PROPERTY RequestEnds
CHECK_DEADLOCK FALSE
