SPECIFICATION Spec
CONSTANTS
    alice = alice
    bob = bob
    cli = cli
    None_ = None_
    r1 = r1
    r2 = r2
    m1 = m1
    m2 = m2
    m3 = m3
    c1 = c1
    c2 = c2
    Users = {alice, bob}
    NoUser = cli
    Texts = {"Fact", "fact", "secret"}
    Unsafe = {"secret"}
    Fold <- MCFold
    MaxItems = 2
    MemoryIds = {m1, m2, m3}
    CandidateIds = {c1, c2}
    Requests = {r1, r2}
    None = None_
    Faults = {"save", "resolve", "expiry", "crash"}
SYMMETRY Alike
INVARIANT ReopensTheSame
INVARIANT ApprovedIsStored
CHECK_DEADLOCK FALSE
