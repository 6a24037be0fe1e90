SPECIFICATION MCSpec
CONSTANTS
    None = None
    Pic = {p1, p2}
    Emote = {e1}
    Call = {c1, c2}
    ManageAny = {c1, c2}
    ManageRequests = {c1}
    MayMerge = {c1}
    MaxPending = 1
    j2 = j2
    w1 = w1
    w2 = w2
    a3 = a3
    Nobody = Nobody
    Job = {j2}
    Worker = {w1, w2}
    Attempt = {a1, a2, a3}
    HasTtl = {}
    Permits = 1
    Hold = 2
    RefreshEvery = 1
    Latency = 0
    MaxDisturb = 2
CONSTANTS
    WorkerOf <- MCWorkerOf
    Priority <- J2First
    Skew <- NoSkew
SYMMETRY Symmetry
CONSTRAINT InTime
INVARIANTS ActiveIsReady LockNeedsCause RemovedStaysRemoved
    EmotesHold JobsAreTold
CHECK_DEADLOCK FALSE
