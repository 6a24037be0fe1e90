SPECIFICATION FairSpec
CONSTANTS
    j2 = j2
    w1 = w1
    w2 = w2
    a3 = a3
    Nobody = Nobody
    Job = {j2}
    Worker = {w1, w2}
    Attempt = {a1, a2, a3}
    HasTtl = {j2}
    Permits = 1
    Hold = 7
    RefreshEvery = 1
    Latency = 1
    MaxDisturb = 2
CONSTANTS
    WorkerOf <- MCWorkerOf
    Priority <- J2First
    Skew <- W2Ahead
INVARIANTS OneAttemptPerJob PermitsRespected
PROPERTIES JobsEnd
