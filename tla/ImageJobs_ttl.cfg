SPECIFICATION Spec
CONSTANTS
    j2 = j2
    w1 = w1
    w2 = w2
    a3 = a3
    Nobody = Nobody
    Job = {j1, j2}
    Worker = {w1}
    Attempt = {a1, a2}
    HasTtl = {j2}
    Permits = 1
    Hold = 2
    RefreshEvery = 1
    Latency = 0
    MaxDisturb = 1
CONSTANTS
    WorkerOf <- MCWorkerOf
    Priority <- J2First
    Skew <- NoSkew
PROPERTIES TtlOnlyBeforeStart
