SPECIFICATION MCSpec
CONSTANTS
    Call = {c1, c2, c3}
    NoCall = NoCall
    TTL = 5
    Period = 1
    Attempts = 1
    Delay = 0
    Latency = 1
    Job = {j1}
    Runner = {r1, r2, r3}
    NoRunner = NoRunner
    Hold = 4
    Every = 2
    Interval = 3
    ClockAge = 1
INVARIANTS OneRunner
PROPERTIES ImplementsSection DueJobsRun
CHECK_DEADLOCK FALSE
