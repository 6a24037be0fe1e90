SPECIFICATION Spec
CONSTANTS
    Req = {r1, r2, r3}
    None = None
    Error = Error
    MaxVersion = 2
SYMMETRY Symmetry
INVARIANTS OneFetch WaiterHasWaker CoalescingSound StaleOnlyAfterRace
CHECK_DEADLOCK FALSE
