\* The unconditional promise: two recoverers of one stale lock break it.
CONSTANTS
    Processes = {p1, p2, p3}
    Pids = {n1, n2, n3}
    NoProcess = NoProcess
    NoPid = NoPid
    MaxAttempts = 8
SPECIFICATION Spec
INVARIANTS
    MutualExclusion
SYMMETRY Symmetry
CHECK_DEADLOCK FALSE
