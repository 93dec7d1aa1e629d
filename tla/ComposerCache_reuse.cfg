SPECIFICATION Spec
CONSTANTS
    Processes = {p1, p2}
    Versions <- MCVersions
    MinimumOf <- MCMinimums
    Requests <- MCRequests
    None = None
CHECK_DEADLOCK FALSE
INVARIANTS
    AcquiredIsReused
