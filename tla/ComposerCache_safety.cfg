\* Three commands of which two may promote one release and a third finds what
\* they left; the older release gives no minimum PHP version.
SPECIFICATION Spec
CONSTANTS
    Processes = {p1, p2, p3}
    Versions <- MCVersions
    MinimumOf <- MCMinimumOf
    Requests <- MCAllRequests
    None = None
SYMMETRY Symmetric
CHECK_DEADLOCK FALSE
INVARIANTS
    RunsApproved
    UnusableNeedsPowerLoss
    RacesAgree
PROPERTIES
    ImplementsCache
