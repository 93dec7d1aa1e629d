SPECIFICATION FairSpec
CONSTANTS
    None = None
    Codes <- MCCodes
    MaxSignals = 2
    Faults <- AllFaults
CHECK_DEADLOCK FALSE
INVARIANTS
    ResultIsTheChilds
    FirstSignalForwarded
PROPERTIES
    CancellationEnds
