\* Three invocations (a dead owner and two recoverers) and one PID each, to be
\* reused by other programs; fewer attempts than the loop has in the code, so
\* that it is also seen to run out.
CONSTANTS
    Processes = {1, 2, 3}
    Pids = {1, 2, 3}
    NoProcess = NoProcess
    NoPid = NoPid
    MaxAttempts = 2
SPECIFICATION MCSpec
INVARIANTS
    ExclusionUnlessMisremoved
    OwnerFileInPlace
    RecoversOnlyEnded
    UnreadableNeedsCrash
PROPERTIES
    NoReappearance
    AlwaysReturns
CHECK_DEADLOCK FALSE
