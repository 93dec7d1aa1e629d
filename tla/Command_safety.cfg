SPECIFICATION Spec
CONSTANTS
    None = None
    Breakable = TRUE
    Projects <- MCProjects
    BlockedBy <- MCBlockedBy
    NeedsApproval <- MCNeedsApproval
    MaxEdits = 2
    Chunks = 1
CHECK_DEADLOCK FALSE
INVARIANTS
    NumberedInOrder
    Framed
    AppliedWasApproved
    StaleOnlyByRace
