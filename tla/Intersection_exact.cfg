SPECIFICATION MCSpec
CONSTANTS
    Version <- MCVersion
    Compare <- MCCompare
    Points <- MCPoints
    None = None
CHECK_DEADLOCK FALSE
INVARIANTS
    NoFalseConflict
    ConflictsFound
