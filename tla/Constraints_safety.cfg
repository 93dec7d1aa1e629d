SPECIFICATION Spec
CONSTANTS
    None = None
    Numbers = {0, 1}
    Parts = 3
    Modifiers <- MCModifiers
    Flags <- MCFlags
    Qualifiers <- MCQualifiers
    Cases <- MCCases
CHECK_DEADLOCK FALSE
INVARIANTS
    AtomsMeanVersions
    NeverFalseConflict
    ConflictsOverlookedInHoles
