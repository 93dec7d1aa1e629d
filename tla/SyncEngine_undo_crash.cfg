\* A crash between a compensation and its record in the journal.
CONSTANTS
    Digests = {"a"}
    NoPlan = "none"
    Length <- MCLength
    RecordSteps <- MCRecordSteps
    ReadSteps <- MCReadSteps
    UndoableSteps <- MCUndoableSteps
    Fingerprints = {"plugin", "installer", "script"}
    TrustOf <- MCTrustOf
SPECIFICATION Spec
INVARIANTS
    SuccessIsApplied
