\* Two plans that replace each other's journal and environment record.
CONSTANTS
    Digests = {"a", "b"}
    NoPlan = "none"
    Length <- MCLength
    RecordSteps <- MCRecordSteps
    ReadSteps <- MCReadSteps
    UndoableSteps <- MCUndoableSteps
    Fingerprints = {"plugin", "installer", "script"}
    TrustOf <- MCTrustOf
SPECIFICATION RetrySpec
INVARIANTS
    JournalTruth
    SuccessIsReal
    JournalNeverRefuses
    ReportAccounts
    OrderWithoutUndo
PROPERTIES
    MutationsJournaledAndTrusted
    EffectsFollowJournal
    ImplementsRecord
    RunEnds
    RetryConverges
