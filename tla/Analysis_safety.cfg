SPECIFICATION Spec
CONSTANTS
    None = None
    Invalid = Invalid
    Odd = Odd
    Unversioned = Unversioned
    Versions <- MCVersions
    Supported <- MCSupported
    Legacy <- MCLegacy
    Projects <- MCProjects
    Requests <- MCRequests
    Natives <- MCNatives
    Ddevs <- MCDdevs
    Releases = {2, 3}
CHECK_DEADLOCK FALSE
INVARIANTS
    OrderIrrelevant
    RequirementsMet
    PreparedBeforeUse
    TrustNamesComposer
PROPERTIES
    ProviderStable
