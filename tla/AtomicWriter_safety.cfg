\* Two writers that meet, and a third that finds what they left.
CONSTANTS
    Writers = {w1, w2, w3}
    NoFile = NoFile
SPECIFICATION WriterSpec
INVARIANTS
    NeverTorn
    SuccessSurvives
PROPERTIES
    ImplementsFile
SYMMETRY Symmetry
CHECK_DEADLOCK FALSE
