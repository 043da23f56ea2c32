SPECIFICATION Spec
CONSTANTS
    Keys = {k1, k2}
    Saves = {s1, s2}
    MaxFindings = 2
    NoSave = NoSave
SYMMETRY SaveKeySymmetry
CHECK_DEADLOCK FALSE
INVARIANTS
    DuplicatesTrue
    SerialSavesExact
    TotalsTrue
    UploadVerdictTrue
