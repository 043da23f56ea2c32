SPECIFICATION Spec
CONSTANTS
    Keys = {k1}
    Saves = {s1}
    MaxFindings = 2
    NoSave = NoSave
CHECK_DEADLOCK FALSE
INVARIANTS
    DuplicateLinksOriginal
