SPECIFICATION Spec
CONSTANTS
    Findings = {f1}
    Exceptions = {e1}
    Calls = {c1, c2}
    NoException = NoException
    NoFinding = NoFinding
    NoCall = NoCall
    MaxHistory = 3
SYMMETRY CallSymmetry
VIEW WithoutRisk
INVARIANTS
    TypeOK
    AuditTrail
    DatesMatchStatus
    LinksExist
