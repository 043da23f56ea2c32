SPECIFICATION Spec
CONSTANTS
    p1 = p1
    p2 = p2
    p3 = p3
    s1 = s1
    s2 = s2
    r1 = r1
    r2 = r2
    a1 = a1
    k1 = k1
    k2 = k2
    k3 = k3
    Procs = {p1, p2, p3}
    Slots = {k1}
    Concurrency = 1
    Scans = {s1, s2}
    Assets = {a1}
    Requests = {r1}
    BatchOf <- OneBatch
    AssetOf <- OneAsset
    KindOf <- MixedKinds
    NoProc = NoProc
    NoScan = NoScan
    MaxLapses = 0
    MaxFaults = 0
SYMMETRY ProcSymmetry
INVARIANTS
    TypeOK
    SingleExecutor
    ExecutorHoldsLease
    StatusMatchesLease
    OneBatchPerAttempt
    AssetVerdictTrue
PROPERTIES
    VerdictIsFinal
    ImplementsScanJobs
