SPECIFICATION Spec
CONSTANTS
    p1 = p1
    p2 = p2
    p3 = p3
    s1 = s1
    s2 = s2
    r1 = r1
    r2 = r2
    a1 = a1
    k1 = k1
    k2 = k2
    k3 = k3
    Procs = {p1}
    Slots = {k1, k2, k3}
    Concurrency = 2
    Scans = {s1, s2}
    Assets = {a1}
    Requests = {r1, r2}
    BatchOf <- TwoBatches
    AssetOf <- OneAsset
    KindOf <- ManualAndTool
    NoProc = NoProc
    NoScan = NoScan
    MaxLapses = 0
    MaxFaults = 2
SYMMETRY ProcSlotSymmetry
INVARIANTS
    LoopsBounded
    CompletedHasFindings
