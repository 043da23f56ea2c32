SPECIFICATION FairSpec
CONSTANTS
    p1 = p1
    p2 = p2
    p3 = p3
    s1 = s1
    s2 = s2
    r1 = r1
    r2 = r2
    a1 = a1
    k1 = k1
    k2 = k2
    k3 = k3
    Procs = {p1, p2}
    Slots = {k1}
    Concurrency = 1
    Scans = {s1}
    Assets = {a1}
    Requests = {r1}
    BatchOf <- OneScanBatch
    AssetOf <- OneAsset
    KindOf <- AllExecutable
    NoProc = NoProc
    NoScan = NoScan
    MaxLapses = 1
    MaxFaults = 1
PROPERTIES
    LiveLeaseKept
    EveryScanSettles
