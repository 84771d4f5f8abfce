\* Two concurrent scans: can one call take the same instance twice?
CONSTANTS
    i1 = i1
    i2 = i2
    i3 = i3
    s1 = s1
    s2 = s2
    c1 = c1
    ListHead = ListHead
    NoOwner = NoOwner
    MaxFreeNids = 1
    Inst <- TwoInst
    Scanners <- TwoScanners
    Counters <- NoCounter
    NrToScan = {1, 3}
    RunBits = 3
    MaxScans = 3
    MaxCache = 1
    Overshoot = 1
SPECIFICATION Spec
CONSTRAINT ScanBound
SYMMETRY FullSymmetry
INVARIANT
    ScanVisitsOnce
