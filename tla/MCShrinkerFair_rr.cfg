\* Repeated scan(1) calls over three instances, one count thread running
\* alongside; no unmount is needed for the trace.
CONSTANTS
    i1 = i1
    i2 = i2
    i3 = i3
    s1 = s1
    s2 = s2
    c1 = c1
    ListHead = ListHead
    NoOwner = NoOwner
    MaxFreeNids = 1
    Inst <- ThreeInst
    Scanners <- OneScanner
    Counters <- OneCounter
    NrToScan = {1}
    RunBits = 3
    MaxScans = 4
    MaxCache = 1
    Overshoot = 0
SPECIFICATION FairRRSpec
CONSTRAINT ScanBound ListedNonEmpty
SYMMETRY InstSymmetry
PROPERTY
    RoundRobin
