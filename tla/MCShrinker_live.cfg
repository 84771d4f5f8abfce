\* A scan and a count walking the list while instances mount and unmount:
\* no walker stands on a detached node, scan and count return, and unmount
\* completes, under the scheduling fairness of Shrinker!Fairness.
CONSTANTS
    i1 = i1
    i2 = i2
    i3 = i3
    s1 = s1
    s2 = s2
    c1 = c1
    ListHead = ListHead
    NoOwner = NoOwner
    MaxFreeNids = 1
    Inst <- TwoInst
    Scanners <- OneScanner
    Counters <- OneCounter
    NrToScan = {1, 3}
    RunBits = 2
    MaxScans = 2
    MaxCache = 0
    Overshoot = 1
SPECIFICATION FairSpec
CONSTRAINT ScanBound
INVARIANTS
    CountNonNegative
    NoWalkerOnDetached
PROPERTIES
    WalkTerminates
    UnmountCompletes
