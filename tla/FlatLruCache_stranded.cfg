\* A failed open: does its slot become available again?
SPECIFICATION Spec
CONSTANTS
    Threads = {t1, t2}
    Nobody = nobody
    k1 = k1
    k2 = k2
    k3 = k3
    Keys = {k1, k2}
    NoKey = nokey
    Capacity = 2
    Hash <- DistinctHash
    Copies <- HardAndSoft
    ClockRange = 3
    OpenOutcomes = {"open", "none"}
    Ops = {"locked"}
    MaxHandles = 0
SYMMETRY Symmetry
INVARIANTS UnusedIsLockable
