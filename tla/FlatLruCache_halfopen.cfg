\* GDALWarp fails: is the source dataset closed?
SPECIFICATION Spec
CONSTANTS
    Threads = {t1, t2}
    Nobody = nobody
    k1 = k1
    k2 = k2
    k3 = k3
    Keys = {k1, k2}
    NoKey = nokey
    Capacity = 2
    Hash <- DistinctHash
    Copies <- HardAndSoft
    ClockRange = 3
    OpenOutcomes = {"open", "half"}
    Ops = {"locked"}
    MaxHandles = 8
SYMMETRY Symmetry
INVARIANTS HandlesAccounted
