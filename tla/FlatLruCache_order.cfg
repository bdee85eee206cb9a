\* Before the clock wraps, three slots, opens that succeed: order and accounts.
SPECIFICATION Spec
CONSTANTS
    Threads = {t1, t2}
    Nobody = nobody
    k1 = k1
    k2 = k2
    k3 = k3
    Keys = {k1, k2, k3}
    NoKey = nokey
    Capacity = 3
    Hash <- DistinctHash
    Copies <- One
    ClockRange = 8
    OpenOutcomes = {"open"}
    Ops = {"locked"}
    MaxHandles = 0
CONSTRAINT BeforeWrap
SYMMETRY Symmetry
INVARIANTS EmptyFirst  SizeIsOccupancy NoStrandedLock HandlesAccounted OneCopyEach
