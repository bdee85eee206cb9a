\* Two threads, two slots, two keys of one hash, every outcome of open().
SPECIFICATION Spec
CONSTANTS
    Threads = {t1, t2}
    Nobody = nobody
    k1 = k1
    k2 = k2
    k3 = k3
    Keys = {k1, k2}
    NoKey = nokey
    Capacity = 2
    Hash <- CollidingHash
    Copies <- HardAndSoft
    ClockRange = 3
    OpenOutcomes = {"open", "none"}
    Ops = {"locked", "pixels"}
    MaxHandles = 0
SYMMETRY Symmetry
INVARIANTS TypeOK RefCountExact HeldMatches VictimReserved OpExclusive
PROPERTIES PoolImplemented GetNearsItsEnd
