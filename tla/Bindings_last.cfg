\* An operation that succeeds on the last attempt: what does the call return?
SPECIFICATION BSpec
CONSTANTS
    Threads = {t1, t2}
    Nobody = nobody
    k1 = k1
    k2 = k2
    Keys = {k1}
    NoKey = nokey
    Capacity = 2
    Hash <- DistinctHash
    Copies <- SoftTwo
    ClockRange = 3
    OpenOutcomes = {"open"}
    Ops = {"locked"}
    MaxHandles = 0
    Attempts <- ZeroToTwo
    Timed = {FALSE}
    OpCodes = {"ok"}
    MaxTries = 2
    MaxTouched = 1
SYMMETRY Symmetry
INVARIANTS SuccessIsReported
