\* Two callers, two slots: every way through DOIT and TRY.
SPECIFICATION BSpec
CONSTANTS
    Threads = {t1, t2}
    Nobody = nobody
    k1 = k1
    k2 = k2
    Keys = {k1}
    NoKey = nokey
    Capacity = 2
    Hash <- DistinctHash
    Copies <- SoftTwo
    ClockRange = 3
    OpenOutcomes = {"open"}
    Ops = {"locked", "pixels"}
    MaxHandles = 0
    Attempts <- NegativeToTwo
    Timed = {TRUE}
    OpCodes = {"ok", "error"}
    MaxTries = 2
    MaxTouched = 1
SYMMETRY Symmetry
INVARIANTS BTypeOK NothingKept AnswerIsTrue NotGivenUpEarly
PROPERTIES CacheIsUsedWell CallNearsItsEnd
