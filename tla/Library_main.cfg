\* Two threads, a map that is cleared beyond one entry, init and deinit between.
SPECIFICATION LSpec
CONSTANTS
    Tids = {t1, t2}
    Errors = {e1, e2}
    CPLE_None = none
    Debug = debug
    ObjectNull = null
    NoError = noerror
    MaxReports = 1
    Limit = 1
    MaxClock = 3
    Kinds = {"plain", "metadata"}
    QuietFailures = FALSE
    SlowErrors = TRUE
    ThreadsEnd = TRUE
    Nobody = nobody
    MaxCached = 1
SYMMETRY Symmetry
INVARIANTS LTypeOK NoErrorLost   EmptyIsAnAnswer ReportsBounded  DownIsClean
\* An error that init or deinit meets ends the process.
CHECK_DEADLOCK FALSE
