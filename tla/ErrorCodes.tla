------------------------------ MODULE ErrorCodes ------------------------------
(***************************************************************************)
(* The last error of each thread (errorcodes.cpp), and the two ways in     *)
(* which an operation of a dataset uses it (locked_dataset.hpp).  GDAL      *)
(* calls put_last_errno, on the thread that failed, whenever it signals an  *)
(* error; an operation that fails fetches, and forgets, the errno of its    *)
(* thread; and the two operations on metadata compare its timestamp before  *)
(* and after to tell an empty answer from a failure.                        *)
(*                                                                         *)
(* The map is keyed by the number the kernel gives to a thread.  Each of    *)
(* the three functions reads and writes it inside one critical section,     *)
(* which is one step here; put_last_errno counts the reports before that,   *)
(* under no lock.  A CE_Fatal error ends the process and is left out.       *)
(*                                                                         *)
(* The messages that CPL_DEBUG makes GDAL log come the same way.  Their     *)
(* err_no is CPLE_None, and it is stored like every other: an entry of the  *)
(* map is told from none by its timestamp.                                  *)
(***************************************************************************)
EXTENDS Integers, FiniteSets

CONSTANTS
    Tids,           \* the numbers of the threads
    Errors,         \* the CPLErrorNums
    CPLE_None,      \* not an error
    Debug,          \* a debug message
    ObjectNull,     \* CPLE_ObjectNull: the operation failed without an errno
    NoError,        \* no answer of FAILURE yet
    MaxReports,     \* CPL_MAX_ERROR_REPORTS
    Limit,          \* 2^20: the size beyond which the map is cleared
    MaxClock,       \* bound: the milliseconds counted
    Kinds,          \* the operations: "plain" ones and those on "metadata"
    QuietFailures,  \* whether GDAL may fail without signalling an error
    SlowErrors,     \* whether the clock ticks between two errors of a thread
    ThreadsEnd      \* whether a thread may end, and its number be used again

ASSUME ErrorsAssumption ==
    /\ IsFiniteSet(Tids)
    /\ {CPLE_None, Debug, ObjectNull, NoError} \cap Errors = {}
    /\ CPLE_None \notin {Debug, ObjectNull, NoError}
    /\ Debug \notin {ObjectNull, NoError} /\ ObjectNull # NoError
    /\ MaxReports \in Nat /\ Limit \in Nat /\ MaxClock \in Nat \ {0}
    /\ Kinds \subseteq {"plain", "metadata"}
    /\ {QuietFailures, SlowErrors, ThreadsEnd} \subseteq BOOLEAN

VARIABLES
    live,       \* whether there is a map (errno_cache is not null) ...
    hook,       \* ... and whether put_last_errno is GDAL's error handler
    errno,      \* errno_cache: the errno of each thread, CPLE_None if absent ...
    at,         \* ... and its timestamp, 0 (milliseconds::zero) if absent
    now,        \* the system clock, in milliseconds
    reported,   \* reported_errors
    pc,         \* per thread: where it is
    kind,       \* per thread: the operation it is in
    before,     \* per thread: time_before
    num,        \* per thread: the err_no put_last_errno is about to store
    got,        \* per thread: what FAILURE answers
    \* History.  Of the thread that has the number: the last message it signalled
    \* since it last fetched an errno; the last one in this operation; and whether
    \* the operation came back empty-handed.
    mine, inOp, empty

mapVars == <<errno, at>>
history == <<mine, inOp, empty>>
ecVars  == <<live, hook, mapVars, now, reported, pc, kind, before, num, got, history>>

Times == 0..MaxClock

\* What GDAL signals, and the err_no that comes with it.
Messages == Errors \cup {Debug}
ErrNo(m) == IF m = Debug THEN CPLE_None ELSE m

EcTypeOK ==
    /\ errno \in [Tids -> Errors \cup {CPLE_None}]
    /\ at \in [Tids -> Times]
    /\ \A t \in Tids : at[t] = 0 => errno[t] = CPLE_None
    /\ \A t \in Tids : at[t] # 0 => live
    /\ live \in BOOLEAN /\ hook \in BOOLEAN
    /\ now \in Times /\ reported \in Nat
    /\ pc \in [Tids -> {"idle", "gdal", "put", "count", "store", "after", "fail", "done"}]
    /\ kind \in [Tids -> {"plain", "metadata", "library"}]
    /\ before \in [Tids -> Times]
    /\ num \in [Tids -> Errors \cup {CPLE_None}]
    /\ got \in [Tids -> Errors \cup {ObjectNull, NoError}]
    /\ mine \in [Tids -> Messages \cup {CPLE_None}]
    /\ inOp \in [Tids -> Messages \cup {CPLE_None}]
    /\ empty \in [Tids -> BOOLEAN]

\* The library is loaded, and init has not been called.
EcInit ==
    /\ live = FALSE
    /\ hook = FALSE
    /\ errno = [t \in Tids |-> CPLE_None]
    /\ at = [t \in Tids |-> 0]
    /\ now = 1
    /\ reported = 0
    /\ pc = [t \in Tids |-> "idle"]
    /\ kind = [t \in Tids |-> "plain"]
    /\ before = [t \in Tids |-> 0]
    /\ num = [t \in Tids |-> CPLE_None]
    /\ got = [t \in Tids |-> NoError]
    /\ mine = [t \in Tids |-> CPLE_None]
    /\ inOp = [t \in Tids |-> CPLE_None]
    /\ empty = [t \in Tids |-> FALSE]

Goto(t, l) == pc' = [pc EXCEPT ![t] = l]

-------------------------------------------------------------------------------
(* Bugs this code could have had, each before the definition it is a faulty  *)
(* form of; no action uses them.                                             *)

\* The map is cleared one entry too early.
FullAtLimit(m) == Cardinality({t \in Tids : m[t] # 0}) >= Limit

\* errno_cache->size() > (1 << 20).
TooLarge(m) == Cardinality({t \in Tids : m[t] # 0}) > Limit

\* The errors are counted, and the limit is not looked at again.
AlwaysReports == TRUE

\* reported_errors < max_reported_errors.
MayReport == reported < MaxReports

\* The timestamp is not stored with the errno.
StoreNoTime(t) ==
    /\ errno' = [errno EXCEPT ![t] = num[t]]
    /\ UNCHANGED at

\* The first error since the last fetch is the one that is kept.
StoreFirst(t) ==
    IF at[t] # 0 THEN UNCHANGED mapVars
    ELSE /\ errno' = [errno EXCEPT ![t] = num[t]]
         /\ at' = [at EXCEPT ![t] = now]

\* errno_cache->operator[](tid) = (err_no, timestamp).
StoreLast(t) ==
    /\ errno' = [errno EXCEPT ![t] = num[t]]
    /\ at' = [at EXCEPT ![t] = now]

\* An empty answer is never a failure.
EmptyIsFine(t) == TRUE

\* It is asked whether an error waits, not whether there is a new one.
NoErrorPending(t) == at[t] = 0

\* time_before == time_after.
NoErrorSince(t) == before[t] = at[t]

-------------------------------------------------------------------------------
(* put_last_errno, called by GDAL. *)

ClockTicks ==
    /\ now < MaxClock
    /\ now' = now + 1
    /\ UNCHANGED <<live, hook, mapVars, reported, pc, kind, before, num, got, history>>

GdalSignals(t, m) ==
    /\ pc[t] = "gdal"
    /\ hook
    /\ SlowErrors => at[t] < now
    /\ num' = [num EXCEPT ![t] = ErrNo(m)]
    /\ mine' = [mine EXCEPT ![t] = m]
    /\ inOp' = [inOp EXCEPT ![t] = m]
    /\ Goto(t, "put")
    /\ UNCHANGED <<live, hook, mapVars, now, reported, kind, before, got, empty>>

\* The limit is compared, ...
CompareReports(t) ==
    /\ pc[t] = "put"
    /\ Goto(t, IF MayReport THEN "count" ELSE "store")
    /\ UNCHANGED <<live, hook, mapVars, now, reported, kind, before, num, got, history>>

\* ... and the report counted, by two separate atomic steps.
CountReport(t) ==
    /\ pc[t] = "count"
    /\ reported' = reported + 1
    /\ Goto(t, "store")
    /\ UNCHANGED <<live, hook, mapVars, now, kind, before, num, got, history>>

\* The map is used without a look at whether there is one.
StoreErrno(t) ==
    /\ pc[t] = "store"
    /\ live
    /\ StoreLast(t)
    /\ num' = [num EXCEPT ![t] = CPLE_None]
    /\ Goto(t, "gdal")
    /\ UNCHANGED <<live, hook, now, reported, kind, before, got, history>>

-------------------------------------------------------------------------------
(* An operation of a dataset. *)

\* time_before, for the operations that take it.
OpBegins(t, k) ==
    /\ pc[t] = "idle"
    /\ kind' = [kind EXCEPT ![t] = k]
    /\ before' = [before EXCEPT ![t] = IF k = "metadata" THEN at[t] ELSE 0]
    /\ Goto(t, "gdal")
    /\ UNCHANGED <<live, hook, mapVars, now, reported, num, got, history>>

\* GDAL comes back with what it was asked for.
GdalAnswers(t) ==
    /\ pc[t] = "gdal"
    /\ Goto(t, "done")
    /\ UNCHANGED <<live, hook, mapVars, now, reported, kind, before, num, got, history>>

\* GDAL comes back empty-handed: FAILURE, but for metadata only if there has
\* been an error since.
GdalFails(t) ==
    /\ pc[t] = "gdal"
    /\ kind[t] # "library"
    /\ kind[t] = "plain" => QuietFailures \/ inOp[t] # CPLE_None
    /\ empty' = [empty EXCEPT ![t] = TRUE]
    /\ Goto(t, IF kind[t] = "metadata" THEN "after" ELSE "fail")
    /\ UNCHANGED <<live, hook, mapVars, now, reported, kind, before, num, got, mine, inOp>>

CompareTimes(t) ==
    /\ pc[t] = "after"
    /\ Goto(t, IF NoErrorSince(t) THEN "done" ELSE "fail")
    /\ UNCHANGED <<live, hook, mapVars, now, reported, kind, before, num, got, history>>

\* get_last_errno(), and the errno that FAILURE makes of it.
GetLastErrno(t) ==
    LET rest == [at EXCEPT ![t] = 0]  \* errno_cache->erase(tid)
    IN  /\ pc[t] = "fail"
        /\ got' = [got EXCEPT ![t] = IF errno[t] = CPLE_None THEN ObjectNull ELSE errno[t]]
        /\ IF TooLarge(rest)
           THEN /\ errno' = [u \in Tids |-> CPLE_None]
                /\ at' = [u \in Tids |-> 0]
           ELSE /\ errno' = [errno EXCEPT ![t] = CPLE_None]
                /\ at' = rest
        /\ mine' = [mine EXCEPT ![t] = CPLE_None]
        /\ Goto(t, "done")
        /\ UNCHANGED <<live, hook, now, reported, kind, before, num, inOp, empty>>

OpReturns(t) ==
    /\ pc[t] = "done"
    /\ kind' = [kind EXCEPT ![t] = "plain"]
    /\ before' = [before EXCEPT ![t] = 0]
    /\ got' = [got EXCEPT ![t] = NoError]
    /\ inOp' = [inOp EXCEPT ![t] = CPLE_None]
    /\ empty' = [empty EXCEPT ![t] = FALSE]
    /\ Goto(t, "idle")
    /\ UNCHANGED <<live, hook, mapVars, now, reported, num, mine>>

\* A thread ends, and the next one is given its number.
ThreadEnds(t) ==
    /\ ThreadsEnd
    /\ pc[t] = "idle"
    /\ mine[t] # CPLE_None
    /\ mine' = [mine EXCEPT ![t] = CPLE_None]
    /\ UNCHANGED <<live, hook, mapVars, now, reported, pc, kind, before, num, got, inOp, empty>>

-------------------------------------------------------------------------------
(* errno_init and errno_deinit. *)

\* The errors that are pending are forgotten with the map; the hook stays.
ErrnoDeinit ==
    /\ live' = FALSE
    /\ errno' = [t \in Tids |-> CPLE_None]
    /\ at' = [t \in Tids |-> 0]
    /\ mine' = [t \in Tids |-> CPLE_None]
    /\ UNCHANGED <<hook, now, reported, pc, kind, before, num, got, inOp, empty>>

ErrnoInit ==
    /\ live' = TRUE
    /\ hook' = TRUE
    /\ UNCHANGED <<mapVars, now, reported, pc, kind, before, num, got, history>>

-------------------------------------------------------------------------------

\* What a thread does inside GDAL, and around it, until it returns.
EcStep(t) ==
    \/ \E m \in Messages : GdalSignals(t, m)
    \/ CompareReports(t) \/ CountReport(t) \/ StoreErrno(t)
    \/ GdalAnswers(t) \/ GdalFails(t) \/ CompareTimes(t)
    \/ GetLastErrno(t) \/ OpReturns(t)

-------------------------------------------------------------------------------
(* What makes the errnos correct. *)

\* As long as no more than Limit other threads have errors pending, and there is a
\* map, the last message of a thread waits for it: it is neither lost nor replaced
\* by another (put_last_errno, get_last_errno).
NoErrorLost ==
    \A t \in Tids :
        pc[t] \notin {"put", "count", "store"} /\ mine[t] # CPLE_None =>
            at[t] # 0 /\ errno[t] = ErrNo(mine[t])

\* If GDAL signals an error whenever it fails, an operation that fails answers
\* with the last error it met itself, not with one that an earlier operation left
\* pending, or an earlier thread of the same number; and with CPLE_ObjectNull if
\* a debug message came after the error (FAILURE).
FailureIsOfThisCall ==
    \A t \in Tids :
        got[t] # NoError =>
            IF inOp[t] = Debug THEN got[t] = ObjectNull ELSE got[t] = inOp[t]

\* If the clock ticks between two errors of a thread, an operation on metadata
\* that met an error and has nothing to show for it is not reported as done ...
MetadataFailureIsSeen ==
    \A t \in Tids :
        pc[t] = "done" /\ empty[t] /\ inOp[t] # CPLE_None => got[t] # NoError

\* ... and one that met none, and found nothing, is: an error that waits from an
\* earlier operation is not taken for one of this (time_before, time_after).
EmptyIsAnAnswer ==
    \A t \in Tids :
        pc[t] = "done" /\ kind[t] = "metadata" /\ inOp[t] = CPLE_None => got[t] = NoError

\* Threads that compare before any of them counts may exceed the limit of the
\* reports, but by less than one report each.
ReportsBounded ==
    reported + Cardinality({t \in Tids : pc[t] = "count"}) < MaxReports + Cardinality(Tids)
===============================================================================
