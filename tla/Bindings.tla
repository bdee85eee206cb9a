------------------------------- MODULE Bindings -------------------------------
(***************************************************************************)
(* The operations of the library (bindings.cpp): every one of them is the  *)
(* DOIT macro around one operation of a locked dataset.  A call looks its  *)
(* token up, then attempts the operation: it gets datasets from the cache, *)
(* tries them one after the other (the TRY macro) and gives each one back. *)
(*                                                                         *)
(* The module extends FlatLruCache, whose threads are now the callers of   *)
(* the library, and decides which of the cache's steps they take, and      *)
(* when.  CacheIsUsedWell, the specification of the cache, is a property   *)
(* of this module: what holds of the cache holds here.                     *)
(***************************************************************************)
EXTENDS FlatLruCache

CONSTANTS
    Attempts,       \* the values of the `attempts` argument
    Timed,          \* whether a call has a time budget (nanos > 0)
    OpCodes,        \* what the GDAL call of an operation may end with
    MaxTries,       \* bound: the loop index saturates here ...
    MaxTouched      \* bound: ... and the count of tried datasets here

ASSUME CallsAssumption ==
    /\ Attempts \subseteq Int /\ Timed \subseteq BOOLEAN
    /\ OpCodes \subseteq {"ok", "error"}
    /\ MaxTries \in Nat \ {0} /\ MaxTouched \in Nat \ {0}
    /\ \A a \in Attempts : a <= MaxTries

VARIABLES
    stage,      \* per thread: outside, at the head of the loop, in get(), in TRY,
                \* or on its way out with an answer
    call,       \* per thread: the arguments and the local variables of DOIT
    turn,       \* per thread: the dataset of the list that TRY has arrived at
    ret         \* per thread: the answer, while it is on its way out

bindVars == <<stage, call, turn, ret>>
allVars  == <<vars, bindVars>>

\* ATTEMPT_SUCCESSFUL, DATASET_LOCKED, a CPLErrorNum, and CPLE_None.
Codes == {"ok", "locked", "error", "none"}

\* The number of tried datasets, -ATTEMPTS_EXCEEDED, -CPLE_FileIO (no time is
\* left), -CPLE_OpenFailed (for an empty list, or for a token that is unknown),
\* or the code itself.
Answers == {"count", "exceeded", "no_time", "no_dataset", "bad_token"} \cup Codes

\* `wins` is no variable of the code: how often the operation succeeded.
Calls == [key : Keys \cup {NoKey}, copies : Copies \cup {0}, attempts : Attempts \cup {0},
          timed : BOOLEAN, i : 0..MaxTries, touched : 0..MaxTouched,
          code : Codes, done : BOOLEAN, wins : 0..2]

\* The local variables of DOIT as a call with these arguments begins.
NewCall(k, n, a, timed) ==
    [key |-> k, copies |-> n, attempts |-> a, timed |-> timed, i |-> 0,
     touched |-> 0, code |-> "none", done |-> FALSE, wins |-> 0]

NoCall == NewCall(NoKey, 0, 0, FALSE)

BTypeOK ==
    /\ TypeOK
    /\ stage \in [Threads -> {"out", "loop", "get", "try", "leave"}]
    /\ call \in [Threads -> Calls]
    /\ turn \in [Threads -> Slots \cup {0}]
    /\ ret \in [Threads -> Answers]

BInit ==
    /\ Init
    /\ stage = [t \in Threads |-> "out"]
    /\ call = [t \in Threads |-> NoCall]
    /\ turn = [t \in Threads |-> 0]
    /\ ret = [t \in Threads |-> "none"]

Enter(t, s) == stage' = [stage EXCEPT ![t] = s]
Saturated(n, max) == IF n < max THEN n + 1 ELSE max

-------------------------------------------------------------------------------
(* Bugs this code could have had, each before the definition it is a faulty  *)
(* form of; no action uses them.                                             *)

\* code == ATTEMPT_SUCCESSFUL: the only way for `done` to become true.
Succeeded(c) == c = "ok"

\* `if (!done)` is missing in TRY: the other datasets are tried, too.
TryAll(t) == TRUE

\* !done: the datasets that are left are only given back.
StillTrying(t) == ~call[t].done

\* A dataset is given back by TRY, and once more when the list is left.
GiveBackTwice(t, s) ==
    /\ pc[t] = "got" /\ s \in held[t]
    /\ use' = [use EXCEPT ![s] = @ - 2]
    /\ held' = [held EXCEPT ![t] = @ \ {s}]
    /\ UNCHANGED <<tag, atime, uri, mutex, lockVars, cacheVars, pc,
                   key, copies, idx, best, want, stamp, cur>>

\* ld->dec(), whatever came of the dataset.
GiveBack(t, s) == Dec(t, s)

\* The loop leaves TRY as soon as an attempt succeeds, with the rest of the
\* list not given back.
LeaveAtSuccess(t) == call[t].done \/ held[t] = {}

\* The for loop of TRY is over.
ListDone(t) == held[t] = {}

\* A success does not end the loop.
GoesOnAfterSuccess(t) == call[t].i < call[t].attempts \/ call[t].attempts <= 0

\* The last attempt is never counted.
GoesOnForEver(t) == ~call[t].done

\* An error of GDAL ends the loop, as a success does.
EndsAtError(t) ==
    /\ call[t].i < call[t].attempts \/ call[t].attempts <= 0
    /\ call[t].code \notin {"ok", "error"}

\* (i < attempts || attempts <= 0) && !done.
GoesOn(t) ==
    /\ call[t].i < call[t].attempts \/ call[t].attempts <= 0
    /\ ~call[t].done

-------------------------------------------------------------------------------
(* DOIT. *)

\* query_token finds the pair of the token, and the loop is entered.
Call(t, k, n, a, timed) ==
    /\ stage[t] = "out"
    /\ call' = [call EXCEPT ![t] = NewCall(k, n, a, timed)]
    /\ Enter(t, "loop")
    /\ UNCHANGED <<vars, turn, ret>>

Leave(t, answer) ==
    /\ ret' = [ret EXCEPT ![t] = answer]
    /\ Enter(t, "leave")

\* query_token finds nothing.
BadToken(t) ==
    /\ stage[t] = "out"
    /\ Leave(t, "bad_token")
    /\ UNCHANGED <<vars, call, turn>>

\* The caller has its answer.
Answered(t) ==
    /\ stage[t] = "leave"
    /\ call' = [call EXCEPT ![t] = NoCall]
    /\ ret' = [ret EXCEPT ![t] = "none"]
    /\ Enter(t, "out")
    /\ UNCHANGED <<vars, turn>>

\* A bug this code could have had: the budget is looked at after cache->get,
\* with the references of the list in hand.
OutOfTimeAfterGet(t) ==
    /\ stage[t] = "get"
    /\ pc[t] = "got"
    /\ call[t].timed
    /\ Leave(t, "no_time")
    /\ UNCHANGED <<vars, call, turn>>

\* The time budget is looked at only here, before cache->get.
OutOfTime(t) ==
    /\ stage[t] = "loop"
    /\ GoesOn(t)
    /\ call[t].timed
    /\ Leave(t, "no_time")
    /\ UNCHANGED <<vars, call, turn>>

AttemptBegins(t) ==
    /\ stage[t] = "loop"
    /\ GoesOn(t)
    /\ Get(t, call[t].key, call[t].copies)
    /\ Enter(t, "get")
    /\ UNCHANGED <<call, turn, ret>>

\* Inside cache->get.
InCache(t) ==
    /\ stage[t] = "get"
    /\ RdLock(t) \/ WrLock(t) \/ GetStep(t)
    /\ UNCHANGED bindVars

EmptyList(t) ==
    /\ stage[t] = "get"
    /\ Return(t)
    /\ Leave(t, "no_dataset")
    /\ UNCHANGED <<call, turn>>

TryBegins(t) ==
    /\ stage[t] = "get"
    /\ pc[t] = "got" /\ held[t] # {}
    /\ Enter(t, "try")
    /\ UNCHANGED <<vars, call, turn, ret>>

\* What the end of the loop returns.  The index has already been incremented
\* when an attempt that succeeded gets here.
Verdict(c) ==
    IF c.code = "ok" /\ (c.i < c.attempts \/ (c.i > 0 /\ c.attempts = 0)) THEN "count"
    ELSE IF c.code \in {"ok", "locked"} THEN "exceeded"
    ELSE c.code

LoopEnds(t) ==
    /\ stage[t] = "loop"
    /\ ~GoesOn(t)
    /\ Leave(t, Verdict(call[t]))
    /\ UNCHANGED <<vars, call, turn>>

-------------------------------------------------------------------------------
(* TRY. *)

\* TRY is at the next dataset of the list.
AtNext(t) == stage[t] = "try" /\ turn[t] = 0

\* ++touched, and the operation is entered: under the dataset's lock, or, for
\* get_pixels, before it.
Touch(t, s) ==
    /\ AtNext(t) /\ StillTrying(t)
    /\ OpTryLock(t, s) \/ PixelsBand(t, s)
    /\ call' = [call EXCEPT ![t].touched = Saturated(@, MaxTouched)]
    /\ turn' = [turn EXCEPT ![t] = s]
    /\ UNCHANGED <<stage, ret>>

\* ++touched, the operation answers DATASET_LOCKED at once, and dec().
TouchLocked(t, s) ==
    /\ AtNext(t) /\ StillTrying(t)
    /\ ~MutexFree(s) /\ "locked" \in Ops
    /\ GiveBack(t, s)
    /\ call' = [call EXCEPT ![t].touched = Saturated(@, MaxTouched), ![t].code = "locked"]
    /\ UNCHANGED <<stage, turn, ret>>

\* get_pixels at its TRYLOCK.
PixelsTryLock(t) ==
    /\ stage[t] = "try"
    /\ \/ PixelsLocks(t) /\ UNCHANGED call
       \/ PixelsRefused(t) /\ call' = [call EXCEPT ![t].code = "locked"]
    /\ UNCHANGED <<stage, turn, ret>>

\* The operation is over, with ATTEMPT_SUCCESSFUL or (FAILURE) an error code.
OpEnds(t, c) ==
    /\ stage[t] = "try"
    /\ OpUnlock(t)
    /\ call' = [call EXCEPT ![t].code = c,
                            ![t].done = @ \/ Succeeded(c),
                            ![t].wins = IF c = "ok" THEN Saturated(@, 2) ELSE @]
    /\ UNCHANGED <<stage, turn, ret>>

\* dec() after the operation.
GiveBackTurn(t) ==
    /\ stage[t] = "try" /\ turn[t] # 0
    /\ GiveBack(t, turn[t])
    /\ turn' = [turn EXCEPT ![t] = 0]
    /\ UNCHANGED <<stage, call, ret>>

\* The datasets after the one that succeeded.
GiveBackRest(t, s) ==
    /\ AtNext(t) /\ ~StillTrying(t)
    /\ GiveBack(t, s)
    /\ UNCHANGED bindVars

\* The list goes out of scope, and ++i.
AttemptEnds(t) ==
    /\ AtNext(t) /\ ListDone(t)
    /\ pc[t] = "got"
    /\ key' = [key EXCEPT ![t] = NoKey]
    /\ Goto(t, "idle")
    /\ call' = [call EXCEPT ![t].i = Saturated(@, MaxTries)]
    /\ Enter(t, "loop")
    /\ UNCHANGED <<slotVars, lockVars, cacheVars, copies, held, idx, best, want, stamp, cur,
                   turn, ret>>

-------------------------------------------------------------------------------

CallStep(t) ==
    \/ OutOfTime(t) \/ AttemptBegins(t) \/ EmptyList(t) \/ TryBegins(t) \/ LoopEnds(t)
    \/ Answered(t)
    \/ \E s \in Slots : Touch(t, s) \/ TouchLocked(t, s) \/ GiveBackRest(t, s)
    \/ PixelsTryLock(t)
    \/ \E c \in OpCodes : OpEnds(t, c)
    \/ GiveBackTurn(t) \/ AttemptEnds(t)

BNext ==
    \E t \in Threads :
        \/ \E k \in Keys, n \in Copies, a \in Attempts, b \in Timed : Call(t, k, n, a, b)
        \/ BadToken(t)
        \/ InCache(t) \/ CallStep(t)

BSpec == BInit /\ [][BNext]_allVars

\* A thread inside get() is scheduled, and the cache's lock lets in a thread that
\* finds it free again and again.  Nothing is assumed of the rest of a call: it
\* may stay in GDAL for ever, with its references and a dataset's mutex.
BFairness ==
    \A t \in Threads :
        /\ WF_allVars(InCache(t))
        /\ SF_allVars(stage[t] = "get" /\ RdLock(t) /\ UNCHANGED bindVars)
        /\ SF_allVars(stage[t] = "get" /\ WrLock(t) /\ UNCHANGED bindVars)

\* The rest of a call is scheduled, too, and GDAL comes back.
CallsGoOn == \A t \in Threads : WF_allVars(CallStep(t))

BFairSpec == BSpec /\ BFairness

-------------------------------------------------------------------------------
(* What makes the calls correct. *)

\* The callers use the cache as FlatLruCache says its users do: they operate on
\* and give back only what they list, once, and nothing between two calls.
CacheIsUsedWell == Spec

\* Between two calls a thread lists nothing and owns no mutex, whichever return
\* of DOIT it took: so when everybody is out, every reference is back.
NothingKept ==
    /\ \A t \in Threads :
           stage[t] \in {"out", "leave"} => held[t] = {} /\ \A s \in Slots : mutex[s] # t
    /\ (\A t \in Threads : stage[t] \in {"out", "leave"}) => \A s \in Slots : use[s] = 0

\* The operation succeeds at most once per call, so the caller's buffer is not
\* written again; a count is returned only if it did, and an error code only if
\* it did not.
AnswerIsTrue ==
    \A t \in Threads :
        /\ call[t].wins <= 1
        /\ ret[t] = "count" => call[t].wins = 1 /\ call[t].touched > 0
        /\ ret[t] \in {"error", "no_time", "no_dataset", "bad_token"} => call[t].wins = 0

\* A call does not give up early: unless its attempts are used up, or its time, it
\* answers neither ATTEMPTS_EXCEEDED nor an error of GDAL.  (With a negative number
\* of attempts it goes on until it succeeds, and is told ATTEMPTS_EXCEEDED then.)
NotGivenUpEarly ==
    \A t \in Threads :
        ret[t] \in {"exceeded", "error"} =>
            \/ call[t].attempts > 0 /\ call[t].i = call[t].attempts
            \/ call[t].attempts < 0 /\ call[t].wins = 1 /\ ret[t] = "exceeded"

\* How far a call with a number of attempts is from its answer: the attempts to
\* come, the stages of this one, and the steps of the stage.
AttemptsLeft(t) == call[t].attempts - call[t].i

StagesLeft(t) ==
    CASE stage[t] = "loop" -> 3
      [] stage[t] = "get"  -> 2
      [] stage[t] = "try"  -> 1
      [] OTHER             -> 0

TurnLeft(t) ==
    CASE turn[t] = 0       -> 3
      [] pc[t] = "peek"    -> 2
      [] pc[t] = "op"      -> 1
      [] OTHER             -> 0

StepsLeft(t) ==
    CASE stage[t] = "get"  -> Left(t)
      [] stage[t] = "try"  -> 4 * Cardinality(held[t]) + TurnLeft(t)
      [] OTHER             -> 0

ToDo(t) == <<AttemptsLeft(t), StagesLeft(t), StepsLeft(t)>>

\* The lexicographic order of such triples.
Nearer(p, q) ==
    \/ p[1] < q[1]
    \/ p[1] = q[1] /\ p[2] < q[2]
    \/ p[1] = q[1] /\ p[2] = q[2] /\ p[3] < q[3]

\* Every step of such a call brings it nearer to its answer, whatever is locked,
\* evicted or fails, and no step of another call sets it back (DOIT, TRY): it never
\* spins on a dataset, and makes no attempt more than it was allowed.
CallNearsItsEnd ==
    [][\A t \in Threads :
           stage[t] \in {"loop", "get", "try"} /\ call[t].attempts > 0 =>
               \/ ToDo(t)' \in Nat \X Nat \X Nat /\ Nearer(ToDo(t)', ToDo(t))
               \/ /\ ToDo(t)' = ToDo(t) /\ pc'[t] = pc[t] /\ stage'[t] = stage[t]
                  /\ call'[t] = call[t] /\ turn'[t] = turn[t]]_allVars

\* "If an attempt succeeds, return the number of attempts made": the call is not
\* reported to have run out of attempts.
SuccessIsReported ==
    \A t \in Threads : ret[t] = "exceeded" => call[t].wins = 0

\* If GDAL calls come back, a call with a finite number of attempts returns,
\* though other threads retry for ever.
CallReturns ==
    CallsGoOn =>
        \A t \in Threads : stage[t] # "out" /\ call[t].attempts > 0 ~> stage[t] = "leave"
===============================================================================
