---------------------------- MODULE BindingsProofs ----------------------------
(***************************************************************************)
(* What holds of the calls of the library for every number of callers and  *)
(* slots.  DOIT and TRY implement the specification of the cache's users,  *)
(* so every theorem about FlatLruCache holds here; with what the place in  *)
(* the macros says of the place in the cache, and of the local variables,  *)
(* that gives NothingKept and AnswerIsTrue.                                *)
(***************************************************************************)
EXTENDS Bindings, GetProofs

\* The types of the macros' variables; the arguments stay what they are.
CallInv ==
    /\ stage \in [Threads -> {"out", "loop", "get", "try", "leave"}]
    /\ call \in [Threads -> Calls]
    /\ turn \in [Threads -> Slots \cup {0}]
    /\ ret \in [Threads -> Answers]
    /\ \A t \in Threads :
           stage[t] \in {"loop", "get", "try"} => call[t].key \in Keys /\ call[t].copies \in Copies

\* The place in the macros and the place in the cache.
StageInv ==
    \A t \in Threads :
        /\ stage[t] \in {"out", "loop", "leave"} => pc[t] = "idle"
        /\ stage[t] = "get" => pc[t] \in InGet \cup {"got"}
        /\ stage[t] = "try" => pc[t] \in InOp \cup {"got"}
        /\ stage[t] = "try" /\ turn[t] = 0 => pc[t] = "got"
        /\ turn[t] # 0 => stage[t] = "try"

\* `done` and `code` agree with what has happened, and so does the answer.
DoneInv ==
    \A t \in Threads :
        /\ call[t].done <=> call[t].code = "ok"
        /\ call[t].wins = IF call[t].done THEN 1 ELSE 0
        /\ call[t].done \/ turn[t] # 0 => call[t].touched > 0
        /\ stage[t] \in {"out", "get"} \/ pc[t] \in InOp => ~call[t].done
        /\ stage[t] # "leave" => ret[t] = "none"
        /\ ret[t] = "count" => call[t].done
        /\ ret[t] \in {"error", "no_time", "no_dataset", "bad_token"} => ~call[t].done

\* What the index of the loop counts, and what is answered at its end.
IndexInv ==
    \A t \in Threads :
        /\ stage[t] \in {"get", "try"} => call[t].attempts <= 0 \/ call[t].i < call[t].attempts
        /\ stage[t] = "loop" => call[t].attempts <= 0 \/ call[t].i <= call[t].attempts
        /\ stage[t] = "loop" /\ call[t].done => call[t].i > 0
        /\ ret[t] \in {"exceeded", "error"} =>
               \/ call[t].attempts > 0 /\ call[t].i = call[t].attempts
               \/ call[t].attempts < 0 /\ call[t].wins = 1 /\ ret[t] = "exceeded"

-------------------------------------------------------------------------------
(* Updates of one field of the local variables of one call. *)

\* The fields that an update of `code`, `touched`, `done` or `wins` keeps.
SameArguments(r, q) ==
    r.key = q.key /\ r.copies = q.copies /\ r.attempts = q.attempts /\ r.i = q.i

LEMMA SetTouched ==
    ASSUME NEW f \in [Threads -> Calls], NEW t \in Threads, NEW n \in 0..MaxTouched
    PROVE  /\ [f EXCEPT ![t].touched = n] \in [Threads -> Calls]
           /\ \A u \in Threads : SameArguments([f EXCEPT ![t].touched = n][u], f[u])
<1>1. [f[t] EXCEPT !.touched = n] \in Calls BY DEF Calls
<1> QED BY <1>1 DEF Calls, SameArguments

LEMMA SetCode ==
    ASSUME NEW f \in [Threads -> Calls], NEW t \in Threads, NEW c \in Codes
    PROVE  /\ [f EXCEPT ![t].code = c] \in [Threads -> Calls]
           /\ \A u \in Threads : SameArguments([f EXCEPT ![t].code = c][u], f[u])
<1>1. [f[t] EXCEPT !.code = c] \in Calls BY DEF Calls
<1> QED BY <1>1 DEF Calls, SameArguments

LEMMA SetDone ==
    ASSUME NEW f \in [Threads -> Calls], NEW t \in Threads, NEW d \in BOOLEAN
    PROVE  /\ [f EXCEPT ![t].done = d] \in [Threads -> Calls]
           /\ \A u \in Threads : SameArguments([f EXCEPT ![t].done = d][u], f[u])
<1>1. [f[t] EXCEPT !.done = d] \in Calls BY DEF Calls
<1> QED BY <1>1 DEF Calls, SameArguments

LEMMA SetWins ==
    ASSUME NEW f \in [Threads -> Calls], NEW t \in Threads, NEW n \in 0..2
    PROVE  /\ [f EXCEPT ![t].wins = n] \in [Threads -> Calls]
           /\ \A u \in Threads : SameArguments([f EXCEPT ![t].wins = n][u], f[u])
<1>1. [f[t] EXCEPT !.wins = n] \in Calls BY DEF Calls
<1> QED BY <1>1 DEF Calls, SameArguments

\* ++i and ++touched stay within their bounds.
LEMMA SaturatedInRange ==
    /\ \A n \in 0..MaxTouched : Saturated(n, MaxTouched) \in 0..MaxTouched
    /\ \A n \in 0..MaxTries : Saturated(n, MaxTries) \in 0..MaxTries
    /\ \A n \in 0..2 : Saturated(n, 2) \in 0..2
  BY CallsAssumption DEF Saturated

\* What TouchLocked makes of the local variables.
LEMMA LockedUpdate ==
    ASSUME NEW f \in [Threads -> Calls], NEW t \in Threads
    PROVE  LET g == [f EXCEPT ![t].touched = Saturated(@, MaxTouched), ![t].code = "locked"]
           IN  g \in [Threads -> Calls] /\ \A u \in Threads : SameArguments(g[u], f[u])
<1> DEFINE mid == [f EXCEPT ![t].touched = Saturated(@, MaxTouched)]
<1>1. Saturated(f[t].touched, MaxTouched) \in 0..MaxTouched BY SaturatedInRange DEF Calls
<1>2. mid \in [Threads -> Calls] /\ \A u \in Threads : SameArguments(mid[u], f[u])
  BY <1>1, SetTouched
<1> HIDE DEF mid
<1> DEFINE g == [mid EXCEPT ![t].code = "locked"]
<1>3. g \in [Threads -> Calls] /\ \A u \in Threads : SameArguments(g[u], mid[u])
  BY <1>2, SetCode DEF Codes
<1> HIDE DEF g
<1>4. \A u \in Threads : SameArguments(g[u], f[u]) BY <1>2, <1>3 DEF SameArguments
<1> QED BY <1>3, <1>4 DEF g, mid

\* What OpEnds makes of them.
LEMMA EndUpdate ==
    ASSUME NEW f \in [Threads -> Calls], NEW t \in Threads, NEW c \in OpCodes
    PROVE  LET g == [f EXCEPT ![t].code = c, ![t].done = @ \/ Succeeded(c),
                              ![t].wins = IF c = "ok" THEN Saturated(@, 2) ELSE @]
           IN  g \in [Threads -> Calls] /\ \A u \in Threads : SameArguments(g[u], f[u])
<1> DEFINE one == [f EXCEPT ![t].code = c]
<1>1. one \in [Threads -> Calls] /\ \A u \in Threads : SameArguments(one[u], f[u])
  BY CallsAssumption, SetCode DEF Codes
<1> HIDE DEF one
<1> DEFINE two == [one EXCEPT ![t].done = @ \/ Succeeded(c)]
<1>2. two \in [Threads -> Calls] /\ \A u \in Threads : SameArguments(two[u], one[u])
  BY <1>1, SetDone
<1> HIDE DEF two
<1> DEFINE g == [two EXCEPT ![t].wins = IF c = "ok" THEN Saturated(@, 2) ELSE @]
<1>3. g \in [Threads -> Calls] /\ \A u \in Threads : SameArguments(g[u], two[u])
  <2>1. two[t].wins \in 0..2 BY <1>2 DEF Calls
  <2>2. (IF c = "ok" THEN Saturated(two[t].wins, 2) ELSE two[t].wins) \in 0..2
    BY <2>1, SaturatedInRange
  <2> QED BY <1>2, <2>2, SetWins
<1> HIDE DEF g
<1>4. \A u \in Threads : SameArguments(g[u], f[u]) BY <1>1, <1>2, <1>3 DEF SameArguments
<1> QED BY <1>3, <1>4 DEF g, two, one

-------------------------------------------------------------------------------
(* The cache is used as its specification says. *)

LEMMA CallsStayTyped ==
    ASSUME CallInv, [BNext]_allVars
    PROVE  CallInv'
<1> USE DEF CallInv, Enter, Leave
<1>1. ASSUME NEW t \in Threads, NEW k \in Keys, NEW n \in Copies, NEW a \in Attempts,
             NEW b \in Timed, Call(t, k, n, a, b)
      PROVE  CallInv'
  BY <1>1, CallsAssumption DEF Call, NewCall, Calls, Codes
<1>2. ASSUME NEW t \in Threads, BadToken(t) PROVE CallInv'
  BY <1>2 DEF BadToken, Answers
<1>3. ASSUME NEW t \in Threads, Answered(t) PROVE CallInv'
  BY <1>3, CallsAssumption DEF Answered, NoCall, NewCall, Calls, Codes, Answers
<1>4. ASSUME NEW t \in Threads, OutOfTime(t) \/ EmptyList(t) PROVE CallInv'
  BY <1>4 DEF OutOfTime, EmptyList, Answers
<1>5. ASSUME NEW t \in Threads, LoopEnds(t) PROVE CallInv'
  <2>1. Verdict(call[t]) \in Answers BY DEF Verdict, Calls, Answers
  <2> QED BY <1>5, <2>1 DEF LoopEnds
<1>6. ASSUME NEW t \in Threads, AttemptBegins(t) \/ TryBegins(t) PROVE CallInv'
  BY <1>6 DEF AttemptBegins, TryBegins
<1>7. ASSUME NEW t \in Threads, NEW s \in Slots, Touch(t, s) PROVE CallInv'
  BY <1>7, SaturatedInRange DEF Touch, AtNext, Calls
<1>8. ASSUME NEW t \in Threads, NEW s \in Slots, TouchLocked(t, s) PROVE CallInv'
  <2>1. call' \in [Threads -> Calls] /\ \A u \in Threads : SameArguments(call'[u], call[u])
    BY <1>8, LockedUpdate DEF TouchLocked
  <2> QED BY <1>8, <2>1 DEF TouchLocked, SameArguments
<1>9. ASSUME NEW t \in Threads, PixelsTryLock(t) PROVE CallInv'
  <2>1. CASE UNCHANGED call BY <1>9, <2>1 DEF PixelsTryLock
  <2>2. CASE call' = [call EXCEPT ![t].code = "locked"]
    <3>1. call' \in [Threads -> Calls] /\ \A u \in Threads : SameArguments(call'[u], call[u])
      BY <2>2, SetCode DEF Codes
    <3> QED BY <1>9, <3>1 DEF PixelsTryLock, SameArguments
  <2> QED BY <1>9, <2>1, <2>2 DEF PixelsTryLock
<1>10. ASSUME NEW t \in Threads, NEW c \in OpCodes, OpEnds(t, c) PROVE CallInv'
  <2>1. call' \in [Threads -> Calls] /\ \A u \in Threads : SameArguments(call'[u], call[u])
    BY <1>10, EndUpdate DEF OpEnds
  <2> QED BY <1>10, <2>1 DEF OpEnds, SameArguments
<1>11. ASSUME NEW t \in Threads, GiveBackTurn(t) PROVE CallInv'
  BY <1>11 DEF GiveBackTurn
<1>12. ASSUME NEW t \in Threads, AttemptEnds(t) PROVE CallInv'
  BY <1>12, SaturatedInRange DEF AttemptEnds, AtNext, Calls
<1>13. CASE UNCHANGED bindVars
  BY <1>13 DEF bindVars
<1> QED
  BY <1>1, <1>2, <1>3, <1>4, <1>5, <1>6, <1>7, <1>8, <1>9, <1>10, <1>11, <1>12, <1>13
  DEF BNext, CallStep, InCache, GiveBackRest, allVars

\* What a thread's step in the macros is in the cache.
LEMMA StepIsThreadStep ==
    ASSUME CallInv, NEW t \in Threads, InCache(t) \/ CallStep(t)
    PROVE  ThreadStep(t) \/ UNCHANGED vars
<1>1. ASSUME InCache(t) PROVE ThreadStep(t)
  BY <1>1 DEF InCache, ThreadStep
<1>2. ASSUME AttemptBegins(t) PROVE ThreadStep(t)
  <2>1. PICK k \in Keys, n \in Copies : Get(t, k, n)
    BY <1>2 DEF AttemptBegins, CallInv
  <2> QED BY <2>1 DEF ThreadStep
<1>3. ASSUME EmptyList(t) PROVE ThreadStep(t)
  BY <1>3 DEF EmptyList, ThreadStep, UseStep
<1>4. ASSUME AttemptEnds(t) PROVE ThreadStep(t)
  <2>1. Return(t) BY <1>4 DEF AttemptEnds, ListDone, Return
  <2> QED BY <2>1 DEF ThreadStep, UseStep
<1>5. ASSUME NEW s \in Slots, Touch(t, s) \/ TouchLocked(t, s) \/ GiveBackRest(t, s)
      PROVE  ThreadStep(t)
  BY <1>5 DEF Touch, TouchLocked, GiveBackRest, GiveBack, ThreadStep, UseStep
<1>6. ASSUME GiveBackTurn(t) PROVE ThreadStep(t)
  <2>1. PICK s \in Slots : s = turn[t] BY <1>6 DEF GiveBackTurn, CallInv
  <2>2. Dec(t, s) BY <1>6, <2>1 DEF GiveBackTurn, GiveBack
  <2> QED BY <2>2 DEF ThreadStep, UseStep
<1>7. ASSUME PixelsTryLock(t) PROVE ThreadStep(t)
  BY <1>7 DEF PixelsTryLock, ThreadStep, UseStep
<1>8. ASSUME NEW c \in OpCodes, OpEnds(t, c) PROVE ThreadStep(t)
  BY <1>8 DEF OpEnds, ThreadStep, UseStep
<1>9. ASSUME OutOfTime(t) \/ TryBegins(t) \/ LoopEnds(t) \/ Answered(t)
      PROVE  UNCHANGED vars
  BY <1>9 DEF OutOfTime, TryBegins, LoopEnds, Answered
<1> QED BY <1>1, <1>2, <1>3, <1>4, <1>5, <1>6, <1>7, <1>8, <1>9 DEF CallStep

LEMMA StepIsCacheStep ==
    ASSUME CallInv, [BNext]_allVars
    PROVE  [Next]_vars
<1>1. ASSUME NEW t \in Threads, NEW k \in Keys, NEW n \in Copies, NEW a \in Attempts,
             NEW b \in Timed, Call(t, k, n, a, b)
      PROVE  UNCHANGED vars
  BY <1>1 DEF Call
<1>2. ASSUME NEW t \in Threads, BadToken(t) PROVE UNCHANGED vars
  BY <1>2 DEF BadToken
<1>3. CASE UNCHANGED allVars
  BY <1>3 DEF allVars
<1>4. CASE BNext
  <2> PICK t \in Threads :
         \/ \E k \in Keys, n \in Copies, a \in Attempts, b \in Timed : Call(t, k, n, a, b)
         \/ BadToken(t)
         \/ InCache(t) \/ CallStep(t)
    BY <1>4 DEF BNext
  <2> QED BY <1>1, <1>2, StepIsThreadStep DEF Next
<1> QED BY <1>3, <1>4

LEMMA InitCallInv == BInit => CallInv
  BY CallsAssumption DEF BInit, CallInv, NoCall, NewCall, Calls, Codes, Answers

\* DOIT and TRY use the cache as FlatLruCache says its users do.
THEOREM CallsUseCacheWell == BSpec => CacheIsUsedWell
<1>1. BInit => Init BY DEF BInit
<1>2. CallInv /\ [BNext]_allVars => CallInv' BY CallsStayTyped
<1>3. CallInv /\ [BNext]_allVars => [Next]_vars BY StepIsCacheStep
<1> QED BY <1>1, <1>2, <1>3, InitCallInv, PTL DEF BSpec, CacheIsUsedWell, Spec

LEMMA CallsTyped == BSpec => []CallInv
<1>1. CallInv /\ [BNext]_allVars => CallInv' BY CallsStayTyped
<1> QED BY <1>1, InitCallInv, PTL DEF BSpec

\* So does the cache's invariant hold of the calls.
LEMMA CacheInvariant == BSpec => []IInv
  BY CallsUseCacheWell, Invariance, PTL DEF CacheIsUsedWell

\* Type correctness of the calls, for any number of threads, slots and attempts.
THEOREM CallsTypeCorrect == BSpec => []BTypeOK
<1>1. IInv /\ CallInv => BTypeOK BY DEF IInv, CallInv, BTypeOK
<1> QED BY <1>1, CallsTyped, CacheInvariant, PTL

-------------------------------------------------------------------------------
(* What the place in the macros says of the place in the cache. *)

LEMMA StageStep ==
    ASSUME TypeOK, CallInv, StageInv, [BNext]_allVars
    PROVE  StageInv'
<1> USE SlotFacts DEF TypeOK, ThreadsOK, CallInv, StageInv, Enter, Leave, Goto
<1>1. ASSUME NEW t \in Threads, NEW k \in Keys, NEW n \in Copies, NEW a \in Attempts,
             NEW b \in Timed, Call(t, k, n, a, b)
      PROVE  StageInv'
  BY <1>1 DEF Call, vars
<1>2. ASSUME NEW t \in Threads, BadToken(t) \/ Answered(t) \/ OutOfTime(t) \/ LoopEnds(t)
      PROVE  StageInv'
  BY <1>2 DEF BadToken, Answered, OutOfTime, LoopEnds, vars
<1>3. ASSUME NEW t \in Threads, AttemptBegins(t) PROVE StageInv'
  BY <1>3 DEF AttemptBegins, Get, InGet
<1>4. ASSUME NEW t \in Threads, InCache(t) PROVE StageInv'
  <2>1. /\ \A u \in Threads \ {t} : pc'[u] = pc[u]
        /\ pc'[t] \in InGet \cup {"got"}
    BY <1>4 DEF InCache, GetStep, RdLock, WrLock, FindHit, Stamp, FindMiss, RdUnlock, AfterFind,
         TryWrLockSucceeds, TryWrLockFails, InsertBegins, WrUnlock, ScanSkips, ScanLocks,
         CheckUsed, CheckUnused, NoVictim, VictimFound, OpenSucceeds, OpenFails, Publish,
         Replace, Take, InGet, ReadSection, WriteSection
  <2> QED BY <1>4, <2>1 DEF InCache, bindVars
<1>5. ASSUME NEW t \in Threads, EmptyList(t) PROVE StageInv'
  BY <1>5 DEF EmptyList, Return
<1>6. ASSUME NEW t \in Threads, TryBegins(t) PROVE StageInv'
  BY <1>6 DEF TryBegins, vars
<1>7. ASSUME NEW t \in Threads, NEW s \in Slots, Touch(t, s) PROVE StageInv'
  BY <1>7 DEF Touch, AtNext, OpTryLock, PixelsBand, InOp
<1>8. ASSUME NEW t \in Threads, NEW s \in Slots, TouchLocked(t, s) \/ GiveBackRest(t, s)
      PROVE  StageInv'
  BY <1>8 DEF TouchLocked, GiveBackRest, GiveBack, Dec, bindVars
<1>9. ASSUME NEW t \in Threads, PixelsTryLock(t) PROVE StageInv'
  BY <1>9 DEF PixelsTryLock, PixelsLocks, PixelsRefused, InOp
<1>10. ASSUME NEW t \in Threads, NEW c \in OpCodes, OpEnds(t, c) PROVE StageInv'
  BY <1>10 DEF OpEnds, OpUnlock
<1>11. ASSUME NEW t \in Threads, GiveBackTurn(t) PROVE StageInv'
  BY <1>11 DEF GiveBackTurn, GiveBack, Dec
<1>12. ASSUME NEW t \in Threads, AttemptEnds(t) PROVE StageInv'
  BY <1>12 DEF AttemptEnds, AtNext
<1>13. CASE UNCHANGED allVars
  BY <1>13 DEF allVars, vars, bindVars
<1>14. ASSUME NEW t \in Threads, CallStep(t) PROVE StageInv'
  BY <1>14, <1>2, <1>3, <1>5, <1>6, <1>7, <1>8, <1>9, <1>10, <1>11, <1>12 DEF CallStep
<1>15. CASE BNext
  <2> PICK t \in Threads :
         \/ \E k \in Keys, n \in Copies, a \in Attempts, b \in Timed : Call(t, k, n, a, b)
         \/ BadToken(t)
         \/ InCache(t) \/ CallStep(t)
    BY <1>15 DEF BNext
  <2> QED BY <1>1, <1>2, <1>4, <1>14
<1> QED BY <1>13, <1>15

LEMMA StagesHold == BSpec => []StageInv
<1>1. BInit => StageInv BY DEF BInit, Init, StageInv
<1>2. TypeOK /\ CallInv /\ StageInv /\ [BNext]_allVars => StageInv' BY StageStep
<1>3. IInv => TypeOK BY DEF IInv
<1> QED BY <1>1, <1>2, <1>3, CallsTyped, CacheInvariant, PTL DEF BSpec

\* If every open succeeds, nothing is kept between two calls, whichever return of
\* DOIT was taken (a failed open strands the mutex of its slot).
THEOREM NothingIsKept ==
    ASSUME OpenOutcomes = {"open"} PROVE BSpec => []NothingKept
<1>1. ASSUME IInv, StageInv, CallInv, NoStrandedLock PROVE NothingKept
  <2> USE <1>1 DEF IInv, TypeOK, ThreadsOK
  <2>1. ASSUME NEW t \in Threads, stage[t] \in {"out", "leave"}
        PROVE  held[t] = {} /\ \A s \in Slots : mutex[s] # t
    <3>1. pc[t] = "idle" BY <2>1 DEF StageInv
    <3> QED BY <3>1 DEF SearchInv, NoStrandedLock
  <2>2. ASSUME \A t \in Threads : stage[t] \in {"out", "leave"}, NEW s \in Slots
        PROVE  use[s] = 0
    <3>1. {t \in Threads : s \in held[t]} = {} BY <2>1, <2>2
    <3> QED BY <3>1, FS_EmptySet DEF RefCountExact
  <2> QED BY <2>1, <2>2 DEF NothingKept
<1>2. BSpec => []NoStrandedLock
  BY CallsUseCacheWell, NoMutexStranded, PTL DEF CacheIsUsedWell
<1> QED BY <1>1, <1>2, CallsTyped, CacheInvariant, StagesHold, PTL

-------------------------------------------------------------------------------
(* What `done` and `code` say of the call. *)

\* The fields they write.
LEMMA LockedFields ==
    ASSUME NEW f \in [Threads -> Calls], NEW t \in Threads
    PROVE  LET g == [f EXCEPT ![t].touched = Saturated(@, MaxTouched), ![t].code = "locked"]
           IN  /\ \A u \in Threads \ {t} : g[u] = f[u]
               /\ g[t].code = "locked" /\ g[t].done = f[t].done /\ g[t].wins = f[t].wins
               /\ g[t].touched = Saturated(f[t].touched, MaxTouched)
  BY DEF Calls

LEMMA EndFields ==
    ASSUME NEW f \in [Threads -> Calls], NEW t \in Threads, NEW c \in OpCodes
    PROVE  LET g == [f EXCEPT ![t].code = c, ![t].done = @ \/ Succeeded(c),
                              ![t].wins = IF c = "ok" THEN Saturated(@, 2) ELSE @]
           IN  /\ \A u \in Threads \ {t} : g[u] = f[u]
               /\ g[t].code = c /\ g[t].done = (f[t].done \/ Succeeded(c))
               /\ g[t].wins = IF c = "ok" THEN Saturated(f[t].wins, 2) ELSE f[t].wins
               /\ g[t].touched = f[t].touched
  BY DEF Calls

LEMMA DoneStep ==
    ASSUME TypeOK, CallInv, StageInv, DoneInv, [BNext]_allVars
    PROVE  DoneInv'
<1> USE SlotFacts DEF TypeOK, ThreadsOK, CallInv, StageInv, DoneInv, Enter, Leave, Goto
<1>1. ASSUME NEW t \in Threads, NEW k \in Keys, NEW n \in Copies, NEW a \in Attempts,
             NEW b \in Timed, Call(t, k, n, a, b)
      PROVE  DoneInv'
  BY <1>1 DEF Call, NewCall, vars
<1>2. ASSUME NEW t \in Threads, BadToken(t) PROVE DoneInv'
  BY <1>2 DEF BadToken, vars
<1>3. ASSUME NEW t \in Threads, Answered(t) PROVE DoneInv'
  BY <1>3 DEF Answered, NoCall, NewCall, vars, InOp
<1>4. ASSUME NEW t \in Threads, OutOfTime(t) PROVE DoneInv'
  BY <1>4 DEF OutOfTime, GoesOn, vars
<1>5. ASSUME NEW t \in Threads, LoopEnds(t) PROVE DoneInv'
  <2>1. /\ Verdict(call[t]) = "count" => call[t].code = "ok"
        /\ Verdict(call[t]) \in {"error", "no_time", "no_dataset", "bad_token"} =>
               call[t].code # "ok"
    BY DEF Verdict, Calls, Codes
  <2> QED BY <1>5, <2>1 DEF LoopEnds, vars
<1>6. ASSUME NEW t \in Threads, AttemptBegins(t) PROVE DoneInv'
  BY <1>6 DEF AttemptBegins, Get, GoesOn, InOp
<1>7. ASSUME NEW t \in Threads, InCache(t) PROVE DoneInv'
  <2>1. /\ \A u \in Threads \ {t} : pc'[u] = pc[u]
        /\ pc'[t] \notin InOp
    BY <1>7 DEF InCache, GetStep, RdLock, WrLock, FindHit, Stamp, FindMiss, RdUnlock, AfterFind,
         TryWrLockSucceeds, TryWrLockFails, InsertBegins, WrUnlock, ScanSkips, ScanLocks,
         CheckUsed, CheckUnused, NoVictim, VictimFound, OpenSucceeds, OpenFails, Publish,
         Replace, Take, InOp
  <2> QED BY <1>7, <2>1 DEF InCache, bindVars
<1>8. ASSUME NEW t \in Threads, EmptyList(t) PROVE DoneInv'
  BY <1>8 DEF EmptyList, Return, InOp
<1>9. ASSUME NEW t \in Threads, TryBegins(t) PROVE DoneInv'
  BY <1>9 DEF TryBegins, vars
<1>10. ASSUME NEW t \in Threads, NEW s \in Slots, Touch(t, s) PROVE DoneInv'
  <2>1. Saturated(call[t].touched, MaxTouched) > 0 BY CallsAssumption DEF Saturated, Calls
  <2>2. /\ \A u \in Threads \ {t} : pc'[u] = pc[u] /\ call'[u] = call[u] /\ turn'[u] = turn[u]
        /\ call'[t].touched > 0 /\ ~call[t].done
        /\ call'[t].code = call[t].code /\ call'[t].done = call[t].done
        /\ call'[t].wins = call[t].wins
        /\ UNCHANGED <<stage, ret>>
    BY <1>10, <2>1 DEF Touch, StillTrying, OpTryLock, PixelsBand, Calls
  <2> QED BY <1>10, <2>2 DEF Touch, AtNext
<1>11. ASSUME NEW t \in Threads, NEW s \in Slots, TouchLocked(t, s) PROVE DoneInv'
  <2>1. Saturated(call[t].touched, MaxTouched) > 0 BY CallsAssumption DEF Saturated, Calls
  <2>2. /\ \A u \in Threads \ {t} : call'[u] = call[u]
        /\ call'[t].touched > 0 /\ ~call[t].done
        /\ call'[t].code = "locked" /\ call'[t].done = call[t].done
        /\ call'[t].wins = call[t].wins
        /\ UNCHANGED <<stage, turn, ret, pc>>
    BY <1>11, <2>1, LockedFields DEF TouchLocked, StillTrying, GiveBack, Dec
  <2> QED BY <1>11, <2>2 DEF TouchLocked, AtNext
<1>12. ASSUME NEW t \in Threads, PixelsTryLock(t) PROVE DoneInv'
  <2>1. /\ \A u \in Threads \ {t} : pc'[u] = pc[u] /\ call'[u] = call[u]
        /\ pc[t] \in InOp
        /\ call'[t].code \in {call[t].code, "locked"} /\ call'[t].done = call[t].done
        /\ call'[t].wins = call[t].wins /\ call'[t].touched = call[t].touched
        /\ UNCHANGED <<stage, turn, ret>>
    BY <1>12 DEF PixelsTryLock, PixelsLocks, PixelsRefused, InOp, Calls
  <2> QED BY <2>1
<1>13. ASSUME NEW t \in Threads, NEW c \in OpCodes, OpEnds(t, c) PROVE DoneInv'
  <2>1. pc[t] \in InOp /\ pc'[t] \notin InOp /\ \A u \in Threads \ {t} : pc'[u] = pc[u]
    BY <1>13 DEF OpEnds, OpUnlock, InOp
  <2>2. ~call[t].done /\ call[t].wins = 0 /\ turn[t] # 0 /\ stage[t] = "try"
    BY <1>13, <2>1 DEF OpEnds, InOp
  <2>3. /\ \A u \in Threads \ {t} : call'[u] = call[u]
        /\ call'[t].code = c /\ call'[t].done = (call[t].done \/ Succeeded(c))
        /\ call'[t].wins = (IF c = "ok" THEN Saturated(call[t].wins, 2) ELSE call[t].wins)
        /\ call'[t].touched = call[t].touched
        /\ UNCHANGED <<stage, turn, ret>>
    BY <1>13, EndFields DEF OpEnds
  <2>4. Saturated(0, 2) = 1 BY DEF Saturated
  <2>5. call'[t].done <=> c = "ok"
    <3>1. call'[t].done = (call[t].done \/ c = "ok") BY ONLY <2>3 DEF Succeeded
    <3> QED BY ONLY <2>2, <3>1
  <2>6. call'[t].wins = IF c = "ok" THEN 1 ELSE 0
    BY ONLY <2>2, <2>3, <2>4
  <2> QED BY <2>1, <2>2, <2>3, <2>5, <2>6
<1>14. ASSUME NEW t \in Threads, GiveBackTurn(t) PROVE DoneInv'
  BY <1>14 DEF GiveBackTurn, GiveBack, Dec
<1>15. ASSUME NEW t \in Threads, NEW s \in Slots, GiveBackRest(t, s) PROVE DoneInv'
  BY <1>15 DEF GiveBackRest, GiveBack, Dec, bindVars
<1>16. ASSUME NEW t \in Threads, AttemptEnds(t) PROVE DoneInv'
  BY <1>16 DEF AttemptEnds, AtNext, Calls, InOp
<1>17. CASE UNCHANGED allVars
  BY <1>17 DEF allVars, vars, bindVars
<1>18. ASSUME NEW t \in Threads, CallStep(t) PROVE DoneInv'
  BY <1>18, <1>3, <1>4, <1>5, <1>6, <1>8, <1>9, <1>10, <1>11, <1>12, <1>13, <1>14, <1>15, <1>16
     DEF CallStep
<1>19. CASE BNext
  <2> PICK t \in Threads :
         \/ \E k \in Keys, n \in Copies, a \in Attempts, b \in Timed : Call(t, k, n, a, b)
         \/ BadToken(t)
         \/ InCache(t) \/ CallStep(t)
    BY <1>19 DEF BNext
  <2> QED BY <1>1, <1>2, <1>7, <1>18
<1> QED BY <1>17, <1>19

\* The caller's buffer is written at most once per call, and the answer says
\* whether it was: for any number of attempts, datasets and threads.
THEOREM AnswersAreTrue == BSpec => []AnswerIsTrue
<1>1. BInit => DoneInv
  BY DEF BInit, Init, DoneInv, NoCall, NewCall, InOp
<1>2. TypeOK /\ CallInv /\ StageInv /\ DoneInv /\ [BNext]_allVars => DoneInv' BY DoneStep
<1>3. IInv => TypeOK BY DEF IInv
<1>4. DoneInv => AnswerIsTrue BY DEF DoneInv, AnswerIsTrue
<1> QED BY <1>1, <1>2, <1>3, <1>4, CallsTyped, CacheInvariant, StagesHold, PTL DEF BSpec

-------------------------------------------------------------------------------
(* What the index of the loop says of the attempts. *)

LEMMA AttemptsAreBounded ==
    ASSUME CallInv, NEW t \in Threads
    PROVE  /\ call[t].attempts \in Int /\ call[t].attempts <= MaxTries
           /\ call[t].i \in Nat /\ MaxTries \in Nat \ {0}
<1>1. call[t].attempts \in Attempts \cup {0} /\ call[t].i \in 0..MaxTries
  BY DEF CallInv, Calls
<1>2. MaxTries \in Nat \ {0} /\ \A a \in Attempts : a \in Int /\ a <= MaxTries
  BY CallsAssumption
<1> QED BY ONLY <1>1, <1>2

\* The answer that the end of the loop gives.
LEMMA VerdictIsLate ==
    ASSUME CallInv, DoneInv, IndexInv, NEW t \in Threads,
           stage[t] = "loop", ~GoesOn(t), Verdict(call[t]) \in {"exceeded", "error"}
    PROVE  \/ call[t].attempts > 0 /\ call[t].i = call[t].attempts
           \/ call[t].attempts < 0 /\ call[t].wins = 1 /\ Verdict(call[t]) = "exceeded"
<1>1. call[t].attempts \in Int /\ call[t].i \in Nat BY AttemptsAreBounded
<1>2. CASE call[t].done
  <2>1. call[t].code = "ok" /\ call[t].wins = 1 /\ call[t].i > 0
    BY <1>2 DEF DoneInv, IndexInv
  <2>2. ~(call[t].i < call[t].attempts \/ call[t].attempts = 0) /\ Verdict(call[t]) = "exceeded"
    BY <2>1 DEF Verdict
  <2>3. call[t].attempts <= 0 \/ call[t].i <= call[t].attempts BY DEF IndexInv
  <2> QED BY <1>1, <2>1, <2>2, <2>3
<1>3. CASE ~call[t].done
  <2>1. ~(call[t].i < call[t].attempts \/ call[t].attempts <= 0) BY <1>3 DEF GoesOn
  <2>2. call[t].attempts <= 0 \/ call[t].i <= call[t].attempts BY DEF IndexInv
  <2> QED BY <1>1, <2>1, <2>2
<1> QED BY <1>2, <1>3

LEMMA IndexStep ==
    ASSUME TypeOK, CallInv, StageInv, DoneInv, IndexInv, [BNext]_allVars
    PROVE  IndexInv'
<1> USE DEF CallInv, IndexInv, Enter, Leave
<1>0. \A t \in Threads : stage[t] # "leave" => ret[t] = "none" BY DEF DoneInv
<1>1. ASSUME NEW t \in Threads, NEW k \in Keys, NEW n \in Copies, NEW a \in Attempts,
             NEW b \in Timed, Call(t, k, n, a, b)
      PROVE  IndexInv'
  <2>1. a \in Int /\ 0 \in Int BY CallsAssumption
  <2> QED BY <1>0, <1>1, <2>1 DEF Call, NewCall
<1>2. ASSUME NEW t \in Threads, BadToken(t) \/ OutOfTime(t) \/ EmptyList(t) PROVE IndexInv'
  BY <1>2 DEF BadToken, OutOfTime, EmptyList
<1>3. ASSUME NEW t \in Threads, Answered(t) PROVE IndexInv'
  BY <1>3 DEF Answered
<1>4. ASSUME NEW t \in Threads, LoopEnds(t) PROVE IndexInv'
  BY <1>4, VerdictIsLate DEF LoopEnds
<1>5. ASSUME NEW t \in Threads, AttemptBegins(t) PROVE IndexInv'
  <2>1. call[t].attempts \in Int /\ call[t].i \in Nat BY AttemptsAreBounded
  <2> QED BY <1>5, <2>1 DEF AttemptBegins, GoesOn
<1>6. ASSUME NEW t \in Threads, InCache(t) \/ TryBegins(t) PROVE IndexInv'
  BY <1>6 DEF InCache, TryBegins, bindVars
<1>7. ASSUME NEW t \in Threads, stage[t] = "try", UNCHANGED <<stage, ret>>,
             \A u \in Threads : SameArguments(call'[u], call[u]),
             \A u \in Threads \ {t} : call'[u] = call[u]
      PROVE  IndexInv'
  BY <1>0, <1>7 DEF SameArguments
<1>8. ASSUME NEW t \in Threads, NEW s \in Slots, Touch(t, s) PROVE IndexInv'
  <2>1. \A u \in Threads : SameArguments(call'[u], call[u])
    BY <1>8 DEF Touch, SameArguments, Calls
  <2>2. \A u \in Threads \ {t} : call'[u] = call[u] BY <1>8 DEF Touch
  <2> QED BY <1>7, <1>8, <2>1, <2>2 DEF Touch, AtNext
<1>9. ASSUME NEW t \in Threads, NEW s \in Slots, TouchLocked(t, s) PROVE IndexInv'
  <2>1. \A u \in Threads : SameArguments(call'[u], call[u])
    BY <1>9, LockedUpdate DEF TouchLocked
  <2>2. \A u \in Threads \ {t} : call'[u] = call[u] BY <1>9, LockedFields DEF TouchLocked
  <2> QED BY <1>7, <1>9, <2>1, <2>2 DEF TouchLocked, AtNext
<1>10. ASSUME NEW t \in Threads, PixelsTryLock(t) PROVE IndexInv'
  <2>1. \A u \in Threads : SameArguments(call'[u], call[u])
    <3>1. CASE UNCHANGED call BY <3>1 DEF SameArguments
    <3>2. CASE call' = [call EXCEPT ![t].code = "locked"] BY <3>2, SetCode DEF Codes
    <3> QED BY <1>10, <3>1, <3>2 DEF PixelsTryLock
  <2>2. \A u \in Threads \ {t} : call'[u] = call[u] BY <1>10 DEF PixelsTryLock
  <2> QED BY <1>7, <1>10, <2>1, <2>2 DEF PixelsTryLock
<1>11. ASSUME NEW t \in Threads, NEW c \in OpCodes, OpEnds(t, c) PROVE IndexInv'
  <2>1. \A u \in Threads : SameArguments(call'[u], call[u]) BY <1>11, EndUpdate DEF OpEnds
  <2>2. \A u \in Threads \ {t} : call'[u] = call[u] BY <1>11, EndFields DEF OpEnds
  <2> QED BY <1>7, <1>11, <2>1, <2>2 DEF OpEnds
<1>12. ASSUME NEW t \in Threads, GiveBackTurn(t) \/ \E s \in Slots : GiveBackRest(t, s)
       PROVE  IndexInv'
  BY <1>12 DEF GiveBackTurn, GiveBackRest, bindVars
<1>13. ASSUME NEW t \in Threads, AttemptEnds(t) PROVE IndexInv'
  <2> DEFINE n == Saturated(call[t].i, MaxTries)
  <2>1. n > 0 /\ (call[t].attempts <= 0 \/ n <= call[t].attempts)
    BY <1>13, AttemptsAreBounded DEF AttemptEnds, AtNext, Saturated
  <2>2. /\ stage[t] = "try" /\ stage' = [stage EXCEPT ![t] = "loop"] /\ UNCHANGED ret
        /\ call' = [call EXCEPT ![t].i = n]
    BY <1>13 DEF AttemptEnds, AtNext
  <2> HIDE DEF n
  <2>3. call'[t].i = n /\ call'[t].attempts = call[t].attempts BY <2>2 DEF Calls
  <2>4. \A u \in Threads \ {t} : call'[u] = call[u] /\ stage'[u] = stage[u] BY <2>2
  <2>5. ret'[t] = "none" /\ stage'[t] = "loop" BY <1>0, <2>2
  <2> QED BY <2>1, <2>2, <2>3, <2>4, <2>5
<1>14. CASE UNCHANGED allVars
  BY <1>14 DEF allVars, bindVars
<1>15. ASSUME NEW t \in Threads, CallStep(t) PROVE IndexInv'
  BY <1>15, <1>2, <1>3, <1>4, <1>5, <1>6, <1>8, <1>9, <1>10, <1>11, <1>12, <1>13 DEF CallStep
<1>16. CASE BNext
  <2> PICK t \in Threads :
         \/ \E k \in Keys, n \in Copies, a \in Attempts, b \in Timed : Call(t, k, n, a, b)
         \/ BadToken(t)
         \/ InCache(t) \/ CallStep(t)
    BY <1>16 DEF BNext
  <2> QED BY <1>1, <1>2, <1>6, <1>15
<1> QED BY <1>14, <1>16

\* Whatever the other callers lock and evict meanwhile, a call with a number of
\* attempts makes all of them before it answers that it failed.
THEOREM AttemptsAreUsedUp == BSpec => []NotGivenUpEarly
<1>1. BInit => DoneInv /\ IndexInv
  BY DEF BInit, Init, DoneInv, IndexInv, NoCall, NewCall, InOp
<1>2. TypeOK /\ CallInv /\ StageInv /\ DoneInv /\ IndexInv /\ [BNext]_allVars =>
          DoneInv' /\ IndexInv'
  BY DoneStep, IndexStep
<1>3. IInv => TypeOK BY DEF IInv
<1>4. IndexInv => NotGivenUpEarly BY DEF IndexInv, NotGivenUpEarly
<1> QED BY <1>1, <1>2, <1>3, <1>4, CallsTyped, CacheInvariant, StagesHold, PTL DEF BSpec

-------------------------------------------------------------------------------
(* Every call with a number of attempts comes to its answer. *)

\* The other calls' variables.
LEMMA OthersCalls ==
    ASSUME CallInv, TypeOK, NEW t \in Threads, NEW u \in Threads, u # t,
           \/ \E k \in Keys, n \in Copies, a \in Attempts, b \in Timed : Call(u, k, n, a, b)
           \/ BadToken(u) \/ InCache(u) \/ CallStep(u)
    PROVE  /\ stage'[t] = stage[t] /\ call'[t] = call[t] /\ turn'[t] = turn[t]
           /\ pc'[t] = pc[t] /\ held'[t] = held[t] /\ Left(t)' = Left(t)
<1> USE DEF CallInv, Enter, Leave
<1>1. stage'[t] = stage[t] /\ turn'[t] = turn[t]
  <2>1. CASE \/ \E k \in Keys, n \in Copies, a \in Attempts, b \in Timed : Call(u, k, n, a, b)
             \/ BadToken(u) \/ InCache(u)
    BY <2>1 DEF Call, BadToken, InCache, bindVars
  <2>2. CASE CallStep(u)
    BY <2>2 DEF CallStep, OutOfTime, AttemptBegins, EmptyList, TryBegins, LoopEnds, Answered,
         Touch, TouchLocked, GiveBackRest, PixelsTryLock, OpEnds, GiveBackTurn, AttemptEnds,
         bindVars
  <2> QED BY <2>1, <2>2
<1>2. call'[t] = call[t]
  <2>1. CASE \/ \E k \in Keys, n \in Copies, a \in Attempts, b \in Timed : Call(u, k, n, a, b)
             \/ BadToken(u) \/ InCache(u)
    BY <2>1 DEF Call, BadToken, InCache, bindVars
  <2>2. ASSUME NEW s \in Slots, TouchLocked(u, s) PROVE call'[t] = call[t]
    BY <2>2, LockedFields DEF TouchLocked
  <2>3. ASSUME NEW c \in OpCodes, OpEnds(u, c) PROVE call'[t] = call[t]
    BY <2>3, EndFields DEF OpEnds
  <2>4. ASSUME NEW s \in Slots, Touch(u, s) \/ GiveBackRest(u, s) PROVE call'[t] = call[t]
    BY <2>4 DEF Touch, GiveBackRest, bindVars
  <2>5. ASSUME \/ OutOfTime(u) \/ AttemptBegins(u) \/ EmptyList(u) \/ TryBegins(u)
               \/ LoopEnds(u) \/ Answered(u) \/ PixelsTryLock(u) \/ GiveBackTurn(u)
               \/ AttemptEnds(u)
        PROVE  call'[t] = call[t]
    BY <2>5 DEF OutOfTime, AttemptBegins, EmptyList, TryBegins, LoopEnds, Answered,
         PixelsTryLock, GiveBackTurn, AttemptEnds
  <2> QED BY <2>1, <2>2, <2>3, <2>4, <2>5 DEF CallStep
<1>3. ThreadStep(u) \/ UNCHANGED vars
  BY StepIsThreadStep DEF Call, BadToken
<1>4. pc'[t] = pc[t] /\ held'[t] = held[t] /\ Left(t)' = Left(t)
  BY <1>3, OthersLocals, OthersDoNotMatter DEF vars, getVars, Left
<1> QED BY <1>1, <1>2, <1>4

\* dec() of a dataset of the list.
LEMMA ListShrinks ==
    ASSUME TypeOK, NEW t \in Threads, NEW s \in Slots, Dec(t, s)
    PROVE  /\ Cardinality(held[t]) \in Nat /\ Cardinality(held'[t]) \in Nat
           /\ Cardinality(held'[t]) = Cardinality(held[t]) - 1
<1>1. held'[t] = held[t] \ {s} /\ s \in held[t] BY DEF Dec, TypeOK, ThreadsOK
<1>2. IsFiniteSet(Slots) BY SizesAssumption, FS_Interval DEF Slots
<1>3. held[t] \subseteq Slots BY DEF TypeOK, ThreadsOK
<1>4. IsFiniteSet(held[t]) BY <1>2, <1>3, FS_Subset
<1>5. Cardinality(held[t] \ {s}) = Cardinality(held[t]) - 1 BY <1>1, <1>4, FS_RemoveElement
<1>6. IsFiniteSet(held[t] \ {s}) BY <1>4, FS_Subset
<1> QED BY <1>1, <1>4, <1>5, <1>6, FS_CardinalityType

\* An attempt that ends is one attempt less to come.
LEMMA AttemptCounted ==
    ASSUME CallInv, StageInv, IndexInv, NEW t \in Threads, AttemptEnds(t), call[t].attempts > 0
    PROVE  AttemptsLeft(t)' \in Nat /\ AttemptsLeft(t)' < AttemptsLeft(t)
<1>1. /\ call'[t].i = Saturated(call[t].i, MaxTries)
      /\ call'[t].attempts = call[t].attempts
  BY DEF AttemptEnds, CallInv, Calls
<1>2. call[t].i < call[t].attempts BY AttemptsAreBounded DEF AttemptEnds, AtNext, IndexInv
<1>3. /\ call[t].attempts \in Int /\ call[t].attempts <= MaxTries
      /\ call[t].i \in Nat /\ MaxTries \in Nat \ {0}
  BY AttemptsAreBounded
<1>4. Saturated(call[t].i, MaxTries) = call[t].i + 1 BY <1>2, <1>3 DEF Saturated
<1> QED BY <1>1, <1>2, <1>3, <1>4 DEF AttemptsLeft

\* What is left of a call is a triple of numbers.
LEMMA ToDoTypes ==
    ASSUME TypeOK, CallInv, StageInv, IndexInv, NEW t \in Threads,
           stage[t] \in {"loop", "get", "try"}, call[t].attempts > 0
    PROVE  /\ AttemptsLeft(t) \in Nat /\ StagesLeft(t) \in Nat /\ TurnLeft(t) \in Nat
           /\ Cardinality(held[t]) \in Nat
<1>1. /\ call[t].attempts \in Int /\ call[t].i \in Nat BY AttemptsAreBounded
<1>2. call[t].i <= call[t].attempts BY <1>1 DEF IndexInv
<1> QED BY <1>1, <1>2, FoundNat DEF AttemptsLeft, StagesLeft, TurnLeft

\* The steps of a call in its own loop.
LEMMA OwnStepNears ==
    ASSUME IInv, CallInv, StageInv, IndexInv, NEW t \in Threads,
           stage[t] \in {"loop", "get", "try"}, call[t].attempts > 0,
           InCache(t) \/ CallStep(t)
    PROVE  ToDo(t)' \in Nat \X Nat \X Nat /\ Nearer(ToDo(t)', ToDo(t))
<1>0. TypeOK BY DEF IInv
<1> USE <1>0
<1>1. /\ AttemptsLeft(t) \in Nat /\ StagesLeft(t) \in Nat /\ TurnLeft(t) \in Nat
      /\ Cardinality(held[t]) \in Nat
  BY ToDoTypes
\* One rule per component of the triple.
<1>2. ASSUME AttemptsLeft(t)' \in Nat, StagesLeft(t)' \in Nat, StepsLeft(t)' \in Nat,
             \/ AttemptsLeft(t)' < AttemptsLeft(t)
             \/ AttemptsLeft(t)' = AttemptsLeft(t) /\ StagesLeft(t)' < StagesLeft(t)
             \/ /\ AttemptsLeft(t)' = AttemptsLeft(t) /\ StagesLeft(t)' = StagesLeft(t)
                /\ StepsLeft(t)' < StepsLeft(t)
      PROVE  ToDo(t)' \in Nat \X Nat \X Nat /\ Nearer(ToDo(t)', ToDo(t))
  BY <1>2 DEF ToDo, Nearer
<1>3. SameArguments(call'[t], call[t]) => AttemptsLeft(t)' = AttemptsLeft(t)
  BY DEF SameArguments, AttemptsLeft
<1>4. call'[t] = call[t] => SameArguments(call'[t], call[t]) BY DEF SameArguments
\* A step inside TRY.
<1>5. ASSUME stage[t] = "try", stage'[t] = "try", SameArguments(call'[t], call[t]),
             Cardinality(held'[t]) \in Nat, TurnLeft(t)' \in Nat,
             4 * Cardinality(held'[t]) + TurnLeft(t)' < 4 * Cardinality(held[t]) + TurnLeft(t)
      PROVE  ToDo(t)' \in Nat \X Nat \X Nat /\ Nearer(ToDo(t)', ToDo(t))
  <2>1. StagesLeft(t) = 1 /\ StagesLeft(t)' = 1 BY <1>5 DEF StagesLeft
  <2>2. /\ StepsLeft(t) = 4 * Cardinality(held[t]) + TurnLeft(t)
        /\ StepsLeft(t)' = 4 * Cardinality(held'[t]) + TurnLeft(t)'
    BY <1>5 DEF StepsLeft
  <2>3. StepsLeft(t)' \in Nat /\ StepsLeft(t)' < StepsLeft(t) BY <1>5, <2>2
  <2> QED BY <1>1, <1>2, <1>3, <1>5, <2>1, <2>3
<1> USE DEF CallInv, Enter, Leave
<1>6. CASE InCache(t)
  <2>1. /\ stage[t] = "get" /\ stage'[t] = "get" /\ call'[t] = call[t]
        /\ Left(t)' \in Nat /\ Left(t)' < Left(t)
    BY <1>6, GetNears DEF InCache, bindVars
  <2>2. /\ StagesLeft(t) = 2 /\ StagesLeft(t)' = 2
        /\ StepsLeft(t) = Left(t) /\ StepsLeft(t)' = Left(t)'
    BY <2>1 DEF StagesLeft, StepsLeft
  <2> QED BY <1>1, <1>2, <1>3, <1>4, <2>1, <2>2
<1>7. CASE OutOfTime(t) \/ LoopEnds(t) \/ EmptyList(t)
  <2>1. stage'[t] = "leave" /\ call'[t] = call[t]
    BY <1>7 DEF OutOfTime, LoopEnds, EmptyList
  <2>2. StagesLeft(t)' = 0 /\ StepsLeft(t)' = 0 BY <2>1 DEF StagesLeft, StepsLeft
  <2>3. StagesLeft(t) > 0 BY DEF StagesLeft
  <2> QED BY <1>1, <1>2, <1>3, <1>4, <2>1, <2>2, <2>3
<1>8. CASE AttemptBegins(t)
  <2>1. /\ stage[t] = "loop" /\ stage'[t] = "get" /\ call'[t] = call[t]
        /\ pc'[t] = "rdlock" /\ copies'[t] = call[t].copies /\ call[t].copies \in Copies
    BY <1>8 DEF AttemptBegins, Get, Goto, TypeOK, ThreadsOK
  <2>2. StagesLeft(t) = 3 /\ StagesLeft(t)' = 2 /\ StepsLeft(t)' = Left(t)'
    BY <2>1 DEF StagesLeft, StepsLeft
  <2>3. Left(t)' \in Nat
    <3> DEFINE n == IF copies'[t] < 0 THEN -copies'[t] ELSE copies'[t]
    <3>1. n \in Nat
      <4>1. \A c \in Copies : c \in Int BY CopiesAssumption
      <4> QED BY <2>1, <4>1
    <3>2. Left(t)' = n * (2 * Capacity + 6) + (2 * Capacity + 4)
      BY <2>1, LeftAt DEF Left, InGet
    <3>3. n * (2 * Capacity + 6) \in Nat
      <4>1. 2 * Capacity + 6 \in Nat BY SizesAssumption
      <4> HIDE DEF n
      <4> QED BY <3>1, <4>1
    <3> HIDE DEF n
    <3> QED BY <3>2, <3>3, SizesAssumption
  <2> QED BY <1>1, <1>2, <1>3, <1>4, <2>1, <2>2, <2>3
<1>9. CASE TryBegins(t)
  <2>1. /\ stage[t] = "get" /\ stage'[t] = "try" /\ call'[t] = call[t]
        /\ held'[t] = held[t] /\ turn'[t] = turn[t] /\ pc'[t] = pc[t]
    BY <1>9 DEF TryBegins, vars, getVars
  <2>2. TurnLeft(t)' = TurnLeft(t) BY <2>1 DEF TurnLeft
  <2>3. StagesLeft(t) = 2 /\ StagesLeft(t)' = 1 BY <2>1 DEF StagesLeft
  <2>4. StepsLeft(t)' = 4 * Cardinality(held'[t]) + TurnLeft(t)' BY <2>1 DEF StepsLeft
  <2>5. StepsLeft(t)' \in Nat BY <1>1, <2>1, <2>2, <2>4
  <2> QED BY <1>1, <1>2, <1>3, <1>4, <2>1, <2>3, <2>5
<1>10. CASE \E s \in Slots : Touch(t, s)
  <2>1. PICK s \in Slots : Touch(t, s) BY <1>10
  <2>2. /\ stage[t] = "try" /\ stage'[t] = "try" /\ held'[t] = held[t]
        /\ turn[t] = 0 /\ turn'[t] # 0 /\ pc[t] = "got" /\ pc'[t] \in {"peek", "op"}
    BY <2>1, SlotFacts DEF Touch, AtNext, OpTryLock, PixelsBand, Goto, getVars, TypeOK, ThreadsOK
  <2>3. TurnLeft(t) = 3 /\ TurnLeft(t)' \in {1, 2} BY <2>2 DEF TurnLeft
  <2>4. SameArguments(call'[t], call[t]) BY <2>1 DEF Touch, SameArguments, Calls
  <2> QED BY <1>1, <1>5, <2>2, <2>3, <2>4
<1>11. CASE \E s \in Slots : TouchLocked(t, s) \/ GiveBackRest(t, s)
  <2>1. PICK s \in Slots : TouchLocked(t, s) \/ GiveBackRest(t, s) BY <1>11
  <2>2. /\ stage[t] = "try" /\ stage'[t] = "try" /\ turn[t] = 0 /\ turn'[t] = 0
        /\ Dec(t, s) /\ pc[t] = "got" /\ pc'[t] = "got"
    BY <2>1 DEF TouchLocked, GiveBackRest, GiveBack, Dec, AtNext, bindVars
  <2>3. TurnLeft(t) = 3 /\ TurnLeft(t)' = 3 BY <2>2 DEF TurnLeft
  <2>4. SameArguments(call'[t], call[t])
    BY <1>4, <2>1, LockedUpdate DEF TouchLocked, GiveBackRest, bindVars
  <2> QED BY <1>5, <2>2, <2>3, <2>4, ListShrinks
<1>12. CASE PixelsTryLock(t)
  <2>1. /\ stage[t] = "try" /\ stage'[t] = "try" /\ turn[t] # 0 /\ turn'[t] = turn[t]
        /\ held'[t] = held[t] /\ pc[t] = "peek" /\ pc'[t] \in {"op", "got"}
    BY <1>12 DEF PixelsTryLock, PixelsLocks, PixelsRefused, Goto, getVars, TypeOK, ThreadsOK,
                 StageInv
  <2>2. TurnLeft(t) = 2 /\ TurnLeft(t)' \in {0, 1} BY <2>1 DEF TurnLeft
  <2>3. SameArguments(call'[t], call[t])
    <3>1. CASE call' = [call EXCEPT ![t].code = "locked"] BY <3>1, SetCode DEF Codes
    <3> QED BY <1>4, <1>12, <3>1 DEF PixelsTryLock
  <2> QED BY <1>1, <1>5, <2>1, <2>2, <2>3
<1>13. CASE \E c \in OpCodes : OpEnds(t, c)
  <2>1. PICK c \in OpCodes : OpEnds(t, c) BY <1>13
  <2>2. /\ stage[t] = "try" /\ stage'[t] = "try" /\ turn[t] # 0 /\ turn'[t] = turn[t]
        /\ held'[t] = held[t] /\ pc[t] = "op" /\ pc'[t] = "got"
    BY <2>1 DEF OpEnds, OpUnlock, Goto, getVars, TypeOK, ThreadsOK, StageInv
  <2>3. TurnLeft(t) = 1 /\ TurnLeft(t)' = 0 BY <2>2 DEF TurnLeft
  <2>4. SameArguments(call'[t], call[t]) BY <2>1, EndUpdate DEF OpEnds
  <2> QED BY <1>1, <1>5, <2>2, <2>3, <2>4
<1>14. CASE GiveBackTurn(t)
  <2>1. PICK s \in Slots : s = turn[t] BY <1>14 DEF GiveBackTurn
  <2>2. /\ stage[t] = "try" /\ stage'[t] = "try" /\ turn[t] # 0 /\ turn'[t] = 0
        /\ call'[t] = call[t] /\ Dec(t, s) /\ pc[t] = "got" /\ pc'[t] = "got"
    BY <1>14, <2>1 DEF GiveBackTurn, GiveBack, Dec
  <2>3. TurnLeft(t) = 0 /\ TurnLeft(t)' = 3 BY <2>2 DEF TurnLeft
  <2> QED BY <1>4, <1>5, <2>2, <2>3, ListShrinks
<1>15. CASE AttemptEnds(t)
  <2>1. stage'[t] = "loop" BY <1>15 DEF AttemptEnds
  <2>2. StagesLeft(t)' = 3 /\ StepsLeft(t)' = 0 BY <2>1 DEF StagesLeft, StepsLeft
  <2> QED BY <1>2, <1>15, <2>2, AttemptCounted
<1>16. ~Answered(t) BY DEF Answered
<1> QED
  BY <1>6, <1>7, <1>8, <1>9, <1>10, <1>11, <1>12, <1>13, <1>14, <1>15, <1>16 DEF CallStep

\* A step of anybody.
LEMMA CallNearStep ==
    ASSUME IInv, CallInv, StageInv, IndexInv, [BNext]_allVars, NEW t \in Threads,
           stage[t] \in {"loop", "get", "try"}, call[t].attempts > 0
    PROVE  \/ ToDo(t)' \in Nat \X Nat \X Nat /\ Nearer(ToDo(t)', ToDo(t))
           \/ /\ ToDo(t)' = ToDo(t) /\ pc'[t] = pc[t] /\ stage'[t] = stage[t]
              /\ call'[t] = call[t] /\ turn'[t] = turn[t]
<1>1. ASSUME /\ stage'[t] = stage[t] /\ call'[t] = call[t] /\ turn'[t] = turn[t]
             /\ pc'[t] = pc[t] /\ held'[t] = held[t] /\ Left(t)' = Left(t)
      PROVE  ToDo(t)' = ToDo(t)
  BY <1>1 DEF ToDo, AttemptsLeft, StagesLeft, StepsLeft, TurnLeft
<1>2. CASE UNCHANGED allVars
  <2>1. /\ stage'[t] = stage[t] /\ call'[t] = call[t] /\ turn'[t] = turn[t]
        /\ pc'[t] = pc[t] /\ held'[t] = held[t] /\ Left(t)' = Left(t)
    BY <1>2 DEF allVars, vars, getVars, bindVars, Left
  <2> QED BY <1>1, <2>1
<1>3. CASE BNext
  <2>1. PICK u \in Threads :
           \/ \E k \in Keys, n \in Copies, a \in Attempts, b \in Timed : Call(u, k, n, a, b)
           \/ BadToken(u)
           \/ InCache(u) \/ CallStep(u)
    BY <1>3 DEF BNext
  <2>2. CASE u # t BY <1>1, <2>1, <2>2, OthersCalls DEF IInv
  <2>3. CASE u = t
    <3>1. InCache(t) \/ CallStep(t) BY <2>1, <2>3 DEF Call, BadToken
    <3> QED BY <3>1, OwnStepNears
  <2> QED BY <2>2, <2>3
<1> QED BY <1>2, <1>3

\* A call with a number of attempts is bounded: with each of its steps what is left
\* of it grows less in an order without infinite descents, and nothing another call
\* does makes it more.
THEOREM CallIsBounded == BSpec => CallNearsItsEnd
<1>1. BInit => DoneInv /\ IndexInv
  BY DEF BInit, Init, DoneInv, IndexInv, NoCall, NewCall, InOp
<1>2. TypeOK /\ CallInv /\ StageInv /\ DoneInv /\ IndexInv /\ [BNext]_allVars =>
          DoneInv' /\ IndexInv'
  BY DoneStep, IndexStep
<1>3. IInv => TypeOK BY DEF IInv
<1>4. IInv /\ CallInv /\ StageInv /\ IndexInv /\ [BNext]_allVars =>
          [\A t \in Threads :
              stage[t] \in {"loop", "get", "try"} /\ call[t].attempts > 0 =>
                  \/ ToDo(t)' \in Nat \X Nat \X Nat /\ Nearer(ToDo(t)', ToDo(t))
                  \/ /\ ToDo(t)' = ToDo(t) /\ pc'[t] = pc[t] /\ stage'[t] = stage[t]
                     /\ call'[t] = call[t] /\ turn'[t] = turn[t]]_allVars
  BY CallNearStep
<1> QED BY <1>1, <1>2, <1>3, <1>4, CallsTyped, CacheInvariant, StagesHold, PTL
       DEF BSpec, CallNearsItsEnd

\* "If an attempt succeeds, return the number of attempts made": that holds if
\* every call goes on until it succeeds (attempts = 0).
THEOREM EndlessCallsReport ==
    ASSUME Attempts \subseteq {0} PROVE BSpec => []SuccessIsReported
<1>1. CallInv /\ NotGivenUpEarly => SuccessIsReported
  <2> SUFFICES ASSUME CallInv, NotGivenUpEarly, NEW t \in Threads, ret[t] = "exceeded" PROVE FALSE
    BY DEF SuccessIsReported
  <2>1. call[t].attempts \in Attempts \cup {0} BY DEF CallInv, Calls
  <2>2. call[t].attempts = 0 BY <2>1
  <2> QED BY <2>2 DEF NotGivenUpEarly
<1> QED BY <1>1, CallsTyped, AttemptsAreUsedUp, PTL
===============================================================================
