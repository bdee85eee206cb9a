------------------------------- MODULE GetProofs -------------------------------
(***************************************************************************)
(* What get() and insert() do with the slots, for every number of threads  *)
(* and slots: which slot they choose, how many copies of a key they leave  *)
(* in the cache, what size() counts, and that they come to an end.  Each   *)
(* theorem has an invariant of its own, about what the searches and scans  *)
(* that are under way have seen so far; FlatLruCacheProofs' IInv holds     *)
(* beside it, and says who may change what they have seen meanwhile.       *)
(***************************************************************************)
EXTENDS FlatLruCacheProofs

-------------------------------------------------------------------------------
(* What a step of one thread leaves alone. *)

\* The local variables of get() and insert() are the thread's own.
LEMMA OthersLocals ==
    ASSUME TypeOK, NEW t \in Threads, NEW u \in Threads, u # t, ThreadStep(u)
    PROVE  /\ pc'[t] = pc[t] /\ key'[t] = key[t] /\ held'[t] = held[t]
           /\ idx'[t] = idx[t] /\ best'[t] = best[t] /\ want'[t] = want[t]
           /\ stamp'[t] = stamp[t] /\ copies'[t] = copies[t]
<1> USE DEF TypeOK, ThreadsOK, Goto, slotVars, lockVars, cacheVars, getVars
<1>1. CASE \/ \E k \in Keys, n \in Copies : Get(u, k, n)
           \/ RdLock(u) \/ WrLock(u) \/ UseStep(u) \/ Clear(u)
  BY <1>1 DEF Get, RdLock, WrLock, UseStep, OpTryLock, PixelsBand, Dec, PixelsLocks,
              PixelsRefused, OpUnlock, Return, Clear
<1>2. CASE \/ FindHit(u) \/ Stamp(u) \/ FindMiss(u) \/ RdUnlock(u)
           \/ TryWrLockSucceeds(u) \/ TryWrLockFails(u) \/ InsertBegins(u) \/ WrUnlock(u)
  BY <1>2 DEF FindHit, List, Stamp, FindMiss, RdUnlock, AfterFind, TryWrLockSucceeds,
              TryWrLockFails, InsertBegins, WrUnlock
<1>3. CASE \/ ScanSkips(u) \/ ScanLocks(u) \/ CheckUsed(u) \/ CheckUnused(u)
           \/ NoVictim(u) \/ VictimFound(u) \/ OpenSucceeds(u) \/ OpenFails(u)
           \/ Publish(u) \/ Replace(u) \/ Take(u)
  BY <1>3 DEF ScanSkips, ScanLocks, CheckUsed, CheckUnused, ChangeBest, NoVictim, GiveUp,
              VictimFound, OpenSucceeds, OpenFails, Publish, Replace, Take, List
<1> QED BY <1>1, <1>2, <1>3 DEF ThreadStep, GetStep

\* The slots are retagged, filled and counted under the write half of the
\* cache's lock; only their access times change under the read half.
LEMMA SlotsFrame ==
    ASSUME IInv, NEW t \in Threads, NEW u \in Threads, u # t, ThreadStep(u),
           pc[t] \in ReadSection \cup WriteSection
    PROVE  UNCHANGED <<tag, uri, size>> /\ (pc[t] \in WriteSection => UNCHANGED atime)
<1> USE DEF slotVars, lockVars, cacheVars, getVars
<1>1. pc[u] \notin WriteSection /\ (pc[t] \in WriteSection => pc[u] \notin ReadSection)
  BY ThreadsAssumption DEF IInv, LockInv, ReadSection, WriteSection
<1>2. pc[t] # "idle" BY DEF ReadSection, WriteSection
<1>3. CASE \/ \E k \in Keys, n \in Copies : Get(u, k, n)
           \/ RdLock(u) \/ WrLock(u) \/ UseStep(u)
  BY <1>3 DEF Get, RdLock, WrLock, UseStep, OpTryLock, PixelsBand, Dec, PixelsLocks,
              PixelsRefused, OpUnlock, Return
<1>4. CASE \/ FindHit(u) \/ Stamp(u) \/ FindMiss(u) \/ RdUnlock(u)
           \/ TryWrLockSucceeds(u) \/ TryWrLockFails(u)
  BY <1>1, <1>4 DEF FindHit, List, Stamp, FindMiss, RdUnlock, TryWrLockSucceeds,
              TryWrLockFails, ReadSection
<1>5. ~Clear(u) BY <1>2 DEF Clear
<1>6. CASE \/ InsertBegins(u) \/ WrUnlock(u)
           \/ ScanSkips(u) \/ ScanLocks(u) \/ CheckUsed(u) \/ CheckUnused(u)
           \/ NoVictim(u) \/ VictimFound(u) \/ OpenSucceeds(u) \/ OpenFails(u)
           \/ Publish(u) \/ Replace(u) \/ Take(u)
  BY <1>1, <1>6 DEF InsertBegins, WrUnlock, ScanSkips, ScanLocks, CheckUsed, CheckUnused,
              NoVictim, VictimFound, OpenSucceeds, OpenFails, Publish, Replace, Take,
              WriteSection
<1> QED BY <1>3, <1>4, <1>5, <1>6 DEF ThreadStep, GetStep

\* A thread that scans, or opens a dataset for the slot it has chosen, got there
\* by a step of insert().
LEMMA ChoosingSteps ==
    ASSUME TypeOK, NEW t \in Threads, ThreadStep(t),
           pc'[t] \in {"scan", "check", "open", "publish", "replace"}
    PROVE  \/ InsertBegins(t) \/ ScanSkips(t) \/ ScanLocks(t) \/ CheckUsed(t)
           \/ CheckUnused(t) \/ VictimFound(t) \/ OpenSucceeds(t) \/ Publish(t)
<1> USE DEF TypeOK, ThreadsOK, Goto
<1>1. CASE \/ \E k \in Keys, n \in Copies : Get(t, k, n)
           \/ RdLock(t) \/ WrLock(t) \/ UseStep(t) \/ Clear(t)
  BY <1>1 DEF Get, RdLock, WrLock, UseStep, OpTryLock, PixelsBand, Dec, PixelsLocks,
              PixelsRefused, OpUnlock, Return, Clear
<1>2. CASE \/ FindHit(t) \/ Stamp(t) \/ FindMiss(t) \/ RdUnlock(t)
           \/ TryWrLockSucceeds(t) \/ TryWrLockFails(t) \/ WrUnlock(t)
           \/ NoVictim(t) \/ OpenFails(t) \/ Replace(t) \/ Take(t)
  BY <1>2 DEF FindHit, Stamp, FindMiss, RdUnlock, AfterFind, TryWrLockSucceeds,
              TryWrLockFails, WrUnlock, NoVictim, OpenFails, Replace, Take
<1> QED BY <1>1, <1>2 DEF ThreadStep, GetStep

\* The steps that do not stamp or rewrite a slot.
LEMMA QuietSteps ==
    ASSUME TypeOK, NEW u \in Threads, ThreadStep(u),
           ~FindHit(u), ~Stamp(u), ~Publish(u), ~Replace(u), ~Clear(u)
    PROVE  /\ UNCHANGED <<tag, uri, atime, size>>
           /\ \A t \in Threads : pc[t] \in {"stamp", "replace"} =>
                  /\ pc'[t] = pc[t] /\ idx'[t] = idx[t] /\ best'[t] = best[t]
                  /\ stamp'[t] = stamp[t] /\ key'[t] = key[t]
           /\ \A t \in Threads : pc'[t] \in {"stamp", "replace"} => pc'[t] = pc[t]
<1> USE DEF TypeOK, ThreadsOK, Goto, slotVars, lockVars, cacheVars, getVars
<1>1. CASE \/ \E k \in Keys, n \in Copies : Get(u, k, n)
           \/ RdLock(u) \/ WrLock(u)
  BY <1>1 DEF Get, RdLock, WrLock
<1>2. CASE UseStep(u)
  BY <1>2 DEF UseStep, OpTryLock, PixelsBand, Dec, PixelsLocks, PixelsRefused, OpUnlock,
              Return
<1>3. CASE \/ FindMiss(u) \/ RdUnlock(u) \/ TryWrLockSucceeds(u) \/ TryWrLockFails(u)
           \/ InsertBegins(u) \/ WrUnlock(u)
  BY <1>3 DEF FindMiss, RdUnlock, AfterFind, TryWrLockSucceeds, TryWrLockFails,
              InsertBegins, WrUnlock
<1>4. CASE \/ ScanSkips(u) \/ ScanLocks(u) \/ CheckUsed(u) \/ CheckUnused(u)
           \/ NoVictim(u) \/ VictimFound(u) \/ OpenSucceeds(u) \/ OpenFails(u) \/ Take(u)
  BY <1>4 DEF ScanSkips, ScanLocks, CheckUsed, CheckUnused, ChangeBest, NoVictim, GiveUp,
              VictimFound, OpenSucceeds, OpenFails, Take, List
<1> QED BY <1>1, <1>2, <1>3, <1>4 DEF ThreadStep, GetStep

-------------------------------------------------------------------------------
(* An empty slot looks older than any dataset, until the clock wraps. *)

\* A slot that is not being rewritten has an access time of 0 exactly if it is
\* empty.
AgeInv ==
    /\ \A s \in Slots :
        /\ uri[s] = NoKey => atime[s] = 0 \/ \E t \in Threads : pc[t] = "replace" /\ best[t] = s
        /\ uri[s] # NoKey => atime[s] > 0
    /\ \A t \in Threads :
        /\ pc[t] = "stamp" => stamp[t] > 0 /\ uri[idx[t]] # NoKey
        /\ pc[t] = "replace" => atime[best[t]] > 0

\* Before the clock wraps, ++m_time is never 0.
LEMMA TickPositive ==
    ASSUME TypeOK, BeforeWrap PROVE Tick(time) > 0
  BY SizesAssumption DEF TypeOK, CacheOK, Clock, BeforeWrap, MaxTime, Tick

\* get(), insert() and clear() keep the access times of empty and occupied slots
\* apart.
LEMMA AgeStep == ASSUME IInv, AgeInv, BeforeWrap, [Next]_vars PROVE AgeInv'
<1> USE SlotFacts, KeysAssumption
    DEF IInv, TypeOK, SlotsOK, CacheOK, ThreadsOK, AgeInv, Goto
<1>1. ASSUME NEW u \in Threads, FindHit(u) PROVE AgeInv'
  <2>1. UNCHANGED <<uri, atime>> BY <1>1 DEF FindHit
  <2>2. stamp'[u] > 0 /\ uri[idx[u]] # NoKey
    BY <1>1, TickPositive DEF FindHit, Matches, LocalsInv
  <2>3. \A t \in Threads : t # u => pc'[t] = pc[t] /\ stamp'[t] = stamp[t]
    BY <1>1 DEF FindHit
  <2>4. pc[u] = "find" /\ pc'[u] = "stamp" /\ UNCHANGED <<idx, best>> BY <1>1 DEF FindHit
  <2> QED BY <2>1, <2>2, <2>3, <2>4
<1>2. ASSUME NEW u \in Threads, Stamp(u) PROVE AgeInv'
  <2> DEFINE i == idx[u]
  <2>1. i \in Slots /\ stamp[u] > 0 /\ uri[i] # NoKey BY <1>2 DEF Stamp, LocalsInv
  <2>2. atime' = [atime EXCEPT ![i] = stamp[u]] /\ UNCHANGED <<uri, best>> BY <1>2 DEF Stamp
  <2>3. \A t \in Threads : t # u => pc'[t] = pc[t] /\ stamp'[t] = stamp[t] /\ idx'[t] = idx[t]
    BY <1>2 DEF Stamp
  <2>4. pc[u] = "stamp" /\ pc'[u] = "find" BY <1>2 DEF Stamp
  <2>5. \A t \in Threads : pc[t] = "replace" => best[t] \in Slots BY DEF LocalsInv
  <2> HIDE DEF i
  <2> QED BY <2>1, <2>2, <2>3, <2>4, <2>5
<1>3. ASSUME NEW u \in Threads, Publish(u) PROVE AgeInv'
  <2> DEFINE b == best[u]
  <2>1. b \in Slots /\ pc[u] = "publish" BY <1>3 DEF Publish, LocalsInv
  <2>2. atime' = [atime EXCEPT ![b] = Tick(time)] /\ UNCHANGED <<uri, idx, best, stamp>>
    BY <1>3 DEF Publish, getVars
  <2>3. pc' = [pc EXCEPT ![u] = "replace"] BY <1>3 DEF Publish
  <2>4. Tick(time) > 0 BY TickPositive
  <2>5. \A t \in Threads : pc[t] = "replace" => best[t] \in Slots BY DEF LocalsInv
  <2> QED BY <2>1, <2>2, <2>3, <2>4, <2>5
<1>4. ASSUME NEW u \in Threads, Replace(u) PROVE AgeInv'
  <2> DEFINE b == best[u]
  <2>1. b \in Slots /\ pc[u] = "replace" /\ key[u] # NoKey BY <1>4 DEF Replace, LocalsInv
  <2>2. uri' = [uri EXCEPT ![b] = key[u]] /\ UNCHANGED <<atime, idx, best, stamp>>
    BY <1>4 DEF Replace, getVars
  <2>3. pc' = [pc EXCEPT ![u] = "take"] BY <1>4 DEF Replace
  <2>4. \A t \in Threads : pc[t] = "stamp" => idx[t] \in Slots BY DEF LocalsInv
  <2> QED BY <2>1, <2>2, <2>3, <2>4
<1>5. ASSUME NEW u \in Threads, Clear(u) PROVE AgeInv'
  BY <1>5 DEF Clear
<1>6. ASSUME NEW u \in Threads, ThreadStep(u),
             ~FindHit(u), ~Stamp(u), ~Publish(u), ~Replace(u), ~Clear(u)
      PROVE  AgeInv'
  <2>1. /\ UNCHANGED <<uri, atime>>
        /\ \A t \in Threads : pc[t] \in {"stamp", "replace"} =>
               /\ pc'[t] = pc[t] /\ idx'[t] = idx[t] /\ best'[t] = best[t]
               /\ stamp'[t] = stamp[t]
        /\ \A t \in Threads : pc'[t] \in {"stamp", "replace"} => pc'[t] = pc[t]
    BY <1>6, QuietSteps
  <2>2. \A s \in Slots :
           /\ uri'[s] = NoKey =>
                  atime'[s] = 0 \/ \E t \in Threads : pc'[t] = "replace" /\ best'[t] = s
           /\ uri'[s] # NoKey => atime'[s] > 0
    BY <2>1 DEF AgeInv
  <2>3. \A t \in Threads :
           /\ pc'[t] = "stamp" => stamp'[t] > 0 /\ uri'[idx'[t]] # NoKey
           /\ pc'[t] = "replace" => atime'[best'[t]] > 0
    BY <2>1 DEF AgeInv
  <2> QED BY <2>2, <2>3 DEF AgeInv
<1>7. CASE UNCHANGED vars
  BY <1>7 DEF vars, slotVars, getVars
<1> QED BY <1>1, <1>2, <1>3, <1>4, <1>5, <1>6, <1>7 DEF Next

\* The slots that insert() has looked at: the scan may be over.
Passed(t) == {s \in Slots : pc[t] \in {"scan", "check"} => s < idx[t]}

\* lock_for_deletion() is only asked of a slot that beats the candidate.
BeatsInv == \A t \in Threads : pc[t] = "check" => IsOlder(t)

\* If the scan has passed an empty slot, its candidate is one.
EmptyInv ==
    \A t \in Threads :
        /\ pc[t] \in {"scan", "check", "open", "publish", "replace"}
        /\ \E s \in Passed(t) : uri[s] = NoKey
        => best[t] # 0 /\ uri[best[t]] = NoKey

\* A slot whose trylock fails during the scan is one that somebody else is
\* operating on.
LEMMA BusyIsUsed ==
    ASSUME IInv, NoStrandedLock, NEW t \in Threads, pc[t] = "scan", idx[t] \in Slots,
           ~MutexFree(idx[t])
    PROVE  \E u \in Threads \ {t} : pc[u] = "op" /\ idx[t] \in held[u]
<1> DEFINE i == idx[t]
<1>1. PICK u \in Threads : mutex[i] = u BY DEF MutexFree, IInv, TypeOK, SlotsOK
<1>2. CASE pc[u] = "op" /\ cur[u] = i
  <2>1. i \in held[u] BY <1>2 DEF IInv, UserInv, InOp
  <2> QED BY <1>2, <2>1
<1>3. CASE pc[u] # "op"
  <2>1. pc[u] \in WriteSection BY <1>1, <1>3 DEF NoStrandedLock, WriteSection
  <2>2. u = t BY <2>1 DEF IInv, LockInv, WriteSection
  <2>3. best[t] = i BY <1>1, <2>2 DEF NoStrandedLock
  <2>4. best[t] < i BY DEF IInv, CandidateInv
  <2> QED BY <2>3, <2>4, IndexIsInt
<1> QED BY <1>1, <1>2, <1>3 DEF NoStrandedLock

\* A slot whose use count is not zero is listed by somebody.
LEMMA UsedIsListed ==
    ASSUME IInv, NEW s \in Slots, ~Unused(s)
    PROVE  \E u \in Threads : s \in held[u]
<1> SUFFICES ASSUME {u \in Threads : s \in held[u]} = {} PROVE FALSE OBVIOUS
<1>1. use[s] = 0 BY FS_EmptySet DEF IInv, RefCountExact
<1> QED BY <1>1 DEF Unused

\* A listed slot is occupied.
LEMMA ListedIsOccupied ==
    ASSUME IInv, NEW u \in Threads, NEW s \in held[u]
    PROVE  uri[s] # NoKey
<1>1. pc[u] # "idle" BY DEF IInv, SearchInv
<1> QED BY <1>1, KeysAssumption DEF IInv, HeldMatches, LocalsInv

\* The slot at which the scan is beats the candidate when its mutex is taken,
\* and still does at the look at its use count.
LEMMA BeatsStep == ASSUME IInv, BeatsInv, [Next]_vars PROVE BeatsInv'
<1> USE DEF IsOlder, BestTime, BeatsInv
<1> SUFFICES ASSUME NEW t \in Threads, pc'[t] = "check" PROVE IsOlder(t)' OBVIOUS
<1>0. TypeOK BY DEF IInv
<1>1. ASSUME NEW u \in Threads, ThreadStep(u), u # t PROVE IsOlder(t)'
  <2>1. pc[t] = "check" /\ idx'[t] = idx[t] /\ best'[t] = best[t] BY <1>0, <1>1, OthersLocals
  <2>2. UNCHANGED atime BY <1>1, <2>1, SlotsFrame DEF WriteSection
  <2> QED BY <2>1, <2>2
<1>2. ASSUME ThreadStep(t) PROVE IsOlder(t)'
  <2>1. ScanLocks(t)
    BY <1>0, <1>2, ChoosingSteps
    DEF TypeOK, ThreadsOK, Goto, InsertBegins, ScanSkips, CheckUsed, CheckUnused, VictimFound,
        OpenSucceeds, Publish
  <2> QED BY <2>1 DEF ScanLocks, getVars
<1>3. CASE UNCHANGED vars
  BY <1>3 DEF vars, slotVars, getVars
<1> QED BY <1>1, <1>2, <1>3 DEF Next

\* While a thread scans, nobody is rewriting a slot: the empty ones show 0.
LEMMA EmptyShowsZero ==
    ASSUME IInv, AgeInv, NEW t \in Threads, pc[t] \in {"scan", "check"},
           NEW s \in Slots, uri[s] = NoKey
    PROVE  atime[s] = 0
<1>1. ASSUME NEW u \in Threads, pc[u] = "replace" PROVE FALSE
  <2>1. u = t BY <1>1 DEF IInv, LockInv, WriteSection
  <2> QED BY <1>1, <2>1
<1> QED BY <1>1 DEF AgeInv

\* A slot that the scan passes over is not empty, unless the candidate is.
LEMMA SkippedEmpty ==
    ASSUME IInv, NoStrandedLock, AgeInv, BeforeWrap,
           NEW t \in Threads, ScanSkips(t), uri[idx[t]] = NoKey
    PROVE  best[t] # 0 /\ uri[best[t]] = NoKey
<1> DEFINE i == idx[t]
<1>1. pc[t] = "scan" /\ i \in Slots BY DEF ScanSkips
<1>2. MutexFree(i) BY <1>1, BusyIsUsed, ListedIsOccupied
<1>3. ~(atime[i] < BestTime(t)) BY <1>2 DEF ScanSkips, IsOlder
<1>4. atime[i] = 0 BY <1>1, EmptyShowsZero
<1>5. MaxTime > 0
  BY SizesAssumption DEF IInv, TypeOK, CacheOK, Clock, BeforeWrap, MaxTime
<1>6. best[t] # 0 BY <1>3, <1>4, <1>5 DEF BestTime
<1>7. best[t] \in Slots BY <1>6 DEF IInv, TypeOK, ThreadsOK
<1>8. ~(0 < atime[best[t]]) BY <1>3, <1>4, <1>6 DEF BestTime
<1>9. uri[best[t]] # NoKey => atime[best[t]] > 0 BY <1>7 DEF AgeInv
<1>10. atime[best[t]] \in Int
  BY <1>7, SizesAssumption DEF IInv, TypeOK, SlotsOK, Clock
<1> QED BY <1>6, <1>8, <1>9, <1>10

\* The scan prefers empty slots, and what it has chosen stays as it was: nobody
\* else fills or empties a slot, or gives an empty one a later access time.
LEMMA EmptyStep ==
    ASSUME IInv, NoStrandedLock, AgeInv, BeatsInv, EmptyInv, BeforeWrap, [Next]_vars
    PROVE  EmptyInv'
<1> SUFFICES ASSUME NEW t \in Threads,
                    pc'[t] \in {"scan", "check", "open", "publish", "replace"},
                    NEW s \in Passed(t)', uri'[s] = NoKey
             PROVE  best'[t] # 0 /\ uri'[best'[t]] = NoKey
  BY DEF EmptyInv
<1>0. TypeOK /\ s \in Slots BY DEF IInv, Passed
<1> USE DEF Goto, slotVars, getVars
<1>1. ASSUME NEW u \in Threads, ThreadStep(u), u # t
      PROVE  best'[t] # 0 /\ uri'[best'[t]] = NoKey
  <2>1. pc'[t] = pc[t] /\ idx'[t] = idx[t] /\ best'[t] = best[t]
    BY <1>0, <1>1, OthersLocals
  <2>2. UNCHANGED uri BY <1>1, <2>1, SlotsFrame DEF WriteSection
  <2>3. s \in Passed(t) BY <2>1 DEF Passed
  <2> QED BY <2>1, <2>2, <2>3 DEF EmptyInv
<1>2. ASSUME InsertBegins(t) PROVE FALSE
  <2>1. idx'[t] = 1 /\ pc'[t] = "scan" BY <1>0, <1>2 DEF InsertBegins, TypeOK, ThreadsOK
  <2>2. s < 1 BY <2>1 DEF Passed
  <2> QED BY <1>0, <2>2 DEF Slots
<1>3. ASSUME ScanSkips(t) PROVE best'[t] # 0 /\ uri'[best'[t]] = NoKey
  <2>1. /\ pc[t] = "scan" /\ pc'[t] = "scan" /\ idx'[t] = idx[t] + 1
        /\ UNCHANGED <<uri, best>>
    BY <1>0, <1>3 DEF ScanSkips, TypeOK, ThreadsOK
  <2>2. idx[t] \in Slots BY <1>3 DEF ScanSkips
  <2>3. s < idx[t] + 1 BY <2>1 DEF Passed
  <2>4. CASE s = idx[t] BY <1>3, <2>1, <2>4, SkippedEmpty
  <2>5. CASE s # idx[t]
    <3>1. s < idx[t] BY <1>0, <2>2, <2>3, <2>5, IndexIsInt
    <3>2. s \in Passed(t) BY <1>0, <3>1 DEF Passed
    <3> QED BY <2>1, <3>2 DEF EmptyInv
  <2> QED BY <2>4, <2>5
<1>4. ASSUME ScanLocks(t) PROVE best'[t] # 0 /\ uri'[best'[t]] = NoKey
  <2>1. pc[t] = "scan" /\ pc'[t] = "check" /\ UNCHANGED <<uri, idx, best>>
    BY <1>0, <1>4 DEF ScanLocks, TypeOK, ThreadsOK
  <2>2. s \in Passed(t) BY <2>1 DEF Passed
  <2> QED BY <2>1, <2>2 DEF EmptyInv
<1>5. ASSUME CheckUsed(t) PROVE best'[t] # 0 /\ uri'[best'[t]] = NoKey
  <2>1. /\ pc[t] = "check" /\ pc'[t] = "scan" /\ idx'[t] = idx[t] + 1
        /\ UNCHANGED <<uri, best>>
    BY <1>0, <1>5 DEF CheckUsed, TypeOK, ThreadsOK
  <2>2. idx[t] \in Slots /\ ~Unused(idx[t]) BY <1>5, <2>1 DEF CheckUsed, IInv, LocalsInv
  <2>3. s < idx[t] + 1 BY <2>1 DEF Passed
  <2>4. s # idx[t] BY <2>1, <2>2, UsedIsListed, ListedIsOccupied
  <2>5. s < idx[t] BY <1>0, <2>2, <2>3, <2>4, IndexIsInt
  <2>6. s \in Passed(t) BY <1>0, <2>5 DEF Passed
  <2> QED BY <2>1, <2>6 DEF EmptyInv
<1>6. ASSUME CheckUnused(t) PROVE best'[t] # 0 /\ uri'[best'[t]] = NoKey
  <2>1. /\ pc[t] = "check" /\ pc'[t] = "scan" /\ idx'[t] = idx[t] + 1
        /\ best'[t] = idx[t] /\ UNCHANGED uri
    BY <1>0, <1>6 DEF CheckUnused, ChangeBest, TypeOK, ThreadsOK
  <2>2. idx[t] \in Slots /\ idx[t] # 0 BY <2>1, SlotFacts DEF IInv, LocalsInv
  <2>3. s < idx[t] + 1 BY <2>1 DEF Passed
  <2>4. CASE s = idx[t] BY <2>1, <2>2, <2>4
  <2>5. CASE s # idx[t]
    <3>1. s < idx[t] BY <1>0, <2>2, <2>3, <2>5, IndexIsInt
    <3>2. s \in Passed(t) BY <1>0, <3>1 DEF Passed
    <3>3. best[t] # 0 /\ uri[best[t]] = NoKey BY <2>1, <3>2 DEF EmptyInv
    <3>4. best[t] \in Slots BY <1>0, <3>3 DEF TypeOK, ThreadsOK
    <3>5. atime[best[t]] = 0 BY <2>1, <3>3, <3>4, EmptyShowsZero
    <3>6. atime[idx[t]] < 0 BY <2>1, <3>3, <3>5 DEF BeatsInv, IsOlder, BestTime
    <3>7. atime[idx[t]] \in 0..(ClockRange - 1) BY <1>0, <2>2 DEF TypeOK, SlotsOK, Clock
    <3> QED BY <3>6, <3>7, SizesAssumption
  <2> QED BY <2>4, <2>5
<1>7. ASSUME VictimFound(t) \/ OpenSucceeds(t) \/ Publish(t)
      PROVE  best'[t] # 0 /\ uri'[best'[t]] = NoKey
  <2>1. /\ pc[t] \in {"scan", "open", "publish"}
        /\ pc[t] = "scan" => idx[t] \notin Slots
        /\ UNCHANGED <<uri, best>>
    BY <1>0, <1>7 DEF VictimFound, OpenSucceeds, Publish, TypeOK, ThreadsOK
  <2>2. ASSUME pc[t] = "scan" PROVE s < idx[t]
    <3>1. idx[t] \in Cursor \ {0} BY <2>2 DEF IInv, LocalsInv
    <3> QED BY <1>0, <2>1, <2>2, <3>1, SizesAssumption DEF Cursor, Slots
  <2>3. s \in Passed(t) BY <1>0, <2>1, <2>2 DEF Passed
  <2> QED BY <2>1, <2>3 DEF EmptyInv
<1>8. ASSUME ThreadStep(t) PROVE best'[t] # 0 /\ uri'[best'[t]] = NoKey
  BY <1>0, <1>8, <1>2, <1>3, <1>4, <1>5, <1>6, <1>7, ChoosingSteps
<1>9. CASE UNCHANGED vars
  <2>1. UNCHANGED <<pc, idx, best, uri>> BY <1>9 DEF vars
  <2>2. s \in Passed(t) BY <2>1 DEF Passed
  <2> QED BY <2>1, <2>2 DEF EmptyInv
<1> QED BY <1>1, <1>8, <1>9 DEF Next

\* All that is known while every open() succeeds and the clock has not wrapped.
LEMMA YoungInvariance ==
    ASSUME OpenOutcomes = {"open"}
    PROVE  Spec /\ []BeforeWrap =>
               [](IInv /\ NoStrandedLock /\ AgeInv /\ BeatsInv /\ EmptyInv)
<1>1. Init => AgeInv /\ BeatsInv /\ EmptyInv
  BY DEF Init, AgeInv, BeatsInv, EmptyInv
<1>2. /\ IInv /\ NoStrandedLock /\ AgeInv /\ BeatsInv /\ EmptyInv
      /\ BeforeWrap /\ [Next]_vars
      => AgeInv' /\ BeatsInv' /\ EmptyInv'
  BY AgeStep, BeatsStep, EmptyStep
<1>3. Spec => []NoStrandedLock BY NoMutexStranded
<1> QED BY Invariance, <1>1, <1>2, <1>3, PTL DEF Spec

\* Until its clock wraps, insert() fills every empty slot before it evicts a
\* dataset, whatever the readers do to the access times meanwhile.
THEOREM EmptySlotsFirst ==
    ASSUME OpenOutcomes = {"open"}
    PROVE  Spec /\ []BeforeWrap => []EmptyFirst
<1>1. IInv /\ EmptyInv => EmptyFirst
  <2> SUFFICES ASSUME IInv, EmptyInv, NEW t \in Threads, pc[t] \in {"open", "publish"},
                      best[t] \in Occupied, NEW s \in Slots
               PROVE  s \in Occupied
    BY DEF EmptyFirst, Occupied
  <2>1. s \in Passed(t) BY DEF Passed
  <2> QED BY <2>1 DEF EmptyInv, Occupied
<1> QED BY YoungInvariance, <1>1, PTL

\* m_size is as large as the number of occupied slots, in every state.
SizeExact == size = Cardinality(Occupied)

\* The move assignment adds to m_size exactly if the slot was empty: it is
\* occupied only if all are, and m_size is then at the capacity.
LEMMA SizeReplace ==
    ASSUME IInv, EmptyInv, SizeExact, NEW t \in Threads, Replace(t) PROVE SizeExact'
<1> DEFINE b == best[t]
<1>1. pc[t] = "replace" /\ b \in Slots /\ key[t] # NoKey /\ uri \in [Slots -> Keys \cup {NoKey}]
  BY KeysAssumption DEF Replace, IInv, LocalsInv, TypeOK, SlotsOK
<1>2. uri' = [uri EXCEPT ![b] = key[t]] BY DEF Replace
<1>3. Occupied' = Occupied \cup {b} BY <1>1, <1>2 DEF Occupied
<1>4. IsFiniteSet(Slots) /\ Cardinality(Slots) = Capacity /\ Capacity \in Nat
  BY SizesAssumption, FS_Interval DEF Slots
<1>5. size' = IF size < Capacity THEN size + 1 ELSE size BY DEF Replace
<1>6. CASE b \in Occupied
  <2>1. Occupied = Slots
    <3> SUFFICES ASSUME NEW s \in Slots, uri[s] = NoKey PROVE FALSE BY DEF Occupied
    <3>1. s \in Passed(t) BY <1>1 DEF Passed
    <3> QED BY <1>1, <1>6, <3>1 DEF EmptyInv, Occupied
  <2>2. size = Capacity BY <2>1, <1>4 DEF SizeExact
  <2>3. Cardinality(Occupied') = Cardinality(Occupied) BY <1>3, <1>6
  <2>4. size' = size BY <2>2, <1>4, <1>5
  <2> QED BY <2>3, <2>4 DEF SizeExact
<1>7. CASE b \notin Occupied
  <2>1. Cardinality(Occupied \cup {b}) = Cardinality(Occupied) + 1
    BY <1>7, OccupiedNat, FS_AddElement
  <2>2. Occupied \cup {b} \subseteq Slots BY <1>1 DEF Occupied
  <2>3. Cardinality(Occupied \cup {b}) <= Cardinality(Slots) BY <1>4, <2>2, FS_Subset
  <2>4. size < Capacity BY <2>1, <2>3, <1>4, OccupiedNat DEF SizeExact
  <2> QED BY <1>3, <1>5, <2>1, <2>4 DEF SizeExact
<1> QED BY <1>6, <1>7

\* insert() and clear() keep m_size exact, and nothing else fills a slot.
LEMMA SizeStep ==
    ASSUME IInv, EmptyInv, SizeExact, [Next]_vars PROVE SizeExact'
<1> USE DEF slotVars, cacheVars
<1>1. ASSUME NEW t \in Threads, Replace(t) PROVE SizeExact'
  BY <1>1, SizeReplace
<1>2. ASSUME NEW t \in Threads, Clear(t) PROVE SizeExact'
  <2>1. Occupied' = {} /\ size' = 0 BY <1>2 DEF Clear, Occupied
  <2> QED BY <2>1, FS_EmptySet DEF SizeExact
<1>3. ASSUME NEW t \in Threads, ThreadStep(t), ~Replace(t), ~Clear(t) PROVE SizeExact'
  <2>1. UNCHANGED <<uri, size>>
    <3>1. CASE FindHit(t) \/ Stamp(t) \/ Publish(t) BY <3>1 DEF FindHit, Stamp, Publish
    <3>2. CASE ~(FindHit(t) \/ Stamp(t) \/ Publish(t)) BY <1>3, <3>2, QuietSteps DEF IInv
    <3> QED BY <3>1, <3>2
  <2> QED BY <2>1 DEF SizeExact, Occupied
<1>4. CASE UNCHANGED vars
  BY <1>4 DEF vars, SizeExact, Occupied
<1> QED BY <1>1, <1>2, <1>3, <1>4 DEF Next

\* size() is the number of datasets in the cache, also while insert() works on
\* it: m_size does not drift when a dataset is replaced by another.
THEOREM SizeIsExact ==
    ASSUME OpenOutcomes = {"open"}
    PROVE  Spec /\ []BeforeWrap => [](SizeExact /\ SizeIsOccupancy)
<1>1. Init => SizeExact
  <2> SUFFICES ASSUME Init PROVE SizeExact OBVIOUS
  <2>1. Occupied = {} /\ size = 0 BY DEF Init, Occupied
  <2> QED BY <2>1, FS_EmptySet DEF SizeExact
<1>2. IInv /\ EmptyInv /\ SizeExact /\ [Next]_vars => SizeExact' BY SizeStep
<1>3. SizeExact => SizeIsOccupancy BY DEF SizeExact, SizeIsOccupancy
<1> QED BY YoungInvariance, <1>1, <1>2, <1>3, PTL DEF Spec

-------------------------------------------------------------------------------
(* The victim is the least recently used of the datasets without users. *)

\* Why a slot that the scan has passed is not a better victim than the
\* candidate: it is not older, or it had a user, or somebody was inside the
\* cache who may have been its user since.
Spared(t, s) ==
    \/ BestTime(t) <= atime[s]
    \/ s \in held[t]
    \/ \E u \in Threads \ {t} : pc[u] \notin {"wrlock", "trywrlock"} \/ s \in held[u]

YoungerInv ==
    \A t \in Threads :
        pc[t] \in {"scan", "check", "open"} => \A s \in Passed(t) : Spared(t, s)

\* A thread starts to wait for the write lock as it leaves the search.
LEMMA WaitingSteps ==
    ASSUME TypeOK, NEW u \in Threads, ThreadStep(u), pc'[u] \in {"wrlock", "trywrlock"}
    PROVE  RdUnlock(u)
<1> USE DEF TypeOK, ThreadsOK, Goto
<1>1. ~ \/ \E k \in Keys, n \in Copies : Get(u, k, n)
        \/ RdLock(u) \/ WrLock(u) \/ UseStep(u) \/ Clear(u)
  BY DEF Get, RdLock, WrLock, UseStep, OpTryLock, PixelsBand, Dec, PixelsLocks,
         PixelsRefused, OpUnlock, Return, Clear
<1>2. ~ \/ FindHit(u) \/ Stamp(u) \/ FindMiss(u) \/ TryWrLockSucceeds(u)
        \/ TryWrLockFails(u) \/ InsertBegins(u) \/ WrUnlock(u)
  BY DEF FindHit, Stamp, FindMiss, TryWrLockSucceeds, TryWrLockFails, InsertBegins, WrUnlock
<1>3. ~ \/ ScanSkips(u) \/ ScanLocks(u) \/ CheckUsed(u) \/ CheckUnused(u)
        \/ NoVictim(u) \/ VictimFound(u) \/ OpenSucceeds(u) \/ OpenFails(u)
        \/ Publish(u) \/ Replace(u) \/ Take(u)
  BY DEF ScanSkips, ScanLocks, CheckUsed, CheckUnused, NoVictim, VictimFound,
         OpenSucceeds, OpenFails, Publish, Replace, Take
<1> QED BY <1>1, <1>2, <1>3 DEF ThreadStep, GetStep

\* A step of another thread does not spoil the choice.
LEMMA SparedByOthers ==
    ASSUME IInv, NEW t \in Threads, pc[t] \in {"scan", "check", "open"},
           NEW s \in Slots, Spared(t, s),
           NEW u \in Threads, u # t, ThreadStep(u)
    PROVE  Spared(t, s)'
<1>0. TypeOK BY DEF IInv
<1>1. pc[t] \in WriteSection BY DEF WriteSection
<1>2. UNCHANGED atime /\ best'[t] = best[t] /\ held'[t] = held[t]
  BY <1>0, <1>1, SlotsFrame, OthersLocals
<1>3. BestTime(t)' = BestTime(t) BY <1>2 DEF BestTime
<1>4. pc'[u] \notin {"wrlock", "trywrlock"}
  <2>1. pc[u] \notin ReadSection
    BY <1>1, ThreadsAssumption DEF IInv, LockInv
  <2> QED BY <1>0, <2>1, WaitingSteps DEF RdUnlock, ReadSection
<1> QED BY <1>2, <1>3, <1>4 DEF Spared

\* The reasons to prefer the candidate are those of the scan: a slot is passed
\* when it is not older, locked by its user, or in use.
LEMMA YoungerStep ==
    ASSUME IInv, NoStrandedLock, BeatsInv, YoungerInv, [Next]_vars PROVE YoungerInv'
<1> SUFFICES ASSUME NEW t \in Threads, pc'[t] \in {"scan", "check", "open"},
                    NEW s \in Passed(t)'
             PROVE  Spared(t, s)'
  BY DEF YoungerInv
<1>0. TypeOK /\ s \in Slots BY DEF IInv, Passed
<1> USE DEF Goto, slotVars, getVars
<1>1. ASSUME NEW u \in Threads, ThreadStep(u), u # t PROVE Spared(t, s)'
  <2>1. pc'[t] = pc[t] /\ idx'[t] = idx[t] BY <1>0, <1>1, OthersLocals
  <2>2. s \in Passed(t) BY <2>1 DEF Passed
  <2> QED BY <1>0, <1>1, <2>1, <2>2, SparedByOthers DEF YoungerInv
<1>2. ASSUME s \in Passed(t), pc[t] \in {"scan", "check", "open"},
             UNCHANGED <<atime, best, held>>, \A u \in Threads \ {t} : pc'[u] = pc[u]
      PROVE  Spared(t, s)'
  BY <1>2 DEF YoungerInv, Spared, BestTime
<1>3. ASSUME InsertBegins(t) PROVE FALSE
  <2>1. idx'[t] = 1 /\ pc'[t] = "scan" BY <1>0, <1>3 DEF InsertBegins, TypeOK, ThreadsOK
  <2>2. s < 1 BY <2>1 DEF Passed
  <2> QED BY <1>0, <2>2 DEF Slots
<1>4. ASSUME ScanSkips(t) PROVE Spared(t, s)'
  <2>1. /\ pc[t] = "scan" /\ idx'[t] = idx[t] + 1 /\ UNCHANGED <<atime, best, held, pc>>
    BY <1>0, <1>4 DEF ScanSkips, TypeOK, ThreadsOK
  <2>2. idx[t] \in Slots BY <1>4 DEF ScanSkips
  <2>3. s < idx[t] + 1 BY <2>1 DEF Passed
  <2>4. CASE s = idx[t]
    <3>1. CASE MutexFree(s)
      <4>1. ~(atime[s] < BestTime(t)) BY <1>4, <2>4, <3>1 DEF ScanSkips, IsOlder
      <4>2. atime[s] \in Int /\ BestTime(t) \in Int
        BY <1>0, SizesAssumption DEF TypeOK, SlotsOK, ThreadsOK, Clock, BestTime, MaxTime
      <4>3. BestTime(t) <= atime[s] BY <4>1, <4>2
      <4> QED BY <2>1, <4>3 DEF Spared, BestTime
    <3>2. CASE ~MutexFree(s)
      <4>1. PICK u \in Threads \ {t} : pc[u] = "op" BY <2>1, <2>2, <2>4, <3>2, BusyIsUsed
      <4> QED BY <2>1, <4>1 DEF Spared
    <3> QED BY <3>1, <3>2
  <2>5. CASE s # idx[t]
    <3>1. s < idx[t] BY <1>0, <2>2, <2>3, <2>5, IndexIsInt
    <3>2. s \in Passed(t) BY <1>0, <3>1 DEF Passed
    <3> QED BY <1>2, <2>1, <3>2
  <2> QED BY <2>4, <2>5
<1>5. ASSUME ScanLocks(t) PROVE Spared(t, s)'
  <2>1. /\ pc[t] = "scan" /\ pc'[t] = "check" /\ UNCHANGED <<atime, idx, best, held>>
        /\ \A u \in Threads \ {t} : pc'[u] = pc[u]
    BY <1>0, <1>5 DEF ScanLocks, TypeOK, ThreadsOK
  <2>2. s \in Passed(t) BY <2>1 DEF Passed
  <2> QED BY <1>2, <2>1, <2>2
<1>6. ASSUME CheckUsed(t) PROVE Spared(t, s)'
  <2>1. /\ pc[t] = "check" /\ pc'[t] = "scan" /\ idx'[t] = idx[t] + 1
        /\ UNCHANGED <<atime, best, held>> /\ \A u \in Threads \ {t} : pc'[u] = pc[u]
    BY <1>0, <1>6 DEF CheckUsed, TypeOK, ThreadsOK
  <2>2. idx[t] \in Slots /\ ~Unused(idx[t]) BY <1>6, <2>1 DEF CheckUsed, IInv, LocalsInv
  <2>3. s < idx[t] + 1 BY <2>1 DEF Passed
  <2>4. CASE s = idx[t]
    <3>1. PICK u \in Threads : s \in held[u] BY <2>2, <2>4, UsedIsListed
    <3> QED BY <2>1, <3>1 DEF Spared
  <2>5. CASE s # idx[t]
    <3>1. s < idx[t] BY <1>0, <2>2, <2>3, <2>5, IndexIsInt
    <3>2. s \in Passed(t) BY <1>0, <3>1 DEF Passed
    <3> QED BY <1>2, <2>1, <3>2
  <2> QED BY <2>4, <2>5
<1>7. ASSUME CheckUnused(t) PROVE Spared(t, s)'
  <2>1. /\ pc[t] = "check" /\ pc'[t] = "scan" /\ idx'[t] = idx[t] + 1
        /\ best'[t] = idx[t] /\ UNCHANGED <<atime, held>>
        /\ \A u \in Threads \ {t} : pc'[u] = pc[u]
    BY <1>0, <1>7 DEF CheckUnused, ChangeBest, TypeOK, ThreadsOK
  <2>2. idx[t] \in Slots /\ idx[t] # 0 BY <2>1, SlotFacts DEF IInv, LocalsInv
  <2>3. s < idx[t] + 1 BY <2>1 DEF Passed
  <2>4. BestTime(t)' = atime[idx[t]] BY <2>1, <2>2 DEF BestTime
  <2>5. /\ atime[s] \in Int /\ atime[idx[t]] \in Int /\ BestTime(t) \in Int
    BY <1>0, <2>2, SizesAssumption
    DEF TypeOK, SlotsOK, ThreadsOK, Clock, BestTime, MaxTime
  <2>6. atime[idx[t]] < BestTime(t) BY <2>1 DEF BeatsInv, IsOlder
  <2>7. CASE s = idx[t] BY <2>1, <2>4, <2>5, <2>7 DEF Spared
  <2>8. CASE s # idx[t]
    <3>1. s < idx[t] BY <1>0, <2>2, <2>3, <2>8, IndexIsInt
    <3>2. s \in Passed(t) BY <1>0, <3>1 DEF Passed
    <3>3. Spared(t, s) BY <2>1, <3>2 DEF YoungerInv
    <3>4. BestTime(t) <= atime[s] => BestTime(t)' <= atime'[s] BY <2>1, <2>4, <2>5, <2>6
    <3> QED BY <2>1, <3>3, <3>4 DEF Spared
  <2> QED BY <2>7, <2>8
<1>8. ASSUME VictimFound(t) PROVE Spared(t, s)'
  <2>1. /\ pc[t] = "scan" /\ idx[t] \notin Slots /\ UNCHANGED <<atime, best, held>>
        /\ \A u \in Threads \ {t} : pc'[u] = pc[u]
    BY <1>0, <1>8 DEF VictimFound, TypeOK, ThreadsOK
  <2>2. idx[t] \in Cursor \ {0} BY <2>1 DEF IInv, LocalsInv
  <2>3. s < idx[t] BY <1>0, <2>1, <2>2, SizesAssumption DEF Cursor, Slots
  <2>4. s \in Passed(t) BY <1>0, <2>3 DEF Passed
  <2> QED BY <1>2, <2>1, <2>4
<1>9. ASSUME OpenSucceeds(t) \/ Publish(t) PROVE FALSE
  BY <1>0, <1>9 DEF OpenSucceeds, Publish, TypeOK, ThreadsOK
<1>10. ASSUME ThreadStep(t) PROVE Spared(t, s)'
  BY <1>0, <1>10, <1>3, <1>4, <1>5, <1>6, <1>7, <1>8, <1>9, ChoosingSteps
<1>11. CASE UNCHANGED vars
  <2>1. UNCHANGED <<pc, idx, best, atime, held>> BY <1>11 DEF vars
  <2>2. s \in Passed(t) /\ pc[t] \in {"scan", "check", "open"} BY <2>1 DEF Passed
  <2> QED BY <1>2, <2>1, <2>2
<1> QED BY <1>1, <1>10, <1>11 DEF Next

\* When every other thread waits to insert, insert() evicts, of the datasets
\* nobody uses, one that was used no later than any other.
THEOREM LeastRecentlyUsed ==
    ASSUME OpenOutcomes = {"open"} PROVE Spec => []VictimIsLRU
<1>1. Init => BeatsInv /\ YoungerInv BY DEF Init, BeatsInv, YoungerInv
<1>2. /\ IInv /\ NoStrandedLock /\ BeatsInv /\ YoungerInv /\ [Next]_vars
      => BeatsInv' /\ YoungerInv'
  BY BeatsStep, YoungerStep
<1>3. IInv /\ YoungerInv => VictimIsLRU
  <2> SUFFICES ASSUME IInv, YoungerInv, NEW t \in Threads, pc[t] = "open",
                      \A u \in Threads \ {t} : pc[u] \in {"wrlock", "trywrlock"},
                      NEW s \in Slots, use[s] = 0
               PROVE  atime[best[t]] <= atime[s]
    BY DEF VictimIsLRU
  <2>1. \A u \in Threads : s \notin held[u] BY Referenced DEF IInv
  <2>2. Spared(t, s) BY DEF YoungerInv, Passed
  <2>3. best[t] # 0 BY SlotFacts DEF IInv, LocalsInv
  <2> QED BY <2>1, <2>2, <2>3 DEF Spared, BestTime
<1>4. Spec => []NoStrandedLock BY NoMutexStranded
<1> QED BY Invariance, <1>1, <1>2, <1>3, <1>4, PTL DEF Spec

-------------------------------------------------------------------------------
(* How many datasets of one key the cache ever holds. *)

\* The tag of an occupied slot is the hash of its key, unless it is being
\* rewritten.
TagInv ==
    \A s \in Slots :
        uri[s] # NoKey =>
            tag[s] = Hash[uri[s]] \/ \E t \in Threads : pc[t] = "replace" /\ best[t] = s

\* The search misses no dataset of its key.
FoundInv ==
    \A t \in Threads : \A s \in Slots :
        /\ pc[t] = "find" /\ s < idx[t] /\ uri[s] = key[t] => s \in held[t]
        /\ pc[t] = "stamp" /\ s <= idx[t] /\ uri[s] = key[t] => s \in held[t]

\* insert() and clear() keep tag and key together, for those who may look.
LEMMA TagStep == ASSUME IInv, TagInv, [Next]_vars PROVE TagInv'
<1> USE KeysAssumption DEF IInv, TypeOK, SlotsOK, ThreadsOK, TagInv, Goto, getVars
<1>1. ASSUME NEW u \in Threads, FindHit(u) \/ Stamp(u) PROVE TagInv'
  <2>1. UNCHANGED <<tag, uri, best>> BY <1>1 DEF FindHit, Stamp
  <2>2. \A t \in Threads : pc[t] = "replace" => pc'[t] = "replace"
    BY <1>1 DEF FindHit, Stamp
  <2> QED BY <2>1, <2>2
<1>2. ASSUME NEW u \in Threads, Publish(u) PROVE TagInv'
  <2>1. best[u] \in Slots BY <1>2 DEF Publish, LocalsInv
  <2>2. tag' = [tag EXCEPT ![best[u]] = Hash[key[u]]] /\ UNCHANGED <<uri, best>>
    BY <1>2 DEF Publish
  <2>3. pc'[u] = "replace" /\ \A t \in Threads : pc[t] = "replace" => pc'[t] = "replace"
    BY <1>2 DEF Publish
  <2> QED BY <2>1, <2>2, <2>3
<1>3. ASSUME NEW u \in Threads, Replace(u) PROVE TagInv'
  <2>1. best[u] \in Slots /\ tag[best[u]] = Hash[key[u]]
    BY <1>3 DEF Replace, LocalsInv, CandidateInv
  <2>2. uri' = [uri EXCEPT ![best[u]] = key[u]] /\ UNCHANGED <<tag, best>>
    BY <1>3 DEF Replace
  <2>3. \A t \in Threads : pc[t] = "replace" /\ t # u => pc'[t] = "replace"
    BY <1>3 DEF Replace
  <2> QED BY <2>1, <2>2, <2>3
<1>4. ASSUME NEW u \in Threads, Clear(u) PROVE TagInv'
  BY <1>4 DEF Clear
<1>5. ASSUME NEW u \in Threads, ThreadStep(u),
             ~FindHit(u), ~Stamp(u), ~Publish(u), ~Replace(u), ~Clear(u)
      PROVE  TagInv'
  <2>1. /\ UNCHANGED <<tag, uri>>
        /\ \A t \in Threads : pc[t] = "replace" => pc'[t] = pc[t] /\ best'[t] = best[t]
    BY <1>5, QuietSteps
  <2> QED BY <2>1
<1>6. CASE UNCHANGED vars
  BY <1>6 DEF vars, slotVars
<1> QED BY <1>1, <1>2, <1>3, <1>4, <1>5, <1>6 DEF Next

\* A thread searches by the steps of the search only.
LEMMA SearchingSteps ==
    ASSUME TypeOK, NEW t \in Threads, ThreadStep(t), pc'[t] \in {"find", "stamp"}
    PROVE  RdLock(t) \/ FindHit(t) \/ Stamp(t) \/ FindMiss(t)
<1> USE DEF TypeOK, ThreadsOK, Goto
<1>1. ~ \/ \E k \in Keys, n \in Copies : Get(t, k, n)
        \/ WrLock(t) \/ UseStep(t) \/ Clear(t) \/ RdUnlock(t) \/ TryWrLockSucceeds(t)
        \/ TryWrLockFails(t) \/ InsertBegins(t) \/ WrUnlock(t)
  BY DEF Get, WrLock, UseStep, OpTryLock, PixelsBand, Dec, PixelsLocks, PixelsRefused,
         OpUnlock, Return, Clear, RdUnlock, AfterFind, TryWrLockSucceeds, TryWrLockFails,
         InsertBegins, WrUnlock
<1>2. ~ \/ ScanSkips(t) \/ ScanLocks(t) \/ CheckUsed(t) \/ CheckUnused(t)
        \/ NoVictim(t) \/ VictimFound(t) \/ OpenSucceeds(t) \/ OpenFails(t)
        \/ Publish(t) \/ Replace(t) \/ Take(t)
  BY DEF ScanSkips, ScanLocks, CheckUsed, CheckUnused, NoVictim, VictimFound,
         OpenSucceeds, OpenFails, Publish, Replace, Take
<1> QED BY <1>1, <1>2 DEF ThreadStep, GetStep

\* While a thread searches, a slot of its key has its tag: nobody rewrites it.
LEMMA SearchedMatches ==
    ASSUME IInv, TagInv, NEW t \in Threads, pc[t] = "find", NEW s \in Slots, uri[s] = key[t]
    PROVE  Matches(s, key[t])
<1>1. ASSUME NEW u \in Threads, pc[u] = "replace" PROVE FALSE
  <2>1. writer = u /\ writer # Nobody
    BY <1>1, ThreadsAssumption DEF IInv, LockInv, WriteSection
  <2>2. t \in readers BY DEF IInv, LockInv, ReadSection
  <2> QED BY <2>1, <2>2 DEF IInv, LockInv
<1>2. uri[s] # NoKey BY KeysAssumption DEF IInv, LocalsInv
<1> QED BY <1>1, <1>2 DEF TagInv, Matches

\* get() lists each slot of its key that it passes, and none comes up behind it:
\* there are no insertions during the search.
LEMMA FoundStep == ASSUME IInv, TagInv, FoundInv, [Next]_vars PROVE FoundInv'
<1> SUFFICES ASSUME NEW t \in Threads, NEW s \in Slots, pc'[t] \in {"find", "stamp"},
                    pc'[t] = "find" => s < idx'[t],
                    pc'[t] = "stamp" => s <= idx'[t],
                    uri'[s] = key'[t]
             PROVE  s \in held'[t]
  BY DEF FoundInv
<1>0. TypeOK /\ \A i \in Slots : i \in Int BY IndexIsInt DEF IInv
<1> USE DEF TypeOK, ThreadsOK, Goto, slotVars, getVars
<1>1. ASSUME NEW u \in Threads, ThreadStep(u), u # t PROVE s \in held'[t]
  <2>1. pc'[t] = pc[t] /\ idx'[t] = idx[t] /\ held'[t] = held[t] /\ key'[t] = key[t]
    BY <1>0, <1>1, OthersLocals
  <2>2. UNCHANGED uri BY <1>1, <2>1, SlotsFrame DEF ReadSection
  <2> QED BY <2>1, <2>2 DEF FoundInv
<1>2. ASSUME RdLock(t) PROVE FALSE
  <2>1. idx'[t] = 1 /\ pc'[t] = "find" BY <1>0, <1>2 DEF RdLock
  <2>2. s < 1 BY <2>1
  <2> QED BY <2>2 DEF Slots
<1>3. ASSUME FindHit(t) PROVE s \in held'[t]
  <2>1. /\ pc[t] = "find" /\ pc'[t] = "stamp" /\ idx[t] \in Slots
        /\ held'[t] = held[t] \cup {idx[t]} /\ UNCHANGED <<uri, key, idx>>
    BY <1>0, <1>3 DEF FindHit, List
  <2>2. s <= idx[t] BY <2>1
  <2>3. s = idx[t] \/ s < idx[t] BY <1>0, <2>1, <2>2
  <2> QED BY <2>1, <2>3 DEF FoundInv
<1>4. ASSUME Stamp(t) PROVE s \in held'[t]
  <2>1. /\ pc[t] = "stamp" /\ pc'[t] = "find" /\ idx'[t] = idx[t] + 1
        /\ UNCHANGED <<uri, key, held>>
    BY <1>0, <1>4 DEF Stamp
  <2>2. idx[t] \in Slots BY <2>1 DEF IInv, LocalsInv
  <2>3. s < idx[t] + 1 BY <2>1
  <2>4. s <= idx[t] BY <1>0, <2>2, <2>3
  <2> QED BY <2>1, <2>4 DEF FoundInv
<1>5. ASSUME FindMiss(t) PROVE s \in held'[t]
  <2>1. /\ pc[t] = "find" /\ idx[t] \in Slots /\ ~Matches(idx[t], key[t])
        /\ pc'[t] = "find" /\ idx'[t] = idx[t] + 1 /\ UNCHANGED <<uri, key, held>>
    BY <1>0, <1>5 DEF FindMiss
  <2>2. s < idx[t] + 1 BY <2>1
  <2>3. s # idx[t] BY <2>1, SearchedMatches
  <2>4. s < idx[t] BY <1>0, <2>1, <2>2, <2>3
  <2> QED BY <2>1, <2>4 DEF FoundInv
<1>6. ASSUME ThreadStep(t) PROVE s \in held'[t]
  BY <1>0, <1>6, <1>2, <1>3, <1>4, <1>5, SearchingSteps
<1>7. CASE UNCHANGED vars
  <2>1. UNCHANGED <<pc, idx, held, key, uri>> BY <1>7 DEF vars
  <2> QED BY <2>1 DEF FoundInv
<1> QED BY <1>1, <1>6, <1>7 DEF Next

\* The datasets of a key that the cache holds, and those that get() has decided
\* to insert and has not stored yet: one pair for each.
Wanting == {"wrlock", "trywrlock"} \cup WriteSection

Pending(t) == IF pc[t] = "take" THEN want[t] - 1 ELSE want[t]

Stored(k) == {s \in Slots : uri[s] = k}

Planned(k, M) ==
    {w \in Threads \X (1..M) :
        pc[w[1]] \in Wanting /\ key[w[1]] = k /\ w[2] <= Pending(w[1])}

\* M bounds what one get() asks for, and so what it inserts.
WantInv(M) == \A t \in Threads : want[t] <= M

CopiesInv(M) ==
    \A k \in Keys :
        Cardinality(Stored(k)) + Cardinality(Planned(k, M)) <= M * Cardinality(Threads)

LEMMA CopiesFinite ==
    ASSUME NEW k, NEW M \in Nat
    PROVE  /\ IsFiniteSet(Stored(k)) /\ Cardinality(Stored(k)) \in Nat
           /\ IsFiniteSet(Planned(k, M)) /\ Cardinality(Planned(k, M)) \in Nat
<1>1. IsFiniteSet(Slots) /\ IsFiniteSet(1..M) BY SizesAssumption, FS_Interval DEF Slots
<1>2. IsFiniteSet(Threads \X (1..M)) BY <1>1, ThreadsAssumption, FS_Product
<1>3. Stored(k) \subseteq Slots BY DEF Stored
<1>4. Planned(k, M) \subseteq Threads \X (1..M) BY DEF Planned
<1> QED BY <1>1, <1>2, <1>3, <1>4, FS_Subset, FS_CardinalityType

LEMMA ThreadsNat == Cardinality(Threads) \in Nat
  BY ThreadsAssumption, FS_CardinalityType

\* A request is at most M datasets, less those that the search has found.
LEMMA RequestBound ==
    ASSUME IInv, NEW M \in Nat, \A n \in Copies : n <= M /\ -n <= M,
           NEW t \in Threads, RdUnlock(t)
    PROVE  /\ pc[t] = "find" /\ idx[t] \notin Slots
           /\ UNCHANGED <<uri, key, held>>
           /\ \/ pc'[t] = "got" /\ want'[t] = want[t]
              \/ /\ pc'[t] \in {"wrlock", "trywrlock"}
                 /\ want'[t] <= M - Cardinality(held[t]) /\ Cardinality(held[t]) <= M
<1> DEFINE n == copies[t]
           f == Cardinality(held[t])
<1>1. f \in Nat BY FoundNat DEF IInv
<1>2. n \in Int /\ n <= M /\ -n <= M
  <2>1. n \in Copies \cup {0} BY DEF IInv, TypeOK, ThreadsOK
  <2>2. CASE n \in Copies
    <3>1. n \in Int BY <2>2, CopiesAssumption
    <3> QED BY <2>2, <3>1
  <2>3. CASE n = 0 BY <2>3
  <2> QED BY <2>1, <2>2, <2>3
<1>3. HardRequest(n) \in Int /\ HardRequest(n) <= M BY <1>2 DEF HardRequest
<1>4. pc[t] = "find" /\ idx[t] \notin Slots /\ UNCHANGED <<uri, key, held>> /\ AfterFind(t)
  BY DEF RdUnlock, slotVars
<1>5. pc \in [Threads -> Places] /\ want \in [Threads -> Nat]
  BY DEF IInv, TypeOK, ThreadsOK
<1>6. \/ f < HardRequest(n) /\ want'[t] = HardRequest(n) - f /\ pc'[t] = "wrlock"
      \/ f < -n /\ want'[t] = -n - f /\ pc'[t] = "trywrlock"
      \/ pc'[t] = "got" /\ want'[t] = want[t]
  BY <1>4, <1>5 DEF AfterFind, Goto
<1> HIDE DEF n, f
<1>7. \/ want'[t] <= M - f /\ f <= M /\ pc'[t] \in {"wrlock", "trywrlock"}
      \/ pc'[t] = "got" /\ want'[t] = want[t]
  BY <1>1, <1>2, <1>3, <1>6
<1> QED BY <1>4, <1>7 DEF f

\* What is left to do only shrinks after the search: a failed insertion counts
\* as well, and a stored dataset is not pending any more.
LEMMA PendingSteps ==
    ASSUME IInv, NEW t \in Threads, ThreadStep(t), ~RdUnlock(t), pc'[t] \in Wanting
    PROVE  /\ pc[t] \in Wanting /\ key'[t] = key[t] /\ want'[t] <= want[t]
           /\ ~Replace(t) => Pending(t)' <= Pending(t)
<1>0. /\ pc \in [Threads -> Places] /\ want \in [Threads -> Nat]
      /\ key \in [Threads -> Keys \cup {NoKey}]
  BY DEF IInv, TypeOK, ThreadsOK
<1> USE DEF Wanting, WriteSection, Pending, Goto, getVars
<1>1. ~ \/ \E k \in Keys, n \in Copies : Get(t, k, n)
        \/ RdLock(t) \/ UseStep(t) \/ Clear(t)
        \/ FindHit(t) \/ Stamp(t) \/ FindMiss(t) \/ TryWrLockFails(t) \/ WrUnlock(t)
  BY <1>0 DEF Get, RdLock, UseStep, OpTryLock, PixelsBand, Dec, PixelsLocks, PixelsRefused,
         OpUnlock, Return, Clear, FindHit, Stamp, FindMiss, TryWrLockFails, WrUnlock
<1>2. CASE WrLock(t) \/ TryWrLockSucceeds(t) \/ InsertBegins(t)
  BY <1>0, <1>2 DEF WrLock, TryWrLockSucceeds, InsertBegins
<1>3. CASE ScanSkips(t) \/ ScanLocks(t) \/ CheckUsed(t) \/ CheckUnused(t)
  BY <1>0, <1>3 DEF ScanSkips, ScanLocks, CheckUsed, CheckUnused
<1>4. CASE NoVictim(t) \/ OpenFails(t)
  BY <1>0, <1>4 DEF NoVictim, OpenFails, GiveUp
<1>5. CASE VictimFound(t) \/ OpenSucceeds(t) \/ Publish(t)
  BY <1>0, <1>5 DEF VictimFound, OpenSucceeds, Publish
<1>6. CASE Replace(t)
  BY <1>0, <1>6 DEF Replace
<1>7. CASE Take(t)
  BY <1>0, <1>7 DEF Take
<1> QED BY <1>1, <1>2, <1>3, <1>4, <1>5, <1>6, <1>7 DEF ThreadStep, GetStep

\* Any step but the end of a search leaves at most the plans there were.
LEMMA PlannedShrinks ==
    ASSUME IInv, NEW k \in Keys, NEW M \in Nat, NEW u \in Threads, ThreadStep(u), ~RdUnlock(u)
    PROVE  Planned(k, M)' \subseteq
               IF Replace(u) /\ key[u] = k THEN Planned(k, M) \ {<<u, want[u]>>}
                                           ELSE Planned(k, M)
<1>0. TypeOK BY DEF IInv
<1> SUFFICES ASSUME NEW t \in Threads, NEW i \in 1..M, pc'[t] \in Wanting, key'[t] = k,
                    i <= Pending(t)'
             PROVE  /\ pc[t] \in Wanting /\ key[t] = k /\ i <= Pending(t)
                    /\ Replace(u) /\ t = u => i # want[u]
  BY DEF Planned
<1>1. want[t] \in Nat /\ want'[t] \in Int /\ i \in Int
  <2>1. want[t] \in Nat BY <1>0 DEF TypeOK, ThreadsOK
  <2>2. CASE t # u
    <3>1. want'[t] = want[t] BY <1>0, <2>2, OthersLocals
    <3> QED BY <2>1, <3>1
  <2>3. CASE t = u
    <3>1. [Next]_vars BY DEF Next
    <3>2. ThreadsOK' BY <1>0, <3>1, ThreadsStep DEF IInv
    <3> QED BY <2>1, <3>2 DEF ThreadsOK
  <2> QED BY <2>2, <2>3
<1>2. CASE t # u
  <2>1. pc'[t] = pc[t] /\ key'[t] = key[t] /\ want'[t] = want[t]
    BY <1>0, <1>2, OthersLocals
  <2> QED BY <1>2, <2>1 DEF Pending
<1>3. CASE t = u
  <2>1. pc[t] \in Wanting /\ key[t] = k /\ (~Replace(t) => Pending(t)' <= Pending(t))
    BY <1>3, PendingSteps
  <2>2. CASE ~Replace(t)
    <3>1. Pending(t) \in Int /\ Pending(t)' \in Int BY <1>1 DEF Pending
    <3>2. i <= Pending(t) BY <1>1, <2>1, <2>2, <3>1
    <3> QED BY <1>3, <2>1, <2>2, <3>2
  <2>3. CASE Replace(t)
    <3>1. pc[t] = "replace" /\ pc'[t] = "take" /\ want'[t] = want[t]
      BY <1>0, <2>3 DEF Replace, Goto, TypeOK, ThreadsOK, getVars
    <3>2. i <= want[t] - 1 BY <3>1 DEF Pending
    <3>3. i <= want[t] /\ i # want[t] BY <1>1, <3>2
    <3> QED BY <1>3, <2>1, <3>1, <3>3 DEF Pending
  <2> QED BY <2>2, <2>3
<1> QED BY <1>2, <1>3

\* Only the move assignment of insert() adds to the datasets of a key, and to
\* those of no other key.
LEMMA StoredGrows ==
    ASSUME IInv, NEW k \in Keys, NEW u \in Threads, ThreadStep(u)
    PROVE  Stored(k)' \subseteq
               IF Replace(u) /\ key[u] = k THEN Stored(k) \cup {best[u]} ELSE Stored(k)
<1> USE KeysAssumption DEF Stored
<1>1. CASE Replace(u)
  <2>1. uri' = [uri EXCEPT ![best[u]] = key[u]] /\ uri \in [Slots -> Keys \cup {NoKey}]
    BY <1>1 DEF Replace, IInv, TypeOK, SlotsOK
  <2> QED BY <1>1, <2>1
<1>2. CASE Clear(u)
  BY <1>2 DEF Clear
<1>3. CASE ~Replace(u) /\ ~Clear(u)
  <2>1. UNCHANGED uri
    <3>1. CASE FindHit(u) \/ Stamp(u) \/ Publish(u) BY <3>1 DEF FindHit, Stamp, Publish
    <3>2. CASE ~(FindHit(u) \/ Stamp(u) \/ Publish(u)) BY <1>3, <3>2, QuietSteps DEF IInv
    <3> QED BY <3>1, <3>2
  <2> QED BY <1>3, <2>1
<1> QED BY <1>1, <1>2, <1>3

\* The search has seen every dataset of the key, so that what it orders comes on
\* top of nothing but the orders of the other threads.
LEMMA CopiesAtUnlock ==
    ASSUME IInv, FoundInv, NEW M \in Nat, \A n \in Copies : n <= M /\ -n <= M,
           CopiesInv(M), NEW t \in Threads, RdUnlock(t), NEW k \in Keys
    PROVE  (Cardinality(Stored(k)) + Cardinality(Planned(k, M)) <= M * Cardinality(Threads))'
<1> DEFINE N == Cardinality(Threads)
           f == Cardinality(held[t])
<1>0. TypeOK /\ ThreadStep(t) BY DEF IInv, ThreadStep, GetStep
<1>1. /\ pc[t] = "find" /\ idx[t] \notin Slots /\ UNCHANGED <<uri, key, held>>
      /\ \/ pc'[t] = "got" /\ want'[t] = want[t]
         \/ /\ pc'[t] \in {"wrlock", "trywrlock"}
            /\ want'[t] <= M - f /\ f <= M
  BY RequestBound
<1>2. Stored(k)' = Stored(k) BY <1>1 DEF Stored
<1>3. \A u \in Threads \ {t} :
          pc'[u] = pc[u] /\ key'[u] = key[u] /\ want'[u] = want[u]
  BY <1>0, OthersLocals
<1>4. CASE key[t] # k \/ pc'[t] = "got"
  <2>1. Planned(k, M)' \subseteq Planned(k, M)
    BY <1>1, <1>3, <1>4 DEF Planned, Wanting, WriteSection, Pending
  <2>2. Cardinality(Planned(k, M)') <= Cardinality(Planned(k, M))
    BY <2>1, CopiesFinite, FS_Subset
  <2>3. Cardinality(Planned(k, M)') \in Nat BY <2>1, CopiesFinite, FS_Subset, FS_CardinalityType
  <2>4. Cardinality(Stored(k)') = Cardinality(Stored(k)) BY <1>2
  <2>5. Cardinality(Stored(k)) + Cardinality(Planned(k, M)) <= M * N BY DEF CopiesInv
  <2>6. Cardinality(Threads)' = N OBVIOUS
  <2>7. M * N \in Nat BY ThreadsNat
  <2> HIDE DEF N
  <2>8. Cardinality(Stored(k)') + Cardinality(Planned(k, M)') <= M * N
    BY <2>2, <2>3, <2>4, <2>5, <2>7, CopiesFinite
  <2> QED BY <2>6, <2>8
<1>5. CASE key[t] = k /\ pc'[t] \in {"wrlock", "trywrlock"}
  <2>1. Stored(k) = held[t]
    <3>1. held[t] \subseteq Stored(k)
      BY <1>0, <1>5 DEF Stored, IInv, HeldMatches, TypeOK, ThreadsOK
    <3>2. ASSUME NEW s \in Slots, uri[s] = k PROVE s \in held[t]
      <4>1. idx[t] \in Cursor \ {0} BY <1>1 DEF IInv, LocalsInv
      <4>2. s < idx[t] BY <1>1, <4>1, SizesAssumption DEF Cursor, Slots
      <4> QED BY <1>1, <1>5, <3>2, <4>2 DEF FoundInv
    <3> QED BY <3>1, <3>2 DEF Stored
  <2>2. f \in Nat /\ f <= M /\ want'[t] <= M - f BY <1>1, <1>5, <1>0, FoundNat
  <2> DEFINE A == (Threads \ {t}) \X (1..M)
             B == {t} \X (1..(M - f))
  <2>3. Planned(k, M)' \subseteq A \cup B
    <3> SUFFICES ASSUME NEW i \in 1..M, i <= Pending(t)' PROVE i \in 1..(M - f)
      BY DEF Planned
    <3>1. want'[t] \in Int
      <4>1. ThreadsOK' BY <1>0, ThreadsStep DEF IInv, Next
      <4> QED BY <4>1 DEF ThreadsOK
    <3>2. i <= want'[t] BY <1>5 DEF Pending
    <3> HIDE DEF f
    <3> QED BY <2>2, <3>1, <3>2
  <2>4. IsFiniteSet(A) /\ Cardinality(A) = (N - 1) * M
    <3>1. IsFiniteSet(Threads \ {t}) /\ Cardinality(Threads \ {t}) = N - 1
      BY ThreadsAssumption, FS_RemoveElement
    <3>2. IsFiniteSet(1..M) /\ Cardinality(1..M) = M BY FS_Interval
    <3> QED BY <3>1, <3>2, FS_Product
  <2>5. IsFiniteSet(B) /\ Cardinality(B) = M - f
    <3>1. IsFiniteSet({t}) /\ Cardinality({t}) = 1 BY FS_Singleton
    <3>2. IsFiniteSet(1..(M - f)) /\ Cardinality(1..(M - f)) = M - f
      <4> HIDE DEF f
      <4> QED BY <2>2, FS_Interval
    <3>3. IsFiniteSet(B) /\ Cardinality(B) = 1 * (M - f) BY <3>1, <3>2, FS_Product
    <3> HIDE DEF f, B
    <3> QED BY <2>2, <3>3
  <2>6. /\ IsFiniteSet(A \cup B)
        /\ Cardinality(A \cup B) = Cardinality(A) + Cardinality(B) - Cardinality(A \cap B)
        /\ Cardinality(A \cap B) \in Nat
    <3> HIDE DEF A, B
    <3>1. IsFiniteSet(A \cap B) BY <2>4, FS_Subset
    <3> QED BY <2>4, <2>5, <3>1, FS_Union, FS_CardinalityType
  <2>7. /\ Cardinality(Planned(k, M)') <= Cardinality(A \cup B)
        /\ Cardinality(Planned(k, M)') \in Nat
    <3> HIDE DEF A, B
    <3> QED BY <2>3, <2>6, FS_Subset, FS_CardinalityType
  <2>8. Cardinality(Stored(k)') = f BY <1>2, <2>1
  <2>9. N \in Nat BY ThreadsNat
  <2>10. (N - 1) * M + (M - f) + f = M * N
    <3> HIDE DEF N, f
    <3> QED BY <2>2, <2>9
  <2>11. Cardinality(Stored(k)') + Cardinality(Planned(k, M)') <= M * N
    <3> DEFINE P == (N - 1) * M
               Q == M * N
    <3>1. P \in Int /\ Q \in Int
      <4> HIDE DEF N
      <4> QED BY <2>9
    <3>2. Cardinality(A) = P /\ P + (M - f) + f = Q BY <2>4, <2>10
    <3> HIDE DEF N, f, A, B, P
    <3>3. Cardinality(A \cup B) <= P + (M - f) BY <2>2, <2>5, <2>6, <3>1, <3>2
    <3>4. Cardinality(A \cup B) \in Int BY <2>2, <2>5, <2>6, <3>1, <3>2
    <3> HIDE DEF Q
    <3>5. Cardinality(Stored(k)') + Cardinality(Planned(k, M)') <= Q
      BY <2>2, <2>7, <2>8, <3>1, <3>2, <3>3, <3>4
    <3> QED BY <3>5 DEF Q
  <2> QED BY <2>11
<1> QED BY <1>1, <1>4, <1>5

\* The move assignment turns one plan into one dataset.
LEMMA CopiesAtReplace ==
    ASSUME IInv, NEW M \in Nat, WantInv(M), CopiesInv(M), NEW t \in Threads, Replace(t),
           NEW k \in Keys, key[t] = k
    PROVE  (Cardinality(Stored(k)) + Cardinality(Planned(k, M)) <= M * Cardinality(Threads))'
<1> DEFINE S == Stored(k)
           P == Planned(k, M)
           w == <<t, want[t]>>
<1>0. TypeOK /\ ThreadStep(t) /\ pc[t] = "replace" /\ ~RdUnlock(t)
  BY DEF IInv, ThreadStep, GetStep, Replace, RdUnlock
<1>1. Stored(k)' \subseteq S \cup {best[t]} BY <1>0, StoredGrows
<1>2. Planned(k, M)' \subseteq P \ {w} BY <1>0, PlannedShrinks
<1>3. w \in P
  <2>1. want[t] \in Nat /\ want[t] > 0 /\ want[t] <= M
    BY <1>0 DEF IInv, TypeOK, ThreadsOK, LocalsInv, WantInv
  <2> QED BY <1>0, <2>1 DEF Planned, Wanting, WriteSection, Pending
<1>4. /\ IsFiniteSet(S) /\ Cardinality(S) \in Nat
      /\ IsFiniteSet(P) /\ Cardinality(P) \in Nat
  BY CopiesFinite
<1>5. Cardinality(S) + Cardinality(P) <= M * Cardinality(Threads) BY <1>0 DEF CopiesInv
<1>6. M * Cardinality(Threads) \in Nat BY ThreadsNat
<1> HIDE DEF S, P, w
<1>7. /\ Cardinality(S \cup {best[t]}) <= Cardinality(S) + 1
      /\ IsFiniteSet(S \cup {best[t]}) /\ Cardinality(S \cup {best[t]}) \in Nat
  <2>1. CASE best[t] \in S
    <3>1. S \cup {best[t]} = S BY <2>1
    <3>2. Cardinality(S) <= Cardinality(S) + 1 BY <1>4
    <3> QED BY <1>4, <3>1, <3>2
  <2>2. CASE best[t] \notin S
    <3>1. /\ IsFiniteSet(S \cup {best[t]})
          /\ Cardinality(S \cup {best[t]}) = Cardinality(S) + 1
      BY <1>4, <2>2, FS_AddElement
    <3> QED BY <1>4, <3>1
  <2> QED BY <2>1, <2>2
<1>8. /\ Cardinality(P \ {w}) = Cardinality(P) - 1
      /\ IsFiniteSet(P \ {w}) /\ Cardinality(P \ {w}) \in Nat
  BY <1>3, <1>4, FS_RemoveElement, FS_CardinalityType
<1>9. /\ Cardinality(Stored(k)') <= Cardinality(S) + 1 /\ Cardinality(Stored(k)') \in Nat
  <2> DEFINE S2 == Stored(k)'
  <2>1. S2 \subseteq S \cup {best[t]} BY <1>1
  <2> HIDE DEF S2
  <2>2. Cardinality(S2) <= Cardinality(S \cup {best[t]}) /\ Cardinality(S2) \in Nat
    BY <1>7, <2>1, FS_Subset, FS_CardinalityType
  <2>3. Cardinality(S2) <= Cardinality(S) + 1 BY <1>4, <1>7, <2>2
  <2> QED BY <2>2, <2>3 DEF S2
<1>10. /\ Cardinality(Planned(k, M)') <= Cardinality(P) - 1
       /\ Cardinality(Planned(k, M)') \in Nat
  <2> DEFINE P2 == Planned(k, M)'
  <2>1. P2 \subseteq P \ {w} BY <1>2
  <2> HIDE DEF P2
  <2>2. Cardinality(P2) <= Cardinality(P \ {w}) /\ Cardinality(P2) \in Nat
    BY <1>8, <2>1, FS_Subset, FS_CardinalityType
  <2> QED BY <1>8, <2>2 DEF P2
<1>11. Cardinality(Stored(k)') + Cardinality(Planned(k, M)') <= M * Cardinality(Threads)
  BY <1>4, <1>5, <1>6, <1>9, <1>10
<1> QED BY <1>11

\* No step but these two adds to the datasets of a key and its plans.
LEMMA CopiesShrink ==
    ASSUME NEW M \in Nat, CopiesInv(M), NEW k \in Keys,
           Stored(k)' \subseteq Stored(k), Planned(k, M)' \subseteq Planned(k, M)
    PROVE  (Cardinality(Stored(k)) + Cardinality(Planned(k, M)) <= M * Cardinality(Threads))'
<1> DEFINE S == Stored(k)
           P == Planned(k, M)
           S2 == Stored(k)'
           P2 == Planned(k, M)'
<1>1. /\ IsFiniteSet(S) /\ Cardinality(S) \in Nat
      /\ IsFiniteSet(P) /\ Cardinality(P) \in Nat
  BY CopiesFinite
<1>2. Cardinality(S) + Cardinality(P) <= M * Cardinality(Threads) BY DEF CopiesInv
<1>3. M * Cardinality(Threads) \in Nat BY ThreadsNat
<1>4. S2 \subseteq S /\ P2 \subseteq P OBVIOUS
<1>5. Cardinality(S2) + Cardinality(P2) <= M * Cardinality(Threads)
  <2> HIDE DEF S, P, S2, P2
  <2>1. Cardinality(S2) <= Cardinality(S) /\ Cardinality(S2) \in Nat
    BY <1>1, <1>4, FS_Subset, FS_CardinalityType
  <2>2. Cardinality(P2) <= Cardinality(P) /\ Cardinality(P2) \in Nat
    BY <1>1, <1>4, FS_Subset, FS_CardinalityType
  <2> QED BY <1>1, <1>2, <1>3, <2>1, <2>2
<1> QED BY <1>5

\* The number of insertions a thread still owes never exceeds what it asked for.
LEMMA WantStep ==
    ASSUME IInv, NEW M \in Nat, \A n \in Copies : n <= M /\ -n <= M, WantInv(M), [Next]_vars
    PROVE  WantInv(M)'
<1> SUFFICES ASSUME NEW t \in Threads PROVE want'[t] <= M BY DEF WantInv
<1>0. TypeOK /\ want[t] \in Nat /\ want[t] <= M BY DEF IInv, TypeOK, ThreadsOK, WantInv
<1>1. ThreadsOK' BY ThreadsStep DEF IInv
<1>2. want'[t] \in Nat BY <1>1 DEF ThreadsOK
<1>3. ASSUME NEW u \in Threads, ThreadStep(u), u # t PROVE want'[t] <= M
  BY <1>0, <1>3, OthersLocals
<1>4. ASSUME RdUnlock(t) PROVE want'[t] <= M
  <2>1. Cardinality(held[t]) \in Nat BY <1>0, FoundNat
  <2>2. want'[t] = want[t] \/ want'[t] <= M - Cardinality(held[t]) BY <1>4, RequestBound
  <2> QED BY <1>0, <1>2, <2>1, <2>2
<1>5. ASSUME ThreadStep(t), ~RdUnlock(t) PROVE want'[t] <= M
  <2>1. CASE pc'[t] \in Wanting
    <3>1. want'[t] <= want[t] BY <1>5, <2>1, PendingSteps
    <3> QED BY <1>0, <1>2, <3>1
  <2>2. CASE pc'[t] \notin Wanting
    <3>1. want'[t] = want[t] \/ want'[t] = 0
      <4> USE <1>0 DEF TypeOK, ThreadsOK, Wanting, WriteSection, Goto, getVars
      <4>1. CASE \/ \E k \in Keys, n \in Copies : Get(t, k, n)
                 \/ RdLock(t) \/ UseStep(t) \/ Clear(t)
        BY <4>1 DEF Get, RdLock, UseStep, OpTryLock, PixelsBand, Dec, PixelsLocks,
                    PixelsRefused, OpUnlock, Return, Clear
      <4>2. CASE FindHit(t) \/ Stamp(t) \/ FindMiss(t) \/ TryWrLockFails(t) \/ WrUnlock(t)
        BY <4>2 DEF FindHit, Stamp, FindMiss, TryWrLockFails, WrUnlock
      <4>3. ~ \/ WrLock(t) \/ TryWrLockSucceeds(t) \/ InsertBegins(t) \/ ScanSkips(t)
              \/ ScanLocks(t) \/ CheckUsed(t) \/ CheckUnused(t) \/ NoVictim(t)
              \/ VictimFound(t) \/ OpenSucceeds(t) \/ OpenFails(t) \/ Publish(t)
              \/ Replace(t) \/ Take(t)
        BY <2>2 DEF WrLock, TryWrLockSucceeds, InsertBegins, ScanSkips, ScanLocks, CheckUsed,
                    CheckUnused, NoVictim, VictimFound, OpenSucceeds, OpenFails, Publish,
                    Replace, Take
      <4> QED BY <1>5, <4>1, <4>2, <4>3 DEF ThreadStep, GetStep
    <3> QED BY <1>0, <3>1
  <2> QED BY <2>1, <2>2
<1>6. CASE UNCHANGED vars
  BY <1>0, <1>6 DEF vars, getVars
<1> QED BY <1>3, <1>4, <1>5, <1>6 DEF Next

\* get(), insert(), dec() and clear() keep the bound.
LEMMA CopiesStep ==
    ASSUME IInv, FoundInv, NEW M \in Nat, \A n \in Copies : n <= M /\ -n <= M,
           WantInv(M), CopiesInv(M), [Next]_vars
    PROVE  CopiesInv(M)'
<1> SUFFICES ASSUME NEW k \in Keys
             PROVE  (Cardinality(Stored(k)) + Cardinality(Planned(k, M))
                         <= M * Cardinality(Threads))'
  BY DEF CopiesInv
<1>1. ASSUME NEW u \in Threads, RdUnlock(u)
      PROVE  (Cardinality(Stored(k)) + Cardinality(Planned(k, M)) <= M * Cardinality(Threads))'
  BY <1>1, CopiesAtUnlock
<1>2. ASSUME NEW u \in Threads, Replace(u), key[u] = k
      PROVE  (Cardinality(Stored(k)) + Cardinality(Planned(k, M)) <= M * Cardinality(Threads))'
  BY <1>2, CopiesAtReplace
<1>3. ASSUME NEW u \in Threads, ThreadStep(u), ~RdUnlock(u), ~(Replace(u) /\ key[u] = k)
      PROVE  (Cardinality(Stored(k)) + Cardinality(Planned(k, M)) <= M * Cardinality(Threads))'
  <2>1. Stored(k)' \subseteq Stored(k) BY <1>3, StoredGrows
  <2>2. Planned(k, M)' \subseteq Planned(k, M) BY <1>3, PlannedShrinks
  <2> QED BY <2>1, <2>2, CopiesShrink
<1>4. ASSUME UNCHANGED vars
      PROVE  (Cardinality(Stored(k)) + Cardinality(Planned(k, M)) <= M * Cardinality(Threads))'
  <2>1. UNCHANGED <<uri, pc, key, want>> BY <1>4 DEF vars, slotVars, getVars
  <2>2. Stored(k)' \subseteq Stored(k) BY <2>1 DEF Stored
  <2>3. Planned(k, M)' \subseteq Planned(k, M) BY <2>1 DEF Planned, Pending
  <2> QED BY <2>2, <2>3, CopiesShrink
<1> QED BY <1>1, <1>2, <1>3, <1>4 DEF Next

\* The invariant behind the bound, for requests of at most M datasets each.
CopiesIInv(M) == TagInv /\ FoundInv /\ WantInv(M) /\ CopiesInv(M)

\* The constructor establishes it.
LEMMA CopiesInit ==
    ASSUME Init, NEW M \in Nat PROVE CopiesIInv(M)
<1>1. TagInv /\ FoundInv /\ WantInv(M) BY DEF Init, TagInv, FoundInv, WantInv
<1>2. ASSUME NEW k \in Keys
      PROVE  Cardinality(Stored(k)) + Cardinality(Planned(k, M)) <= M * Cardinality(Threads)
  <2>1. Stored(k) = {} BY KeysAssumption DEF Init, Stored
  <2>2. Planned(k, M) = {} BY DEF Init, Planned, Wanting, WriteSection
  <2>3. Cardinality(Stored(k)) = 0 /\ Cardinality(Planned(k, M)) = 0
    BY <2>1, <2>2, FS_EmptySet
  <2>4. M * Cardinality(Threads) \in Nat BY ThreadsNat
  <2> QED BY <2>3, <2>4
<1> QED BY <1>1, <1>2 DEF CopiesInv, CopiesIInv

\* What count() answers is at most the number of datasets stored.
LEMMA CountBound ==
    ASSUME NEW M \in Nat, CopiesIInv(M), NEW k \in Keys
    PROVE  Count(k) <= M * Cardinality(Threads)
<1> DEFINE F == {s \in Slots : tag[s] = Hash[k] /\ uri[s] = k}
<1>1. F \subseteq Stored(k) BY DEF Stored
<1> HIDE DEF F
<1>2. Cardinality(F) <= Cardinality(Stored(k)) /\ Cardinality(F) \in Nat
  BY <1>1, CopiesFinite, FS_Subset, FS_CardinalityType
<1>3. M * Cardinality(Threads) \in Nat BY ThreadsNat
<1>4. Cardinality(F) <= M * Cardinality(Threads)
  BY <1>2, <1>3, CopiesFinite DEF CopiesInv, CopiesIInv
<1> QED BY <1>4 DEF Count, F

\* However the searches and the insertions of get() overlap, the cache never
\* holds more datasets of a key than the threads together may ask for: a thread
\* that comes back for more finds what the others have inserted, and those that
\* race past each other insert at most once what they asked for.
THEOREM CopiesStayBounded ==
    ASSUME NEW M \in Nat, \A n \in Copies : n <= M /\ -n <= M
    PROVE  Spec => [](\A k \in Keys : Count(k) <= M * Cardinality(Threads))
<1>1. Init => CopiesIInv(M) BY CopiesInit
<1>2. IInv /\ CopiesIInv(M) /\ [Next]_vars => CopiesIInv(M)'
  BY TagStep, FoundStep, WantStep, CopiesStep DEF CopiesIInv
<1>3. CopiesIInv(M) => \A k \in Keys : Count(k) <= M * Cardinality(Threads)
  BY CountBound
<1> QED BY Invariance, <1>1, <1>2, <1>3, PTL DEF Spec

\* Threads that ask for one dataset each may open it once each, and no more.
THEOREM OneCopyPerThread ==
    ASSUME Copies \subseteq {-1, 0, 1} PROVE Spec => []OneCopyEach
<1>1. 1 \in Nat /\ \A n \in Copies : n <= 1 /\ -n <= 1 OBVIOUS
<1>2. Init => CopiesIInv(1) BY <1>1, CopiesInit
<1>3. IInv /\ CopiesIInv(1) /\ [Next]_vars => CopiesIInv(1)'
  BY <1>1, TagStep, FoundStep, WantStep, CopiesStep DEF CopiesIInv
<1>4. CopiesIInv(1) => OneCopyEach
  <2> SUFFICES ASSUME CopiesIInv(1), NEW k \in Keys PROVE Count(k) <= Cardinality(Threads)
    BY DEF OneCopyEach
  <2>1. Count(k) <= 1 * Cardinality(Threads) BY <1>1, CountBound
  <2> QED BY <2>1, ThreadsNat
<1> QED BY Invariance, <1>2, <1>3, <1>4, PTL DEF Spec

-------------------------------------------------------------------------------
(* Every call of get() comes to its end. *)

\* Fewer rounds, or no more of them and less left of this one.
LEMMA FewerRounds ==
    ASSUME NEW m \in Nat, NEW n \in Nat, m <= n, NEW i \in Nat, NEW j \in Nat, i < j
    PROVE  /\ m * (2 * Capacity + 6) + i \in Nat
           /\ m * (2 * Capacity + 6) + i < n * (2 * Capacity + 6) + j
<1> DEFINE R == 2 * Capacity + 6
<1>1. R \in Nat BY SizesAssumption
<1> HIDE DEF R
<1>2. \E d \in Nat : n = m + d
  <2>1. n - m \in Nat /\ n = m + (n - m) OBVIOUS
  <2> QED BY <2>1
<1>3. PICK d \in Nat : n = m + d BY <1>2
<1>4. n * R = m * R + d * R BY <1>1, <1>3
<1>5. m * R \in Nat /\ d * R \in Nat BY <1>1
<1>6. m * R + i \in Nat /\ m * R + i < n * R + j BY <1>4, <1>5
<1> QED BY <1>6 DEF R

\* What is left of the loops at each place.
LEMMA LeftAt ==
    /\ \A n, w : /\ RoundsLeft("wrlock", n, w) = w /\ RoundsLeft("trywrlock", n, w) = w
                 /\ RoundsLeft("insert", n, w) = w /\ RoundsLeft("scan", n, w) = w - 1
                 /\ RoundsLeft("check", n, w) = w - 1 /\ RoundsLeft("open", n, w) = w - 1
                 /\ RoundsLeft("publish", n, w) = w - 1 /\ RoundsLeft("replace", n, w) = w - 1
                 /\ RoundsLeft("take", n, w) = w - 1
                 /\ RoundsLeft("rdlock", n, w) = RoundsLeft("find", n, w)
                 /\ RoundsLeft("stamp", n, w) = RoundsLeft("find", n, w)
                 /\ RoundsLeft("find", n, w) = IF n < 0 THEN -n ELSE n
    /\ \A i : /\ RoundLeft("rdlock", i) = 2 * Capacity + 4
              /\ RoundLeft("find", i) = 2 * (Capacity + 1 - i) + 3
              /\ RoundLeft("stamp", i) = 2 * (Capacity + 1 - i) + 2
              /\ RoundLeft("wrlock", i) = 2 /\ RoundLeft("trywrlock", i) = 2
              /\ RoundLeft("insert", i) = 1
              /\ RoundLeft("scan", i) = 2 * (Capacity + 1 - i) + 6
              /\ RoundLeft("check", i) = 2 * (Capacity + 1 - i) + 5
              /\ RoundLeft("open", i) = 5 /\ RoundLeft("publish", i) = 4
              /\ RoundLeft("replace", i) = 3 /\ RoundLeft("take", i) = 2
  BY DEF RoundsLeft, RoundLeft

\* What the places of the loops say of their indices, for what is left of them.
LEMMA LeftTypes ==
    ASSUME IInv, NEW t \in Threads
    PROVE  /\ pc \in [Threads -> Places] /\ idx \in [Threads -> Cursor]
           /\ want \in [Threads -> Nat]
           /\ copies \in [Threads -> Copies \cup {0}] /\ copies[t] \in Int
           /\ pc[t] \in {"find", "scan"} => idx[t] \in 1..(Capacity + 1)
           /\ pc[t] \in {"stamp", "check"} => idx[t] \in 1..Capacity
           /\ pc[t] \in {"scan", "check", "open", "publish", "replace", "take"} => want[t] > 0
<1>1. copies[t] \in Int
  <2>1. copies[t] \in Copies \cup {0} BY DEF IInv, TypeOK, ThreadsOK
  <2>2. \A n \in Copies : n \in Int BY CopiesAssumption
  <2> QED BY ONLY <2>1, <2>2
<1> QED BY <1>1, SizesAssumption DEF IInv, TypeOK, ThreadsOK, LocalsInv, Cursor, Slots

\* A step that starts no round, and gets on in this one.
LEMMA NearerInRound ==
    ASSUME NEW t \in Threads, pc[t] \in InGet, pc'[t] \in InGet,
           RoundsLeft(pc[t], copies[t], want[t]) \in Nat,
           RoundsLeft(pc'[t], copies'[t], want'[t]) \in Nat,
           RoundsLeft(pc'[t], copies'[t], want'[t]) <= RoundsLeft(pc[t], copies[t], want[t]),
           RoundLeft(pc[t], idx[t]) \in Nat, RoundLeft(pc'[t], idx'[t]) \in Nat,
           RoundLeft(pc'[t], idx'[t]) < RoundLeft(pc[t], idx[t])
    PROVE  Left(t)' \in Nat /\ Left(t)' < Left(t)
  BY FewerRounds DEF Left

\* A step that leaves get().
LEMMA NearerByLeaving ==
    ASSUME NEW t \in Threads, pc[t] \in InGet, pc'[t] \notin InGet,
           RoundsLeft(pc[t], copies[t], want[t]) \in Nat,
           RoundLeft(pc[t], idx[t]) \in Nat, RoundLeft(pc[t], idx[t]) > 0
    PROVE  Left(t)' \in Nat /\ Left(t)' < Left(t)
<1> DEFINE a == RoundsLeft(pc[t], copies[t], want[t])
           b == RoundLeft(pc[t], idx[t])
<1>1. Left(t)' = 0 /\ Left(t) = a * (2 * Capacity + 6) + b BY DEF Left
<1> HIDE DEF a, b
<1>2. 0 * (2 * Capacity + 6) + 0 < a * (2 * Capacity + 6) + b BY FewerRounds DEF a, b
<1>3. 0 * (2 * Capacity + 6) + 0 = 0 BY SizesAssumption
<1> QED BY <1>1, <1>2, <1>3

\* The steps of the search, and the one that ends it.
LEMMA SearchNears ==
    ASSUME IInv, NEW t \in Threads,
           RdLock(t) \/ FindHit(t) \/ Stamp(t) \/ FindMiss(t) \/ RdUnlock(t)
    PROVE  Left(t)' \in Nat /\ Left(t)' < Left(t)
<1>0. /\ pc \in [Threads -> Places] /\ idx \in [Threads -> Cursor]
      /\ want \in [Threads -> Nat]
      /\ copies \in [Threads -> Copies \cup {0}] /\ copies[t] \in Int
      /\ pc[t] = "find" => idx[t] \in 1..(Capacity + 1)
      /\ pc[t] = "stamp" => idx[t] \in 1..Capacity
  BY LeftTypes
<1> USE SizesAssumption DEF InGet, ReadSection, WriteSection
<1>1. RoundsLeft("find", copies[t], want[t]) \in Nat BY <1>0, LeftAt
<1>2. CASE RdLock(t)
  <2>1. /\ pc[t] = "rdlock" /\ pc'[t] = "find" /\ idx'[t] = 1
        /\ copies'[t] = copies[t] /\ want'[t] = want[t]
    BY <1>0, <1>2 DEF RdLock, Goto
  <2>2. RoundLeft("rdlock", idx[t]) = 2 * Capacity + 4 /\ RoundLeft("find", 1) = 2 * Capacity + 3
    BY LeftAt
  <2> QED BY <1>1, <2>1, <2>2, LeftAt, NearerInRound
<1>3. CASE FindHit(t)
  <2>1. /\ pc[t] = "find" /\ pc'[t] = "stamp" /\ idx'[t] = idx[t]
        /\ copies'[t] = copies[t] /\ want'[t] = want[t] /\ idx[t] \in 1..Capacity
    BY <1>0, <1>3 DEF FindHit, Goto, Slots
  <2>2. /\ RoundLeft("find", idx[t]) = 2 * (Capacity + 1 - idx[t]) + 3
        /\ RoundLeft("stamp", idx[t]) = 2 * (Capacity + 1 - idx[t]) + 2
    BY LeftAt
  <2> QED BY <1>1, <2>1, <2>2, LeftAt, NearerInRound
<1>4. CASE Stamp(t)
  <2>1. /\ pc[t] = "stamp" /\ pc'[t] = "find" /\ idx'[t] = idx[t] + 1
        /\ copies'[t] = copies[t] /\ want'[t] = want[t] /\ idx[t] \in 1..Capacity
    BY <1>0, <1>4 DEF Stamp, Goto
  <2>2. /\ RoundLeft("stamp", idx[t]) = 2 * (Capacity + 1 - idx[t]) + 2
        /\ RoundLeft("find", idx[t] + 1) = 2 * (Capacity + 1 - (idx[t] + 1)) + 3
    BY LeftAt
  <2> QED BY <1>1, <2>1, <2>2, LeftAt, NearerInRound
<1>5. CASE FindMiss(t)
  <2>1. /\ pc[t] = "find" /\ pc'[t] = "find" /\ idx'[t] = idx[t] + 1
        /\ copies'[t] = copies[t] /\ want'[t] = want[t] /\ idx[t] \in 1..Capacity
    BY <1>0, <1>5 DEF FindMiss, Slots
  <2>2. /\ RoundLeft("find", idx[t]) = 2 * (Capacity + 1 - idx[t]) + 3
        /\ RoundLeft("find", idx[t] + 1) = 2 * (Capacity + 1 - (idx[t] + 1)) + 3
    BY LeftAt
  <2> QED BY <1>1, <2>1, <2>2, LeftAt, NearerInRound
<1>6. CASE RdUnlock(t)
  <2> DEFINE n == copies[t]
             f == Cardinality(held[t])
             b == IF n < 0 THEN -n ELSE n
  <2>1. f \in Nat BY FoundNat DEF IInv
  <2>2. pc[t] = "find" /\ idx[t] = Capacity + 1 /\ AfterFind(t)
    BY <1>0, <1>6 DEF RdUnlock, Slots
  <2>3. RoundLeft("find", idx[t]) = 3 BY <2>2, LeftAt
  <2>4. HardRequest(n) <= b /\ HardRequest(n) \in Int /\ b \in Nat BY <1>0 DEF HardRequest
  <2>5. \/ f < HardRequest(n) /\ want'[t] = HardRequest(n) - f /\ pc'[t] = "wrlock"
        \/ n <= 0 /\ f < -n /\ want'[t] = -n - f /\ pc'[t] = "trywrlock"
        \/ pc'[t] = "got"
    BY <1>0, <2>2 DEF AfterFind, Goto
  <2> HIDE DEF f
  <2>6. CASE pc'[t] \in {"wrlock", "trywrlock"}
    <3>1. want'[t] \in Nat /\ want'[t] <= b BY <1>0, <2>1, <2>4, <2>5, <2>6
    <3>2. RoundsLeft("find", n, want[t]) = b BY LeftAt
    <3>3. /\ RoundsLeft(pc'[t], copies'[t], want'[t]) = want'[t]
          /\ RoundLeft(pc'[t], idx'[t]) = 2
      BY <2>6, LeftAt
    <3> HIDE DEF b, n
    <3> QED BY <2>2, <2>3, <2>4, <2>6, <3>1, <3>2, <3>3, NearerInRound DEF n
  <2>7. CASE pc'[t] = "got" BY <1>1, <2>2, <2>3, <2>7, NearerByLeaving
  <2> QED BY <2>5, <2>6, <2>7
<1> QED BY <1>2, <1>3, <1>4, <1>5, <1>6

\* The steps of the insertions, and the ones that end them.
LEMMA InsertNears ==
    ASSUME IInv, NEW t \in Threads,
           \/ WrLock(t) \/ TryWrLockSucceeds(t) \/ TryWrLockFails(t)
           \/ InsertBegins(t) \/ WrUnlock(t)
    PROVE  Left(t)' \in Nat /\ Left(t)' < Left(t)
<1>0. /\ pc \in [Threads -> Places] /\ idx \in [Threads -> Cursor]
      /\ want \in [Threads -> Nat] /\ want[t] \in Nat
  BY LeftTypes
<1> USE SizesAssumption DEF InGet, ReadSection, WriteSection
<1>1. CASE WrLock(t) \/ TryWrLockSucceeds(t)
  <2>1. /\ pc[t] \in {"wrlock", "trywrlock"} /\ pc'[t] = "insert"
        /\ copies'[t] = copies[t] /\ want'[t] = want[t] /\ idx'[t] = idx[t]
    BY <1>0, <1>1 DEF WrLock, TryWrLockSucceeds, Goto, getVars
  <2>2. /\ RoundsLeft(pc[t], copies[t], want[t]) = want[t]
        /\ RoundsLeft("insert", copies[t], want[t]) = want[t]
        /\ RoundLeft(pc[t], idx[t]) = 2 /\ RoundLeft("insert", idx[t]) = 1
    BY <2>1, LeftAt
  <2> QED BY <1>0, <2>1, <2>2, NearerInRound
<1>2. CASE TryWrLockFails(t) \/ WrUnlock(t)
  <2>1. pc[t] \in {"trywrlock", "insert"} /\ pc'[t] = "got"
    BY <1>0, <1>2 DEF TryWrLockFails, WrUnlock, Goto
  <2>2. /\ RoundsLeft(pc[t], copies[t], want[t]) = want[t]
        /\ RoundLeft(pc[t], idx[t]) \in Nat /\ RoundLeft(pc[t], idx[t]) > 0
    BY <2>1, LeftAt
  <2> QED BY <1>0, <2>1, <2>2, NearerByLeaving
<1>3. CASE InsertBegins(t)
  <2> DEFINE R == 2 * Capacity + 6
             w == want[t]
  <2>1. /\ pc[t] = "insert" /\ pc'[t] = "scan" /\ idx'[t] = 1
        /\ copies'[t] = copies[t] /\ want'[t] = want[t] /\ want[t] > 0
    BY <1>0, <1>3 DEF InsertBegins, MoreWanted, Goto
  <2>2. Left(t) = w * R + 1 BY <2>1, LeftAt DEF Left
  <2>3. RoundsLeft("scan", copies[t], want[t]) = w - 1 BY LeftAt
  <2>4. RoundLeft("scan", 1) = 2 * (Capacity + 1 - 1) + 6 BY LeftAt
  <2>5. 2 * (Capacity + 1 - 1) + 6 = R OBVIOUS
  <2>6. Left(t)' = RoundsLeft("scan", copies[t], want[t]) * R + RoundLeft("scan", 1)
    BY <2>1 DEF Left
  <2>7. R \in Nat /\ w \in Nat /\ w > 0 BY <1>0, <2>1
  <2> HIDE DEF R, w
  <2>8. Left(t)' = (w - 1) * R + R BY <2>3, <2>4, <2>5, <2>6
  <2>9. (w - 1) * R + R = w * R /\ w * R \in Nat BY <2>7
  <2> QED BY <2>2, <2>8, <2>9
<1> QED BY <1>1, <1>2, <1>3

\* The steps of one round, which choose a slot and fill it or give up.
LEMMA RoundNears ==
    ASSUME IInv, NEW t \in Threads,
           \/ ScanSkips(t) \/ ScanLocks(t) \/ CheckUsed(t) \/ CheckUnused(t)
           \/ NoVictim(t) \/ VictimFound(t) \/ OpenSucceeds(t) \/ OpenFails(t)
           \/ Publish(t) \/ Replace(t) \/ Take(t)
    PROVE  Left(t)' \in Nat /\ Left(t)' < Left(t)
<1>0. /\ pc \in [Threads -> Places] /\ idx \in [Threads -> Cursor]
      /\ want \in [Threads -> Nat] /\ want[t] \in Nat
      /\ pc[t] = "scan" => idx[t] \in 1..(Capacity + 1)
      /\ pc[t] = "check" => idx[t] \in 1..Capacity
      /\ pc[t] \in {"scan", "check", "open", "publish", "replace", "take"} => want[t] > 0
  BY LeftTypes
<1> USE SizesAssumption DEF InGet, ReadSection, WriteSection
<1>1. CASE ScanSkips(t)
  <2>1. /\ pc[t] = "scan" /\ pc'[t] = "scan" /\ idx'[t] = idx[t] + 1
        /\ copies'[t] = copies[t] /\ want'[t] = want[t] /\ idx[t] \in 1..Capacity
    BY <1>0, <1>1 DEF ScanSkips, Slots
  <2>2. /\ RoundLeft("scan", idx[t]) = 2 * (Capacity + 1 - idx[t]) + 6
        /\ RoundLeft("scan", idx[t] + 1) = 2 * (Capacity + 1 - (idx[t] + 1)) + 6
        /\ RoundsLeft("scan", copies[t], want[t]) = want[t] - 1
    BY LeftAt
  <2> QED BY <1>0, <2>1, <2>2, NearerInRound
<1>2. CASE ScanLocks(t)
  <2>1. /\ pc[t] = "scan" /\ pc'[t] = "check" /\ idx'[t] = idx[t]
        /\ copies'[t] = copies[t] /\ want'[t] = want[t] /\ idx[t] \in 1..Capacity
    BY <1>0, <1>2 DEF ScanLocks, Slots, Goto, getVars
  <2>2. /\ RoundLeft("scan", idx[t]) = 2 * (Capacity + 1 - idx[t]) + 6
        /\ RoundLeft("check", idx[t]) = 2 * (Capacity + 1 - idx[t]) + 5
        /\ RoundsLeft("scan", copies[t], want[t]) = want[t] - 1
        /\ RoundsLeft("check", copies[t], want[t]) = want[t] - 1
    BY LeftAt
  <2> QED BY <1>0, <2>1, <2>2, NearerInRound
<1>3. CASE CheckUsed(t) \/ CheckUnused(t)
  <2>1. /\ pc[t] = "check" /\ pc'[t] = "scan" /\ idx'[t] = idx[t] + 1
        /\ copies'[t] = copies[t] /\ want'[t] = want[t] /\ idx[t] \in 1..Capacity
    BY <1>0, <1>3 DEF CheckUsed, CheckUnused, Goto
  <2>2. /\ RoundLeft("check", idx[t]) = 2 * (Capacity + 1 - idx[t]) + 5
        /\ RoundLeft("scan", idx[t] + 1) = 2 * (Capacity + 1 - (idx[t] + 1)) + 6
        /\ RoundsLeft("check", copies[t], want[t]) = want[t] - 1
        /\ RoundsLeft("scan", copies[t], want[t]) = want[t] - 1
    BY LeftAt
  <2> QED BY <1>0, <2>1, <2>2, NearerInRound
<1>4. CASE NoVictim(t) \/ OpenFails(t) \/ Take(t)
  <2>1. /\ pc[t] \in {"scan", "open", "take"} /\ pc'[t] = "insert"
        /\ want'[t] = want[t] - 1 /\ want[t] > 0
    BY <1>0, <1>4 DEF NoVictim, OpenFails, Take, GiveUp, Goto
  <2>2. /\ RoundsLeft(pc[t], copies[t], want[t]) = want[t] - 1
        /\ RoundsLeft("insert", copies'[t], want[t] - 1) = want[t] - 1
        /\ RoundLeft("insert", idx'[t]) = 1
    BY <2>1, LeftAt
  <2>3. RoundLeft(pc[t], idx[t]) \in Nat /\ RoundLeft(pc[t], idx[t]) > 1
    <3>1. CASE pc[t] = "scan"
      <4>1. RoundLeft("scan", idx[t]) = 2 * (Capacity + 1 - idx[t]) + 6 BY LeftAt
      <4> QED BY <1>0, <3>1, <4>1
    <3>2. CASE pc[t] \in {"open", "take"}
      <4>1. RoundLeft("open", idx[t]) = 5 /\ RoundLeft("take", idx[t]) = 2 BY LeftAt
      <4> QED BY <3>2, <4>1
    <3> QED BY <2>1, <3>1, <3>2
  <2> QED BY <1>0, <2>1, <2>2, <2>3, NearerInRound
<1>5. CASE VictimFound(t)
  <2>1. /\ pc[t] = "scan" /\ pc'[t] = "open" /\ idx[t] \in 1..(Capacity + 1)
        /\ copies'[t] = copies[t] /\ want'[t] = want[t]
    BY <1>0, <1>5 DEF VictimFound, Goto
  <2>2. /\ RoundLeft("scan", idx[t]) = 2 * (Capacity + 1 - idx[t]) + 6
        /\ RoundLeft("open", idx'[t]) = 5
        /\ RoundsLeft("scan", copies[t], want[t]) = want[t] - 1
        /\ RoundsLeft("open", copies[t], want[t]) = want[t] - 1
    BY LeftAt
  <2> QED BY <1>0, <2>1, <2>2, NearerInRound
<1>6. CASE OpenSucceeds(t) \/ Publish(t) \/ Replace(t)
  <2>1. /\ \/ pc[t] = "open" /\ pc'[t] = "publish"
           \/ pc[t] = "publish" /\ pc'[t] = "replace"
           \/ pc[t] = "replace" /\ pc'[t] = "take"
        /\ copies'[t] = copies[t] /\ want'[t] = want[t]
    BY <1>0, <1>6 DEF OpenSucceeds, Publish, Replace, Goto, getVars
  <2>2. /\ RoundsLeft(pc[t], copies[t], want[t]) = want[t] - 1
        /\ RoundsLeft(pc'[t], copies[t], want[t]) = want[t] - 1
    BY <2>1, LeftAt
  <2>3. /\ RoundLeft(pc[t], idx[t]) \in Nat /\ RoundLeft(pc'[t], idx'[t]) \in Nat
        /\ RoundLeft(pc'[t], idx'[t]) < RoundLeft(pc[t], idx[t])
    BY <2>1, LeftAt
  <2> QED BY <1>0, <2>1, <2>2, <2>3, NearerInRound
<1> QED BY <1>1, <1>2, <1>3, <1>4, <1>5, <1>6

LEMMA GetNears ==
    ASSUME IInv, NEW t \in Threads, RdLock(t) \/ WrLock(t) \/ GetStep(t)
    PROVE  Left(t)' \in Nat /\ Left(t)' < Left(t)
  BY SearchNears, InsertNears, RoundNears DEF GetStep

\* A step of another thread.
LEMMA OthersDoNotMatter ==
    ASSUME TypeOK, NEW t \in Threads, NEW u \in Threads, u # t, ThreadStep(u)
    PROVE  pc'[t] = pc[t] /\ Left(t)' = Left(t)
  BY OthersLocals DEF Left

\* A step of anybody, as a thread inside get() sees it.
LEMMA NearStep ==
    ASSUME IInv, [Next]_vars, NEW t \in Threads, pc[t] \in InGet
    PROVE  \/ Left(t)' \in Nat /\ Left(t)' < Left(t)
           \/ pc'[t] = pc[t] /\ Left(t)' = Left(t)
<1>1. ASSUME NEW u \in Threads, u # t, ThreadStep(u)
      PROVE  pc'[t] = pc[t] /\ Left(t)' = Left(t)
  BY <1>1, OthersDoNotMatter DEF IInv
<1>2. ASSUME ThreadStep(t) PROVE Left(t)' \in Nat /\ Left(t)' < Left(t)
  <2>1. ~UseStep(t) /\ ~Clear(t) /\ \A k \in Keys, n \in Copies : ~Get(t, k, n)
    BY DEF InGet, ReadSection, WriteSection, UseStep, OpTryLock, PixelsBand, Dec, PixelsLocks,
           PixelsRefused, OpUnlock, Return, Clear, Get
  <2>2. RdLock(t) \/ WrLock(t) \/ GetStep(t) BY <1>2, <2>1 DEF ThreadStep
  <2> QED BY <2>2, GetNears
<1>3. CASE UNCHANGED vars BY <1>3 DEF Left, vars, getVars
<1> QED BY <1>1, <1>2, <1>3 DEF Next

\* get() is bounded: from any state the program can be in, a thread inside it is
\* Left(t) steps of its own away from its end at most, whatever the other threads
\* do meanwhile, so the locks of the cache are held for a bounded number of steps.
THEOREM GetIsBounded == Spec => GetNearsItsEnd
<1>1. IInv /\ [Next]_vars =>
          [\A t \in Threads :
              pc[t] \in InGet =>
                  \/ Left(t)' \in Nat /\ Left(t)' < Left(t)
                  \/ pc'[t] = pc[t] /\ Left(t)' = Left(t)]_vars
  BY NearStep
<1> QED BY Invariance, <1>1, PTL DEF Spec, GetNearsItsEnd
===============================================================================
