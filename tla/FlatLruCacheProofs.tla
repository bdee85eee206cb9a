-------------------------- MODULE FlatLruCacheProofs --------------------------
(***************************************************************************)
(* What holds of FlatLruCache for every number of threads, slots and keys, *)
(* every hash, every width of the clock and every outcome of open().       *)
(*                                                                         *)
(* The inductive invariant is IInv.  Its heart is RefCountExact, which     *)
(* makes a use count of zero mean that nobody lists the slot, and          *)
(* CandidateInv, which says what the thread that holds the write lock      *)
(* knows of the slot it has chosen.  One lemma per part shows that a step  *)
(* preserves it, with one case per action.                                 *)
(***************************************************************************)
EXTENDS FlatLruCache, FiniteSetTheorems, TLAPS

\* What the control point of a thread says of its own local variables.
LocalsInv ==
    \A t \in Threads :
        /\ pc[t] \in {"scan", "check", "open", "publish", "replace", "take"} => want[t] > 0
        /\ pc[t] \in {"find", "scan"} => idx[t] \in Cursor \ {0}
        /\ pc[t] \in {"stamp", "check"} => idx[t] \in Slots
        /\ pc[t] \in {"open", "publish", "replace", "take"} => best[t] \in Slots
        /\ pc[t] # "idle" => key[t] \in Keys

\* The readers-writer lock excludes what it should.
LockInv ==
    /\ readers = {t \in Threads : pc[t] \in ReadSection}
    /\ \A t \in Threads : pc[t] \in WriteSection <=> writer = t
    /\ writer # Nobody => readers = {}

\* The search lists the slots it has passed, so it lists none twice.
SearchInv ==
    \A t \in Threads :
        /\ pc[t] \in {"idle", "rdlock"} => held[t] = {}
        /\ pc[t] = "find" => \A s \in held[t] : s < idx[t]
        /\ pc[t] = "stamp" => \A s \in held[t] : s <= idx[t]

\* A dataset is operated on only by a thread that lists it.
UserInv ==
    \A t \in Threads :
        /\ pc[t] \in InOp => cur[t] \in held[t]
        /\ pc[t] \notin InOp => cur[t] = 0

\* What a thread knows of the slots whose mutex it holds.
CandidateInv ==
    \A t \in Threads :
        /\ pc[t] \in {"scan", "check"} => best[t] < idx[t]
        /\ pc[t] = "check" => mutex[idx[t]] = t
        /\ pc[t] \in {"scan", "check", "open", "publish", "replace"} /\ best[t] # 0 =>
               mutex[best[t]] = t
        /\ pc[t] \in {"scan", "check", "open", "publish", "replace", "take"} /\ best[t] # 0 =>
               use[best[t]] = 0
        /\ pc[t] \in {"replace", "take"} => tag[best[t]] = Hash[key[t]]
        /\ pc[t] = "take" => uri[best[t]] = key[t]
        /\ pc[t] = "op" => mutex[cur[t]] = t

IInv ==
    /\ TypeOK /\ LocalsInv /\ LockInv /\ SearchInv /\ UserInv
    /\ CandidateInv /\ RefCountExact /\ HeldMatches

-------------------------------------------------------------------------------
(* Facts about the helpers. *)

\* The index of a loop over the slots, one past the end included.
LEMMA SlotFacts ==
    /\ 0 \in Cursor /\ 1 \in Cursor /\ 0 \notin Slots
    /\ \A i \in Slots : i \in Cursor /\ i + 1 \in Cursor \ {0}
  BY SizesAssumption DEF Slots, Cursor

LEMMA IndexIsInt == (\A i \in Cursor : i \in Int) /\ (\A i \in Slots : i \in Int)
  BY SizesAssumption DEF Slots, Cursor

\* ++m_time stays within the width of the clock: it wraps.
LEMMA ClockFacts == 0 \in Clock /\ \A x \in Clock : Tick(x) \in Clock
  BY SizesAssumption DEF Clock, Tick

\* A slot that somebody lists has a use count other than zero: the fact that
\* keeps lock_for_deletion() from answering true for it.
LEMMA Referenced ==
    ASSUME TypeOK, RefCountExact, NEW t \in Threads, NEW s \in held[t]
    PROVE  s \in Slots /\ use[s] # 0
<1>1. s \in Slots BY DEF TypeOK, ThreadsOK
<1> DEFINE H == {u \in Threads : s \in held[u]}
<1>2. IsFiniteSet(H) BY ThreadsAssumption, FS_Subset
<1>3. H # {} OBVIOUS
<1>4. Cardinality(H) # 0 BY <1>2, <1>3, FS_EmptySet
<1> QED BY <1>1, <1>4 DEF RefCountExact

\* return_list.size() is a number.
LEMMA FoundNat ==
    ASSUME TypeOK, NEW t \in Threads
    PROVE  Cardinality(held[t]) \in Nat
<1>1. IsFiniteSet(Slots) BY SizesAssumption, FS_Interval DEF Slots
<1>2. held[t] \subseteq Slots BY DEF TypeOK, ThreadsOK
<1> QED BY <1>1, <1>2, FS_Subset, FS_CardinalityType

\* So is the number of occupied slots.
LEMMA OccupiedNat == IsFiniteSet(Occupied) /\ Cardinality(Occupied) \in Nat
<1>1. IsFiniteSet(Slots) BY SizesAssumption, FS_Interval DEF Slots
<1> QED BY <1>1, FS_Subset, FS_CardinalityType DEF Occupied

\* inc() and push_back of a slot that is not listed yet keep the counts exact.
LEMMA ListCounts ==
    ASSUME TypeOK, RefCountExact, NEW t \in Threads, NEW s \in Slots,
           s \notin held[t], List(t, s)
    PROVE  RefCountExact'
<1> USE DEF TypeOK, SlotsOK, ThreadsOK, List, RefCountExact
<1> SUFFICES ASSUME NEW r \in Slots
             PROVE  use'[r] = Cardinality({u \in Threads : r \in held'[u]})
  OBVIOUS
<1> DEFINE H == {u \in Threads : r \in held[u]}
<1>1. CASE r # s
  <2>1. {u \in Threads : r \in held'[u]} = H BY <1>1
  <2> QED BY <1>1, <2>1
<1>2. CASE r = s
  <2>1. {u \in Threads : r \in held'[u]} = H \cup {t} BY <1>2
  <2>2. IsFiniteSet(H) /\ t \notin H BY <1>2, ThreadsAssumption, FS_Subset
  <2>3. Cardinality(H \cup {t}) = Cardinality(H) + 1 BY <2>2, FS_AddElement
  <2>4. use'[r] = use[r] + 1 BY <1>2
  <2> QED BY <2>1, <2>3, <2>4
<1> QED BY <1>1, <1>2

\* dec() of a listed slot keeps the counts exact.
LEMMA DecCounts ==
    ASSUME TypeOK, RefCountExact, NEW t \in Threads, NEW s \in Slots, Dec(t, s)
    PROVE  RefCountExact'
<1> USE DEF TypeOK, SlotsOK, ThreadsOK, Dec, RefCountExact
<1> SUFFICES ASSUME NEW r \in Slots
             PROVE  use'[r] = Cardinality({u \in Threads : r \in held'[u]})
  OBVIOUS
<1> DEFINE H == {u \in Threads : r \in held[u]}
<1>1. CASE r # s
  <2>1. {u \in Threads : r \in held'[u]} = H BY <1>1
  <2> QED BY <1>1, <2>1
<1>2. CASE r = s
  <2>1. {u \in Threads : r \in held'[u]} = H \ {t} BY <1>2
  <2>2. IsFiniteSet(H) /\ t \in H BY <1>2, ThreadsAssumption, FS_Subset
  <2>3. Cardinality(H \ {t}) = Cardinality(H) - 1 BY <2>2, FS_RemoveElement
  <2>4. use'[r] = use[r] - 1 BY <1>2
  <2> QED BY <2>1, <2>3, <2>4
<1> QED BY <1>1, <1>2

-------------------------------------------------------------------------------
(* Every step preserves every part of the invariant. *)

\* The slots keep their types.
LEMMA SlotsStep == ASSUME TypeOK, LocalsInv, [Next]_vars
                   PROVE  SlotsOK'
<1> USE ClockFacts, KeysAssumption DEF LocalsInv, TypeOK, SlotsOK, CacheOK, ThreadsOK,
      Goto, vars, slotVars, lockVars, cacheVars, getVars
<1>1. ASSUME NEW t \in Threads, FindHit(t) PROVE SlotsOK'
  <2>1. idx[t] \in Slots BY <1>1 DEF FindHit
  <2>2. use' \in [Slots -> Int] BY <1>1, <2>1 DEF FindHit, List
  <2> QED BY <1>1, <2>2 DEF FindHit
<1>2. ASSUME NEW t \in Threads, Stamp(t) PROVE SlotsOK'
  BY <1>2 DEF Stamp
<1>3. ASSUME NEW t \in Threads, ScanLocks(t) PROVE SlotsOK'
  BY <1>3 DEF ScanLocks, MutexFree
<1>4. ASSUME NEW t \in Threads, CheckUsed(t) PROVE SlotsOK'
  BY <1>4 DEF CheckUsed
<1>5. ASSUME NEW t \in Threads, CheckUnused(t) PROVE SlotsOK'
  BY <1>5 DEF CheckUnused, ChangeBest, Unused
<1>6. ASSUME NEW t \in Threads, Publish(t) PROVE SlotsOK'
  BY <1>6 DEF Publish
<1>7. ASSUME NEW t \in Threads, Replace(t) PROVE SlotsOK'
  BY <1>7 DEF Replace, HandlesAfterClose
<1>8. ASSUME NEW t \in Threads, Take(t) PROVE SlotsOK'
  <2>1. best[t] \in Slots BY <1>8 DEF Take
  <2>2. use' \in [Slots -> Int] BY <1>8, <2>1 DEF Take, List
  <2> QED BY <1>8, <2>2 DEF Take
<1>9. ASSUME NEW t \in Threads, NEW s \in Slots, OpTryLock(t, s) PROVE SlotsOK'
  BY <1>9 DEF OpTryLock, MutexFree
<1>10. ASSUME NEW t \in Threads, NEW s \in Slots, Dec(t, s) PROVE SlotsOK'
  BY <1>10 DEF Dec
<1>11. ASSUME NEW t \in Threads, PixelsLocks(t) PROVE SlotsOK'
  BY <1>11 DEF PixelsLocks, MutexFree
<1>12. ASSUME NEW t \in Threads, OpUnlock(t) PROVE SlotsOK'
  BY <1>12 DEF OpUnlock
<1>13. ASSUME NEW t \in Threads, Clear(t) PROVE SlotsOK'
  BY <1>13 DEF Clear
<1>14. CASE UNCHANGED slotVars
  BY <1>14
<1> QED BY <1>1, <1>2, <1>3, <1>4, <1>5, <1>6, <1>7, <1>8, <1>9, <1>10, <1>11, <1>12,
      <1>13, <1>14 DEF Next, ThreadStep, GetStep, UseStep, Get, RdLock, WrLock,
      FindMiss, RdUnlock, TryWrLockSucceeds, TryWrLockFails, InsertBegins, WrUnlock,
      ScanSkips, NoVictim, VictimFound, OpenSucceeds, OpenFails, PixelsBand,
      PixelsRefused, Return

\* The fields of the cache keep their types; size() stays within the capacity.
LEMMA CacheStep == ASSUME TypeOK, [Next]_vars
                   PROVE  CacheOK'
<1> USE ClockFacts, SizesAssumption DEF TypeOK, CacheOK, Goto, vars, slotVars, lockVars,
      cacheVars, getVars
<1>1. ASSUME NEW t \in Threads, RdLock(t) PROVE CacheOK'
  BY <1>1 DEF RdLock
<1>2. ASSUME NEW t \in Threads, WrLock(t) PROVE CacheOK'
  BY <1>2 DEF WrLock, CacheLockFree
<1>3. ASSUME NEW t \in Threads, FindHit(t) PROVE CacheOK'
  BY <1>3 DEF FindHit, List, Matches
<1>4. ASSUME NEW t \in Threads, RdUnlock(t) PROVE CacheOK'
  BY <1>4 DEF RdUnlock, AfterFind, HardRequest
<1>5. ASSUME NEW t \in Threads, TryWrLockSucceeds(t) PROVE CacheOK'
  BY <1>5 DEF TryWrLockSucceeds, CacheLockFree
<1>6. ASSUME NEW t \in Threads, WrUnlock(t) PROVE CacheOK'
  BY <1>6 DEF WrUnlock, MoreWanted
<1>7. ASSUME NEW t \in Threads, OpenSucceeds(t) PROVE CacheOK'
  BY <1>7 DEF OpenSucceeds
<1>8. ASSUME NEW t \in Threads, OpenFails(t) PROVE CacheOK'
  BY <1>8 DEF OpenFails, GiveUp
<1>9. ASSUME NEW t \in Threads, Publish(t) PROVE CacheOK'
  BY <1>9 DEF Publish
<1>10. ASSUME NEW t \in Threads, Replace(t) PROVE CacheOK'
  BY <1>10 DEF Replace, HandlesAfterClose
<1>11. ASSUME NEW t \in Threads, Clear(t) PROVE CacheOK'
  <2>1. size' \in 0..Capacity BY <1>11 DEF Clear
  <2>2. handles' \in Int BY <1>11, OccupiedNat DEF Clear
  <2> QED BY <1>11, <2>1, <2>2 DEF Clear
<1>12. CASE UNCHANGED <<lockVars, cacheVars>>
  BY <1>12
<1> QED BY <1>1, <1>2, <1>3, <1>4, <1>5, <1>6, <1>7, <1>8, <1>9, <1>10, <1>11, <1>12 DEF
      Next, ThreadStep, GetStep, UseStep, Get, Stamp, FindMiss, TryWrLockFails,
      InsertBegins, ScanSkips, ScanLocks, CheckUsed, CheckUnused, NoVictim, VictimFound,
      Take, OpTryLock, PixelsBand, Dec, PixelsLocks, PixelsRefused, OpUnlock, Return

\* The local variables of the threads keep their types.
LEMMA ThreadsStep == ASSUME TypeOK, LocalsInv, [Next]_vars
                     PROVE  ThreadsOK'
<1> USE SlotFacts, ClockFacts DEF LocalsInv, TypeOK, CacheOK, ThreadsOK, Places, InGet,
      ReadSection, WriteSection, InOp, Goto, vars, slotVars, lockVars, cacheVars,
      getVars
<1>1. ASSUME NEW t \in Threads, NEW k \in Keys, NEW n \in Copies, Get(t, k, n) PROVE ThreadsOK'
  BY <1>1 DEF Get
<1>2. ASSUME NEW t \in Threads, RdLock(t) PROVE ThreadsOK'
  BY <1>2 DEF RdLock
<1>3. ASSUME NEW t \in Threads, WrLock(t) PROVE ThreadsOK'
  BY <1>3 DEF WrLock, CacheLockFree
<1>4. ASSUME NEW t \in Threads, FindHit(t) PROVE ThreadsOK'
  BY <1>4 DEF FindHit, List, Matches
<1>5. ASSUME NEW t \in Threads, Stamp(t) PROVE ThreadsOK'
  BY <1>5 DEF Stamp
<1>6. ASSUME NEW t \in Threads, FindMiss(t) PROVE ThreadsOK'
  BY <1>6 DEF FindMiss
<1>7. ASSUME NEW t \in Threads, RdUnlock(t) PROVE ThreadsOK'
  <2>1. copies[t] \in Int
    <3>1. copies[t] \in Copies \cup {0} OBVIOUS
    <3>2. \A n \in Copies : n \in Int BY CopiesAssumption
    <3> QED BY <3>1, <3>2
  <2>2. Cardinality(held[t]) \in Nat BY FoundNat
  <2>3. want' \in [Threads -> Nat] BY <1>7, <2>1, <2>2 DEF RdUnlock, AfterFind, HardRequest
  <2>4. pc' \in [Threads -> Places] BY <1>7 DEF RdUnlock, AfterFind
  <2> QED BY <1>7, <2>3, <2>4 DEF RdUnlock
<1>8. ASSUME NEW t \in Threads, TryWrLockSucceeds(t) PROVE ThreadsOK'
  BY <1>8 DEF TryWrLockSucceeds, CacheLockFree
<1>9. ASSUME NEW t \in Threads, TryWrLockFails(t) PROVE ThreadsOK'
  BY <1>9 DEF TryWrLockFails, CacheLockFree
<1>10. ASSUME NEW t \in Threads, InsertBegins(t) PROVE ThreadsOK'
  BY <1>10 DEF InsertBegins, MoreWanted
<1>11. ASSUME NEW t \in Threads, WrUnlock(t) PROVE ThreadsOK'
  BY <1>11 DEF WrUnlock, MoreWanted
<1>12. ASSUME NEW t \in Threads, ScanSkips(t) PROVE ThreadsOK'
  BY <1>12 DEF ScanSkips
<1>13. ASSUME NEW t \in Threads, ScanLocks(t) PROVE ThreadsOK'
  BY <1>13 DEF ScanLocks, MutexFree
<1>14. ASSUME NEW t \in Threads, CheckUsed(t) PROVE ThreadsOK'
  BY <1>14 DEF CheckUsed
<1>15. ASSUME NEW t \in Threads, CheckUnused(t) PROVE ThreadsOK'
  BY <1>15 DEF CheckUnused, ChangeBest, Unused
<1>16. ASSUME NEW t \in Threads, NoVictim(t) PROVE ThreadsOK'
  BY <1>16 DEF NoVictim, GiveUp
<1>17. ASSUME NEW t \in Threads, VictimFound(t) PROVE ThreadsOK'
  BY <1>17 DEF VictimFound
<1>18. ASSUME NEW t \in Threads, OpenSucceeds(t) PROVE ThreadsOK'
  BY <1>18 DEF OpenSucceeds
<1>19. ASSUME NEW t \in Threads, OpenFails(t) PROVE ThreadsOK'
  BY <1>19 DEF OpenFails, GiveUp
<1>20. ASSUME NEW t \in Threads, Publish(t) PROVE ThreadsOK'
  BY <1>20 DEF Publish
<1>21. ASSUME NEW t \in Threads, Replace(t) PROVE ThreadsOK'
  BY <1>21 DEF Replace, HandlesAfterClose
<1>22. ASSUME NEW t \in Threads, Take(t) PROVE ThreadsOK'
  BY <1>22 DEF Take, List
<1>23. ASSUME NEW t \in Threads, NEW s \in Slots, OpTryLock(t, s) PROVE ThreadsOK'
  BY <1>23 DEF OpTryLock, MutexFree
<1>24. ASSUME NEW t \in Threads, NEW s \in Slots, PixelsBand(t, s) PROVE ThreadsOK'
  BY <1>24 DEF PixelsBand
<1>25. ASSUME NEW t \in Threads, NEW s \in Slots, Dec(t, s) PROVE ThreadsOK'
  BY <1>25 DEF Dec
<1>26. ASSUME NEW t \in Threads, PixelsLocks(t) PROVE ThreadsOK'
  BY <1>26 DEF PixelsLocks, MutexFree
<1>27. ASSUME NEW t \in Threads, PixelsRefused(t) PROVE ThreadsOK'
  BY <1>27 DEF PixelsRefused
<1>28. ASSUME NEW t \in Threads, OpUnlock(t) PROVE ThreadsOK'
  BY <1>28 DEF OpUnlock
<1>29. ASSUME NEW t \in Threads, Return(t) PROVE ThreadsOK'
  BY <1>29 DEF Return
<1>30. ASSUME NEW t \in Threads, Clear(t) PROVE ThreadsOK'
  BY <1>30 DEF Clear
<1>31. CASE UNCHANGED vars
  BY <1>31
<1> QED BY <1>1, <1>2, <1>3, <1>4, <1>5, <1>6, <1>7, <1>8, <1>9, <1>10, <1>11, <1>12,
      <1>13, <1>14, <1>15, <1>16, <1>17, <1>18, <1>19, <1>20, <1>21, <1>22, <1>23,
      <1>24, <1>25, <1>26, <1>27, <1>28, <1>29, <1>30, <1>31 DEF Next, ThreadStep,
      GetStep, UseStep

\* Every control point finds its local variables as it needs them.
LEMMA LocalsStep == ASSUME TypeOK, LocalsInv, [Next]_vars
                    PROVE  LocalsInv'
<1> USE SlotFacts, FoundNat DEF LocalsInv, TypeOK, ThreadsOK, Places, InGet,
      ReadSection, WriteSection, InOp, Goto, vars, slotVars, lockVars, cacheVars,
      getVars
<1>1. ASSUME NEW t \in Threads, NEW k \in Keys, NEW n \in Copies, Get(t, k, n) PROVE LocalsInv'
  BY <1>1 DEF Get
<1>2. ASSUME NEW t \in Threads, RdLock(t) PROVE LocalsInv'
  BY <1>2 DEF RdLock
<1>3. ASSUME NEW t \in Threads, WrLock(t) PROVE LocalsInv'
  BY <1>3 DEF WrLock, CacheLockFree
<1>4. ASSUME NEW t \in Threads, FindHit(t) PROVE LocalsInv'
  BY <1>4 DEF FindHit, List, Matches
<1>5. ASSUME NEW t \in Threads, Stamp(t) PROVE LocalsInv'
  BY <1>5 DEF Stamp
<1>6. ASSUME NEW t \in Threads, FindMiss(t) PROVE LocalsInv'
  BY <1>6 DEF FindMiss
<1>7. ASSUME NEW t \in Threads, RdUnlock(t) PROVE LocalsInv'
  BY <1>7 DEF RdUnlock, AfterFind, HardRequest
<1>8. ASSUME NEW t \in Threads, TryWrLockSucceeds(t) PROVE LocalsInv'
  BY <1>8 DEF TryWrLockSucceeds, CacheLockFree
<1>9. ASSUME NEW t \in Threads, TryWrLockFails(t) PROVE LocalsInv'
  BY <1>9 DEF TryWrLockFails, CacheLockFree
<1>10. ASSUME NEW t \in Threads, InsertBegins(t) PROVE LocalsInv'
  BY <1>10 DEF InsertBegins, MoreWanted
<1>11. ASSUME NEW t \in Threads, WrUnlock(t) PROVE LocalsInv'
  BY <1>11 DEF WrUnlock, MoreWanted
<1>12. ASSUME NEW t \in Threads, ScanSkips(t) PROVE LocalsInv'
  BY <1>12 DEF ScanSkips
<1>13. ASSUME NEW t \in Threads, ScanLocks(t) PROVE LocalsInv'
  BY <1>13 DEF ScanLocks, MutexFree
<1>14. ASSUME NEW t \in Threads, CheckUsed(t) PROVE LocalsInv'
  BY <1>14 DEF CheckUsed
<1>15. ASSUME NEW t \in Threads, CheckUnused(t) PROVE LocalsInv'
  BY <1>15 DEF CheckUnused, ChangeBest, Unused
<1>16. ASSUME NEW t \in Threads, NoVictim(t) PROVE LocalsInv'
  BY <1>16 DEF NoVictim, GiveUp
<1>17. ASSUME NEW t \in Threads, VictimFound(t) PROVE LocalsInv'
  BY <1>17 DEF VictimFound
<1>18. ASSUME NEW t \in Threads, OpenSucceeds(t) PROVE LocalsInv'
  BY <1>18 DEF OpenSucceeds
<1>19. ASSUME NEW t \in Threads, OpenFails(t) PROVE LocalsInv'
  BY <1>19 DEF OpenFails, GiveUp
<1>20. ASSUME NEW t \in Threads, Publish(t) PROVE LocalsInv'
  BY <1>20 DEF Publish
<1>21. ASSUME NEW t \in Threads, Replace(t) PROVE LocalsInv'
  BY <1>21 DEF Replace, HandlesAfterClose
<1>22. ASSUME NEW t \in Threads, Take(t) PROVE LocalsInv'
  BY <1>22 DEF Take, List
<1>23. ASSUME NEW t \in Threads, NEW s \in Slots, OpTryLock(t, s) PROVE LocalsInv'
  BY <1>23 DEF OpTryLock, MutexFree
<1>24. ASSUME NEW t \in Threads, NEW s \in Slots, PixelsBand(t, s) PROVE LocalsInv'
  BY <1>24 DEF PixelsBand
<1>25. ASSUME NEW t \in Threads, NEW s \in Slots, Dec(t, s) PROVE LocalsInv'
  BY <1>25 DEF Dec
<1>26. ASSUME NEW t \in Threads, PixelsLocks(t) PROVE LocalsInv'
  BY <1>26 DEF PixelsLocks, MutexFree
<1>27. ASSUME NEW t \in Threads, PixelsRefused(t) PROVE LocalsInv'
  BY <1>27 DEF PixelsRefused
<1>28. ASSUME NEW t \in Threads, OpUnlock(t) PROVE LocalsInv'
  BY <1>28 DEF OpUnlock
<1>29. ASSUME NEW t \in Threads, Return(t) PROVE LocalsInv'
  BY <1>29 DEF Return
<1>30. ASSUME NEW t \in Threads, Clear(t) PROVE LocalsInv'
  BY <1>30 DEF Clear
<1>31. CASE UNCHANGED vars
  BY <1>31
<1> QED BY <1>1, <1>2, <1>3, <1>4, <1>5, <1>6, <1>7, <1>8, <1>9, <1>10, <1>11, <1>12,
      <1>13, <1>14, <1>15, <1>16, <1>17, <1>18, <1>19, <1>20, <1>21, <1>22, <1>23,
      <1>24, <1>25, <1>26, <1>27, <1>28, <1>29, <1>30, <1>31 DEF Next, ThreadStep,
      GetStep, UseStep

\* Mutual exclusion of the readers-writer lock.
LEMMA LockStep == ASSUME TypeOK, LockInv, [Next]_vars
                  PROVE  LockInv'
<1> USE ThreadsAssumption DEF LockInv, TypeOK, CacheOK, ThreadsOK, Places, InGet,
      ReadSection, WriteSection, InOp, Goto, vars, slotVars, lockVars, cacheVars,
      getVars
<1>1. ASSUME NEW t \in Threads, NEW k \in Keys, NEW n \in Copies, Get(t, k, n) PROVE LockInv'
  BY <1>1 DEF Get
<1>2. ASSUME NEW t \in Threads, RdLock(t) PROVE LockInv'
  BY <1>2 DEF RdLock
<1>3. ASSUME NEW t \in Threads, WrLock(t) PROVE LockInv'
  BY <1>3 DEF WrLock, CacheLockFree
<1>4. ASSUME NEW t \in Threads, FindHit(t) PROVE LockInv'
  BY <1>4 DEF FindHit, List, Matches
<1>5. ASSUME NEW t \in Threads, Stamp(t) PROVE LockInv'
  BY <1>5 DEF Stamp
<1>6. ASSUME NEW t \in Threads, FindMiss(t) PROVE LockInv'
  BY <1>6 DEF FindMiss
<1>7. ASSUME NEW t \in Threads, RdUnlock(t) PROVE LockInv'
  BY <1>7 DEF RdUnlock, AfterFind, HardRequest
<1>8. ASSUME NEW t \in Threads, TryWrLockSucceeds(t) PROVE LockInv'
  BY <1>8 DEF TryWrLockSucceeds, CacheLockFree
<1>9. ASSUME NEW t \in Threads, TryWrLockFails(t) PROVE LockInv'
  BY <1>9 DEF TryWrLockFails, CacheLockFree
<1>10. ASSUME NEW t \in Threads, InsertBegins(t) PROVE LockInv'
  BY <1>10 DEF InsertBegins, MoreWanted
<1>11. ASSUME NEW t \in Threads, WrUnlock(t) PROVE LockInv'
  BY <1>11 DEF WrUnlock, MoreWanted
<1>12. ASSUME NEW t \in Threads, ScanSkips(t) PROVE LockInv'
  BY <1>12 DEF ScanSkips
<1>13. ASSUME NEW t \in Threads, ScanLocks(t) PROVE LockInv'
  BY <1>13 DEF ScanLocks, MutexFree
<1>14. ASSUME NEW t \in Threads, CheckUsed(t) PROVE LockInv'
  BY <1>14 DEF CheckUsed
<1>15. ASSUME NEW t \in Threads, CheckUnused(t) PROVE LockInv'
  BY <1>15 DEF CheckUnused, ChangeBest, Unused
<1>16. ASSUME NEW t \in Threads, NoVictim(t) PROVE LockInv'
  BY <1>16 DEF NoVictim, GiveUp
<1>17. ASSUME NEW t \in Threads, VictimFound(t) PROVE LockInv'
  BY <1>17 DEF VictimFound
<1>18. ASSUME NEW t \in Threads, OpenSucceeds(t) PROVE LockInv'
  BY <1>18 DEF OpenSucceeds
<1>19. ASSUME NEW t \in Threads, OpenFails(t) PROVE LockInv'
  BY <1>19 DEF OpenFails, GiveUp
<1>20. ASSUME NEW t \in Threads, Publish(t) PROVE LockInv'
  BY <1>20 DEF Publish
<1>21. ASSUME NEW t \in Threads, Replace(t) PROVE LockInv'
  BY <1>21 DEF Replace, HandlesAfterClose
<1>22. ASSUME NEW t \in Threads, Take(t) PROVE LockInv'
  BY <1>22 DEF Take, List
<1>23. ASSUME NEW t \in Threads, NEW s \in Slots, OpTryLock(t, s) PROVE LockInv'
  BY <1>23 DEF OpTryLock, MutexFree
<1>24. ASSUME NEW t \in Threads, NEW s \in Slots, PixelsBand(t, s) PROVE LockInv'
  BY <1>24 DEF PixelsBand
<1>25. ASSUME NEW t \in Threads, NEW s \in Slots, Dec(t, s) PROVE LockInv'
  BY <1>25 DEF Dec
<1>26. ASSUME NEW t \in Threads, PixelsLocks(t) PROVE LockInv'
  BY <1>26 DEF PixelsLocks, MutexFree
<1>27. ASSUME NEW t \in Threads, PixelsRefused(t) PROVE LockInv'
  BY <1>27 DEF PixelsRefused
<1>28. ASSUME NEW t \in Threads, OpUnlock(t) PROVE LockInv'
  BY <1>28 DEF OpUnlock
<1>29. ASSUME NEW t \in Threads, Return(t) PROVE LockInv'
  BY <1>29 DEF Return
<1>30. ASSUME NEW t \in Threads, Clear(t) PROVE LockInv'
  BY <1>30 DEF Clear
<1>31. CASE UNCHANGED vars
  BY <1>31
<1> QED BY <1>1, <1>2, <1>3, <1>4, <1>5, <1>6, <1>7, <1>8, <1>9, <1>10, <1>11, <1>12,
      <1>13, <1>14, <1>15, <1>16, <1>17, <1>18, <1>19, <1>20, <1>21, <1>22, <1>23,
      <1>24, <1>25, <1>26, <1>27, <1>28, <1>29, <1>30, <1>31 DEF Next, ThreadStep,
      GetStep, UseStep

\* The search never meets a slot it has already listed.
LEMMA SearchStep == ASSUME TypeOK, LocalsInv, SearchInv, [Next]_vars
                    PROVE  SearchInv'
<1> USE SlotFacts DEF LocalsInv, SearchInv, TypeOK, ThreadsOK, Places, InGet,
      ReadSection, WriteSection, InOp, Goto, vars, slotVars, lockVars, cacheVars,
      getVars
<1>1. ASSUME NEW t \in Threads, NEW k \in Keys, NEW n \in Copies, Get(t, k, n) PROVE SearchInv'
  BY <1>1 DEF Get
<1>2. ASSUME NEW t \in Threads, RdLock(t) PROVE SearchInv'
  BY <1>2 DEF RdLock
<1>3. ASSUME NEW t \in Threads, WrLock(t) PROVE SearchInv'
  BY <1>3 DEF WrLock, CacheLockFree
<1>4. ASSUME NEW t \in Threads, FindHit(t) PROVE SearchInv'
  <2>1. \A s \in held[t] : s \in Int BY DEF Slots
  <2>2. idx[t] \in Int BY IndexIsInt
  <2> QED BY <1>4, <2>1, <2>2 DEF FindHit, List
<1>5. ASSUME NEW t \in Threads, Stamp(t) PROVE SearchInv'
  <2>1. \A s \in held[t] : s \in Int BY DEF Slots
  <2>2. idx[t] \in Int BY IndexIsInt
  <2> QED BY <1>5, <2>1, <2>2 DEF Stamp
<1>6. ASSUME NEW t \in Threads, FindMiss(t) PROVE SearchInv'
  <2>1. \A s \in held[t] : s \in Int BY DEF Slots
  <2>2. idx[t] \in Int BY IndexIsInt
  <2> QED BY <1>6, <2>1, <2>2 DEF FindMiss
<1>7. ASSUME NEW t \in Threads, RdUnlock(t) PROVE SearchInv'
  BY <1>7 DEF RdUnlock, AfterFind, HardRequest
<1>8. ASSUME NEW t \in Threads, TryWrLockSucceeds(t) PROVE SearchInv'
  BY <1>8 DEF TryWrLockSucceeds, CacheLockFree
<1>9. ASSUME NEW t \in Threads, TryWrLockFails(t) PROVE SearchInv'
  BY <1>9 DEF TryWrLockFails, CacheLockFree
<1>10. ASSUME NEW t \in Threads, InsertBegins(t) PROVE SearchInv'
  BY <1>10 DEF InsertBegins, MoreWanted
<1>11. ASSUME NEW t \in Threads, WrUnlock(t) PROVE SearchInv'
  BY <1>11 DEF WrUnlock, MoreWanted
<1>12. ASSUME NEW t \in Threads, ScanSkips(t) PROVE SearchInv'
  BY <1>12 DEF ScanSkips
<1>13. ASSUME NEW t \in Threads, ScanLocks(t) PROVE SearchInv'
  BY <1>13 DEF ScanLocks, MutexFree
<1>14. ASSUME NEW t \in Threads, CheckUsed(t) PROVE SearchInv'
  BY <1>14 DEF CheckUsed
<1>15. ASSUME NEW t \in Threads, CheckUnused(t) PROVE SearchInv'
  BY <1>15 DEF CheckUnused, ChangeBest, Unused
<1>16. ASSUME NEW t \in Threads, NoVictim(t) PROVE SearchInv'
  BY <1>16 DEF NoVictim, GiveUp
<1>17. ASSUME NEW t \in Threads, VictimFound(t) PROVE SearchInv'
  BY <1>17 DEF VictimFound
<1>18. ASSUME NEW t \in Threads, OpenSucceeds(t) PROVE SearchInv'
  BY <1>18 DEF OpenSucceeds
<1>19. ASSUME NEW t \in Threads, OpenFails(t) PROVE SearchInv'
  BY <1>19 DEF OpenFails, GiveUp
<1>20. ASSUME NEW t \in Threads, Publish(t) PROVE SearchInv'
  BY <1>20 DEF Publish
<1>21. ASSUME NEW t \in Threads, Replace(t) PROVE SearchInv'
  BY <1>21 DEF Replace, HandlesAfterClose
<1>22. ASSUME NEW t \in Threads, Take(t) PROVE SearchInv'
  BY <1>22 DEF Take, List
<1>23. ASSUME NEW t \in Threads, NEW s \in Slots, OpTryLock(t, s) PROVE SearchInv'
  BY <1>23 DEF OpTryLock, MutexFree
<1>24. ASSUME NEW t \in Threads, NEW s \in Slots, PixelsBand(t, s) PROVE SearchInv'
  BY <1>24 DEF PixelsBand
<1>25. ASSUME NEW t \in Threads, NEW s \in Slots, Dec(t, s) PROVE SearchInv'
  BY <1>25 DEF Dec
<1>26. ASSUME NEW t \in Threads, PixelsLocks(t) PROVE SearchInv'
  BY <1>26 DEF PixelsLocks, MutexFree
<1>27. ASSUME NEW t \in Threads, PixelsRefused(t) PROVE SearchInv'
  BY <1>27 DEF PixelsRefused
<1>28. ASSUME NEW t \in Threads, OpUnlock(t) PROVE SearchInv'
  BY <1>28 DEF OpUnlock
<1>29. ASSUME NEW t \in Threads, Return(t) PROVE SearchInv'
  BY <1>29 DEF Return
<1>30. ASSUME NEW t \in Threads, Clear(t) PROVE SearchInv'
  BY <1>30 DEF Clear
<1>31. CASE UNCHANGED vars
  BY <1>31
<1> QED BY <1>1, <1>2, <1>3, <1>4, <1>5, <1>6, <1>7, <1>8, <1>9, <1>10, <1>11, <1>12,
      <1>13, <1>14, <1>15, <1>16, <1>17, <1>18, <1>19, <1>20, <1>21, <1>22, <1>23,
      <1>24, <1>25, <1>26, <1>27, <1>28, <1>29, <1>30, <1>31 DEF Next, ThreadStep,
      GetStep, UseStep

\* The users of a dataset list it.
LEMMA UserStep == ASSUME TypeOK, SearchInv, UserInv, [Next]_vars
                  PROVE  UserInv'
<1> USE SlotFacts DEF UserInv, SearchInv, TypeOK, ThreadsOK, Places, InGet, ReadSection,
      WriteSection, InOp, Goto, vars, slotVars, lockVars, cacheVars, getVars
<1>1. ASSUME NEW t \in Threads, NEW k \in Keys, NEW n \in Copies, Get(t, k, n) PROVE UserInv'
  BY <1>1 DEF Get
<1>2. ASSUME NEW t \in Threads, RdLock(t) PROVE UserInv'
  BY <1>2 DEF RdLock
<1>3. ASSUME NEW t \in Threads, WrLock(t) PROVE UserInv'
  BY <1>3 DEF WrLock, CacheLockFree
<1>4. ASSUME NEW t \in Threads, FindHit(t) PROVE UserInv'
  BY <1>4 DEF FindHit, List, Matches
<1>5. ASSUME NEW t \in Threads, Stamp(t) PROVE UserInv'
  BY <1>5 DEF Stamp
<1>6. ASSUME NEW t \in Threads, FindMiss(t) PROVE UserInv'
  BY <1>6 DEF FindMiss
<1>7. ASSUME NEW t \in Threads, RdUnlock(t) PROVE UserInv'
  BY <1>7 DEF RdUnlock, AfterFind, HardRequest
<1>8. ASSUME NEW t \in Threads, TryWrLockSucceeds(t) PROVE UserInv'
  BY <1>8 DEF TryWrLockSucceeds, CacheLockFree
<1>9. ASSUME NEW t \in Threads, TryWrLockFails(t) PROVE UserInv'
  BY <1>9 DEF TryWrLockFails, CacheLockFree
<1>10. ASSUME NEW t \in Threads, InsertBegins(t) PROVE UserInv'
  BY <1>10 DEF InsertBegins, MoreWanted
<1>11. ASSUME NEW t \in Threads, WrUnlock(t) PROVE UserInv'
  BY <1>11 DEF WrUnlock, MoreWanted
<1>12. ASSUME NEW t \in Threads, ScanSkips(t) PROVE UserInv'
  BY <1>12 DEF ScanSkips
<1>13. ASSUME NEW t \in Threads, ScanLocks(t) PROVE UserInv'
  BY <1>13 DEF ScanLocks, MutexFree
<1>14. ASSUME NEW t \in Threads, CheckUsed(t) PROVE UserInv'
  BY <1>14 DEF CheckUsed
<1>15. ASSUME NEW t \in Threads, CheckUnused(t) PROVE UserInv'
  BY <1>15 DEF CheckUnused, ChangeBest, Unused
<1>16. ASSUME NEW t \in Threads, NoVictim(t) PROVE UserInv'
  BY <1>16 DEF NoVictim, GiveUp
<1>17. ASSUME NEW t \in Threads, VictimFound(t) PROVE UserInv'
  BY <1>17 DEF VictimFound
<1>18. ASSUME NEW t \in Threads, OpenSucceeds(t) PROVE UserInv'
  BY <1>18 DEF OpenSucceeds
<1>19. ASSUME NEW t \in Threads, OpenFails(t) PROVE UserInv'
  BY <1>19 DEF OpenFails, GiveUp
<1>20. ASSUME NEW t \in Threads, Publish(t) PROVE UserInv'
  BY <1>20 DEF Publish
<1>21. ASSUME NEW t \in Threads, Replace(t) PROVE UserInv'
  BY <1>21 DEF Replace, HandlesAfterClose
<1>22. ASSUME NEW t \in Threads, Take(t) PROVE UserInv'
  BY <1>22 DEF Take, List
<1>23. ASSUME NEW t \in Threads, NEW s \in Slots, OpTryLock(t, s) PROVE UserInv'
  BY <1>23 DEF OpTryLock, MutexFree
<1>24. ASSUME NEW t \in Threads, NEW s \in Slots, PixelsBand(t, s) PROVE UserInv'
  BY <1>24 DEF PixelsBand
<1>25. ASSUME NEW t \in Threads, NEW s \in Slots, Dec(t, s) PROVE UserInv'
  BY <1>25 DEF Dec
<1>26. ASSUME NEW t \in Threads, PixelsLocks(t) PROVE UserInv'
  BY <1>26 DEF PixelsLocks, MutexFree
<1>27. ASSUME NEW t \in Threads, PixelsRefused(t) PROVE UserInv'
  BY <1>27 DEF PixelsRefused
<1>28. ASSUME NEW t \in Threads, OpUnlock(t) PROVE UserInv'
  BY <1>28 DEF OpUnlock
<1>29. ASSUME NEW t \in Threads, Return(t) PROVE UserInv'
  BY <1>29 DEF Return
<1>30. ASSUME NEW t \in Threads, Clear(t) PROVE UserInv'
  BY <1>30 DEF Clear
<1>31. CASE UNCHANGED vars
  BY <1>31
<1> QED BY <1>1, <1>2, <1>3, <1>4, <1>5, <1>6, <1>7, <1>8, <1>9, <1>10, <1>11, <1>12,
      <1>13, <1>14, <1>15, <1>16, <1>17, <1>18, <1>19, <1>20, <1>21, <1>22, <1>23,
      <1>24, <1>25, <1>26, <1>27, <1>28, <1>29, <1>30, <1>31 DEF Next, ThreadStep,
      GetStep, UseStep

\* insert() keeps its candidate: no reader, user or dec() disturbs it.
LEMMA CandidateStep == ASSUME TypeOK, LocalsInv, LockInv, UserInv, RefCountExact, CandidateInv, [Next]_vars
                       PROVE  CandidateInv'
<1> USE SlotFacts, ThreadsAssumption, Referenced DEF LocalsInv, LockInv, UserInv,
      CandidateInv, TypeOK, SlotsOK, CacheOK, ThreadsOK, Places, InGet, ReadSection,
      WriteSection, InOp, Goto, vars, slotVars, lockVars, cacheVars, getVars
<1>1. ASSUME NEW t \in Threads, NEW k \in Keys, NEW n \in Copies, Get(t, k, n) PROVE CandidateInv'
  BY <1>1 DEF Get
<1>2. ASSUME NEW t \in Threads, RdLock(t) PROVE CandidateInv'
  BY <1>2 DEF RdLock
<1>3. ASSUME NEW t \in Threads, WrLock(t) PROVE CandidateInv'
  BY <1>3 DEF WrLock, CacheLockFree
<1>4. ASSUME NEW t \in Threads, FindHit(t) PROVE CandidateInv'
  BY <1>4 DEF FindHit, List, Matches
<1>5. ASSUME NEW t \in Threads, Stamp(t) PROVE CandidateInv'
  BY <1>5 DEF Stamp
<1>6. ASSUME NEW t \in Threads, FindMiss(t) PROVE CandidateInv'
  BY <1>6 DEF FindMiss
<1>7. ASSUME NEW t \in Threads, RdUnlock(t) PROVE CandidateInv'
  BY <1>7 DEF RdUnlock, AfterFind, HardRequest
<1>8. ASSUME NEW t \in Threads, TryWrLockSucceeds(t) PROVE CandidateInv'
  BY <1>8 DEF TryWrLockSucceeds, CacheLockFree
<1>9. ASSUME NEW t \in Threads, TryWrLockFails(t) PROVE CandidateInv'
  BY <1>9 DEF TryWrLockFails, CacheLockFree
<1>10. ASSUME NEW t \in Threads, InsertBegins(t) PROVE CandidateInv'
  BY <1>10 DEF InsertBegins, MoreWanted
<1>11. ASSUME NEW t \in Threads, WrUnlock(t) PROVE CandidateInv'
  BY <1>11 DEF WrUnlock, MoreWanted
<1>12. ASSUME NEW t \in Threads, ScanSkips(t) PROVE CandidateInv'
  <2>1. idx[t] \in Int /\ best[t] \in Int BY IndexIsInt
  <2>2. best'[t] < idx'[t] BY <1>12, <2>1 DEF ScanSkips
  <2> QED BY <1>12, <2>1, <2>2 DEF ScanSkips
<1>13. ASSUME NEW t \in Threads, ScanLocks(t) PROVE CandidateInv'
  BY <1>13 DEF ScanLocks, MutexFree
<1>14. ASSUME NEW t \in Threads, CheckUsed(t) PROVE CandidateInv'
  <2>1. idx[t] \in Int /\ best[t] \in Int BY IndexIsInt
  <2>2. best'[t] < idx'[t] BY <1>14, <2>1 DEF CheckUsed
  <2> QED BY <1>14, <2>1, <2>2 DEF CheckUsed
<1>15. ASSUME NEW t \in Threads, CheckUnused(t) PROVE CandidateInv'
  <2>1. idx[t] \in Int /\ best[t] \in Int BY IndexIsInt
  <2>2. best'[t] < idx'[t] BY <1>15, <2>1 DEF CheckUnused, ChangeBest, Unused
  <2> QED BY <1>15, <2>1, <2>2 DEF CheckUnused, ChangeBest, Unused
<1>16. ASSUME NEW t \in Threads, NoVictim(t) PROVE CandidateInv'
  BY <1>16 DEF NoVictim, GiveUp
<1>17. ASSUME NEW t \in Threads, VictimFound(t) PROVE CandidateInv'
  BY <1>17 DEF VictimFound
<1>18. ASSUME NEW t \in Threads, OpenSucceeds(t) PROVE CandidateInv'
  BY <1>18 DEF OpenSucceeds
<1>19. ASSUME NEW t \in Threads, OpenFails(t) PROVE CandidateInv'
  BY <1>19 DEF OpenFails, GiveUp
<1>20. ASSUME NEW t \in Threads, Publish(t) PROVE CandidateInv'
  BY <1>20 DEF Publish
<1>21. ASSUME NEW t \in Threads, Replace(t) PROVE CandidateInv'
  BY <1>21 DEF Replace, HandlesAfterClose
<1>22. ASSUME NEW t \in Threads, Take(t) PROVE CandidateInv'
  BY <1>22 DEF Take, List
<1>23. ASSUME NEW t \in Threads, NEW s \in Slots, OpTryLock(t, s) PROVE CandidateInv'
  BY <1>23 DEF OpTryLock, MutexFree
<1>24. ASSUME NEW t \in Threads, NEW s \in Slots, PixelsBand(t, s) PROVE CandidateInv'
  BY <1>24 DEF PixelsBand
<1>25. ASSUME NEW t \in Threads, NEW s \in Slots, Dec(t, s) PROVE CandidateInv'
  BY <1>25 DEF Dec
<1>26. ASSUME NEW t \in Threads, PixelsLocks(t) PROVE CandidateInv'
  BY <1>26 DEF PixelsLocks, MutexFree
<1>27. ASSUME NEW t \in Threads, PixelsRefused(t) PROVE CandidateInv'
  BY <1>27 DEF PixelsRefused
<1>28. ASSUME NEW t \in Threads, OpUnlock(t) PROVE CandidateInv'
  BY <1>28 DEF OpUnlock
<1>29. ASSUME NEW t \in Threads, Return(t) PROVE CandidateInv'
  BY <1>29 DEF Return
<1>30. ASSUME NEW t \in Threads, Clear(t) PROVE CandidateInv'
  BY <1>30 DEF Clear
<1>31. CASE UNCHANGED vars
  BY <1>31
<1> QED BY <1>1, <1>2, <1>3, <1>4, <1>5, <1>6, <1>7, <1>8, <1>9, <1>10, <1>11, <1>12,
      <1>13, <1>14, <1>15, <1>16, <1>17, <1>18, <1>19, <1>20, <1>21, <1>22, <1>23,
      <1>24, <1>25, <1>26, <1>27, <1>28, <1>29, <1>30, <1>31 DEF Next, ThreadStep,
      GetStep, UseStep

\* A listed dataset keeps its key and its tag.
LEMMA HeldStep == ASSUME TypeOK, LocalsInv, LockInv, SearchInv, RefCountExact, CandidateInv, HeldMatches, [Next]_vars
                  PROVE  HeldMatches'
<1> USE SlotFacts, Referenced, KeysAssumption DEF LocalsInv, SearchInv, CandidateInv,
      HeldMatches, TypeOK, SlotsOK, ThreadsOK, Places, InGet, ReadSection, WriteSection,
      InOp, Goto, vars, slotVars, lockVars, cacheVars, getVars
<1>1. ASSUME NEW t \in Threads, NEW k \in Keys, NEW n \in Copies, Get(t, k, n) PROVE HeldMatches'
  BY <1>1 DEF Get
<1>2. ASSUME NEW t \in Threads, FindHit(t) PROVE HeldMatches'
  BY <1>2 DEF FindHit, List, Matches
<1>3. ASSUME NEW t \in Threads, Publish(t) PROVE HeldMatches'
  BY <1>3 DEF Publish
<1>4. ASSUME NEW t \in Threads, Replace(t) PROVE HeldMatches'
  BY <1>4 DEF Replace, HandlesAfterClose
<1>5. ASSUME NEW t \in Threads, Take(t) PROVE HeldMatches'
  BY <1>5 DEF Take, List
<1>6. ASSUME NEW t \in Threads, NEW s \in Slots, Dec(t, s) PROVE HeldMatches'
  BY <1>6 DEF Dec
<1>7. ASSUME NEW t \in Threads, Return(t) PROVE HeldMatches'
  BY <1>7 DEF Return
<1>8. ASSUME NEW t \in Threads, Clear(t) PROVE HeldMatches'
  BY <1>8 DEF Clear
<1>9. CASE UNCHANGED <<tag, uri, key, held>>
  BY <1>9
<1> QED BY <1>1, <1>2, <1>3, <1>4, <1>5, <1>6, <1>7, <1>8, <1>9 DEF Next, ThreadStep,
      GetStep, UseStep, RdLock, WrLock, Stamp, FindMiss, RdUnlock, TryWrLockSucceeds,
      TryWrLockFails, InsertBegins, WrUnlock, ScanSkips, ScanLocks, CheckUsed,
      CheckUnused, NoVictim, VictimFound, OpenSucceeds, OpenFails, OpTryLock,
      PixelsBand, PixelsLocks, PixelsRefused, OpUnlock

\* inc(), dec() and push_back keep every use count equal to the number of
\* threads that list the slot.
LEMMA CountStep == ASSUME TypeOK, LocalsInv, SearchInv, CandidateInv, RefCountExact, [Next]_vars
                   PROVE  RefCountExact'
<1> USE DEF vars, slotVars, getVars
<1>1. ASSUME NEW t \in Threads, FindHit(t) PROVE RefCountExact'
  <2>1. idx[t] \in Slots /\ \A s \in held[t] : s < idx[t]
    BY <1>1 DEF FindHit, SearchInv
  <2>2. idx[t] \notin held[t] BY <2>1 DEF Slots
  <2> QED BY <1>1, <2>1, <2>2, ListCounts DEF FindHit
<1>2. ASSUME NEW t \in Threads, Take(t) PROVE RefCountExact'
  <2>1. best[t] \in Slots /\ use[best[t]] = 0
    BY <1>2, SlotFacts DEF Take, LocalsInv, CandidateInv
  <2>2. best[t] \notin held[t] BY <2>1, Referenced
  <2> QED BY <1>2, <2>1, <2>2, ListCounts DEF Take
<1>3. ASSUME NEW t \in Threads, NEW s \in Slots, Dec(t, s) PROVE RefCountExact'
  BY <1>3, DecCounts
<1>4. CASE UNCHANGED <<use, held>>
  BY <1>4 DEF RefCountExact
<1> QED
  BY <1>1, <1>2, <1>3, <1>4
  DEF Next, ThreadStep, GetStep, UseStep, Get, RdLock, WrLock, Stamp, FindMiss, RdUnlock,
      TryWrLockSucceeds, TryWrLockFails, InsertBegins, WrUnlock, ScanSkips, ScanLocks,
      CheckUsed, CheckUnused, NoVictim, VictimFound, OpenSucceeds, OpenFails, Publish, Replace,
      OpTryLock, PixelsBand, PixelsLocks, PixelsRefused, OpUnlock, Return, Clear

-------------------------------------------------------------------------------
(* The theorems. *)

\* The constructor establishes the invariant.
LEMMA InitIInv == Init => IInv
<1> SUFFICES ASSUME Init PROVE IInv OBVIOUS
<1> USE SlotFacts, ClockFacts DEF Init
<1>1. TypeOK
  BY KeysAssumption, SizesAssumption
  DEF TypeOK, SlotsOK, CacheOK, ThreadsOK, Places
<1>2. LocalsInv /\ SearchInv /\ UserInv /\ CandidateInv /\ HeldMatches
  BY DEF LocalsInv, SearchInv, UserInv, CandidateInv, HeldMatches, InOp
<1>3. LockInv
  BY ThreadsAssumption DEF LockInv, ReadSection, WriteSection
<1>4. RefCountExact
  <2>1. \A s \in Slots : {t \in Threads : s \in held[t]} = {} OBVIOUS
  <2> QED BY <2>1, FS_EmptySet DEF RefCountExact
<1> QED BY <1>1, <1>2, <1>3, <1>4 DEF IInv

\* The invariant behind the theorems below holds in every reachable state of
\* the cache, whatever get(), insert(), dec() and the users of the datasets do.
THEOREM Invariance == Spec => []IInv
<1>1. IInv /\ [Next]_vars => IInv'
  BY SlotsStep, CacheStep, ThreadsStep, LocalsStep, LockStep, SearchStep, UserStep,
     CandidateStep, HeldStep, CountStep
  DEF IInv, TypeOK
<1> QED BY InitIInv, <1>1, PTL DEF Spec

\* Type correctness: no index of get() or insert() leaves the array, whatever
\* the hash, the clock or the outcome of open().
THEOREM TypeCorrect == Spec => []TypeOK
<1>1. IInv => TypeOK BY DEF IInv
<1> QED BY Invariance, <1>1, PTL

\* The use counts are exact: inc() and dec() never lose or invent a reference.
THEOREM ExactCounts == Spec => []RefCountExact
<1>1. IInv => RefCountExact BY DEF IInv
<1> QED BY Invariance, <1>1, PTL

\* A dataset is never evicted under a user: what get() returned keeps its key
\* until dec().
THEOREM NoEvictionUnderUser == Spec => []HeldMatches
<1>1. IInv => HeldMatches BY DEF IInv
<1> QED BY Invariance, <1>1, PTL

\* insert() rewrites a slot only while it has it to itself.
THEOREM ExclusiveReplacement == Spec => []VictimReserved
<1>1. IInv => VictimReserved
  <2> SUFFICES ASSUME IInv, NEW t \in Threads, pc[t] \in {"open", "publish", "replace"}
               PROVE  /\ mutex[best[t]] = t
                      /\ use[best[t]] = 0
                      /\ \A u \in Threads : cur[u] # best[t]
    BY DEF VictimReserved
  <2>1. best[t] \in Slots /\ best[t] # 0 BY SlotFacts DEF IInv, LocalsInv
  <2>2. mutex[best[t]] = t /\ use[best[t]] = 0 BY <2>1 DEF IInv, CandidateInv
  <2>3. ASSUME NEW u \in Threads PROVE cur[u] # best[t]
    BY <2>1, <2>2, Referenced DEF IInv, UserInv
  <2> QED BY <2>2, <2>3
<1> QED BY Invariance, <1>1, PTL

\* No two GDAL calls made under the lock of a dataset overlap.
THEOREM ExclusiveUse == Spec => []OpExclusive
<1>1. IInv => OpExclusive BY DEF IInv, CandidateInv, OpExclusive
<1> QED BY Invariance, <1>1, PTL
-------------------------------------------------------------------------------
(* As long as every open() succeeds. *)

\* Every step leaves each mutex with a thread that will release it.
LEMMA StrandedStep ==
    ASSUME OpenOutcomes = {"open"}, IInv, NoStrandedLock, [Next]_vars
    PROVE  NoStrandedLock'
<1> USE SlotFacts, ThreadsAssumption
    DEF IInv, TypeOK, SlotsOK, ThreadsOK, LocalsInv, LockInv, CandidateInv, NoStrandedLock,
        WriteSection, InOp, Goto, vars, slotVars, lockVars, cacheVars, getVars
<1>1. ASSUME NEW t \in Threads, NEW k \in Keys, NEW n \in Copies, Get(t, k, n) PROVE NoStrandedLock'
  BY <1>1 DEF Get
<1>2. ASSUME NEW t \in Threads, RdLock(t) PROVE NoStrandedLock'
  BY <1>2 DEF RdLock
<1>3. ASSUME NEW t \in Threads, WrLock(t) PROVE NoStrandedLock'
  BY <1>3 DEF WrLock
<1>4. ASSUME NEW t \in Threads, FindHit(t) PROVE NoStrandedLock'
  BY <1>4 DEF FindHit, List, Matches
<1>5. ASSUME NEW t \in Threads, Stamp(t) PROVE NoStrandedLock'
  BY <1>5 DEF Stamp
<1>6. ASSUME NEW t \in Threads, FindMiss(t) PROVE NoStrandedLock'
  BY <1>6 DEF FindMiss
<1>7. ASSUME NEW t \in Threads, RdUnlock(t) PROVE NoStrandedLock'
  BY <1>7 DEF RdUnlock, AfterFind, HardRequest
<1>8. ASSUME NEW t \in Threads, TryWrLockSucceeds(t) PROVE NoStrandedLock'
  BY <1>8 DEF TryWrLockSucceeds
<1>9. ASSUME NEW t \in Threads, TryWrLockFails(t) PROVE NoStrandedLock'
  BY <1>9 DEF TryWrLockFails
<1>10. ASSUME NEW t \in Threads, InsertBegins(t) PROVE NoStrandedLock'
  BY <1>10 DEF InsertBegins
<1>11. ASSUME NEW t \in Threads, WrUnlock(t) PROVE NoStrandedLock'
  BY <1>11 DEF WrUnlock, MoreWanted
<1>12. ASSUME NEW t \in Threads, ScanSkips(t) PROVE NoStrandedLock'
  BY <1>12 DEF ScanSkips
<1>13. ASSUME NEW t \in Threads, ScanLocks(t) PROVE NoStrandedLock'
  BY <1>13 DEF ScanLocks, MutexFree
<1>14. ASSUME NEW t \in Threads, CheckUsed(t) PROVE NoStrandedLock'
  BY <1>14 DEF CheckUsed
<1>15. ASSUME NEW t \in Threads, CheckUnused(t) PROVE NoStrandedLock'
  BY <1>15 DEF CheckUnused, ChangeBest, Unused
<1>16. ASSUME NEW t \in Threads, NoVictim(t) PROVE NoStrandedLock'
  BY <1>16 DEF NoVictim, GiveUp
<1>17. ASSUME NEW t \in Threads, VictimFound(t) PROVE NoStrandedLock'
  BY <1>17 DEF VictimFound
<1>18. ASSUME NEW t \in Threads, OpenSucceeds(t) PROVE NoStrandedLock'
  BY <1>18 DEF OpenSucceeds
<1>19. ASSUME NEW t \in Threads, OpenFails(t) PROVE NoStrandedLock'
  BY <1>19 DEF OpenFails, GiveUp
<1>20. ASSUME NEW t \in Threads, Publish(t) PROVE NoStrandedLock'
  BY <1>20 DEF Publish
<1>21. ASSUME NEW t \in Threads, Replace(t) PROVE NoStrandedLock'
  BY <1>21 DEF Replace
<1>22. ASSUME NEW t \in Threads, Take(t) PROVE NoStrandedLock'
  BY <1>22 DEF Take, List
<1>23. ASSUME NEW t \in Threads, NEW s \in Slots, OpTryLock(t, s) PROVE NoStrandedLock'
  BY <1>23 DEF OpTryLock, MutexFree
<1>24. ASSUME NEW t \in Threads, NEW s \in Slots, PixelsBand(t, s) PROVE NoStrandedLock'
  BY <1>24 DEF PixelsBand
<1>25. ASSUME NEW t \in Threads, NEW s \in Slots, Dec(t, s) PROVE NoStrandedLock'
  BY <1>25 DEF Dec
<1>26. ASSUME NEW t \in Threads, PixelsLocks(t) PROVE NoStrandedLock'
  BY <1>26 DEF PixelsLocks, MutexFree
<1>27. ASSUME NEW t \in Threads, PixelsRefused(t) PROVE NoStrandedLock'
  BY <1>27 DEF PixelsRefused
<1>28. ASSUME NEW t \in Threads, OpUnlock(t) PROVE NoStrandedLock'
  BY <1>28 DEF OpUnlock
<1>29. ASSUME NEW t \in Threads, Return(t) PROVE NoStrandedLock'
  BY <1>29 DEF Return
<1>30. ASSUME NEW t \in Threads, Clear(t) PROVE NoStrandedLock'
  BY <1>30 DEF Clear
<1>31. CASE UNCHANGED vars
  BY <1>31
<1> QED
  BY <1>1, <1>2, <1>3, <1>4, <1>5, <1>6, <1>7, <1>8, <1>9, <1>10, <1>11, <1>12, <1>13,
     <1>14, <1>15, <1>16, <1>17, <1>18, <1>19, <1>20, <1>21, <1>22, <1>23, <1>24, <1>25,
     <1>26, <1>27, <1>28, <1>29, <1>30, <1>31
  DEF Next, ThreadStep, GetStep, UseStep

\* insert() and the users of the datasets give back every mutex they take.
THEOREM NoMutexStranded ==
    ASSUME OpenOutcomes = {"open"} PROVE Spec => []NoStrandedLock
<1>1. Init => NoStrandedLock BY ThreadsAssumption DEF Init, NoStrandedLock
<1>2. IInv /\ NoStrandedLock /\ [Next]_vars => NoStrandedLock' BY StrandedStep
<1> QED BY Invariance, <1>1, <1>2, PTL DEF Spec

\* Once nobody is inside, lock_for_deletion() answers true for every slot: no
\* reference and no mutex is left behind.
THEOREM IdleIsLockable ==
    ASSUME OpenOutcomes = {"open"} PROVE Spec => []UnusedIsLockable
<1>1. IInv /\ NoStrandedLock => UnusedIsLockable
  <2> SUFFICES ASSUME IInv, NoStrandedLock, \A t \in Threads : pc[t] = "idle",
                      NEW s \in Slots
               PROVE  use[s] = 0 /\ mutex[s] = Nobody
    BY DEF UnusedIsLockable
  <2>1. {t \in Threads : s \in held[t]} = {} BY DEF IInv, SearchInv
  <2>2. use[s] = 0 BY <2>1, FS_EmptySet DEF IInv, RefCountExact
  <2>3. \A t \in Threads : mutex[s] # t BY DEF NoStrandedLock
  <2>4. mutex[s] \in Threads \cup {Nobody} BY DEF IInv, TypeOK, SlotsOK
  <2> QED BY <2>2, <2>3, <2>4
<1>2. Spec => []NoStrandedLock BY NoMutexStranded
<1> QED BY Invariance, <1>1, <1>2, PTL

-------------------------------------------------------------------------------
(* As long as open() leaves nothing half open. *)

\* Every step keeps the account of the open GDAL datasets.
LEMMA HandlesStep ==
    ASSUME "half" \notin OpenOutcomes, IInv, HandlesAccounted, [Next]_vars
    PROVE  HandlesAccounted'
<1> DEFINE New == {t \in Threads : pc[t] \in {"publish", "replace"}}
<1> USE DEF IInv, TypeOK, SlotsOK, CacheOK, ThreadsOK, HandlesAccounted,
            Goto, vars, slotVars, lockVars, cacheVars, getVars
<1>0. /\ IsFiniteSet(New) /\ Cardinality(New) \in Nat
      /\ IsFiniteSet(Occupied) /\ Cardinality(Occupied) \in Nat
  BY ThreadsAssumption, OccupiedNat, FS_Subset, FS_CardinalityType
<1>1. ASSUME NEW t \in Threads, OpenSucceeds(t) PROVE HandlesAccounted'
  <2>1. New' = New \cup {t} /\ t \notin New BY <1>1 DEF OpenSucceeds
  <2>2. Cardinality(New') = Cardinality(New) + 1 BY <2>1, <1>0, FS_AddElement
  <2>3. Occupied' = Occupied BY <1>1 DEF OpenSucceeds, Occupied
  <2>4. handles' = handles + 2 BY <1>1 DEF OpenSucceeds
  <2> QED BY <2>2, <2>3, <2>4, <1>0
<1>2. ASSUME NEW t \in Threads, Replace(t) PROVE HandlesAccounted'
  <2>1. New' = New \ {t} /\ t \in New BY <1>2 DEF Replace
  <2>2. Cardinality(New') = Cardinality(New) - 1
    <3>1. Cardinality(New \ {t}) = Cardinality(New) - 1
      <4> HIDE DEF New
      <4> QED BY <2>1, <1>0, FS_RemoveElement
    <3> QED BY <2>1, <3>1
  <2>3. best[t] \in Slots /\ key[t] \in Keys /\ key[t] # NoKey
    BY <1>2, KeysAssumption DEF Replace, LocalsInv
  <2>4. Occupied' = Occupied \cup {best[t]} BY <1>2, <2>3 DEF Replace, Occupied
  <2>5. CASE best[t] \in Occupied
    <3>1. Occupied' = Occupied BY <2>4, <2>5
    <3>2. handles' = handles - 2 BY <1>2, <2>5 DEF Replace, HandlesAfterClose
    <3> QED BY <3>1, <3>2, <2>2, <1>0
  <2>6. CASE best[t] \notin Occupied
    <3>1. Cardinality(Occupied') = Cardinality(Occupied) + 1 BY <2>4, <2>6, <1>0, FS_AddElement
    <3>2. handles' = handles BY <1>2, <2>6 DEF Replace, HandlesAfterClose
    <3> QED BY <3>1, <3>2, <2>2, <1>0
  <2> QED BY <2>5, <2>6
<1>3. ASSUME NEW t \in Threads, Clear(t) PROVE HandlesAccounted'
  <2>1. New = {} /\ New' = {} BY <1>3 DEF Clear
  <2>2. Occupied' = {} BY <1>3 DEF Clear, Occupied
  <2>3. Cardinality(New) = 0 /\ Cardinality(New') = 0 /\ Cardinality(Occupied') = 0
    BY <2>1, <2>2, FS_EmptySet
  <2>4. handles' = handles - 2 * Cardinality(Occupied) BY <1>3 DEF Clear
  <2>5. handles = 2 * Cardinality(Occupied) BY <2>3, <1>0
  <2>6. handles' = 0 BY <2>4, <2>5, <1>0
  <2> QED BY <2>3, <2>6
<1>4. ASSUME NEW t \in Threads, Publish(t) PROVE HandlesAccounted'
  <2>1. New' = New BY <1>4 DEF Publish
  <2> QED BY <1>4, <2>1 DEF Publish, Occupied
<1>5. CASE UNCHANGED <<uri, handles>> /\ New' = New
  BY <1>5 DEF Occupied
<1>6. ASSUME NEW t \in Threads, OpenFails(t) PROVE HandlesAccounted'
  <2>1. UNCHANGED <<uri, handles>> BY <1>6 DEF OpenFails
  <2>2. New' = New BY <1>6 DEF OpenFails
  <2> QED BY <2>1, <2>2, <1>5
<1>7. ASSUME NEW t \in Threads, \/ \E k \in Keys, n \in Copies : Get(t, k, n)
                                \/ RdLock(t) \/ FindHit(t) \/ Stamp(t) \/ FindMiss(t)
                                \/ RdUnlock(t) \/ WrLock(t) \/ TryWrLockSucceeds(t)
                                \/ TryWrLockFails(t) \/ InsertBegins(t) \/ WrUnlock(t)
      PROVE  HandlesAccounted'
  <2>1. UNCHANGED <<uri, handles>>
    BY <1>7 DEF Get, RdLock, FindHit, Stamp, FindMiss, RdUnlock, WrLock, TryWrLockSucceeds,
                TryWrLockFails, InsertBegins, WrUnlock
  <2>2. New' = New
    BY <1>7 DEF Get, RdLock, FindHit, Stamp, FindMiss, RdUnlock, AfterFind, WrLock,
                TryWrLockSucceeds, TryWrLockFails, InsertBegins, WrUnlock
  <2> QED BY <2>1, <2>2, <1>5
<1>8. ASSUME NEW t \in Threads, \/ ScanSkips(t) \/ ScanLocks(t) \/ CheckUsed(t)
                                \/ CheckUnused(t) \/ NoVictim(t) \/ VictimFound(t) \/ Take(t)
      PROVE  HandlesAccounted'
  <2>1. UNCHANGED <<uri, handles>>
    BY <1>8 DEF ScanSkips, ScanLocks, CheckUsed, CheckUnused, NoVictim, VictimFound, Take
  <2>2. New' = New
    BY <1>8 DEF ScanSkips, ScanLocks, CheckUsed, CheckUnused, NoVictim, VictimFound, Take
  <2> QED BY <2>1, <2>2, <1>5
<1>9. ASSUME NEW t \in Threads, UseStep(t) PROVE HandlesAccounted'
  <2>1. UNCHANGED <<uri, handles>>
    BY <1>9 DEF UseStep, OpTryLock, PixelsBand, Dec, PixelsLocks, PixelsRefused, OpUnlock, Return
  <2>2. New' = New
    BY <1>9 DEF UseStep, OpTryLock, PixelsBand, Dec, PixelsLocks, PixelsRefused, OpUnlock, Return
  <2> QED BY <2>1, <2>2, <1>5
<1>10. CASE UNCHANGED vars
  BY <1>10, <1>5
<1> QED
  BY <1>1, <1>2, <1>3, <1>4, <1>6, <1>7, <1>8, <1>9, <1>10 DEF Next, ThreadStep, GetStep

\* Two GDAL datasets are open per occupied slot, and two for a new one: close()
\* and the move assignment neither leak a dataset nor close one twice.
THEOREM NoHandleLeaked ==
    ASSUME "half" \notin OpenOutcomes PROVE Spec => []HandlesAccounted
<1>1. Init => HandlesAccounted
  <2> SUFFICES ASSUME Init PROVE HandlesAccounted OBVIOUS
  <2>1. Occupied = {} /\ {t \in Threads : pc[t] \in {"publish", "replace"}} = {}
    BY DEF Init, Occupied
  <2>2. Cardinality(Occupied) = 0
        /\ Cardinality({t \in Threads : pc[t] \in {"publish", "replace"}}) = 0
    BY <2>1, FS_EmptySet
  <2>3. handles = 0 BY DEF Init
  <2> QED BY <2>2, <2>3 DEF HandlesAccounted
<1>2. IInv /\ HandlesAccounted /\ [Next]_vars => HandlesAccounted' BY HandlesStep
<1> QED BY Invariance, <1>1, <1>2, PTL DEF Spec

-------------------------------------------------------------------------------
(* As long as every operation takes the lock before it touches the dataset. *)

\* Nobody looks at the bands of a dataset without its lock.
NoPeek == \A t \in Threads : pc[t] # "peek"

\* Only get_pixels does.
LEMMA NoPeekStep ==
    ASSUME "pixels" \notin Ops, TypeOK, NoPeek, [Next]_vars PROVE NoPeek'
<1> USE DEF TypeOK, ThreadsOK, NoPeek, Goto
<1>1. ASSUME NEW t \in Threads, \/ \E k \in Keys, n \in Copies : Get(t, k, n)
                                \/ RdLock(t) \/ WrLock(t) \/ Clear(t)
      PROVE  NoPeek'
  BY <1>1 DEF Get, RdLock, WrLock, Clear
<1>2. ASSUME NEW t \in Threads, UseStep(t) PROVE NoPeek'
  BY <1>2 DEF UseStep, OpTryLock, PixelsBand, Dec, PixelsLocks, PixelsRefused, OpUnlock, Return
<1>3. ASSUME NEW t \in Threads, \/ FindHit(t) \/ Stamp(t) \/ FindMiss(t) \/ RdUnlock(t)
                                \/ TryWrLockSucceeds(t) \/ TryWrLockFails(t)
                                \/ InsertBegins(t) \/ WrUnlock(t)
      PROVE  NoPeek'
  BY <1>3 DEF FindHit, Stamp, FindMiss, RdUnlock, AfterFind, TryWrLockSucceeds,
              TryWrLockFails, InsertBegins, WrUnlock
<1>4. ASSUME NEW t \in Threads, \/ ScanSkips(t) \/ ScanLocks(t) \/ CheckUsed(t)
                                \/ CheckUnused(t) \/ NoVictim(t) \/ VictimFound(t)
                                \/ OpenSucceeds(t) \/ OpenFails(t) \/ Publish(t)
                                \/ Replace(t) \/ Take(t)
      PROVE  NoPeek'
  BY <1>4 DEF ScanSkips, ScanLocks, CheckUsed, CheckUnused, NoVictim, VictimFound,
              OpenSucceeds, OpenFails, Publish, Replace, Take
<1>5. CASE UNCHANGED vars
  BY <1>5 DEF vars
<1> QED BY <1>1, <1>2, <1>3, <1>4, <1>5 DEF Next, ThreadStep, GetStep

\* The operations that start with TRYLOCK never share a dataset: it is
\* get_pixels alone that looks at one which another thread works on.
THEOREM OneUserUnderLock ==
    ASSUME "pixels" \notin Ops PROVE Spec => []OneUserPerDataset
<1>1. Init => NoPeek BY DEF Init, NoPeek
<1>2. IInv /\ NoPeek /\ [Next]_vars => NoPeek' BY NoPeekStep DEF IInv
<1>3. OpExclusive /\ NoPeek => OneUserPerDataset
  BY DEF OpExclusive, NoPeek, OneUserPerDataset, InOp
<1> QED BY Invariance, ExclusiveUse, <1>1, <1>2, <1>3, PTL DEF Spec
===============================================================================
