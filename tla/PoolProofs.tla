------------------------------ MODULE PoolProofs ------------------------------
(***************************************************************************)
(* FlatLruCache implements DatasetPool, for every value of the constants:  *)
(* under the invariant of FlatLruCacheProofs each step of the cache is a   *)
(* step of the pool, or changes nothing that the pool knows of.            *)
(***************************************************************************)
EXTENDS FlatLruCacheProofs

\* The state of the pool, as Pool maps it.
Phase == [t \in Threads |-> PhaseOf(pc[t])]
InUse == [t \in Threads |-> IF pc[t] = "op" THEN {cur[t]} ELSE {}]

\* What the pool knows of does not change.
PoolStutters == UNCHANGED <<uri, Phase, key, held, InUse>>

-------------------------------------------------------------------------------
(* The steps that the pool sees. *)

LEMMA GetIsAsk ==
    ASSUME IInv, NEW t \in Threads, NEW k \in Keys, NEW n \in Copies, Get(t, k, n)
    PROVE  Pool!Ask(t)
  BY DEF IInv, TypeOK, ThreadsOK, Get, Goto, slotVars, Pool!Ask, PhaseOf, InGet, ReadSection,
         WriteSection

\* The search delivers a slot it has not listed before.
LEMMA FindHitDelivers ==
    ASSUME IInv, NEW t \in Threads, FindHit(t)
    PROVE  idx[t] \in Slots /\ Pool!Deliver(t, idx[t])
<1> USE DEF IInv, TypeOK, ThreadsOK
<1>1. idx[t] \in Slots /\ idx[t] \notin held[t]
  BY IndexIsInt DEF FindHit, SearchInv
<1>2. uri[idx[t]] = key[t] BY DEF FindHit, Matches
<1> QED BY <1>1, <1>2 DEF FindHit, List, Goto, Pool!Deliver, PhaseOf, InGet, ReadSection, WriteSection

\* So does the insertion: nobody lists the slot it has rewritten.
LEMMA TakeDelivers ==
    ASSUME IInv, NEW t \in Threads, Take(t)
    PROVE  best[t] \in Slots /\ Pool!Deliver(t, best[t])
<1> USE DEF IInv, TypeOK, ThreadsOK
<1>1. best[t] \in Slots BY DEF Take, LocalsInv
<1>2. best[t] # 0 BY <1>1, SlotFacts
<1>3. use[best[t]] = 0 /\ uri[best[t]] = key[t] BY <1>2 DEF Take, CandidateInv
<1>4. best[t] \notin held[t] BY <1>3, Referenced
<1> QED BY <1>1, <1>3, <1>4 DEF Take, List, Goto, Pool!Deliver, PhaseOf, InGet, ReadSection, WriteSection

\* The move assignment recycles a slot that nobody has.
LEMMA ReplaceRecycles ==
    ASSUME IInv, NEW t \in Threads, Replace(t)
    PROVE  best[t] \in Slots /\ Pool!Recycle(t, best[t])
<1> USE DEF IInv, TypeOK, SlotsOK, ThreadsOK
<1>1. best[t] \in Slots BY DEF Replace, LocalsInv
<1>2. best[t] # 0 BY <1>1, SlotFacts
<1>3. use[best[t]] = 0 BY <1>2 DEF Replace, CandidateInv
<1>4. \A u \in Threads : best[t] \notin held[u] BY <1>3, Referenced
<1>5. \A u \in Threads : pc[u] = "op" => cur[u] # best[t] BY <1>4 DEF UserInv, InOp
<1>6. Pool!Idle(best[t]) BY <1>4, <1>5 DEF Pool!Idle
<1> QED BY <1>1, <1>6 DEF Replace, getVars, Goto, Pool!Recycle, PhaseOf, InGet, ReadSection, WriteSection

\* A dataset whose mutex is free is inside no GDAL call.
LEMMA FreeIsUnused ==
    ASSUME IInv, NEW s \in Slots, MutexFree(s), NEW u \in Threads
    PROVE  s \notin InUse[u]
  BY ThreadsAssumption DEF IInv, CandidateInv, MutexFree, InUse

LEMMA OpTryLockUses ==
    ASSUME IInv, NEW t \in Threads, NEW s \in Slots, OpTryLock(t, s)
    PROVE  Pool!Use(t, s)
<1> USE DEF IInv, TypeOK, ThreadsOK
<1>1. \A u \in Threads : s \notin InUse[u] BY FreeIsUnused DEF OpTryLock
<1> QED BY <1>1 DEF OpTryLock, getVars, Goto, Pool!Use, PhaseOf, InGet, ReadSection, WriteSection, InUse

LEMMA PixelsLocksUses ==
    ASSUME IInv, NEW t \in Threads, PixelsLocks(t)
    PROVE  \E s \in Slots : Pool!Use(t, s)
<1> USE DEF IInv, TypeOK, ThreadsOK
<1>1. cur[t] \in held[t] BY DEF UserInv, InOp, PixelsLocks
<1>2. PICK s \in Slots : s = cur[t] BY <1>1
<1>3. \A u \in Threads : s \notin InUse[u] BY <1>2, FreeIsUnused DEF PixelsLocks
<1>4. Pool!Use(t, s)
  BY <1>1, <1>2, <1>3
     DEF PixelsLocks, getVars, Goto, Pool!Use, PhaseOf, InGet, ReadSection, WriteSection, InUse
<1> QED BY <1>4

LEMMA OpUnlockFinishes ==
    ASSUME IInv, NEW t \in Threads, OpUnlock(t)
    PROVE  Pool!Finish(t)
  BY DEF IInv, TypeOK, ThreadsOK, OpUnlock, getVars, Goto, Pool!Finish, PhaseOf, InGet, ReadSection,
         WriteSection

LEMMA DecGivesBack ==
    ASSUME IInv, NEW t \in Threads, NEW s \in Slots, Dec(t, s)
    PROVE  Pool!GiveBack(t, s)
  BY DEF IInv, TypeOK, ThreadsOK, Dec, Pool!GiveBack, PhaseOf, InGet, ReadSection, WriteSection

LEMMA ReturnLeaves ==
    ASSUME IInv, NEW t \in Threads, Return(t)
    PROVE  Pool!Leave(t)
  BY DEF IInv, TypeOK, ThreadsOK, Return, slotVars, Goto, Pool!Leave, PhaseOf, InGet, ReadSection,
         WriteSection

LEMMA ClearEmpties ==
    ASSUME IInv, NEW t \in Threads, Clear(t)
    PROVE  Pool!Empty
  BY DEF IInv, TypeOK, ThreadsOK, Clear, getVars, Pool!Empty, PhaseOf, InGet, ReadSection,
         WriteSection

\* get() comes back: with what the search has found, ...
LEMMA RdUnlockDelivers ==
    ASSUME IInv, NEW t \in Threads, RdUnlock(t)
    PROVE  Pool!Delivered(t) \/ PoolStutters
<1> USE DEF IInv, TypeOK, ThreadsOK, RdUnlock, AfterFind, Goto, slotVars, PhaseOf, InGet, ReadSection,
            WriteSection
<1>1. CASE pc' = [pc EXCEPT ![t] = "got"] BY <1>1 DEF Pool!Delivered
<1>2. CASE pc' = [pc EXCEPT ![t] = "wrlock"] BY <1>2 DEF PoolStutters, Phase, InUse
<1>3. CASE pc' = [pc EXCEPT ![t] = "trywrlock"] BY <1>3 DEF PoolStutters, Phase, InUse
<1> QED BY <1>1, <1>2, <1>3

\* ... or after the insertions.
LEMMA InsertionsDeliver ==
    ASSUME IInv, NEW t \in Threads, TryWrLockFails(t) \/ WrUnlock(t)
    PROVE  Pool!Delivered(t)
  BY DEF IInv, TypeOK, ThreadsOK, TryWrLockFails, WrUnlock, Goto, slotVars, getVars, Pool!Delivered, PhaseOf,
         InGet, ReadSection, WriteSection

-------------------------------------------------------------------------------
(* The steps that it does not see. *)

LEMMA InsideGet ==
    ASSUME IInv, NEW t \in Threads,
           \/ RdLock(t) \/ WrLock(t) \/ Stamp(t) \/ FindMiss(t) \/ TryWrLockSucceeds(t)
           \/ InsertBegins(t) \/ ScanSkips(t) \/ ScanLocks(t) \/ CheckUsed(t) \/ CheckUnused(t)
           \/ NoVictim(t) \/ VictimFound(t) \/ OpenSucceeds(t) \/ OpenFails(t) \/ Publish(t)
    PROVE  PoolStutters
<1> USE DEF IInv, TypeOK, ThreadsOK, Goto, slotVars, getVars, PhaseOf, InGet, ReadSection, WriteSection
<1>1. UNCHANGED <<uri, key, held, cur>>
  BY DEF RdLock, WrLock, Stamp, FindMiss, TryWrLockSucceeds, InsertBegins, ScanSkips, ScanLocks,
         CheckUsed, CheckUnused, NoVictim, VictimFound, OpenSucceeds, OpenFails, Publish
<1>2. pc[t] \in InGet /\ pc'[t] \in InGet /\ \A u \in Threads \ {t} : pc'[u] = pc[u]
  BY DEF RdLock, WrLock, Stamp, FindMiss, TryWrLockSucceeds, InsertBegins, ScanSkips, ScanLocks,
         CheckUsed, CheckUnused, NoVictim, VictimFound, OpenSucceeds, OpenFails, Publish
<1> QED BY <1>1, <1>2 DEF PoolStutters, Phase, InUse

LEMMA PixelsPeek ==
    ASSUME IInv, NEW t \in Threads, (\E s \in Slots : PixelsBand(t, s)) \/ PixelsRefused(t)
    PROVE  PoolStutters
<1> USE DEF IInv, TypeOK, ThreadsOK, Goto, slotVars, getVars, PhaseOf, InGet, ReadSection, WriteSection
<1>1. UNCHANGED <<uri, key, held>> BY DEF PixelsBand, PixelsRefused
<1>2. pc[t] \in {"got", "peek"} /\ pc'[t] \in {"got", "peek"}
      /\ \A u \in Threads \ {t} : pc'[u] = pc[u] /\ cur'[u] = cur[u]
  BY DEF PixelsBand, PixelsRefused
<1> QED BY <1>1, <1>2 DEF PoolStutters, Phase, InUse

-------------------------------------------------------------------------------

\* Every step of a thread is a step of the pool or changes nothing of it.
LEMMA StepIsPoolStep ==
    ASSUME IInv, [Next]_vars
    PROVE  Pool!Next \/ PoolStutters
<1>1. ASSUME NEW t \in Threads, GetStep(t) \/ RdLock(t) \/ WrLock(t) PROVE Pool!Next \/ PoolStutters
  BY <1>1, FindHitDelivers, TakeDelivers, ReplaceRecycles, RdUnlockDelivers, InsertionsDeliver,
     InsideGet DEF GetStep, Pool!Next
<1>2. ASSUME NEW t \in Threads, UseStep(t) PROVE Pool!Next \/ PoolStutters
  <2>1. ASSUME NEW s \in Slots, OpTryLock(t, s) \/ Dec(t, s) PROVE Pool!Next
    BY <2>1, OpTryLockUses, DecGivesBack DEF Pool!Next
  <2>2. ASSUME NEW s \in Slots, PixelsBand(t, s) PROVE PoolStutters
    BY <2>2, PixelsPeek
  <2>3. CASE PixelsRefused(t) BY <2>3, PixelsPeek
  <2>4. CASE PixelsLocks(t)
    <3>1. PICK s \in Slots : Pool!Use(t, s) BY <2>4, PixelsLocksUses
    <3> QED BY <3>1 DEF Pool!Next
  <2>5. CASE OpUnlock(t) \/ Return(t)
    BY <2>5, OpUnlockFinishes, ReturnLeaves DEF Pool!Next
  <2> QED BY <1>2, <2>1, <2>2, <2>3, <2>4, <2>5 DEF UseStep
<1>3. ASSUME NEW t \in Threads, NEW k \in Keys, NEW n \in Copies, Get(t, k, n) PROVE Pool!Next
  BY <1>3, GetIsAsk DEF Pool!Next
<1>4. ASSUME NEW t \in Threads, Clear(t) PROVE Pool!Next
  BY <1>4, ClearEmpties DEF Pool!Next
<1>5. CASE UNCHANGED vars
  BY <1>5 DEF vars, slotVars, getVars, PoolStutters, Phase, InUse
<1> QED BY <1>1, <1>2, <1>3, <1>4, <1>5 DEF Next, ThreadStep

\* The cache keeps what the pool promises (get, insert, clear, TRYLOCK, UNLOCK, dec).
THEOREM CacheIsAPool == Spec => PoolImplemented
<1>1. Init => Pool!Init
  BY DEF Init, Pool!Init, PhaseOf
<1>2. IInv /\ [Next]_vars => [Pool!Next]_(Pool!poolVars)
  BY StepIsPoolStep DEF PoolStutters, Phase, InUse, Pool!poolVars
<1> QED BY Invariance, <1>1, <1>2, PTL DEF Spec, PoolImplemented, Pool!Spec
===============================================================================
