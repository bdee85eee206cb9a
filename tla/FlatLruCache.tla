----------------------------- MODULE FlatLruCache -----------------------------
(***************************************************************************)
(* The cache of warped datasets (flat_lru_cache.hpp) together with the     *)
(* locking half of the datasets it holds (locked_dataset.hpp).             *)
(*                                                                         *)
(* The cache is a fixed array of slots.  A slot keeps a tag (the hash of   *)
(* its key), an access time, and a locked_dataset: a key, a mutex and a    *)
(* use count.  get() searches the array under the read half of a           *)
(* readers-writer lock, and inserts what is missing under the write half;  *)
(* the users of the datasets it returns take each dataset's own mutex with *)
(* trylock, and give their references back with dec(), which takes no lock *)
(* at all.  One action is one step of one thread between two points where  *)
(* another thread can see, or change, what it works on.                    *)
(*                                                                         *)
(* The return list of get() is a set of slots: its order is given up, and  *)
(* RefCountExact would fail if a slot could be listed twice.               *)
(***************************************************************************)
EXTENDS Integers, FiniteSets

CONSTANTS
    Threads,        \* the callers of the library
    Nobody,         \* the owner of a mutex or of the write lock that is free
    Keys,           \* the (uri, options) pairs that are asked for
    NoKey,          \* the key of an empty slot: the default uri_options_t
    Capacity,       \* number of slots (m_capacity)
    Hash,           \* uri_options_hash_t; keys may collide
    Copies,         \* the values of the `copies` argument of get()
    ClockRange,     \* 2^64 in the code: atime_t is a uint64_t and wraps
    OpenOutcomes,   \* what locked_dataset::open may do, see OpenDataset
    Ops,            \* the shapes of dataset operation the users perform
    MaxHandles      \* bound: no half-open dataset beyond this many handles

ASSUME ThreadsAssumption == IsFiniteSet(Threads) /\ Nobody \notin Threads
ASSUME KeysAssumption == NoKey \notin Keys /\ Hash \in [Keys -> Nat]
ASSUME SizesAssumption ==
    Capacity \in Nat /\ ClockRange \in Nat \ {0} /\ MaxHandles \in Nat
ASSUME CopiesAssumption == Copies \subseteq Int
ASSUME OutcomesAssumption == OpenOutcomes \subseteq {"open", "none", "half"}
ASSUME OpsAssumption == Ops \subseteq {"locked", "pixels"}

VARIABLES
    \* The slots: m_tags, m_atimes and the fields of m_values.
    tag, atime, uri, mutex, use,
    \* The readers-writer lock of the cache (m_cache_lock).
    readers, writer,
    \* m_time, size() and the number of GDAL datasets the process has open.
    time, size, handles,
    \* Per thread: where it is, the arguments of get(), the return list, and
    \* the local variables of get() and insert() (`best` is 0 for -1).
    pc, key, copies, held, idx, best, want, stamp,
    \* Per thread: the slot whose dataset it operates on (0: none).
    cur

slotVars   == <<tag, atime, uri, mutex, use>>
lockVars   == <<readers, writer>>
cacheVars  == <<time, size, handles>>
getVars    == <<key, copies, held, idx, best, want, stamp>>
vars       == <<slotVars, lockVars, cacheVars, getVars, pc, cur>>

Slots == 1..Capacity
Clock == 0..(ClockRange - 1)

\* The values of the index of a loop over the slots, and 0 outside the loop.
Cursor == 0..(Capacity + 1)

\* ++m_time on an atomic<uint64_t>.
Tick(x) == IF x + 1 = ClockRange THEN 0 ELSE x + 1

\* `atime_t best_atime = -1; // sic`: the largest one.
MaxTime == ClockRange - 1

\* A slot whose dataset is valid(); the others hold a default-constructed one.
Occupied == {s \in Slots : uri[s] # NoKey}

\* count(), which reads the slots under the read lock.
Count(k) == Cardinality({s \in Slots : tag[s] = Hash[k] /\ uri[s] = k})

\* Where a thread may be while it holds each half of the cache's lock.
ReadSection  == {"find", "stamp"}
WriteSection == {"insert", "scan", "check", "open", "publish", "replace", "take"}
InGet        == {"rdlock", "wrlock", "trywrlock"} \cup ReadSection \cup WriteSection
InOp         == {"op", "peek"}
Places       == {"idle", "got"} \cup InGet \cup InOp

SlotsOK ==
    /\ tag \in [Slots -> Nat]
    /\ atime \in [Slots -> Clock]
    /\ uri \in [Slots -> Keys \cup {NoKey}]
    /\ mutex \in [Slots -> Threads \cup {Nobody}]
    /\ use \in [Slots -> Int]

CacheOK ==
    /\ readers \subseteq Threads
    /\ writer \in Threads \cup {Nobody}
    /\ time \in Clock
    /\ size \in 0..Capacity
    /\ handles \in Int

ThreadsOK ==
    /\ pc \in [Threads -> Places]
    /\ key \in [Threads -> Keys \cup {NoKey}]
    /\ copies \in [Threads -> Copies \cup {0}]
    /\ held \in [Threads -> SUBSET Slots]
    /\ idx \in [Threads -> Cursor]
    /\ best \in [Threads -> Slots \cup {0}]
    /\ want \in [Threads -> Nat]
    /\ stamp \in [Threads -> Clock]
    /\ cur \in [Threads -> Slots \cup {0}]

TypeOK == SlotsOK /\ CacheOK /\ ThreadsOK

\* The constructor: every slot cleared, nobody inside.
Init ==
    /\ tag = [s \in Slots |-> 0]
    /\ atime = [s \in Slots |-> 0]
    /\ uri = [s \in Slots |-> NoKey]
    /\ mutex = [s \in Slots |-> Nobody]
    /\ use = [s \in Slots |-> 0]
    /\ readers = {}
    /\ writer = Nobody
    /\ time = 0
    /\ size = 0
    /\ handles = 0
    /\ pc = [t \in Threads |-> "idle"]
    /\ key = [t \in Threads |-> NoKey]
    /\ copies = [t \in Threads |-> 0]
    /\ held = [t \in Threads |-> {}]
    /\ idx = [t \in Threads |-> 0]
    /\ best = [t \in Threads |-> 0]
    /\ want = [t \in Threads |-> 0]
    /\ stamp = [t \in Threads |-> 0]
    /\ cur = [t \in Threads |-> 0]

Goto(t, l) == pc' = [pc EXCEPT ![t] = l]

-------------------------------------------------------------------------------
(* Bugs this code could have had: each is a faulty form of the definition    *)
(* that follows it, and no action uses it.                                    *)

\* The keys of equal hashes are not compared.
MatchesByTag(s, k) == tag[s] = Hash[k]

\* m_tags[i] == tag && m_values[i] == key.
Matches(s, k) == tag[s] = Hash[k] /\ uri[s] = k

\* The result of trylock is not looked at.
MutexIgnored(s) == TRUE

\* pthread_mutex_trylock on an errorcheck mutex: busy for its owner, too.
MutexFree(s) == mutex[s] = Nobody

\* lock_for_deletion() without its look at the use count.
UseIgnored(s) == TRUE

\* m_use_count == 0.
Unused(s) == use[s] = 0

\* A listed dataset is not referenced.
ListOnly(t, s) ==
    /\ UNCHANGED use
    /\ held' = [held EXCEPT ![t] = @ \cup {s}]

\* ld.inc() and return_list.push_back(&ld).
List(t, s) ==
    /\ use' = [use EXCEPT ![s] = @ + 1]
    /\ held' = [held EXCEPT ![t] = @ \cup {s}]

\* i >= 0 for i > 0 in the loop of get() over insert().
OneMoreWanted(t) == want[t] >= 0

\* The loop of get() over insert() goes on.
MoreWanted(t) == want[t] > 0

\* The loop counts the insertions that succeed, and tries until they do.
TryAgain(t) == UNCHANGED want

\* insert() answered nullptr: the loop goes on to its next round all the same.
GiveUp(t) == want' = [want EXCEPT ![t] = @ - 1]

\* best_atime is not updated with best_index.
BestTimeForgotten(t) == MaxTime

\* best_atime, which starts as the largest one.
BestTime(t) == IF best[t] = 0 THEN MaxTime ELSE atime[best[t]]

\* The most recently used slot is looked for.
IsYounger(t) == best[t] = 0 \/ atime[idx[t]] > BestTime(t)

\* m_atimes[i] < best_atime.
IsOlder(t) == atime[idx[t]] < BestTime(t)

\* The candidate that is dropped is not unlocked.
DropBest(t) ==
    /\ UNCHANGED mutex
    /\ best' = [best EXCEPT ![t] = idx[t]]

\* unlock_for_nondeletion() on the old candidate; best_index = i.
ChangeBest(t) ==
    /\ mutex' = [s \in Slots |-> IF s = best[t] THEN Nobody ELSE mutex[s]]
    /\ best' = [best EXCEPT ![t] = idx[t]]

\* The move assignment forgets the dataset it overwrites.
HandlesKept(s) == handles

\* close() in the move assignment onto a slot.
HandlesAfterClose(s) == IF s \in Occupied THEN handles - 2 ELSE handles

-------------------------------------------------------------------------------
(* get(): the search under the read lock. *)

Get(t, k, n) ==
    /\ pc[t] = "idle"
    /\ key' = [key EXCEPT ![t] = k]
    /\ copies' = [copies EXCEPT ![t] = n]
    /\ Goto(t, "rdlock")
    /\ UNCHANGED <<slotVars, lockVars, cacheVars, held, idx, best, want, stamp, cur>>

\* The lock prefers readers: a waiting writer does not hold a reader back.
RdLock(t) ==
    /\ pc[t] = "rdlock"
    /\ writer = Nobody
    /\ readers' = readers \cup {t}
    /\ idx' = [idx EXCEPT ![t] = 1]
    /\ Goto(t, "find")
    /\ UNCHANGED <<slotVars, writer, cacheVars, key, copies, held, best, want, stamp, cur>>

\* A matching slot is referenced and listed, and draws its access time ...
FindHit(t) ==
    /\ pc[t] = "find"
    /\ idx[t] \in Slots
    /\ Matches(idx[t], key[t])
    /\ List(t, idx[t])
    /\ time' = Tick(time)
    /\ stamp' = [stamp EXCEPT ![t] = Tick(time)]
    /\ Goto(t, "stamp")
    /\ UNCHANGED <<tag, atime, uri, mutex, lockVars, size, handles,
                   key, copies, idx, best, want, cur>>

\* ... which is stored by a separate atomic step: another reader may have
\* stored a later one in between.
Stamp(t) ==
    /\ pc[t] = "stamp"
    /\ atime' = [atime EXCEPT ![idx[t]] = stamp[t]]
    /\ stamp' = [stamp EXCEPT ![t] = 0]
    /\ idx' = [idx EXCEPT ![t] = @ + 1]
    /\ Goto(t, "find")
    /\ UNCHANGED <<tag, uri, mutex, use, lockVars, cacheVars,
                   key, copies, held, best, want, cur>>

FindMiss(t) ==
    /\ pc[t] = "find"
    /\ idx[t] \in Slots
    /\ ~Matches(idx[t], key[t])
    /\ idx' = [idx EXCEPT ![t] = @ + 1]
    /\ UNCHANGED <<slotVars, lockVars, cacheVars, pc,
                   key, copies, held, best, want, stamp, cur>>

\* copies2: what get() insists on, whatever `copies` is.
HardRequest(n) == IF n < 0 THEN 1 ELSE n

\* The end of the search decides how many datasets to insert, and how.
AfterFind(t) ==
    LET n     == copies[t]
        found == Cardinality(held[t])
    IN  \/ /\ found < HardRequest(n)
           /\ want' = [want EXCEPT ![t] = HardRequest(n) - found]
           /\ Goto(t, "wrlock")
        \/ /\ found >= HardRequest(n)
           /\ n <= 0 /\ found < -n
           /\ want' = [want EXCEPT ![t] = -n - found]
           /\ Goto(t, "trywrlock")
        \/ /\ found >= HardRequest(n)
           /\ ~(n <= 0 /\ found < -n)
           /\ Goto(t, "got")
           /\ UNCHANGED want

RdUnlock(t) ==
    /\ pc[t] = "find"
    /\ idx[t] \notin Slots
    /\ readers' = readers \ {t}
    /\ AfterFind(t)
    /\ idx' = [idx EXCEPT ![t] = 0]
    /\ copies' = [copies EXCEPT ![t] = 0]
    /\ UNCHANGED <<slotVars, writer, cacheVars, key, held, best, stamp, cur>>

-------------------------------------------------------------------------------
(* get() and insert(): the insertions under the write lock. *)

CacheLockFree == writer = Nobody /\ readers = {}

WrLock(t) ==
    /\ pc[t] = "wrlock"
    /\ CacheLockFree
    /\ writer' = t
    /\ Goto(t, "insert")
    /\ UNCHANGED <<slotVars, readers, cacheVars, getVars, cur>>

TryWrLockSucceeds(t) ==
    /\ pc[t] = "trywrlock"
    /\ CacheLockFree
    /\ writer' = t
    /\ Goto(t, "insert")
    /\ UNCHANGED <<slotVars, readers, cacheVars, getVars, cur>>

TryWrLockFails(t) ==
    /\ pc[t] = "trywrlock"
    /\ ~CacheLockFree
    /\ want' = [want EXCEPT ![t] = 0]
    /\ Goto(t, "got")
    /\ UNCHANGED <<slotVars, lockVars, cacheVars, key, copies, held, idx, best, stamp, cur>>

\* The loop of get() over insert().
InsertBegins(t) ==
    /\ pc[t] = "insert"
    /\ MoreWanted(t)
    /\ idx' = [idx EXCEPT ![t] = 1]
    /\ best' = [best EXCEPT ![t] = 0]
    /\ Goto(t, "scan")
    /\ UNCHANGED <<slotVars, lockVars, cacheVars, key, copies, held, want, stamp, cur>>

WrUnlock(t) ==
    /\ pc[t] = "insert"
    /\ ~MoreWanted(t)
    /\ writer' = Nobody
    /\ Goto(t, "got")
    /\ UNCHANGED <<slotVars, readers, cacheVars, getVars, cur>>

\* lock_for_deletion() is only tried on a slot that beats the candidate.
ScanSkips(t) ==
    /\ pc[t] = "scan"
    /\ idx[t] \in Slots
    /\ ~(IsOlder(t) /\ MutexFree(idx[t]))
    /\ idx' = [idx EXCEPT ![t] = @ + 1]
    /\ UNCHANGED <<slotVars, lockVars, cacheVars, pc,
                   key, copies, held, best, want, stamp, cur>>

\* The trylock of lock_for_deletion(), and then its look at the use count.
ScanLocks(t) ==
    /\ pc[t] = "scan"
    /\ idx[t] \in Slots
    /\ IsOlder(t)
    /\ MutexFree(idx[t])
    /\ mutex' = [mutex EXCEPT ![idx[t]] = t]
    /\ Goto(t, "check")
    /\ UNCHANGED <<tag, atime, uri, use, lockVars, cacheVars, getVars, cur>>

CheckUsed(t) ==
    /\ pc[t] = "check"
    /\ ~Unused(idx[t])
    /\ mutex' = [mutex EXCEPT ![idx[t]] = Nobody]
    /\ idx' = [idx EXCEPT ![t] = @ + 1]
    /\ Goto(t, "scan")
    /\ UNCHANGED <<tag, atime, uri, use, lockVars, cacheVars,
                   key, copies, held, best, want, stamp, cur>>

\* The candidate it replaces is unlocked (unlock_for_nondeletion).
CheckUnused(t) ==
    /\ pc[t] = "check"
    /\ Unused(idx[t])
    /\ ChangeBest(t)
    /\ idx' = [idx EXCEPT ![t] = @ + 1]
    /\ Goto(t, "scan")
    /\ UNCHANGED <<tag, atime, uri, use, lockVars, cacheVars,
                   key, copies, held, want, stamp, cur>>

\* insert() answers nullptr: every slot is in use, locked, or too recent.
NoVictim(t) ==
    /\ pc[t] = "scan"
    /\ idx[t] \notin Slots
    /\ best[t] = 0
    /\ GiveUp(t)
    /\ idx' = [idx EXCEPT ![t] = 0]
    /\ Goto(t, "insert")
    /\ UNCHANGED <<slotVars, lockVars, cacheVars, key, copies, held, best, stamp, cur>>

VictimFound(t) ==
    /\ pc[t] = "scan"
    /\ idx[t] \notin Slots
    /\ best[t] # 0
    /\ idx' = [idx EXCEPT ![t] = 0]
    /\ Goto(t, "open")
    /\ UNCHANGED <<slotVars, lockVars, cacheVars, key, copies, held, best, want, stamp, cur>>

\* locked_dataset(key) calls open(): both GDAL datasets are opened.
OpenSucceeds(t) ==
    /\ pc[t] = "open"
    /\ "open" \in OpenOutcomes
    /\ handles' = handles + 2
    /\ Goto(t, "publish")
    /\ UNCHANGED <<slotVars, lockVars, time, size, getVars, cur>>

\* open() fails with neither dataset open ("none"), or with only the source
\* one: GDALWarp answered null, and the test that should notice looks at the
\* source; close() then does nothing, as valid() is false ("half").  insert()
\* answers nullptr, and does not unlock the slot it had chosen.
OpenFails(t) ==
    /\ pc[t] = "open"
    /\ \/ "none" \in OpenOutcomes /\ UNCHANGED handles
       \/ "half" \in OpenOutcomes /\ handles < MaxHandles /\ handles' = handles + 1
    /\ GiveUp(t)
    /\ best' = [best EXCEPT ![t] = 0]
    /\ Goto(t, "insert")
    /\ UNCHANGED <<slotVars, lockVars, time, size, key, copies, held, idx, stamp, cur>>

\* The tag and the access time of the slot ...
Publish(t) ==
    /\ pc[t] = "publish"
    /\ tag' = [tag EXCEPT ![best[t]] = Hash[key[t]]]
    /\ time' = Tick(time)
    /\ atime' = [atime EXCEPT ![best[t]] = Tick(time)]
    /\ Goto(t, "replace")
    /\ UNCHANGED <<uri, mutex, use, lockVars, size, handles, getVars, cur>>

\* ... and the move assignment: close() the old dataset, take over the new
\* one, UNLOCK; then m_size++, seen through size() = min(m_capacity, m_size).
Replace(t) ==
    /\ pc[t] = "replace"
    /\ handles' = HandlesAfterClose(best[t])
    /\ uri' = [uri EXCEPT ![best[t]] = key[t]]
    /\ mutex' = [mutex EXCEPT ![best[t]] = Nobody]
    /\ size' = IF size < Capacity THEN size + 1 ELSE size
    /\ Goto(t, "take")
    /\ UNCHANGED <<tag, atime, use, lockVars, time, getVars, cur>>

\* Back in get(): ld->inc() and push_back.
Take(t) ==
    /\ pc[t] = "take"
    /\ List(t, best[t])
    /\ want' = [want EXCEPT ![t] = @ - 1]
    /\ best' = [best EXCEPT ![t] = 0]
    /\ Goto(t, "insert")
    /\ UNCHANGED <<tag, atime, uri, mutex, lockVars, cacheVars,
                   key, copies, idx, stamp, cur>>

-------------------------------------------------------------------------------
(* The users of the datasets. *)

\* TRYLOCK, on a dataset of the return list; a failure returns DATASET_LOCKED
\* and leaves everything as it is.
OpTryLock(t, s) ==
    /\ pc[t] = "got" /\ s \in held[t] /\ "locked" \in Ops
    /\ MutexFree(s)
    /\ mutex' = [mutex EXCEPT ![s] = t]
    /\ cur' = [cur EXCEPT ![t] = s]
    /\ Goto(t, "op")
    /\ UNCHANGED <<tag, atime, uri, use, lockVars, cacheVars, getVars>>

\* get_pixels: GDALGetRasterBand on the dataset, and only then TRYLOCK.
PixelsBand(t, s) ==
    /\ pc[t] = "got" /\ s \in held[t] /\ "pixels" \in Ops
    /\ cur' = [cur EXCEPT ![t] = s]
    /\ Goto(t, "peek")
    /\ UNCHANGED <<slotVars, lockVars, cacheVars, getVars>>

PixelsLocks(t) ==
    /\ pc[t] = "peek"
    /\ MutexFree(cur[t])
    /\ mutex' = [mutex EXCEPT ![cur[t]] = t]
    /\ Goto(t, "op")
    /\ UNCHANGED <<tag, atime, uri, use, lockVars, cacheVars, getVars, cur>>

PixelsRefused(t) ==
    /\ pc[t] = "peek"
    /\ ~MutexFree(cur[t])
    /\ cur' = [cur EXCEPT ![t] = 0]
    /\ Goto(t, "got")
    /\ UNCHANGED <<slotVars, lockVars, cacheVars, getVars>>

\* The GDAL call is over: UNLOCK.
OpUnlock(t) ==
    /\ pc[t] = "op"
    /\ mutex' = [mutex EXCEPT ![cur[t]] = Nobody]
    /\ cur' = [cur EXCEPT ![t] = 0]
    /\ Goto(t, "got")
    /\ UNCHANGED <<tag, atime, uri, use, lockVars, cacheVars, getVars>>

\* dec(), once per dataset of the return list, under no lock.
Dec(t, s) ==
    /\ pc[t] = "got" /\ s \in held[t]
    /\ use' = [use EXCEPT ![s] = @ - 1]
    /\ held' = [held EXCEPT ![t] = @ \ {s}]
    /\ UNCHANGED <<tag, atime, uri, mutex, lockVars, cacheVars, pc,
                   key, copies, idx, best, want, stamp, cur>>

\* The return list goes out of scope.
Return(t) ==
    /\ pc[t] = "got"
    /\ held[t] = {}
    /\ key' = [key EXCEPT ![t] = NoKey]
    /\ Goto(t, "idle")
    /\ UNCHANGED <<slotVars, lockVars, cacheVars, copies, held, idx, best, want, stamp, cur>>

\* clear(), called while nobody is inside.  The result of lock_for_deletion()
\* is ignored, and the UNLOCK of the move assignment releases a mutex only for
\* its owner: an errorcheck mutex refuses anyone else.
Clear(t) ==
    /\ \A u \in Threads : pc[u] = "idle"
    /\ tag' = [s \in Slots |-> 0]
    /\ atime' = [s \in Slots |-> 0]
    /\ uri' = [s \in Slots |-> NoKey]
    /\ mutex' = [s \in Slots |-> IF mutex[s] = t THEN Nobody ELSE mutex[s]]
    /\ size' = 0
    /\ handles' = handles - 2 * Cardinality(Occupied)
    /\ UNCHANGED <<use, lockVars, time, getVars, pc, cur>>

-------------------------------------------------------------------------------

\* The steps a thread takes by itself once it is inside get().
GetStep(t) ==
    \/ FindHit(t) \/ Stamp(t) \/ FindMiss(t) \/ RdUnlock(t)
    \/ TryWrLockSucceeds(t) \/ TryWrLockFails(t)
    \/ InsertBegins(t) \/ WrUnlock(t)
    \/ ScanSkips(t) \/ ScanLocks(t) \/ CheckUsed(t) \/ CheckUnused(t)
    \/ NoVictim(t) \/ VictimFound(t)
    \/ OpenSucceeds(t) \/ OpenFails(t)
    \/ Publish(t) \/ Replace(t) \/ Take(t)

UseStep(t) ==
    \/ \E s \in Slots : OpTryLock(t, s) \/ PixelsBand(t, s) \/ Dec(t, s)
    \/ PixelsLocks(t) \/ PixelsRefused(t) \/ OpUnlock(t)
    \/ Return(t)

ThreadStep(t) ==
    \/ \E k \in Keys, n \in Copies : Get(t, k, n)
    \/ RdLock(t) \/ WrLock(t) \/ GetStep(t)
    \/ UseStep(t)
    \/ Clear(t)

Next == \E t \in Threads : ThreadStep(t)

Spec == Init /\ [][Next]_vars

-------------------------------------------------------------------------------
(* What makes the cache correct. *)

\* The use count of a slot is the number of threads that list it: no reference
\* is lost, counted twice or given back twice, in any order of get(), insert()
\* and the unlocked dec() (inc, dec, m_use_count).
RefCountExact ==
    \A s \in Slots : use[s] = Cardinality({t \in Threads : s \in held[t]})

\* A dataset somebody still lists is the one that was asked for: it is not
\* evicted, replaced or retagged under its users, whoever else inserts.
HeldMatches ==
    \A t \in Threads : \A s \in held[t] :
        uri[s] = key[t] /\ tag[s] = Hash[key[t]]

\* While insert() rewrites a slot, the slot is its own: it holds the mutex,
\* nobody has a reference, and nobody is inside a GDAL call on the dataset.
VictimReserved ==
    \A t \in Threads :
        pc[t] \in {"open", "publish", "replace"} =>
            /\ mutex[best[t]] = t
            /\ use[best[t]] = 0
            /\ \A u \in Threads : cur[u] # best[t]

\* No dataset is inside two GDAL calls made under its lock (TRYLOCK, UNLOCK).
OpExclusive ==
    \A t, u \in Threads :
        t # u /\ pc[t] = "op" /\ pc[u] = "op" => cur[t] # cur[u]

\* As long as every open succeeds, a dataset's mutex is held only by a thread
\* that is on its way to releasing it: insert() gives back every candidate it
\* locked, and each user the dataset it used.
NoStrandedLock ==
    \A s \in Slots : \A t \in Threads :
        mutex[s] = t =>
            \/ pc[t] = "op" /\ cur[t] = s
            \/ pc[t] = "check" /\ idx[t] = s
            \/ pc[t] \in {"scan", "check", "open", "publish", "replace"} /\ best[t] = s

\* The process has two GDAL datasets open per occupied slot, and two more while
\* insert() holds a new one (open, close, the move assignment).
HandlesAccounted ==
    handles = 2 * Cardinality(Occupied)
              + 2 * Cardinality({t \in Threads : pc[t] \in {"publish", "replace"}})

\* size() is the number of items in the cache (the comment above it).
SizeIsOccupancy ==
    writer = Nobody => size = Cardinality(Occupied)

\* Once nobody is inside and nobody holds a reference, lock_for_deletion()
\* answers true for every slot: "unused and safe to delete".
UnusedIsLockable ==
    (\A t \in Threads : pc[t] = "idle") =>
        \A s \in Slots : use[s] = 0 /\ mutex[s] = Nobody

\* No dataset is used by two threads at once, the lookup of the band included.
OneUserPerDataset ==
    \A t, u \in Threads :
        t # u /\ pc[t] \in InOp /\ pc[u] \in InOp => cur[t] # cur[u]

\* The clock has not shown its largest value yet, so it has not wrapped: 2^64 - 1
\* lookups and insertions since the cache was made.
BeforeWrap == time < MaxTime

\* Before the clock wraps, insert() does not evict a dataset while a slot is
\* empty, whatever the readers do to the access times meanwhile.
EmptyFirst ==
    \A t \in Threads :
        pc[t] \in {"open", "publish"} /\ best[t] \in Occupied =>
            Occupied = Slots

\* The victim is the least recently used of the datasets without users, by the
\* access times, which are in the order of use until the clock wraps.  (A user that
\* gives its dataset back while the scan is past it is too late for this insertion;
\* one that waits to insert cannot do so.)
VictimIsLRU ==
    \A t \in Threads :
        /\ pc[t] = "open"
        /\ \A u \in Threads \ {t} : pc[u] \in {"wrlock", "trywrlock"}
        => \A s \in Slots : use[s] = 0 => atime[best[t]] <= atime[s]

\* Threads that ask for one dataset of a key race between the read lock and the
\* write lock of get(), and may open it once each; never more than that.
OneCopyEach ==
    \A k \in Keys : Count(k) <= Cardinality(Threads)

\* How far a thread inside get() is from its end: the insertions to come, each
\* with its scan, and what is left of the loop it is in.  (At most: a soft request
\* may be dropped, and a scan passes most slots in one step.)
RoundsLeft(place, n, w) ==
    IF place \in {"rdlock", "find", "stamp"} THEN IF n < 0 THEN -n ELSE n
    ELSE IF place \in {"wrlock", "trywrlock", "insert"} THEN w ELSE w - 1

RoundLeft(place, i) ==
    LET slots == 2 * (Capacity + 1 - i)
    IN  CASE place = "rdlock"    -> 2 * Capacity + 4
          [] place = "find"      -> slots + 3
          [] place = "stamp"     -> slots + 2
          [] place = "wrlock"    -> 2
          [] place = "trywrlock" -> 2
          [] place = "insert"    -> 1
          [] place = "scan"      -> slots + 6
          [] place = "check"     -> slots + 5
          [] place = "open"      -> 5
          [] place = "publish"   -> 4
          [] place = "replace"   -> 3
          [] place = "take"      -> 2

Left(t) ==
    IF pc[t] \in InGet
    THEN RoundsLeft(pc[t], copies[t], want[t]) * (2 * Capacity + 6) + RoundLeft(pc[t], idx[t])
    ELSE 0

\* Every step of a thread inside get() brings it nearer to its end, whatever was
\* locked, in use or failed to open, and no step of another thread sets it back:
\* once it is let in, it holds the cache's lock for so many steps and no more.
GetNearsItsEnd ==
    [][\A t \in Threads :
           pc[t] \in InGet =>
               \/ Left(t)' \in Nat /\ Left(t)' < Left(t)
               \/ pc'[t] = pc[t] /\ Left(t)' = Left(t)]_vars

\* The cache as its users see it: the copies are the slots, and the search and
\* the insertions of get() are the phase in which a thread asks.
PhaseOf(l) == IF l = "idle" THEN "out" ELSE IF l \in InGet THEN "asking" ELSE "using"

Pool == INSTANCE DatasetPool WITH
    Copies  <- Slots,
    content <- uri,
    phase   <- [t \in Threads |-> PhaseOf(pc[t])],
    asked   <- key,
    listed  <- held,
    inUse   <- [t \in Threads |-> IF pc[t] = "op" THEN {cur[t]} ELSE {}]

\* The cache is a pool of copies that only their users change hands of: whatever
\* the locks, counts, tags and atimes do, a dataset in somebody's list is the one
\* asked for and is neither recycled nor worked on by two threads (get, insert,
\* TRYLOCK, dec), and no step hands out, replaces or takes back anything else.
PoolImplemented == Pool!Spec

\* get() returns, though users may keep references and mutexes for ever.
GetReturns ==
    \A t \in Threads : pc[t] \in InGet ~> pc[t] = "got"
===============================================================================
