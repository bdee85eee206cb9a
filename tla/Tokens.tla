-------------------------------- MODULE Tokens --------------------------------
(***************************************************************************)
(* Tokens (tokens.cpp).  A token stands for a (uri, options) pair and is    *)
(* kept in a cache of limited size that forgets the least recently used     *)
(* one; every get_token begins with the same candidate and draws random     *)
(* ones until it has one that is not in the cache.  One mutex guards the    *)
(* cache; a step below is what a thread does between two points at which    *)
(* another could interfere if that mutex did not hold it back.              *)
(*                                                                         *)
(* The paths on which pthread_mutex_lock fails are left out: an errorcheck  *)
(* mutex refuses only its owner, and no thread locks it twice.              *)
(***************************************************************************)
EXTENDS Naturals, Sequences, FiniteSets

CONSTANTS
    Threads, Nobody, Tokens, BadToken, Pairs, NoPair, Pending,
    FirstToken,     \* the candidate every get_token begins with
    Size            \* the capacity of the cache of tokens

ASSUME TokensAssumption ==
    /\ Nobody \notin Threads
    /\ {BadToken, FirstToken} \subseteq Tokens /\ BadToken # FirstToken
    /\ NoPair \notin Pairs /\ Pending \notin Tokens \cup Pairs \cup {NoPair}
    /\ Size \in Nat \ {0}

VARIABLES
    list,       \* the tokens of the cache, the most recently used one first
    means,      \* the pair of each token
    owner,      \* token_lock
    pc, cand,   \* per thread: where it is, and the token it considers
    req, ans,   \* per thread: the call it is in, and the answer of that call
    \* History, since init: the pair a token was issued for last, and the tokens
    \* used since it was issued or found last.
    given, since

cache  == <<list, means, given, since>>
calls  == <<req, ans>>
tkVars == <<cache, owner, pc, cand, calls>>

NoRequest == [op |-> "none"]
Requests == [op : {"get"}, pair : Pairs] \cup [op : {"query"}, token : Tokens]

TkTypeOK ==
    /\ list \in Seq(Tokens) /\ Len(list) <= Size
    /\ means \in [Tokens -> Pairs \cup {NoPair}]
    /\ \A k \in Tokens : means[k] # NoPair <=> \E i \in 1..Len(list) : list[i] = k
    /\ owner \in Threads \cup {Nobody}
    /\ pc \in [Threads -> {"idle", "lock", "choose", "insert", "lookup", "unlock", "done"}]
    /\ cand \in [Threads -> Tokens]
    /\ req \in [Threads -> Requests \cup {NoRequest}]
    /\ ans \in [Threads -> Tokens \cup Pairs \cup {NoPair, Pending}]
    /\ given \in [Tokens -> Pairs \cup {NoPair}]
    /\ since \in [Tokens -> SUBSET Tokens]

TkInit ==
    /\ list = <<>>
    /\ means = [k \in Tokens |-> NoPair]
    /\ owner = Nobody
    /\ pc = [t \in Threads |-> "idle"]
    /\ cand = [t \in Threads |-> BadToken]
    /\ req = [t \in Threads |-> NoRequest]
    /\ ans = [t \in Threads |-> Pending]
    /\ given = [k \in Tokens |-> NoPair]
    /\ since = [k \in Tokens |-> {}]

Goto(t, l) == pc' = [pc EXCEPT ![t] = l]

-------------------------------------------------------------------------------
(* Bugs this code could have had, each before the definition it is a faulty  *)
(* form of; no action uses them.                                             *)

\* token_lock is not taken.
LockIgnored == TRUE

\* token_lock is free.
LockFree == owner = Nobody

\* !(cache->contains(token) || token == BAD_TOKEN).
Usable(k) == means[k] = NoPair /\ k # BadToken

\* The cache of tokens has no limit.
KeepsAll == Len(list)

\* How many tokens of the list insert() keeps: all but the last of a full cache.
Kept == IF Len(list) < Size THEN Len(list) ELSE Len(list) - 1

\* insert() puts the new token in front of these.
Inserted(k) == <<k>> \o SubSeq(list, 1, Kept)

\* A token that is found stays where it is in the list.
FoundInPlace(k) == list

\* get() moves the token it finds to the front.
Found(k) ==
    LET p == CHOOSE i \in 1..Len(list) : list[i] = k
    IN  <<k>> \o (SubSeq(list, 1, p - 1) \o SubSeq(list, p + 1, Len(list)))

-------------------------------------------------------------------------------

\* get_token, up to the mutex.
GetToken(t, p) ==
    /\ pc[t] = "idle"
    /\ req' = [req EXCEPT ![t] = [op |-> "get", pair |-> p]]
    /\ cand' = [cand EXCEPT ![t] = FirstToken]
    /\ Goto(t, "lock")
    /\ UNCHANGED <<cache, owner, ans>>

\* query_token, up to the mutex.
QueryToken(t, k) ==
    /\ pc[t] = "idle"
    /\ req' = [req EXCEPT ![t] = [op |-> "query", token |-> k]]
    /\ cand' = [cand EXCEPT ![t] = k]
    /\ Goto(t, IF k = BadToken THEN "lookup" ELSE "lock")
    /\ UNCHANGED <<cache, owner, ans>>

\* BAD_TOKEN is answered without the mutex.
QueryBad(t) ==
    /\ pc[t] = "lookup" /\ cand[t] = BadToken
    /\ ans' = [ans EXCEPT ![t] = NoPair]
    /\ Goto(t, "done")
    /\ UNCHANGED <<cache, owner, cand, req>>

Lock(t) ==
    /\ pc[t] = "lock"
    /\ LockFree
    /\ owner' = t
    /\ Goto(t, IF req[t].op = "get" THEN "choose" ELSE "lookup")
    /\ UNCHANGED <<cache, cand, calls>>

\* generate_token() may draw any token, BAD_TOKEN and the used ones included.
Redraw(t, k) ==
    /\ pc[t] = "choose"
    /\ ~Usable(cand[t])
    /\ cand' = [cand EXCEPT ![t] = k]
    /\ UNCHANGED <<cache, owner, pc, calls>>

Chosen(t) ==
    /\ pc[t] = "choose"
    /\ Usable(cand[t])
    /\ Goto(t, "insert")
    /\ UNCHANGED <<cache, owner, cand, calls>>

\* Token k has been used.
Used(k) ==
    since' = [j \in Tokens |-> IF j = k THEN {} ELSE since[j] \cup {k}]

\* The token at the end of a full cache.
Evicted == {list[i] : i \in (Kept + 1)..Len(list)}

\* cache->insert(), which does nothing for a token that is there.
Insert(t) ==
    LET k == cand[t]
    IN  /\ pc[t] = "insert"
        /\ IF means[k] = NoPair
           THEN /\ list' = Inserted(k)
                /\ means' = [j \in Tokens |-> IF j = k THEN req[t].pair
                                              ELSE IF j \in Evicted THEN NoPair
                                              ELSE means[j]]
           ELSE UNCHANGED <<list, means>>
        /\ given' = [given EXCEPT ![k] = req[t].pair]
        /\ Used(k)
        /\ ans' = [ans EXCEPT ![t] = k]
        /\ Goto(t, "unlock")
        /\ UNCHANGED <<owner, cand, req>>

\* cache->get().
Lookup(t) ==
    LET k == cand[t]
    IN  /\ pc[t] = "lookup" /\ k # BadToken
        /\ ans' = [ans EXCEPT ![t] = means[k]]
        /\ IF means[k] = NoPair
           THEN UNCHANGED <<list, since>>
           ELSE list' = Found(k) /\ Used(k)
        /\ Goto(t, "unlock")
        /\ UNCHANGED <<means, given, owner, cand, req>>

Unlock(t) ==
    /\ pc[t] = "unlock"
    /\ owner' = Nobody
    /\ Goto(t, "done")
    /\ UNCHANGED <<cache, cand, calls>>

Answered(t) ==
    /\ pc[t] = "done"
    /\ req' = [req EXCEPT ![t] = NoRequest]
    /\ ans' = [ans EXCEPT ![t] = Pending]
    /\ cand' = [cand EXCEPT ![t] = BadToken]
    /\ Goto(t, "idle")
    /\ UNCHANGED <<cache, owner>>

\* token_deinit and token_init, while nobody is inside: the tokens that callers
\* have mean nothing any more, and the first of them is the next to be issued.
Reinit ==
    /\ \A t \in Threads : pc[t] = "idle"
    /\ list' = <<>>
    /\ means' = [k \in Tokens |-> NoPair]
    /\ owner' = Nobody
    /\ given' = [k \in Tokens |-> NoPair]
    /\ since' = [k \in Tokens |-> {}]
    /\ UNCHANGED <<pc, cand, calls>>

TokenStep(t) ==
    \/ QueryBad(t) \/ Chosen(t) \/ Insert(t) \/ Lookup(t) \/ Unlock(t) \/ Answered(t)

TkNext ==
    \/ Reinit
    \/ \E t \in Threads :
           \/ \E p \in Pairs : GetToken(t, p)
           \/ \E k \in Tokens : QueryToken(t, k) \/ Redraw(t, k)
           \/ Lock(t) \/ TokenStep(t)

TkSpec == TkInit /\ [][TkNext]_tkVars

-------------------------------------------------------------------------------
(* What makes the tokens correct. *)

Store == INSTANCE TokenStore WITH means <- means, req <- req, ans <- ans

\* Whatever the order of the steps of get_token and query_token, each call looks
\* like one step on a store: tokens are issued fresh, resolve to the pair they
\* were issued for, and the cache forgets at most one for each it learns, and all
\* of them only at init, while no call is under way.
StoreImplemented == Store!Spec

\* A token that was issued or found less than Size other tokens ago resolves, and
\* to the pair it was issued for last: a caller that keeps using its token keeps
\* it, and nobody else is given it meanwhile.
RecentlyUsedResolves ==
    \A k \in Tokens :
        given[k] # NoPair /\ Cardinality(since[k]) < Size => means[k] = given[k]
===============================================================================
