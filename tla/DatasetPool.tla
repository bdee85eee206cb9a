------------------------------ MODULE DatasetPool ------------------------------
(***************************************************************************)
(* What the cache of datasets promises its users (flat_lru_cache.hpp): a   *)
(* pool of copies.  A thread that asks for a dataset is delivered copies   *)
(* of it, works on one at a time and on no copy that another works on, and *)
(* gives each one back.  A copy is made something else only while nobody   *)
(* has it, and only into what some asking thread wants; until then it stays *)
(* what its users asked for.  Locks, counts, hashes and the choice of the  *)
(* victim are how the cache keeps the promise and do not appear here.      *)
(***************************************************************************)
EXTENDS FiniteSets

CONSTANTS
    Threads,    \* the users
    Copies,     \* the places of the pool
    Keys,       \* what may be asked for
    NoKey       \* what a thread that asks for nothing asks for; an empty copy

VARIABLES
    content,    \* what each copy is a copy of
    phase,      \* per thread: "out", "asking" or "using"
    asked,      \* per thread: what it asked for
    listed,     \* per thread: the copies it was delivered and has not given back
    inUse       \* per thread: the set of (at most one) copies it works on

poolVars == <<content, phase, asked, listed, inUse>>

Init ==
    /\ content = [c \in Copies |-> NoKey]
    /\ phase = [t \in Threads |-> "out"]
    /\ asked = [t \in Threads |-> NoKey]
    /\ listed = [t \in Threads |-> {}]
    /\ inUse = [t \in Threads |-> {}]

Ask(t) ==
    /\ phase[t] = "out"
    /\ phase' = [phase EXCEPT ![t] = "asking"]
    /\ \E k \in Keys : asked' = [asked EXCEPT ![t] = k]
    /\ UNCHANGED <<content, listed, inUse>>

Deliver(t, c) ==
    /\ phase[t] = "asking"
    /\ content[c] = asked[t] /\ c \notin listed[t]
    /\ listed' = [listed EXCEPT ![t] = @ \cup {c}]
    /\ UNCHANGED <<content, phase, asked, inUse>>

\* Nobody has the copy.
Idle(c) == \A t \in Threads : c \notin listed[t] \cup inUse[t]

Recycle(t, c) ==
    /\ phase[t] = "asking"
    /\ Idle(c)
    /\ content' = [content EXCEPT ![c] = asked[t]]
    /\ UNCHANGED <<phase, asked, listed, inUse>>

Delivered(t) ==
    /\ phase[t] = "asking"
    /\ phase' = [phase EXCEPT ![t] = "using"]
    /\ UNCHANGED <<content, asked, listed, inUse>>

Use(t, c) ==
    /\ phase[t] = "using"
    /\ c \in listed[t] /\ inUse[t] = {}
    /\ \A u \in Threads : c \notin inUse[u]
    /\ inUse' = [inUse EXCEPT ![t] = {c}]
    /\ UNCHANGED <<content, phase, asked, listed>>

Finish(t) ==
    /\ inUse[t] # {}
    /\ inUse' = [inUse EXCEPT ![t] = {}]
    /\ UNCHANGED <<content, phase, asked, listed>>

GiveBack(t, c) ==
    /\ phase[t] = "using"
    /\ c \in listed[t] /\ inUse[t] = {}
    /\ listed' = [listed EXCEPT ![t] = @ \ {c}]
    /\ UNCHANGED <<content, phase, asked, inUse>>

Leave(t) ==
    /\ phase[t] = "using"
    /\ listed[t] = {} /\ inUse[t] = {}
    /\ phase' = [phase EXCEPT ![t] = "out"]
    /\ asked' = [asked EXCEPT ![t] = NoKey]
    /\ UNCHANGED <<content, listed, inUse>>

Empty ==
    /\ \A t \in Threads : phase[t] = "out"
    /\ content' = [c \in Copies |-> NoKey]
    /\ UNCHANGED <<phase, asked, listed, inUse>>

Next ==
    \/ Empty
    \/ \E t \in Threads :
           \/ Ask(t) \/ Delivered(t) \/ Finish(t) \/ Leave(t)
           \/ \E c \in Copies : Deliver(t, c) \/ Recycle(t, c) \/ Use(t, c) \/ GiveBack(t, c)

Spec == Init /\ [][Next]_poolVars
===============================================================================
