------------------------------ MODULE TokenStore ------------------------------
(***************************************************************************)
(* What the token half of the library promises (tokens.cpp): a store that  *)
(* every call reads or changes in one step.  get_token answers a token that *)
(* had no meaning, and gives it one; query_token answers the meaning of a   *)
(* token, if it has one.  The store is finite, so it may forget a token     *)
(* whenever it learns another; it never changes the meaning of one.  Only   *)
(* init, which is not called during a call, makes it forget them all.       *)
(***************************************************************************)
CONSTANTS
    Threads,    \* the callers
    Tokens,     \* the values of a token_t
    BadToken,   \* BAD_TOKEN: the one that never has a meaning
    Pairs,      \* the (uri, options) pairs
    NoPair,     \* the answer for a token without a meaning
    Pending     \* the answer of a call that has none yet

VARIABLES
    means,      \* the pair of each token
    req,        \* per thread: the call it is in
    ans         \* per thread: the answer of that call

storeVars == <<means, req, ans>>

NoRequest == [op |-> "none"]
Requests == [op : {"get"}, pair : Pairs] \cup [op : {"query"}, token : Tokens]

Init ==
    /\ means = [k \in Tokens |-> NoPair]
    /\ req = [t \in Threads |-> NoRequest]
    /\ ans = [t \in Threads |-> Pending]

Ask(t) ==
    /\ req[t] = NoRequest
    /\ \E r \in Requests : req' = [req EXCEPT ![t] = r]
    /\ UNCHANGED <<means, ans>>

\* The token is fresh, and at most one other token is forgotten.
Issue(t) ==
    /\ req[t].op = "get" /\ ans[t] = Pending
    /\ \E k \in Tokens \ {BadToken}, lost \in SUBSET Tokens :
           /\ means[k] = NoPair
           /\ k \notin lost /\ \A i, j \in lost : i = j
           /\ means' = [j \in Tokens |-> IF j = k THEN req[t].pair
                                         ELSE IF j \in lost THEN NoPair ELSE means[j]]
           /\ ans' = [ans EXCEPT ![t] = k]
    /\ UNCHANGED req

Resolve(t) ==
    /\ req[t].op = "query" /\ ans[t] = Pending
    /\ ans' = [ans EXCEPT ![t] = means[req[t].token]]
    /\ UNCHANGED <<means, req>>

Reply(t) ==
    /\ ans[t] # Pending
    /\ req' = [req EXCEPT ![t] = NoRequest]
    /\ ans' = [ans EXCEPT ![t] = Pending]
    /\ UNCHANGED means

\* The library is initialized again.
ForgetAll ==
    /\ \A t \in Threads : req[t] = NoRequest
    /\ means' = [k \in Tokens |-> NoPair]
    /\ UNCHANGED <<req, ans>>

Next ==
    \/ ForgetAll
    \/ \E t \in Threads : Ask(t) \/ Issue(t) \/ Resolve(t) \/ Reply(t)

Spec == Init /\ [][Next]_storeVars
===============================================================================
