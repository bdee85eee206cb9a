----------------------------- MODULE TokensProofs -----------------------------
(***************************************************************************)
(* The tokens (Tokens) for every number of callers, tokens, pairs and       *)
(* places in the cache: types, what a caller may rely on, and that each     *)
(* call is one step on a store (TokenStore).                                *)
(***************************************************************************)
EXTENDS Tokens, FiniteSetTheorems, SequenceTheorems, FunctionTheorems, TLAPS

GetRequests   == [op : {"get"}, pair : Pairs]
QueryRequests == [op : {"query"}, token : Tokens]

-------------------------------------------------------------------------------
(* The list, and what insert() and get() make of it. *)

\* The cache is never larger than its capacity, and lists each token once.
ListOK ==
    /\ list \in Seq(Tokens) /\ Len(list) <= Size
    /\ \A i, j \in 1..Len(list) : list[i] = list[j] => i = j

LEMMA ListFacts ==
    ASSUME ListOK
    PROVE  /\ Len(list) \in Nat /\ \A i \in 1..Len(list) : list[i] \in Tokens
           /\ Kept \in Nat /\ Kept <= Len(list) /\ Kept < Size
           /\ Len(list) <= Kept + 1
           /\ Kept < Len(list) => Len(list) = Size
  BY TokensAssumption DEF ListOK, Kept

\* insert() puts the token first, and drops at most the last one.
LEMMA InsertedList ==
    ASSUME ListOK, NEW k \in Tokens
    PROVE  /\ Inserted(k) \in Seq(Tokens) /\ Len(Inserted(k)) = Kept + 1
           /\ \A i \in 1..(Kept + 1) : Inserted(k)[i] = IF i = 1 THEN k ELSE list[i - 1]
<1> DEFINE kept == SubSeq(list, 1, Kept)
<1>1. /\ kept \in Seq(Tokens) /\ Len(kept) = Kept /\ Kept \in Nat
      /\ \A i \in 1..Kept : kept[i] = list[i]
  <2>1. \A i \in 1..Kept : list[i] \in Tokens BY ListFacts
  <2>2. /\ kept \in Seq(Tokens) /\ Len(kept) = IF 1 <= Kept THEN Kept - 1 + 1 ELSE 0
        /\ \A i \in 1..(Kept - 1 + 1) : kept[i] = list[1 + i - 1]
    BY <2>1, ListFacts, SubSeqProperties
  <2> QED BY <2>2, ListFacts
<1>2. <<k>> \in Seq(Tokens) /\ Len(<<k>>) = 1 /\ <<k>>[1] = k OBVIOUS
<1>3. Inserted(k) = <<k>> \o kept BY DEF Inserted
<1> HIDE DEF kept
<1> QED BY <1>1, <1>2, <1>3, ConcatProperties

\* get() puts the token it finds first, and moves the ones before it.
LEMMA FoundList ==
    ASSUME ListOK, NEW k \in Tokens, NEW p \in 1..Len(list), list[p] = k
    PROVE  /\ Found(k) \in Seq(Tokens) /\ Len(Found(k)) = Len(list)
           /\ \A i \in 1..Len(list) :
                  Found(k)[i] = IF i = 1 THEN k ELSE IF i <= p THEN list[i - 1] ELSE list[i]
<1> DEFINE n == Len(list)
           before == SubSeq(list, 1, p - 1)
           after == SubSeq(list, p + 1, n)
           rest == before \o after
<1>1. n \in Nat /\ \A i \in 1..n : list[i] \in Tokens BY ListFacts
<1>2. (CHOOSE i \in 1..Len(list) : list[i] = k) = p BY DEF ListOK
<1>3. /\ before \in Seq(Tokens) /\ Len(before) = p - 1
      /\ \A i \in 1..(p - 1) : before[i] = list[i]
  <2>1. /\ before \in Seq(Tokens) /\ Len(before) = IF 1 <= p - 1 THEN p - 1 - 1 + 1 ELSE 0
        /\ \A i \in 1..(p - 1 - 1 + 1) : before[i] = list[1 + i - 1]
    <3>1. \A i \in 1..(p - 1) : list[i] \in Tokens BY <1>1
    <3> QED BY <3>1, SubSeqProperties
  <2> QED BY <2>1
<1>4. /\ after \in Seq(Tokens) /\ Len(after) = n - p
      /\ \A i \in 1..(n - p) : after[i] = list[p + i]
  <2>1. /\ after \in Seq(Tokens) /\ Len(after) = IF p + 1 <= n THEN n - (p + 1) + 1 ELSE 0
        /\ \A i \in 1..(n - (p + 1) + 1) : after[i] = list[p + 1 + i - 1]
    <3>1. \A i \in (p + 1)..n : list[i] \in Tokens BY <1>1
    <3> QED BY <1>1, <3>1, SubSeqProperties
  <2> QED BY <1>1, <2>1
<1>5. /\ rest \in Seq(Tokens) /\ Len(rest) = n - 1
      /\ \A i \in 1..(n - 1) : rest[i] = IF i <= p - 1 THEN list[i] ELSE list[i + 1]
  <2> HIDE DEF before, after
  <2>1. /\ rest \in Seq(Tokens) /\ Len(rest) = Len(before) + Len(after)
        /\ \A i \in 1..(Len(before) + Len(after)) :
               rest[i] = IF i <= Len(before) THEN before[i] ELSE after[i - Len(before)]
    BY <1>3, <1>4, ConcatProperties
  <2> QED BY <1>1, <1>3, <1>4, <2>1
<1>6. <<k>> \in Seq(Tokens) /\ Len(<<k>>) = 1 /\ <<k>>[1] = k OBVIOUS
<1>7. Found(k) = <<k>> \o rest BY <1>2 DEF Found
<1>8. /\ Found(k) \in Seq(Tokens) /\ Len(Found(k)) = 1 + (n - 1)
      /\ \A i \in 1..(1 + (n - 1)) : Found(k)[i] = IF i <= 1 THEN <<k>>[i] ELSE rest[i - 1]
  <2> HIDE DEF rest
  <2> QED BY <1>5, <1>6, <1>7, ConcatProperties
<1> HIDE DEF rest
<1> QED BY <1>1, <1>5, <1>6, <1>8

-------------------------------------------------------------------------------
(* The invariant: what the steps of a call may rely on. *)

\* Where a thread is, the call it is in, and whether that has an answer.
CallInv ==
    \A t \in Threads :
        /\ pc[t] = "idle" => req[t] = NoRequest /\ ans[t] = Pending
        /\ pc[t] = "lock" => req[t] \in Requests /\ ans[t] = Pending
        /\ pc[t] = "lock" /\ req[t].op = "query" =>
               cand[t] = req[t].token /\ cand[t] # BadToken
        /\ pc[t] \in {"choose", "insert"} => req[t] \in GetRequests /\ ans[t] = Pending
        /\ pc[t] = "lookup" =>
               req[t] \in QueryRequests /\ ans[t] = Pending /\ cand[t] = req[t].token
        /\ pc[t] \in {"unlock", "done"} => req[t] \in Requests /\ ans[t] # Pending

\* The thread that is inside the critical section owns the mutex.
LockInv ==
    \A t \in Threads :
        /\ pc[t] \in {"choose", "insert", "unlock"} => owner = t
        /\ pc[t] = "lookup" /\ cand[t] # BadToken => owner = t

\* A token that was found to be fresh still is.
FreshInv == \A t \in Threads : pc[t] = "insert" => Usable(cand[t])

\* The cache lists each token that has a meaning, once, and BAD_TOKEN never has.
MeansInv ==
    /\ ListOK
    /\ means[BadToken] = NoPair
    /\ \A k \in Tokens : means[k] # NoPair <=> \E i \in 1..Len(list) : list[i] = k

TkInv == TkTypeOK /\ CallInv /\ LockInv /\ FreshInv /\ MeansInv

\* What insert() leaves of the meanings, and of the list.
LEMMA InsertMeans ==
    ASSUME TkInv, NEW t \in Threads, Insert(t)
    PROVE  LET k == cand[t]
           IN  /\ k \in Tokens \ {BadToken} /\ means[k] = NoPair
               /\ req[t] \in GetRequests /\ req[t].pair \in Pairs
               /\ k \notin Evicted /\ Evicted \subseteq Tokens
               /\ list' = Inserted(k)
               /\ means' = [j \in Tokens |-> IF j = k THEN req[t].pair
                                             ELSE IF j \in Evicted THEN NoPair ELSE means[j]]
               /\ list' \in Seq(Tokens) /\ Len(list') = Kept + 1
               /\ \A i \in 1..(Kept + 1) : list'[i] = IF i = 1 THEN k ELSE list[i - 1]
               /\ \A i \in 1..Len(list) : list[i] # k
<1> DEFINE k == cand[t]
<1>1. /\ k \in Tokens \ {BadToken} /\ means[k] = NoPair
      /\ req[t] \in GetRequests /\ req[t].pair \in Pairs
  BY DEF TkInv, TkTypeOK, CallInv, FreshInv, Insert, Usable, GetRequests
<1>2. \A i \in 1..Len(list) : list[i] # k BY <1>1 DEF TkInv, MeansInv
<1>3. k \notin Evicted /\ Evicted \subseteq Tokens
  BY <1>2, ListFacts DEF TkInv, MeansInv, Evicted
<1>4. /\ list' = Inserted(k)
      /\ means' = [j \in Tokens |-> IF j = k THEN req[t].pair
                                    ELSE IF j \in Evicted THEN NoPair ELSE means[j]]
  BY <1>1 DEF Insert
<1>5. ListOK BY DEF TkInv, MeansInv
<1> HIDE DEF k
<1>6. /\ list' \in Seq(Tokens) /\ Len(list') = Kept + 1
      /\ \A i \in 1..(Kept + 1) : list'[i] = IF i = 1 THEN k ELSE list[i - 1]
  BY <1>1, <1>4, <1>5, InsertedList
<1> QED BY <1>1, <1>2, <1>3, <1>4, <1>6 DEF k

LEMMA InsertKeepsMeans ==
    ASSUME TkInv, NEW t \in Threads, Insert(t)
    PROVE  MeansInv' /\ Len(list') <= Size
<1> DEFINE k == cand[t]
<1>0. TkTypeOK /\ MeansInv /\ ListOK BY DEF TkInv, MeansInv
<1>1. /\ Len(list) \in Nat /\ Kept \in Nat /\ Kept <= Len(list) /\ Kept < Size
      /\ Len(list) <= Kept + 1
  BY <1>0, ListFacts
<1>2. /\ k \in Tokens \ {BadToken} /\ req[t].pair \in Pairs
      /\ k \notin Evicted
      /\ means' = [j \in Tokens |-> IF j = k THEN req[t].pair
                                    ELSE IF j \in Evicted THEN NoPair ELSE means[j]]
      /\ list' \in Seq(Tokens) /\ Len(list') = Kept + 1
      /\ \A i \in 1..(Kept + 1) : list'[i] = IF i = 1 THEN k ELSE list[i - 1]
      /\ \A i \in 1..Len(list) : list[i] # k
  BY InsertMeans
<1> HIDE DEF k
<1>3. ListOK'
  <2>1. SUFFICES ASSUME NEW i \in 1..(Kept + 1), NEW j \in 1..(Kept + 1), list'[i] = list'[j]
                 PROVE  i = j
    BY <1>1, <1>2, TokensAssumption DEF ListOK
  <2>2. /\ list'[i] = IF i = 1 THEN k ELSE list[i - 1]
        /\ list'[j] = IF j = 1 THEN k ELSE list[j - 1]
    BY <1>2
  <2>3. CASE i = 1 /\ j # 1
    <3>1. j - 1 \in 1..Len(list) BY <1>1, <2>3
    <3> QED BY <1>2, <2>1, <2>2, <2>3, <3>1
  <2>5. CASE i # 1 /\ j = 1
    <3>1. i - 1 \in 1..Len(list) BY <1>1, <2>5
    <3> QED BY <1>2, <2>1, <2>2, <2>5, <3>1
  <2>4. CASE i # 1 /\ j # 1
    <3>1. i - 1 \in 1..Len(list) /\ j - 1 \in 1..Len(list) BY <1>1, <2>4
    <3>2. i - 1 = j - 1 BY <1>0, <2>1, <2>2, <2>4, <3>1 DEF ListOK
    <3> QED BY <3>2
  <2> QED BY <2>3, <2>4, <2>5
<1>4. means'[BadToken] = NoPair BY <1>0, <1>2, TokensAssumption DEF MeansInv
<1>5. ASSUME NEW j \in Tokens
      PROVE  means'[j] # NoPair <=> \E i \in 1..Len(list') : list'[i] = j
  <2>1. CASE j = k
    <3>1. 1 \in 1..Len(list') /\ list'[1] = k BY <1>1, <1>2
    <3> QED BY <2>1, <3>1, <1>2, TokensAssumption
  <2>2. CASE j # k /\ j \in Evicted
    <3>1. PICK q \in (Kept + 1)..Len(list) : list[q] = j BY <2>2 DEF Evicted
    <3>2. \A i \in 1..Kept : list[i] # j BY <1>0, <1>1, <3>1 DEF ListOK
    <3> QED BY <2>2, <3>2, <1>1, <1>2
  <2>3. CASE j # k /\ j \notin Evicted
    <3>1. \A i \in 1..Len(list) : list[i] = j => i <= Kept BY <1>1, <2>3 DEF Evicted
    <3>2. means'[j] = means[j] BY <1>2, <2>3
    <3>3. ASSUME NEW i \in 1..Len(list), list[i] = j
          PROVE  \E q \in 1..Len(list') : list'[q] = j
      <4>1. i + 1 \in 1..Len(list') /\ list'[i + 1] = j BY <1>1, <1>2, <3>1, <3>3
      <4> QED BY <4>1
    <3>4. ASSUME NEW i \in 1..Len(list'), list'[i] = j
          PROVE  \E q \in 1..Len(list) : list[q] = j
      <4>1. i - 1 \in 1..Len(list) /\ list[i - 1] = j BY <1>1, <1>2, <2>3, <3>4
      <4> QED BY <4>1
    <3> QED BY <3>2, <3>3, <3>4, <1>0 DEF MeansInv
  <2> QED BY <2>1, <2>2, <2>3
<1> QED BY <1>1, <1>2, <1>3, <1>4, <1>5, TokensAssumption DEF MeansInv

\* So does get(), which changes the order only.
LEMMA LookupKeepsMeans ==
    ASSUME TkInv, NEW t \in Threads, Lookup(t)
    PROVE  MeansInv' /\ list' \in Seq(Tokens) /\ Len(list') <= Size
<1> DEFINE k == cand[t]
<1>0. TkTypeOK /\ MeansInv /\ ListOK /\ k \in Tokens BY DEF TkInv, MeansInv, TkTypeOK
<1>1. CASE means[k] = NoPair
  <2>1. list' = list /\ means' = means BY <1>1 DEF Lookup
  <2> QED BY <1>0, <2>1 DEF MeansInv, ListOK
<1>2. CASE means[k] # NoPair
  <2>1. list' = Found(k) /\ means' = means BY <1>2 DEF Lookup
  <2>2. PICK p \in 1..Len(list) : list[p] = k BY <1>0, <1>2 DEF MeansInv
  <2> HIDE DEF k
  <2>3. /\ list' \in Seq(Tokens) /\ Len(list') = Len(list)
        /\ \A i \in 1..Len(list) :
               list'[i] = IF i = 1 THEN k ELSE IF i <= p THEN list[i - 1] ELSE list[i]
    BY <1>0, <2>1, <2>2, FoundList
  <2>4. Len(list) \in Nat BY <1>0, ListFacts
  <2>5. ListOK'
    <3> DEFINE From(i) == IF i = 1 THEN p ELSE IF i <= p THEN i - 1 ELSE i
    <3>1. SUFFICES ASSUME NEW i \in 1..Len(list), NEW j \in 1..Len(list), list'[i] = list'[j]
                   PROVE  i = j
      BY <1>0, <2>3 DEF ListOK
    <3>2. /\ From(i) \in 1..Len(list) /\ list'[i] = list[From(i)]
          /\ From(j) \in 1..Len(list) /\ list'[j] = list[From(j)]
      BY <2>2, <2>3, <2>4
    <3>3. From(i) = From(j)
      <4> HIDE DEF From
      <4> QED BY <1>0, <3>1, <3>2 DEF ListOK
    <3> QED BY <2>4, <3>3
  <2>6. ASSUME NEW j \in Tokens
        PROVE  (\E i \in 1..Len(list) : list[i] = j) <=> (\E i \in 1..Len(list') : list'[i] = j)
    <3>1. ASSUME NEW i \in 1..Len(list), list[i] = j
          PROVE  \E q \in 1..Len(list') : list'[q] = j
      <4>1. CASE i < p
        <5>1. i + 1 \in 1..Len(list') /\ list'[i + 1] = j BY <2>3, <2>4, <3>1, <4>1
        <5> QED BY <5>1
      <4>2. CASE i = p
        <5>1. 1 \in 1..Len(list') /\ list'[1] = j BY <2>2, <2>3, <2>4, <3>1, <4>2
        <5> QED BY <5>1
      <4>3. CASE i > p
        <5>1. i \in 1..Len(list') /\ list'[i] = j BY <2>3, <2>4, <3>1, <4>3
        <5> QED BY <5>1
      <4> QED BY <2>4, <4>1, <4>2, <4>3
    <3>2. ASSUME NEW i \in 1..Len(list'), list'[i] = j
          PROVE  \E q \in 1..Len(list) : list[q] = j
      <4>1. list'[i] = IF i = 1 THEN k ELSE IF i <= p THEN list[i - 1] ELSE list[i]
        BY <2>3
      <4> QED BY <2>2, <2>3, <2>4, <3>2, <4>1
    <3> QED BY <3>1, <3>2
  <2> QED BY <1>0, <2>1, <2>3, <2>5, <2>6 DEF MeansInv, ListOK
<1> QED BY <1>1, <1>2

-------------------------------------------------------------------------------
(* Every step preserves the invariant. *)

LEMMA InitHolds == TkInit => TkInv
<1> SUFFICES ASSUME TkInit PROVE TkInv OBVIOUS
<1>1. TkTypeOK /\ MeansInv
  <2>1. list \in Seq(Tokens) /\ Len(list) = 0 BY EmptySeq DEF TkInit
  <2> QED BY <2>1, TokensAssumption DEF TkInit, TkTypeOK, MeansInv, ListOK
<1>2. CallInv /\ LockInv /\ FreshInv BY DEF TkInit, CallInv, LockInv, FreshInv
<1> QED BY <1>1, <1>2 DEF TkInv

\* A step that touches neither the list nor the meanings.
LEMMA MeansFrame ==
    ASSUME MeansInv, UNCHANGED <<list, means>>
    PROVE  MeansInv'
  BY DEF MeansInv, ListOK

LEMMA MeansStep ==
    ASSUME TkInv, [TkNext]_tkVars
    PROVE  MeansInv' /\ list' \in Seq(Tokens) /\ Len(list') <= Size
<1>0. MeansInv /\ list \in Seq(Tokens) /\ Len(list) <= Size BY DEF TkInv, TkTypeOK
<1>1. ASSUME NEW t \in Threads, Insert(t)
      PROVE  MeansInv' /\ list' \in Seq(Tokens) /\ Len(list') <= Size
  BY <1>1, InsertKeepsMeans DEF MeansInv, ListOK
<1>2. ASSUME NEW t \in Threads, Lookup(t)
      PROVE  MeansInv' /\ list' \in Seq(Tokens) /\ Len(list') <= Size
  BY <1>2, LookupKeepsMeans
<1>3. CASE Reinit
  <2>1. list' \in Seq(Tokens) /\ Len(list') = 0 BY <1>3, EmptySeq DEF Reinit
  <2> QED BY <1>3, <2>1, TokensAssumption DEF Reinit, MeansInv, ListOK
<1>4. CASE UNCHANGED <<list, means>> BY <1>0, <1>4, MeansFrame
<1> QED BY <1>1, <1>2, <1>3, <1>4
     DEF TkNext, TokenStep, GetToken, QueryToken, Redraw, Lock, QueryBad, Chosen, Unlock, Answered,
         tkVars, cache

LEMMA TypeStep ==
    ASSUME TkInv, [TkNext]_tkVars
    PROVE  TkTypeOK'
<1> USE TokensAssumption DEF TkTypeOK
<1>0. TkTypeOK /\ CallInv BY DEF TkInv
<1>1. /\ list' \in Seq(Tokens) /\ Len(list') <= Size
      /\ \A k \in Tokens : means'[k] # NoPair <=> \E i \in 1..Len(list') : list'[i] = k
  BY MeansStep DEF MeansInv
<1>2. ASSUME NEW t \in Threads, NEW p \in Pairs, GetToken(t, p) PROVE TkTypeOK'
  <2>1. [op |-> "get", pair |-> p] \in Requests BY DEF Requests
  <2> QED BY <1>0, <1>1, <1>2, <2>1 DEF GetToken, Goto, cache
<1>3. ASSUME NEW t \in Threads, NEW k \in Tokens, QueryToken(t, k) PROVE TkTypeOK'
  <2>1. [op |-> "query", token |-> k] \in Requests BY DEF Requests
  <2> QED BY <1>0, <1>1, <1>3, <2>1 DEF QueryToken, Goto, cache
<1>4. ASSUME NEW t \in Threads, NEW k \in Tokens, Redraw(t, k) PROVE TkTypeOK'
  BY <1>0, <1>1, <1>4 DEF Redraw, cache, calls
<1>5. ASSUME NEW t \in Threads, Lock(t) PROVE TkTypeOK'
  BY <1>0, <1>1, <1>5 DEF Lock, Goto, cache, calls
<1>6. ASSUME NEW t \in Threads, QueryBad(t) PROVE TkTypeOK'
  BY <1>0, <1>1, <1>6 DEF QueryBad, Goto, cache
<1>7. ASSUME NEW t \in Threads, Chosen(t) PROVE TkTypeOK'
  BY <1>0, <1>1, <1>7 DEF Chosen, Goto, cache, calls
<1>8. ASSUME NEW t \in Threads, Insert(t) PROVE TkTypeOK'
  <2>1. req[t].pair \in Pairs /\ cand[t] \in Tokens
        /\ means' = [j \in Tokens |-> IF j = cand[t] THEN req[t].pair
                                      ELSE IF j \in Evicted THEN NoPair ELSE means[j]]
    BY <1>8, InsertMeans
  <2>2. means' \in [Tokens -> Pairs \cup {NoPair}] BY <1>0, <2>1
  <2>3. since' \in [Tokens -> SUBSET Tokens] BY <1>0, <1>8, <2>1 DEF Insert, Used
  <2> QED BY <1>0, <1>1, <1>8, <2>1, <2>2, <2>3 DEF Insert, Goto
<1>9. ASSUME NEW t \in Threads, Lookup(t) PROVE TkTypeOK'
  <2>1. since' \in [Tokens -> SUBSET Tokens] BY <1>0, <1>9 DEF Lookup, Used
  <2> QED BY <1>0, <1>1, <1>9, <2>1 DEF Lookup, Goto
<1>10. ASSUME NEW t \in Threads, Unlock(t) PROVE TkTypeOK'
  BY <1>0, <1>1, <1>10 DEF Unlock, Goto, cache, calls
<1>11. ASSUME NEW t \in Threads, Answered(t) PROVE TkTypeOK'
  BY <1>0, <1>1, <1>11 DEF Answered, Goto, cache
<1>12. CASE Reinit BY <1>0, <1>1, <1>12 DEF Reinit, calls
<1>13. CASE UNCHANGED tkVars BY <1>0, <1>13 DEF tkVars, cache, calls
<1> QED BY <1>2, <1>3, <1>4, <1>5, <1>6, <1>7, <1>8, <1>9, <1>10, <1>11, <1>12, <1>13
     DEF TkNext, TokenStep

LEMMA CallStep ==
    ASSUME TkInv, [TkNext]_tkVars
    PROVE  CallInv'
<1> USE TokensAssumption DEF CallInv
<1>0. TkTypeOK /\ CallInv BY DEF TkInv
<1> USE <1>0 DEF TkTypeOK
<1>2. ASSUME NEW t \in Threads, NEW p \in Pairs, GetToken(t, p) PROVE CallInv'
  <2>1. /\ [op |-> "get", pair |-> p] \in Requests
        /\ [op |-> "get", pair |-> p].op = "get"
    BY DEF Requests
  <2> QED BY <1>2, <2>1 DEF GetToken, Goto, cache
<1>3. ASSUME NEW t \in Threads, NEW k \in Tokens, QueryToken(t, k) PROVE CallInv'
  <2>1. /\ [op |-> "query", token |-> k] \in Requests \cap QueryRequests
        /\ [op |-> "query", token |-> k].token = k
    BY DEF Requests, QueryRequests
  <2> QED BY <1>3, <2>1 DEF QueryToken, Goto, cache
<1>4. ASSUME NEW t \in Threads, NEW k \in Tokens, Redraw(t, k) PROVE CallInv'
  BY <1>4 DEF Redraw, calls
<1>5. ASSUME NEW t \in Threads, Lock(t) PROVE CallInv'
  <2>1. req[t] \in Requests /\ ans[t] = Pending BY <1>5 DEF Lock
  <2>2. /\ req[t].op = "get" => req[t] \in GetRequests
        /\ req[t].op # "get" => req[t] \in QueryRequests /\ req[t].op = "query"
    BY <2>1 DEF Requests, GetRequests, QueryRequests
  <2> QED BY <1>5, <2>1, <2>2 DEF Lock, Goto, calls
<1>6. ASSUME NEW t \in Threads, QueryBad(t) PROVE CallInv'
  BY <1>6 DEF QueryBad, Goto, QueryRequests, Requests
<1>7. ASSUME NEW t \in Threads, Chosen(t) PROVE CallInv'
  BY <1>7 DEF Chosen, Goto, calls
<1>8. ASSUME NEW t \in Threads, Insert(t) PROVE CallInv'
  BY <1>8 DEF Insert, Goto, GetRequests, Requests
<1>9. ASSUME NEW t \in Threads, Lookup(t) PROVE CallInv'
  <2>1. means[cand[t]] # Pending OBVIOUS
  <2> QED BY <1>9, <2>1 DEF Lookup, Goto, QueryRequests, Requests
<1>10. ASSUME NEW t \in Threads, Unlock(t) PROVE CallInv'
  BY <1>10 DEF Unlock, Goto, calls
<1>11. ASSUME NEW t \in Threads, Answered(t) PROVE CallInv'
  BY <1>11 DEF Answered, Goto
<1>12. CASE Reinit BY <1>12 DEF Reinit, calls
<1>13. CASE UNCHANGED tkVars BY <1>13 DEF tkVars, calls
<1> QED BY <1>2, <1>3, <1>4, <1>5, <1>6, <1>7, <1>8, <1>9, <1>10, <1>11, <1>12, <1>13
     DEF TkNext, TokenStep

\* Only the owner of the mutex is between choosing a token and inserting it.
LEMMA LockStep ==
    ASSUME TkInv, [TkNext]_tkVars
    PROVE  LockInv' /\ FreshInv'
<1>0. TkTypeOK /\ LockInv /\ FreshInv BY DEF TkInv
<1> USE <1>0, TokensAssumption DEF TkTypeOK, LockInv, FreshInv
<1>1. ASSUME NEW t \in Threads, Insert(t) PROVE LockInv' /\ FreshInv'
  <2>1. owner = t BY <1>1 DEF Insert
  <2>2. \A u \in Threads : pc'[u] # "insert" BY <1>1, <2>1 DEF Insert, Goto
  <2> QED BY <1>1, <2>2 DEF Insert, Goto
<1>2. ASSUME NEW t \in Threads, NEW k \in Tokens, QueryToken(t, k) PROVE LockInv' /\ FreshInv'
  BY <1>2 DEF QueryToken, Goto, cache, Usable
<1>3. ASSUME NEW t \in Threads, NEW k \in Tokens, Redraw(t, k) PROVE LockInv' /\ FreshInv'
  BY <1>3 DEF Redraw, cache, Usable
<1>4. ASSUME NEW t \in Threads, Lock(t) PROVE LockInv' /\ FreshInv'
  BY <1>4 DEF Lock, LockFree, Goto, cache, Usable
<1>5. ASSUME NEW t \in Threads, Chosen(t) PROVE LockInv' /\ FreshInv'
  BY <1>5 DEF Chosen, Goto, cache, Usable
<1>6. ASSUME NEW t \in Threads, Unlock(t) PROVE LockInv' /\ FreshInv'
  BY <1>6 DEF Unlock, Goto, cache, Usable
<1>7. ASSUME NEW t \in Threads, Answered(t) \/ QueryBad(t) PROVE LockInv' /\ FreshInv'
  BY <1>7 DEF Answered, QueryBad, Goto, cache, Usable
<1>8. ASSUME NEW t \in Threads, NEW p \in Pairs, GetToken(t, p) PROVE LockInv' /\ FreshInv'
  BY <1>8 DEF GetToken, Goto, cache, Usable
<1>9. ASSUME NEW t \in Threads, Lookup(t) PROVE LockInv' /\ FreshInv'
  BY <1>9 DEF Lookup, Goto, Usable
<1>10. CASE Reinit BY <1>10 DEF Reinit
<1>11. CASE UNCHANGED tkVars BY <1>11 DEF tkVars, cache, Usable
<1> QED BY <1>1, <1>2, <1>3, <1>4, <1>5, <1>6, <1>7, <1>8, <1>9, <1>10, <1>11
     DEF TkNext, TokenStep

LEMMA TokensInvariant == TkSpec => []TkInv
<1>1. TkInv /\ [TkNext]_tkVars => TkInv'
  BY TypeStep, MeansStep, CallStep, LockStep DEF TkInv
<1> QED BY <1>1, InitHolds, PTL DEF TkSpec

\* The tokens are type-correct; the cache stays within its capacity, and lists
\* the tokens that have a meaning and no other.
THEOREM TokensTypeCorrect == TkSpec => []TkTypeOK
<1>1. TkInv => TkTypeOK BY DEF TkInv
<1> QED BY <1>1, TokensInvariant, PTL

-------------------------------------------------------------------------------
(* Each call is one step on a store. *)

LEMMA InsertIssues ==
    ASSUME TkInv, NEW t \in Threads, Insert(t)
    PROVE  Store!Issue(t)
<1> DEFINE k == cand[t]
<1>1. /\ k \in Tokens \ {BadToken} /\ means[k] = NoPair
      /\ req[t] \in GetRequests /\ k \notin Evicted
      /\ means' = [j \in Tokens |-> IF j = k THEN req[t].pair
                                    ELSE IF j \in Evicted THEN NoPair ELSE means[j]]
      /\ Evicted \in SUBSET Tokens
  BY InsertMeans
<1>2. \A i, j \in Evicted : i = j
  <2>1. /\ Len(list) \in Nat /\ Kept \in Nat /\ Kept <= Len(list) /\ Len(list) <= Kept + 1
    BY ListFacts DEF TkInv, MeansInv
  <2> QED BY <2>1 DEF Evicted
<1>3. req[t].op = "get" /\ ans[t] = Pending
  BY <1>1 DEF GetRequests, TkInv, CallInv, Insert
<1>4. ans' = [ans EXCEPT ![t] = k] /\ UNCHANGED req BY DEF Insert
<1> HIDE DEF k
<1> QED BY <1>1, <1>2, <1>3, <1>4 DEF Store!Issue

LEMMA LookupResolves ==
    ASSUME TkInv, NEW t \in Threads, Lookup(t) \/ QueryBad(t)
    PROVE  Store!Resolve(t)
<1>1. /\ req[t].op = "query" /\ ans[t] = Pending /\ cand[t] = req[t].token
  BY DEF Lookup, QueryBad, TkInv, CallInv, QueryRequests
<1>2. ans' = [ans EXCEPT ![t] = means[req[t].token]]
  BY <1>1 DEF Lookup, QueryBad, TkInv, MeansInv
<1> QED BY <1>1, <1>2 DEF Lookup, QueryBad, cache, Store!Resolve

LEMMA CallAsks ==
    ASSUME TkInv, NEW t \in Threads,
           \/ \E p \in Pairs : GetToken(t, p)
           \/ \E k \in Tokens : QueryToken(t, k)
    PROVE  Store!Ask(t)
<1>1. req[t] = Store!NoRequest
  BY DEF TkInv, CallInv, GetToken, QueryToken, NoRequest, Store!NoRequest
<1>2. \E r \in Store!Requests : req' = [req EXCEPT ![t] = r]
  BY DEF GetToken, QueryToken, Store!Requests
<1> QED BY <1>1, <1>2 DEF GetToken, QueryToken, cache, Store!Ask

LEMMA StoreStep ==
    ASSUME TkInv, [TkNext]_tkVars
    PROVE  [Store!Next]_(Store!storeVars)
<1>1. ASSUME NEW t \in Threads, Insert(t) PROVE Store!Next
  BY <1>1, InsertIssues DEF Store!Next
<1>2. ASSUME NEW t \in Threads, Lookup(t) \/ QueryBad(t) PROVE Store!Next
  BY <1>2, LookupResolves DEF Store!Next
<1>3. ASSUME NEW t \in Threads,
             \/ \E p \in Pairs : GetToken(t, p)
             \/ \E k \in Tokens : QueryToken(t, k)
      PROVE  Store!Next
  BY <1>3, CallAsks DEF Store!Next
<1>4. ASSUME NEW t \in Threads, Answered(t) PROVE Store!Next
  <2>1. Store!Reply(t)
    BY <1>4 DEF TkInv, CallInv, Answered, NoRequest, cache, Store!Reply, Store!NoRequest
  <2> QED BY <2>1 DEF Store!Next
<1>5. CASE Reinit
  <2>1. Store!ForgetAll
    BY <1>5 DEF TkInv, CallInv, Reinit, NoRequest, calls, Store!ForgetAll, Store!NoRequest
  <2> QED BY <2>1 DEF Store!Next
<1>6. ASSUME NEW t \in Threads,
             \/ Lock(t) \/ Chosen(t) \/ Unlock(t)
             \/ \E k \in Tokens : Redraw(t, k)
      PROVE  UNCHANGED Store!storeVars
  BY <1>6 DEF Lock, Chosen, Unlock, Redraw, cache, calls, Store!storeVars
<1>7. CASE UNCHANGED tkVars BY <1>7 DEF tkVars, cache, calls, Store!storeVars
<1> QED BY <1>1, <1>2, <1>3, <1>4, <1>5, <1>6, <1>7 DEF TkNext, TokenStep

\* Whatever the callers do at once, each get_token and query_token is one step on
\* a store that forgets at most one token for each it learns.
THEOREM TokensAreAStore == TkSpec => StoreImplemented
<1>1. TkInit => Store!Init
  BY DEF TkInit, NoRequest, Store!Init, Store!NoRequest
<1>2. TkInv /\ [TkNext]_tkVars => [Store!Next]_(Store!storeVars) BY StoreStep
<1> QED BY <1>1, <1>2, TokensInvariant, PTL DEF TkSpec, StoreImplemented, Store!Spec

-------------------------------------------------------------------------------
(* Which tokens resolve. *)

\* The tokens before one in the list have been used since that one was, ...
OrderInv ==
    \A i, j \in 1..Len(list) : j < i => list[j] \in since[list[i]]

\* ... and one that was forgotten has seen as many others used as there is room for.
ForgottenInv ==
    \A k \in Tokens :
        /\ IsFiniteSet(since[k])
        /\ means[k] # NoPair => means[k] = given[k]
        /\ given[k] # NoPair /\ means[k] = NoPair => Cardinality(since[k]) >= Size

\* A set grows by what is added to it.
LEMMA Grows ==
    ASSUME NEW S, NEW x, IsFiniteSet(S)
    PROVE  /\ IsFiniteSet(S \cup {x})
           /\ Cardinality(S) \in Nat /\ Cardinality(S \cup {x}) \in Nat
           /\ Cardinality(S \cup {x}) >= Cardinality(S)
<1>1. Cardinality(S) \in Nat BY FS_CardinalityType
<1> QED BY <1>1, FS_AddElement

\* The token that a full cache evicts has seen all others in it used, and the new one.
LEMMA EvictedIsOld ==
    ASSUME TkInv, OrderInv, ForgottenInv, NEW t \in Threads, Insert(t), NEW e \in Evicted
    PROVE  IsFiniteSet(since'[e]) /\ Cardinality(since'[e]) >= Size
<1> DEFINE k == cand[t]
           f == [i \in 1..Size |-> IF i < Size THEN list[i] ELSE k]
<1>1. /\ Len(list) \in Nat /\ Kept \in Nat /\ Kept < Size /\ Len(list) <= Kept + 1
      /\ \A i \in 1..Len(list) : list[i] \in Tokens
      /\ Kept < Len(list) => Len(list) = Size
  BY ListFacts DEF TkInv, MeansInv
<1>2. Len(list) = Size /\ e = list[Size] BY <1>1 DEF Evicted
<1>3. /\ k \in Tokens /\ \A i \in 1..Size : list[i] # k BY <1>2, InsertMeans
<1>4. e \in Tokens /\ e # k BY <1>1, <1>2, <1>3, TokensAssumption
<1>5. since'[e] = since[e] \cup {k} BY <1>4 DEF Insert, Used
<1>6. IsFiniteSet(since'[e])
  <2>1. IsFiniteSet(since[e]) BY <1>4 DEF ForgottenInv
  <2>2. IsFiniteSet(since[e] \cup {k}) BY ONLY <2>1, Grows
  <2> QED BY <1>5, <2>2
<1>7. f \in [1..Size -> since'[e]]
  <2> HIDE DEF k
  <2>1. \A i \in 1..Size : i < Size => list[i] \in since[e]
    BY <1>2, TokensAssumption DEF OrderInv
  <2> QED BY <1>5, <2>1
<1>8. ASSUME NEW i \in 1..Size, NEW j \in 1..Size, f[i] = f[j] PROVE i = j
  <2> HIDE DEF k
  <2>1. \A a, b \in 1..Size : list[a] = list[b] => a = b BY <1>2 DEF TkInv, MeansInv, ListOK
  <2> QED BY <1>3, <1>8, <2>1, TokensAssumption
<1>9. Cardinality(1..Size) = Size BY FS_Interval, TokensAssumption
<1>10. f \in Injection(1..Size, since'[e])
  <2> HIDE DEF f
  <2> QED BY <1>7, <1>8 DEF Injection, IsInjective
<1> QED BY <1>6, <1>9, <1>10, FS_Injection

LEMMA InsertKeepsOrder ==
    ASSUME TkInv, OrderInv, ForgottenInv, NEW t \in Threads, Insert(t)
    PROVE  OrderInv' /\ ForgottenInv'
<1> DEFINE k == cand[t]
<1>0. TkTypeOK BY DEF TkInv
<1>1. /\ Len(list) \in Nat /\ Kept \in Nat /\ Kept <= Len(list)
      /\ \A i \in 1..Len(list) : list[i] \in Tokens
  BY ListFacts DEF TkInv, MeansInv
<1>2. /\ k \in Tokens /\ req[t].pair \in Pairs
      /\ means' = [j \in Tokens |-> IF j = k THEN req[t].pair
                                    ELSE IF j \in Evicted THEN NoPair ELSE means[j]]
      /\ Len(list') = Kept + 1
      /\ \A i \in 1..(Kept + 1) : list'[i] = IF i = 1 THEN k ELSE list[i - 1]
      /\ \A i \in 1..Len(list) : list[i] # k
  BY InsertMeans
<1>3. /\ since' = [j \in Tokens |-> IF j = k THEN {} ELSE since[j] \cup {k}]
      /\ given' = [given EXCEPT ![k] = req[t].pair]
  BY DEF Insert, Used
<1> HIDE DEF k
<1>4. ASSUME NEW i \in 1..(Kept + 1), NEW j \in 1..(Kept + 1), j < i
      PROVE  list'[j] \in since'[list'[i]]
  <2>1. i - 1 \in 1..Len(list) /\ list'[i] = list[i - 1] BY <1>1, <1>2, <1>4
  <2>2. list[i - 1] \in Tokens /\ list[i - 1] # k BY <1>1, <1>2, <2>1
  <2>3. since'[list'[i]] = since[list[i - 1]] \cup {k} BY <1>3, <2>1, <2>2
  <2>4. CASE j = 1 BY <1>2, <2>3, <2>4
  <2>5. CASE j # 1
    <3>1. j - 1 \in 1..Len(list) /\ j - 1 < i - 1 /\ list'[j] = list[j - 1]
      BY <1>1, <1>2, <1>4, <2>5
    <3>2. list[j - 1] \in since[list[i - 1]] BY <2>1, <3>1 DEF OrderInv
    <3> QED BY <2>3, <3>1, <3>2
  <2> QED BY <2>4, <2>5
<1>5. ASSUME NEW j \in Tokens
      PROVE  /\ IsFiniteSet(since'[j])
             /\ means'[j] # NoPair => means'[j] = given'[j]
             /\ given'[j] # NoPair /\ means'[j] = NoPair => Cardinality(since'[j]) >= Size
  <2>1. CASE j = k
    <3>1. /\ since'[j] = {} /\ means'[j] = req[t].pair /\ given'[j] = req[t].pair
      BY <1>0, <1>2, <1>3, <2>1 DEF TkTypeOK
    <3> QED BY <1>2, <3>1, FS_EmptySet, TokensAssumption
  <2>2. CASE j # k /\ j \in Evicted
    <3>1. IsFiniteSet(since'[j]) /\ Cardinality(since'[j]) >= Size BY <2>2, EvictedIsOld
    <3> QED BY <1>2, <2>2, <3>1
  <2>3. CASE j # k /\ j \notin Evicted
    <3>1. /\ since'[j] = since[j] \cup {k} /\ means'[j] = means[j] /\ given'[j] = given[j]
      BY <1>0, <1>2, <1>3, <2>3 DEF TkTypeOK
    <3>2. IsFiniteSet(since[j]) BY DEF ForgottenInv
    <3>3. /\ IsFiniteSet(since[j] \cup {k})
          /\ Cardinality(since[j]) \in Nat /\ Cardinality(since[j] \cup {k}) \in Nat
          /\ Cardinality(since[j] \cup {k}) >= Cardinality(since[j])
      BY ONLY <3>2, Grows
    <3> QED BY <3>1, <3>3, TokensAssumption DEF ForgottenInv
  <2> QED BY <2>1, <2>2, <2>3
<1>6. OrderInv' BY <1>2, <1>4 DEF OrderInv
<1>7. ForgottenInv' BY <1>5 DEF ForgottenInv
<1> QED BY <1>6, <1>7

LEMMA LookupKeepsOrder ==
    ASSUME TkInv, OrderInv, ForgottenInv, NEW t \in Threads, Lookup(t)
    PROVE  OrderInv' /\ ForgottenInv'
<1> DEFINE k == cand[t]
<1>0. TkTypeOK /\ ListOK /\ k \in Tokens /\ means' = means /\ given' = given
  BY DEF TkInv, MeansInv, TkTypeOK, Lookup
<1>1. CASE means[k] = NoPair
  <2>1. UNCHANGED <<list, since>> BY <1>1 DEF Lookup
  <2> QED BY <1>0, <2>1 DEF OrderInv, ForgottenInv
<1>2. CASE means[k] # NoPair
  <2>1. /\ list' = Found(k)
        /\ since' = [j \in Tokens |-> IF j = k THEN {} ELSE since[j] \cup {k}]
    BY <1>2 DEF Lookup, Used
  <2>2. PICK p \in 1..Len(list) : list[p] = k BY <1>0, <1>2 DEF TkInv, MeansInv
  <2> HIDE DEF k
  <2>3. /\ Len(list') = Len(list)
        /\ \A i \in 1..Len(list) :
               list'[i] = IF i = 1 THEN k ELSE IF i <= p THEN list[i - 1] ELSE list[i]
    BY <1>0, <2>1, <2>2, FoundList
  <2>4. Len(list) \in Nat /\ \A i \in 1..Len(list) : list[i] \in Tokens BY <1>0, ListFacts
  <2>5. ASSUME NEW i \in 1..Len(list), NEW j \in 1..Len(list), j < i
        PROVE  list'[j] \in since'[list'[i]]
    <3> DEFINE From(n) == IF n = 1 THEN p ELSE IF n <= p THEN n - 1 ELSE n
    <3>1. /\ From(i) \in 1..Len(list) /\ list'[i] = list[From(i)]
          /\ From(j) \in 1..Len(list) /\ list'[j] = list[From(j)]
      BY <2>2, <2>3, <2>4
    <3>2. From(i) # p BY <2>4, <2>5
    <3>3. list[From(i)] # k
      <4> HIDE DEF From
      <4> QED BY <1>0, <2>2, <3>1, <3>2 DEF ListOK
    <3>4. since'[list'[i]] = since[list[From(i)]] \cup {k} BY <2>1, <2>4, <3>1, <3>3
    <3>5. CASE j = 1 BY <2>3, <3>4, <3>5
    <3>6. CASE j # 1
      <4>1. From(j) < From(i) BY <2>4, <2>5, <3>6
      <4> HIDE DEF From
      <4> QED BY <3>1, <3>4, <4>1 DEF OrderInv
    <3> QED BY <3>5, <3>6
  <2>6. ASSUME NEW j \in Tokens
        PROVE  /\ IsFiniteSet(since'[j])
               /\ means[j] = NoPair => Cardinality(since'[j]) >= Cardinality(since[j])
               /\ Cardinality(since[j]) \in Nat /\ Cardinality(since'[j]) \in Nat
    <3>1. IsFiniteSet(since[j]) /\ Cardinality(since[j]) \in Nat
      BY Grows DEF ForgottenInv
    <3>2. CASE j = k BY <1>2, <2>1, <3>1, <3>2, FS_EmptySet DEF k
    <3>3. CASE j # k BY <2>1, <3>1, <3>3, Grows
    <3> QED BY <3>2, <3>3
  <2>7. OrderInv' BY <2>3, <2>5 DEF OrderInv
  <2>8. ForgottenInv' BY <1>0, <2>6, TokensAssumption DEF ForgottenInv
  <2> QED BY <2>7, <2>8
<1> QED BY <1>1, <1>2

LEMMA OrderStep ==
    ASSUME TkInv, OrderInv, ForgottenInv, [TkNext]_tkVars
    PROVE  OrderInv' /\ ForgottenInv'
<1>1. ASSUME NEW t \in Threads, Insert(t) PROVE OrderInv' /\ ForgottenInv'
  BY <1>1, InsertKeepsOrder
<1>2. ASSUME NEW t \in Threads, Lookup(t) PROVE OrderInv' /\ ForgottenInv'
  BY <1>2, LookupKeepsOrder
<1>3. CASE Reinit
  <2>1. Len(list') = 0 BY <1>3, EmptySeq DEF Reinit
  <2> QED BY <1>3, <2>1, FS_EmptySet DEF Reinit, OrderInv, ForgottenInv
<1>4. CASE UNCHANGED cache BY <1>4 DEF cache, OrderInv, ForgottenInv
<1> QED BY <1>1, <1>2, <1>3, <1>4
     DEF TkNext, TokenStep, GetToken, QueryToken, Redraw, Lock, QueryBad, Chosen, Unlock, Answered,
         tkVars

\* A caller that uses its token before as many others have been used as the cache
\* has places keeps the token, for any number of callers and any capacity.
THEOREM TokensInUseResolve == TkSpec => []RecentlyUsedResolves
<1>1. TkInit => OrderInv /\ ForgottenInv
  <2>1. Len(<<>>) = 0 BY EmptySeq
  <2> QED BY <2>1, FS_EmptySet DEF TkInit, OrderInv, ForgottenInv
<1>2. TkInv /\ OrderInv /\ ForgottenInv /\ [TkNext]_tkVars => OrderInv' /\ ForgottenInv'
  BY OrderStep
<1>3. ForgottenInv => RecentlyUsedResolves
  <2> SUFFICES ASSUME ForgottenInv, NEW k \in Tokens, given[k] # NoPair,
                      Cardinality(since[k]) < Size
               PROVE  means[k] = given[k]
    BY DEF RecentlyUsedResolves
  <2>1. IsFiniteSet(since[k]) BY DEF ForgottenInv
  <2>2. Cardinality(since[k]) \in Nat BY <2>1, FS_CardinalityType
  <2> QED BY <2>2, TokensAssumption DEF ForgottenInv
<1> QED BY <1>1, <1>2, <1>3, TokensInvariant, PTL DEF TkSpec
===============================================================================
