---------------------------- MODULE LibraryProofs ----------------------------
(***************************************************************************)
(* The errnos and the life of the library (ErrorCodes, Library), for any   *)
(* number of threads, errors and reports: types, the order of init and     *)
(* deinit, and what a thread may conclude from its errno.                   *)
(***************************************************************************)
EXTENDS Library, FiniteSetTheorems, SequenceTheorems, TLAPS

-------------------------------------------------------------------------------
(* The two programs: init and deinit. *)

Programs == {Append(InitSteps, "return"), Append(DeinitSteps, "return")}

\* What is left of a program at its m-th step.
Rest(p, m) == SubSeq(p, m, Len(p))

StepNames == {InitSteps[i] : i \in DOMAIN InitSteps} \cup {"return"}

AllNames == {"errno_deinit", "env_deinit", "cache_deinit", "token_deinit", "unregister",
             "register", "errno_init", "env_init", "cache_init", "token_init", "return"}

LEMMA StepTable ==
    /\ DeinitSteps \in Seq(AllNames) /\ Len(DeinitSteps) = 5
    /\ DeinitSteps[1] = "errno_deinit" /\ DeinitSteps[2] = "env_deinit"
    /\ DeinitSteps[3] = "cache_deinit" /\ DeinitSteps[4] = "token_deinit"
    /\ DeinitSteps[5] = "unregister"
    /\ Setup \in Seq(AllNames) /\ Len(Setup) = 5
    /\ Setup[1] = "register" /\ Setup[2] = "errno_init" /\ Setup[3] = "env_init"
    /\ Setup[4] = "cache_init" /\ Setup[5] = "token_init"
  BY DEF DeinitSteps, Setup, AllNames

LEMMA InitTable ==
    /\ InitSteps \in Seq(AllNames) /\ Len(InitSteps) = 10 /\ DOMAIN InitSteps = 1..10
    /\ \A i \in 1..10 : InitSteps[i] = IF i <= 5 THEN DeinitSteps[i] ELSE Setup[i - 5]
<1>1. /\ InitSteps \in Seq(AllNames)
      /\ Len(InitSteps) = Len(DeinitSteps) + Len(Setup)
      /\ \A i \in 1..(Len(DeinitSteps) + Len(Setup)) :
             InitSteps[i] = IF i <= Len(DeinitSteps) THEN DeinitSteps[i]
                            ELSE Setup[i - Len(DeinitSteps)]
  BY StepTable, ConcatProperties DEF InitSteps
<1> QED BY <1>1, StepTable

LEMMA StepNamesAll == StepNames = AllNames
<1>1. StepNames \subseteq AllNames
  <2>1. \A i \in DOMAIN InitSteps : InitSteps[i] \in AllNames
    BY InitTable, ElementOfSeq
  <2>2. "return" \in AllNames BY DEF AllNames
  <2> QED BY <2>1, <2>2 DEF StepNames
<1>2. \A i \in 1..10 : InitSteps[i] \in StepNames BY InitTable DEF StepNames
<1>3. /\ InitSteps[1] = "errno_deinit" /\ InitSteps[2] = "env_deinit"
      /\ InitSteps[3] = "cache_deinit" /\ InitSteps[4] = "token_deinit"
      /\ InitSteps[5] = "unregister" /\ InitSteps[6] = "register"
      /\ InitSteps[7] = "errno_init" /\ InitSteps[8] = "env_init"
      /\ InitSteps[9] = "cache_init" /\ InitSteps[10] = "token_init"
  BY InitTable, StepTable
<1>4. "return" \in StepNames BY DEF StepNames
<1>5. AllNames \subseteq StepNames BY <1>2, <1>3, <1>4 DEF AllNames
<1> QED BY <1>1, <1>5

LEMMA WithReturn ==
    ASSUME NEW s \in Seq(AllNames)
    PROVE  /\ Append(s, "return") \in Seq(AllNames) /\ Len(Append(s, "return")) = Len(s) + 1
           /\ \A i \in 1..Len(s) : Append(s, "return")[i] = s[i]
           /\ Append(s, "return")[Len(s) + 1] = "return"
<1>1. "return" \in AllNames BY DEF AllNames
<1> QED BY <1>1, AppendProperties

\* Each step has its place.
LEMMA ProgramSteps ==
    ASSUME NEW p \in Programs
    PROVE  /\ Len(p) \in {6, 11}
           /\ p \in Seq(StepNames)
           /\ \A m \in 1..Len(p) :
                  /\ p[m] \in StepNames
                  /\ p[m] = "return" <=> m = Len(p)
                  /\ p[m] = "errno_deinit" <=> m = 1
                  /\ p[m] = "env_deinit" <=> m = 2
                  /\ p[m] = "cache_deinit" <=> m = 3
                  /\ p[m] = "token_deinit" <=> m = 4
                  /\ p[m] = "unregister" <=> m = 5
                  /\ p[m] = "register" <=> m = 6 /\ Len(p) = 11
                  /\ p[m] = "errno_init" <=> m = 7
                  /\ p[m] = "env_init" <=> m = 8
                  /\ p[m] = "cache_init" <=> m = 9
                  /\ p[m] = "token_init" <=> m = 10
<1>1. CASE p = Append(InitSteps, "return")
  <2>1. /\ p \in Seq(AllNames) /\ Len(p) = 11
        /\ \A m \in 1..11 : p[m] = IF m <= 10 THEN InitSteps[m] ELSE "return"
    <3>1. InitSteps \in Seq(AllNames) /\ Len(InitSteps) = 10 BY InitTable
    <3>2. /\ p \in Seq(AllNames) /\ Len(p) = Len(InitSteps) + 1
          /\ \A i \in 1..Len(InitSteps) : p[i] = InitSteps[i]
          /\ p[Len(InitSteps) + 1] = "return"
      BY <1>1, <3>1, WithReturn
    <3> QED BY <3>1, <3>2
  <2>2. \A m \in 1..11 : p[m] = IF m <= 5 THEN DeinitSteps[m]
                                ELSE IF m <= 10 THEN Setup[m - 5] ELSE "return"
    BY <2>1, InitTable
  <2> QED BY <2>1, <2>2, StepTable, StepNamesAll DEF AllNames
<1>2. CASE p = Append(DeinitSteps, "return")
  <2>1. /\ p \in Seq(AllNames) /\ Len(p) = 6
        /\ \A m \in 1..6 : p[m] = IF m <= 5 THEN DeinitSteps[m] ELSE "return"
    <3>1. DeinitSteps \in Seq(AllNames) /\ Len(DeinitSteps) = 5 BY StepTable
    <3>2. /\ p \in Seq(AllNames) /\ Len(p) = Len(DeinitSteps) + 1
          /\ \A i \in 1..Len(DeinitSteps) : p[i] = DeinitSteps[i]
          /\ p[Len(DeinitSteps) + 1] = "return"
      BY <1>2, <3>1, WithReturn
    <3> QED BY <3>1, <3>2
  <2> QED BY <2>1, StepTable, StepNamesAll DEF AllNames
<1> QED BY <1>1, <1>2 DEF Programs

\* What Done does to what is left.
LEMMA RestFacts ==
    ASSUME NEW p \in Programs, NEW m \in 1..Len(p)
    PROVE  /\ Rest(p, m) \in Seq(StepNames) /\ Len(Rest(p, m)) = Len(p) - m + 1
           /\ Rest(p, m) # <<>> /\ Rest(p, m)[1] = p[m]
           /\ m < Len(p) => Tail(Rest(p, m)) = Rest(p, m + 1)
           /\ m = Len(p) => Tail(Rest(p, m)) = <<>>
<1>1. p \in Seq(StepNames) /\ Len(p) \in Nat /\ \A i \in 1..Len(p) : p[i] \in StepNames
  BY ProgramSteps
<1>2. /\ Rest(p, m) \in Seq(StepNames)
      /\ Len(Rest(p, m)) = IF m <= Len(p) THEN Len(p) - m + 1 ELSE 0
      /\ \A i \in 1..(Len(p) - m + 1) : Rest(p, m)[i] = p[m + i - 1]
  <2>1. \A i \in m..Len(p) : p[i] \in StepNames BY <1>1
  <2> QED BY <1>1, <2>1, SubSeqProperties DEF Rest
<1>3. Rest(p, m)[1] = p[m] BY <1>1, <1>2
<1>4. Len(Rest(p, m)) = Len(p) - m + 1 BY <1>1, <1>2
<1>5. Rest(p, m) # <<>> BY <1>1, <1>4
<1>6. Tail(Rest(p, m)) = SubSeq(p, m + 1, Len(p))
  <2>1. Len(p) \in m..Len(p) BY <1>1
  <2> QED BY <1>1, <2>1, HeadTailOfSubSeq DEF Rest
<1>7. m = Len(p) => Tail(Rest(p, m)) = <<>> BY <1>1, <1>6, SubSeqEmpty
<1> QED BY <1>2, <1>3, <1>4, <1>5, <1>6, <1>7 DEF Rest

-------------------------------------------------------------------------------
(* The invariant of init and deinit. *)

\* What the steps before the m-th one have done.
Reached(m) ==
    /\ m > 1 => (live <=> m > 7)
    /\ m > 2 /\ m < 9 => sigterm = "app"
    /\ m > 3 => cached = IF m > 9 THEN 0 ELSE -1
    /\ m > 4 => (tokens <=> m > 10)
    /\ m > 5 => (drivers <=> m > 6)

\* One thread is inside, at a step of its program, or the library is up or down.
ProgramInv ==
    \/ boss = Nobody /\ todo = <<>> /\ DownIsClean
    \/ /\ boss \in Tids
       /\ \E p \in Programs : \E m \in 1..Len(p) : todo = Rest(p, m) /\ Reached(m)

\* The handler that is restored is the application's.
HandlerInv ==
    /\ installed => sa_old = "app"
    /\ sigterm = "library" => installed

\* While a thread is inside, no other is, and what it does it does for the library;
\* otherwise operations are under way only if the library is up.
BossInv ==
    \A t \in Tids :
        pc[t] # "idle" =>
            \/ boss = Nobody /\ cached # -1
            \/ boss = t /\ kind[t] = "library"

LibTypes ==
    /\ cached \in -1..MaxCached
    /\ tokens \in BOOLEAN /\ drivers \in BOOLEAN /\ installed \in BOOLEAN
    /\ sigterm \in {"app", "library"} /\ sa_old \in {"app", "library"}

LibInv == LibTypes /\ ProgramInv /\ HandlerInv /\ BossInv

\* Where the thread inside is.
LEMMA AtPlace ==
    ASSUME ProgramInv, NEW t \in Tids, NEW s, At(t, s)
    PROVE  \E p \in Programs : \E m \in 1..Len(p) :
               todo = Rest(p, m) /\ Reached(m) /\ p[m] = s
<1>1. boss # Nobody BY LibraryAssumption DEF At
<1>2. PICK p \in Programs : \E m \in 1..Len(p) : todo = Rest(p, m) /\ Reached(m)
  BY <1>1 DEF ProgramInv
<1>3. PICK m \in 1..Len(p) : todo = Rest(p, m) /\ Reached(m) BY <1>2
<1> QED BY <1>3, RestFacts DEF At

\* A step that is done leads to the next one, or, if it was the last, outside.
LEMMA DoneLeads ==
    ASSUME NEW p \in Programs, NEW m \in 1..Len(p), todo = Rest(p, m), boss \in Tids, Done
    PROVE  /\ m < Len(p) => /\ m + 1 \in 1..Len(p) /\ todo' = Rest(p, m + 1)
                            /\ boss' = boss
           /\ m = Len(p) => todo' = <<>> /\ boss' = Nobody
<1>1. Len(p) \in Nat BY ProgramSteps
<1>2. /\ Len(Rest(p, m)) = Len(p) - m + 1
      /\ m < Len(p) => Tail(Rest(p, m)) = Rest(p, m + 1)
      /\ m = Len(p) => Tail(Rest(p, m)) = <<>>
  BY RestFacts
<1> QED BY <1>1, <1>2 DEF Done

LEMMA LibInit == LInit => LibInv
<1> SUFFICES ASSUME LInit PROVE LibInv OBVIOUS
<1>1. LibTypes
  <2>1. cached = -1 /\ MaxCached \in Nat BY LibraryAssumption DEF LInit
  <2>2. cached \in -1..MaxCached BY ONLY <2>1
  <2> QED BY <2>2 DEF LInit, LibTypes
<1>3. HandlerInv BY DEF LInit, HandlerInv
<1>2. ProgramInv /\ BossInv BY DEF LInit, EcInit, ProgramInv, BossInv, DownIsClean
<1> QED BY <1>1, <1>2, <1>3 DEF LibInv

\* What a step of init or deinit changes, but for the threads: it leads from one
\* place of the program to the next, or to the state that DownIsClean describes.
LEMMA StepKeepsProgram ==
    ASSUME LibInv, NEW t \in Tids, LibraryStep(t)
    PROVE  LibTypes' /\ ProgramInv' /\ HandlerInv'
<1> USE DEF LibTypes, HandlerInv
<1>0. LibTypes /\ ProgramInv /\ HandlerInv BY DEF LibInv
<1>1. PICK p \in Programs : \E m \in 1..Len(p) : todo = Rest(p, m) /\ Reached(m) /\ boss = t
  <2>1. \E s : At(t, s)
    BY DEF LibraryStep, DeletesMap, RestoresHandler, ClosesDataset, DeletesCache, DeletesTokens,
           ChangesDrivers, MakesMap, InstallsHandler, MakesCache, MakesTokens, Returns
  <2> QED BY <1>0, <2>1, AtPlace DEF At
<1>2. PICK m \in 1..Len(p) : todo = Rest(p, m) /\ Reached(m) /\ boss = t BY <1>1
<1>3. /\ Len(p) \in {6, 11} /\ m \in 1..11 /\ m <= Len(p)
      /\ m < Len(p) <=> todo[1] # "return"
      /\ todo[1] = "return" <=> m = Len(p)
      /\ todo[1] = "errno_deinit" <=> m = 1
      /\ todo[1] = "env_deinit" <=> m = 2
      /\ todo[1] = "cache_deinit" <=> m = 3
      /\ todo[1] = "token_deinit" <=> m = 4
      /\ todo[1] = "unregister" <=> m = 5
      /\ todo[1] = "register" <=> m = 6 /\ Len(p) = 11
      /\ todo[1] = "errno_init" <=> m = 7
      /\ todo[1] = "env_init" <=> m = 8
      /\ todo[1] = "cache_init" <=> m = 9
      /\ todo[1] = "token_init" <=> m = 10
  <2>1. todo[1] = p[m] BY ONLY <1>2, RestFacts, p \in Programs, m \in 1..Len(p)
  <2>2. m \in 1..11 /\ m <= Len(p) /\ (m < Len(p) <=> m # Len(p)) BY ProgramSteps
  <2> QED BY <2>1, <2>2, ProgramSteps
<1>4. ASSUME Done, m < Len(p), Reached(m + 1)' PROVE ProgramInv'
  <2>1. m + 1 \in 1..Len(p) /\ todo' = Rest(p, m + 1) /\ boss' \in Tids
    BY <1>2, <1>4, DoneLeads
  <2> QED BY <1>4, <2>1 DEF ProgramInv
<1>16. ASSUME Done, m = Len(p), DownIsClean' PROVE ProgramInv'
  <2>1. todo' = <<>> /\ boss' = Nobody BY <1>2, <1>16, DoneLeads
  <2> QED BY <1>16, <2>1 DEF ProgramInv
<1> USE DEF Reached
<1>5. CASE DeletesMap(t)
  <2>1. m = 1 /\ m < Len(p)
    <3>1. todo[1] = "errno_deinit" BY <1>5 DEF DeletesMap, At
    <3> QED BY ONLY <1>3, <3>1
  <2>2. Reached(m + 1)' BY <1>2, <1>5, <2>1 DEF DeletesMap, ErrnoDeinit
  <2> QED BY <1>0, <1>4, <1>5, <2>1, <2>2 DEF DeletesMap
<1>6. CASE RestoresHandler(t)
  <2>1. m = 2 /\ m < Len(p)
    <3>1. todo[1] = "env_deinit" BY <1>6 DEF RestoresHandler, At
    <3> QED BY ONLY <1>3, <3>1
  <2>2. Reached(m + 1)' BY <1>0, <1>2, <1>6, <2>1 DEF RestoresHandler, ecVars
  <2>3. LibTypes' /\ HandlerInv' BY <1>0, <1>6 DEF RestoresHandler
  <2> QED BY <1>4, <1>6, <2>1, <2>2, <2>3 DEF RestoresHandler
<1>7. CASE ClosesDataset(t)
  <2>1. m = 3 /\ m < Len(p)
    <3>1. todo[1] = "cache_deinit" BY <1>7 DEF ClosesDataset, At
    <3> QED BY ONLY <1>3, <3>1
  <2>2. Reached(m)' BY <1>2, <1>7, <2>1 DEF ClosesDataset, OpBegins
  <2>3. LibTypes' /\ HandlerInv' BY <1>0, <1>7, LibraryAssumption DEF ClosesDataset
  <2>4. todo' = Rest(p, m) /\ boss' \in Tids BY <1>2, <1>7 DEF ClosesDataset
  <2> QED BY <2>2, <2>3, <2>4 DEF ProgramInv
<1>8. CASE DeletesCache(t)
  <2>1. m = 3 /\ m < Len(p)
    <3>1. todo[1] = "cache_deinit" BY <1>8 DEF DeletesCache, At
    <3> QED BY ONLY <1>3, <3>1
  <2>2. Reached(m + 1)' BY <1>2, <1>8, <2>1 DEF DeletesCache, ecVars
  <2>3. LibTypes' /\ HandlerInv' BY <1>0, <1>8, LibraryAssumption DEF DeletesCache
  <2> QED BY <1>4, <1>8, <2>1, <2>2, <2>3 DEF DeletesCache
<1>9. CASE DeletesTokens(t)
  <2>1. m = 4 /\ m < Len(p)
    <3>1. todo[1] = "token_deinit" BY <1>9 DEF DeletesTokens, At
    <3> QED BY ONLY <1>3, <3>1
  <2>2. Reached(m + 1)' BY <1>2, <1>9, <2>1 DEF DeletesTokens, ecVars
  <2>3. LibTypes' /\ HandlerInv' BY <1>0, <1>9 DEF DeletesTokens
  <2> QED BY <1>4, <1>9, <2>1, <2>2, <2>3 DEF DeletesTokens
<1>10. CASE ChangesDrivers(t)
  <2>1. \/ m = 5 /\ todo[1] # "register" /\ todo[1] # "return"
        \/ m = 6 /\ todo[1] = "register"
    BY <1>3, <1>10 DEF ChangesDrivers, At
  <2>2. m < Len(p) BY <1>3, <2>1
  <2>5. UNCHANGED <<live, cached, tokens, sigterm>> /\ (drivers' <=> todo[1] = "register")
    BY <1>10 DEF ChangesDrivers, OpBegins
  <2>3. Reached(m + 1)'
    <3>1. CASE m = 5 BY <1>2, <2>1, <2>5, <3>1
    <3>2. CASE m = 6 BY <1>2, <2>1, <2>5, <3>2
    <3> QED BY <2>1, <3>1, <3>2
  <2>4. LibTypes' /\ HandlerInv' BY <1>0, <1>10 DEF ChangesDrivers
  <2> QED BY <1>4, <1>10, <2>2, <2>3, <2>4 DEF ChangesDrivers
<1>11. CASE MakesMap(t)
  <2>1. m = 7 /\ m < Len(p)
    <3>1. todo[1] = "errno_init" BY <1>11 DEF MakesMap, At
    <3> QED BY ONLY <1>3, <3>1
  <2>2. Reached(m + 1)' BY <1>2, <1>11, <2>1 DEF MakesMap, ErrnoInit
  <2> QED BY <1>0, <1>4, <1>11, <2>1, <2>2 DEF MakesMap
<1>12. ASSUME NEW dump \in BOOLEAN, InstallsHandler(t, dump)
       PROVE  LibTypes' /\ ProgramInv' /\ HandlerInv'
  <2>1. m = 8 /\ m < Len(p)
    <3>1. todo[1] = "env_init" BY <1>12 DEF InstallsHandler, At
    <3> QED BY ONLY <1>3, <3>1
  <2>2. Reached(m + 1)' BY <1>2, <1>12, <2>1 DEF InstallsHandler, ecVars
  <2>3. sigterm = "app" BY <1>2, <2>1
  <2>4. LibTypes' /\ HandlerInv' BY <1>0, <1>12, <2>3 DEF InstallsHandler
  <2> QED BY <1>4, <1>12, <2>1, <2>2, <2>4 DEF InstallsHandler
<1>13. CASE MakesCache(t)
  <2>1. m = 9 /\ m < Len(p)
    <3>1. todo[1] = "cache_init" BY <1>13 DEF MakesCache, At
    <3> QED BY ONLY <1>3, <3>1
  <2>2. Reached(m + 1)' BY <1>2, <1>13, <2>1 DEF MakesCache, ecVars
  <2>3. LibTypes' /\ HandlerInv' BY <1>0, <1>13, LibraryAssumption DEF MakesCache
  <2> QED BY <1>4, <1>13, <2>1, <2>2, <2>3 DEF MakesCache
<1>14. CASE MakesTokens(t)
  <2>1. m = 10 /\ m < Len(p)
    <3>1. todo[1] = "token_init" BY <1>14 DEF MakesTokens, At
    <3> QED BY ONLY <1>3, <3>1
  <2>2. Reached(m + 1)' BY <1>2, <1>14, <2>1 DEF MakesTokens, ecVars
  <2>3. LibTypes' /\ HandlerInv' BY <1>0, <1>14 DEF MakesTokens
  <2> QED BY <1>4, <1>14, <2>1, <2>2, <2>3 DEF MakesTokens
<1>15. CASE Returns(t)
  <2>1. m = Len(p) BY <1>3, <1>15 DEF Returns, At
  <2>2. DownIsClean'
    <3>1. UNCHANGED <<live, cached, tokens, drivers, sigterm>> BY <1>15 DEF Returns, ecVars
    <3>2. CASE m = 6 BY <1>2, <3>1, <3>2 DEF DownIsClean
    <3>3. CASE m = 11 BY <1>2, <3>1, <3>3 DEF DownIsClean
    <3> QED BY <1>3, <2>1, <3>2, <3>3
  <2>3. LibTypes' /\ HandlerInv' BY <1>0, <1>15 DEF Returns
  <2> QED BY <1>16, <1>15, <2>1, <2>2, <2>3 DEF Returns
<1> QED BY <1>5, <1>6, <1>7, <1>8, <1>9, <1>10, <1>11, <1>12, <1>13, <1>14, <1>15 DEF LibraryStep

\* What the threads do outside init and deinit leaves the invariant alone.
LEMMA ProgramFrame ==
    ASSUME LibInv, UNCHANGED <<live, boss, todo, tokens, drivers, sigterm, sa_old, installed>>,
           \/ cached' = cached
           \/ boss = Nobody /\ cached >= 0 /\ cached' \in 0..MaxCached
    PROVE  LibTypes' /\ ProgramInv' /\ HandlerInv'
<1>0. LibTypes /\ ProgramInv /\ HandlerInv BY DEF LibInv
<1>1. LibTypes' /\ HandlerInv'
  BY <1>0, LibraryAssumption DEF LibTypes, HandlerInv
<1>2. CASE cached' = cached
  <2>1. CASE boss = Nobody /\ todo = <<>> /\ DownIsClean
    <3>1. DownIsClean' BY <1>2, <2>1 DEF DownIsClean
    <3> QED BY <1>1, <2>1, <3>1 DEF ProgramInv
  <2>2. ASSUME boss \in Tids, NEW p \in Programs, NEW m \in 1..Len(p), todo = Rest(p, m), Reached(m)
        PROVE  ProgramInv'
    <3>1. Reached(m)' BY <1>2, <2>2 DEF Reached
    <3>2. todo' = Rest(p, m) /\ boss' \in Tids BY <2>2
    <3> QED BY <3>1, <3>2 DEF ProgramInv
  <2>3. ProgramInv' BY <1>0, <2>1, <2>2 DEF ProgramInv
  <2> QED BY <1>1, <2>3
<1>3. CASE boss = Nobody /\ cached >= 0 /\ cached' \in 0..MaxCached
  <2>1. todo = <<>> /\ cached # -1 /\ cached' # -1
    BY <1>0, <1>3, LibraryAssumption DEF ProgramInv
  <2>2. DownIsClean BY <1>0, <1>3, LibraryAssumption DEF ProgramInv
  <2>3. DownIsClean' BY <1>3, <2>1, <2>2 DEF DownIsClean
  <2>4. ProgramInv' BY <1>3, <2>1, <2>3 DEF ProgramInv
  <2> QED BY <1>1, <2>4
<1> QED BY <1>1, <1>2, <1>3

LEMMA ProgramStep ==
    ASSUME LibInv, [LNext]_lVars
    PROVE  LibTypes' /\ ProgramInv' /\ HandlerInv'
<1> DEFINE Goal == LibTypes' /\ ProgramInv' /\ HandlerInv'
<1>1. ASSUME NEW t \in Tids, LibraryStep(t) PROVE Goal BY <1>1, StepKeepsProgram
<1>2. ASSUME NEW t \in Tids, NEW s \in {InitSteps, DeinitSteps}, Begins(t, s) PROVE Goal
  <2>1. PICK p \in Programs : p = Append(s, "return") BY DEF Programs
  <2>2. todo' = Rest(p, 1) /\ 1 \in 1..Len(p)
    <3>1. p \in Seq(StepNames) /\ Len(p) \in {6, 11} BY ProgramSteps
    <3>2. Rest(p, 1) = p BY <3>1, SubSeqFull DEF Rest
    <3> QED BY <1>2, <2>1, <3>1, <3>2 DEF Begins
  <2>3. Reached(1)' BY DEF Reached
  <2>4. ProgramInv' BY <1>2, <2>2, <2>3 DEF Begins, ProgramInv
  <2> QED BY <1>2, <2>4 DEF Begins, LibInv, LibTypes, HandlerInv
<1>3. ASSUME NEW t \in Tids, NEW k \in Kinds, OperationBegins(t, k) PROVE Goal
  <2>1. /\ UNCHANGED <<live, boss, todo, tokens, drivers, sigterm, sa_old, installed>>
        /\ boss = Nobody /\ cached >= 0 /\ cached' \in {cached, cached + 1} /\ cached' <= MaxCached
    BY <1>3 DEF OperationBegins, Up, OpBegins
  <2>2. cached' \in 0..MaxCached BY <2>1, LibraryAssumption DEF LibInv, LibTypes
  <2> QED BY <2>1, <2>2, ProgramFrame
<1>4. CASE UNCHANGED libVars /\ UNCHANGED live
  BY <1>4, ProgramFrame DEF libVars
<1>5. CASE UNCHANGED lVars BY <1>4, <1>5 DEF lVars, ecVars
<1>6. CASE ClockTicks /\ UNCHANGED libVars BY <1>4, <1>6 DEF ClockTicks
<1>7. ASSUME NEW t \in Tids, (EcStep(t) \/ ThreadEnds(t)) /\ UNCHANGED libVars PROVE Goal
  <2>1. live' = live
    BY <1>7 DEF EcStep, ThreadEnds, GdalSignals, CompareReports, CountReport, StoreErrno, GdalAnswers,
                GdalFails, CompareTimes, GetLastErrno, OpReturns
  <2> QED BY <1>4, <1>7, <2>1
<1> QED BY <1>1, <1>2, <1>3, <1>5, <1>6, <1>7 DEF LNext

LEMMA BossStep ==
    ASSUME LibInv, EcTypeOK, [LNext]_lVars
    PROVE  BossInv'
<1> USE LibraryAssumption DEF EcTypeOK, BossInv, Goto
<1>0. LibTypes /\ BossInv BY DEF LibInv
<1>1. ASSUME NEW t \in Tids, NEW s \in {InitSteps, DeinitSteps}, Begins(t, s) PROVE BossInv'
  BY <1>1 DEF Begins, ecVars
<1>2. ASSUME NEW t \in Tids, NEW k \in Kinds, OperationBegins(t, k) PROVE BossInv'
  BY <1>0, <1>2 DEF OperationBegins, Up, OpBegins, LibTypes
<1>3. ASSUME NEW t \in Tids, ClosesDataset(t) \/ ChangesDrivers(t) PROVE BossInv'
  <2>1. boss = t /\ pc[t] = "idle" BY <1>3 DEF ClosesDataset, ChangesDrivers, At
  <2>2. /\ pc' = [pc EXCEPT ![t] = "gdal"] /\ kind' = [kind EXCEPT ![t] = "library"]
    BY <1>3 DEF ClosesDataset, ChangesDrivers, OpBegins
  <2>3. \A u \in Tids \ {t} : pc[u] = "idle" BY <1>0, <2>1
  <2>4. boss' = t
    <3>1. CASE ClosesDataset(t) BY <2>1, <3>1 DEF ClosesDataset
    <3>2. CASE ChangesDrivers(t)
      <4>1. PICK p \in Programs : \E m \in 1..Len(p) :
                todo = Rest(p, m) /\ p[m] \in {"unregister", "register"}
        BY <3>2, AtPlace DEF ChangesDrivers, LibInv
      <4>2. PICK m \in 1..Len(p) : todo = Rest(p, m) /\ p[m] \in {"unregister", "register"}
        BY <4>1
      <4>3. m # Len(p) /\ Len(p) \in {6, 11} BY <4>2, ProgramSteps
      <4>4. Len(todo) = Len(p) - m + 1 BY <4>2, RestFacts
      <4>5. Len(todo) # 1 BY <4>3, <4>4
      <4> QED BY <2>1, <3>2, <4>5 DEF ChangesDrivers, Done
    <3> QED BY <1>3, <3>1, <3>2
  <2> QED BY <2>2, <2>3, <2>4
<1>4. ASSUME NEW t \in Tids,
             \/ DeletesMap(t) \/ RestoresHandler(t) \/ DeletesCache(t) \/ DeletesTokens(t)
             \/ MakesMap(t) \/ (\E dump \in BOOLEAN : InstallsHandler(t, dump))
             \/ MakesCache(t) \/ MakesTokens(t) \/ Returns(t)
      PROVE  BossInv'
  <2>1. boss = t /\ pc[t] = "idle" /\ pc' = pc
    BY <1>4 DEF DeletesMap, RestoresHandler, DeletesCache, DeletesTokens, MakesMap, InstallsHandler,
                MakesCache, MakesTokens, Returns, At, ecVars, ErrnoInit, ErrnoDeinit
  <2> QED BY <1>0, <2>1
<1>5. ASSUME NEW t \in Tids, EcStep(t), UNCHANGED libVars PROVE BossInv'
  <2>1. /\ pc[t] # "idle" /\ \A u \in Tids \ {t} : pc'[u] = pc[u] /\ kind'[u] = kind[u]
        /\ pc'[t] = "idle" \/ kind'[t] = kind[t]
    BY <1>5 DEF EcStep, GdalSignals, CompareReports, CountReport, StoreErrno, GdalAnswers,
                GdalFails, CompareTimes, GetLastErrno, OpReturns
  <2> QED BY <1>0, <1>5, <2>1 DEF libVars
<1>6. CASE UNCHANGED <<pc, kind>> /\ UNCHANGED libVars BY <1>0, <1>6 DEF libVars
<1>7. CASE UNCHANGED lVars BY <1>6, <1>7 DEF lVars, ecVars
<1>8. CASE ClockTicks /\ UNCHANGED libVars BY <1>6, <1>8 DEF ClockTicks
<1>9. ASSUME NEW t \in Tids, ThreadEnds(t), UNCHANGED libVars PROVE BossInv'
  BY <1>6, <1>9 DEF ThreadEnds
<1> QED BY <1>1, <1>2, <1>3, <1>4, <1>5, <1>7, <1>8, <1>9 DEF LNext, LibraryStep

-------------------------------------------------------------------------------
(* The errnos, as init, deinit and the operations see them. *)

\* What any step of the library does to the state of ErrorCodes.
EcNext ==
    \/ ClockTicks \/ ErrnoInit
    \/ ErrnoDeinit /\ \A t \in Tids : pc[t] = "idle"
    \/ \E t \in Tids :
           \/ EcStep(t) \/ ThreadEnds(t)
           \/ \E k \in Kinds \cup {"library"} : OpBegins(t, k)

LEMMA EcView ==
    ASSUME LibInv, [LNext]_lVars
    PROVE  [EcNext]_ecVars
<1>1. ASSUME NEW t \in Tids, DeletesMap(t) PROVE EcNext
  <2>1. boss = t /\ boss # Nobody /\ pc[t] = "idle" BY <1>1, LibraryAssumption DEF DeletesMap, At
  <2>2. \A u \in Tids : pc[u] = "idle" BY <2>1 DEF LibInv, BossInv
  <2> QED BY <1>1, <2>2 DEF DeletesMap, EcNext
<1>2. ASSUME NEW t \in Tids, ClosesDataset(t) \/ ChangesDrivers(t) PROVE EcNext
  BY <1>2 DEF ClosesDataset, ChangesDrivers, EcNext
<1>3. ASSUME NEW t \in Tids, MakesMap(t) PROVE EcNext
  BY <1>3 DEF MakesMap, EcNext
<1>4. ASSUME NEW t \in Tids,
             \/ RestoresHandler(t) \/ DeletesCache(t) \/ DeletesTokens(t)
             \/ (\E dump \in BOOLEAN : InstallsHandler(t, dump))
             \/ MakesCache(t) \/ MakesTokens(t) \/ Returns(t)
             \/ Begins(t, InitSteps) \/ Begins(t, DeinitSteps)
      PROVE  UNCHANGED ecVars
  BY <1>4 DEF RestoresHandler, DeletesCache, DeletesTokens, InstallsHandler, MakesCache, MakesTokens,
              Returns, Begins
<1>5. ASSUME NEW t \in Tids, NEW k \in Kinds, OperationBegins(t, k) PROVE EcNext
  BY <1>5 DEF OperationBegins, EcNext
<1> QED BY <1>1, <1>2, <1>3, <1>4, <1>5 DEF LNext, LibraryStep, EcNext, lVars

\* The clock shows no zero, which in the map stands for no error.
EcTypes == EcTypeOK /\ now # 0

LEMMA EcTypesInit == EcInit => EcTypes
<1> SUFFICES ASSUME EcInit PROVE EcTypes OBVIOUS
<1>1. 0 \in Times /\ 1 \in Times BY ErrorsAssumption DEF Times
<1>2. now \in Times /\ now # 0 /\ reported \in Nat BY <1>1 DEF EcInit
<1>3. at \in [Tids -> Times] /\ before \in [Tids -> Times] BY <1>1 DEF EcInit
<1>4. /\ errno \in [Tids -> Errors \cup {CPLE_None}] /\ num \in [Tids -> Errors \cup {CPLE_None}]
      /\ \A t \in Tids : at[t] = 0 /\ errno[t] = CPLE_None
  BY DEF EcInit
<1>5. /\ live \in BOOLEAN /\ hook \in BOOLEAN /\ empty \in [Tids -> BOOLEAN] BY DEF EcInit
<1>6. /\ pc \in [Tids -> {"idle", "gdal", "put", "count", "store", "after", "fail", "done"}]
      /\ kind \in [Tids -> {"plain", "metadata", "library"}]
  BY DEF EcInit
<1>7. /\ got \in [Tids -> Errors \cup {ObjectNull, NoError}]
      /\ mine \in [Tids -> Messages \cup {CPLE_None}]
      /\ inOp \in [Tids -> Messages \cup {CPLE_None}]
  BY DEF EcInit
<1> QED BY <1>2, <1>3, <1>4, <1>5, <1>6, <1>7 DEF EcTypes, EcTypeOK

LEMMA EcTypesStep ==
    ASSUME EcTypes, [EcNext]_ecVars
    PROVE  EcTypes'
<1> USE ErrorsAssumption DEF EcTypes, EcTypeOK, Times, Messages, Goto, mapVars, history
<1>1. CASE ClockTicks BY <1>1 DEF ClockTicks
<1>2. CASE ErrnoInit BY <1>2 DEF ErrnoInit
<1>3. CASE ErrnoDeinit
  <2>1. /\ at' \in [Tids -> Times] /\ errno' \in [Tids -> Errors \cup {CPLE_None}]
        /\ \A t \in Tids : at'[t] = 0 /\ errno'[t] = CPLE_None
    BY <1>3 DEF ErrnoDeinit
  <2>2. mine' \in [Tids -> Messages \cup {CPLE_None}] /\ live' \in BOOLEAN
    BY <1>3 DEF ErrnoDeinit
  <2>3. UNCHANGED <<hook, now, reported, pc, kind, before, num, got, inOp, empty>>
    BY <1>3 DEF ErrnoDeinit
  <2> QED BY ONLY EcTypes, <2>1, <2>2, <2>3 DEF EcTypes, EcTypeOK
<1>4. ASSUME NEW t \in Tids, NEW k \in Kinds \cup {"library"}, OpBegins(t, k) PROVE EcTypes'
  BY <1>4 DEF OpBegins
<1>5. ASSUME NEW t \in Tids, ThreadEnds(t) PROVE EcTypes' BY <1>5 DEF ThreadEnds
<1>6. ASSUME NEW t \in Tids, NEW m \in Messages, GdalSignals(t, m) PROVE EcTypes'
  <2>1. ErrNo(m) \in Errors \cup {CPLE_None} BY DEF ErrNo
  <2> QED BY <1>6, <2>1 DEF GdalSignals
<1>7. ASSUME NEW t \in Tids, CompareReports(t) PROVE EcTypes' BY <1>7 DEF CompareReports
<1>8. ASSUME NEW t \in Tids, CountReport(t) PROVE EcTypes' BY <1>8 DEF CountReport
<1>9. ASSUME NEW t \in Tids, StoreErrno(t) PROVE EcTypes' BY <1>9 DEF StoreErrno, StoreLast
<1>10. ASSUME NEW t \in Tids, GdalAnswers(t) PROVE EcTypes' BY <1>10 DEF GdalAnswers
<1>11. ASSUME NEW t \in Tids, GdalFails(t) PROVE EcTypes' BY <1>11 DEF GdalFails
<1>12. ASSUME NEW t \in Tids, CompareTimes(t) PROVE EcTypes' BY <1>12 DEF CompareTimes
<1>13. ASSUME NEW t \in Tids, GetLastErrno(t) PROVE EcTypes' BY <1>13 DEF GetLastErrno
<1>14. ASSUME NEW t \in Tids, OpReturns(t) PROVE EcTypes' BY <1>14 DEF OpReturns
<1>15. CASE UNCHANGED ecVars BY <1>15 DEF ecVars
<1> QED BY <1>1, <1>2, <1>3, <1>4, <1>5, <1>6, <1>7, <1>8, <1>9, <1>10, <1>11, <1>12, <1>13, <1>14,
           <1>15 DEF EcNext, EcStep

LEMMA LibraryInvariant == LSpec => []LibInv /\ []EcTypes
<1>1. LInit => LibInv /\ EcTypes BY LibInit, EcTypesInit DEF LInit
<1>2. LibInv /\ EcTypes /\ [LNext]_lVars => LibInv' /\ EcTypes'
  BY ProgramStep, BossStep, EcView, EcTypesStep DEF LibInv, EcTypes
<1> QED BY <1>1, <1>2, PTL DEF LSpec

\* Types, the program that is left to a thread inside init or deinit included.
THEOREM LibraryTypeCorrect == LSpec => []LTypeOK
<1>1. LibInv /\ EcTypes => LTypeOK
  <2> SUFFICES ASSUME LibInv, EcTypes PROVE LTypeOK OBVIOUS
  <2>1. CASE boss = Nobody /\ todo = <<>>
    <3>1. todo \in Seq(StepNames) /\ Len(todo) = 0 BY <2>1, EmptySeq
    <3>2. Len(InitSteps) = 10 BY InitTable
    <3> QED BY <2>1, <3>1, <3>2 DEF LTypeOK, StepNames, LibInv, LibTypes, EcTypes
  <2>2. CASE boss \in Tids /\ \E p \in Programs : \E m \in 1..Len(p) : todo = Rest(p, m)
    <3>1. PICK p \in Programs : \E m \in 1..Len(p) : todo = Rest(p, m) BY <2>2
    <3>2. PICK m \in 1..Len(p) : todo = Rest(p, m) BY <3>1
    <3>3. /\ todo \in Seq(StepNames) /\ todo # <<>> /\ Len(todo) = Len(p) - m + 1
          /\ Len(p) \in {6, 11} /\ Len(InitSteps) = 10
      BY <3>2, RestFacts, ProgramSteps, InitTable
    <3>4. Len(todo) <= Len(InitSteps) + 1
      <4>1. m \in Nat /\ m >= 1 BY <3>3
      <4>2. Len(todo) = Len(p) - m + 1 /\ (Len(p) = 6 \/ Len(p) = 11) /\ Len(InitSteps) = 10
        BY ONLY <3>3
      <4>3. Len(todo) = 6 - m + 1 \/ Len(todo) = 11 - m + 1 BY ONLY <4>2
      <4>4. Len(todo) <= 11 BY ONLY <4>1, <4>3
      <4> QED BY ONLY <4>2, <4>4
    <3> QED BY <2>2, <3>3, <3>4, LibraryAssumption DEF LTypeOK, StepNames, LibInv, LibTypes, EcTypes
  <2> QED BY <2>1, <2>2 DEF LibInv, ProgramInv
<1> QED BY <1>1, LibraryInvariant, PTL

\* deinit takes down whatever any init has set up, and init sets up all of it.
THEOREM DeinitIsClean == LSpec => []DownIsClean
<1>1. LibInv => DownIsClean
  BY LibraryAssumption DEF LibInv, ProgramInv, DownIsClean
<1> QED BY <1>1, LibraryInvariant, PTL

\* An error that finds no map is one of init or deinit itself.
THEOREM MapIsThere == LSpec => []ErrorsFindTheMap
<1>1. LibInv => ErrorsFindTheMap
  <2> SUFFICES ASSUME LibInv, NEW t \in Tids, pc[t] = "store", ~live
               PROVE  boss = t /\ kind[t] = "library"
    BY DEF ErrorsFindTheMap
  <2>1. pc[t] # "idle" OBVIOUS
  <2>2. boss = Nobody => cached = -1
    BY LibraryAssumption DEF LibInv, ProgramInv, DownIsClean
  <2> QED BY <2>1, <2>2 DEF LibInv, BossInv
<1> QED BY <1>1, LibraryInvariant, PTL
-------------------------------------------------------------------------------
(* The limit of the reports. *)

Counting == {t \in Tids : pc[t] = "count"}

RepInv == reported \in Nat /\ ReportsBounded

LEMMA CountingFinite ==
    /\ IsFiniteSet(Counting) /\ Cardinality(Counting) \in Nat /\ Cardinality(Tids) \in Nat
    /\ Cardinality(Counting) <= Cardinality(Tids)
<1>1. Counting \subseteq Tids BY DEF Counting
<1> QED BY <1>1, ErrorsAssumption, FS_Subset, FS_CardinalityType

LEMMA RepStep ==
    ASSUME EcTypes, RepInv, [EcNext]_ecVars
    PROVE  RepInv'
<1>1. Counting' \subseteq Tids BY DEF Counting
<1>2. /\ Cardinality(Counting) \in Nat /\ Cardinality(Counting') \in Nat /\ Cardinality(Tids) \in Nat
      /\ Cardinality(Counting') <= Cardinality(Tids)
  BY <1>1, CountingFinite, ErrorsAssumption, FS_Subset, FS_CardinalityType
<1>3. reported \in Nat /\ MaxReports \in Nat BY ErrorsAssumption DEF RepInv
<1>4. reported + Cardinality(Counting) < MaxReports + Cardinality(Tids)
  BY DEF RepInv, ReportsBounded, Counting
<1>5. SUFFICES reported' \in Nat
               /\ reported' + Cardinality(Counting') < MaxReports + Cardinality(Tids)
  BY DEF RepInv, ReportsBounded, Counting
<1>6. CASE reported' = reported /\ Counting' \subseteq Counting
  <2>1. Cardinality(Counting') <= Cardinality(Counting) BY <1>6, CountingFinite, FS_Subset
  <2> QED BY <1>2, <1>3, <1>4, <1>6, <2>1
<1>7. CASE reported' = reported /\ MayReport
  BY <1>2, <1>3, <1>7 DEF MayReport
<1>8. ASSUME NEW t \in Tids, CountReport(t) PROVE reported' = reported + 1 /\ Counting' = Counting \ {t}
  BY <1>8 DEF CountReport, Goto, Counting, EcTypes, EcTypeOK
<1>9. ASSUME NEW t \in Tids, CountReport(t)
      PROVE  reported' \in Nat /\ reported' + Cardinality(Counting') < MaxReports + Cardinality(Tids)
  <2>1. t \in Counting BY <1>9 DEF CountReport, Counting
  <2>2. Cardinality(Counting') = Cardinality(Counting) - 1
    BY <1>8, <1>9, <2>1, CountingFinite, FS_RemoveElement
  <2> QED BY <1>2, <1>3, <1>4, <1>8, <1>9, <2>2
<1>10. ASSUME NEW t \in Tids, CompareReports(t)
       PROVE  reported' = reported /\ (MayReport \/ Counting' \subseteq Counting)
  BY <1>10 DEF CompareReports, Goto, Counting, EcTypes, EcTypeOK
<1>11. ASSUME \/ UNCHANGED ecVars \/ ClockTicks \/ ErrnoInit \/ ErrnoDeinit
              \/ \E t \in Tids : ThreadEnds(t)
       PROVE  reported' = reported /\ Counting' \subseteq Counting
  BY <1>11 DEF ecVars, ClockTicks, ErrnoInit, ErrnoDeinit, ThreadEnds, Counting
<1>12. ASSUME NEW t \in Tids,
              \/ \E k \in Kinds \cup {"library"} : OpBegins(t, k)
              \/ \E m \in Messages : GdalSignals(t, m)
              \/ StoreErrno(t) \/ GdalAnswers(t) \/ GdalFails(t) \/ CompareTimes(t)
              \/ GetLastErrno(t) \/ OpReturns(t)
       PROVE  reported' = reported /\ Counting' \subseteq Counting
  <2>1. reported' = reported /\ \E l : l # "count" /\ pc' = [pc EXCEPT ![t] = l]
    BY <1>12 DEF OpBegins, GdalSignals, StoreErrno, GdalAnswers, GdalFails, CompareTimes,
                 GetLastErrno, OpReturns, Goto
  <2> QED BY <2>1 DEF Counting, EcTypes, EcTypeOK
<1> QED BY <1>6, <1>7, <1>9, <1>10, <1>11, <1>12 DEF EcNext, EcStep

\* However many threads compare the limit before one of them counts.
THEOREM ReportsStayBounded ==
    ASSUME Tids # {}
    PROVE  LSpec => []ReportsBounded
<1>1. LInit => RepInv
  <2> SUFFICES ASSUME LInit PROVE RepInv OBVIOUS
  <2>1. Counting = {} /\ reported = 0 BY DEF LInit, EcInit, Counting
  <2>2. Cardinality(Counting) = 0 /\ Cardinality(Tids) \in Nat /\ Cardinality(Tids) # 0
    BY <2>1, ErrorsAssumption, FS_EmptySet, FS_CardinalityType
  <2> QED BY <2>1, <2>2, ErrorsAssumption DEF RepInv, ReportsBounded, Counting
<1>2. LibInv /\ EcTypes /\ RepInv /\ [LNext]_lVars => RepInv' BY EcView, RepStep
<1>3. RepInv => ReportsBounded BY DEF RepInv
<1> QED BY <1>1, <1>2, <1>3, LibraryInvariant, PTL DEF LSpec

-------------------------------------------------------------------------------
(* What a thread may conclude from its errno. *)

Putting == {"put", "count", "store"}

\* From the signal to the map: the message is in num, and the thread's last one.
OnItsWay(t) ==
    pc[t] \in Putting => /\ mine[t] # CPLE_None /\ inOp[t] = mine[t]
                         /\ num[t] = ErrNo(mine[t])

\* Afterwards it waits in the map.
Waits(t) ==
    pc[t] \notin Putting /\ mine[t] # CPLE_None => at[t] # 0 /\ errno[t] = ErrNo(mine[t])

\* Until it is fetched, the last message of the operation is the thread's last.
IsLast(t) == pc[t] \in {"gdal", "after", "fail"} /\ inOp[t] # CPLE_None => mine[t] = inOp[t]

\* What an operation leaves behind it, and what it has not found yet.
Fresh(t) ==
    /\ pc[t] = "idle" => inOp[t] = CPLE_None
    /\ pc[t] # "done" => got[t] = NoError
    /\ pc[t] \notin {"after", "fail", "done"} => ~empty[t]
    /\ pc[t] = "after" => kind[t] = "metadata"

\* The timestamp is the one that was taken, unless there has been a message since.
SameTime(t) ==
    pc[t] \in {"gdal", "after"} /\ kind[t] = "metadata" /\ inOp[t] = CPLE_None =>
        before[t] = at[t]

\* An operation that is about to fail has met an error ...
HasFailed(t) ==
    pc[t] = "fail" /\ (kind[t] = "metadata" \/ ~QuietFailures) => inOp[t] # CPLE_None

\* ... and one that is over has answered with it.
Answered(t) ==
    /\ pc[t] = "done" /\ kind[t] = "metadata" /\ inOp[t] = CPLE_None => got[t] = NoError
    /\ ~QuietFailures /\ got[t] # NoError =>
           IF inOp[t] = Debug THEN got[t] = ObjectNull ELSE got[t] = inOp[t]

\* If no two errors of a thread come in one millisecond: the timestamps grow.
TimesGrow(t) ==
    SlowErrors =>
        /\ at[t] <= now
        /\ pc[t] \in Putting => at[t] < now
        /\ pc[t] \in Putting \cup {"gdal", "after"} /\ kind[t] = "metadata" =>
               /\ before[t] <= at[t]
               /\ pc[t] \notin Putting /\ inOp[t] # CPLE_None => before[t] < at[t]
        /\ pc[t] = "done" /\ empty[t] /\ inOp[t] # CPLE_None => got[t] # NoError

ThreadInv(t) ==
    /\ OnItsWay(t) /\ Waits(t) /\ IsLast(t) /\ Fresh(t) /\ SameTime(t)
    /\ HasFailed(t) /\ Answered(t) /\ TimesGrow(t)

ErrnoInv == \A t \in Tids : ThreadInv(t)

\* As many as the threads are, the map never has to be cleared.
LEMMA NeverTooLarge ==
    ASSUME Cardinality(Tids) <= Limit + 1, NEW t \in Tids, NEW m \in [Tids -> Times]
    PROVE  ~TooLarge([m EXCEPT ![t] = 0])
<1> DEFINE S == {u \in Tids : [m EXCEPT ![t] = 0][u] # 0}
<1>1. S \subseteq Tids \ {t} OBVIOUS
<1>2. /\ IsFiniteSet(Tids \ {t}) /\ Cardinality(Tids \ {t}) = Cardinality(Tids) - 1
      /\ Cardinality(Tids) \in Nat
  BY ErrorsAssumption, FS_RemoveElement, FS_CardinalityType
<1>3. Cardinality(S) <= Cardinality(Tids \ {t}) /\ Cardinality(S) \in Nat
  BY <1>1, <1>2, FS_Subset, FS_CardinalityType
<1>4. Cardinality(S) <= Limit
  <2> HIDE DEF S
  <2> QED BY <1>2, <1>3, ErrorsAssumption
<1> QED BY <1>4, <1>3, ErrorsAssumption DEF TooLarge

\* A step that another thread takes.
LEMMA OthersStep ==
    ASSUME EcTypes, EcTypes', NEW t \in Tids, ThreadInv(t), now <= now',
           errno'[t] = errno[t], at'[t] = at[t], pc'[t] = pc[t], kind'[t] = kind[t],
           before'[t] = before[t], num'[t] = num[t], got'[t] = got[t],
           mine'[t] = mine[t], inOp'[t] = inOp[t], empty'[t] = empty[t]
    PROVE  ThreadInv(t)'
<1>1. /\ OnItsWay(t)' /\ Waits(t)' /\ IsLast(t)' /\ Fresh(t)' /\ SameTime(t)' /\ HasFailed(t)'
      /\ Answered(t)'
  BY DEF ThreadInv, OnItsWay, Waits, IsLast, Fresh, SameTime, HasFailed, Answered, ErrNo
<1>2. TimesGrow(t)'
  <2>1. at[t] \in Int /\ now \in Int /\ now' \in Int BY DEF EcTypes, EcTypeOK, Times
  <2>2. TimesGrow(t) BY DEF ThreadInv
  <2> QED BY <2>1, <2>2 DEF TimesGrow
<1> QED BY <1>1, <1>2 DEF ThreadInv

\* What an operation does to the errno of another thread: nothing.
LEMMA OthersAlone ==
    ASSUME Cardinality(Tids) <= Limit + 1, EcTypes, NEW t \in Tids, NEW u \in Tids, u # t,
           \/ EcStep(t) \/ ThreadEnds(t)
           \/ \E k \in Kinds \cup {"library"} : OpBegins(t, k)
    PROVE  /\ errno'[u] = errno[u] /\ at'[u] = at[u] /\ pc'[u] = pc[u] /\ kind'[u] = kind[u]
           /\ before'[u] = before[u] /\ num'[u] = num[u] /\ got'[u] = got[u]
           /\ mine'[u] = mine[u] /\ inOp'[u] = inOp[u] /\ empty'[u] = empty[u]
           /\ now' = now
<1> USE DEF EcTypes, EcTypeOK, Goto, mapVars, history
<1>1. CASE GetLastErrno(t)
  <2>1. ~TooLarge([at EXCEPT ![t] = 0]) BY NeverTooLarge
  <2> QED BY <1>1, <2>1 DEF GetLastErrno
<1>2. CASE EcStep(t) /\ ~GetLastErrno(t)
  BY <1>2 DEF EcStep, GdalSignals, CompareReports, CountReport, StoreErrno, StoreLast, GdalAnswers,
              GdalFails, CompareTimes, OpReturns
<1>3. CASE ThreadEnds(t) BY <1>3 DEF ThreadEnds
<1>4. ASSUME NEW k \in Kinds \cup {"library"}, OpBegins(t, k)
      PROVE  /\ UNCHANGED <<errno, at, num, got, mine, inOp, empty, now>>
             /\ pc'[u] = pc[u] /\ kind'[u] = kind[u] /\ before'[u] = before[u]
  BY <1>4 DEF OpBegins
<1> QED BY <1>1, <1>2, <1>3, <1>4

LEMMA OwnStep ==
    ASSUME Cardinality(Tids) <= Limit + 1, EcTypes, EcTypes', NEW t \in Tids, ThreadInv(t),
           \/ EcStep(t) \/ ThreadEnds(t)
           \/ \E k \in Kinds \cup {"library"} : OpBegins(t, k)
    PROVE  ThreadInv(t)'
<1> USE ErrorsAssumption DEF EcTypes, EcTypeOK, Times, Goto, mapVars, history, Putting,
        ThreadInv, OnItsWay, Waits, IsLast, Fresh, SameTime, HasFailed, Answered, TimesGrow
<1>1. ASSUME NEW k \in Kinds \cup {"library"}, OpBegins(t, k) PROVE ThreadInv(t)'
  BY <1>1 DEF OpBegins
<1>2. CASE ThreadEnds(t) BY <1>2 DEF ThreadEnds
<1>3. ASSUME NEW m \in Messages, GdalSignals(t, m) PROVE ThreadInv(t)'
  BY <1>3 DEF GdalSignals, Messages
<1>4. CASE CompareReports(t) BY <1>4 DEF CompareReports
<1>5. CASE CountReport(t) BY <1>5 DEF CountReport
<1>6. CASE StoreErrno(t) BY <1>6 DEF StoreErrno, StoreLast
<1>7. CASE GdalAnswers(t) BY <1>7 DEF GdalAnswers
<1>8. CASE GdalFails(t) BY <1>8 DEF GdalFails
<1>9. CASE CompareTimes(t) BY <1>9 DEF CompareTimes, NoErrorSince
<1>10. CASE GetLastErrno(t)
  <2>1. ~TooLarge([at EXCEPT ![t] = 0]) BY NeverTooLarge
  <2>2. /\ errno'[t] = CPLE_None /\ at'[t] = 0 /\ mine'[t] = CPLE_None /\ pc[t] = "fail"
        /\ pc'[t] = "done" /\ kind'[t] = kind[t] /\ inOp'[t] = inOp[t]
        /\ empty'[t] = empty[t] /\ before'[t] = before[t] /\ num'[t] = num[t] /\ now' = now
        /\ got'[t] = IF errno[t] = CPLE_None THEN ObjectNull ELSE errno[t]
    BY <1>10, <2>1 DEF GetLastErrno
  <2>3. got'[t] # NoError BY <2>2
  <2>4. inOp[t] # CPLE_None =>
            got'[t] = IF inOp[t] = Debug THEN ObjectNull ELSE inOp[t]
    BY <2>2 DEF ErrNo, Messages
  <2>5. Answered(t)' BY <2>2, <2>4
  <2>6. TimesGrow(t)' BY <2>2, <2>3
  <2> QED BY <2>2, <2>5, <2>6
<1>11. CASE OpReturns(t) BY <1>11 DEF OpReturns
<1> QED BY <1>1, <1>2, <1>3, <1>4, <1>5, <1>6, <1>7, <1>8, <1>9, <1>10, <1>11 DEF EcStep

LEMMA ErrnoStep ==
    ASSUME Cardinality(Tids) <= Limit + 1, EcTypes, ErrnoInv, [EcNext]_ecVars
    PROVE  ErrnoInv'
<1>1. EcTypes' BY EcTypesStep
<1>2. SUFFICES ASSUME NEW u \in Tids PROVE ThreadInv(u)' BY DEF ErrnoInv
<1>3. ThreadInv(u) /\ now \in Int /\ now' \in Int
  BY <1>1 DEF ErrnoInv, EcTypes, EcTypeOK, Times
<1>4. CASE UNCHANGED ecVars \/ ErrnoInit \/ ClockTicks
  <2>1. /\ UNCHANGED <<errno, at, pc, kind, before, num, got, mine, inOp, empty>>
        /\ now' = now \/ now' = now + 1
    BY <1>4 DEF ecVars, ErrnoInit, ClockTicks, mapVars, history
  <2>2. now <= now' BY <1>3, <2>1
  <2> QED BY <1>1, <1>3, <2>1, <2>2, OthersStep
<1>5. CASE ErrnoDeinit /\ \A t \in Tids : pc[t] = "idle"
  <2>1. /\ at'[u] = 0 /\ mine'[u] = CPLE_None /\ pc[u] = "idle"
        /\ UNCHANGED <<now, pc, kind, got, inOp, empty>>
    BY <1>5 DEF ErrnoDeinit
  <2> QED BY <1>3, <2>1, ErrorsAssumption
      DEF EcTypes, EcTypeOK, Times, Putting, ThreadInv, OnItsWay, Waits, IsLast, Fresh, SameTime,
          HasFailed, Answered, TimesGrow
<1>6. ASSUME NEW t \in Tids,
             \/ EcStep(t) \/ ThreadEnds(t)
             \/ \E k \in Kinds \cup {"library"} : OpBegins(t, k)
      PROVE  ThreadInv(u)'
  <2>1. CASE u = t BY <1>1, <1>3, <1>6, <2>1, OwnStep
  <2>2. CASE u # t
    <3>1. now <= now' BY <1>3, <1>6, <2>2, OthersAlone
    <3> QED BY <1>1, <1>3, <1>6, <2>2, <3>1, OthersAlone, OthersStep
  <2> QED BY <2>1, <2>2
<1> QED BY <1>4, <1>5, <1>6 DEF EcNext

LEMMA ErrnoInvariant ==
    ASSUME Cardinality(Tids) <= Limit + 1
    PROVE  LSpec => []ErrnoInv
<1>1. LInit => ErrnoInv
  <2> SUFFICES ASSUME LInit, NEW t \in Tids PROVE ThreadInv(t) BY DEF ErrnoInv
  <2> QED BY ErrorsAssumption
      DEF LInit, EcInit, Putting, ThreadInv, OnItsWay, Waits, IsLast, Fresh, SameTime,
          HasFailed, Answered, TimesGrow
<1>2. LibInv /\ EcTypes /\ ErrnoInv /\ [LNext]_lVars => ErrnoInv' BY EcView, ErrnoStep
<1> QED BY <1>1, <1>2, LibraryInvariant, PTL DEF LSpec

\* No error is lost to another thread's, as long as the map need not be cleared.
THEOREM ErrorsWait ==
    ASSUME Cardinality(Tids) <= Limit + 1
    PROVE  LSpec => []NoErrorLost
<1>1. ErrnoInv => NoErrorLost BY DEF ErrnoInv, ThreadInv, Waits, NoErrorLost, Putting
<1> QED BY <1>1, ErrnoInvariant, PTL

\* If GDAL signals whatever fails, no error of an earlier operation, or of an earlier
\* thread of the same number, is answered for one of this.
THEOREM FailuresAreOwn ==
    ASSUME Cardinality(Tids) <= Limit + 1, ~QuietFailures
    PROVE  LSpec => []FailureIsOfThisCall
<1>1. ErrnoInv => FailureIsOfThisCall
  BY DEF ErrnoInv, ThreadInv, Answered, FailureIsOfThisCall
<1> QED BY <1>1, ErrnoInvariant, PTL

\* An operation on metadata is told from an empty one by the time, if that is finer
\* than the errors ...
THEOREM MetadataFailuresAreSeen ==
    ASSUME Cardinality(Tids) <= Limit + 1, SlowErrors
    PROVE  LSpec => []MetadataFailureIsSeen
<1>1. ErrnoInv => MetadataFailureIsSeen
  BY DEF ErrnoInv, ThreadInv, TimesGrow, MetadataFailureIsSeen
<1> QED BY <1>1, ErrnoInvariant, PTL

\* ... and an empty answer is never a failure.
THEOREM EmptyAnswersPass ==
    ASSUME Cardinality(Tids) <= Limit + 1
    PROVE  LSpec => []EmptyIsAnAnswer
<1>1. ErrnoInv => EmptyIsAnAnswer BY DEF ErrnoInv, ThreadInv, Answered, EmptyIsAnAnswer
<1> QED BY <1>1, ErrnoInvariant, PTL
==============================================================================
