------------------------------- MODULE Library -------------------------------
(***************************************************************************)
(* The life of the library (bindings.cpp: init, deinit, and what they call). *)
(* init begins with all of deinit, so that it may be called again; each of   *)
(* the two is a fixed order of steps, and some of them are calls of GDAL,    *)
(* which may signal errors and debug messages on the thread that is inside.  *)
(*                                                                           *)
(* The module extends ErrorCodes: the operations of the datasets run between *)
(* an init and a deinit.  That nobody calls init or deinit while another is  *)
(* inside the library is up to the callers; nothing in the code sees to it.  *)
(***************************************************************************)
EXTENDS ErrorCodes, Sequences

CONSTANTS
    Nobody,         \* no thread is inside init or deinit
    MaxCached       \* bound: the datasets that are open in the cache

ASSUME LibraryAssumption == Nobody \notin Tids /\ MaxCached \in Nat

VARIABLES
    boss,       \* the thread inside init or deinit
    todo,       \* the steps that are left to it
    cached,     \* the datasets open in the cache; -1 if there is no cache
    tokens,     \* whether there is a cache of tokens
    drivers,    \* whether GDAL's drivers are registered
    sigterm,    \* whose handler SIGTERM has: the application's or the library's,
    sa_old,     \* ... the one that was replaced,
    installed   \* ... and handler_installed

libVars == <<boss, todo, cached, tokens, drivers, sigterm, sa_old, installed>>
lVars   == <<ecVars, libVars>>

\* deinit().
DeinitSteps == <<"errno_deinit", "env_deinit", "cache_deinit", "token_deinit", "unregister">>

\* What init() does after deinit().
Setup == <<"register", "errno_init", "env_init", "cache_init", "token_init">>

-------------------------------------------------------------------------------
(* Bugs this code could have had, each before the definition it is a faulty  *)
(* form of; no action uses them.                                             *)

\* init() does not begin with deinit().
OnlySetup == Setup

\* The error handler is set up first, and then everything else is taken down.
HandlerFirst ==
    <<"errno_init">> \o DeinitSteps \o SelectSeq(Setup, LAMBDA s : s # "errno_init")

\* init().
InitSteps == DeinitSteps \o Setup

-------------------------------------------------------------------------------

LTypeOK ==
    /\ EcTypeOK
    /\ boss \in Tids \cup {Nobody}
    /\ todo \in Seq({InitSteps[i] : i \in DOMAIN InitSteps} \cup {"return"})
    /\ Len(todo) <= Len(InitSteps) + 1
    /\ boss = Nobody <=> todo = <<>>
    /\ cached \in -1..MaxCached
    /\ {tokens, drivers, installed} \subseteq BOOLEAN
    /\ {sigterm, sa_old} \subseteq {"app", "library"}

LInit ==
    /\ EcInit
    /\ boss = Nobody /\ todo = <<>>
    /\ cached = -1 /\ tokens = FALSE /\ drivers = FALSE
    /\ sigterm = "app" /\ sa_old = "app" /\ installed = FALSE

Up == boss = Nobody /\ cached >= 0

\* The next step of init or deinit is `s`, and GDAL has come back from the last.
At(t, s) == boss = t /\ pc[t] = "idle" /\ todo[1] = s

Done == /\ todo' = Tail(todo)
        /\ boss' = IF Len(todo) = 1 THEN Nobody ELSE boss

Begins(t, steps) ==
    /\ boss = Nobody
    /\ \A u \in Tids : pc[u] = "idle"
    /\ boss' = t
    /\ todo' = Append(steps, "return")
    /\ UNCHANGED <<ecVars, cached, tokens, drivers, sigterm, sa_old, installed>>

\* delete errno_cache.
DeletesMap(t) ==
    /\ At(t, "errno_deinit")
    /\ ErrnoDeinit
    /\ Done
    /\ UNCHANGED <<cached, tokens, drivers, sigterm, sa_old, installed>>

\* env_deinit: handler_installed is not reset.
RestoresHandler(t) ==
    /\ At(t, "env_deinit")
    /\ sigterm' = IF installed THEN sa_old ELSE sigterm
    /\ Done
    /\ UNCHANGED <<ecVars, cached, tokens, drivers, sa_old, installed>>

\* delete cache: every dataset is closed, by GDAL, ...
ClosesDataset(t) ==
    /\ At(t, "cache_deinit")
    /\ cached > 0
    /\ OpBegins(t, "library")
    /\ cached' = cached - 1
    /\ UNCHANGED <<boss, todo, tokens, drivers, sigterm, sa_old, installed>>

\* ... and then there is none.
DeletesCache(t) ==
    /\ At(t, "cache_deinit")
    /\ cached <= 0
    /\ cached' = -1
    /\ Done
    /\ UNCHANGED <<ecVars, tokens, drivers, sigterm, sa_old, installed>>

DeletesTokens(t) ==
    /\ At(t, "token_deinit")
    /\ tokens' = FALSE
    /\ Done
    /\ UNCHANGED <<ecVars, cached, drivers, sigterm, sa_old, installed>>

\* GDALDestroyDriverManager and GDALAllRegister.
ChangesDrivers(t) ==
    /\ At(t, "unregister") \/ At(t, "register")
    /\ OpBegins(t, "library")
    /\ drivers' = (todo[1] = "register")
    /\ Done
    /\ UNCHANGED <<cached, tokens, sigterm, sa_old, installed>>

MakesMap(t) ==
    /\ At(t, "errno_init")
    /\ ErrnoInit
    /\ Done
    /\ UNCHANGED <<cached, tokens, drivers, sigterm, sa_old, installed>>

\* env_init: GDALWARP_SIGTERM_DUMP may be set or not, at each init.
InstallsHandler(t, dump) ==
    /\ At(t, "env_init")
    /\ IF dump
       THEN sigterm' = "library" /\ sa_old' = sigterm /\ installed' = TRUE
       ELSE UNCHANGED <<sigterm, sa_old, installed>>
    /\ Done
    /\ UNCHANGED <<ecVars, cached, tokens, drivers>>

MakesCache(t) ==
    /\ At(t, "cache_init")
    /\ cached' = 0
    /\ Done
    /\ UNCHANGED <<ecVars, tokens, drivers, sigterm, sa_old, installed>>

MakesTokens(t) ==
    /\ At(t, "token_init")
    /\ tokens' = TRUE
    /\ Done
    /\ UNCHANGED <<ecVars, cached, drivers, sigterm, sa_old, installed>>

\* GDAL has come back from the last step, too.
Returns(t) ==
    /\ At(t, "return")
    /\ Done
    /\ UNCHANGED <<ecVars, cached, tokens, drivers, sigterm, sa_old, installed>>

LibraryStep(t) ==
    \/ DeletesMap(t) \/ RestoresHandler(t) \/ ClosesDataset(t) \/ DeletesCache(t)
    \/ DeletesTokens(t) \/ ChangesDrivers(t)
    \/ MakesMap(t) \/ (\E dump \in BOOLEAN : InstallsHandler(t, dump))
    \/ MakesCache(t) \/ MakesTokens(t) \/ Returns(t)

\* An operation is called, and may leave one more dataset in the cache.
OperationBegins(t, k) ==
    /\ Up
    /\ OpBegins(t, k)
    /\ cached' \in {cached, cached + 1} /\ cached' <= MaxCached
    /\ UNCHANGED <<boss, todo, tokens, drivers, sigterm, sa_old, installed>>

LNext ==
    \/ ClockTicks /\ UNCHANGED libVars
    \/ \E t \in Tids :
           \/ Begins(t, InitSteps) \/ Begins(t, DeinitSteps)
           \/ LibraryStep(t)
           \/ \E k \in Kinds : OperationBegins(t, k)
           \/ (EcStep(t) \/ ThreadEnds(t)) /\ UNCHANGED libVars

LSpec == LInit /\ [][LNext]_lVars

-------------------------------------------------------------------------------
(* What makes the order of init and deinit correct. *)

\* An error finds no map to be stored in only if the thread inside init or deinit
\* signals it: between the two, the map is there for every error of every thread.
\* (errno_deinit comes before the datasets are closed, and errno_init after
\* GDALAllRegister: put_last_errno then uses a null pointer.)
ErrorsFindTheMap ==
    \A t \in Tids : pc[t] = "store" /\ ~live => boss = t /\ kind[t] = "library"

\* After deinit, however often and in whichever environment init was called before
\* it, nothing of the library is left: no map, no dataset, no token, no driver,
\* and SIGTERM is the application's again.  After init all of it is there.
DownIsClean ==
    boss = Nobody =>
        /\ cached = -1 => ~live /\ ~tokens /\ ~drivers /\ sigterm = "app"
        /\ cached # -1 => live /\ tokens /\ drivers
===============================================================================
