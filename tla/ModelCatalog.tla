----------------------------- MODULE ModelCatalog -----------------------------
(***************************************************************************)
(* The model catalog of Trae Relay (ModelCatalog).                         *)
(*                                                                         *)
(* One worker thread fetches the models the enabled account may use, every  *)
(* hour and when the account is switched.  A request that holds a slot of   *)
(* the account waits for the first round of the catalog and is given the    *)
(* models only if they are its account's.  A switch retires the old account *)
(* object first and calls requestRefresh after, so both the worker and the  *)
(* requests can run between the two.  The window fills its list of models   *)
(* when the version of the catalog is not the one it filled last.           *)
(***************************************************************************)
EXTENDS Naturals

CONSTANTS
  Object,      \* account objects
  KeyOf,       \* catalogAccountKey of each: row and login
  CatalogOf,   \* the models the upstream gives the account of each key
  LabelsOf,    \* the labels the window shows for a list of models
  Request,     \* requests that need the catalog
  MaxSwitch,   \* bound on the switches of the enabled account
  MaxVersion,  \* bound: no hourly fetch when the version is this high
  None, Empty  \* no object or key; the empty list of models

Key     == {KeyOf[o] : o \in Object}
Catalog == {CatalogOf[k] : k \in Key}

ASSUME CatalogAssumption ==
  /\ None \notin Object \cup Key \cup Nat
  /\ Empty \notin Catalog
  /\ \A c \in Catalog : LabelsOf[c] # LabelsOf[Empty]
  /\ MaxSwitch \in Nat /\ MaxVersion \in Nat

VARIABLES
  pool,       \* the enabled account object, or None
  retired,    \* objects whose Account::retired is set
  opPc,       \* switchTo or add: "idle", or "replaced" before requestRefresh
  opLock,     \* the object whose refreshMtx it holds
  cache,      \* m_cache
  accountKey, \* m_accountKey
  cacheErr,   \* m_cacheErr, named by the generation of its round; None: empty
  attempted,  \* m_attempted
  everOk,     \* m_everOk
  requested,  \* m_refreshRequested
  version,    \* m_version
  generation, \* m_generation
  wpc,        \* where the worker is
  wgen,       \* generation at the start of its round
  wacc,       \* the account of the round
  fgen,       \* generation at the start of refreshOnce
  merged,     \* the models it fetched
  ok,         \* the round was a success
  pc,         \* where each request is
  on,         \* the account whose slot it holds
  models,     \* what all() gave it
  winPc,      \* where the window is in tickSecond or setPage
  winVersion, \* WindowController::catalogVersion_; None: -1
  shown       \* modelCatalogCaps_, and with LabelsOf the entries of the list

gateVars    == <<pool, retired, opPc, opLock>>
catalogVars == <<cache, accountKey, cacheErr, attempted, everOk, requested, version, generation>>
roundVars   == <<wgen, wacc, fgen, merged, ok>>
workerVars  == <<wpc, roundVars>>
requestVars == <<pc, on, models>>
windowVars  == <<winPc, winVersion, shown>>
vars == <<gateVars, catalogVars, workerVars, requestVars, windowVars>>

Holders == {r \in Request : pc[r] # "idle"}       \* all hold a slot of pool
Referenced == {wacc} \cup {on[r] : r \in Request}
Fresh(o) == o \notin Referenced \cup {pool, opLock}
LockFree(o) == ~ (opPc = "replaced" /\ opLock = o)

Init ==
  /\ pool \in Object \cup {None} /\ retired = {}
  /\ opPc = "idle" /\ opLock = None
  /\ cache = Empty /\ accountKey = None /\ cacheErr = None
  /\ attempted = FALSE /\ everOk = FALSE /\ requested = FALSE
  /\ version = 0 /\ generation = 0
  /\ wpc = "top" /\ wgen = 0 /\ wacc = None /\ fgen = 0 /\ merged = Empty /\ ok = FALSE
  /\ pc = [r \in Request |-> "idle"] /\ on = [r \in Request |-> None]
  /\ models = [r \in Request |-> Empty]
  /\ winPc = "idle" /\ winVersion = None /\ shown = Empty

-----------------------------------------------------------------------------
(* switchTo, or add for the enabled row: the enabled object is replaced     *)
(* unless it has requests or its token is being refreshed.  Every switch    *)
(* makes a new object; one that nothing refers to serves as new, and its    *)
(* retired flag is of no interest.                                          *)
replaceActive(o) ==
  /\ opPc = "idle" /\ generation < MaxSwitch
  /\ Holders = {}
  /\ ~ (wpc = "token" /\ wacc = pool)
  /\ o = None \/ Fresh(o)
  /\ pool' = o
  /\ retired' = (retired \cup ({pool} \ {None})) \cap Referenced
  /\ opPc' = "replaced" /\ opLock' = pool
  /\ UNCHANGED <<catalogVars, workerVars, requestVars, windowVars>>

(* requestRefresh, called by switchTo and add after replaceActive.          *)
requestRefresh ==
  /\ opPc = "replaced"
  /\ generation' = generation + 1 /\ version' = version + 1
  /\ cache' = Empty /\ accountKey' = None /\ cacheErr' = None
  /\ attempted' = FALSE /\ everOk' = FALSE /\ requested' = TRUE
  /\ opPc' = "idle" /\ opLock' = None
  /\ UNCHANGED <<pool, retired, workerVars, requestVars, windowVars>>

-----------------------------------------------------------------------------
(* The worker.  Its steps leave the gate, the requests and the window alone. *)
WorkerOnly == UNCHANGED <<gateVars, requestVars, windowVars>>
(* The locals of refreshOnce end with it.                                   *)
Return == wpc' = "settle" /\ wacc' = None /\ fgen' = 0 /\ merged' = Empty

(* A round starts: the generation is read and the request is taken.         *)
RoundStart ==
  /\ wpc = "top"
  /\ wgen' = generation /\ requested' = FALSE
  /\ ok' = FALSE
  /\ wpc' = "pick"
  /\ UNCHANGED <<cache, accountKey, cacheErr, attempted, everOk, version, generation, wacc, fgen, merged>>
  /\ WorkerOnly

PickAccount ==
  /\ wpc = "pick"
  /\ wacc' = pool
  /\ wpc' = IF pool = None THEN "settle" ELSE "lock"
  /\ UNCHANGED <<catalogVars, wgen, fgen, merged, ok>>
  /\ WorkerOnly

(* ensureFreshToken: no token for a retired account.                        *)
TokenLock ==
  /\ wpc = "lock" /\ LockFree(wacc)
  /\ IF wacc \in retired THEN Return
                         ELSE wpc' = "token" /\ UNCHANGED <<wacc, fgen, merged>>
  /\ UNCHANGED <<catalogVars, wgen, ok>>
  /\ WorkerOnly

TokenReady ==
  /\ wpc = "token"
  /\ \/ Return
     \/ wpc' = "read" /\ UNCHANGED <<wacc, fgen, merged>>
  /\ UNCHANGED <<catalogVars, wgen, ok>>
  /\ WorkerOnly

(* refreshOnce: the generation is read once more, before the queries.       *)
ReadGeneration ==
  /\ wpc = "read"
  /\ fgen' = generation
  /\ wpc' = "fetch"
  /\ UNCHANGED <<catalogVars, wgen, wacc, merged, ok>>
  /\ WorkerOnly

(* refreshOnce: both lists are asked for with the headers of the account.   *)
(* They are merged, one of them fails, or no model is left.                 *)
Fetch ==
  /\ wpc = "fetch" /\ LockFree(wacc)
  /\ \/ Return
     \/ wpc' = "empty" /\ UNCHANGED <<wacc, fgen, merged>>
     \/ wpc' = "commit" /\ merged' = CatalogOf[KeyOf[wacc]] /\ UNCHANGED <<wacc, fgen>>
  /\ UNCHANGED <<catalogVars, wgen, ok>>
  /\ WorkerOnly

(* refreshOnce: the error of an empty list is stored at once, whatever the  *)
(* generation is now.                                                       *)
StoreEmpty ==
  /\ wpc = "empty"
  /\ cacheErr' = wgen
  /\ Return
  /\ UNCHANGED <<cache, accountKey, attempted, everOk, requested, version, generation, wgen, ok>>
  /\ WorkerOnly

Store ==
  /\ cache' = merged /\ accountKey' = KeyOf[wacc] /\ cacheErr' = None
  /\ everOk' = TRUE /\ version' = version + 1 /\ ok' = TRUE

\* Mutant of Commit: a current generation is enough.
CommitIfCurrent ==
  /\ wpc = "commit"
  /\ IF fgen # generation
       THEN UNCHANGED <<cache, accountKey, cacheErr, everOk, version, ok>>
       ELSE Store
  /\ Return
  /\ UNCHANGED <<attempted, requested, generation, wgen>>
  /\ WorkerOnly

(* refreshOnce: the models replace the catalog unless the account is        *)
(* retired or the catalog was reset.                                        *)
Commit ==
  /\ wpc = "commit"
  /\ IF wacc \in retired \/ fgen # generation
       THEN UNCHANGED <<cache, accountKey, cacheErr, everOk, version, ok>>
       ELSE Store
  /\ Return
  /\ UNCHANGED <<attempted, requested, generation, wgen>>
  /\ WorkerOnly

Answer ==
  /\ cacheErr' = IF ok THEN None ELSE wgen
  /\ attempted' = TRUE
  /\ wpc' = "sleep"

\* Mutant of Settle: only a round that brought models is an attempt.
SettleIfOk ==
  /\ wpc = "settle"
  /\ IF wgen # generation
       THEN wpc' = "top" /\ UNCHANGED <<cacheErr, attempted>>
       ELSE /\ attempted' = (attempted \/ ok) /\ wpc' = "sleep"
            /\ cacheErr' = IF ok THEN None ELSE wgen
  /\ UNCHANGED <<cache, accountKey, everOk, requested, version, generation, roundVars>>
  /\ WorkerOnly

(* The round is over: its result counts unless the catalog was reset.       *)
Settle ==
  /\ wpc = "settle"
  /\ IF wgen # generation THEN wpc' = "top" /\ UNCHANGED <<cacheErr, attempted>>
                          ELSE Answer
  /\ UNCHANGED <<cache, accountKey, everOk, requested, version, generation, roundVars>>
  /\ WorkerOnly

(* The wait ends with a request for a refresh, or after 5 minutes or an hour. *)
Wake ==
  /\ wpc = "sleep" /\ (requested \/ version < MaxVersion)
  /\ requested' = FALSE
  /\ wpc' = "top"
  /\ UNCHANGED <<cache, accountKey, cacheErr, attempted, everOk, version, generation, roundVars>>
  /\ WorkerOnly

(* stop: the worker notices it at the head of its loop or in its wait.       *)
stop ==
  /\ wpc \in {"top", "sleep"}
  /\ wpc' = "done"
  /\ UNCHANGED <<catalogVars, roundVars>>
  /\ WorkerOnly

Worker == \/ RoundStart \/ PickAccount \/ TokenLock \/ TokenReady \/ ReadGeneration
          \/ Fetch \/ StoreEmpty \/ Commit \/ Settle \/ Wake

-----------------------------------------------------------------------------
(* A request (handleModels, or resolveSettings of a chat): the slot is taken *)
(* before the catalog is asked for, and released after.                     *)
Acquire(r) ==
  /\ pc[r] = "idle" /\ pool # None
  /\ pc' = [pc EXCEPT ![r] = "all"] /\ on' = [on EXCEPT ![r] = pool]
  /\ UNCHANGED <<gateVars, catalogVars, workerVars, models, windowVars>>

\* Mutant of all: the key of the catalog is not compared.
AllOfAny(r) ==
  /\ pc[r] = "all" /\ attempted
  /\ models' = [models EXCEPT ![r] = IF on[r] \in retired THEN Empty ELSE cache]
  /\ pc' = [pc EXCEPT ![r] = "got"]
  /\ UNCHANGED <<gateVars, catalogVars, workerVars, on, windowVars>>

(* all: waits for the first round; no models unless they are the account's. *)
all(r) ==
  /\ pc[r] = "all" /\ attempted
  /\ models' = [models EXCEPT ![r] =
       IF on[r] \in retired \/ accountKey # KeyOf[on[r]] THEN Empty ELSE cache]
  /\ pc' = [pc EXCEPT ![r] = "got"]
  /\ UNCHANGED <<gateVars, catalogVars, workerVars, on, windowVars>>

Release(r) ==
  /\ pc[r] = "got"
  /\ pc' = [pc EXCEPT ![r] = "idle"] /\ on' = [on EXCEPT ![r] = None]
  /\ models' = [models EXCEPT ![r] = Empty]
  /\ UNCHANGED <<gateVars, catalogVars, workerVars, windowVars>>

-----------------------------------------------------------------------------
(* The window.  tickSecond fills the list when the version is new; the page *)
(* is filled as well when it is shown, and every 15 seconds.                *)
WindowOnly == UNCHANGED <<gateVars, catalogVars, workerVars, requestVars>>

tickSecond ==
  /\ winPc = "idle" /\ winVersion # version
  /\ winVersion' = version /\ winPc' = "ready"
  /\ UNCHANGED shown /\ WindowOnly

setPage ==
  /\ winPc = "idle"
  /\ winPc' = "ready"
  /\ UNCHANGED <<winVersion, shown>> /\ WindowOnly

(* refreshModelSettings: the list is cleared while there is no catalog.     *)
ReadReady ==
  /\ winPc = "ready"
  /\ IF everOk THEN winPc' = "fill" /\ UNCHANGED shown
               ELSE winPc' = "idle" /\ shown' = Empty
  /\ UNCHANGED winVersion /\ WindowOnly

(* refreshModelSettings: nothing changes when the labels are the same.      *)
Fill ==
  /\ winPc = "fill"
  /\ shown' = IF LabelsOf[cache] = LabelsOf[shown] THEN shown ELSE cache
  /\ winPc' = "idle"
  /\ UNCHANGED winVersion /\ WindowOnly

(* The window is hidden in the tray and its controls are freed.             *)
HideWindow ==
  /\ winPc = "idle"
  /\ winVersion' = None /\ shown' = Empty
  /\ UNCHANGED winPc /\ WindowOnly

Next ==
  \/ \E o \in Object \cup {None} : replaceActive(o)
  \/ requestRefresh \/ Worker \/ stop
  \/ \E r \in Request : Acquire(r) \/ all(r) \/ Release(r)
  \/ tickSecond \/ setPage \/ ReadReady \/ Fill \/ HideWindow

(* The threads run: the worker's own (its waits and queries time out), the  *)
(* operation that has replaced the account, and those of the requests.      *)
Fairness ==
  /\ WF_vars(Worker) /\ WF_vars(requestRefresh)
  /\ \A r \in Request : WF_vars(all(r))

Spec == Init /\ [][Next]_vars /\ Fairness

-----------------------------------------------------------------------------
(* Types; a catalog without models has no key, and one with models has.     *)
TypeOK ==
  /\ pool \in Object \cup {None} /\ retired \subseteq Object
  /\ opPc \in {"idle", "replaced"} /\ opLock \in Object \cup {None}
  /\ cache \in Catalog \cup {Empty} /\ accountKey \in Key \cup {None}
  /\ (cache = Empty) <=> (accountKey = None)
  /\ cacheErr \in Nat \cup {None}
  /\ attempted \in BOOLEAN /\ everOk \in BOOLEAN
  /\ requested \in BOOLEAN /\ ok \in BOOLEAN
  /\ version \in Nat /\ generation \in Nat
  /\ wpc \in {"top", "pick", "lock", "token", "read", "fetch", "empty", "commit", "settle", "sleep", "done"}
  /\ wgen \in Nat /\ wacc \in Object \cup {None} /\ fgen \in Nat
  /\ merged \in Catalog \cup {Empty}
  /\ pc \in [Request -> {"idle", "all", "got"}]
  /\ on \in [Request -> Object \cup {None}]
  /\ models \in [Request -> Catalog \cup {Empty}]
  /\ winPc \in {"idle", "ready", "fill"} /\ winVersion \in Nat \cup {None}
  /\ shown \in Catalog \cup {Empty}

(* The models a request is given are those of the account whose slot it     *)
(* holds, also when it got the slot before requestRefresh threw the models  *)
(* of the account before away (ModelCatalog::all).                          *)
ServedIsOwn ==
  \A r \in Request :
    pc[r] = "got" /\ models[r] # Empty => models[r] = CatalogOf[KeyOf[on[r]]]

(* Outside a switch, the catalog is that of the enabled account: no fetch   *)
(* that began before the switch stores the models of an account that is     *)
(* enabled no more (ModelCatalog::refreshOnce).                             *)
CatalogOfEnabled ==
  opPc = "idle" /\ cache # Empty =>
    pool # None /\ accountKey = KeyOf[pool] /\ cache = CatalogOf[accountKey]

(* Requests are not woken to an error of a generation before theirs, though *)
(* an empty list stores its error without a look at the generation.         *)
ErrorIsCurrent == attempted => cacheErr \in {None, generation}

(* When the version the window has filled is the catalog's, the labels it   *)
(* shows are those of the catalog (tickSecond, refreshModelSettings).       *)
WindowFollows ==
  winPc = "idle" /\ winVersion = version => LabelsOf[shown] = LabelsOf[cache]

(* The same of the models and their capabilities, which the window keeps    *)
(* beside the labels (WindowController.h, modelCatalogCaps_).               *)
WindowHasCaps == winPc = "idle" /\ winVersion = version => shown = cache

(* A request that waits for the catalog is answered, whatever fails and     *)
(* whenever the account is switched, unless the program is on its way out.  *)
WaitersAnswered == \A r \in Request : pc[r] = "all" ~> pc[r] # "all" \/ wpc = "done"
=============================================================================
