-------------------------- MODULE ModelCatalog_proofs --------------------------
(***************************************************************************)
(* Proofs about ModelCatalog, for any objects, requests and bounds.        *)
(*                                                                         *)
(* The catalog is that of the enabled account because the account of the   *)
(* worker's round is either still enabled or retired (RoundCurrent): a      *)
(* retired one is refused by Commit, an enabled one is right whatever the   *)
(* generation is.  A request keeps its account enabled for as long as it   *)
(* holds its slot (HolderKeeps), so what all() compares with cannot change. *)
(*                                                                         *)
(* The second part is about ModelDetails, for any lists of the upstream: by *)
(* induction over the entries and details that have been read, the models   *)
(* are the unions of the profiles so far, one model for each name (Good).   *)
(***************************************************************************)
EXTENDS ModelCatalog, ModelDetails, WellFoundedInduction, TLAPS

InRound == {"lock", "token", "read", "fetch", "empty", "commit"}

Types1 ==
  /\ pool \in Object \cup {None} /\ retired \subseteq Object
  /\ opPc \in {"idle", "replaced"} /\ opLock \in Object \cup {None}
Types2 ==
  /\ cache \in Catalog \cup {Empty} /\ accountKey \in Key \cup {None}
  /\ (cache = Empty) <=> (accountKey = None)
  /\ cacheErr \in Nat \cup {None}
  /\ version \in Nat /\ generation \in Nat
Types3 ==
  /\ attempted \in BOOLEAN /\ everOk \in BOOLEAN
  /\ requested \in BOOLEAN /\ ok \in BOOLEAN
Types4 ==
  /\ wpc \in {"top", "pick", "settle", "sleep", "done"} \cup InRound
  /\ wgen \in Nat /\ wacc \in Object \cup {None} /\ fgen \in Nat
  /\ merged \in Catalog \cup {Empty}
Types5 ==
  /\ pc \in [Request -> {"idle", "all", "got"}]
  /\ on \in [Request -> Object \cup {None}]
  /\ models \in [Request -> Catalog \cup {Empty}]
Types6 ==
  /\ winPc \in {"idle", "ready", "fill"} /\ winVersion \in Nat \cup {None}
  /\ shown \in Catalog \cup {Empty}
Types == Types1 /\ Types2 /\ Types3 /\ Types4 /\ Types5 /\ Types6

(* The account of a round is the enabled one, or it has been retired.       *)
RoundCurrent ==
  /\ pool \notin retired
  /\ wacc # None /\ wacc \notin retired => wacc = pool
  /\ wpc \in InRound => wacc # None
  /\ wpc = "commit" => merged = CatalogOf[KeyOf[wacc]]
(* A request holds a slot of the enabled account.                           *)
HolderKeeps == \A r \in Request : pc[r] # "idle" => on[r] = pool /\ pool # None
(* The models are those of the key, and the key that of the enabled object. *)
CacheKeyed ==
  /\ cache # Empty => cache = CatalogOf[accountKey]
  /\ opPc = "idle" /\ cache # Empty => pool # None /\ accountKey = KeyOf[pool]
(* The round that answered the requests is of the generation of the catalog. *)
RoundAnswers == attempted => wgen = generation
(* The window has filled no version that is still to come.                  *)
WindowBehind ==
  /\ winVersion # None => winVersion <= version
  /\ everOk <=> cache # Empty

IInv == /\ Types /\ RoundCurrent /\ HolderKeeps /\ CacheKeyed /\ RoundAnswers
        /\ WindowBehind /\ ServedIsOwn /\ ErrorIsCurrent /\ WindowFollows

-----------------------------------------------------------------------------
(* Every account has a key.                                                 *)
LEMMA KeyOfIn == \A o \in Object : KeyOf[o] \in Key
  BY DEF Key

(* Every key has a list of models.                                          *)
LEMMA CatalogOfIn ==
  CatalogAssumption => \A k \in Key : CatalogOf[k] \in Catalog /\ CatalogOf[k] # Empty
  BY DEF Catalog

USE DEF gateVars, catalogVars, roundVars, workerVars, requestVars, windowVars

(* replaceActive keeps the invariant.                                       *)
LEMMA ReplaceActiveKeeps ==
  ASSUME CatalogAssumption, NEW o \in Object \cup {None}, IInv, replaceActive(o)
  PROVE  IInv'
<1> USE DEF IInv, Types
<1>1. Types'
  BY DEF Types1, Types2, Types3, Types4, Types5, Types6, replaceActive
<1>2. RoundCurrent'
  BY DEF Types1, RoundCurrent, replaceActive, Fresh, Referenced
<1>3. HolderKeeps'
  BY DEF HolderKeeps, replaceActive, Holders
<1>4. CacheKeyed'
  BY DEF CacheKeyed, replaceActive
<1>5. RoundAnswers' /\ WindowBehind' /\ ServedIsOwn' /\ ErrorIsCurrent' /\ WindowFollows'
  BY DEF RoundAnswers, WindowBehind, ServedIsOwn, ErrorIsCurrent, WindowFollows,
     replaceActive
<1> QED  BY <1>1, <1>2, <1>3, <1>4, <1>5

(* requestRefresh keeps the invariant.                                      *)
LEMMA RequestRefreshKeeps == ASSUME CatalogAssumption, IInv, requestRefresh PROVE IInv'
<1> USE DEF IInv, Types
<1>1. Types'
  <2>1. Types1'
    BY DEF Types1, requestRefresh
  <2>2. Types2'
    BY DEF Types2, requestRefresh
  <2>3. Types3'
    BY DEF Types3, requestRefresh
  <2>4. Types4' /\ Types5' /\ Types6'
    BY DEF Types4, Types5, Types6, requestRefresh
  <2> QED  BY <2>1, <2>2, <2>3, <2>4
<1>2. CacheKeyed'
  BY DEF CacheKeyed, requestRefresh
<1>3. RoundAnswers'
  BY DEF RoundAnswers, requestRefresh
<1>4. WindowBehind'
  BY DEF Types2, Types6, WindowBehind, requestRefresh
<1>5. ErrorIsCurrent'
  BY DEF ErrorIsCurrent, requestRefresh
<1>6. WindowFollows'
  BY DEF Types2, WindowBehind, WindowFollows, requestRefresh
<1>7. RoundCurrent' /\ HolderKeeps' /\ ServedIsOwn'
  BY DEF RoundCurrent, HolderKeeps, ServedIsOwn, requestRefresh
<1> QED  BY <1>1, <1>2, <1>3, <1>4, <1>5, <1>6, <1>7

(* RoundStart keeps the invariant.                                          *)
LEMMA RoundStartKeeps == ASSUME CatalogAssumption, IInv, RoundStart PROVE IInv'
<1> USE DEF IInv, Types
<1>1. Types'
  <2>1. Types2'
    BY DEF Types2, RoundStart
  <2>2. Types3'
    BY DEF Types3, RoundStart
  <2>3. Types4'
    BY DEF Types4, Types2, RoundStart
  <2>4. Types1' /\ Types5' /\ Types6'
    BY DEF Types1, Types5, Types6, RoundStart, WorkerOnly
  <2> QED  BY <2>1, <2>2, <2>3, <2>4
<1>2. RoundCurrent'
  BY DEF InRound, RoundCurrent, RoundStart, WorkerOnly
<1>3. RoundAnswers'
  BY DEF RoundAnswers, RoundStart
<1>4. HolderKeeps' /\ CacheKeyed' /\ WindowBehind' /\ ServedIsOwn' /\ ErrorIsCurrent' /\ WindowFollows'
  BY DEF HolderKeeps, CacheKeyed, WindowBehind, ServedIsOwn, ErrorIsCurrent,
     WindowFollows, RoundStart, WorkerOnly
<1> QED  BY <1>1, <1>2, <1>3, <1>4

(* PickAccount keeps the invariant.                                         *)
LEMMA PickAccountKeeps == ASSUME CatalogAssumption, IInv, PickAccount PROVE IInv'
<1> USE DEF IInv, Types
<1>1. Types'
  BY DEF Types1, Types2, Types3, Types4, Types5, Types6, InRound, PickAccount, WorkerOnly
<1>2. RoundCurrent'
  BY DEF InRound, RoundCurrent, PickAccount, WorkerOnly
<1>3. HolderKeeps' /\ CacheKeyed' /\ RoundAnswers' /\ WindowBehind' /\ ServedIsOwn' /\ ErrorIsCurrent' /\ WindowFollows'
  BY DEF HolderKeeps, CacheKeyed, RoundAnswers, WindowBehind, ServedIsOwn,
     ErrorIsCurrent, WindowFollows, PickAccount, WorkerOnly
<1> QED  BY <1>1, <1>2, <1>3

(* TokenLock keeps the invariant.                                           *)
LEMMA TokenLockKeeps == ASSUME CatalogAssumption, IInv, TokenLock PROVE IInv'
<1> USE DEF IInv, Types
<1>1. Types'
  BY DEF Types1, Types2, Types3, Types4, Types5, Types6, InRound, TokenLock, WorkerOnly,
     Return
<1>2. RoundCurrent'
  BY DEF InRound, RoundCurrent, TokenLock, WorkerOnly, Return
<1>3. HolderKeeps' /\ CacheKeyed' /\ RoundAnswers' /\ WindowBehind' /\ ServedIsOwn' /\ ErrorIsCurrent' /\ WindowFollows'
  BY DEF HolderKeeps, CacheKeyed, RoundAnswers, WindowBehind, ServedIsOwn,
     ErrorIsCurrent, WindowFollows, TokenLock, WorkerOnly
<1> QED  BY <1>1, <1>2, <1>3

(* TokenReady keeps the invariant.                                          *)
LEMMA TokenReadyKeeps == ASSUME CatalogAssumption, IInv, TokenReady PROVE IInv'
<1> USE DEF IInv, Types
<1>1. Types'
  BY DEF Types1, Types2, Types3, Types4, Types5, Types6, InRound, TokenReady,
     WorkerOnly, Return
<1>2. RoundCurrent'
  BY DEF InRound, RoundCurrent, TokenReady, WorkerOnly, Return
<1>3. HolderKeeps' /\ CacheKeyed' /\ RoundAnswers' /\ WindowBehind' /\ ServedIsOwn' /\ ErrorIsCurrent' /\ WindowFollows'
  BY DEF HolderKeeps, CacheKeyed, RoundAnswers, WindowBehind, ServedIsOwn,
     ErrorIsCurrent, WindowFollows, TokenReady, WorkerOnly
<1> QED  BY <1>1, <1>2, <1>3

(* ReadGeneration keeps the invariant.                                      *)
LEMMA ReadGenerationKeeps == ASSUME CatalogAssumption, IInv, ReadGeneration PROVE IInv'
<1> USE DEF IInv, Types
<1>1. Types'
  BY DEF Types1, Types2, Types3, Types4, Types5, Types6, InRound, ReadGeneration,
     WorkerOnly
<1>2. RoundCurrent'
  BY DEF InRound, RoundCurrent, ReadGeneration, WorkerOnly
<1>3. HolderKeeps' /\ CacheKeyed' /\ RoundAnswers' /\ WindowBehind' /\ ServedIsOwn' /\ ErrorIsCurrent' /\ WindowFollows'
  BY DEF HolderKeeps, CacheKeyed, RoundAnswers, WindowBehind, ServedIsOwn,
     ErrorIsCurrent, WindowFollows, ReadGeneration, WorkerOnly
<1> QED  BY <1>1, <1>2, <1>3

(* Fetch keeps the invariant.                                               *)
LEMMA FetchKeeps == ASSUME CatalogAssumption, IInv, Fetch PROVE IInv'
<1> USE DEF IInv, Types
<1>1. Types'
  BY KeyOfIn, CatalogOfIn
  DEF Types1, Types2, Types3, Types4, Types5, Types6, RoundCurrent, InRound, Fetch,
     WorkerOnly, Return
<1>2. RoundCurrent'
  BY DEF InRound, RoundCurrent, Fetch, WorkerOnly, Return
<1>3. HolderKeeps' /\ CacheKeyed' /\ RoundAnswers' /\ WindowBehind' /\ ServedIsOwn' /\ ErrorIsCurrent' /\ WindowFollows'
  BY DEF HolderKeeps, CacheKeyed, RoundAnswers, WindowBehind, ServedIsOwn,
     ErrorIsCurrent, WindowFollows, Fetch, WorkerOnly
<1> QED  BY <1>1, <1>2, <1>3

(* StoreEmpty keeps the invariant.                                          *)
LEMMA StoreEmptyKeeps == ASSUME CatalogAssumption, IInv, StoreEmpty PROVE IInv'
<1> USE DEF IInv, Types
<1>1. Types'
  BY DEF Types1, Types2, Types3, Types4, Types5, Types6, StoreEmpty, WorkerOnly, Return
<1>2. RoundCurrent'
  BY DEF InRound, RoundCurrent, StoreEmpty, WorkerOnly, Return
<1>3. ErrorIsCurrent'
  BY DEF RoundAnswers, ErrorIsCurrent, StoreEmpty
<1>4. HolderKeeps' /\ CacheKeyed' /\ RoundAnswers' /\ WindowBehind' /\ ServedIsOwn' /\ WindowFollows'
  BY DEF HolderKeeps, CacheKeyed, RoundAnswers, WindowBehind, ServedIsOwn,
     WindowFollows, StoreEmpty, WorkerOnly
<1> QED  BY <1>1, <1>2, <1>3, <1>4

(* Commit keeps the invariant.                                              *)
LEMMA CommitKeeps == ASSUME CatalogAssumption, IInv, Commit PROVE IInv'
<1> USE DEF IInv, Types
<1>1. Types'
  <2>1. Types2'
    BY KeyOfIn, CatalogOfIn DEF Types2, Types4, RoundCurrent, Commit, Store
  <2>2. Types3'
    BY DEF Types3, Commit, Store
  <2>3. Types4'
    BY DEF Types4, Commit, Return
  <2>4. Types1' /\ Types5' /\ Types6'
    BY DEF Types1, Types5, Types6, Commit, WorkerOnly
  <2> QED  BY <2>1, <2>2, <2>3, <2>4
<1>2. RoundCurrent'
  BY DEF InRound, RoundCurrent, Commit, WorkerOnly, Return
<1>3. CacheKeyed'
  BY DEF InRound, RoundCurrent, CacheKeyed, Commit, WorkerOnly, Store
<1>4. WindowBehind'
  BY KeyOfIn, CatalogOfIn
  DEF Types2, Types4, Types6, RoundCurrent, WindowBehind, Commit, WorkerOnly, Store
<1>5. ErrorIsCurrent'
  BY DEF ErrorIsCurrent, Commit, Store
<1>6. WindowFollows'
  BY DEF Types2, WindowBehind, WindowFollows, Commit, WorkerOnly, Store
<1>7. HolderKeeps' /\ RoundAnswers' /\ ServedIsOwn'
  BY DEF HolderKeeps, RoundAnswers, ServedIsOwn, Commit, WorkerOnly
<1> QED  BY <1>1, <1>2, <1>3, <1>4, <1>5, <1>6, <1>7

(* Settle keeps the invariant.                                              *)
LEMMA SettleKeeps == ASSUME CatalogAssumption, IInv, Settle PROVE IInv'
<1> USE DEF IInv, Types
<1>1. Types'
  <2>1. Types2'
    BY DEF Types2, Settle, Answer
  <2>2. Types3'
    BY DEF Types3, Settle, Answer
  <2>3. Types4'
    BY DEF Types4, Settle, Answer
  <2>4. Types1' /\ Types5' /\ Types6'
    BY DEF Types1, Types5, Types6, Settle, WorkerOnly
  <2> QED  BY <2>1, <2>2, <2>3, <2>4
<1>2. RoundCurrent'
  BY DEF InRound, RoundCurrent, Settle, WorkerOnly, Answer
<1>3. RoundAnswers'
  BY DEF RoundAnswers, Settle
<1>4. ErrorIsCurrent'
  BY DEF ErrorIsCurrent, Settle, Answer
<1>5. HolderKeeps' /\ CacheKeyed' /\ WindowBehind' /\ ServedIsOwn' /\ WindowFollows'
  BY DEF HolderKeeps, CacheKeyed, WindowBehind, ServedIsOwn, WindowFollows, Settle,
     WorkerOnly
<1> QED  BY <1>1, <1>2, <1>3, <1>4, <1>5

(* Wake keeps the invariant.                                                *)
LEMMA WakeKeeps == ASSUME CatalogAssumption, IInv, Wake PROVE IInv'
<1> USE DEF IInv, Types
<1>1. Types'
  <2>1. Types2'
    BY DEF Types2, Wake
  <2>2. Types3'
    BY DEF Types3, Wake
  <2>3. Types4'
    BY DEF Types4, Wake
  <2>4. Types1' /\ Types5' /\ Types6'
    BY DEF Types1, Types5, Types6, Wake, WorkerOnly
  <2> QED  BY <2>1, <2>2, <2>3, <2>4
<1>2. RoundCurrent'
  BY DEF InRound, RoundCurrent, Wake, WorkerOnly
<1>3. HolderKeeps' /\ CacheKeyed' /\ RoundAnswers' /\ WindowBehind' /\ ServedIsOwn' /\ ErrorIsCurrent' /\ WindowFollows'
  BY DEF HolderKeeps, CacheKeyed, RoundAnswers, WindowBehind, ServedIsOwn,
     ErrorIsCurrent, WindowFollows, Wake, WorkerOnly
<1> QED  BY <1>1, <1>2, <1>3

(* stop keeps the invariant.                                                *)
LEMMA StopKeeps == ASSUME CatalogAssumption, IInv, stop PROVE IInv'
<1> USE DEF IInv, Types
<1>1. Types'
  BY DEF Types1, Types2, Types3, Types4, Types5, Types6, stop, WorkerOnly
<1>2. RoundCurrent'
  BY DEF InRound, RoundCurrent, stop, WorkerOnly
<1>3. HolderKeeps' /\ CacheKeyed' /\ RoundAnswers' /\ WindowBehind' /\ ServedIsOwn' /\ ErrorIsCurrent' /\ WindowFollows'
  BY DEF HolderKeeps, CacheKeyed, RoundAnswers, WindowBehind, ServedIsOwn,
     ErrorIsCurrent, WindowFollows, stop, WorkerOnly
<1> QED  BY <1>1, <1>2, <1>3

(* Acquire keeps the invariant.                                             *)
LEMMA AcquireKeeps ==
  ASSUME CatalogAssumption, NEW r \in Request, IInv, Acquire(r)
  PROVE  IInv'
<1> USE DEF IInv, Types
<1>1. Types'
  BY DEF Types1, Types2, Types3, Types4, Types5, Types6, Acquire
<1>2. HolderKeeps'
  BY DEF Types5, HolderKeeps, Acquire
<1>3. ServedIsOwn'
  BY DEF ServedIsOwn, Acquire
<1>4. RoundCurrent' /\ CacheKeyed' /\ RoundAnswers' /\ WindowBehind' /\ ErrorIsCurrent' /\ WindowFollows'
  BY DEF RoundCurrent, CacheKeyed, RoundAnswers, WindowBehind, ErrorIsCurrent,
     WindowFollows, Acquire
<1> QED  BY <1>1, <1>2, <1>3, <1>4

(* all keeps the invariant.                                                 *)
LEMMA AllKeeps == ASSUME CatalogAssumption, NEW r \in Request, IInv, all(r) PROVE IInv'
<1> USE DEF IInv, Types
<1>1. Types'
  BY DEF Types1, Types2, Types3, Types4, Types5, Types6, all
<1>2. HolderKeeps'
  BY DEF HolderKeeps, all
<1>3. ServedIsOwn'
  BY DEF Types5, CacheKeyed, ServedIsOwn, all
<1>4. RoundCurrent' /\ CacheKeyed' /\ RoundAnswers' /\ WindowBehind' /\ ErrorIsCurrent' /\ WindowFollows'
  BY DEF RoundCurrent, CacheKeyed, RoundAnswers, WindowBehind, ErrorIsCurrent,
     WindowFollows, all
<1> QED  BY <1>1, <1>2, <1>3, <1>4

(* Release keeps the invariant.                                             *)
LEMMA ReleaseKeeps ==
  ASSUME CatalogAssumption, NEW r \in Request, IInv, Release(r)
  PROVE  IInv'
<1> USE DEF IInv, Types
<1>1. Types'
  BY DEF Types1, Types2, Types3, Types4, Types5, Types6, Release
<1>2. HolderKeeps'
  BY DEF Types5, HolderKeeps, Release
<1>3. ServedIsOwn'
  BY DEF Types5, ServedIsOwn, Release
<1>4. RoundCurrent' /\ CacheKeyed' /\ RoundAnswers' /\ WindowBehind' /\ ErrorIsCurrent' /\ WindowFollows'
  BY DEF RoundCurrent, CacheKeyed, RoundAnswers, WindowBehind, ErrorIsCurrent,
     WindowFollows, Release
<1> QED  BY <1>1, <1>2, <1>3, <1>4

(* tickSecond keeps the invariant.                                          *)
LEMMA TickSecondKeeps == ASSUME CatalogAssumption, IInv, tickSecond PROVE IInv'
<1> USE DEF IInv, Types
<1>1. Types'
  BY DEF Types1, Types2, Types3, Types4, Types5, Types6, tickSecond, WindowOnly
<1>2. WindowBehind'
  BY DEF Types2, WindowBehind, tickSecond, WindowOnly
<1>3. WindowFollows'
  BY DEF WindowFollows, tickSecond
<1>4. RoundCurrent' /\ HolderKeeps' /\ CacheKeyed' /\ RoundAnswers' /\ ServedIsOwn' /\ ErrorIsCurrent'
  BY DEF RoundCurrent, HolderKeeps, CacheKeyed, RoundAnswers, ServedIsOwn,
     ErrorIsCurrent, tickSecond, WindowOnly
<1> QED  BY <1>1, <1>2, <1>3, <1>4

(* setPage keeps the invariant.                                             *)
LEMMA SetPageKeeps == ASSUME CatalogAssumption, IInv, setPage PROVE IInv'
<1> USE DEF IInv, Types
<1>1. Types'
  BY DEF Types1, Types2, Types3, Types4, Types5, Types6, setPage, WindowOnly
<1>2. WindowFollows'
  BY DEF WindowFollows, setPage
<1>3. RoundCurrent' /\ HolderKeeps' /\ CacheKeyed' /\ RoundAnswers' /\ WindowBehind' /\ ServedIsOwn' /\ ErrorIsCurrent'
  BY DEF RoundCurrent, HolderKeeps, CacheKeyed, RoundAnswers, WindowBehind, ServedIsOwn,
     ErrorIsCurrent, setPage, WindowOnly
<1> QED  BY <1>1, <1>2, <1>3

(* ReadReady keeps the invariant.                                           *)
LEMMA ReadReadyKeeps == ASSUME CatalogAssumption, IInv, ReadReady PROVE IInv'
<1> USE DEF IInv, Types
<1>1. Types'
  BY DEF Types1, Types2, Types3, Types4, Types5, Types6, ReadReady, WindowOnly
<1>2. WindowFollows'
  BY DEF WindowBehind, WindowFollows, ReadReady, WindowOnly
<1>3. RoundCurrent' /\ HolderKeeps' /\ CacheKeyed' /\ RoundAnswers' /\ WindowBehind' /\ ServedIsOwn' /\ ErrorIsCurrent'
  BY DEF RoundCurrent, HolderKeeps, CacheKeyed, RoundAnswers, WindowBehind, ServedIsOwn,
     ErrorIsCurrent, ReadReady, WindowOnly
<1> QED  BY <1>1, <1>2, <1>3

(* Fill keeps the invariant.                                                *)
LEMMA FillKeeps == ASSUME CatalogAssumption, IInv, Fill PROVE IInv'
<1> USE DEF IInv, Types
<1>1. Types'
  BY DEF Types1, Types2, Types3, Types4, Types5, Types6, Fill, WindowOnly
<1>2. WindowFollows'
  BY DEF WindowFollows, Fill, WindowOnly
<1>3. RoundCurrent' /\ HolderKeeps' /\ CacheKeyed' /\ RoundAnswers' /\ WindowBehind' /\ ServedIsOwn' /\ ErrorIsCurrent'
  BY DEF RoundCurrent, HolderKeeps, CacheKeyed, RoundAnswers, WindowBehind, ServedIsOwn,
     ErrorIsCurrent, Fill, WindowOnly
<1> QED  BY <1>1, <1>2, <1>3

(* HideWindow keeps the invariant.                                          *)
LEMMA HideWindowKeeps == ASSUME CatalogAssumption, IInv, HideWindow PROVE IInv'
<1> USE DEF IInv, Types
<1>1. Types'
  BY DEF Types1, Types2, Types3, Types4, Types5, Types6, HideWindow, WindowOnly
<1>2. WindowBehind'
  BY DEF WindowBehind, HideWindow, WindowOnly
<1>3. WindowFollows'
  BY DEF Types2, WindowFollows, HideWindow, WindowOnly
<1>4. RoundCurrent' /\ HolderKeeps' /\ CacheKeyed' /\ RoundAnswers' /\ ServedIsOwn' /\ ErrorIsCurrent'
  BY DEF RoundCurrent, HolderKeeps, CacheKeyed, RoundAnswers, ServedIsOwn,
     ErrorIsCurrent, HideWindow, WindowOnly
<1> QED  BY <1>1, <1>2, <1>3, <1>4
-----------------------------------------------------------------------------
(* The invariant holds from the start.                                      *)
LEMMA InitIInv == ASSUME CatalogAssumption, Init PROVE IInv
<1> USE DEF Init
<1>1. Types
  BY DEF Types, Types1, Types2, Types3, Types4, Types5, Types6
<1>2. RoundCurrent /\ HolderKeeps /\ CacheKeyed /\ RoundAnswers
  BY DEF RoundCurrent, HolderKeeps, CacheKeyed, RoundAnswers, InRound
<1>3. WindowBehind /\ ServedIsOwn /\ ErrorIsCurrent /\ WindowFollows
  BY DEF WindowBehind, ServedIsOwn, ErrorIsCurrent, WindowFollows
<1> QED  BY <1>1, <1>2, <1>3 DEF IInv

(* A step that changes nothing keeps the invariant.                         *)
LEMMA StutterKeeps == ASSUME IInv, UNCHANGED vars PROVE IInv'
<1> USE DEF vars
<1>1. Types'
  BY DEF IInv, Types, Types1, Types2, Types3, Types4, Types5, Types6
<1>2. RoundCurrent' /\ HolderKeeps' /\ CacheKeyed' /\ RoundAnswers'
  BY DEF IInv, RoundCurrent, HolderKeeps, CacheKeyed, RoundAnswers
<1>3. WindowBehind' /\ ServedIsOwn' /\ ErrorIsCurrent' /\ WindowFollows'
  BY DEF IInv, WindowBehind, ServedIsOwn, ErrorIsCurrent, WindowFollows
<1> QED  BY <1>1, <1>2, <1>3 DEF IInv

(* Every step keeps the invariant.                                          *)
LEMMA StepIInv == ASSUME CatalogAssumption, IInv, [Next]_vars PROVE IInv'
<1>1. CASE \E o \in Object \cup {None} : replaceActive(o)
  BY <1>1, ReplaceActiveKeeps
<1>2. CASE requestRefresh
  BY <1>2, RequestRefreshKeeps
<1>3. CASE Worker
  BY <1>3, RoundStartKeeps, PickAccountKeeps, TokenLockKeeps, TokenReadyKeeps,
     ReadGenerationKeeps,
     FetchKeeps, StoreEmptyKeeps, CommitKeeps, SettleKeeps, WakeKeeps DEF Worker
<1>4. CASE stop
  BY <1>4, StopKeeps
<1>5. CASE \E r \in Request : Acquire(r) \/ all(r) \/ Release(r)
  BY <1>5, AcquireKeeps, AllKeeps, ReleaseKeeps
<1>6. CASE tickSecond \/ setPage \/ ReadReady \/ Fill \/ HideWindow
  BY <1>6, TickSecondKeeps, SetPageKeeps, ReadReadyKeeps, FillKeeps, HideWindowKeeps
<1>7. CASE UNCHANGED vars
  BY <1>7, StutterKeeps
<1> QED  BY <1>1, <1>2, <1>3, <1>4, <1>5, <1>6, <1>7 DEF Next

(* The strengthened invariant holds in every reachable state.               *)
THEOREM CatalogInvariance == Spec => []IInv
<1>1. Init => IInv
  BY CatalogAssumption, InitIInv
<1>2. IInv /\ [Next]_vars => IInv'
  BY CatalogAssumption, StepIInv
<1> QED  BY <1>1, <1>2, PTL DEF Spec

(* Every variable keeps its type, and a catalog has a key iff it has models. *)
THEOREM CatalogTypeCorrect == Spec => []TypeOK
<1>1. IInv => TypeOK
  BY DEF IInv, Types, Types1, Types2, Types3, Types4, Types5, Types6, InRound, TypeOK
<1> QED  BY <1>1, CatalogInvariance, PTL

(* The models a request is given are those of the account whose slot it     *)
(* holds (ModelCatalog::all).                                               *)
THEOREM NoForeignModels == Spec => []ServedIsOwn
<1>1. IInv => ServedIsOwn
  BY DEF IInv
<1> QED  BY <1>1, CatalogInvariance, PTL

(* Outside a switch the catalog is that of the enabled account, however the *)
(* rounds of the worker overlap the switches (ModelCatalog::refreshOnce).   *)
THEOREM CatalogIsOfEnabled == Spec => []CatalogOfEnabled
<1>1. IInv => CatalogOfEnabled
  BY DEF IInv, CacheKeyed, CatalogOfEnabled
<1> QED  BY <1>1, CatalogInvariance, PTL

(* A request is not answered with an error of an earlier generation         *)
(* (ModelCatalog::start, ModelCatalog::requestRefresh).                     *)
THEOREM NoStaleError == Spec => []ErrorIsCurrent
<1>1. IInv => ErrorIsCurrent
  BY DEF IInv
<1> QED  BY <1>1, CatalogInvariance, PTL

(* The labels the window shows are those of the version it has filled       *)
(* (WindowController::tickSecond, refreshModelSettings).                    *)
THEOREM WindowShowsItsVersion == Spec => []WindowFollows
<1>1. IInv => WindowFollows
  BY DEF IInv
<1> QED  BY <1>1, CatalogInvariance, PTL

-----------------------------------------------------------------------------
(***************************************************************************)
(* What a round makes of the upstream's lists.                              *)
(***************************************************************************)
(* What a model can do, and what it costs, is of the types the rounds need. *)
RatesTyped(r) ==
  /\ r.base \in Nat /\ r.member \in Nat /\ r.now \in Nat /\ r.before \in Nat /\ r.memberNow \in Nat
  /\ \A w \in r.windows : w.start \in Int /\ w.end \in Int
Typed(c) == c.max \in BOOLEAN /\ c.vision \in BOOLEAN /\ RatesTyped(c.rates)

LEMMA PositiveIs ==
  ASSUME NEW d, NEW k, NEW n \in Nat, Has(d, k) => d[k] \in Int
  PROVE  Positive(d, k, n) \in Nat
<1>1. CASE Has(d, k)
  <2>1. d[k] \in Int /\ Get(d, k, 0) = d[k]
    BY <1>1 DEF Get
  <2> QED  BY ONLY <2>1, n \in Nat DEF Positive
<1>2. CASE ~Has(d, k)
  <2>1. Get(d, k, 0) = 0
    BY <1>2 DEF Get
  <2> QED  BY ONLY <2>1, n \in Nat DEF Positive
<1> QED  BY <1>1, <1>2

LEMMA ParsedRatesAre ==
  ASSUME NEW m, IsObject(m), NEW r, RatesTyped(r)
  PROVE  RatesTyped(ParsedRates(m, r))
<1> DEFINE d == Get(m, "contact", [k \in {} |-> 0])
           q == ParsedRates(m, r)
<1>1. IsContact(d)
  <2>1. CASE Has(m, "contact")
    BY <2>1 DEF Get, IsObject
  <2>2. CASE ~Has(m, "contact")
    <3> DEFINE none == [k \in {} |-> 0]
    <3>1. \A k : ~Has(none, k)
      BY DEF Has
    <3>2. d = none
      BY <2>2 DEF Get
    <3> HIDE DEF none, d
    <3> QED  BY <3>1, <3>2 DEF IsContact
  <2> QED  BY <2>1, <2>2
<1>2. /\ q.base = Positive(d, "base", r.base) /\ q.member = Positive(d, "member", r.member)
      /\ q.now = Positive(d, "now", r.now) /\ q.before = Positive(d, "before", r.before)
      /\ q.memberNow = Positive(d, "memberNow", r.memberNow)
      /\ q.windows = r.windows \cup {w \in Get(d, "windows", {}) : w.end > w.start}
  BY DEF ParsedRates
<1> HIDE DEF d, q
<1>3. \A k \in Price, n \in Nat : Positive(d, k, n) \in Nat
  BY <1>1, PositiveIs DEF IsContact
<1>4. q.base \in Nat /\ q.member \in Nat /\ q.now \in Nat /\ q.before \in Nat /\ q.memberNow \in Nat
  BY <1>2, <1>3 DEF Price, RatesTyped
<1>5. \A w \in Get(d, "windows", {}) : w.start \in Int /\ w.end \in Int
  BY <1>1 DEF IsContact, Get
<1>6. \A w \in q.windows : w.start \in Int /\ w.end \in Int
  BY <1>2, <1>5 DEF RatesTyped
<1>7. RatesTyped(q)
  BY <1>4, <1>6 DEF RatesTyped
<1> QED  BY <1>7 DEF q

LEMMA Merge0Is == \A x, y \in Nat : Merge0(x, y) \in Nat
BY DEF Merge0

LEMMA MergedRatesAre ==
  ASSUME NEW r, NEW q, RatesTyped(r), RatesTyped(q)
  PROVE  RatesTyped(MergedRates(r, q))
<1> DEFINE m == MergedRates(r, q)
<1>1. /\ m.base = Merge0(r.base, q.base) /\ m.member = Merge0(r.member, q.member)
      /\ m.now = Merge0(r.now, q.now) /\ m.before = Merge0(r.before, q.before)
      /\ m.memberNow = Merge0(r.memberNow, q.memberNow)
      /\ m.windows = (IF r.windows = {} THEN q.windows ELSE r.windows)
  BY DEF MergedRates
<1> HIDE DEF m
<1>2. RatesTyped(m)
  BY <1>1, Merge0Is DEF RatesTyped
<1> QED  BY <1>2 DEF m

-----------------------------------------------------------------------------
(* What is parsed from an object; where Parsed is used, it is these facts.  *)
LEMMA ParsedIs ==
  ASSUME NEW m, NEW c
  PROVE  /\ Parsed(m, c).config = Get(m, "config", c.config)
         /\ Parsed(m, c).source = Get(m, "source", c.source)
         /\ Parsed(m, c).options = ParsedOptions(m, c)
         /\ Parsed(m, c).ext = ParsedExt(m, c)
         /\ Parsed(m, c).default = ParsedDefault(m, c)
         /\ Parsed(m, c).maxModel = c.maxModel
         /\ Parsed(m, c).rates = ParsedRates(m, c.rates)
         /\ Parsed(m, c).max = ParsedMax(m, c)
         /\ Parsed(m, c).vision = ParsedVision(m)
BY DEF Parsed

LEMMA OptionsAre == ASSUME NEW m, IsObject(m) PROVE Options(m) \in Seq(STRING)
<1>1. \/ Options(m) = <<>>
      \/ Has(m, "effort") /\ Options(m) = m.effort.options
  BY DEF Options
<1>2. <<>> \in Seq(STRING)
  OBVIOUS
<1> QED  BY <1>1, <1>2 DEF IsObject

(* Without levels of the extended kind the default is one of the levels.    *)
LEMMA DefaultIs ==
  ASSUME NEW m, IsObject(m), NEW c, ParsedExt(m, c) = {}
  PROVE  ParsedDefault(m, c) \in IF Options(m) = <<>> THEN {c.default} ELSE ToSet(Options(m))
<1> DEFINE own == Options(m)
           level == m.effort.level
<1>1. ~Extends(m, c)
  BY DEF Extends
<1>2. ParsedDefault(m, c) = IF own = <<>> THEN c.default
                            ELSE IF level \in ToSet(own) THEN level ELSE Head(own)
  BY <1>1 DEF ParsedDefault
<1>3. own # <<>> => Head(own) \in ToSet(own)
  <2>1. own \in Seq(STRING)
    BY OptionsAre
  <2> HIDE DEF own
  <2>2. own # <<>> => 1 \in DOMAIN own /\ Head(own) = own[1]
    BY <2>1
  <2> QED  BY <2>2 DEF ToSet
<1> HIDE DEF own, level
<1> QED  BY <1>2, <1>3 DEF own

LEMMA OfEntryIs ==
  ASSUME NEW e, IsObject(e)
  PROVE  /\ OfEntry(e).config = e.config
         /\ OfEntry(e).source = Get(e, "source", 1)
         /\ OfEntry(e).options = ToSet(Options(e))
         /\ OfEntry(e).ext = {} => OfEntry(e).default \in ToSet(Options(e)) \cup {""}
         /\ OfEntry(e).maxModel = ""
         /\ OfEntry(e).max = (Flag(e, "max") \/ Flag(e, "dollarMax") \/ Flag(e, "displayMax"))
         /\ RatesTyped(OfEntry(e).rates)
<1> DEFINE b == [Blank EXCEPT !.config = e.config]
           p == Parsed(e, b)
           c == [p EXCEPT !.config = e.config]
<1>1. /\ b.source = 1 /\ b.options = {} /\ b.ext = {} /\ b.default = "" /\ b.maxModel = ""
      /\ b.max = FALSE
  BY DEF Blank
<1>2. RatesTyped(b.rates)
  <2>1. b.rates = Blank.rates
    BY DEF Blank
  <2> QED  BY <2>1 DEF Blank, RatesTyped
<1> HIDE DEF b
<1>3. /\ c.config = e.config /\ c.source = p.source /\ c.options = p.options /\ c.ext = p.ext
      /\ c.default = p.default /\ c.maxModel = p.maxModel /\ c.max = p.max /\ c.rates = p.rates
  BY DEF Parsed
<1> HIDE DEF p
<1>4. /\ p.source = Get(e, "source", 1) /\ p.options = ParsedOptions(e, b)
      /\ p.ext = ParsedExt(e, b) /\ p.default = ParsedDefault(e, b) /\ p.maxModel = ""
      /\ p.rates = ParsedRates(e, b.rates)
  <2>1. /\ p.source = Get(e, "source", b.source) /\ p.options = ParsedOptions(e, b)
        /\ p.ext = ParsedExt(e, b) /\ p.default = ParsedDefault(e, b)
        /\ p.maxModel = b.maxModel /\ p.rates = ParsedRates(e, b.rates)
    BY ParsedIs DEF p
  <2> QED  BY <1>1, <2>1
<1>11. p.max = ParsedMax(e, b)
  BY ParsedIs DEF p
<1> HIDE DEF c
<1>5. OfEntry(e) = c
  BY DEF OfEntry, c, p, b
<1>6. c.options = ToSet(Options(e))
  <2>1. c.options = IF Options(e) = <<>> THEN {} ELSE ToSet(Options(e))
    BY <1>1, <1>3, <1>4 DEF ParsedOptions
  <2>2. ToSet(<<>>) = {}
    BY DEF ToSet
  <2> QED  BY <2>1, <2>2
<1>7. c.ext = {} => c.default \in ToSet(Options(e)) \cup {""}
  BY <1>1, <1>3, <1>4, DefaultIs
<1>8. RatesTyped(c.rates)
  BY <1>2, <1>3, <1>4, ParsedRatesAre
<1>9. c.max = (Flag(e, "max") \/ Flag(e, "dollarMax") \/ Flag(e, "displayMax"))
  <2>1. Get(e, "max", FALSE) = Flag(e, "max")
    BY DEF Flag
  <2>2. c.max = ParsedMax(e, b) /\ b.max = FALSE
    BY <1>1, <1>3, <1>11
  <2> QED  BY ONLY <2>1, <2>2 DEF ParsedMax
<1>10. c.config = e.config /\ c.source = Get(e, "source", 1) /\ c.maxModel = ""
  BY <1>3, <1>4
<1> QED  BY ONLY <1>5, <1>6, <1>7, <1>8, <1>9, <1>10

(* One profile of a model is the union of itself.                           *)
LEMMA ProfileIs ==
  ASSUME NEW f, NEW e, NEW d, IsObject(e), IsObject(d)
  PROVE  LET c == Profile(f, e, d) IN
         /\ c.config = NameOf(<<e, d>>) /\ c.source = SourceOf(<<e, d>>)
         /\ Typed(c) /\ IsUnion(c, {<<e, d>>})
<1> DEFINE b == OfEntry(e)
           p == Parsed(d, b)
           name == IF IsMaxDetail(d) THEN d.model ELSE p.maxModel
           mark == p.max \/ Flag(e, "max") \/ Flag(e, "displayMax")
           c == Profile(f, e, d)
<1>1. /\ c.config = p.config /\ c.source = p.source /\ c.options = p.options /\ c.ext = p.ext
      /\ c.default = p.default /\ c.rates = p.rates /\ c.vision = p.vision
  BY DEF Profile, Parsed
<1>2. c.maxModel = name
  BY DEF Profile, Parsed
<1>3. c.max = mark
  BY DEF Profile, Parsed
<1> HIDE DEF c, p, b
<1>4. /\ b.config = e.config /\ b.source = Get(e, "source", 1) /\ b.options = ToSet(Options(e))
      /\ b.ext = {} => b.default \in ToSet(Options(e)) \cup {""}
      /\ b.maxModel = ""
      /\ RatesTyped(b.rates)
  BY OfEntryIs DEF b
<1>5. b.max = (Flag(e, "max") \/ Flag(e, "dollarMax") \/ Flag(e, "displayMax"))
  BY OfEntryIs DEF b
<1>6. /\ p.config = Get(d, "config", b.config) /\ p.source = Get(d, "source", b.source)
      /\ p.options = ParsedOptions(d, b) /\ p.ext = ParsedExt(d, b)
      /\ p.default = ParsedDefault(d, b) /\ p.maxModel = b.maxModel
      /\ p.rates = ParsedRates(d, b.rates)
  BY ParsedIs DEF p
<1>7. p.max = ParsedMax(d, b) /\ p.vision = ParsedVision(d)
  BY ParsedIs DEF p
<1>8. c.config = NameOf(<<e, d>>) /\ c.source = SourceOf(<<e, d>>)
  BY <1>1, <1>4, <1>6 DEF NameOf, SourceOf
<1>9. RatesTyped(c.rates)
  BY <1>1, <1>4, <1>6, ParsedRatesAre
<1>10. LevelsAreUnion(c, {<<e, d>>})
  <2>1. c.options = Offers(e, d)
    BY <1>1, <1>4, <1>6 DEF ParsedOptions, Offers
  <2>2. c.ext = {} => c.default \in c.options \cup {""}
    <3> SUFFICES ASSUME c.ext = {} PROVE c.default \in c.options \cup {""}
      OBVIOUS
    <3>1. ParsedExt(d, b) = {}
      BY <1>1, <1>6
    <3>2. b.ext = {}
      BY <3>1 DEF ParsedExt
    <3>3. c.default \in IF Options(d) = <<>> THEN {b.default} ELSE ToSet(Options(d))
      BY <1>1, <1>6, <3>1, DefaultIs
    <3> QED  BY <1>4, <2>1, <3>2, <3>3 DEF Offers
  <2>3. UNION {Offers(q[1], q[2]) : q \in {<<e, d>>}} = Offers(e, d)
    OBVIOUS
  <2> QED  BY ONLY <2>1, <2>2, <2>3 DEF LevelsAreUnion
<1>11. NamesAreUnion(c, {<<e, d>>})
  <2>1. c.maxModel = IF IsMaxDetail(d) THEN d.model ELSE ""
    <3>1. p.maxModel = ""
      BY <1>4, <1>6
    <3>2. CASE IsMaxDetail(d)
      BY <1>2, <3>2
    <3>3. CASE ~IsMaxDetail(d)
      BY <1>2, <3>1, <3>3
    <3> QED  BY <3>2, <3>3
  <2> DEFINE N == {q[2].model : q \in {x \in {<<e, d>>} : IsMaxDetail(x[2])}}
  <2>2. /\ IsMaxDetail(d) => d.model \in N
        /\ ~IsMaxDetail(d) => N = {}
    <3> DEFINE U == {x \in {<<e, d>>} : IsMaxDetail(x[2])}
    <3>1. IsMaxDetail(d) => <<e, d>> \in U
      OBVIOUS
    <3>2. ~IsMaxDetail(d) => U = {}
      OBVIOUS
    <3>3. <<e, d>>[2].model = d.model
      OBVIOUS
    <3>4. N = {q[2].model : q \in U}
      OBVIOUS
    <3> HIDE DEF N, U
    <3> QED  BY ONLY <3>1, <3>2, <3>3, <3>4
  <2> HIDE DEF N
  <2>3. c.maxModel \in N \/ (N = {} /\ c.maxModel = "")
    BY ONLY <2>1, <2>2
  <2> QED  BY ONLY <2>3 DEF NamesAreUnion, N
<1>12. /\ Flag(e, "max") \in BOOLEAN /\ Flag(e, "dollarMax") \in BOOLEAN
       /\ Flag(e, "displayMax") \in BOOLEAN
       /\ Flag(d, "max") \in BOOLEAN /\ Flag(d, "dollarMax") \in BOOLEAN
       /\ Flag(d, "displayMax") \in BOOLEAN
       /\ Flag(d, "vision") \in BOOLEAN /\ Flag(d, "featuresVision") \in BOOLEAN
  BY DEF Flag, Get, IsObject
<1>13. c.max \in BOOLEAN /\ c.vision \in BOOLEAN
  BY <1>1, <1>3, <1>7 DEF ParsedVision
<1>14. MaxIsUnion(c, {<<e, d>>})
  <2>1. SaysMax(e, d) <=> \/ Flag(d, "max") \/ Flag(d, "dollarMax") \/ Flag(d, "displayMax")
                          \/ Flag(e, "max") \/ Flag(e, "displayMax")
                          \/ Flag(e, "dollarMax") /\ MaxSigns \cap DOMAIN d = {}
    BY DEF SaysMax, MaxSigns
  <2>2. MayMax(e, d) <=> \/ Flag(d, "max") \/ Flag(d, "dollarMax") \/ Flag(d, "displayMax")
                         \/ Flag(e, "max") \/ Flag(e, "dollarMax") \/ Flag(e, "displayMax")
    BY DEF MayMax, MaxSigns
  <2>3. MaxSigns \cap DOMAIN d = {} => ~Has(d, "max")
    BY DEF MaxSigns, Has
  <2>4. (SaysMax(e, d) => c.max) /\ (c.max => MayMax(e, d))
    <3>1. CASE Has(d, "max")
      <4>1. Get(d, "max", b.max) = Flag(d, "max")
        BY <3>1 DEF Get, Flag
      <4> QED  BY ONLY <1>3, <1>7, <1>12, <2>1, <2>2, <2>3, <3>1, <4>1 DEF ParsedMax
    <3>2. CASE ~Has(d, "max")
      <4>1. Get(d, "max", b.max) = b.max /\ ~Flag(d, "max")
        BY <3>2 DEF Get, Flag
      <4> QED  BY ONLY <1>3, <1>5, <1>7, <1>12, <2>1, <2>2, <3>2, <4>1 DEF ParsedMax
    <3> QED  BY <3>1, <3>2
  <2> QED  BY ONLY <2>4 DEF MaxIsUnion
<1>15. SightIsUnion(c, {<<e, d>>})
  <2>1. Has(d, "vision") => d.vision \in BOOLEAN /\ Flag(d, "vision") = d.vision
    BY DEF Has, Flag, Get, IsObject
  <2>2. Has(d, "featuresVision") =>
          d.featuresVision \in BOOLEAN /\ Flag(d, "featuresVision") = d.featuresVision
    BY DEF Has, Flag, Get, IsObject
  <2>3. /\ ~Has(d, "vision") => Flag(d, "vision") = FALSE
        /\ ~Has(d, "featuresVision") => Flag(d, "featuresVision") = FALSE
    BY DEF Flag, Get
  <2>4. Takes(d) <=> \/ Has(d, "vision") /\ d.vision
                     \/ Has(d, "featuresVision") /\ d.featuresVision
    BY DEF Takes, Signs, Has
  <2>5. Signs(d) = {} <=> ~Has(d, "vision") /\ ~Has(d, "featuresVision")
    BY DEF Signs, Has
  <2>6. c.vision = ParsedVision(d)
    BY <1>1, <1>7
  <2>7. c.vision <=> Takes(d) \/ Signs(d) = {}
    BY ONLY <2>1, <2>2, <2>3, <2>4, <2>5, <2>6 DEF ParsedVision
  <2>8. (Sees(e, d) => c.vision) /\ (Refuses(d) => ~c.vision)
    BY ONLY <2>7 DEF Sees, Refuses
  <2> QED  BY ONLY <2>8 DEF SightIsUnion
<1>16. Typed(c) /\ IsUnion(c, {<<e, d>>})
  BY ONLY <1>9, <1>10, <1>11, <1>13, <1>14, <1>15 DEF Typed, IsUnion
<1> QED  BY <1>8, <1>16 DEF c
-----------------------------------------------------------------------------
(* Two profiles of a model that are each the union of some are, merged, the *)
(* union of all of these.                                                   *)
LEMMA MergeIs ==
  ASSUME NEW x, NEW c, NEW S, NEW T, Typed(x), Typed(c), IsUnion(x, S), IsUnion(c, T)
  PROVE  LET m == mergeCaps(x, c) IN
         m.config = x.config /\ m.source = x.source /\ Typed(m) /\ IsUnion(m, S \cup T)
<1> DEFINE m == mergeCaps(x, c)
           first(k, l) == First(k, l)
<1>1. /\ m.config = x.config /\ m.source = x.source
      /\ m.options = x.options \cup c.options /\ m.ext = x.ext \cup c.ext
      /\ m.default = First(x.default, c.default) /\ m.maxModel = First(x.maxModel, c.maxModel)
      /\ m.rates = MergedRates(x.rates, c.rates)
  BY DEF mergeCaps
<1>2. m.max = (x.max \/ c.max) /\ m.vision = (x.vision \/ c.vision)
  BY DEF mergeCaps, MergedMax
<1> HIDE DEF m
<1>3. /\ x.max \in BOOLEAN /\ c.max \in BOOLEAN /\ x.vision \in BOOLEAN /\ c.vision \in BOOLEAN
      /\ RatesTyped(x.rates) /\ RatesTyped(c.rates)
  BY DEF Typed
<1>4. Typed(m)
  <2>1. RatesTyped(m.rates)
    BY <1>1, <1>3, MergedRatesAre
  <2>2. m.max \in BOOLEAN /\ m.vision \in BOOLEAN
    BY ONLY <1>2, <1>3
  <2> QED  BY ONLY <2>1, <2>2 DEF Typed
<1>5. MaxIsUnion(m, S \cup T)
  <2>1. /\ (\E p \in S : SaysMax(p[1], p[2])) => x.max
        /\ x.max => \E p \in S : MayMax(p[1], p[2])
    BY DEF IsUnion, MaxIsUnion
  <2>2. /\ (\E p \in T : SaysMax(p[1], p[2])) => c.max
        /\ c.max => \E p \in T : MayMax(p[1], p[2])
    BY DEF IsUnion, MaxIsUnion
  <2>3. m.max <=> x.max \/ c.max
    BY ONLY <1>2, <1>3
  <2> QED  BY ONLY <2>1, <2>2, <2>3 DEF MaxIsUnion
<1>6. SightIsUnion(m, S \cup T)
  <2>1. /\ (\E p \in S : Sees(p[1], p[2])) => x.vision
        /\ (\A p \in S : Refuses(p[2]) /\ ~Takes(p[1])) => ~x.vision
    BY DEF IsUnion, SightIsUnion
  <2>2. /\ (\E p \in T : Sees(p[1], p[2])) => c.vision
        /\ (\A p \in T : Refuses(p[2]) /\ ~Takes(p[1])) => ~c.vision
    BY DEF IsUnion, SightIsUnion
  <2>3. m.vision <=> x.vision \/ c.vision
    BY ONLY <1>2, <1>3
  <2> QED  BY ONLY <2>1, <2>2, <2>3 DEF SightIsUnion
<1>7. NamesAreUnion(m, S \cup T)
  <2> DEFINE N(U) == {p[2].model : p \in {q \in U : IsMaxDetail(q[2])}}
  <2>1. x.maxModel \in N(S) \/ (N(S) = {} /\ x.maxModel = "")
    BY DEF IsUnion, NamesAreUnion
  <2>2. c.maxModel \in N(T) \/ (N(T) = {} /\ c.maxModel = "")
    BY DEF IsUnion, NamesAreUnion
  <2>3. N(S \cup T) = N(S) \cup N(T)
    OBVIOUS
  <2> HIDE DEF N
  <2>4. m.maxModel = IF x.maxModel = "" THEN c.maxModel ELSE x.maxModel
    BY <1>1 DEF First
  <2>5. m.maxModel \in N(S \cup T) \/ (N(S \cup T) = {} /\ m.maxModel = "")
    BY ONLY <2>1, <2>2, <2>3, <2>4
  <2> QED  BY ONLY <2>5 DEF NamesAreUnion, N
<1>8. LevelsAreUnion(m, S \cup T)
  <2> DEFINE O(U) == UNION {Offers(p[1], p[2]) : p \in U}
  <2>1. x.options = O(S) /\ (x.ext = {} => x.default \in x.options \cup {""})
    BY DEF IsUnion, LevelsAreUnion
  <2>2. c.options = O(T) /\ (c.ext = {} => c.default \in c.options \cup {""})
    BY DEF IsUnion, LevelsAreUnion
  <2>3. O(S \cup T) = O(S) \cup O(T)
    OBVIOUS
  <2> HIDE DEF O
  <2>4. m.default = IF x.default = "" THEN c.default ELSE x.default
    BY <1>1 DEF First
  <2>5. m.options = O(S \cup T)
    BY <1>1, <2>1, <2>2, <2>3
  <2>6. m.ext = {} => x.ext = {} /\ c.ext = {}
    BY <1>1
  <2>7. m.ext = {} => m.default \in m.options \cup {""}
    BY <1>1, <2>1, <2>2, <2>4, <2>6
  <2> QED  BY ONLY <2>5, <2>7 DEF LevelsAreUnion, O
<1>9. IsUnion(m, S \cup T)
  BY ONLY <1>5, <1>6, <1>7, <1>8 DEF IsUnion
<1> QED  BY <1>1, <1>4, <1>9 DEF m

-----------------------------------------------------------------------------
(* The models are the unions of the profiles in P: one model for each name. *)
Listed(p) == NameOf(p) \notin Internal \cup {""} /\ SourceOf(p) = 1
Apart(known) == \A c, k \in known : c.config = k.config => c = k
Unions(known, P) ==
  \A c \in known : /\ Builtin(c) /\ Typed(c)
                    /\ Of(P, c.config) # {} /\ IsUnion(c, Of(P, c.config))
Complete(known, P) == \A p \in P : Listed(p) => \E c \in known : c.config = NameOf(p)
Good(known, P) == Apart(known) /\ Unions(known, P) /\ Complete(known, P)

LEMMA MergedKeeps ==
  ASSUME NEW known, NEW P, Good(known, P), NEW c, NEW p,
         c.config = NameOf(p), c.source = SourceOf(p), Typed(c), IsUnion(c, {p})
  PROVE  Good(Merged(known, c), P \cup {p})
<1> DEFINE Q == P \cup {p}
           M == Merged(known, c)
<1>1. Builtin(c) <=> Listed(p)
  BY DEF Builtin, Listed
<1>2. Apart(known) /\ Unions(known, P) /\ Complete(known, P)
  BY DEF Good
<1>3. \A name : name # NameOf(p) => Of(Q, name) = Of(P, name)
  BY DEF Of
<1>4. CASE ~Builtin(c)
  <2>1. M = known
    BY <1>4 DEF Merged
  <2>2. \A x \in known : Of(Q, x.config) = Of(P, x.config)
    <3> TAKE x \in known
    <3>1. Builtin(x)
      BY <1>2 DEF Unions
    <3>2. x.config # NameOf(p) \/ SourceOf(p) # 1
      BY <1>1, <1>4, <3>1 DEF Builtin, Listed
    <3> QED  BY <3>2 DEF Of
  <2>3. Unions(known, Q)
    BY <1>2, <2>2 DEF Unions
  <2>4. Complete(known, Q)
    BY <1>1, <1>2, <1>4 DEF Complete
  <2> QED  BY <1>2, <2>1, <2>3, <2>4 DEF Good
<1>5. CASE Builtin(c) /\ \E x \in known : x.config = c.config
  <2> DEFINE F(x) == IF x.config = c.config THEN mergeCaps(x, c) ELSE x
  <2>1. M = {F(x) : x \in known}
    BY <1>5 DEF Merged
  <2>2. Of(Q, c.config) = Of(P, c.config) \cup {p}
    BY <1>1, <1>5 DEF Of, Listed
  <2>3. \A x \in known : x.config = c.config =>
          LET m == mergeCaps(x, c) IN
          m.config = x.config /\ m.source = x.source /\ Typed(m) /\ IsUnion(m, Of(Q, c.config))
    <3> TAKE x \in known
    <3> HAVE x.config = c.config
    <3>1. Typed(x) /\ IsUnion(x, Of(P, c.config))
      BY <1>2 DEF Unions
    <3>2. LET m == mergeCaps(x, c) IN
          /\ m.config = x.config /\ m.source = x.source /\ Typed(m)
          /\ IsUnion(m, Of(P, c.config) \cup {p})
      BY ONLY <3>1, Typed(c), IsUnion(c, {p}), MergeIs
    <3> QED  BY <2>2, <3>2
  <2>4. \A x \in known : F(x).config = x.config
    BY <2>3
  <2>5. Apart(M)
    BY <1>2, <2>1, <2>4 DEF Apart
  <2>6. \A x \in known : LET y == F(x) IN
          Builtin(y) /\ Typed(y) /\ Of(Q, y.config) # {} /\ IsUnion(y, Of(Q, y.config))
    <3> TAKE x \in known
    <3>1. Builtin(x) /\ Typed(x) /\ Of(P, x.config) # {} /\ IsUnion(x, Of(P, x.config))
      BY <1>2 DEF Unions
    <3>2. CASE x.config = c.config
      <4> DEFINE m == mergeCaps(x, c)
      <4>1. F(x) = m
        BY <3>2
      <4>2. m.config = x.config /\ m.source = x.source /\ Typed(m) /\ IsUnion(m, Of(Q, c.config))
        BY <2>3, <3>2
      <4> HIDE DEF m, F
      <4>3. Builtin(m)
        BY <3>1, <4>2 DEF Builtin
      <4>4. Of(Q, m.config) # {}
        BY <2>2, <3>2, <4>2
      <4> QED  BY <3>2, <4>1, <4>2, <4>3, <4>4
    <3>3. CASE x.config # c.config
      <4>1. F(x) = x
        BY <3>3
      <4>2. Of(Q, x.config) = Of(P, x.config)
        BY <1>3, <3>3
      <4> HIDE DEF F
      <4> QED  BY <3>1, <4>1, <4>2
    <3> QED  BY <3>2, <3>3
  <2>7. Unions(M, Q)
    <3> HIDE DEF F
    <3> QED  BY <2>1, <2>6 DEF Unions
  <2>8. Complete(M, Q)
    <3> SUFFICES ASSUME NEW q \in Q, Listed(q) PROVE \E y \in M : y.config = NameOf(q)
      BY DEF Complete
    <3>1. PICK x \in known : x.config = NameOf(q)
      BY <1>2, <1>5 DEF Complete
    <3> HIDE DEF F
    <3>2. F(x) \in M /\ F(x).config = NameOf(q)
      BY <2>1, <2>4, <3>1
    <3> QED  BY <3>2
  <2> QED  BY <2>5, <2>7, <2>8 DEF Good
<1>6. CASE Builtin(c) /\ ~\E x \in known : x.config = c.config
  <2>1. M = known \cup {c}
    BY <1>6 DEF Merged
  <2>2. Of(Q, c.config) = {p}
    <3>1. \A q \in P : ~(NameOf(q) = c.config /\ SourceOf(q) = 1)
      <4> TAKE q \in P
      <4>1. Listed(q) => NameOf(q) # c.config
        BY <1>2, <1>6 DEF Complete
      <4> QED  BY <1>6, <4>1 DEF Listed, Builtin
    <3>2. SourceOf(p) = 1
      BY <1>6 DEF Builtin
    <3> QED  BY <3>1, <3>2 DEF Of
  <2>3. \A x \in known : Of(Q, x.config) = Of(P, x.config)
    BY <1>3, <1>6
  <2>4. Unions(M, Q)
    BY <1>2, <1>6, <2>1, <2>2, <2>3 DEF Unions
  <2>5. Apart(M)
    BY <1>2, <1>6, <2>1 DEF Apart
  <2>6. Complete(M, Q)
    BY <1>2, <2>1 DEF Complete
  <2> QED  BY <2>4, <2>5, <2>6 DEF Good
<1> QED
  BY <1>4, <1>5, <1>6

-----------------------------------------------------------------------------
(* The loops over the entries of a list and the details of an entry, by     *)
(* induction over how many have been read.                                  *)
LEMMA ReachesBound ==
  ASSUME NEW N \in Nat, NEW T, 0 \in T, \A m \in Nat : m < N /\ m \in T => m + 1 \in T
  PROVE  0 .. N \subseteq T
<1> DEFINE R == {ss \in Nat \X Nat : ss[1] < ss[2]}
<1> DEFINE Out == {m \in 0 .. N : m \notin T}
<1>1. IsWellFoundedOn(R, Nat)
  BY NatLessThanWellFounded DEF OpToRel
<1>2. SUFFICES ASSUME Out # {} PROVE FALSE
  OBVIOUS
<1>3. PICK x \in Out : \A y \in Out : <<y, x>> \notin R
  <2>1. Out \subseteq Nat
    OBVIOUS
  <2> QED  BY <1>1, <1>2, <2>1, WFMin
<1>4. ASSUME NEW y \in Out PROVE ~(y < x)
  <2>1. <<y, x>> \notin R /\ y \in Nat /\ x \in Nat
    BY <1>3
  <2> HIDE DEF Out
  <2>2. y < x => <<y, x>> \in R
    BY <2>1
  <2> QED  BY <2>1, <2>2
<1>5. x \in Nat \ {0} /\ x - 1 \in Nat /\ x - 1 < N /\ x - 1 < x /\ x - 1 \in 0 .. N
  OBVIOUS
<1>6. x - 1 \in T
  BY <1>4, <1>5
<1>7. (x - 1) + 1 \in T
  BY <1>5, <1>6
<1> QED
  BY <1>5, <1>7

EntryAfter(h, N, f, e, known) ==
  [n \in 0 .. N |-> IF n = 0 THEN known ELSE Merged(h[n - 1], Profile(f, e, e.details[n]))]

LEMMA EntryRuns ==
  ASSUME NEW f, NEW e, NEW known, NEW N \in Nat
  PROVE  \E h : h = EntryAfter(h, N, f, e, known)
<1> DEFINE T == {m \in 0 .. N : \E h : h = EntryAfter(h, m, f, e, known)}
<1>1. 0 \in T
  <2> DEFINE h == [n \in 0 .. 0 |-> known]
  <2>1. h = EntryAfter(h, 0, f, e, known)
    BY DEF EntryAfter
  <2> HIDE DEF h
  <2> QED  BY <2>1
<1>2. ASSUME NEW m \in Nat, m < N, m \in T PROVE m + 1 \in T
  <2>1. PICK h : h = EntryAfter(h, m, f, e, known)
    BY <1>2
  <2> DEFINE last == Merged(h[m], Profile(f, e, e.details[m + 1]))
             g    == [n \in 0 .. m + 1 |-> IF n = m + 1 THEN last ELSE h[n]]
             At(k, n) == IF n = 0 THEN known ELSE Merged(k[n - 1], Profile(f, e, e.details[n]))
  <2>2. \A n \in 0 .. m : h[n] = At(h, n)
    BY <2>1 DEF EntryAfter
  <2>3. g[m + 1] = last /\ \A n \in 0 .. m : g[n] = h[n]
    BY <1>2
  <2>4. \A n \in 0 .. m + 1 : g[n] = At(g, n)
    <3> TAKE n \in 0 .. m + 1
    <3> HIDE DEF g
    <3>1. CASE n = m + 1
      <4>1. n # 0 /\ n - 1 = m /\ m \in 0 .. m
        BY <1>2, <3>1
      <4> QED  BY <2>3, <3>1, <4>1
    <3>2. CASE n # m + 1
      <4>1. n \in 0 .. m /\ (n # 0 => n - 1 \in 0 .. m)
        BY <1>2, <3>2
      <4> QED  BY <2>2, <2>3, <4>1
    <3> QED  BY <3>1, <3>2
  <2>5. g = [n \in 0 .. m + 1 |-> At(g, n)]
    <3> HIDE DEF At
    <3> QED  BY <2>4
  <2>6. g = EntryAfter(g, m + 1, f, e, known)
    <3> HIDE DEF g
    <3> QED  BY <2>5 DEF EntryAfter
  <2> HIDE DEF g
  <2> QED  BY <1>2, <2>6
<1> HIDE DEF T
<1>3. N \in T
  BY <1>1, <1>2, ReachesBound
<1> QED
  BY <1>3 DEF T

DetailsOf(e) == {<<e, d>> : d \in ToSet(e.details)}

LEMMA ReadEntryKeeps ==
  ASSUME NEW f, NEW e, IsObject(e), e.details \in Seq(ToSet(e.details)),
         \A d \in ToSet(e.details) : IsObject(d),
         NEW known, NEW P, Good(known, P)
  PROVE  Good(ReadEntry(f, e, known), P \cup DetailsOf(e))
<1> DEFINE N == Len(e.details)
           Is(h) == h = EntryAfter(h, N, f, e, known)
           h == CHOOSE k : Is(k)
           Q(n) == P \cup {<<e, e.details[i]>> : i \in 1 .. n}
           T == {n \in 0 .. N : Good(h[n], Q(n))}
<1>1. N \in Nat /\ \A i \in 1 .. N : e.details[i] \in ToSet(e.details)
  BY DEF ToSet
<1>2. ReadEntry(f, e, known) = h[N]
  BY DEF ReadEntry, EntryAfter
<1> HIDE DEF N
<1>3. Is(h)
  BY <1>1, EntryRuns
<1> HIDE DEF h
<1>4. \A n \in 0 .. N : h[n] = IF n = 0 THEN known ELSE Merged(h[n - 1], Profile(f, e, e.details[n]))
  BY <1>3 DEF EntryAfter
<1> HIDE DEF Is
<1>5. 0 \in T
  <2>1. Q(0) = P /\ 0 \in 0 .. N /\ h[0] = known
    BY <1>1, <1>4
  <2> QED  BY <2>1
<1>6. ASSUME NEW m \in Nat, m < N, m \in T PROVE m + 1 \in T
  <2> DEFINE d == e.details[m + 1]
  <2>1. m + 1 \in 0 .. N /\ m + 1 # 0 /\ (m + 1) - 1 = m /\ m + 1 \in 1 .. N
    BY <1>1, <1>6
  <2>2. h[m + 1] = Merged(h[m], Profile(f, e, d))
    BY <1>4, <2>1
  <2>3. Good(h[m], Q(m))
    BY <1>6
  <2>4. Q(m + 1) = Q(m) \cup {<<e, d>>}
    <3>1. 1 .. m + 1 = (1 .. m) \cup {m + 1}
      BY <1>6
    <3> QED  BY <3>1
  <2>5. IsObject(d)
    BY <1>1, <2>1
  <2> HIDE DEF Q, d
  <2>6. Good(Merged(h[m], Profile(f, e, d)), Q(m) \cup {<<e, d>>})
    <3> DEFINE c == Profile(f, e, d)
    <3>1. /\ c.config = NameOf(<<e, d>>) /\ c.source = SourceOf(<<e, d>>)
          /\ Typed(c) /\ IsUnion(c, {<<e, d>>})
      BY <2>5, ProfileIs
    <3> HIDE DEF c
    <3>2. Good(Merged(h[m], c), Q(m) \cup {<<e, d>>})
      BY <2>3, <3>1, MergedKeeps
    <3> QED  BY <3>2 DEF c
  <2> QED  BY <2>1, <2>2, <2>4, <2>6
<1>7. N \in T
  <2> HIDE DEF T
  <2> QED  BY <1>1, <1>5, <1>6, ReachesBound
<1>8. Q(N) = P \cup DetailsOf(e)
  BY <1>1 DEF DetailsOf, ToSet, N
<1> QED
  BY <1>2, <1>7, <1>8

Listing(f, e, ms) == IF Shown(e) THEN ReadEntry(f, e, ms) ELSE ms

ListAfter(h, N, f, list, known) ==
  [n \in 0 .. N |-> IF n = 0 THEN known ELSE Listing(f, list[n], h[n - 1])]

LEMMA ListRuns ==
  ASSUME NEW f, NEW list, NEW known, NEW N \in Nat
  PROVE  \E h : h = ListAfter(h, N, f, list, known)
<1> DEFINE T == {m \in 0 .. N : \E h : h = ListAfter(h, m, f, list, known)}
<1>1. 0 \in T
  <2> DEFINE h == [n \in 0 .. 0 |-> known]
  <2>1. h = ListAfter(h, 0, f, list, known)
    BY DEF ListAfter
  <2> HIDE DEF h
  <2> QED  BY <2>1
<1>2. ASSUME NEW m \in Nat, m < N, m \in T PROVE m + 1 \in T
  <2>1. PICK h : h = ListAfter(h, m, f, list, known)
    BY <1>2
  <2> DEFINE last == Listing(f, list[m + 1], h[m])
             g    == [n \in 0 .. m + 1 |-> IF n = m + 1 THEN last ELSE h[n]]
             At(k, n) == IF n = 0 THEN known ELSE Listing(f, list[n], k[n - 1])
  <2>2. \A n \in 0 .. m : h[n] = At(h, n)
    BY <2>1 DEF ListAfter
  <2>3. g[m + 1] = last /\ \A n \in 0 .. m : g[n] = h[n]
    BY <1>2
  <2>4. \A n \in 0 .. m + 1 : g[n] = At(g, n)
    <3> TAKE n \in 0 .. m + 1
    <3> HIDE DEF g
    <3>1. CASE n = m + 1
      <4>1. n # 0 /\ n - 1 = m /\ m \in 0 .. m
        BY <1>2, <3>1
      <4> QED  BY <2>3, <3>1, <4>1
    <3>2. CASE n # m + 1
      <4>1. n \in 0 .. m /\ (n # 0 => n - 1 \in 0 .. m)
        BY <1>2, <3>2
      <4> QED  BY <2>2, <2>3, <4>1
    <3> QED  BY <3>1, <3>2
  <2>5. g = [n \in 0 .. m + 1 |-> At(g, n)]
    <3> HIDE DEF At
    <3> QED  BY <2>4
  <2>6. g = ListAfter(g, m + 1, f, list, known)
    <3> HIDE DEF g
    <3> QED  BY <2>5 DEF ListAfter
  <2> HIDE DEF g
  <2> QED  BY <1>2, <2>6
<1> HIDE DEF T
<1>3. N \in T
  BY <1>1, <1>2, ReachesBound
<1> QED
  BY <1>3 DEF T


IsList(a) ==
  /\ a \in Seq(ToSet(a))
  /\ \A e \in ToSet(a) : /\ IsObject(e) /\ e.details \in Seq(ToSet(e.details))
                         /\ \A d \in ToSet(e.details) : IsObject(d)

LEMMA ReadKeeps ==
  ASSUME NEW f, NEW list, IsList(list), NEW known, NEW P, Good(known, P)
  PROVE  Good(Read(f, list, known), P \cup PairsOf(list))
<1> DEFINE N == Len(list)
           Is(h) == h = ListAfter(h, N, f, list, known)
           h == CHOOSE k : Is(k)
           E(n) == {x \in {list[i] : i \in 1 .. n} : Shown(x)}
           Q(n) == P \cup UNION {DetailsOf(e) : e \in E(n)}
           T == {n \in 0 .. N : Good(h[n], Q(n))}
<1>1. N \in Nat /\ \A i \in 1 .. N : list[i] \in ToSet(list)
  BY DEF ToSet, IsList
<1>2. Read(f, list, known) = h[N]
  BY DEF Read, ListAfter, Listing
<1> HIDE DEF N
<1>3. Is(h)
  BY <1>1, ListRuns
<1> HIDE DEF h
<1>4. \A n \in 0 .. N : h[n] = IF n = 0 THEN known ELSE Listing(f, list[n], h[n - 1])
  BY <1>3 DEF ListAfter
<1> HIDE DEF Is
<1>5. 0 \in T
  <2>1. Q(0) = P /\ 0 \in 0 .. N /\ h[0] = known
    BY <1>1, <1>4
  <2> QED  BY <2>1
<1>6. ASSUME NEW m \in Nat, m < N, m \in T PROVE m + 1 \in T
  <2> DEFINE e == list[m + 1]
  <2>1. m + 1 \in 0 .. N /\ m + 1 # 0 /\ (m + 1) - 1 = m /\ m + 1 \in 1 .. N
    BY <1>1, <1>6
  <2>2. h[m + 1] = Listing(f, e, h[m])
    BY <1>4, <2>1
  <2>3. Good(h[m], Q(m))
    BY <1>6
  <2>4. E(m + 1) = IF Shown(e) THEN E(m) \cup {e} ELSE E(m)
    <3>1. 1 .. m + 1 = (1 .. m) \cup {m + 1}
      BY <1>6
    <3>2. {list[i] : i \in 1 .. m + 1} = {list[i] : i \in 1 .. m} \cup {e}
      BY <3>1
    <3> QED  BY <3>2
  <2>5. e \in ToSet(list)
    BY <1>1, <2>1
  <2> HIDE DEF E, e
  <2>6. CASE Shown(e)
    <3>1. Q(m + 1) = Q(m) \cup DetailsOf(e)
      BY <2>4, <2>6
    <3> HIDE DEF Q
    <3>2. /\ IsObject(e) /\ e.details \in Seq(ToSet(e.details))
          /\ \A d \in ToSet(e.details) : IsObject(d)
      BY <2>5 DEF IsList
    <3>3. Good(ReadEntry(f, e, h[m]), Q(m) \cup DetailsOf(e))
      BY <2>3, <3>2, ReadEntryKeeps
    <3> QED  BY <2>1, <2>2, <2>6, <3>1, <3>3 DEF Listing
  <2>7. CASE ~Shown(e)
    <3>1. Q(m + 1) = Q(m)
      BY <2>4, <2>7
    <3> HIDE DEF Q
    <3> QED  BY <2>1, <2>2, <2>3, <2>7, <3>1 DEF Listing
  <2> QED  BY <2>6, <2>7
<1>7. N \in T
  <2> HIDE DEF T
  <2> QED  BY <1>1, <1>5, <1>6, ReachesBound
<1>8. Q(N) = P \cup PairsOf(list)
  <2>1. {list[i] : i \in 1 .. N} = ToSet(list)
    BY DEF ToSet, N, IsList
  <2> QED  BY <2>1 DEF PairsOf, DetailsOf
<1> QED
  BY <1>2, <1>7, <1>8

-----------------------------------------------------------------------------
(* The models of a round are the unions of the profiles it has read, and    *)
(* the catalog's those of the round that made it.                           *)
RoundInv ==
  /\ lists \in [Function -> Lists \cup {<<>>}]
  /\ stage \in {"idle", "chat_v3"} => lists = NoLists
  /\ stage = "solo_agent" => lists["solo_agent"] = <<>>
  /\ Good(profiles, Pairs(lists))
PricesTyped == \A c \in catalog : RatesTyped(c.rates)
DetailsInv == RoundInv /\ CapabilitiesAreUnion /\ PricesTyped

LEMMA NothingRead == Good({}, Pairs(NoLists)) /\ NoLists \in [Function -> Lists \cup {<<>>}]
<1>1. PairsOf(<<>>) = {}
  BY DEF PairsOf, ToSet
<1>2. Pairs(NoLists) = {}
  BY <1>1 DEF Pairs, NoLists, Function
<1>3. Good({}, {})
  BY DEF Good, Apart, Unions, Complete
<1> QED  BY <1>2, <1>3 DEF NoLists

LEMMA ListLoaded ==
  ASSUME NEW f \in Function, DetailsInv, loadDetailCatalog(f) PROVE DetailsInv'
<1>1. /\ stage = f /\ stage' = (IF f = "chat_v3" THEN "solo_agent" ELSE "publish")
      /\ catalog' = catalog /\ from' = from
  BY DEF loadDetailCatalog
<1>2. lists[f] = <<>> /\ (f = "chat_v3" => lists = NoLists)
  BY <1>1 DEF DetailsInv, RoundInv, NoLists, Function
<1>3. CapabilitiesAreUnion' /\ PricesTyped'
  BY <1>1 DEF DetailsInv, CapabilitiesAreUnion, PricesTyped
<1>4. CASE lists' = lists /\ profiles' = profiles
  <2>1. lists["solo_agent"] = <<>>
    BY <1>2 DEF NoLists, Function
  <2> QED  BY <1>1, <1>3, <1>4, <2>1 DEF DetailsInv, RoundInv, Function
<1>5. ASSUME NEW a \in Lists, lists' = [lists EXCEPT ![f] = a], profiles' = Read(f, a, profiles)
      PROVE  DetailsInv'
  <2>1. IsList(a)
    BY DetailsAssumption DEF IsList
  <2>2. Good(profiles', Pairs(lists) \cup PairsOf(a))
    BY <1>5, <2>1, ReadKeeps DEF DetailsInv, RoundInv
  <2>3. PairsOf(<<>>) = {}
    BY DEF PairsOf, ToSet
  <2>4. Pairs(lists') = Pairs(lists) \cup PairsOf(a)
    BY <1>2, <1>5, <2>3 DEF Pairs, Function, DetailsInv, RoundInv
  <2>5. lists' \in [Function -> Lists \cup {<<>>}]
    BY <1>5 DEF DetailsInv, RoundInv
  <2>6. stage' = "solo_agent" => lists'["solo_agent"] = <<>>
    BY <1>1, <1>2, <1>5 DEF DetailsInv, RoundInv, NoLists, Function
  <2>7. stage' \notin {"idle", "chat_v3"}
    BY <1>1
  <2> QED  BY <1>3, <2>2, <2>4, <2>5, <2>6, <2>7 DEF DetailsInv, RoundInv, Pairs
<1> QED
  BY <1>4, <1>5 DEF loadDetailCatalog

LEMMA Publishing == ASSUME DetailsInv, Publish PROVE DetailsInv'
<1>1. RoundInv'
  BY NothingRead DEF Publish, RoundInv
<1>2. CASE catalog' = catalog /\ from' = from
  BY <1>1, <1>2 DEF DetailsInv, CapabilitiesAreUnion, PricesTyped
<1>3. CASE catalog' = Published /\ from' = lists
  <2>1. Published \subseteq profiles
    BY DEF Published
  <2>2. Good(profiles, Pairs(lists))
    BY DEF DetailsInv, RoundInv
  <2>3. \A c, k \in catalog' : c.config = k.config => c = k
    BY <1>3, <2>1, <2>2 DEF Good, Apart
  <2>4. \A c \in catalog' : /\ RatesTyped(c.rates) /\ c.config \notin Internal
                            /\ Of(Pairs(from'), c.config) # {}
                            /\ IsUnion(c, Of(Pairs(from'), c.config))
    BY <1>3, <2>1, <2>2 DEF Good, Unions, Typed, Builtin
  <2>5. CapabilitiesAreUnion'
    BY <2>3, <2>4 DEF CapabilitiesAreUnion
  <2>6. PricesTyped'
    BY <2>4 DEF PricesTyped
  <2> QED  BY <1>1, <2>5, <2>6 DEF DetailsInv
<1> QED
  BY <1>2, <1>3 DEF Publish

(* The invariant of the rounds, for all lists the upstream may answer with  *)
(* (ModelCatalog::refreshOnce).                                             *)
THEOREM DetailsInvariance == DetailsSpec => []DetailsInv
<1>1. DetailsInit => DetailsInv
  BY NothingRead DEF DetailsInit, DetailsInv, RoundInv, CapabilitiesAreUnion, PricesTyped
<1>2. DetailsInv /\ [DetailsNext]_detailVars => DetailsInv'
  <2> SUFFICES ASSUME DetailsInv, [DetailsNext]_detailVars PROVE DetailsInv'
    OBVIOUS
  <2>1. CASE Start
    BY <2>1, NothingRead DEF Start, DetailsInv, RoundInv, CapabilitiesAreUnion, PricesTyped
  <2>2. CASE UNCHANGED detailVars
    BY <2>2 DEF detailVars, DetailsInv, RoundInv, CapabilitiesAreUnion, PricesTyped
  <2> QED  BY <2>1, <2>2, ListLoaded, Publishing DEF DetailsNext
<1> QED
  BY <1>1, <1>2, PTL DEF DetailsSpec

-----------------------------------------------------------------------------
(* The price that is shown.  p is the least price of P; 0 is none.          *)
Least(p, P) ==
  /\ p \in Nat /\ (p = 0 \/ p \in P) /\ (p = 0 => P \subseteq {0})
  /\ \A q \in P : q \in Nat /\ (q = 0 \/ p <= q)

LEMMA LowerIsLeast ==
  ASSUME NEW x, NEW y, NEW P, NEW Q, Least(x, P), Least(y, Q)
  PROVE  Least(Lower(x, y), P \cup Q)
<1>1. /\ x \in Nat /\ (x = 0 \/ x \in P) /\ (x = 0 => P \subseteq {0})
      /\ \A q \in P : q \in Nat /\ (q = 0 \/ x <= q)
  BY DEF Least
<1>2. /\ y \in Nat /\ (y = 0 \/ y \in Q) /\ (y = 0 => Q \subseteq {0})
      /\ \A q \in Q : q \in Nat /\ (q = 0 \/ y <= q)
  BY DEF Least
<1>3. CASE y > 0 /\ (x <= 0 \/ y < x)
  <2>1. Lower(x, y) = y
    BY <1>3 DEF Lower
  <2>2. \A q \in P \cup Q : q \in Nat /\ (q = 0 \/ y <= q)
    BY <1>1, <1>2, <1>3
  <2> QED  BY <1>2, <1>3, <2>1, <2>2 DEF Least
<1>4. CASE ~(y > 0 /\ (x <= 0 \/ y < x))
  <2>1. Lower(x, y) = x
    BY <1>4 DEF Lower
  <2>2. \A q \in P \cup Q : q \in Nat /\ (q = 0 \/ x <= q)
    BY <1>1, <1>2, <1>4
  <2>3. x = 0 => P \cup Q \subseteq {0}
    BY <1>1, <1>2, <1>4
  <2> QED  BY <1>1, <2>1, <2>2, <2>3 DEF Least
<1> QED  BY <1>3, <1>4

LEMMA LeastOfOne == \A x \in Nat : Least(x, {x}) /\ Least(0, {0}) /\ Least(0, {}) /\ Least(x, {x, 0})
BY DEF Least

OffPeak(r) == r.windows # {} \/ r.kind = "off_peak"
OpenNow(r, day, minute) == \E w \in r.windows : InWindow(w, day, minute)
\* The prices of an activity, without that of a member at all times.
ActivityPrices(r, member, open) ==
  (IF OffPeak(r) /\ ~member /\ ~open THEN {} ELSE
   IF OffPeak(r) /\ member /\ r.memberNow > 0 THEN {} ELSE {r.now})
  \cup (IF member /\ r.now > 0 THEN {r.memberNow} ELSE {})

LEMMA ActivityIsLeast ==
  ASSUME NEW r, RatesTyped(r), NEW member \in BOOLEAN, NEW day, NEW minute
  PROVE  Least(Activity(r, member, day, minute),
               ActivityPrices(r, member, OpenNow(r, day, minute)))
<1> DEFINE open == OpenNow(r, day, minute)
           a    == Activity(r, member, day, minute)
           P    == ActivityPrices(r, member, open)
<1>1. r.now \in Nat /\ r.memberNow \in Nat
  BY DEF RatesTyped
<1>2. CASE r.now = 0
  <2>1. a = 0
    BY <1>2 DEF Activity
  <2>2. P = {} \/ P = {0}
    BY <1>2 DEF ActivityPrices
  <2> QED  BY <2>1, <2>2, LeastOfOne
<1>3. CASE r.now # 0 /\ OffPeak(r) /\ member
  <2>1. a = IF r.memberNow > 0 THEN r.memberNow ELSE r.now
    BY <1>3 DEF Activity, OffPeak
  <2>2. P = (IF r.memberNow > 0 THEN {} ELSE {r.now}) \cup {r.memberNow}
    BY <1>1, <1>3 DEF ActivityPrices
  <2> HIDE DEF a, P
  <2>3. CASE r.memberNow > 0
    BY <1>1, <2>1, <2>2, <2>3, LeastOfOne DEF a, P
  <2>4. CASE ~(r.memberNow > 0)
    <3>1. a = r.now /\ P = {r.now, 0}
      BY <1>1, <2>1, <2>2, <2>4
    <3>2. Least(a, P)
      BY <1>1, <3>1, LeastOfOne
    <3> QED  BY <3>2 DEF a, P
  <2> QED  BY <2>3, <2>4
<1>4. CASE r.now # 0 /\ OffPeak(r) /\ ~member
  <2>1. a = IF open THEN r.now ELSE 0
    BY <1>4 DEF Activity, OffPeak, OpenNow
  <2>2. P = IF open THEN {r.now} ELSE {}
    BY <1>4 DEF ActivityPrices
  <2> HIDE DEF a, P, open
  <2>3. Least(a, P)
    BY <1>1, <2>1, <2>2, LeastOfOne
  <2> QED  BY <2>3 DEF a, P, open
<1>5. CASE r.now # 0 /\ ~OffPeak(r)
  <2>1. a = IF member /\ r.memberNow > 0 /\ r.memberNow < r.now THEN r.memberNow ELSE r.now
    BY <1>5 DEF Activity, OffPeak
  <2>2. P = {r.now} \cup (IF member THEN {r.memberNow} ELSE {})
    BY <1>1, <1>5 DEF ActivityPrices
  <2> HIDE DEF a, P
  <2>3. CASE member
    <3>1. a = Lower(r.now, r.memberNow)
      BY <1>1, <1>5, <2>1, <2>3 DEF Lower
    <3>2. P = {r.now} \cup {r.memberNow}
      BY <2>2, <2>3
    <3>3. Least(a, P)
      BY <1>1, <3>1, <3>2, LeastOfOne, LowerIsLeast
    <3> QED  BY <3>3 DEF a, P
  <2>4. CASE ~member
    <3>1. a = r.now /\ P = {r.now}
      BY <2>1, <2>2, <2>4
    <3>2. Least(a, P)
      BY <1>1, <3>1, LeastOfOne
    <3> QED  BY <3>2 DEF a, P
  <2> QED  BY <2>3, <2>4
<1> QED  BY <1>2, <1>3, <1>4, <1>5

LEMMA PriceIsLeast ==
  ASSUME NEW r, RatesTyped(r), NEW member \in BOOLEAN, NEW day, NEW minute \in Int
  PROVE  Least(modelRateView(r, member, day, minute), Prices(r, member, day, minute))
<1> DEFINE original == IF r.before > 0 THEN r.before ELSE r.base
           a        == Activity(r, member, day, minute)
           open     == OpenNow(r, day, minute)
           A        == ActivityPrices(r, member, open)
           own      == IF member THEN {r.member} ELSE {}
           p        == modelRateView(r, member, day, minute)
           P        == Prices(r, member, day, minute)
<1>1. /\ r.before \in Nat /\ r.base \in Nat /\ r.member \in Nat
      /\ \A w \in r.windows : w.start \in Int /\ w.end \in Int
  BY DEF RatesTyped
<1>2. original \in Nat
  BY <1>1
<1>3. Least(a, A)
  BY ActivityIsLeast
<1>4. p = IF member THEN Lower(Lower(original, a), r.member) ELSE Lower(original, a)
  BY DEF modelRateView
<1>5. P = {original} \cup A \cup own
  <2>1. open <=> \E w \in r.windows :
                   minute \in w.start .. w.end - 1 /\ (w.days = {} \/ day \in w.days)
    <3>1. \A w \in r.windows :
            InWindow(w, day, minute) <=>
              minute \in w.start .. w.end - 1 /\ (w.days = {} \/ day \in w.days)
      BY <1>1 DEF InWindow
    <3> QED  BY <3>1 DEF OpenNow
  <2> DEFINE now == \E w \in r.windows :
                      minute \in w.start .. w.end - 1 /\ (w.days = {} \/ day \in w.days)
  <2>2. P = {original} \cup ActivityPrices(r, member, now) \cup own
    BY DEF Prices, ActivityPrices, OffPeak
  <2> HIDE DEF now, open, original, own, P
  <2>3. CASE open
    BY <2>1, <2>2, <2>3 DEF ActivityPrices, now
  <2>4. CASE ~open
    BY <2>1, <2>2, <2>4 DEF ActivityPrices, now
  <2> QED  BY <2>3, <2>4
<1> HIDE DEF original, a, open, A, own, p, P
<1>6. Least(Lower(original, a), {original} \cup A)
  BY <1>2, <1>3, LeastOfOne, LowerIsLeast
<1>7. Least(p, P)
  <2>1. CASE member
    <3>1. own = {r.member} /\ p = Lower(Lower(original, a), r.member)
      BY <1>4, <2>1 DEF own
    <3>2. Least(r.member, {r.member})
      BY <1>1, LeastOfOne
    <3> QED  BY <1>5, <1>6, <3>1, <3>2, LowerIsLeast
  <2>2. CASE ~member
    <3>1. P = {original} \cup A /\ p = Lower(original, a)
      BY <1>4, <1>5, <2>2 DEF own
    <3> QED  BY <1>6, <3>1
  <2> QED  BY <2>1, <2>2
<1> QED  BY <1>7 DEF p, P

(* Whatever the upstream's lists are: every published model can do what its *)
(* profiles can and nothing else (mergeCaps), and the price the window      *)
(* shows for it is the lowest the account may have (modelRateView).         *)
THEOREM ModelsAreTrue == DetailsSpec => []DetailsAreTrue
<1>1. DetailsInv => DetailsAreTrue
  <2> SUFFICES ASSUME DetailsInv PROVE PriceOfNow
    BY DEF DetailsAreTrue, DetailsInv
  <2> SUFFICES ASSUME NEW c \in catalog, NEW member \in BOOLEAN, NEW day \in Day, NEW minute \in Minute
               PROVE  LET P == Prices(c.rates, member, day, minute) \ {0}
                          p == modelRateView(c.rates, member, day, minute)
                      IN IF P = {} THEN p = 0 ELSE p \in P /\ \A q \in P : p <= q
    BY DEF PriceOfNow
  <2> DEFINE P == Prices(c.rates, member, day, minute)
             p == modelRateView(c.rates, member, day, minute)
  <2>1. Least(p, P)
    BY PriceIsLeast, DetailsAssumption DEF DetailsInv, PricesTyped
  <2> HIDE DEF p, P
  <2>2. IF P \ {0} = {} THEN p = 0 ELSE p \in P \ {0} /\ \A q \in P \ {0} : p <= q
    BY <2>1 DEF Least
  <2> QED  BY <2>2 DEF p, P
<1> QED
  BY <1>1, DetailsInvariance, PTL
=============================================================================
