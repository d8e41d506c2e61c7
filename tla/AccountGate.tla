----------------------------- MODULE AccountGate -----------------------------
(***************************************************************************)
(* The account gate of Trae Relay: the pool of at most one enabled account *)
(* (AccountPool), the concurrency slots its requests hold, the serialised   *)
(* token refresh of an account object (ensureFreshToken under refreshMtx)   *)
(* and the operations of credentials:: that replace the enabled account     *)
(* under the registry lock (guard): switchTo and add.                       *)
(*                                                                         *)
(* An account is a heap object behind shared_ptr; a switch always installs  *)
(* a new object, and the old one lives on, retired, as long as a thread     *)
(* holds it.  Object is the supply of heap objects: one nobody refers to    *)
(* has been destroyed and its name can be used again.                       *)
(***************************************************************************)
EXTENDS Naturals, FiniteSets

CONSTANTS
  Request,   \* threads of HttpServer that serve a request
  Worker,    \* background threads: a subset of BackgroundThreads
  Object,    \* names for Account objects
  Id,        \* credential ids (rows of index.json)
  MaxLimit,  \* largest value of the setting maxConcurrentPerAccount
  None       \* no object, no id, no owner

Batch == {"refreshAll", "checkin"}   \* tasks over all the rows, with copies
BackgroundThreads == {"credit", "catalog"} \cup Batch
Operator == "operator"   \* the thread that runs switchTo or add, under guard

ASSUME GateAssumption ==
  /\ IsFiniteSet(Request)
  /\ Worker \subseteq BackgroundThreads
  /\ Request \cap (BackgroundThreads \cup {Operator}) = {}
  /\ None \notin Request \cup BackgroundThreads \cup {Operator}
  /\ None \notin Object /\ None \notin Id
  /\ MaxLimit \in Nat \ {0}

Thread == Request \cup Worker

VARIABLES
  pool,       \* m_accounts: the enabled account object, or None
  active,     \* Account::active, slots in use
  retired,    \* objects whose Account::retired is set
  dirty,      \* objects whose Account::credentialDirty is set
  idOf,       \* Account::auth.credentialId
  rmtx,       \* owner of Account::refreshMtx
  maxC,       \* settings: maxConcurrentPerAccount
  enabled,    \* registry["active"]
  health,     \* "damaged" when initialize could not load index.json or the
              \*   vault file of the enabled row (healthy in the code)
  refreshing, \* credentials::refreshing, a batch task is running
  creditQ,    \* m_creditQueue: objects whose credits are to be read again
  todo,       \* rows each batch task has not handled yet
  pc,         \* where each thread is
  acct,       \* the object each thread works on
  lim,        \* the limit a request read when it entered acquire
  late,       \* requests whose deadline in acquire has passed
  opPc,       \* the credential operation in progress: where it is,
  opKind,     \*   "switch" or "add",
  opId,       \*   the id it enables, or None,
  opOld,      \*   the object whose refreshMtx it holds,
  opNew       \*   the object it loaded

poolVars   == <<pool, active, retired, enabled, health>>
objectVars == <<idOf, dirty>>
waitVars   == <<lim, late>>
batchVars  == <<refreshing, todo>>
opVars     == <<opPc, opKind, opId, opOld, opNew>>
vars == <<poolVars, objectVars, waitVars, batchVars, rmtx, maxC, creditQ, pc,
          acct, opVars>>

AcquirePc == {"snapshot", "try", "poll"}
RefreshPc == {"decide", "exchange", "persist"}
EnsurePc  == {"ensure", "locked"} \cup RefreshPc
HoldPc    == EnsurePc \cup {"run"}
OpPc      == {"lock", "load", "replace", "finish"}

(* Objects some thread, the pool, the queue or the operation refers to.    *)
Referenced ==
  {pool, opOld, opNew} \cup creditQ \cup {acct[t] : t \in Thread}
Fresh(o) == o \in Object \ Referenced

(* guard is taken by persist and by the batch task for one step, by an     *)
(* operation from its first to its last step.                              *)
GuardFree == opPc = "idle"

Holds(r, o) == r \in Request /\ pc[r] \in HoldPc /\ acct[r] = o
Holders(o)  == {r \in Request : Holds(r, o)}

Goto(t, to) == pc' = [pc EXCEPT ![t] = to]

Init ==
  \* initialize loads the row index.json names as active, if there is one;
  \* when it cannot, the pool stays empty and commit throws from then on
  /\ \/ /\ health = "healthy" /\ pool = None /\ enabled = None
        /\ idOf = [x \in Object |-> None]
     \/ /\ health = "damaged" /\ pool = None /\ enabled \in Id \cup {None}
        /\ idOf = [x \in Object |-> None]
     \/ \E o \in Object, i \in Id :
          /\ health = "healthy" /\ pool = o /\ enabled = i
          /\ idOf = [x \in Object |-> IF x = o THEN i ELSE None]
  /\ active = [o \in Object |-> 0]
  /\ retired = {}
  /\ dirty = {}
  /\ rmtx = [o \in Object |-> None]
  /\ maxC \in 1..MaxLimit
  /\ refreshing = FALSE
  /\ creditQ = {}
  /\ todo = [b \in Batch |-> {}]
  /\ pc = [t \in Thread |-> "idle"]
  /\ acct = [t \in Thread |-> None]
  /\ lim = [r \in Request |-> MaxLimit]
  /\ late = {}
  /\ opPc = "idle" /\ opKind = None /\ opId = None
  /\ opOld = None /\ opNew = None

-----------------------------------------------------------------------------
(* The user saves another maxConcurrentPerAccount.                          *)
SetMax(m) ==
  /\ maxC' = m
  /\ UNCHANGED <<poolVars, objectVars, waitVars, batchVars, rmtx, creditQ, pc, acct, opVars>>

(***************************************************************************)
(* AccountPool::acquire.  The settings are read once; then the pool is     *)
(* copied under its lock, the account is picked with the lock released,    *)
(* and the pick is confirmed under the lock again.                          *)
(***************************************************************************)
AcquireBegin(r) ==
  /\ pc[r] = "idle"
  /\ Goto(r, "snapshot")
  /\ lim' = [lim EXCEPT ![r] = maxC]
  /\ UNCHANGED <<poolVars, objectVars, late, batchVars, rmtx, maxC, creditQ, acct, opVars>>

AcquireSnapshot(r) ==
  /\ pc[r] = "snapshot"
  /\ acct' = [acct EXCEPT ![r] = pool]
  /\ Goto(r, IF pool = None THEN "poll" ELSE "try")
  /\ UNCHANGED <<poolVars, objectVars, waitVars, batchVars, rmtx, maxC, creditQ, opVars>>

\* Mutant of CanTake: one slot too many.
CanTakeOneMore(r) == pool # None /\ acct[r] = pool /\ active[acct[r]] <= lim[r]

(* m_accounts.front() == picked && tryAcquireSlot(maxC)                     *)
CanTake(r) == pool # None /\ acct[r] = pool /\ active[acct[r]] < lim[r]

AcquireTry(r) ==
  /\ pc[r] = "try"
  /\ IF CanTake(r)
       THEN /\ active' = [active EXCEPT ![acct[r]] = @ + 1]
            /\ Goto(r, "ensure")
            /\ late' = late \ {r}   \* local to acquire
            /\ UNCHANGED acct
       ELSE /\ acct' = [acct EXCEPT ![r] = None]
            /\ Goto(r, "poll")
            /\ UNCHANGED <<active, late>>
  /\ UNCHANGED <<pool, retired, enabled, health, objectVars, lim, batchVars, rmtx,
                 maxC, creditQ, opVars>>

AcquireDeadline(r) ==
  /\ pc[r] \in AcquirePc /\ r \notin late
  /\ late' = late \cup {r}
  /\ UNCHANGED <<poolVars, objectVars, lim, batchVars, rmtx, maxC, creditQ, pc, acct, opVars>>

\* Mutant of AcquirePoll: the deadline is never looked at.
AcquirePollForever(r) ==
  /\ pc[r] = "poll"
  /\ Goto(r, "snapshot")
  /\ UNCHANGED <<poolVars, objectVars, waitVars, batchVars, rmtx, maxC, creditQ, acct, opVars>>

(* The deadline is looked at only after a failed try: 503 or another turn. *)
AcquirePoll(r) ==
  /\ pc[r] = "poll"
  /\ Goto(r, IF r \in late THEN "idle" ELSE "snapshot")
  /\ late' = late \ {r}
  /\ UNCHANGED <<poolVars, objectVars, lim, batchVars, rmtx, maxC, creditQ, acct, opVars>>

-----------------------------------------------------------------------------
(***************************************************************************)
(* AccountPool::ensureFreshToken, by a request that holds a slot or by a   *)
(* background thread.  refreshMtx is held from EnsureLock to the step that  *)
(* leaves; persist needs guard for a moment.                                *)
(***************************************************************************)
Leave(t) ==
  /\ Goto(t, "run")
  /\ rmtx' = [rmtx EXCEPT ![acct[t]] = None]

EnsureUnchanged == UNCHANGED <<poolVars, idOf, waitVars, batchVars, maxC, creditQ, acct, opVars>>

EnsureLock(t) ==
  /\ pc[t] = "ensure"
  /\ rmtx[acct[t]] = None
  /\ rmtx' = [rmtx EXCEPT ![acct[t]] = t]
  /\ Goto(t, "locked")
  /\ UNCHANGED dirty /\ EnsureUnchanged

(* A retired object returns false before it touches the token.              *)
EnsureRetired(t) ==
  /\ pc[t] = "locked" /\ acct[t] \in retired
  /\ Leave(t)
  /\ UNCHANGED dirty /\ EnsureUnchanged

(* A token an earlier persist could not save is saved first.                *)
EnsureSaveDirty(t) ==
  /\ pc[t] = "locked" /\ acct[t] \notin retired /\ acct[t] \in dirty
  /\ GuardFree
  /\ \/ dirty' = dirty \ {acct[t]} /\ Goto(t, "decide") /\ UNCHANGED rmtx
     \/ UNCHANGED dirty /\ Leave(t)
  /\ EnsureUnchanged

EnsureClean(t) ==
  /\ pc[t] = "locked" /\ acct[t] \notin retired /\ acct[t] \notin dirty
  /\ Goto(t, "decide")
  /\ UNCHANGED <<dirty, rmtx>> /\ EnsureUnchanged

(* needsRefresh: the token is good for 30 minutes, or it is exchanged.      *)
EnsureDecide(t) ==
  /\ pc[t] = "decide"
  /\ \/ Leave(t)
     \/ Goto(t, "exchange") /\ UNCHANGED rmtx
  /\ UNCHANGED dirty /\ EnsureUnchanged

(* The upstream answers the exchange: a new token, or an error.             *)
EnsureExchange(t) ==
  /\ pc[t] = "exchange"
  /\ \/ Leave(t) /\ UNCHANGED dirty
     \/ /\ dirty' = dirty \cup {acct[t]}
        /\ Goto(t, "persist")
        /\ UNCHANGED rmtx
  /\ EnsureUnchanged

(* persist writes the vault under guard, or the write fails.                *)
EnsurePersist(t) ==
  /\ pc[t] = "persist"
  /\ GuardFree
  /\ \/ dirty' = dirty \ {acct[t]}
     \/ UNCHANGED dirty
  /\ Leave(t)
  /\ EnsureUnchanged

-----------------------------------------------------------------------------
(* The request is over: AccountPool::release gives the slot back, then     *)
(* refreshCreditsAsync queues the account unless the request failed.        *)
Release(r) ==
  /\ r \in Request /\ pc[r] = "run"
  /\ active' = [active EXCEPT ![acct[r]] = IF @ > 0 THEN @ - 1 ELSE @]
  /\ \/ Goto(r, "enqueue") /\ UNCHANGED acct
     \/ Goto(r, "idle") /\ acct' = [acct EXCEPT ![r] = None]
  /\ UNCHANGED <<pool, retired, enabled, health, objectVars, waitVars, batchVars, rmtx,
                 maxC, creditQ, opVars>>

Enqueue(r) ==
  /\ pc[r] = "enqueue"
  /\ creditQ' = creditQ \cup {acct[r]}
  /\ acct' = [acct EXCEPT ![r] = None]
  /\ Goto(r, "idle")
  /\ UNCHANGED <<poolVars, objectVars, waitVars, batchVars, rmtx, maxC, opVars>>

-----------------------------------------------------------------------------
(* The credit worker takes an account from the queue; the catalog worker    *)
(* takes the enabled one.  Either may be retired before its lock is taken.  *)
TakeFrom(w) == IF w = "credit" THEN creditQ ELSE {pool} \ {None}

BackgroundTake(w) ==
  /\ w \in Worker \ Batch /\ pc[w] = "idle"
  /\ \E o \in TakeFrom(w) :
       /\ acct' = [acct EXCEPT ![w] = o]
       /\ creditQ' = IF w = "credit" THEN creditQ \ {o} ELSE creditQ
  /\ Goto(w, "ensure")
  /\ UNCHANGED <<poolVars, objectVars, waitVars, batchVars, rmtx, maxC, opVars>>

WorkerDone(w) ==
  /\ w \in Worker \ Batch /\ pc[w] = "run"
  /\ acct' = [acct EXCEPT ![w] = None]
  /\ Goto(w, "idle")
  /\ UNCHANGED <<poolVars, objectVars, waitVars, batchVars, rmtx, maxC, creditQ, opVars>>

(***************************************************************************)
(* refreshAll and runAutoCheckins: one of them at a time, by the exchange  *)
(* on refreshing.  For each row they use the enabled object or, under      *)
(* guard, load a copy that never enters the pool.                           *)
(***************************************************************************)
\* Mutant of BatchBegin: refreshing is set without looking at its old value.
BatchBeginUnchecked(b) ==
  /\ b \in Worker \cap Batch /\ pc[b] = "idle"
  /\ refreshing' = TRUE
  /\ Goto(b, "list")
  /\ UNCHANGED <<poolVars, objectVars, waitVars, todo, rmtx, maxC, creditQ, acct, opVars>>

BatchBegin(b) ==
  /\ b \in Worker \cap Batch /\ pc[b] = "idle"
  /\ ~refreshing
  /\ refreshing' = TRUE
  /\ Goto(b, "list")
  /\ UNCHANGED <<poolVars, objectVars, waitVars, todo, rmtx, maxC, creditQ, acct, opVars>>

BatchList(b) ==
  /\ pc[b] = "list"
  /\ GuardFree
  /\ \E rows \in SUBSET Id : todo' = [todo EXCEPT ![b] = rows]
  /\ Goto(b, "pick")
  /\ UNCHANGED <<poolVars, objectVars, waitVars, refreshing, rmtx, maxC, creditQ, acct, opVars>>

BatchPick(b) ==
  /\ pc[b] = "pick"
  /\ GuardFree
  /\ \E i \in todo[b] :
       /\ todo' = [todo EXCEPT ![b] = @ \ {i}]
       /\ \/ /\ pool # None /\ idOf[pool] = i
             /\ acct' = [acct EXCEPT ![b] = pool]
             /\ UNCHANGED <<poolVars, objectVars>>
          \/ /\ pool # None => idOf[pool] # i
             /\ \E o \in Object :
                  /\ Fresh(o)
                  /\ acct' = [acct EXCEPT ![b] = o]
                  /\ idOf' = [idOf EXCEPT ![o] = i]
                  /\ dirty' = dirty \ {o}
                  /\ retired' = retired \ {o}
                  /\ active' = [active EXCEPT ![o] = 0]
             /\ UNCHANGED <<pool, enabled, health>>
  /\ Goto(b, "ensure")
  /\ UNCHANGED <<waitVars, refreshing, rmtx, maxC, creditQ, opVars>>

(* The row of the account is written back under guard.                      *)
BatchCommit(b) ==
  /\ b \in Batch /\ pc[b] = "run"
  /\ GuardFree
  /\ acct' = [acct EXCEPT ![b] = None]
  /\ Goto(b, "pick")
  /\ UNCHANGED <<poolVars, objectVars, waitVars, batchVars, rmtx, maxC, creditQ, opVars>>

(* All rows done, or a row could not be loaded, or the task is stopped.     *)
BatchEnd(b) ==
  /\ pc[b] = "pick"
  /\ refreshing' = FALSE
  /\ todo' = [todo EXCEPT ![b] = {}]
  /\ Goto(b, "idle")
  /\ UNCHANGED <<poolVars, objectVars, waitVars, rmtx, maxC, creditQ, acct, opVars>>

-----------------------------------------------------------------------------
(***************************************************************************)
(* switchTo (enable, setSource, remove: "switch") and add of the enabled   *)
(* account ("add").  guard is held throughout; the refreshMtx of the       *)
(* enabled object is tried, never waited for; replaceActive swaps the pool *)
(* and commits index.json under the pool lock.                              *)
(***************************************************************************)
OpUnchanged == UNCHANGED <<waitVars, batchVars, maxC, creditQ, pc, acct>>
OpGoto(to) == opPc' = to /\ UNCHANGED <<opKind, opId>>
OpReturn ==
  /\ opPc' = "idle" /\ opKind' = None /\ opId' = None
  /\ opOld' = None /\ opNew' = None

OpBegin(kind, i) ==
  /\ GuardFree
  /\ kind = "switch" => ~refreshing
  /\ kind = "add" => i # None /\ i = enabled
  /\ opPc' = "lock" /\ opKind' = kind /\ opId' = i
  /\ UNCHANGED <<opOld, opNew, poolVars, objectVars, rmtx>> /\ OpUnchanged

OpTryLock ==
  /\ pool # None /\ rmtx[pool] = None
  /\ rmtx' = [rmtx EXCEPT ![pool] = Operator]
  /\ OpGoto("load") /\ opOld' = pool /\ UNCHANGED opNew

OpNothingToLock ==
  /\ pool = None
  /\ OpGoto("load") /\ UNCHANGED <<rmtx, opOld, opNew>>

\* Mutants of OpLock: refreshMtx is not taken at all; it is waited for.
OpLockSkipped ==
  /\ opPc = "lock"
  /\ OpGoto("load") /\ UNCHANGED <<rmtx, opOld, opNew>>
  /\ UNCHANGED <<poolVars, objectVars>> /\ OpUnchanged
OpLockBlocking ==
  /\ opPc = "lock"
  /\ OpNothingToLock \/ OpTryLock
  /\ UNCHANGED <<poolVars, objectVars>> /\ OpUnchanged

OpLock ==
  /\ opPc = "lock"
  /\ \/ OpNothingToLock
     \/ OpTryLock
     \/ pool # None /\ rmtx[pool] # None /\ OpReturn /\ UNCHANGED rmtx
  /\ UNCHANGED <<poolVars, objectVars>> /\ OpUnchanged

(* The object of the row is loaded from the vault (add: comes with the     *)
(* login).  switchTo("") needs none.                                        *)
OpLoad ==
  /\ opPc = "load"
  /\ IF opId = None
       THEN UNCHANGED <<poolVars, objectVars, opNew>>
       ELSE /\ opKind = "add" /\ pool # None => active[pool] = 0
            /\ \E o \in Object :
                 /\ Fresh(o)
                 /\ opNew' = o
                 /\ idOf' = [idOf EXCEPT ![o] = opId]
                 /\ dirty' = dirty \ {o}
                 /\ retired' = retired \ {o}
                 /\ active' = [active EXCEPT ![o] = 0]
            /\ UNCHANGED <<pool, enabled, health>>
  /\ OpGoto("replace")
  /\ UNCHANGED <<rmtx, opOld>> /\ OpUnchanged

(* A damaged vault file throws; add refuses while the account is busy.      *)
OpLoadFails ==
  /\ opPc = "load" /\ opId # None
  /\ OpGoto("finish")
  /\ UNCHANGED <<poolVars, objectVars, rmtx, opOld, opNew>> /\ OpUnchanged

(* replaceActive: refused while the enabled account has a request.          *)
\* Mutant of PoolBusy: only a pool at its limit counts as busy.
PoolFull == pool # None /\ active[pool] >= maxC

PoolBusy == pool # None /\ active[pool] > 0

OpReplace ==
  /\ opPc = "replace"
  /\ ~PoolBusy
  /\ health = "healthy"
  /\ enabled' = opId
  /\ pool' = opNew
  /\ retired' = retired \cup ({pool} \ {opNew, None})
  /\ OpGoto("finish")
  /\ UNCHANGED <<active, health, objectVars, rmtx, opOld, opNew>> /\ OpUnchanged

(* The account is busy, or the commit of index.json throws: the write       *)
(* failed, or the credential directory is damaged.                           *)
OpReplaceFails ==
  /\ opPc = "replace"
  /\ OpGoto("finish")
  /\ UNCHANGED <<poolVars, objectVars, rmtx, opOld, opNew>> /\ OpUnchanged

(* The locks are released as the function returns.                          *)
OpFinish ==
  /\ opPc = "finish"
  /\ rmtx' = [o \in Object |-> IF o = opOld THEN None ELSE rmtx[o]]
  /\ OpReturn
  /\ UNCHANGED <<poolVars, objectVars>> /\ OpUnchanged

-----------------------------------------------------------------------------
AcquireStep(r) ==
  \/ AcquireSnapshot(r) \/ AcquireTry(r) \/ AcquireDeadline(r) \/ AcquirePoll(r)

EnsureStep(t) ==
  \/ EnsureLock(t) \/ EnsureRetired(t) \/ EnsureSaveDirty(t) \/ EnsureClean(t)
  \/ EnsureDecide(t) \/ EnsureExchange(t) \/ EnsurePersist(t)

RequestStep(r) == AcquireStep(r) \/ Release(r) \/ Enqueue(r)

BatchStep(b) == BatchList(b) \/ BatchPick(b) \/ BatchCommit(b) \/ BatchEnd(b)

OpStep ==
  OpLock \/ OpLoad \/ OpLoadFails \/ OpReplace \/ OpReplaceFails \/ OpFinish

Next ==
  \/ \E m \in 1..MaxLimit : SetMax(m)
  \/ \E r \in Request : AcquireBegin(r) \/ RequestStep(r)
  \/ \E t \in Thread : EnsureStep(t)
  \/ \E w \in Worker \ Batch : BackgroundTake(w) \/ WorkerDone(w)
  \/ \E b \in Worker \cap Batch : BatchBegin(b) \/ BatchStep(b)
  \/ \E kind \in {"switch", "add"}, i \in Id \cup {None} : OpBegin(kind, i)
  \/ OpStep

Spec == Init /\ [][Next]_vars

(***************************************************************************)
(* Fairness: a thread in acquire and the thread of an operation are         *)
(* scheduled, and deadlines pass.  Nothing is asked of the others: a        *)
(* request may hold its slot for ever, while its client does not read       *)
(* (RelayRequest), and a thread may stay in ensureFreshToken.               *)
(***************************************************************************)
Fairness ==
  /\ \A r \in Request : WF_vars(AcquireStep(r)) /\ WF_vars(AcquireDeadline(r))
  /\ WF_vars(OpStep)

FairSpec == Spec /\ Fairness

-----------------------------------------------------------------------------
(***************************************************************************)
(* What the gate promises to the request handlers: AccountLease.            *)
(***************************************************************************)
Lease == INSTANCE AccountLease WITH
  current <- pool,
  lease   <- [r \in Request |-> IF pc[r] \in HoldPc THEN acct[r] ELSE None]

-----------------------------------------------------------------------------
TypeOK ==
  /\ pool \in Object \cup {None}
  /\ active \in [Object -> Nat]
  /\ retired \subseteq Object
  /\ dirty \subseteq Object
  /\ idOf \in [Object -> Id \cup {None}]
  /\ rmtx \in [Object -> Thread \cup {Operator, None}]
  /\ maxC \in 1..MaxLimit
  /\ enabled \in Id \cup {None}
  /\ health \in {"healthy", "damaged"}
  /\ refreshing \in BOOLEAN
  /\ creditQ \subseteq Object
  /\ todo \in [Batch -> SUBSET Id]
  /\ pc \in [Thread -> {"idle", "enqueue", "list", "pick"} \cup AcquirePc \cup HoldPc]
  /\ acct \in [Thread -> Object \cup {None}]
  /\ \A t \in Thread : pc[t] \in HoldPc \cup {"try", "enqueue"} => acct[t] # None
  /\ lim \in [Request -> 1..MaxLimit]
  /\ late \subseteq Request
  /\ opPc \in OpPc \cup {"idle"}
  /\ opKind \in {"switch", "add", None}
  /\ opId \in Id \cup {None}
  /\ opOld \in Object \cup {None} /\ opNew \in Object \cup {None}

(* Every slot in use belongs to exactly one request that is being served,  *)
(* so acquire and release never lose or invent a slot.                      *)
SlotAccounting == \A o \in Object : active[o] = Cardinality(Holders(o))

(* A request never runs on an account that has been switched away: what it *)
(* was granted stays the enabled account, not retired, until it releases    *)
(* (the unlocked pick in acquire, and the check in replaceActive).          *)
HeldIsEnabled ==
  \A r \in Request : pc[r] \in HoldPc => pool = acct[r] /\ acct[r] \notin retired

(* Whatever the user sets while requests wait or run, at most k requests   *)
(* admitted under a limit of k or less are in flight on one account.        *)
LimitRespected ==
  \A o \in Object, k \in 1..MaxLimit :
    Cardinality({r \in Holders(o) : lim[r] <= k}) <= k

(* No token is exchanged or saved for a retired object: the operation that *)
(* retires one holds its refreshMtx (switchTo, add).                        *)
RefreshedIsLive ==
  \A t \in Thread : pc[t] \in RefreshPc =>
    rmtx[acct[t]] = t /\ acct[t] \notin retired

(* Two threads never rotate the refresh token of one credential at the     *)
(* same time, through one object or through two copies of it (the comment   *)
(* on the exchange of refreshing in runAutoCheckins).                       *)
OneRefreshPerCredential ==
  \A s, t \in Thread : s # t /\ pc[s] \in RefreshPc /\ pc[t] \in RefreshPc
    => idOf[acct[s]] # idOf[acct[t]]

(* The pool serves the account the registry and index.json name as active, *)
(* and serves none exactly when they name none, or when the credential      *)
(* directory was damaged at the start and nothing may be written.           *)
EnabledAgrees ==
  /\ health = "healthy" => (pool = None <=> enabled = None)
  /\ health # "healthy" => pool = None
  /\ pool # None => idOf[pool] = enabled

(* The gate is a lease service: leases are granted on the current account  *)
(* within the limit, and the account is replaced only when none is out.     *)
ImplementsLease == Lease!Spec

(* Every acquire returns: with a slot, or with nullptr after its deadline.  *)
AcquireReturns ==
  \A r \in Request : pc[r] \in AcquirePc ~> pc[r] \in HoldPc \cup {"idle"}

(* Every credential operation ends, whatever the threads do that hold a    *)
(* slot or refreshMtx: it tries refreshMtx under guard and never waits for  *)
(* it (try_to_lock in switchTo and add), as they wait for guard with it.    *)
OperationReturns == opPc # "idle" ~> opPc = "idle"

=============================================================================
