------------------------------ MODULE UsageLedger ------------------------------
(***************************************************************************)
(* Credits and usage records of Trae Relay (AccountPool).                  *)
(*                                                                         *)
(* The chat stream does not carry the cost of a request.  A request that   *)
(* succeeds leaves an entry in m_usagePending and queues its account; a    *)
(* single worker thread, started when there is none, asks the upstream for *)
(* the balance of each queued account and settles the account's pending    *)
(* entries: they are taken off the list and written to the usage log.  The *)
(* window asks for balances as well, in a thread of its own.               *)
(*                                                                         *)
(* Who writes which record, and when, is modelled; the balances and the    *)
(* cost computed from them are not, nor is the order of the records of a   *)
(* list: how many of them are of each request is kept.                     *)
(***************************************************************************)
EXTENDS Integers, SequencesExt

CONSTANTS
  Request,  \* requests that reach the upstream
  Account,  \* account objects
  Saas,     \* those of them that are enterprise accounts
  None

ASSUME LedgerAssumption ==
  /\ Saas \subseteq Account
  /\ None \notin Account

Querier == {"worker", "window"}
Taker   == Querier \cup {"exit"}   \* who takes entries off the list

VARIABLES
  on,        \* the account each request was given (AccountPool::acquire)
  pc,        \* where each request is
  pending,   \* m_usagePending: the records of each request in it
  entered,   \* requests for which usageRecordPending made a record
  written,   \* how often usageAppend was called for each request
  queue,     \* m_creditQueue
  busy,      \* m_creditWorkerBusy
  workerPc,  \* where the worker thread is, "none" when there is none
  batch,     \* accounts the worker swapped out of the queue
  qpc,       \* where each querier is in refreshCredits
  qacc,      \* the account it asks about
  rows,      \* toWrite: records of each request it has taken and not written yet
  exit,      \* where the program is on its way out
  missed     \* accounts whose last query by the worker did not get an answer

requestVars == <<on, pc, entered>>
workerVars  == <<queue, busy, workerPc, batch>>
queryVars   == <<qpc, qacc, rows>>
vars == <<requestVars, written, workerVars, queryVars, pending, missed, exit>>

NoRecords == [r \in Request |-> 0]

Init ==
  /\ on \in [Request -> Account]
  /\ pc = [r \in Request |-> "stream"]
  /\ pending = NoRecords /\ entered = {}
  /\ written = NoRecords
  /\ queue = <<>> /\ busy = FALSE /\ workerPc = "none" /\ batch = <<>>
  /\ qpc = [q \in Querier |-> "idle"] /\ qacc = [q \in Querier |-> None]
  /\ rows = [t \in Taker |-> NoRecords]
  /\ missed = {} /\ exit = "no"

-----------------------------------------------------------------------------
(* A request streams until it ends well, or it fails.                       *)
StreamEnds(r) ==
  /\ pc[r] = "stream"
  /\ \E end \in {"record", "done"} : pc' = [pc EXCEPT ![r] = end]
  /\ UNCHANGED <<on, entered, written, workerVars, queryVars, pending, missed, exit>>

(* usageAppend: the record is written.                                      *)
Write(r) == written' = [written EXCEPT ![r] = @ + 1]

(* usageRecordPending: an enterprise record is written at once.  A stream   *)
(* without token counts leaves no record.                                   *)
usageRecordPending(r) ==
  /\ pc[r] = "record"
  /\ pc' = [pc EXCEPT ![r] = "enqueue"]
  /\ \/ UNCHANGED <<entered, pending, written>>
     \/ /\ entered' = entered \cup {r}
        /\ IF on[r] \in Saas
             THEN Write(r) /\ UNCHANGED pending
             ELSE pending' = [pending EXCEPT ![r] = @ + 1] /\ UNCHANGED written
  /\ UNCHANGED <<on, workerVars, queryVars, missed, exit>>

-----------------------------------------------------------------------------
(* refreshCreditsAsync: the account is queued once, and a worker is started *)
(* unless there is one.                                                     *)
Queue(a) ==
  IF Contains(queue, a)
    THEN UNCHANGED workerVars
    ELSE /\ queue' = Append(queue, a)
         /\ busy' = TRUE
         /\ workerPc' = IF busy THEN workerPc ELSE "swap"
         /\ UNCHANGED batch

\* Mutant of refreshCreditsAsync: an account that is being refreshed now
\* counts as queued.
RefreshUnlessRunning(r) ==
  /\ pc[r] = "enqueue"
  /\ pc' = [pc EXCEPT ![r] = "done"]
  /\ IF qacc["worker"] = on[r] THEN UNCHANGED workerVars ELSE Queue(on[r])
  /\ UNCHANGED <<on, entered, written, queryVars, pending, missed, exit>>

refreshCreditsAsync(r) ==
  /\ pc[r] = "enqueue"
  /\ pc' = [pc EXCEPT ![r] = "done"]
  /\ Queue(on[r])
  /\ UNCHANGED <<on, entered, written, queryVars, pending, missed, exit>>

(* The worker thread.                                                       *)
WorkerSwap ==
  /\ workerPc = "swap"
  /\ batch' = queue /\ queue' = <<>>
  /\ workerPc' = IF queue = <<>> THEN "recheck" ELSE "next"
  /\ UNCHANGED <<requestVars, written, busy, queryVars, pending, missed, exit>>

\* Mutant of WorkerNext: the rest of the batch is dropped after a query.
WorkerSkips ==
  /\ workerPc = "next"
  /\ IF batch = <<>>
       THEN workerPc' = "swap" /\ UNCHANGED <<batch, qpc, qacc>>
       ELSE /\ batch' = <<>>
            /\ qacc' = [qacc EXCEPT !["worker"] = Head(batch)]
            /\ qpc' = [qpc EXCEPT !["worker"] = "token"]
            /\ workerPc' = "query"
  /\ UNCHANGED <<requestVars, written, queue, busy, rows, pending, missed, exit>>

WorkerNext ==
  /\ workerPc = "next"
  /\ IF batch = <<>>
       THEN workerPc' = "swap" /\ UNCHANGED <<batch, qpc, qacc>>
       ELSE /\ batch' = Tail(batch)
            /\ qacc' = [qacc EXCEPT !["worker"] = Head(batch)]
            /\ qpc' = [qpc EXCEPT !["worker"] = "token"]
            /\ workerPc' = "query"
  /\ UNCHANGED <<requestVars, written, queue, busy, rows, pending, missed, exit>>

WorkerRecheck ==
  /\ workerPc = "recheck"
  /\ IF queue = <<>>
       THEN busy' = FALSE /\ workerPc' = "none"
       ELSE workerPc' = "swap" /\ UNCHANGED busy
  /\ UNCHANGED <<requestVars, written, queue, batch, queryVars, pending, missed, exit>>

(* The window starts a query of its own.                                    *)
WindowQuery(a) ==
  /\ qpc["window"] = "idle"
  /\ qpc' = [qpc EXCEPT !["window"] = "token"]
  /\ qacc' = [qacc EXCEPT !["window"] = a]
  /\ UNCHANGED <<requestVars, written, workerVars, rows, pending, missed, exit>>

-----------------------------------------------------------------------------
(* refreshCredits of one account by querier q.                              *)

Finish(q) ==
  /\ qpc' = [qpc EXCEPT ![q] = "idle"]
  /\ qacc' = [qacc EXCEPT ![q] = None]
  /\ workerPc' = IF q = "worker" THEN "next" ELSE workerPc
  /\ UNCHANGED <<queue, busy, batch>>

Miss(q) ==
  missed' = IF q = "worker" THEN missed \cup {qacc[q]} ELSE missed

(* ensureFreshToken fails (a retired account), or the account is            *)
(* enterprise: nothing is settled.  Otherwise the query is sent.            *)
QuerySend(q) ==
  /\ qpc[q] = "token"
  /\ \/ /\ Finish(q) /\ Miss(q)
     \/ /\ qacc[q] \notin Saas
        /\ qpc' = [qpc EXCEPT ![q] = "sent"]
        /\ UNCHANGED <<workerVars, qacc, missed>>
  /\ UNCHANGED <<requestVars, written, rows, pending, exit>>

(* The upstream answers, or the query fails.                                *)
QueryAnswer(q) ==
  /\ qpc[q] = "sent"
  /\ \/ /\ Finish(q) /\ Miss(q)
     \/ /\ qpc' = [qpc EXCEPT ![q] = "settle"]
        /\ UNCHANGED <<workerVars, qacc, missed>>
  /\ UNCHANGED <<requestVars, written, rows, pending, exit>>

\* the pending records of the account, and the others
TakenFor(a) == [r \in Request |-> IF on[r] = a THEN pending[r] ELSE 0]
LeftBy(a)   == [r \in Request |-> IF on[r] = a THEN 0 ELSE pending[r]]

\* Mutant of QuerySettle: the entries are not taken off the list.
SettleKeeping(q) ==
  /\ qpc[q] = "settle"
  /\ rows' = [rows EXCEPT ![q] = TakenFor(qacc[q])]
  /\ missed' = missed \ {qacc[q]}
  /\ qpc' = [qpc EXCEPT ![q] = "append"]
  /\ UNCHANGED <<requestVars, written, workerVars, qacc, pending, exit>>

(* Under m_usageMtx every pending entry of the account is taken.            *)
QuerySettle(q) ==
  /\ qpc[q] = "settle"
  /\ rows' = [rows EXCEPT ![q] = TakenFor(qacc[q])]
  /\ pending' = LeftBy(qacc[q])
  /\ missed' = missed \ {qacc[q]}
  /\ qpc' = [qpc EXCEPT ![q] = "append"]
  /\ UNCHANGED <<requestVars, written, workerVars, qacc, exit>>

(* usageAppend of a record that t has taken.                                *)
AppendOne(t) ==
  \E r \in Request :
    /\ rows[t][r] > 0
    /\ Write(r)
    /\ rows' = [rows EXCEPT ![t][r] = @ - 1]

(* usageAppend of each record; then the query is over.                      *)
QueryAppend(q) ==
  /\ qpc[q] = "append"
  /\ IF rows[q] = NoRecords
       THEN Finish(q) /\ UNCHANGED <<rows, written>>
       ELSE AppendOne(q) /\ UNCHANGED <<workerVars, qpc, qacc>>
  /\ UNCHANGED <<requestVars, pending, missed, exit>>

-----------------------------------------------------------------------------
(* The window is destroyed: the pending entries are taken and written, then *)
(* the service is stopped and the process ends.                             *)
usageFlushPending ==
  /\ exit = "no" /\ exit' = "flush"
  /\ rows' = [rows EXCEPT !["exit"] = pending]
  /\ pending' = NoRecords
  /\ UNCHANGED <<requestVars, written, workerVars, qpc, qacc, missed>>

FlushAppend ==
  /\ exit = "flush"
  /\ IF rows["exit"] = NoRecords
       THEN exit' = "stop" /\ UNCHANGED <<rows, written>>
       ELSE AppendOne("exit") /\ UNCHANGED exit
  /\ UNCHANGED <<requestVars, workerVars, qpc, qacc, pending, missed>>

(* The window's threads are joined; the worker and the requests, which are  *)
(* detached, end with the process.                                          *)
ProcessEnds ==
  /\ exit = "stop" /\ qpc["window"] = "idle" /\ exit' = "ended"
  /\ UNCHANGED <<requestVars, written, workerVars, queryVars, pending, missed>>

Exiting == usageFlushPending \/ FlushAppend \/ ProcessEnds

-----------------------------------------------------------------------------
Finishing(r) == usageRecordPending(r) \/ refreshCreditsAsync(r)
WorkerStep == WorkerSwap \/ WorkerNext \/ WorkerRecheck
QueryStep(q) ==
  \/ QuerySend(q) \/ QueryAnswer(q)
  \/ QuerySettle(q) \/ QueryAppend(q)

Step ==
  \/ \E r \in Request : StreamEnds(r) \/ Finishing(r)
  \/ WorkerStep
  \/ \E a \in Account : WindowQuery(a)
  \/ \E q \in Querier : QueryStep(q)
  \/ Exiting

Next == exit # "ended" /\ Step

Spec == Init /\ [][Next]_vars

(* Threads are scheduled, and HTTP queries end (20 s timeout).              *)
Fairness ==
  /\ \A r \in Request : WF_vars(exit # "ended" /\ Finishing(r))
  /\ WF_vars(exit # "ended" /\ WorkerStep)
  /\ \A q \in Querier : WF_vars(exit # "ended" /\ QueryStep(q))

FairSpec == Spec /\ Fairness

-----------------------------------------------------------------------------
TypeOK ==
  /\ on \in [Request -> Account]
  /\ pc \in [Request -> {"stream", "record", "enqueue", "done"}]
  /\ pending \in [Request -> Nat] /\ entered \subseteq Request
  /\ written \in [Request -> Nat] /\ rows \in [Taker -> [Request -> Nat]]
  /\ queue \in Seq(Account) /\ batch \in Seq(Account) /\ busy \in BOOLEAN
  /\ workerPc \in {"none", "swap", "next", "query", "recheck"}
  /\ qpc \in [Querier -> {"idle", "token", "sent", "settle", "append"}]
  /\ \A q \in Querier : IF qpc[q] = "idle" THEN qacc[q] = None ELSE qacc[q] \in Account
  /\ (workerPc = "query") = (qpc["worker"] # "idle")
  /\ missed \subseteq Account /\ exit \in {"no", "flush", "stop", "ended"}

(* No record is lost and none is written twice, whoever settles it: each is *)
(* at any time in exactly one of the list, a settling thread and the log.   *)
RecordedOnce ==
  \A r \in Request :
    written[r] + pending[r] + rows["worker"][r] + rows["window"][r] + rows["exit"][r]
      = IF r \in entered THEN 1 ELSE 0

(* No pending record is forgotten: until it is settled its account is about *)
(* to be queued, queued, or being queried, unless the query failed (then    *)
(* the next request on the account settles it).                             *)
PendingHasQuery ==
  \A r \in Request : pending[r] > 0 =>
    LET a == on[r] IN
      \/ pc[r] = "enqueue" \/ a \in missed
      \/ a \in ToSet(queue) \cup ToSet(batch)
      \/ qacc["worker"] = a /\ qpc["worker"] # "append"

(* The worker gets to every account that is queued.                         *)
QueuedIsQueried ==
  \A a \in Account : Contains(queue, a) ~> qacc["worker"] = a \/ exit = "ended"

(* What the comment of usageFlushPending says: on exit the records that are *)
(* not written yet are written, so that none is lost.                       *)
ExitLosesNone ==
  exit = "ended" => \A r \in entered : written[r] = 1

=============================================================================
