------------------------------ MODULE Usage_proofs ------------------------------
(***************************************************************************)
(* Proofs about usage records.  UsageLedger, for any number of requests and *)
(* accounts: no record is lost or written twice while the program runs, and *)
(* a pending record has a query on its way that will settle it.  UsageLog,  *)
(* for any number of records, days and places in the list: the counters are *)
(* of the day they are shown for, and the newest records are shown.         *)
(***************************************************************************)
EXTENDS UsageLedger, UsageLog, SequenceTheorems, FiniteSetTheorems,
        WellFoundedInduction, TLAPS

(* What each variable holds,                                                *)
Types ==
  /\ on \in [Request -> Account]
  /\ pc \in [Request -> {"stream", "record", "enqueue", "done"}]
  /\ queue \in Seq(Account) /\ batch \in Seq(Account) /\ busy \in BOOLEAN
  /\ workerPc \in {"none", "swap", "next", "query", "recheck"}
  /\ qpc \in [Querier -> {"idle", "token", "sent", "settle", "append"}]
  /\ qacc \in [Querier -> Account \cup {None}]
  /\ missed \subseteq Account /\ exit \in {"no", "flush", "stop", "ended"}

Counts ==
  /\ pending \in [Request -> Nat] /\ written \in [Request -> Nat]
  /\ rows \in [Taker -> [Request -> Nat]]

(* who asks about which account,                                            *)
QueryInv ==
  /\ \A q \in Querier : (qpc[q] = "idle") = (qacc[q] = None)
  /\ (workerPc = "query") = (qpc["worker"] # "idle")

(* that there is a worker exactly while busy is set, and that it swaps the  *)
(* queue when its batch is done,                                            *)
WorkerInv ==
  /\ (busy = FALSE) = (workerPc = "none")
  /\ workerPc \in {"none", "swap", "recheck"} => batch = <<>>

(* that only a thread that has settled has records to write,                *)
TakenInv ==
  /\ \A q \in Querier : qpc[q] # "append" => rows[q] = NoRecords
  /\ exit = "no" => rows["exit"] = NoRecords

(* and that a request makes its record before it queues its account.        *)
EnteredInv ==
  /\ entered \subseteq Request
  /\ \A r \in entered : pc[r] \in {"enqueue", "done"}

IInv == Types /\ Counts /\ QueryInv /\ WorkerInv /\ TakenInv /\ EnteredInv

(* The invariants hold at the beginning.                                    *)
LEMMA LedgerInit == Init => IInv /\ RecordedOnce /\ PendingHasQuery
<1> SUFFICES ASSUME Init PROVE IInv /\ RecordedOnce /\ PendingHasQuery
  OBVIOUS
<1> USE DEF Init, NoRecords
<1>1. Types
  BY LedgerAssumption, EmptySeq DEF Types, Querier
<1>2. Counts
  BY DEF Counts
<1>3. QueryInv /\ WorkerInv /\ TakenInv /\ EnteredInv
  BY DEF QueryInv, WorkerInv, TakenInv, EnteredInv, Querier, Taker
<1>4. RecordedOnce
  BY DEF RecordedOnce, Taker, Querier
<1>5. PendingHasQuery
  BY DEF PendingHasQuery
<1> QED
  BY <1>1, <1>2, <1>3, <1>4, <1>5 DEF IInv

-----------------------------------------------------------------------------
(* The queue and the batch.                                                 *)
LEMMA ToSetAppend ==
  ASSUME NEW S, NEW s \in Seq(S), NEW a \in S
  PROVE  ToSet(Append(s, a)) = ToSet(s) \cup {a}
<1>1. /\ Append(s, a) \in Seq(S) /\ Len(Append(s, a)) = Len(s) + 1 /\ Len(s) \in Nat
      /\ \A i \in 1..Len(s) : Append(s, a)[i] = s[i]
      /\ Append(s, a)[Len(s) + 1] = a
  BY AppendProperties
<1> DEFINE t == Append(s, a)
<1>2. ASSUME NEW i \in 1..Len(t) PROVE t[i] \in ToSet(s) \cup {a}
  <2>1. i \in 1..Len(s) \/ i = Len(s) + 1
    BY <1>1, <1>2
  <2> QED  BY <1>1, <2>1 DEF ToSet
<1>3. ASSUME NEW i \in 1..Len(s) PROVE s[i] \in ToSet(t)
  <2>1. i \in 1..Len(t) /\ t[i] = s[i]
    BY <1>1, <1>3
  <2> QED  BY <2>1 DEF ToSet
<1>4. a \in ToSet(t)
  <2>1. Len(s) + 1 \in 1..Len(t) /\ t[Len(s) + 1] = a
    BY <1>1
  <2> QED  BY <2>1 DEF ToSet
<1> QED
  BY <1>2, <1>3, <1>4 DEF ToSet

LEMMA ToSetHeadTail ==
  ASSUME NEW S, NEW s \in Seq(S), s # <<>>
  PROVE  ToSet(s) = {Head(s)} \cup ToSet(Tail(s))
<1>1. /\ Head(s) \in S /\ Tail(s) \in Seq(S) /\ Len(s) \in Nat /\ Len(s) > 0
      /\ Len(Tail(s)) = Len(s) - 1 /\ Head(s) = s[1]
      /\ \A i \in 1..Len(Tail(s)) : Tail(s)[i] = s[i + 1]
  BY HeadTailProperties, EmptySeq
<1>2. ASSUME NEW i \in 1..Len(s) PROVE s[i] \in {Head(s)} \cup ToSet(Tail(s))
  <2>1. CASE i = 1
    BY <1>1, <2>1
  <2>2. CASE i # 1
    <3>1. \E k \in 1..Len(Tail(s)) : k + 1 = i
      <4>1. i - 1 \in 1..Len(Tail(s)) /\ (i - 1) + 1 = i
        BY <1>1, <2>2
      <4> QED  BY <4>1
    <3>2. PICK k \in 1..Len(Tail(s)) : k + 1 = i
      BY <3>1
    <3>3. Tail(s)[k] = s[k + 1]
      BY <1>1
    <3>4. Tail(s)[k] \in ToSet(Tail(s))
      <4>1. DOMAIN Tail(s) = 1..Len(Tail(s))
        BY <1>1
      <4> QED  BY ONLY <4>1, k \in 1..Len(Tail(s)) DEF ToSet
    <3> QED  BY <3>2, <3>3, <3>4
  <2> QED  BY <2>1, <2>2
<1>3. Head(s) \in ToSet(s)
  <2>1. 1 \in 1..Len(s)
    BY <1>1
  <2> QED  BY <1>1, <2>1 DEF ToSet
<1>4. ASSUME NEW i \in 1..Len(Tail(s)) PROVE Tail(s)[i] \in ToSet(s)
  <2>1. i + 1 \in 1..Len(s)
    BY <1>1, <1>4
  <2> QED  BY <1>1, <2>1 DEF ToSet
<1> QED
  BY <1>2, <1>3, <1>4 DEF ToSet

-----------------------------------------------------------------------------
(* What each action keeps.                                                  *)
LEMMA TypesStep ==
  ASSUME IInv, Next
  PROVE  Types'
<1> USE LedgerAssumption DEF IInv, Types, Querier, vars, requestVars, workerVars, queryVars
<1>1. ASSUME NEW r \in Request, StreamEnds(r) PROVE Types'
  BY <1>1 DEF StreamEnds
<1>2. ASSUME NEW r \in Request, usageRecordPending(r) PROVE Types'
  BY <1>2 DEF usageRecordPending
<1>3. ASSUME NEW r \in Request, refreshCreditsAsync(r) PROVE Types'
  <2>1. on[r] \in Account
    BY <1>3
  <2>2. CASE UNCHANGED workerVars
    BY <1>3, <2>2 DEF refreshCreditsAsync
  <2>3. CASE queue' = Append(queue, on[r]) /\ busy' = TRUE /\ workerPc' \in {workerPc, "swap"} /\ batch' = batch
    <3>1. queue' \in Seq(Account)
      BY <2>1, <2>3, AppendProperties
    <3> QED  BY <1>3, <2>3, <3>1 DEF refreshCreditsAsync
  <2> QED  BY <1>3, <2>2, <2>3 DEF refreshCreditsAsync, Queue
<1>4. CASE WorkerSwap
  BY <1>4, EmptySeq DEF WorkerSwap
<1>5. CASE WorkerNext
  <2>1. CASE batch = <<>>
    BY <1>5, <2>1 DEF WorkerNext
  <2>2. CASE batch # <<>>
    <3>1. Head(batch) \in Account /\ Tail(batch) \in Seq(Account)
      BY <2>2, HeadTailProperties
    <3> QED  BY <1>5, <2>2, <3>1 DEF WorkerNext
  <2> QED  BY <2>1, <2>2
<1>6. CASE WorkerRecheck
  BY <1>6 DEF WorkerRecheck
<1>7. ASSUME NEW a \in Account, WindowQuery(a) PROVE Types'
  BY <1>7 DEF WindowQuery
<1>8. ASSUME NEW q \in Querier, QuerySend(q) \/ QueryAnswer(q) \/ QuerySettle(q) \/ QueryAppend(q) PROVE Types'
  <2>0. qacc[q] \in Account \/ qpc[q] = "idle"
    BY DEF QueryInv
  <2>1. CASE QuerySend(q)
    BY <2>0, <2>1 DEF QuerySend, Finish, Miss
  <2>2. CASE QueryAnswer(q)
    BY <2>0, <2>2 DEF QueryAnswer, Finish, Miss
  <2>3. CASE QuerySettle(q)
    BY <2>3 DEF QuerySettle
  <2>4. CASE QueryAppend(q)
    BY <2>4 DEF QueryAppend, Finish
  <2> QED  BY <1>8, <2>1, <2>2, <2>3, <2>4
<1>9. CASE Exiting
  BY <1>9 DEF Exiting, usageFlushPending, FlushAppend, ProcessEnds
<1> QED
  BY <1>1, <1>2, <1>3, <1>4, <1>5, <1>6, <1>7, <1>8, <1>9
  DEF Next, Step, Finishing, WorkerStep, QueryStep

LEMMA QueryWorkerStep ==
  ASSUME IInv, Next
  PROVE  QueryInv' /\ WorkerInv'
<1> USE LedgerAssumption DEF IInv, Types, QueryInv, WorkerInv, Querier, requestVars, workerVars, queryVars
<1>1. ASSUME NEW r \in Request, StreamEnds(r) \/ usageRecordPending(r) PROVE QueryInv' /\ WorkerInv'
  BY <1>1 DEF StreamEnds, usageRecordPending
<1>2. ASSUME NEW r \in Request, refreshCreditsAsync(r) PROVE QueryInv' /\ WorkerInv'
  <2>1. UNCHANGED <<qpc, qacc, batch>>
    BY <1>2 DEF refreshCreditsAsync, Queue
  <2>2. \/ UNCHANGED <<busy, workerPc>>
        \/ busy = TRUE /\ UNCHANGED <<busy, workerPc>>
        \/ busy = FALSE /\ busy' = TRUE /\ workerPc' = "swap"
    BY <1>2 DEF refreshCreditsAsync, Queue
  <2> QED  BY <2>1, <2>2
<1>3. CASE WorkerSwap
  BY <1>3 DEF WorkerSwap
<1>4. CASE WorkerNext
  <2>1. CASE batch = <<>>
    BY <1>4, <2>1 DEF WorkerNext
  <2>2. CASE batch # <<>>
    <3>1. Head(batch) \in Account
      BY <2>2, HeadTailProperties
    <3> QED  BY <1>4, <2>2, <3>1 DEF WorkerNext
  <2> QED  BY <2>1, <2>2
<1>5. CASE WorkerRecheck
  BY <1>5 DEF WorkerRecheck
<1>6. ASSUME NEW a \in Account, WindowQuery(a) PROVE QueryInv' /\ WorkerInv'
  BY <1>6 DEF WindowQuery
<1>7. ASSUME NEW q \in Querier, QueryStep(q) PROVE QueryInv' /\ WorkerInv'
  <2>0. q = "worker" => workerPc = "query"
    BY <1>7 DEF QueryStep, QuerySend, QueryAnswer, QuerySettle, QueryAppend
  <2>1. CASE Finish(q) /\ UNCHANGED batch
    <3>1. CASE q = "worker"
      BY <2>0, <2>1, <3>1 DEF Finish
    <3>2. CASE q # "worker"
      BY <2>1, <3>2 DEF Finish
    <3> QED  BY <3>1, <3>2
  <2>2. CASE /\ UNCHANGED workerVars /\ UNCHANGED qacc
             /\ qpc[q] # "idle" /\ \E p \in {"sent", "settle", "append"} : qpc' = [qpc EXCEPT ![q] = p]
    BY <2>2
  <2>3. CASE UNCHANGED <<workerVars, qpc, qacc>>
    BY <2>3
  <2> QED  BY <1>7, <2>1, <2>2, <2>3 DEF QueryStep, QuerySend, QueryAnswer, QuerySettle, QueryAppend, Finish
<1>8. CASE Exiting
  BY <1>8 DEF Exiting, usageFlushPending, FlushAppend, ProcessEnds
<1> QED
  BY <1>1, <1>2, <1>3, <1>4, <1>5, <1>6, <1>7, <1>8
  DEF Next, Step, Finishing, WorkerStep

-----------------------------------------------------------------------------
(* The records.  A record that is written goes from the thread that took it *)
(* to the log,                                                              *)
LEMMA AppendMoves ==
  ASSUME Counts, NEW t \in Taker, AppendOne(t)
  PROVE  \E r \in Request :
           /\ rows[t][r] > 0 /\ written'[r] = written[r] + 1 /\ rows'[t][r] = rows[t][r] - 1
           /\ \A x \in Request \ {r} : written'[x] = written[x] /\ rows'[t][x] = rows[t][x]
           /\ \A u \in Taker \ {t} : rows'[u] = rows[u]
           /\ written' \in [Request -> Nat] /\ rows' \in [Taker -> [Request -> Nat]]
<1>1. PICK r \in Request :
        /\ rows[t][r] > 0
        /\ written' = [written EXCEPT ![r] = @ + 1]
        /\ rows' = [rows EXCEPT ![t][r] = @ - 1]
  BY DEF AppendOne, Write
<1>2. rows[t] \in [Request -> Nat] /\ rows[t][r] \in Nat /\ rows[t][r] - 1 \in Nat
  BY <1>1 DEF Counts
<1>3. /\ rows'[t] = [rows[t] EXCEPT ![r] = rows[t][r] - 1]
      /\ \A u \in Taker \ {t} : rows'[u] = rows[u]
  BY <1>1 DEF Counts
<1>4. /\ rows'[t] \in [Request -> Nat] /\ rows'[t][r] = rows[t][r] - 1
      /\ \A x \in Request \ {r} : rows'[t][x] = rows[t][x]
  BY <1>2, <1>3
<1>5. rows' \in [Taker -> [Request -> Nat]]
  <2>1. rows' = [u \in Taker |-> rows'[u]]
    BY <1>1 DEF Counts
  <2>2. \A u \in Taker : rows'[u] \in [Request -> Nat]
    BY <1>3, <1>4 DEF Counts
  <2> QED  BY <2>1, <2>2
<1>6. /\ written' \in [Request -> Nat] /\ written'[r] = written[r] + 1
      /\ \A x \in Request \ {r} : written'[x] = written[x]
  BY <1>1 DEF Counts
<1> QED
  BY <1>1, <1>3, <1>4, <1>5, <1>6

(* and a settling thread takes the records of its account off the list.     *)
LEMMA SettleMoves ==
  ASSUME Counts, NEW q \in Querier, QuerySettle(q)
  PROVE  /\ \A r \in Request : rows'[q][r] + pending'[r] = pending[r]
         /\ \A u \in Taker \ {q} : rows'[u] = rows[u]
         /\ written' = written
         /\ pending' \in [Request -> Nat] /\ rows' \in [Taker -> [Request -> Nat]]
<1>1. q \in Taker
  BY DEF Taker
<1>2. pending' = LeftBy(qacc[q]) /\ rows' = [rows EXCEPT ![q] = TakenFor(qacc[q])] /\ written' = written
  BY DEF QuerySettle
<1>3. /\ LeftBy(qacc[q]) \in [Request -> Nat] /\ TakenFor(qacc[q]) \in [Request -> Nat]
      /\ \A r \in Request : TakenFor(qacc[q])[r] + LeftBy(qacc[q])[r] = pending[r]
  BY DEF Counts, LeftBy, TakenFor
<1>4. /\ rows'[q] = TakenFor(qacc[q]) /\ rows' \in [Taker -> [Request -> Nat]]
      /\ \A u \in Taker \ {q} : rows'[u] = rows[u]
  BY <1>1, <1>2, <1>3 DEF Counts
<1> QED
  BY <1>2, <1>3, <1>4

(* A record is in one place, and moves from one place to the next.          *)
LEMMA RecordsStep ==
  ASSUME IInv, RecordedOnce, Next
  PROVE  Counts' /\ RecordedOnce'
<1> USE DEF IInv
<1>0. "worker" \in Taker /\ "window" \in Taker /\ "exit" \in Taker
  BY DEF Taker, Querier
<1>t. \A t \in Taker : t = "worker" \/ t = "window" \/ t = "exit"
  BY DEF Taker, Querier
<1>n. \A t \in Taker, r \in Request : rows[t][r] \in Nat /\ pending[r] \in Nat /\ written[r] \in Nat
  BY DEF Counts
<1>a. ASSUME UNCHANGED <<entered, written, pending, rows>> PROVE Counts' /\ RecordedOnce'
  BY <1>a DEF Counts, RecordedOnce
<1>b. ASSUME NEW t \in Taker, AppendOne(t), UNCHANGED <<entered, pending>> PROVE Counts' /\ RecordedOnce'
  <2>1. PICK r \in Request :
           /\ rows[t][r] > 0 /\ written'[r] = written[r] + 1 /\ rows'[t][r] = rows[t][r] - 1
           /\ \A x \in Request \ {r} : written'[x] = written[x] /\ rows'[t][x] = rows[t][x]
           /\ \A u \in Taker \ {t} : rows'[u] = rows[u]
           /\ written' \in [Request -> Nat] /\ rows' \in [Taker -> [Request -> Nat]]
    BY <1>b, AppendMoves
  <2>2. Counts'
    BY <1>b, <2>1 DEF Counts
  <2> SUFFICES ASSUME NEW x \in Request
               PROVE  written'[x] + pending[x] + rows'["worker"][x] + rows'["window"][x] + rows'["exit"][x]
                        = written[x] + pending[x] + rows["worker"][x] + rows["window"][x] + rows["exit"][x]
    BY <1>b, <2>2 DEF RecordedOnce
  <2>3. written'[x] + rows'[t][x] = written[x] + rows[t][x]
    <3>1. written[x] \in Nat /\ rows[t][x] \in Nat
      BY <1>n
    <3>2. CASE x = r
      BY <2>1, <3>1, <3>2
    <3>3. CASE x # r
      BY <2>1, <3>1, <3>3
    <3> QED  BY <3>2, <3>3
  <2>4. /\ written'[x] \in Nat /\ written[x] \in Nat /\ pending[x] \in Nat
        /\ rows'["worker"][x] \in Nat /\ rows'["window"][x] \in Nat /\ rows'["exit"][x] \in Nat
        /\ rows["worker"][x] \in Nat /\ rows["window"][x] \in Nat /\ rows["exit"][x] \in Nat
    BY <1>0, <1>n, <2>1
  <2>5. \A u \in Taker \ {t} : rows'[u][x] = rows[u][x]
    BY <2>1
  <2>6. CASE t = "worker"
    <3>1. /\ rows'["window"][x] = rows["window"][x] /\ rows'["exit"][x] = rows["exit"][x]
          /\ written'[x] + rows'["worker"][x] = written[x] + rows["worker"][x]
      BY <1>0, <2>3, <2>5, <2>6
    <3> QED  BY ONLY <2>4, <3>1
  <2>7. CASE t = "window"
    <3>1. /\ rows'["worker"][x] = rows["worker"][x] /\ rows'["exit"][x] = rows["exit"][x]
          /\ written'[x] + rows'["window"][x] = written[x] + rows["window"][x]
      BY <1>0, <2>3, <2>5, <2>7
    <3> QED  BY ONLY <2>4, <3>1
  <2>8. CASE t = "exit"
    <3>1. /\ rows'["worker"][x] = rows["worker"][x] /\ rows'["window"][x] = rows["window"][x]
          /\ written'[x] + rows'["exit"][x] = written[x] + rows["exit"][x]
      BY <1>0, <2>3, <2>5, <2>8
    <3> QED  BY ONLY <2>4, <3>1
  <2> QED  BY <1>t, <2>6, <2>7, <2>8
<1>1. ASSUME NEW r \in Request, usageRecordPending(r) PROVE Counts' /\ RecordedOnce'
  <2>1. CASE UNCHANGED <<entered, pending, written>>
    BY <1>1, <2>1, <1>a DEF usageRecordPending, queryVars
  <2>2. CASE /\ entered' = entered \cup {r}
             /\ \/ written' = [written EXCEPT ![r] = @ + 1] /\ pending' = pending
                \/ pending' = [pending EXCEPT ![r] = @ + 1] /\ written' = written
    <3>1. rows' = rows
      BY <1>1 DEF usageRecordPending, queryVars
    <3>2. r \notin entered
      BY <1>1 DEF usageRecordPending, EnteredInv
    <3>3. Counts'
      BY <2>2, <3>1 DEF Counts
    <3>4. \A x \in Request :
            written'[x] + pending'[x] = written[x] + pending[x] + (IF x = r THEN 1 ELSE 0)
      <4> SUFFICES ASSUME NEW x \in Request
                   PROVE  written'[x] + pending'[x] = written[x] + pending[x] + (IF x = r THEN 1 ELSE 0)
        OBVIOUS
      <4>0. written[x] \in Nat /\ pending[x] \in Nat
        BY <1>0, <1>n
      <4>1. CASE written' = [written EXCEPT ![r] = @ + 1] /\ pending' = pending
        <5>1. written'[x] = IF x = r THEN written[x] + 1 ELSE written[x]
          BY <4>1 DEF Counts
        <5> QED  BY <4>0, <4>1, <5>1
      <4>2. CASE pending' = [pending EXCEPT ![r] = @ + 1] /\ written' = written
        <5>1. pending'[x] = IF x = r THEN pending[x] + 1 ELSE pending[x]
          BY <4>2 DEF Counts
        <5> QED  BY <4>0, <4>2, <5>1
      <4> QED  BY <2>2, <4>1, <4>2
    <3>5. \A x \in Request : written'[x] \in Nat /\ pending'[x] \in Nat
      BY <3>3 DEF Counts
    <3>6. RecordedOnce'
      <4> SUFFICES ASSUME NEW x \in Request
                   PROVE  written'[x] + pending'[x] + rows["worker"][x] + rows["window"][x] + rows["exit"][x]
                            = IF x \in entered' THEN 1 ELSE 0
        BY <3>1 DEF RecordedOnce
      <4>1. /\ written'[x] \in Nat /\ pending'[x] \in Nat /\ written[x] \in Nat /\ pending[x] \in Nat
            /\ rows["worker"][x] \in Nat /\ rows["window"][x] \in Nat /\ rows["exit"][x] \in Nat
        BY <1>0, <1>n, <3>5
      <4>2. written[x] + pending[x] + rows["worker"][x] + rows["window"][x] + rows["exit"][x]
              = IF x \in entered THEN 1 ELSE 0
        BY DEF RecordedOnce
      <4>3. CASE x = r
        BY <2>2, <3>2, <3>4, <4>1, <4>2, <4>3
      <4>4. CASE x # r
        BY <2>2, <3>4, <4>1, <4>2, <4>4
      <4> QED  BY <4>3, <4>4
    <3> QED  BY <3>3, <3>6
  <2> QED  BY <1>1, <2>1, <2>2 DEF usageRecordPending, Write
<1>2. ASSUME NEW q \in Querier, QuerySettle(q) PROVE Counts' /\ RecordedOnce'
  <2>0. q \in Taker /\ entered' = entered
    BY <1>2 DEF QuerySettle, requestVars, Taker
  <2>1. rows[q] = NoRecords
    BY <1>2 DEF QuerySettle, TakenInv
  <2>2. \A x \in Request : rows[q][x] = 0
    BY <2>1 DEF NoRecords
  <2>3. /\ \A x \in Request : rows'[q][x] + pending'[x] = pending[x]
        /\ \A u \in Taker \ {q} : rows'[u] = rows[u]
        /\ written' = written
        /\ pending' \in [Request -> Nat] /\ rows' \in [Taker -> [Request -> Nat]]
    BY <1>2, SettleMoves
  <2>4. Counts'
    BY <2>3 DEF Counts
  <2>5. \A x \in Request, u \in Taker : rows'[u][x] \in Nat /\ pending'[x] \in Nat
    BY <2>3
  <2> QED  BY <1>0, <1>n, <1>t, <2>0, <2>2, <2>3, <2>4, <2>5 DEF RecordedOnce
<1>3. CASE usageFlushPending
  <2>1. rows["exit"] = NoRecords /\ UNCHANGED <<written, entered>>
    BY <1>3 DEF usageFlushPending, TakenInv, requestVars
  <2>2. pending' = NoRecords /\ rows' = [rows EXCEPT !["exit"] = pending]
    BY <1>3 DEF usageFlushPending
  <2>3. Counts'
    BY <2>1, <2>2 DEF Counts, NoRecords
  <2>4. /\ rows'["exit"] = pending /\ rows'["worker"] = rows["worker"] /\ rows'["window"] = rows["window"]
        /\ \A x \in Request : rows["exit"][x] = 0 /\ pending'[x] = 0
    BY <1>0, <2>1, <2>2 DEF Counts, NoRecords
  <2> QED  BY <1>0, <1>n, <2>1, <2>3, <2>4 DEF RecordedOnce
<1>4. CASE FlushAppend
  <2>1. CASE UNCHANGED <<rows, written>>
    BY <1>4, <2>1, <1>a DEF FlushAppend, requestVars
  <2>2. CASE AppendOne("exit")
    BY <1>0, <1>4, <2>2, <1>b DEF FlushAppend, requestVars
  <2> QED  BY <1>4, <2>1, <2>2 DEF FlushAppend
<1>5. ASSUME NEW q \in Querier, QueryAppend(q) PROVE Counts' /\ RecordedOnce'
  <2>1. CASE UNCHANGED <<rows, written>>
    BY <1>5, <2>1, <1>a DEF QueryAppend, requestVars
  <2>2. CASE AppendOne(q)
    <3>1. q \in Taker
      BY DEF Taker
    <3> QED  BY <1>5, <2>2, <3>1, <1>b DEF QueryAppend, requestVars
  <2> QED  BY <1>5, <2>1, <2>2 DEF QueryAppend
<1>6. CASE \/ \E r \in Request : StreamEnds(r) \/ refreshCreditsAsync(r)
           \/ WorkerStep \/ \E a \in Account : WindowQuery(a)
           \/ \E q \in Querier : QuerySend(q) \/ QueryAnswer(q)
           \/ ProcessEnds
  BY <1>6, <1>a DEF StreamEnds, refreshCreditsAsync, WorkerStep, WorkerSwap, WorkerNext, WorkerRecheck,
     WindowQuery, QuerySend, QueryAnswer, ProcessEnds, requestVars, queryVars
<1> QED
  BY <1>1, <1>2, <1>3, <1>4, <1>5, <1>6 DEF Next, Step, Finishing, QueryStep, Exiting

-----------------------------------------------------------------------------
(* Only a thread that has settled has records to write.                     *)
LEMMA TakenStep ==
  ASSUME IInv, Next
  PROVE  TakenInv'
<1> USE DEF IInv
<1>0. "worker" \in Taker /\ "window" \in Taker /\ "exit" \in Taker /\ "exit" \notin Querier
  BY DEF Taker, Querier
<1>q. \A q \in Querier : q \in Taker /\ q # "exit"
  BY DEF Taker, Querier
<1>a. ASSUME UNCHANGED rows, exit' = "no" => exit = "no",
             \A q \in Querier : qpc'[q] # "append" => qpc[q] # "append"
      PROVE  TakenInv'
  BY <1>a DEF TakenInv, NoRecords
<1>1. ASSUME NEW q \in Querier, QueryStep(q) PROVE TakenInv'
  <2>0. /\ exit' = exit /\ qpc \in [Querier -> {"idle", "token", "sent", "settle", "append"}]
        /\ rows \in [Taker -> [Request -> Nat]]
    BY <1>1 DEF QueryStep, QuerySend, QueryAnswer, QuerySettle, QueryAppend, Types, Counts
  <2>1. CASE QuerySend(q) \/ QueryAnswer(q)
    <3>1. UNCHANGED rows /\ qpc[q] \in {"token", "sent"}
      BY <2>1 DEF QuerySend, QueryAnswer
    <3>2. \E p \in {"idle", "sent", "settle"} : qpc' = [qpc EXCEPT ![q] = p]
      BY <2>1 DEF QuerySend, QueryAnswer, Finish
    <3> QED  BY <2>0, <3>1, <3>2, <1>a
  <2>2. CASE QuerySettle(q)
    <3>1. /\ qpc' = [qpc EXCEPT ![q] = "append"]
          /\ rows' = [rows EXCEPT ![q] = TakenFor(qacc[q])]
      BY <2>2 DEF QuerySettle
    <3>2. \A u \in Taker \ {q} : rows'[u] = rows[u]
      BY <2>0, <3>1
    <3>3. qpc'[q] = "append" /\ \A u \in Querier \ {q} : qpc'[u] = qpc[u]
      BY <2>0, <3>1
    <3> QED  BY <1>0, <1>q, <2>0, <3>2, <3>3 DEF TakenInv, NoRecords
  <2>3. CASE QueryAppend(q) /\ rows[q] = NoRecords
    <3>1. /\ qpc' = [qpc EXCEPT ![q] = "idle"] /\ rows' = rows
      BY <2>3 DEF QueryAppend, Finish
    <3>2. \A u \in Querier \ {q} : qpc'[u] = qpc[u]
      BY <2>0, <3>1
    <3> QED  BY <1>0, <1>q, <2>0, <2>3, <3>1, <3>2 DEF TakenInv, NoRecords
  <2>4. CASE QueryAppend(q) /\ rows[q] # NoRecords
    <3>1. AppendOne(q) /\ qpc' = qpc /\ qpc[q] = "append"
      BY <2>4 DEF QueryAppend
    <3>2. \A u \in Taker \ {q} : rows'[u] = rows[u]
      BY <1>q, <3>1, AppendMoves
    <3> QED  BY <1>0, <1>q, <2>0, <3>1, <3>2 DEF TakenInv, NoRecords
  <2> QED  BY <1>1, <2>1, <2>2, <2>3, <2>4 DEF QueryStep
<1>2. CASE usageFlushPending
  <2>1. exit' # "no" /\ qpc' = qpc /\ rows' = [rows EXCEPT !["exit"] = pending]
    BY <1>2 DEF usageFlushPending
  <2>2. \A u \in Querier : rows'[u] = rows[u]
    BY <1>q, <2>1 DEF Counts
  <2> QED  BY <2>1, <2>2 DEF TakenInv, NoRecords
<1>3. CASE FlushAppend /\ rows["exit"] # NoRecords
  <2>1. AppendOne("exit") /\ exit' = "flush" /\ qpc' = qpc
    BY <1>3 DEF FlushAppend
  <2>2. \A u \in Taker \ {"exit"} : rows'[u] = rows[u]
    BY <1>0, <2>1, AppendMoves
  <2> QED  BY <1>q, <2>1, <2>2 DEF TakenInv, NoRecords
<1>4. CASE \/ \E r \in Request : StreamEnds(r) \/ Finishing(r)
           \/ WorkerSwap \/ WorkerRecheck \/ ProcessEnds
           \/ FlushAppend /\ rows["exit"] = NoRecords
  BY <1>4, <1>a DEF StreamEnds, Finishing, usageRecordPending, refreshCreditsAsync, WorkerSwap, WorkerRecheck,
     ProcessEnds, FlushAppend, queryVars
<1>5. CASE WorkerNext \/ \E a \in Account : WindowQuery(a)
  <2>1. UNCHANGED rows /\ exit' = exit
    BY <1>5 DEF WorkerNext, WindowQuery
  <2>2. qpc' = qpc \/ \E q \in Querier : qpc[q] = "idle" /\ qpc' = [qpc EXCEPT ![q] = "token"]
    BY <1>5 DEF WorkerNext, WindowQuery, QueryInv, Querier, Types
  <2>3. \A q \in Querier : qpc'[q] # "append" => qpc[q] # "append"
    BY <2>2 DEF Types
  <2> QED  BY <2>1, <2>3, <1>a
<1> QED
  BY <1>1, <1>2, <1>3, <1>4, <1>5 DEF Next, Step, WorkerStep, Exiting

(* A request makes its record before it queues its account.                 *)
LEMMA EnteredStep ==
  ASSUME IInv, Next
  PROVE  EnteredInv'
<1> USE DEF IInv
<1>1. ASSUME UNCHANGED <<entered, pc>> PROVE EnteredInv'
  BY <1>1 DEF EnteredInv
<1>2. ASSUME NEW r \in Request, StreamEnds(r) \/ Finishing(r) PROVE EnteredInv'
  <2>1. /\ pc \in [Request -> {"stream", "record", "enqueue", "done"}]
        /\ \E p \in {"record", "enqueue", "done"} : pc' = [pc EXCEPT ![r] = p]
        /\ pc[r] \notin {"enqueue"} \/ pc'[r] = "done"
    BY <1>2 DEF Types, StreamEnds, Finishing, usageRecordPending, refreshCreditsAsync
  <2>2. \/ entered' = entered /\ r \notin entered
        \/ entered' = entered /\ pc'[r] = "done"
        \/ entered' = entered \cup {r} /\ pc'[r] = "enqueue"
    BY <1>2, <2>1 DEF EnteredInv, StreamEnds, Finishing, usageRecordPending, refreshCreditsAsync
  <2> QED  BY <2>1, <2>2 DEF EnteredInv
<1> QED
  BY <1>1, <1>2 DEF Next, Step, WorkerStep, WorkerSwap, WorkerNext, WorkerRecheck, WindowQuery,
     QueryStep, QuerySend, QueryAnswer, QuerySettle, QueryAppend, Exiting, usageFlushPending, FlushAppend,
     ProcessEnds, requestVars

-----------------------------------------------------------------------------
(* The query of a pending record.                                           *)
Awaited(r) ==
  \/ pc[r] = "enqueue" \/ on[r] \in missed
  \/ on[r] \in ToSet(queue) \cup ToSet(batch)
  \/ qacc["worker"] = on[r] /\ qpc["worker"] # "append"

LEMMA AwaitedStep ==
  ASSUME IInv, PendingHasQuery, Next
  PROVE  PendingHasQuery'
<1> USE DEF IInv
<1>0. "worker" \in Querier /\ "window" \in Querier /\ \A q \in Querier : q = "worker" \/ q = "window"
  BY DEF Querier
<1>p. \A r \in Request : pending[r] > 0 => Awaited(r)
  BY DEF PendingHasQuery, Awaited
<1>o. on' = on /\ \A r \in Request : on[r] \in Account /\ on[r] # None
  <2>1. on' = on
    BY DEF Next, Step, StreamEnds, Finishing, usageRecordPending, refreshCreditsAsync, WorkerStep, WorkerSwap,
       WorkerNext, WorkerRecheck, WindowQuery, QueryStep, QuerySend, QueryAnswer, QuerySettle, QueryAppend,
       Exiting, usageFlushPending, FlushAppend, ProcessEnds, requestVars
  <2> QED  BY <2>1, LedgerAssumption DEF Types
<1> SUFFICES ASSUME NEW r \in Request, pending'[r] > 0 PROVE Awaited(r)'
  BY DEF PendingHasQuery, Awaited
<1>k. ASSUME pending[r] > 0, missed \subseteq missed',
             pc[r] = "enqueue" => pc'[r] = "enqueue",
             ToSet(queue) \cup ToSet(batch) \subseteq ToSet(queue') \cup ToSet(batch'),
             qacc'["worker"] = qacc["worker"], qpc'["worker"] = qpc["worker"]
      PROVE  Awaited(r)'
  BY <1>p, <1>o, <1>k DEF Awaited
<1>1. ASSUME NEW x \in Request, StreamEnds(x) PROVE Awaited(r)'
  <2>1. pc[r] = "enqueue" => pc'[r] = "enqueue"
    BY <1>1 DEF StreamEnds, Types
  <2> QED  BY <1>1, <2>1, <1>k DEF StreamEnds, workerVars, queryVars
<1>2. ASSUME NEW x \in Request, usageRecordPending(x) PROVE Awaited(r)'
  <2>1. pc' = [pc EXCEPT ![x] = "enqueue"] /\ UNCHANGED <<workerVars, queryVars, missed>>
    BY <1>2 DEF usageRecordPending
  <2>2. CASE x = r
    BY <2>1, <2>2 DEF Awaited, Types
  <2>3. CASE x # r
    <3>1. pending'[r] = pending[r]
      BY <1>2, <2>3 DEF usageRecordPending, Counts
    <3>2. pc'[r] = pc[r]
      BY <2>1, <2>3 DEF Types
    <3> QED  BY <2>1, <3>1, <3>2, <1>k DEF workerVars, queryVars
  <2> QED  BY <2>2, <2>3
<1>3. ASSUME NEW x \in Request, refreshCreditsAsync(x) PROVE Awaited(r)'
  <2>1. /\ pc' = [pc EXCEPT ![x] = "done"] /\ UNCHANGED <<queryVars, pending, missed>>
        /\ Queue(on[x]) /\ batch' = batch
    BY <1>3 DEF refreshCreditsAsync, Queue, workerVars
  <2>2. ToSet(queue') = ToSet(queue) \cup {on[x]}
    <3>1. CASE Contains(queue, on[x])
      <4>1. on[x] \in ToSet(queue)
        BY <3>1 DEF Contains, ToSet, Types
      <4>2. queue' = queue
        BY <2>1, <3>1 DEF Queue, workerVars
      <4> QED  BY <4>1, <4>2
    <3>2. CASE ~ Contains(queue, on[x])
      <4>1. queue' = Append(queue, on[x])
        BY <2>1, <3>2 DEF Queue
      <4> QED  BY <4>1, <1>o, ToSetAppend DEF Types
    <3> QED  BY <3>1, <3>2
  <2>3. CASE x = r
    BY <1>o, <2>2, <2>3 DEF Awaited
  <2>4. CASE x # r
    <3>1. pc'[r] = pc[r]
      BY <2>1, <2>4 DEF Types
    <3> QED  BY <2>1, <2>2, <3>1, <1>k DEF queryVars
  <2> QED  BY <2>3, <2>4
<1>4. CASE WorkerSwap
  <2>1. batch = <<>> /\ batch' = queue /\ queue' = <<>>
    BY <1>4 DEF WorkerSwap, WorkerInv
  <2>2. ToSet(queue) \cup ToSet(batch) \subseteq ToSet(queue') \cup ToSet(batch')
    BY <2>1 DEF ToSet
  <2> QED  BY <1>4, <2>2, <1>k DEF WorkerSwap, requestVars, queryVars
<1>5. CASE WorkerNext
  <2>1. CASE batch = <<>>
    BY <1>5, <2>1, <1>k DEF WorkerNext, requestVars
  <2>2. CASE batch # <<>>
    <3>1. /\ batch' = Tail(batch) /\ qacc' = [qacc EXCEPT !["worker"] = Head(batch)]
          /\ qpc' = [qpc EXCEPT !["worker"] = "token"]
          /\ UNCHANGED <<requestVars, queue, pending, missed>> /\ workerPc = "next"
      BY <1>5, <2>2 DEF WorkerNext
    <3>2. qacc["worker"] = None
      BY <1>0, <3>1 DEF QueryInv
    <3>3. qacc'["worker"] = Head(batch) /\ qpc'["worker"] = "token"
      BY <1>0, <3>1 DEF Types
    <3>4. ToSet(batch) = {Head(batch)} \cup ToSet(batch')
      BY <2>2, <3>1, ToSetHeadTail DEF Types
    <3> QED  BY <1>p, <1>o, <3>1, <3>2, <3>3, <3>4 DEF Awaited, requestVars
  <2> QED  BY <2>1, <2>2
<1>6. CASE WorkerRecheck
  BY <1>6, <1>k DEF WorkerRecheck, requestVars, queryVars
<1>7. ASSUME NEW a \in Account, WindowQuery(a) PROVE Awaited(r)'
  <2>1. qacc'["worker"] = qacc["worker"] /\ qpc'["worker"] = qpc["worker"]
    BY <1>0, <1>7 DEF WindowQuery, Types
  <2> QED  BY <1>7, <2>1, <1>k DEF WindowQuery, requestVars, workerVars
<1>8. ASSUME NEW q \in Querier, QueryStep(q) PROVE Awaited(r)'
  <2>1. UNCHANGED <<requestVars, queue, batch>>
    BY <1>8 DEF QueryStep, QuerySend, QueryAnswer, QuerySettle, QueryAppend, Finish, workerVars
  <2>2. CASE QuerySend(q) \/ QueryAnswer(q)
    <3>1. pending' = pending
      BY <2>2 DEF QuerySend, QueryAnswer
    <3>2. CASE Finish(q) /\ Miss(q)
      <4>1. CASE q = "worker"
        <5>1. missed' = missed \cup {qacc["worker"]}
          BY <3>2, <4>1 DEF Miss
        <5> QED  BY <1>p, <1>o, <2>1, <3>1, <5>1 DEF Awaited, requestVars
      <4>2. CASE q = "window"
        <5>1. missed' = missed /\ qacc'["worker"] = qacc["worker"] /\ qpc'["worker"] = qpc["worker"]
          BY <1>0, <3>2, <4>2 DEF Finish, Miss, Types
        <5> QED  BY <2>1, <3>1, <5>1, <1>k DEF requestVars
      <4> QED  BY <1>0, <4>1, <4>2
    <3>3. CASE UNCHANGED <<qacc, missed>> /\ \E p \in {"sent", "settle"} : qpc' = [qpc EXCEPT ![q] = p]
      <4>1. qpc'["worker"] = "append" => qpc["worker"] = "append"
        BY <1>0, <3>3 DEF Types
      <4> QED  BY <1>p, <1>o, <2>1, <3>1, <3>3, <4>1 DEF Awaited, requestVars
    <3> QED  BY <2>2, <3>2, <3>3 DEF QuerySend, QueryAnswer
  <2>3. CASE QuerySettle(q)
    <3>1. /\ pending' = LeftBy(qacc[q]) /\ missed' = missed \ {qacc[q]}
          /\ qpc' = [qpc EXCEPT ![q] = "append"] /\ qacc' = qacc
      BY <2>3 DEF QuerySettle
    <3>2. on[r] # qacc[q] /\ pending[r] > 0
      BY <3>1 DEF LeftBy
    <3>3. Awaited(r)
      BY <1>p, <3>2
    <3>4. q = "window" => qpc'["worker"] = qpc["worker"]
      BY <1>0, <3>1 DEF Types
    <3> QED  BY <1>0, <1>o, <2>1, <3>1, <3>2, <3>3, <3>4 DEF Awaited, requestVars
  <2>4. CASE QueryAppend(q)
    <3>1. UNCHANGED <<pending, missed>> /\ qpc[q] = "append"
      BY <2>4 DEF QueryAppend
    <3>2. CASE q = "worker"
      BY <1>p, <1>o, <2>1, <3>1, <3>2 DEF Awaited, requestVars
    <3>3. CASE q = "window"
      <4>1. qacc'["worker"] = qacc["worker"] /\ qpc'["worker"] = qpc["worker"]
        BY <1>0, <2>4, <3>3 DEF QueryAppend, Finish, Types
      <4> QED  BY <2>1, <3>1, <4>1, <1>k DEF requestVars
    <3> QED  BY <1>0, <3>2, <3>3
  <2> QED  BY <1>8, <2>2, <2>3, <2>4 DEF QueryStep
<1>9. CASE usageFlushPending
  <2>1. pending'[r] = 0
    BY <1>9 DEF usageFlushPending, NoRecords
  <2> QED  BY <2>1
<1>10. CASE FlushAppend \/ ProcessEnds
  BY <1>10, <1>k DEF FlushAppend, ProcessEnds, requestVars, workerVars, queryVars
<1> QED
  BY <1>1, <1>2, <1>3, <1>4, <1>5, <1>6, <1>7, <1>8, <1>9, <1>10
  DEF Next, Step, Finishing, WorkerStep, Exiting

-----------------------------------------------------------------------------
LEMMA IInvStutter ==
  ASSUME IInv, RecordedOnce, PendingHasQuery, UNCHANGED vars
  PROVE  (IInv /\ RecordedOnce /\ PendingHasQuery)'
<1> USE DEF vars, requestVars, workerVars, queryVars
<1>1. Types' /\ Counts'
  BY DEF IInv, Types, Counts
<1>2. QueryInv' /\ WorkerInv' /\ TakenInv' /\ EnteredInv'
  BY DEF IInv, QueryInv, WorkerInv, TakenInv, EnteredInv, NoRecords
<1>3. RecordedOnce' /\ PendingHasQuery'
  BY DEF RecordedOnce, PendingHasQuery
<1> QED  BY <1>1, <1>2, <1>3 DEF IInv

(* The counts, the queries and the worker are as the invariants say, no     *)
(* record is in two places or in none, and every pending record has a query *)
(* on its way, in every state of every run.                                 *)
THEOREM LedgerSafe == Spec => [](IInv /\ RecordedOnce /\ PendingHasQuery)
<1>1. Init => IInv /\ RecordedOnce /\ PendingHasQuery
  BY LedgerInit
<1>2. IInv /\ RecordedOnce /\ PendingHasQuery /\ [Next]_vars => (IInv /\ RecordedOnce /\ PendingHasQuery)'
  <2> SUFFICES ASSUME IInv, RecordedOnce, PendingHasQuery, [Next]_vars
               PROVE  (IInv /\ RecordedOnce /\ PendingHasQuery)'
    OBVIOUS
  <2>1. CASE Next
    BY <2>1, TypesStep, QueryWorkerStep, RecordsStep, TakenStep, EnteredStep, AwaitedStep DEF IInv
  <2>2. CASE UNCHANGED vars
    BY <2>2, IInvStutter
  <2> QED  BY <2>1, <2>2
<1> QED
  BY <1>1, <1>2, PTL DEF Spec

(* No usage record is lost and none is written twice (usageRecordPending,   *)
(* refreshCredits, usageFlushPending): whoever settles it, a record is at   *)
(* any time in exactly one of the pending list, a settling thread and the   *)
(* log.                                                                     *)
THEOREM NoneLostNorTwice == Spec => []RecordedOnce
BY LedgerSafe, PTL

(* No pending record is forgotten (refreshCreditsAsync and its worker):     *)
(* until it is settled its account is about to be queued, queued, or being  *)
(* asked about by the worker, unless the last query failed.                 *)
THEOREM PendingIsQueried == Spec => []PendingHasQuery
BY LedgerSafe, PTL

(* Every variable of the ledger keeps its type, a querier has an account    *)
(* exactly while it is asking, and the worker waits exactly for its own     *)
(* query.                                                                   *)
THEOREM LedgerTypeCorrect == Spec => []TypeOK
<1>1. IInv => TypeOK
  <2> SUFFICES ASSUME IInv PROVE TypeOK
    OBVIOUS
  <2>1. \A q \in Querier : IF qpc[q] = "idle" THEN qacc[q] = None ELSE qacc[q] \in Account
    BY DEF IInv, Types, QueryInv
  <2>2. (workerPc = "query") = (qpc["worker"] # "idle")
    BY DEF IInv, QueryInv
  <2> QED  BY <2>1, <2>2 DEF TypeOK, IInv, Types, Counts, EnteredInv
<1> QED
  BY <1>1, LedgerSafe, PTL

-----------------------------------------------------------------------------
(* Induction up to a bound, over a set of numbers.                          *)
LEMMA ReachesBound ==
  ASSUME NEW N \in Nat, NEW T, 0 \in T, \A m \in Nat : m < N /\ m \in T => m + 1 \in T
  PROVE  0 .. N \subseteq T
<1> DEFINE R == {ss \in Nat \X Nat : ss[1] < ss[2]}
<1> DEFINE Out == {m \in 0 .. N : m \notin T}
<1>1. IsWellFoundedOn(R, Nat)
  BY NatLessThanWellFounded DEF OpToRel
<1>2. SUFFICES ASSUME Out # {} PROVE FALSE
  OBVIOUS
<1>3. PICK x \in Out : \A y \in Out : <<y, x>> \notin R
  <2>1. Out \subseteq Nat
    OBVIOUS
  <2> QED  BY <1>1, <1>2, <2>1, WFMin
<1>4. ASSUME NEW y \in Out PROVE ~(y < x)
  <2>1. <<y, x>> \notin R /\ y \in Nat /\ x \in Nat
    BY <1>3
  <2> HIDE DEF Out
  <2>2. y < x => <<y, x>> \in R
    BY <2>1
  <2> QED  BY <2>1, <2>2
<1>5. x \in Nat \ {0} /\ x - 1 \in Nat /\ x - 1 < N /\ x - 1 < x /\ x - 1 \in 0 .. N
  OBVIOUS
<1>6. x - 1 \in T
  BY <1>4, <1>5
<1>7. (x - 1) + 1 \in T
  BY <1>5, <1>6
<1> QED
  BY <1>5, <1>7

(* What the recursion over the days is a definition of.                     *)
LEMMA ListExists ==
  ASSUME NEW N \in Nat, NEW P
  PROVE  \E g : g = [d \in 0 .. N |-> IF d = 0 THEN <<>> ELSE P[d] \o g[d - 1]]
<1> DEFINE Rec(g, m) == g = [d \in 0 .. m |-> IF d = 0 THEN <<>> ELSE P[d] \o g[d - 1]]
<1> DEFINE T == {m \in Nat : \E g : Rec(g, m)}
<1>1. 0 \in T
  <2> DEFINE g == [d \in 0 .. 0 |-> <<>>]
  <2>1. g = [d \in 0 .. 0 |-> IF d = 0 THEN <<>> ELSE P[d] \o g[d - 1]]
    OBVIOUS
  <2> QED  BY <2>1
<1>2. ASSUME NEW m \in Nat, m \in T PROVE m + 1 \in T
  <2>1. PICK g : Rec(g, m)
    BY <1>2
  <2>2. DOMAIN g = 0 .. m /\ \A d \in 0 .. m : g[d] = IF d = 0 THEN <<>> ELSE P[d] \o g[d - 1]
    BY <2>1
  <2> HIDE DEF Rec
  <2> DEFINE h == [d \in 0 .. m + 1 |-> IF d = m + 1 THEN P[m + 1] \o g[m] ELSE g[d]]
  <2>3. \A d \in 0 .. m : h[d] = g[d]
    OBVIOUS
  <2>4. h[m + 1] = P[m + 1] \o g[m] /\ m + 1 # 0 /\ (m + 1) - 1 = m
    OBVIOUS
  <2>5. ASSUME NEW d \in 0 .. m + 1
        PROVE  h[d] = IF d = 0 THEN <<>> ELSE P[d] \o h[d - 1]
    <3>1. CASE d = m + 1
      <4>1. m \in 0 .. m
        OBVIOUS
      <4> HIDE DEF h
      <4> QED  BY <2>3, <2>4, <3>1, <4>1
    <3>2. CASE d # m + 1
      <4>1. d \in 0 .. m /\ (d # 0 => d - 1 \in 0 .. m)
        BY <3>2
      <4>2. h[d] = g[d] /\ (d # 0 => h[d - 1] = g[d - 1])
        BY <4>1, <2>3
      <4> HIDE DEF h
      <4> QED  BY <2>2, <4>1, <4>2
    <3> QED  BY <3>1, <3>2
  <2>6. h = [d \in 0 .. m + 1 |-> h[d]]
    OBVIOUS
  <2> HIDE DEF h
  <2>7. Rec(h, m + 1)
    BY <2>5, <2>6 DEF Rec
  <2> QED  BY <2>7
<1> HIDE DEF T
<1>3. 0 .. N \subseteq T
  BY <1>1, <1>2, ReachesBound
<1>4. N \in T
  BY <1>3
<1> QED
  BY <1>4 DEF T

Part(logs, readable) == [d \in Day |-> IF d \in readable THEN Reverse(logs[d]) ELSE <<>>]

LEMMA UpToIs ==
  ASSUME NEW logs, NEW readable
  PROVE  LET f == UpTo(logs, readable) IN
         /\ f[0] = <<>>
         /\ \A d \in Day : f[d] = Part(logs, readable)[d] \o f[d - 1]
<1> DEFINE P == Part(logs, readable)
<1> DEFINE f == UpTo(logs, readable)
<1>0. MaxDay \in Nat
  BY LogAssumption
<1>1. \E g : g = [d \in 0 .. MaxDay |->
                     IF d = 0 THEN <<>>
                     ELSE (IF d \in readable THEN Reverse(logs[d]) ELSE <<>>) \o g[d - 1]]
  <2>1. PICK g : g = [d \in 0 .. MaxDay |-> IF d = 0 THEN <<>> ELSE P[d] \o g[d - 1]]
    <3> HIDE DEF P
    <3> QED  BY <1>0, ListExists
  <2>2. \A d \in 0 .. MaxDay : d # 0 => d \in Day
    BY <1>0 DEF Day
  <2>3. \A d \in Day : P[d] = IF d \in readable THEN Reverse(logs[d]) ELSE <<>>
    BY DEF Part
  <2> HIDE DEF P
  <2>4. \A d \in 0 .. MaxDay :
          (IF d = 0 THEN <<>> ELSE P[d] \o g[d - 1])
            = IF d = 0 THEN <<>>
              ELSE (IF d \in readable THEN Reverse(logs[d]) ELSE <<>>) \o g[d - 1]
    BY <2>2, <2>3
  <2> QED  BY <2>1, <2>4
<1>2. f = [d \in 0 .. MaxDay |->
             IF d = 0 THEN <<>>
             ELSE (IF d \in readable THEN Reverse(logs[d]) ELSE <<>>) \o f[d - 1]]
  BY <1>1 DEF UpTo
<1>3. 0 \in 0 .. MaxDay /\ \A d \in Day : d \in 0 .. MaxDay /\ d # 0
  BY <1>0 DEF Day
<1> HIDE DEF f
<1>4. f[0] = <<>>
  BY <1>2, <1>3
<1>5. ASSUME NEW d \in Day PROVE f[d] = Part(logs, readable)[d] \o f[d - 1]
  <2>1. f[d] = (IF d \in readable THEN Reverse(logs[d]) ELSE <<>>) \o f[d - 1]
    BY <1>2, <1>3
  <2>2. Part(logs, readable)[d] = IF d \in readable THEN Reverse(logs[d]) ELSE <<>>
    BY DEF Part
  <2> QED  BY <2>1, <2>2
<1> QED
  BY <1>4, <1>5 DEF f

-----------------------------------------------------------------------------
(* What each variable of the log holds,                                     *)
LogTypes ==
  /\ today \in Day /\ at \in [Record -> 0 .. MaxDay]
  /\ files \in [Day -> Seq(Record)]
  /\ cacheLoaded \in BOOLEAN /\ cache \in Seq(Record) /\ Len(cache) <= Limit
  /\ countedDay \in 0 .. today /\ count \in Nat
  /\ appended \in Seq(Record)

(* that a record is settled once, and has its time by then,                 *)
AppendedInv ==
  /\ IsInjective(appended)
  /\ \A i \in 1 .. Len(appended) : at[appended[i]] # 0
  /\ uncounted \subseteq ToSet(appended)

(* that the file of a day has records of that day, in the order in which    *)
(* they were settled,                                                       *)
FileOK(log, d) ==
  /\ \A i \in 1 .. Len(log) : log[i] \in ToSet(appended) /\ at[log[i]] = d
  /\ \A i, j \in 1 .. Len(log) : i < j => Position(log[i]) < Position(log[j])

FilesInv == \A d \in Day : FileOK(files[d], d)

(* and that the list is in order: of two records the first is newer, made   *)
(* on a later day or settled later.                                         *)
Newer(x, y) == at[x] > at[y] \/ Position(x) > Position(y)

Descends(list) ==
  /\ \A i \in 1 .. Len(list) : list[i] \in ToSet(appended)
  /\ \A i, j \in 1 .. Len(list) : i < j => Newer(list[i], list[j])

CacheInv == cacheLoaded => Descends(cache)

LogIInv == LogTypes /\ AppendedInv /\ FilesInv /\ CacheInv

LEMMA DayBounds == /\ MaxDay \in Nat \ {0} /\ Limit \in Nat \ {0} /\ KeepDays \in Nat \ {0}
                   /\ Day \subseteq Nat \ {0}
BY LogAssumption DEF Day

(* A record is settled in one place of the order.                           *)
LEMMA PositionIs ==
  ASSUME LogTypes, AppendedInv, NEW r \in ToSet(appended)
  PROVE  Position(r) \in 1 .. Len(appended) /\ appended[Position(r)] = r
<1>1. DOMAIN appended = 1 .. Len(appended)
  BY DEF LogTypes
<1>2. \E i \in DOMAIN appended : appended[i] = r
  BY DEF ToSet
<1> QED
  BY <1>1, <1>2 DEF Position

LEMMA PositionOf ==
  ASSUME LogTypes, AppendedInv, NEW i \in 1 .. Len(appended)
  PROVE  Position(appended[i]) = i
<1>1. DOMAIN appended = 1 .. Len(appended)
  BY DEF LogTypes
<1>2. appended[i] \in ToSet(appended)
  BY <1>1 DEF ToSet
<1>3. /\ Position(appended[i]) \in 1 .. Len(appended)
      /\ appended[Position(appended[i])] = appended[i]
  BY <1>2, PositionIs
<1> QED
  BY <1>1, <1>3 DEF AppendedInv, IsInjective

(* The files read so far are a list in order, of days up to the last read.  *)
LEMMA ReadInOrder ==
  ASSUME LogTypes, AppendedInv, NEW logs \in [Day -> Seq(Record)], NEW readable,
         \A d \in Day : FileOK(logs[d], d)
  PROVE  LET list == Recent(logs, readable) IN
         list \in Seq(Record) /\ Descends(list)
<1> DEFINE f == UpTo(logs, readable)
<1> DEFINE Good(d) == /\ f[d] \in Seq(Record) /\ Descends(f[d])
                      /\ \A i \in 1 .. Len(f[d]) : at[f[d][i]] <= d
<1> DEFINE T == {d \in 0 .. MaxDay : Good(d)}
<1>0. /\ f[0] = <<>>
      /\ \A d \in Day : f[d] = Part(logs, readable)[d] \o f[d - 1]
  BY UpToIs
<1> HIDE DEF f
<1>1. 0 \in T
  <2>1. f[0] \in Seq(Record) /\ Len(f[0]) = 0
    BY <1>0
  <2> QED  BY <2>1, DayBounds DEF Descends
<1>2. ASSUME NEW m \in Nat, m < MaxDay, m \in T PROVE m + 1 \in T
  <2> DEFINE d == m + 1
  <2> DEFINE p == Part(logs, readable)[d]
  <2>1. d \in Day /\ d - 1 = m /\ d \in 0 .. MaxDay
    BY <1>2, DayBounds DEF Day
  <2>2. f[d] = p \o f[m]
    BY <1>0, <2>1
  <2>3. p = IF d \in readable THEN Reverse(logs[d]) ELSE <<>>
    BY <2>1 DEF Part
  <2>4. logs[d] \in Seq(Record) /\ FileOK(logs[d], d)
    BY <2>1
  <2> HIDE DEF d
  <2>5. p \in Seq(Record) /\ Descends(p) /\ \A i \in 1 .. Len(p) : at[p[i]] = d
    <3> HIDE DEF p
    <3>1. CASE d \notin readable
      BY <2>3, <3>1 DEF Descends
    <3>2. CASE d \in readable
      <4> DEFINE n == Len(logs[d])
      <4>1. n \in Nat /\ p = [i \in 1 .. n |-> logs[d][(n - i) + 1]]
        BY <2>3, <2>4, <3>2 DEF Reverse
      <4>2. p \in Seq(Record) /\ Len(p) = n
        BY <2>4, <4>1
      <4>3. \A i \in 1 .. n : (n - i) + 1 \in 1 .. n /\ p[i] = logs[d][(n - i) + 1]
        BY <4>1
      <4> HIDE DEF n
      <4>4. \A i \in 1 .. n : p[i] \in ToSet(appended) /\ at[p[i]] = d
        BY <2>4, <4>1, <4>3 DEF FileOK, n
      <4>5. ASSUME NEW i \in 1 .. n, NEW j \in 1 .. n, i < j PROVE Newer(p[i], p[j])
        <5>1. (n - j) + 1 < (n - i) + 1 /\ (n - j) + 1 \in 1 .. n /\ (n - i) + 1 \in 1 .. n
          BY <4>1, <4>5
        <5>2. Position(logs[d][(n - j) + 1]) < Position(logs[d][(n - i) + 1])
          BY <2>4, <5>1 DEF FileOK, n
        <5>3. p[i] = logs[d][(n - i) + 1] /\ p[j] = logs[d][(n - j) + 1]
          BY <4>3
        <5>4. p[i] \in ToSet(appended) /\ p[j] \in ToSet(appended)
          BY <4>4
        <5>5. Position(p[i]) \in Int /\ Position(p[j]) \in Int
          BY <5>4, PositionIs DEF LogTypes
        <5> QED  BY <5>2, <5>3, <5>5 DEF Newer
      <4> QED  BY <4>2, <4>4, <4>5 DEF Descends
    <3> QED  BY <3>1, <3>2
  <2>6. f[m] \in Seq(Record) /\ Descends(f[m]) /\ \A i \in 1 .. Len(f[m]) : at[f[m][i]] <= m
    BY <1>2
  <2> HIDE DEF p
  <2> DEFINE q == f[m]
  <2> HIDE DEF q
  <2>7. q \in Seq(Record) /\ Descends(q) /\ \A i \in 1 .. Len(q) : at[q[i]] <= m
    BY <2>6 DEF q
  <2>8. /\ p \o q \in Seq(Record) /\ Len(p \o q) = Len(p) + Len(q)
        /\ Len(p) \in Nat /\ Len(q) \in Nat
        /\ \A i \in 1 .. Len(p \o q) :
              \/ i \in 1 .. Len(p) /\ (p \o q)[i] = p[i]
              \/ i > Len(p) /\ i - Len(p) \in 1 .. Len(q) /\ (p \o q)[i] = q[i - Len(p)]
    BY <2>5, <2>7
  <2>9. m \in Nat /\ d = m + 1
    BY DEF d
  <2>10. \A r \in ToSet(appended) : at[r] \in Nat
    <3>1. \A r \in ToSet(appended) : r \in Record
      BY DEF LogTypes, ToSet
    <3> QED  BY <3>1, DayBounds DEF LogTypes
  <2>11. \A i \in 1 .. Len(p \o q) : (p \o q)[i] \in ToSet(appended) /\ at[(p \o q)[i]] <= d
    BY <2>5, <2>7, <2>8, <2>9, <2>10 DEF Descends
  <2>12. ASSUME NEW i \in 1 .. Len(p \o q), NEW j \in 1 .. Len(p \o q), i < j
         PROVE  Newer((p \o q)[i], (p \o q)[j])
    <3>1. CASE i \in 1 .. Len(p) /\ j \in 1 .. Len(p)
      <4>1. (p \o q)[i] = p[i] /\ (p \o q)[j] = p[j]
        BY <2>8, <3>1
      <4> QED  BY <2>5, <2>12, <3>1, <4>1 DEF Descends
    <3>2. CASE i \in 1 .. Len(p) /\ j > Len(p)
      <4>1. /\ (p \o q)[i] = p[i] /\ j - Len(p) \in 1 .. Len(q)
            /\ (p \o q)[j] = q[j - Len(p)]
        BY <2>8, <3>2
      <4>2. at[p[i]] = d /\ at[q[j - Len(p)]] <= m /\ at[q[j - Len(p)]] \in Nat
        BY <2>5, <2>7, <2>10, <3>2, <4>1 DEF Descends
      <4> QED  BY <2>9, <4>1, <4>2 DEF Newer
    <3>3. CASE i > Len(p)
      <4>1. /\ i - Len(p) \in 1 .. Len(q) /\ (p \o q)[i] = q[i - Len(p)]
            /\ j - Len(p) \in 1 .. Len(q) /\ (p \o q)[j] = q[j - Len(p)]
            /\ i - Len(p) < j - Len(p)
        BY <2>8, <2>12, <3>3
      <4> QED  BY <2>7, <4>1 DEF Descends
    <3> QED  BY <2>8, <2>12, <3>1, <3>2, <3>3
  <2>13. Good(d)
    <3>1. f[d] = p \o q
      BY <2>2 DEF q
    <3>2. Descends(p \o q)
      BY <2>11, <2>12 DEF Descends
    <3> QED  BY <2>8, <2>11, <3>1, <3>2
  <2> HIDE DEF Good
  <2> QED  BY <2>1, <2>13 DEF d
<1> HIDE DEF T
<1>3. 0 .. MaxDay \subseteq T
  BY <1>1, <1>2, ReachesBound, DayBounds
<1>4. MaxDay \in T
  BY <1>3, DayBounds
<1>5. f[MaxDay] \in Seq(Record) /\ Descends(f[MaxDay])
  BY <1>4 DEF T
<1>6. Recent(logs, readable) = f[MaxDay]
  BY DEF Recent, f
<1> QED
  BY <1>5, <1>6

(* A list in order has a record once.                                       *)
LEMMA OrderIsStrict ==
  ASSUME LogTypes, AppendedInv, NEW x \in ToSet(appended)
  PROVE  x \in Record /\ at[x] \in Nat /\ Position(x) \in Nat /\ ~Newer(x, x)
<1>1. x \in Record /\ at[x] \in Nat
  BY DayBounds DEF LogTypes, ToSet
<1>2. Position(x) \in Nat
  BY PositionIs DEF LogTypes
<1> QED
  BY <1>1, <1>2 DEF Newer

LEMMA DescendsIsInjective ==
  ASSUME LogTypes, AppendedInv, NEW list \in Seq(Record), Descends(list)
  PROVE  IsInjective(list) /\ ToSet(list) \subseteq ToSet(appended)
<1>1. DOMAIN list = 1 .. Len(list) /\ Len(list) \in Nat
  OBVIOUS
<1>2. ASSUME NEW i \in 1 .. Len(list), NEW j \in 1 .. Len(list), list[i] = list[j], i # j
      PROVE  FALSE
  <2>1. list[i] \in ToSet(appended)
    BY DEF Descends
  <2>2. ~Newer(list[i], list[i])
    BY <2>1, OrderIsStrict
  <2>3. i < j \/ j < i
    BY <1>1, <1>2
  <2> QED  BY <1>2, <2>2, <2>3 DEF Descends
<1>3. IsInjective(list)
  BY <1>1, <1>2 DEF IsInjective
<1> QED
  BY <1>1, <1>3 DEF ToSet, Descends

LEMMA KeepFirst ==
  ASSUME NEW list \in Seq(Record)
  PROVE  /\ Keep(list) \in Seq(Record) /\ Len(Keep(list)) \in Nat
         /\ Len(list) \in Nat /\ Len(Keep(list)) <= Limit /\ Len(Keep(list)) <= Len(list)
         /\ Len(list) <= Limit => Len(Keep(list)) = Len(list)
         /\ Len(list) > Limit => Len(Keep(list)) = Limit
         /\ \A i \in 1 .. Len(Keep(list)) : i \in 1 .. Len(list) /\ Keep(list)[i] = list[i]
<1>0. Len(list) \in Nat /\ Limit \in Nat
  BY DayBounds
<1> DEFINE n == IF Len(list) > Limit THEN Limit ELSE Len(list)
<1>1. n \in Nat /\ n <= Len(list) /\ n <= Limit
  BY <1>0
<1>2. Keep(list) = SubSeq(list, 1, n)
  BY DEF Keep
<1> HIDE DEF n
<1>3. SubSeq(list, 1, n) = [i \in 1 .. n |-> list[i]]
  BY <1>0, <1>1
<1>4. \A i \in 1 .. n : i \in 1 .. Len(list)
  BY <1>0, <1>1
<1>5. SubSeq(list, 1, n) \in Seq(Record) /\ Len(SubSeq(list, 1, n)) = n
  BY <1>0, <1>1, <1>3, <1>4
<1>6. \A i \in 1 .. n : SubSeq(list, 1, n)[i] = list[i]
  BY <1>3
<1> QED
  BY <1>0, <1>1, <1>2, <1>4, <1>5, <1>6 DEF n

LEMMA ChosenPosition ==
  ASSUME NEW s \in Seq(Record), IsInjective(s), NEW i \in 1 .. Len(s)
  PROVE  (CHOOSE k \in DOMAIN s : s[k] = s[i]) = i
<1>1. i \in DOMAIN s
  OBVIOUS
<1> QED
  BY <1>1 DEF IsInjective

(* What a step keeps that settles no record and changes no time of one that *)
(* is settled.                                                              *)
LEMMA OrderKept ==
  ASSUME LogTypes, AppendedInv, appended' = appended,
         \A x \in ToSet(appended) : at'[x] = at[x]
  PROVE  /\ \A x, y \in ToSet(appended) : Newer(x, y)' <=> Newer(x, y)
         /\ uncounted' \subseteq ToSet(appended) => AppendedInv'
         /\ files' = files /\ FilesInv => FilesInv'
         /\ cacheLoaded' = cacheLoaded /\ cache' = cache /\ CacheInv => CacheInv'
         /\ UNCHANGED <<cacheLoaded, cache, hidden>> /\ NewestShown => NewestShown'
         /\ UNCHANGED <<countedDay, count, uncounted>> /\ CountIsOfDay => CountIsOfDay'
<1>1. \A x : Position(x)' = Position(x)
  BY DEF Position
<1>2. \A x, y \in ToSet(appended) : Newer(x, y)' <=> Newer(x, y)
  BY <1>1 DEF Newer
<1>3. uncounted' \subseteq ToSet(appended) => AppendedInv'
  <2>1. \A i \in 1 .. Len(appended) : appended[i] \in ToSet(appended)
    BY DEF LogTypes, ToSet
  <2> QED  BY <2>1 DEF AppendedInv
<1>4. files' = files /\ FilesInv => FilesInv'
  BY <1>1 DEF FilesInv, FileOK
<1>5. cacheLoaded' = cacheLoaded /\ cache' = cache /\ CacheInv => CacheInv'
  BY <1>2 DEF CacheInv, Descends
<1>6. UNCHANGED <<cacheLoaded, cache, hidden>> /\ NewestShown => NewestShown'
  BY <1>1 DEF NewestShown
<1>7. UNCHANGED <<countedDay, count, uncounted>> /\ CountIsOfDay => CountIsOfDay'
  <2> SUFFICES ASSUME UNCHANGED <<countedDay, count, uncounted>>, CountIsOfDay
               PROVE  CountIsOfDay'
    OBVIOUS
  <2>1. {x \in ToSet(appended) : at'[x] = countedDay} = {x \in ToSet(appended) : at[x] = countedDay}
    OBVIOUS
  <2> QED  BY <2>1 DEF CountIsOfDay
<1> QED
  BY <1>2, <1>3, <1>4, <1>5, <1>6, <1>7

LogSafeInv == LogIInv /\ CountIsOfDay /\ NewestShown

LEMMA LogInitSafe == LogInit => LogSafeInv
<1> SUFFICES ASSUME LogInit PROVE LogSafeInv
  OBVIOUS
<1> USE DEF LogInit
<1>1. LogTypes
  <2>1. today \in Day /\ at \in [Record -> 0 .. MaxDay] /\ countedDay \in 0 .. today /\ count \in Nat
    BY DayBounds DEF Day
  <2>2. files \in [Day -> Seq(Record)] /\ appended \in Seq(Record)
    OBVIOUS
  <2>3. cache \in Seq(Record) /\ Len(cache) <= Limit
    BY DayBounds
  <2> QED  BY <2>1, <2>2, <2>3 DEF LogTypes
<1>2. AppendedInv
  BY DEF AppendedInv, IsInjective
<1>3. FilesInv
  BY DEF FilesInv, FileOK
<1> QED
  BY <1>1, <1>2, <1>3 DEF LogSafeInv, LogIInv, CacheInv, CountIsOfDay, NewestShown

(* The steps that settle no record and read no file.                        *)
LEMMA LogQuietSteps ==
  ASSUME LogSafeInv,
         (\E r \in Record : usageRecord(r)) \/ DayPasses \/ Restart \/ UNCHANGED logVars
  PROVE  LogSafeInv'
<1> USE DEF LogSafeInv, LogIInv
<1>1. \A x \in ToSet(appended) : at'[x] = at[x]
  <2>1. ASSUME NEW x \in ToSet(appended)
        PROVE  x \in Record /\ at[x] # 0 /\ Contains(appended, x)
    <3>1. appended \in Seq(Record) /\ DOMAIN appended = 1 .. Len(appended)
      BY DEF LogTypes
    <3>2. PICK i \in 1 .. Len(appended) : appended[i] = x
      BY <3>1 DEF ToSet
    <3>3. x \in Record
      BY <3>1, <3>2
    <3>4. at[x] # 0
      BY <3>2 DEF AppendedInv
    <3>5. Contains(appended, x)
      BY <3>2 DEF Contains
    <3> QED  BY <3>3, <3>4, <3>5
  <2>2. CASE \E r \in Record : usageRecord(r)
    BY <2>1, <2>2 DEF usageRecord, LogTypes
  <2>3. CASE DayPasses \/ UNCHANGED logVars
    BY <2>3 DEF DayPasses, logVars
  <2>4. CASE Restart
    BY <2>1, <2>4 DEF Restart
  <2> QED  BY <2>2, <2>3, <2>4
<1>2. appended' = appended /\ files' = files /\ uncounted' \subseteq ToSet(appended)
  BY DEF usageRecord, DayPasses, Restart, logVars, AppendedInv
<1>3. LogTypes'
  <2>1. CASE \E r \in Record : usageRecord(r)
    BY <2>1, DayBounds DEF usageRecord, LogTypes, memoryVars, Day
  <2>2. CASE DayPasses
    <3>1. today' \in Day /\ countedDay' \in 0 .. today'
      BY <2>2, DayBounds DEF DayPasses, LogTypes, memoryVars, Day
    <3> QED  BY <2>2, <3>1 DEF DayPasses, LogTypes, memoryVars
  <2>3. CASE Restart
    <3>1. at' \in [Record -> 0 .. MaxDay]
      BY <2>3, DayBounds DEF Restart, LogTypes
    <3>2. countedDay' \in 0 .. today' /\ cache' \in Seq(Record) /\ Len(cache') <= Limit /\ count' \in Nat
      BY <2>3, DayBounds DEF Restart, LogTypes, Day
    <3> QED  BY <2>3, <3>1, <3>2 DEF Restart, LogTypes
  <2>4. CASE UNCHANGED logVars
    BY <2>4 DEF logVars, memoryVars, LogTypes
  <2> QED  BY <2>1, <2>2, <2>3, <2>4
<1>4. AppendedInv' /\ FilesInv'
  BY <1>1, <1>2, OrderKept
<1>5. CASE Restart
  BY <1>3, <1>4, <1>5 DEF Restart, CacheInv, CountIsOfDay, NewestShown
<1>6. CASE ~Restart
  <2>1. UNCHANGED <<cacheLoaded, cache, hidden>> /\ UNCHANGED <<countedDay, count, uncounted>>
    BY <1>6 DEF usageRecord, DayPasses, logVars, memoryVars
  <2>2. CacheInv' /\ NewestShown' /\ CountIsOfDay'
    BY <1>1, <1>2, <2>1, OrderKept
  <2> QED  BY <1>3, <1>4, <2>2
<1> QED
  BY <1>5, <1>6

(* A record is settled: it is newer than all before it.                     *)
LEMMA LogAppend ==
  ASSUME LogSafeInv, NEW r \in Record, usageAppend(r)
  PROVE  LogSafeInv'
<1> USE DEF LogSafeInv, LogIInv
<1> DEFINE n == Len(appended)
<1>0. /\ at[r] # 0 /\ at' = at /\ appended' = Append(appended, r)
      /\ usageAppendLine(r) /\ UNCHANGED <<today, cacheLoaded, countedDay, hidden, uncounted>>
      /\ cache' = IF cacheLoaded THEN Keep(<<r>> \o cache) ELSE cache
      /\ count' = IF InWindow(r) THEN count + 1 ELSE count
  BY DEF usageAppend
<1>1. r \notin ToSet(appended)
  BY DEF usageAppend, Contains, ToSet, LogTypes
<1>2. /\ n \in Nat /\ appended' \in Seq(Record) /\ Len(appended') = n + 1
      /\ \A i \in 1 .. n : appended'[i] = appended[i] /\ appended[i] \in ToSet(appended)
      /\ appended'[n + 1] = r
  BY <1>0 DEF LogTypes, ToSet
<1>3. ToSet(appended') = ToSet(appended) \cup {r}
  <2>1. \A x : x \in ToSet(appended') <=> \E i \in 1 .. n + 1 : x = appended'[i]
    BY <1>2 DEF ToSet
  <2>2. \A x : x \in ToSet(appended) <=> \E i \in 1 .. n : x = appended[i]
    BY DEF ToSet, LogTypes
  <2>3. \A i \in 1 .. n + 1 : i \in 1 .. n \/ i = n + 1
    BY <1>2
  <2>4. n + 1 \in 1 .. n + 1 /\ \A i \in 1 .. n : i \in 1 .. n + 1
    BY <1>2
  <2> QED  BY <1>2, <2>1, <2>2, <2>3, <2>4
<1>4. AppendedInv'
  <2>1. DOMAIN appended' = 1 .. n + 1 /\ DOMAIN appended = 1 .. n
    BY <1>2 DEF LogTypes
  <2>2. \A i \in 1 .. n + 1 : i \in 1 .. n \/ i = n + 1
    BY <1>2
  <2>3. IsInjective(appended')
    BY <1>1, <1>2, <2>1, <2>2 DEF AppendedInv, IsInjective
  <2>4. \A i \in 1 .. n + 1 : at'[appended'[i]] # 0
    BY <1>0, <1>2, <2>2 DEF AppendedInv
  <2>5. uncounted' \subseteq ToSet(appended')
    BY <1>0, <1>3 DEF AppendedInv
  <2> QED  BY <1>2, <2>3, <2>4, <2>5 DEF AppendedInv
<1>5. /\ \A x \in ToSet(appended) : Position(x)' = Position(x) /\ Position(x) \in 1 .. n
      /\ Position(r)' = n + 1
  <2>1. IsInjective(appended')
    BY <1>4 DEF AppendedInv
  <2>2. \A i \in 1 .. n + 1 : (CHOOSE k \in DOMAIN appended' : appended'[k] = appended'[i]) = i
    BY <1>2, <2>1, ChosenPosition
  <2>3. n + 1 \in 1 .. n + 1 /\ \A i \in 1 .. n : i \in 1 .. n + 1
    BY <1>2
  <2>4. Position(r)' = n + 1
    BY <1>2, <2>2, <2>3 DEF Position
  <2>5. ASSUME NEW x \in ToSet(appended)
        PROVE  Position(x)' = Position(x) /\ Position(x) \in 1 .. n
    <3>1. Position(x) \in 1 .. n /\ appended[Position(x)] = x
      BY PositionIs
    <3>2. appended'[Position(x)] = x
      BY <1>2, <3>1
    <3>3. (CHOOSE k \in DOMAIN appended' : appended'[k] = x) = Position(x)
      BY <2>2, <2>3, <3>1, <3>2
    <3> QED  BY <3>1, <3>3 DEF Position
  <2> QED  BY <2>4, <2>5
<1>6. \A x, y \in ToSet(appended) : Newer(x, y)' <=> Newer(x, y)
  BY <1>0, <1>5 DEF Newer
<1>7. \A x \in ToSet(appended) : Newer(r, x)'
  <2>1. \A x \in ToSet(appended) : Position(r)' > Position(x)'
    BY <1>2, <1>5
  <2> QED  BY <2>1 DEF Newer
<1>8. FilesInv'
  <2>1. ASSUME NEW d \in Day, files'[d] = files[d] PROVE FileOK(files[d], d)'
    <3>1. FileOK(files[d], d)
      BY DEF FilesInv
    <3>2. \A i \in 1 .. Len(files[d]) : files[d][i] \in ToSet(appended') /\ at'[files[d][i]] = d
      BY <1>0, <1>3, <3>1 DEF FileOK
    <3>3. \A i, j \in 1 .. Len(files[d]) : i < j =>
            (CHOOSE k \in DOMAIN appended' : appended'[k] = files[d][i])
              < (CHOOSE k \in DOMAIN appended' : appended'[k] = files[d][j])
      <4> SUFFICES ASSUME NEW i \in 1 .. Len(files[d]), NEW j \in 1 .. Len(files[d]), i < j
                   PROVE  (CHOOSE k \in DOMAIN appended' : appended'[k] = files[d][i])
                            < (CHOOSE k \in DOMAIN appended' : appended'[k] = files[d][j])
        OBVIOUS
      <4>1. files[d][i] \in ToSet(appended) /\ files[d][j] \in ToSet(appended)
        BY <3>1 DEF FileOK
      <4>2. Position(files[d][i]) < Position(files[d][j])
        BY <3>1 DEF FileOK
      <4>3. \A x \in ToSet(appended) :
              (CHOOSE k \in DOMAIN appended' : appended'[k] = x) = Position(x)
        BY <1>5 DEF Position
      <4> QED  BY <4>1, <4>2, <4>3
    <3> QED  BY <2>1, <3>2, <3>3 DEF FileOK, Position
  <2>2. CASE files' = files
    BY <2>1, <2>2 DEF FilesInv
  <2>3. CASE files' = [files EXCEPT ![at[r]] = Append(@, r)]
    <3> DEFINE e == at[r]
    <3>1. e \in Day
      BY <1>0, DayBounds DEF LogTypes, Day
    <3>2. /\ files'[e] = Append(files[e], r)
          /\ \A d \in Day : d # e => files'[d] = files[d]
      BY <2>3, <3>1 DEF LogTypes
    <3>3. FileOK(files[e], e) /\ files[e] \in Seq(Record)
      BY <3>1 DEF FilesInv, LogTypes
    <3> HIDE DEF e
    <3> DEFINE m == Len(files[e])
    <3>4. /\ m \in Nat /\ Len(files'[e]) = m + 1 /\ files'[e][m + 1] = r
          /\ \A i \in 1 .. m : files'[e][i] = files[e][i]
      BY <3>2, <3>3
    <3>5. \A i \in 1 .. m + 1 : i \in 1 .. m \/ i = m + 1
      BY <3>4
    <3>6. \A i \in 1 .. m : files[e][i] \in ToSet(appended) /\ at[files[e][i]] = e
      BY <3>3 DEF FileOK
    <3>7. \A i \in 1 .. m + 1 : files'[e][i] \in ToSet(appended') /\ at'[files'[e][i]] = e
      BY <1>0, <1>3, <3>4, <3>5, <3>6 DEF e
    <3>8. ASSUME NEW i \in 1 .. m + 1, NEW j \in 1 .. m + 1, i < j
          PROVE  (CHOOSE k \in DOMAIN appended' : appended'[k] = files'[e][i])
                   < (CHOOSE k \in DOMAIN appended' : appended'[k] = files'[e][j])
      <4>1. \A x \in ToSet(appended) :
              /\ (CHOOSE k \in DOMAIN appended' : appended'[k] = x) = Position(x)
              /\ Position(x) \in 1 .. n
        BY <1>5 DEF Position
      <4>2. (CHOOSE k \in DOMAIN appended' : appended'[k] = r) = n + 1
        BY <1>5 DEF Position
      <4>3. i \in 1 .. m
        BY <3>4, <3>8
      <4>4. CASE j \in 1 .. m
        <5>1. Position(files[e][i]) < Position(files[e][j])
          BY <3>3, <3>8, <4>3, <4>4 DEF FileOK
        <5>2. files'[e][i] = files[e][i] /\ files'[e][j] = files[e][j]
          BY <3>4, <4>3, <4>4
        <5>3. files[e][i] \in ToSet(appended) /\ files[e][j] \in ToSet(appended)
          BY <3>6, <4>3, <4>4
        <5> HIDE DEF m, n
        <5> QED  BY <4>1, <5>1, <5>2, <5>3
      <4>5. CASE j = m + 1
        <5>1. Position(files[e][i]) < n + 1
          BY <1>2, <3>6, <4>1, <4>3
        <5>2. files'[e][i] = files[e][i] /\ files[e][i] \in ToSet(appended)
          BY <3>4, <3>6, <4>3
        <5>3. files'[e][j] = r
          BY <3>4, <4>5
        <5> HIDE DEF m, n
        <5> QED  BY <4>1, <4>2, <5>1, <5>2, <5>3
      <4> QED  BY <3>5, <4>4, <4>5
    <3>9. \A i, j \in 1 .. Len(files'[e]) : i < j =>
            (CHOOSE k \in DOMAIN appended' : appended'[k] = files'[e][i])
              < (CHOOSE k \in DOMAIN appended' : appended'[k] = files'[e][j])
      BY <3>4, <3>8
    <3>10. /\ \A i \in 1 .. Len(files'[e]) :
                files'[e][i] \in ToSet(appended') /\ at'[files'[e][i]] = e
      BY <3>4, <3>7
    <3>11. ASSUME NEW d \in Day PROVE FileOK(files[d], d)'
      <4>1. CASE d # e
        BY <2>1, <3>2, <4>1
      <4>2. CASE d = e
        BY <3>9, <3>10, <4>2 DEF FileOK, Position
      <4> QED  BY <4>1, <4>2
    <3> QED  BY <3>11 DEF FilesInv
  <2> QED  BY <1>0, <2>2, <2>3 DEF usageAppendLine
<1>9. LogTypes' /\ CacheInv' /\ NewestShown'
  <2>1. files' \in [Day -> Seq(Record)]
    <3>1. at[r] \in Day
      BY <1>0, DayBounds DEF LogTypes, Day
    <3>2. files[at[r]] \in Seq(Record)
      BY <3>1 DEF LogTypes
    <3>3. Append(files[at[r]], r) \in Seq(Record)
      BY <3>2
    <3>4. files' = files \/ files' = [files EXCEPT ![at[r]] = Append(files[at[r]], r)]
      BY <1>0 DEF usageAppendLine
    <3> HIDE DEF n
    <3> QED  BY <3>3, <3>4 DEF LogTypes
  <2>2. count' \in Nat
    BY <1>0 DEF LogTypes
  <2> DEFINE list == <<r>> \o cache
  <2>3. /\ list \in Seq(Record) /\ Len(cache) \in Nat /\ Len(list) = Len(cache) + 1
        /\ list[1] = r /\ \A i \in 1 .. Len(list) : i = 1 \/ (i - 1 \in 1 .. Len(cache) /\ list[i] = cache[i - 1])
        /\ \A i \in 1 .. Len(cache) : i + 1 \in 1 .. Len(list) /\ list[i + 1] = cache[i]
    BY DEF LogTypes
  <2> HIDE DEF list
  <2> DEFINE kept == Keep(list)
  <2>4. /\ kept \in Seq(Record) /\ Len(kept) \in Nat
        /\ Len(kept) <= Limit /\ Len(kept) <= Len(list)
        /\ Len(list) <= Limit => Len(kept) = Len(list)
        /\ Len(list) > Limit => Len(kept) = Limit
        /\ \A i \in 1 .. Len(kept) : i \in 1 .. Len(list) /\ kept[i] = list[i]
    BY <2>3, KeepFirst
  <2> HIDE DEF kept
  <2>5. cache' = IF cacheLoaded THEN kept ELSE cache
    BY <1>0 DEF list, kept
  <2>6. cache' \in Seq(Record) /\ Len(cache') <= Limit
    BY <2>4, <2>5 DEF LogTypes
  <2>7. LogTypes'
    BY <1>0, <1>2, <2>1, <2>2, <2>6 DEF LogTypes
  <2>8. CASE ~cacheLoaded
    BY <1>0, <2>7, <2>8 DEF CacheInv, NewestShown
  <2>9. CASE cacheLoaded
    <3>1. Descends(cache)
      BY <2>9 DEF CacheInv
    <3>2. \A i \in 1 .. Len(cache) : cache[i] \in ToSet(appended)
      BY <3>1 DEF Descends
    <3>3. \A i \in 1 .. Len(list) : list[i] \in ToSet(appended')
      BY <1>3, <2>3, <3>2
    <3>4. \A x \in ToSet(appended), i \in 1 .. Len(list) :
             i > 1 /\ x = list[i] => list[1] = r
      BY <2>3
    <3>5. ASSUME NEW i \in 1 .. Len(list), NEW j \in 1 .. Len(list), i < j
          PROVE  \/ i = 1 /\ list[i] = r /\ list[j] \in ToSet(appended)
                 \/ /\ list[i] \in ToSet(appended) /\ list[j] \in ToSet(appended)
                    /\ Newer(list[i], list[j])
      <4>1. j - 1 \in 1 .. Len(cache) /\ list[j] = cache[j - 1]
        BY <2>3, <3>5
      <4>2. CASE i = 1
        BY <2>3, <3>2, <4>1, <4>2
      <4>3. CASE i # 1
        <5>1. i - 1 \in 1 .. Len(cache) /\ list[i] = cache[i - 1] /\ i - 1 < j - 1
          BY <2>3, <3>5, <4>1, <4>3
        <5> QED  BY <3>1, <3>2, <4>1, <5>1 DEF Descends
      <4> QED  BY <4>2, <4>3
    <3>6. ASSUME NEW i \in 1 .. Len(list), NEW j \in 1 .. Len(list), i < j
          PROVE  at'[list[i]] > at'[list[j]] \/ (CHOOSE k \in DOMAIN appended' : appended'[k] = list[i]) > (CHOOSE k \in DOMAIN appended' : appended'[k] = list[j])
      <4>1. \A x, y \in ToSet(appended) : Newer(x, y) => (at'[x] > at'[y] \/ (CHOOSE k \in DOMAIN appended' : appended'[k] = x) > (CHOOSE k \in DOMAIN appended' : appended'[k] = y))
        BY <1>6 DEF Newer, Position
      <4>2. \A y \in ToSet(appended) : at'[r] > at'[y] \/ (CHOOSE k \in DOMAIN appended' : appended'[k] = r) > (CHOOSE k \in DOMAIN appended' : appended'[k] = y)
        BY <1>7 DEF Newer, Position
      <4>3. CASE i = 1 /\ list[i] = r /\ list[j] \in ToSet(appended)
        BY <4>2, <4>3
      <4>4. CASE /\ list[i] \in ToSet(appended) /\ list[j] \in ToSet(appended)
                 /\ Newer(list[i], list[j])
        BY <4>1, <4>4
      <4> QED  BY <3>5, <3>6, <4>3, <4>4
    <3>7. cache' = kept
      BY <2>5, <2>9
    <3>8. Descends(cache)'
      <4>1. \A i \in 1 .. Len(cache') : cache'[i] \in ToSet(appended')
        BY <2>4, <3>3, <3>7
      <4>2. \A i, j \in 1 .. Len(cache') : i < j =>
              (at'[cache'[i]] > at'[cache'[j]] \/ (CHOOSE k \in DOMAIN appended' : appended'[k] = cache'[i]) > (CHOOSE k \in DOMAIN appended' : appended'[k] = cache'[j]))
        BY <2>4, <3>6, <3>7
      <4> QED  BY <4>1, <4>2 DEF Descends, Newer, Position
    <3>9. /\ DOMAIN cache = 1 .. Len(cache) /\ DOMAIN cache' = 1 .. Len(cache')
          /\ DOMAIN list = 1 .. Len(list)
      BY <2>3, <2>6 DEF LogTypes
    <3>10. ToSet(list) = ToSet(cache) \cup {r}
      <4>1. \A x : x \in ToSet(list) <=> \E i \in 1 .. Len(list) : x = list[i]
        BY <3>9 DEF ToSet
      <4>2. \A x : x \in ToSet(cache) <=> \E i \in 1 .. Len(cache) : x = cache[i]
        BY <3>9 DEF ToSet
      <4>3. 1 \in 1 .. Len(list)
        BY <2>3
      <4> QED  BY <2>3, <4>1, <4>2, <4>3
    <3>11. ToSet(cache') \subseteq ToSet(list)
      BY <2>4, <3>7, <3>9 DEF ToSet
    <3>12. ASSUME NEW x \in ToSet(appended') \ (ToSet(cache') \cup hidden')
           PROVE  /\ Len(cache') = Limit
                  /\ \A c \in ToSet(cache') : at'[c] > at'[x] \/ Position(c)' > Position(x)'
      <4>1. CASE x \in ToSet(list)
        <5>1. PICK j \in 1 .. Len(list) : list[j] = x
          BY <3>9, <4>1 DEF ToSet
        <5>2. j > Len(cache')
          <6>1. SUFFICES ASSUME j <= Len(kept) PROVE FALSE
            BY <2>3, <2>4, <3>7
          <6>2. j \in 1 .. Len(kept) /\ kept[j] = x
            BY <2>4, <5>1, <6>1
          <6>3. x \in ToSet(kept)
            BY <2>4, <6>2 DEF ToSet
          <6> QED  BY <3>7, <3>12, <6>3
        <5>3. Len(cache') = Limit
          BY <2>3, <2>4, <3>7, <5>2, DayBounds
        <5>4. ASSUME NEW c \in ToSet(cache')
              PROVE  at'[c] > at'[x] \/ Position(c)' > Position(x)'
          <6>1. PICK i \in 1 .. Len(cache') : cache'[i] = c
            BY <3>9 DEF ToSet
          <6>2. i \in 1 .. Len(list) /\ list[i] = c /\ i < j
            BY <2>3, <2>4, <3>7, <5>2, <6>1
          <6> QED  BY <3>6, <5>1, <6>2 DEF Position
        <5> QED  BY <5>3, <5>4
      <4>2. CASE x \notin ToSet(list)
        <5>1. x \in ToSet(appended) \ (ToSet(cache) \cup hidden)
          BY <1>0, <1>3, <3>10, <3>12, <4>2
        <5>2. Len(cache) = Limit /\ \A c \in ToSet(cache) : at[c] > at[x] \/ Position(c) > Position(x)
          BY <2>9, <5>1 DEF NewestShown
        <5>3. Len(cache') = Limit
          BY <2>3, <2>4, <3>7, <5>2, DayBounds
        <5>4. ASSUME NEW c \in ToSet(cache')
              PROVE  at'[c] > at'[x] \/ Position(c)' > Position(x)'
          <6>1. CASE c = r
            BY <1>7, <5>1, <6>1 DEF Newer
          <6>2. CASE c # r
            <7>1. c \in ToSet(cache)
              BY <3>10, <3>11, <6>2
            <7>2. c \in ToSet(appended)
              BY <2>9, <7>1 DEF NewestShown
            <7> QED  BY <1>0, <1>5, <5>1, <5>2, <7>1, <7>2
          <6> QED  BY <6>1, <6>2
        <5> QED  BY <5>3, <5>4
      <4> QED  BY <4>1, <4>2
    <3>13. IsInjective(cache') /\ ToSet(cache') \subseteq ToSet(appended')
      <4>1. IsInjective(list)
        <5>1. r \notin ToSet(cache) /\ IsInjective(cache)
          BY <1>1, <2>9 DEF NewestShown
        <5>2. ASSUME NEW i \in 1 .. Len(list), NEW j \in 1 .. Len(list), list[i] = list[j]
              PROVE  i = j
          <6>1. \A k \in 1 .. Len(cache) : cache[k] # r
            BY <3>9, <5>1 DEF ToSet
          <6>2. CASE i = 1 \/ j = 1
            <7>1. \A k \in 1 .. Len(list) : k # 1 => list[k] # r
              BY <2>3, <6>1
            <7>2. list[1] = r
              BY <2>3
            <7> QED  BY <5>2, <6>2, <7>1, <7>2
          <6>3. CASE i # 1 /\ j # 1
            <7>1. /\ i - 1 \in 1 .. Len(cache) /\ list[i] = cache[i - 1]
                  /\ j - 1 \in 1 .. Len(cache) /\ list[j] = cache[j - 1]
              BY <2>3, <6>3
            <7>2. i - 1 = j - 1
              BY <3>9, <5>1, <5>2, <7>1 DEF IsInjective
            <7> QED  BY <2>3, <7>2
          <6> QED  BY <6>2, <6>3
        <5> QED  BY <3>9, <5>2 DEF IsInjective
      <4>2. IsInjective(kept)
        BY <2>4, <3>7, <3>9, <4>1 DEF IsInjective
      <4>3. ToSet(cache') \subseteq ToSet(appended')
        BY <1>3, <2>9, <3>10, <3>11 DEF NewestShown
      <4> QED  BY <3>7, <4>2, <4>3
    <3> QED  BY <1>0, <2>7, <3>8, <3>12, <3>13 DEF CacheInv, NewestShown
  <2> QED  BY <2>8, <2>9
<1>10. CountIsOfDay'
  <2> DEFINE S == {x \in ToSet(appended) : at[x] = countedDay} \ uncounted
  <2>1. SUFFICES ASSUME countedDay # 0
                 PROVE  count' = Cardinality({x \in ToSet(appended') : at[x] = countedDay} \ uncounted)
    BY <1>0 DEF CountIsOfDay
  <2>2. count = Cardinality(S)
    BY <2>1 DEF CountIsOfDay
  <2>3. r \notin uncounted /\ r \notin S
    BY <1>1 DEF AppendedInv
  <2>4. IsFiniteSet(S)
    <3>1. IsFiniteSet(1 .. n)
      BY <1>2, FS_Interval
    <3>2. appended \in Surjection(1 .. n, ToSet(appended))
      <4>1. appended \in [1 .. n -> ToSet(appended)]
        <5>1. appended = [i \in 1 .. n |-> appended[i]] /\ DOMAIN appended = 1 .. n
          BY DEF LogTypes
        <5>2. \A i \in 1 .. n : appended[i] \in ToSet(appended)
          BY <1>2
        <5> QED  BY <5>1, <5>2
      <4>2. \A x \in ToSet(appended) : \E i \in 1 .. n : appended[i] = x
        BY DEF ToSet, LogTypes
      <4> QED  BY <4>1, <4>2 DEF Surjection
    <3>3. IsFiniteSet(ToSet(appended))
      BY <3>1, <3>2, FS_Surjection
    <3> QED  BY <3>3, FS_Subset
  <2>5. CASE InWindow(r)
    <3>1. {x \in ToSet(appended') : at[x] = countedDay} \ uncounted = S \cup {r}
      BY <1>3, <2>3, <2>5 DEF InWindow
    <3> HIDE DEF S
    <3>2. Cardinality(S \cup {r}) = Cardinality(S) + 1
      BY <2>3, <2>4, FS_AddElement
    <3> QED  BY <1>0, <2>2, <2>5, <3>1, <3>2
  <2>6. CASE ~InWindow(r)
    <3>1. {x \in ToSet(appended') : at[x] = countedDay} \ uncounted = S
      BY <1>3, <2>6 DEF InWindow
    <3> QED  BY <1>0, <2>2, <2>6, <3>1
  <2> QED  BY <2>5, <2>6
<1> QED
  BY <1>4, <1>8, <1>9, <1>10

(* The list is read from the files, once the old ones are deleted.          *)
LEMMA LogPage ==
  ASSUME LogSafeInv, usagePage
  PROVE  LogSafeInv'
<1> USE DEF LogSafeInv, LogIInv
<1>1. CASE cacheLoaded
  <2>1. UNCHANGED logVars
    BY <1>1 DEF usagePage, usageEnsureCacheLocked, logVars, memoryVars
  <2> QED  BY <2>1, LogQuietSteps
<1>2. CASE ~cacheLoaded
  <2>1. /\ cacheLoaded' = TRUE
        /\ files' = [d \in Day |-> IF Expired(d) THEN <<>> ELSE files[d]]
        /\ UNCHANGED <<today, at, countedDay, count, appended, uncounted>>
    BY <1>2 DEF usagePage, usageEnsureCacheLocked
  <2>2. PICK readable \in SUBSET {d \in Day : files[d] # <<>>} :
          /\ cache' = Keep(Recent(files', readable))
          /\ hidden' = ToSet(appended) \ ToSet(Recent(files', readable))
    BY <1>2 DEF usagePage, usageEnsureCacheLocked
  <2>3. files' \in [Day -> Seq(Record)]
    BY <2>1 DEF LogTypes
  <2>4. ASSUME NEW d \in Day PROVE FileOK(files'[d], d)
    <3>1. FileOK(files[d], d)
      BY DEF FilesInv
    <3>2. FileOK(<<>>, d)
      BY DEF FileOK
    <3> QED  BY <2>1, <3>1, <3>2
  <2> DEFINE list == Recent(files', readable)
  <2>5. list \in Seq(Record) /\ Descends(list)
    BY <2>3, <2>4, ReadInOrder
  <2>6. IsInjective(list) /\ ToSet(list) \subseteq ToSet(appended)
    BY <2>5, DescendsIsInjective
  <2> HIDE DEF list
  <2> DEFINE kept == Keep(list)
  <2>7. /\ kept \in Seq(Record) /\ Len(kept) \in Nat /\ Len(list) \in Nat
        /\ Len(kept) <= Limit /\ Len(kept) <= Len(list)
        /\ Len(list) <= Limit => Len(kept) = Len(list)
        /\ Len(list) > Limit => Len(kept) = Limit
        /\ \A i \in 1 .. Len(kept) : i \in 1 .. Len(list) /\ kept[i] = list[i]
    BY <2>5, KeepFirst
  <2> HIDE DEF kept
  <2>8. cache' = kept /\ hidden' = ToSet(appended) \ ToSet(list)
    BY <2>2 DEF list, kept
  <2>9. LogTypes'
    BY <2>1, <2>3, <2>7, <2>8 DEF LogTypes
  <2>10. Descends(kept)
    BY <2>5, <2>7 DEF Descends
  <2>11. IsInjective(kept) /\ ToSet(kept) \subseteq ToSet(appended)
    BY <2>7, <2>10, DescendsIsInjective
  <2>12. AppendedInv' /\ CountIsOfDay'
    <3>1. \A x \in ToSet(appended) : at'[x] = at[x]
      BY <2>1
    <3>2. uncounted' \subseteq ToSet(appended)
      BY <2>1 DEF AppendedInv
    <3>3. UNCHANGED <<countedDay, count, uncounted>> /\ appended' = appended
      BY <2>1
    <3> QED  BY <3>1, <3>2, <3>3, OrderKept
  <2>13. FilesInv'
    BY <2>1, <2>4 DEF FilesInv, FileOK, Position
  <2>14. CacheInv'
    BY <2>1, <2>8, <2>10 DEF CacheInv, Descends, Newer, Position
  <2>15. ASSUME NEW x \in ToSet(appended) \ (ToSet(kept) \cup hidden')
         PROVE  /\ Len(kept) = Limit
                /\ \A c \in ToSet(kept) : at[c] > at[x] \/ Position(c) > Position(x)
    <3>1. PICK j \in 1 .. Len(list) : list[j] = x
      BY <2>5, <2>8 DEF ToSet
    <3>2. j > Len(kept)
      <4> SUFFICES ASSUME j <= Len(kept) PROVE FALSE
        BY <2>7
      <4>1. j \in 1 .. Len(kept) /\ kept[j] = x
        BY <2>7, <3>1
      <4> QED  BY <2>7, <2>15, <4>1 DEF ToSet
    <3>3. Len(kept) = Limit
      BY <2>7, <3>2, DayBounds
    <3>4. ASSUME NEW c \in ToSet(kept) PROVE Newer(c, x)
      <4>1. PICK i \in 1 .. Len(kept) : kept[i] = c
        BY <2>7 DEF ToSet
      <4>2. i \in 1 .. Len(list) /\ list[i] = c /\ i < j
        BY <2>7, <3>2, <4>1
      <4> QED  BY <2>5, <3>1, <4>2 DEF Descends
    <3> QED  BY <3>3, <3>4 DEF Newer
  <2>16. NewestShown'
    <3>1. IsInjective(cache') /\ ToSet(cache') \subseteq ToSet(appended')
      BY <2>1, <2>8, <2>11
    <3>2. \A x : Position(x)' = Position(x)
      BY <2>1 DEF Position
    <3>3. \A x \in ToSet(appended') \ (ToSet(cache') \cup hidden') :
            /\ Len(cache') = Limit
            /\ \A c \in ToSet(cache') : at'[c] > at'[x] \/ Position(c)' > Position(x)'
      BY <2>1, <2>8, <2>15, <3>2
    <3> QED  BY <3>1, <3>3 DEF NewestShown
  <2> QED  BY <2>9, <2>12, <2>13, <2>14, <2>16
<1> QED
  BY <1>1, <1>2

(* The records of the day are counted in its file.                          *)
LEMMA LogCount ==
  ASSUME LogSafeInv, usageCountToday
  PROVE  LogSafeInv'
<1> USE DEF LogSafeInv, LogIInv
<1>1. /\ countedDay' = today
      /\ UNCHANGED <<today, at, files, cacheLoaded, cache, appended, hidden>>
  BY DEF usageCountToday
<1>2. PICK read \in {files[today], <<>>} :
        /\ count' = Cardinality({i \in DOMAIN read : at[read[i]] = today})
        /\ uncounted' = {r \in ToSet(appended) \ ToSet(read) : at[r] = today}
  BY DEF usageCountToday
<1>3. read \in Seq(Record) /\ FileOK(read, today)
  <2>1. files[today] \in Seq(Record) /\ FileOK(files[today], today)
    BY DEF LogTypes, FilesInv
  <2>2. FileOK(<<>>, today)
    BY DEF FileOK
  <2>3. read = files[today] \/ read = <<>>
    OBVIOUS
  <2>4. <<>> \in Seq(Record)
    OBVIOUS
  <2> QED  BY ONLY <2>1, <2>2, <2>3, <2>4
<1>4. DOMAIN read = 1 .. Len(read) /\ Len(read) \in Nat
  BY <1>3
<1> DEFINE I == {i \in DOMAIN read : at[read[i]] = today}
<1> DEFINE S == {r \in ToSet(read) : at[r] = today}
<1>5. IsFiniteSet(I) /\ Cardinality(I) \in Nat
  <2>1. IsFiniteSet(1 .. Len(read))
    BY <1>4, FS_Interval
  <2>2. I \in SUBSET (1 .. Len(read))
    BY <1>4
  <2> HIDE DEF I
  <2> QED  BY <2>1, <2>2, FS_Subset, FS_CardinalityType
<1>6. Cardinality(S) = Cardinality(I)
  <2> DEFINE g == [i \in I |-> read[i]]
  <2>1. g \in [I -> S]
    BY DEF ToSet
  <2>2. ASSUME NEW i \in I, NEW j \in I, g[i] = g[j] PROVE i = j
    <3>1. read[i] = read[j] /\ i \in 1 .. Len(read) /\ j \in 1 .. Len(read)
      BY <1>4, <2>2
    <3>2. read[i] \in ToSet(appended)
      BY <1>3, <3>1 DEF FileOK
    <3>3. Position(read[i]) \in Nat
      BY <3>2, OrderIsStrict
    <3>4. ~(i < j) /\ ~(j < i)
      BY <1>3, <3>1, <3>3 DEF FileOK
    <3> QED  BY <1>4, <3>1, <3>4
  <2>3. ASSUME NEW r \in S PROVE \E i \in I : g[i] = r
    <3>1. PICK i \in DOMAIN read : read[i] = r
      BY DEF ToSet
    <3>2. i \in I
      BY <3>1
    <3> QED  BY <3>1, <3>2
  <2>4. DOMAIN g = I
    OBVIOUS
  <2> HIDE DEF g, I, S
  <2>5. g \in Bijection(I, S)
    BY <2>1, <2>2, <2>3, <2>4 DEF Bijection, Injection, Surjection, IsInjective
  <2>6. ExistsBijection(I, S)
    BY <2>5 DEF ExistsBijection
  <2> QED  BY <1>5, <2>6, FS_Bijection
<1>7. {r \in ToSet(appended) : at[r] = today} \ uncounted' = S
  <2>1. ToSet(read) \subseteq ToSet(appended)
    BY <1>3, <1>4 DEF ToSet, FileOK
  <2> QED  BY <1>2, <2>1
<1> HIDE DEF S
<1>8. CountIsOfDay'
  <2>1. count' = Cardinality(I)
    BY <1>2
  <2> HIDE DEF I
  <2>2. count' = Cardinality(S)
    BY <1>6, <2>1
  <2>3. {r \in ToSet(appended') : at'[r] = countedDay'} \ uncounted' = S
    BY <1>1, <1>7
  <2> QED  BY <2>2, <2>3 DEF CountIsOfDay
<1>9. LogTypes'
  <2>1. count' \in Nat
    BY <1>2, <1>5
  <2>2. countedDay' \in 0 .. today'
    BY <1>1, DayBounds DEF LogTypes
  <2> HIDE DEF I
  <2> QED  BY <1>1, <2>1, <2>2 DEF LogTypes
<1>10. AppendedInv' /\ FilesInv' /\ CacheInv' /\ NewestShown'
  <2>1. \A x \in ToSet(appended) : at'[x] = at[x]
    BY <1>1
  <2>2. uncounted' \subseteq ToSet(appended)
    BY <1>2
  <2>3. UNCHANGED <<cacheLoaded, cache, hidden>> /\ appended' = appended /\ files' = files
    BY <1>1
  <2> QED  BY <2>1, <2>2, <2>3, OrderKept
<1> QED
  BY <1>8, <1>9, <1>10

LEMMA LogStep == LogSafeInv /\ [LogNext]_logVars => LogSafeInv'
<1> SUFFICES ASSUME LogSafeInv, [LogNext]_logVars PROVE LogSafeInv'
  OBVIOUS
<1>1. CASE \E r \in Record : usageAppend(r)
  BY <1>1, LogAppend
<1>2. CASE usagePage
  BY <1>2, LogPage
<1>3. CASE usageCountToday
  BY <1>3, LogCount
<1>4. CASE (\E r \in Record : usageRecord(r)) \/ DayPasses \/ Restart \/ UNCHANGED logVars
  BY <1>4, LogQuietSteps
<1> QED
  BY <1>1, <1>2, <1>3, <1>4 DEF LogNext

(* The inductive invariant of the log: every file has the records of its    *)
(* day in the order in which they were settled, and the list in memory is   *)
(* in order, so that what falls off its end is the oldest.                  *)
THEOREM LogSafe == LogSpec => []LogSafeInv
<1>1. LogInit => LogSafeInv
  BY LogInitSafe
<1>2. LogSafeInv /\ [LogNext]_logVars => LogSafeInv'
  BY LogStep
<1> QED
  BY <1>1, <1>2, PTL DEF LogSpec

(* The counters are those of the day they are shown for: a record settled   *)
(* before the day was counted is counted from the file, and one settled     *)
(* after it as it comes (usageAppend, usageCountToday).                     *)
THEOREM CountedOnItsDay == LogSpec => []CountIsOfDay
<1>1. LogSafeInv => CountIsOfDay
  BY DEF LogSafeInv
<1> QED
  BY <1>1, LogSafe, PTL

(* The pages show the newest records: whether they were read from the files *)
(* or came after that, a missing one has made room for newer ones.          *)
THEOREM NewestAreShown == LogSpec => []NewestShown
<1>1. LogSafeInv => NewestShown
  BY DEF LogSafeInv
<1> QED
  BY <1>1, LogSafe, PTL
==============================================================================
