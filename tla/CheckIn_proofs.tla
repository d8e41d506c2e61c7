----------------------------- MODULE CheckIn_proofs -----------------------------
(***************************************************************************)
(* Proofs about CheckIn, for any credentials, accounts and logins and any  *)
(* length of a day: no claim is sent blindly, what a row says is so, and a *)
(* failure is not retried at once.                                         *)
(***************************************************************************)
EXTENDS CheckIn, TLAPS

(* A worker with a credential, and one at any other place.                  *)
Doing == {"token", "status", "claim", "confirm", "lost", "save"}

Types ==
  /\ now \in Nat /\ active \in Row \cup {None} /\ todo \subseteq Row
  /\ pc \in [Worker -> Doing \cup {"idle", "begin", "next", "done"}]
  /\ at \in [Worker -> Row \cup {None}]
  /\ day \in [Worker -> Int] /\ began \in [Worker -> Int] /\ result \in [Worker -> Int]
  /\ results \in [User -> Int]

CheckInFields ==
  [generation : Nat, auto : BOOLEAN, day : Int, result : Int, retryAt : Int, late : BOOLEAN]
Rows == [Row -> CheckInFields \cup {None}]
RowTypes ==
  /\ row \in Rows /\ disk \in Rows
  /\ failed \in [Row -> [day : Int, at : Int] \cup {None}]

(* One worker at a time, which has a credential while it is doing.          *)
WorkerInv ==
  /\ \A w \in Worker : pc[w] # "idle" => running
  /\ pc["button"] = "idle" \/ pc["batch"] = "idle"
  /\ \A w \in Worker : pc[w] \in Doing => at[w] \in Row

(* The worker that is about to claim has been told that nobody has.         *)
ClaimInv == \A w \in Worker : pc[w] = "claim" => UserAt(w) \in answered

(* The day of a check-in is not before its worker began, nor to come.       *)
DayInv ==
  \A w \in Worker :
    /\ began[w] <= Today
    /\ pc[w] \in Doing => began[w] <= day[w] /\ day[w] <= Today

(* Until midnight a result is what it says.                                 *)
IsSo(u, d, x) ==
  /\ x \in {0, 1} => <<u, d>> \in credited
  /\ x = -3 => <<u, d>> \in sent
ResultOf(w) ==
  /\ pc[w] = "save" /\ began[w] = Today => IsSo(UserOf[at[w]], Today, result[w])
  /\ pc[w] \in {"lost", "confirm"} /\ began[w] = Today => <<UserOf[at[w]], Today>> \in sent
BatchResults == began["batch"] = Today => \A u \in User : IsSo(u, Today, results[u])
ResultInv == BatchResults /\ \A w \in Worker : ResultOf(w)

RowsTrue(f) ==
  \A r \in Row : f[r] # None /\ ~f[r].late => IsSo(UserOf[r], f[r].day, f[r].result)
TruthInv == RowsTrue(row) /\ RowsTrue(disk)

(* After a failure a row is of its day or a later one; if it is of its day  *)
(* and not final, it is not to be tried before the failure is over.         *)
Spaced(r) ==
  /\ failed[r].day <= Today /\ failed[r].at <= now
  /\ row[r] # None =>
       /\ failed[r].day <= row[r].day
       /\ row[r].day = failed[r].day /\ row[r].result \notin Final => failed[r].at < row[r].retryAt
  /\ \A w \in Worker : pc[w] \in Doing => failed[r].day <= day[w]
RowDays(f) == \A r \in Row : f[r] # None => f[r].day <= Today
RetryInv ==
  /\ \A r \in Row : failed[r] # None => Spaced(r)
  /\ RowDays(row) /\ RowDays(disk)

IInv == Types /\ RowTypes /\ WorkerInv /\ ClaimInv /\ DayInv /\ ResultInv /\ TruthInv /\ RetryInv

-----------------------------------------------------------------------------
(* Days.                                                                    *)
LEMMA DayOfNext ==
  ASSUME NEW n \in Nat
  PROVE  n \div DayLength \in Nat /\ (n + 1) \div DayLength \in Nat
         /\ n \div DayLength <= (n + 1) \div DayLength
BY CheckInAssumption

LEMMA DaysGo ==
  ASSUME Types, Next
  PROVE  /\ Today \in Nat /\ Today' \in Nat /\ Today <= Today'
         /\ now' \in Nat /\ now <= now' /\ (~Tick => now' = now /\ Today' = Today)
<1>1. CASE Tick
  BY <1>1, DayOfNext DEF Tick, Today, Types
<1>2. CASE ~Tick
  <2>1. now' = now
    BY <1>2 DEF Next, CheckInElsewhere, setAutoCheckin, add, enable, remove, StoreStep, refreshAll, SwitchOff,
       startCheckin, tickAutoCheckin, BatchBegin, BatchNext, BatchEnd, doCheckin, Token, Status, Claim, Lost,
       Confirm, CallStep, SaveButton, SaveBatch, CheckinDone, Restart
  <2> QED  BY <1>2, <2>1, DayOfNext DEF Today, Types
<1> QED  BY <1>1, <1>2

(* The records that are put into a row.                                     *)
LEMMA FreshIs ==
  ASSUME NEW r \in Row
  PROVE  /\ Fresh(r) \in CheckInFields
         /\ Fresh(r).day = -1 /\ Fresh(r).result = 2 /\ Fresh(r).generation = 0
BY DEF Fresh, CheckInFields

LEMMA LoginIs ==
  ASSUME NEW c \in CheckInFields, NEW g \in Nat
  PROVE  /\ [c EXCEPT !.generation = g] \in CheckInFields
         /\ [c EXCEPT !.generation = g].day = c.day /\ [c EXCEPT !.generation = g].result = c.result
         /\ [c EXCEPT !.generation = g].retryAt = c.retryAt /\ [c EXCEPT !.generation = g].late = c.late
BY DEF CheckInFields

LEMMA AutoIs ==
  ASSUME NEW c \in CheckInFields, NEW b \in BOOLEAN
  PROVE  /\ [c EXCEPT !.auto = b] \in CheckInFields
         /\ [c EXCEPT !.auto = b].day = c.day /\ [c EXCEPT !.auto = b].result = c.result
         /\ [c EXCEPT !.auto = b].retryAt = c.retryAt /\ [c EXCEPT !.auto = b].late = c.late
BY DEF CheckInFields

LEMMA FailingIs ==
  ASSUME NEW c \in CheckInFields, NEW d \in Int, now \in Nat
  PROVE  /\ Failing(c, d) \in CheckInFields
         /\ Failing(c, d).day = d /\ Failing(c, d).result = -1 /\ Failing(c, d).retryAt = now + 1
<1>1. Failing(c, d).day = d /\ Failing(c, d).result = -1 /\ Failing(c, d).retryAt = now + 1
  BY DEF Failing
<1>2. /\ c.generation \in Nat /\ c.auto \in BOOLEAN
  BY DEF CheckInFields
<1>3. Failing(c, d) \in CheckInFields
  BY <1>2 DEF CheckInFields, Failing
<1> QED
  BY <1>1, <1>3

LEMMA ToldIs ==
  ASSUME NEW c \in CheckInFields, NEW w \in Worker, Types
  PROVE  /\ Told(c, w) \in CheckInFields
         /\ Told(c, w).day = day[w] /\ Told(c, w).result = result[w] /\ Told(c, w).retryAt = now + 1
         /\ (~Told(c, w).late => began[w] = Today)
<1>1. Told(c, w).day = day[w] /\ Told(c, w).result = result[w] /\ Told(c, w).retryAt = now + 1
  BY DEF Told
<1>2. /\ c.generation \in Nat /\ c.auto \in BOOLEAN
      /\ day[w] \in Int /\ result[w] \in Int /\ now + 1 \in Int /\ (began[w] # Today) \in BOOLEAN
  BY DEF CheckInFields, Types
<1>3. Told(c, w) \in CheckInFields
  BY <1>2 DEF CheckInFields, Told
<1>4. ~Told(c, w).late => began[w] = Today
  BY DEF Told
<1> QED
  BY <1>1, <1>3, <1>4

-----------------------------------------------------------------------------
(* The types.                                                               *)
RowAction(r) == setAutoCheckin(r) \/ add(r) \/ enable(r) \/ remove(r)

LEMMA TypesStep ==
  ASSUME Types, WorkerInv, Next
  PROVE  Types'
<1> USE DEF storeVars, windowVars, workerVars, batchVars, serverVars
<1>0. now' \in Nat
  BY DaysGo
<1>1. CASE Tick \/ SwitchOff \/ refreshAll \/ \E u \in User : CheckInElsewhere(u)
  BY <1>0, <1>1 DEF Tick, SwitchOff, refreshAll, CheckInElsewhere, Types
<1>2. ASSUME NEW r \in Row, RowAction(r) PROVE Types'
  <2>1. active' \in Row \cup {None}
    BY <1>2 DEF RowAction, setAutoCheckin, add, enable, remove, Types
  <2> QED  BY <1>2, <2>1 DEF RowAction, setAutoCheckin, add, enable, remove, StoreStep, Types
<1>3. CASE Restart
  BY <1>3 DEF Restart, Types
<1>4. Today \in Int
  BY DaysGo
<1>5. CASE startCheckin
  <2>1. at' = [at EXCEPT !["button"] = active] /\ active \in Row
    BY <1>5 DEF startCheckin, Take, Types
  <2>2. /\ day' = [day EXCEPT !["button"] = Today] /\ began' = [began EXCEPT !["button"] = Today]
        /\ pc' = [pc EXCEPT !["button"] = "token"]
    BY <1>5 DEF startCheckin, Take, Goto
  <2> QED  BY <1>4, <1>5, <2>1, <2>2 DEF startCheckin, Types, Doing
<1>6. CASE tickAutoCheckin \/ BatchBegin \/ BatchEnd
  <2>1. /\ now' = now /\ active' = active /\ at' = at /\ day' = day /\ result' = result
        /\ began' \in {began, [began EXCEPT !["batch"] = Today]}
        /\ todo' \subseteq Row /\ results' \in {results, [u \in User |-> 2]}
        /\ \E p \in {"begin", "next", "done"} : pc' = [pc EXCEPT !["batch"] = p]
    BY <1>6 DEF tickAutoCheckin, BatchBegin, BatchEnd, Goto, Types
  <2>2. began' \in [Worker -> Int]
    BY <1>4, <2>1 DEF Types
  <2>3. results' \in [User -> Int]
    BY <2>1 DEF Types
  <2>4. pc' \in [Worker -> Doing \cup {"idle", "begin", "next", "done"}]
    BY <2>1 DEF Types
  <2> QED  BY <2>1, <2>2, <2>3, <2>4 DEF Types
<1>7. CASE BatchNext
  <2>1. PICK r \in todo :
          \/ UNCHANGED <<pc, at, day, result>>
          \/ /\ Take("batch", r)
             /\ \/ Goto("batch", "token") /\ UNCHANGED result
                \/ /\ Goto("batch", "save")
                   /\ result' = [result EXCEPT !["batch"] = results[UserOf[r]]]
    BY <1>7 DEF BatchNext
  <2>2. r \in Row /\ UserOf[r] \in User /\ results[UserOf[r]] \in Int
    BY CheckInAssumption DEF Types
  <2>3. /\ now' = now /\ active' = active /\ todo' \subseteq todo /\ began' = began /\ results' = results
    BY <1>7 DEF BatchNext
  <2> QED  BY <1>4, <2>1, <2>2, <2>3 DEF Take, Goto, Types, Doing
<1>8. ASSUME NEW w \in Worker, doCheckin(w) PROVE Types'
  <2>1. UNCHANGED <<now, active, at, day, began, todo, results>>
    BY <1>8 DEF doCheckin, Token, Status, Claim, Lost, Confirm, CallStep
  <2>2. \E p \in Doing : pc' = [pc EXCEPT ![w] = p]
    BY <1>8 DEF doCheckin, Token, Status, Claim, Lost, Confirm, Return, Goto, Doing
  <2>3. result' = result \/ \E x \in -3 .. 1 : result' = [result EXCEPT ![w] = x]
    BY <1>8 DEF doCheckin, Token, Status, Claim, Lost, Confirm, Return
  <2> QED  BY <2>1, <2>2, <2>3 DEF Types
<1>9. CASE SaveButton
  BY <1>9 DEF SaveButton, Goto, Types
<1>10. CASE SaveBatch
  <2>1. at["batch"] \in Row /\ UserAt("batch") \in User /\ result["batch"] \in Int
    BY <1>10, CheckInAssumption DEF SaveBatch, WorkerInv, Doing, UserAt, Worker, Types
  <2>2. /\ UNCHANGED <<now, active, began, todo>>
        /\ pc' = [pc EXCEPT !["batch"] = "next"] /\ Leave("batch")
        /\ results' = [results EXCEPT ![UserAt("batch")] = result["batch"]]
    BY <1>10 DEF SaveBatch, Goto
  <2>3. results' \in [User -> Int]
    BY <2>1, <2>2 DEF Types
  <2>4. pc' \in [Worker -> Doing \cup {"idle", "begin", "next", "done"}]
    BY <2>2 DEF Types
  <2> QED  BY <2>2, <2>3, <2>4 DEF Leave, Types
<1>11. ASSUME NEW w \in Worker, CheckinDone(w) PROVE Types'
  BY <1>11 DEF CheckinDone, Goto, Leave, Types
<1> QED
  BY <1>1, <1>2, <1>3, <1>5, <1>6, <1>7, <1>8, <1>9, <1>10, <1>11 DEF Next, RowAction

(* One worker at a time, and the claim.                                     *)
LEMMA WorkerStep ==
  ASSUME Types, WorkerInv, ClaimInv, Next
  PROVE  WorkerInv' /\ ClaimInv'
<1> USE DEF storeVars, windowVars, workerVars, batchVars, serverVars
<1>0. "button" \in Worker /\ "batch" \in Worker /\ \A w \in Worker : w = "button" \/ w = "batch"
  BY DEF Worker
<1>1. CASE UNCHANGED <<running, pc, at, answered>>
  BY <1>1 DEF WorkerInv, ClaimInv, UserAt
<1>2. CASE Restart
  <2>1. \A w \in Worker : pc'[w] = "idle"
    BY <1>2 DEF Restart
  <2> QED  BY <1>0, <2>1 DEF WorkerInv, ClaimInv, Doing
<1>3. CASE startCheckin
  <2>1. /\ \A w \in Worker : pc[w] = "idle"
        /\ running'
    BY <1>0, <1>3 DEF startCheckin, WorkerInv
  <2>2. /\ pc'["button"] = "token" /\ pc'["batch"] = "idle" /\ at'["button"] \in Row
    BY <1>0, <1>3, <2>1 DEF startCheckin, Take, Goto, Types
  <2> QED  BY <1>0, <2>1, <2>2 DEF WorkerInv, ClaimInv, Doing
<1>4. CASE tickAutoCheckin
  <2>1. /\ \A w \in Worker : pc[w] = "idle"
        /\ running'
    BY <1>0, <1>4 DEF tickAutoCheckin, WorkerInv
  <2>2. /\ pc'["batch"] = "begin" /\ pc'["button"] = "idle"
    BY <1>0, <1>4, <2>1 DEF tickAutoCheckin, Goto, Types
  <2> QED  BY <1>0, <2>1, <2>2 DEF WorkerInv, ClaimInv, Doing
\* A worker that is running goes on: with its credential, unless it takes one.
<1>5. ASSUME NEW w \in Worker, pc[w] # "idle", running' = running,
             pc' = [pc EXCEPT ![w] = pc'[w]],
             pc'[w] \in Doing => at'[w] \in Row,
             pc'[w] = "claim" => UserOf[at'[w]] \in answered'
      PROVE  WorkerInv' /\ ClaimInv'
  <2>1. \A v \in Worker \ {w} : pc[v] = "idle" /\ pc'[v] = "idle"
    BY <1>0, <1>5 DEF WorkerInv, Types
  <2> QED  BY <1>0, <1>5, <2>1 DEF WorkerInv, ClaimInv, Doing, UserAt
<1>6. CASE BatchBegin \/ BatchEnd
  <2>1. /\ pc["batch"] # "idle" /\ running' = running
        /\ \E p \in {"next", "done"} : pc' = [pc EXCEPT !["batch"] = p]
    BY <1>6 DEF BatchBegin, BatchEnd, Goto
  <2>2. /\ pc'["batch"] \in {"next", "done"} /\ pc' = [pc EXCEPT !["batch"] = pc'["batch"]]
    BY <1>0, <2>1 DEF Types
  <2> QED  BY <1>0, <1>5, <2>1, <2>2 DEF Doing
<1>7. CASE BatchNext
  <2>1. PICK r \in todo :
          \/ UNCHANGED <<pc, at>>
          \/ /\ at' = [at EXCEPT !["batch"] = r]
             /\ \E p \in {"token", "save"} : pc' = [pc EXCEPT !["batch"] = p]
    BY <1>7 DEF BatchNext, Take, Goto
  <2>2. running' = running /\ answered' = answered /\ pc["batch"] # "idle" /\ r \in Row
    BY <1>7 DEF BatchNext, Types
  <2>3. CASE UNCHANGED <<pc, at>>
    BY <1>1, <2>2, <2>3
  <2>4. CASE /\ at' = [at EXCEPT !["batch"] = r]
             /\ \E p \in {"token", "save"} : pc' = [pc EXCEPT !["batch"] = p]
    <3>1. /\ pc'["batch"] \in {"token", "save"} /\ pc' = [pc EXCEPT !["batch"] = pc'["batch"]]
          /\ at'["batch"] = r
      BY <1>0, <2>4 DEF Types
    <3> QED  BY <1>0, <1>5, <2>2, <3>1
  <2> QED  BY <2>1, <2>3, <2>4
<1>8. ASSUME NEW w \in Worker, doCheckin(w) PROVE WorkerInv' /\ ClaimInv'
  <2>1. running' = running /\ at' = at /\ pc[w] \in Doing
    BY <1>8 DEF doCheckin, Token, Status, Claim, Lost, Confirm, CallStep, Doing
  <2>2. \E p \in Doing : pc' = [pc EXCEPT ![w] = p] /\ (p = "claim" => answered' = answered \cup {UserAt(w)})
    BY <1>8 DEF doCheckin, Token, Status, Claim, Lost, Confirm, Return, Goto, Doing
  <2>3. /\ pc' = [pc EXCEPT ![w] = pc'[w]]
        /\ pc'[w] = "claim" => UserOf[at'[w]] \in answered'
    BY <2>1, <2>2 DEF Types, UserAt
  <2>4. at[w] \in Row /\ pc[w] # "idle"
    BY <2>1 DEF WorkerInv, Doing
  <2> QED  BY <1>5, <2>1, <2>3, <2>4
<1>9. CASE SaveButton
  <2>1. pc["button"] # "idle" /\ running' = running /\ pc' = [pc EXCEPT !["button"] = "done"]
    BY <1>9 DEF SaveButton, Goto
  <2>2. pc'["button"] = "done"
    BY <1>0, <2>1 DEF Types
  <2> QED  BY <1>0, <1>5, <2>1, <2>2 DEF Doing
<1>10. CASE SaveBatch
  <2>1. pc["batch"] # "idle" /\ running' = running /\ pc' = [pc EXCEPT !["batch"] = "next"]
    BY <1>10 DEF SaveBatch, Goto
  <2>2. pc'["batch"] = "next"
    BY <1>0, <2>1 DEF Types
  <2> QED  BY <1>0, <1>5, <2>1, <2>2 DEF Doing
<1>11. ASSUME NEW w \in Worker, CheckinDone(w) PROVE WorkerInv' /\ ClaimInv'
  <2>1. \A v \in Worker : pc'[v] = "idle"
    BY <1>0, <1>11 DEF CheckinDone, Goto, WorkerInv, Types
  <2> QED  BY <1>0, <2>1 DEF WorkerInv, ClaimInv, Doing
<1>12. CASE \/ Tick \/ SwitchOff \/ refreshAll \/ \E u \in User : CheckInElsewhere(u)
            \/ \E r \in Row : RowAction(r)
  BY <1>1, <1>12 DEF Tick, SwitchOff, refreshAll, CheckInElsewhere, RowAction, setAutoCheckin, add, enable,
     remove, StoreStep
<1> QED
  BY <1>2, <1>3, <1>4, <1>6, <1>7, <1>8, <1>9, <1>10, <1>11, <1>12 DEF Next, RowAction

-----------------------------------------------------------------------------
(* Days and results of the workers.                                         *)
LEMMA DaysOfWorkers ==
  ASSUME Types, Next
  PROVE  /\ \A w \in Worker : began'[w] \in {began[w], Today, 0}
         /\ \A w \in Worker : pc'[w] \in Doing =>
              (pc[w] \in Doing /\ began'[w] = began[w] /\ day'[w] = day[w]) \/ day'[w] = Today
<1> DEFINE DaysKept ==
      /\ \A w \in Worker : began'[w] \in {began[w], Today, 0}
      /\ \A w \in Worker : pc'[w] \in Doing =>
           (pc[w] \in Doing /\ began'[w] = began[w] /\ day'[w] = day[w]) \/ day'[w] = Today
<1> SUFFICES DaysKept
  OBVIOUS
<1> USE DEF storeVars, windowVars, workerVars, batchVars, serverVars
<1>0. "button" \in Worker /\ "batch" \in Worker
  BY DEF Worker
<1>1. CASE UNCHANGED <<pc, began, day>>
  BY <1>1
<1>2. CASE Restart
  BY <1>2 DEF Restart, Doing
<1>3. CASE startCheckin
  <2>1. /\ day' = [day EXCEPT !["button"] = Today] /\ began' = [began EXCEPT !["button"] = Today]
        /\ pc' = [pc EXCEPT !["button"] = "token"]
    BY <1>3 DEF startCheckin, Take, Goto
  <2> QED  BY <2>1 DEF Types
<1>4. CASE tickAutoCheckin \/ BatchBegin \/ BatchEnd
  <2>1. /\ day' = day /\ began' \in {began, [began EXCEPT !["batch"] = Today]}
        /\ \E p \in {"begin", "next", "done"} : pc' = [pc EXCEPT !["batch"] = p]
    BY <1>4 DEF tickAutoCheckin, BatchBegin, BatchEnd, Goto, Types
  <2>2. \A w \in Worker : began'[w] \in {began[w], Today, 0}
    BY <2>1 DEF Types
  <2>3. \A w \in Worker : pc'[w] \in Doing => pc'[w] = pc[w] /\ w # "batch"
    BY <1>0, <2>1 DEF Types, Doing
  <2>4. \A w \in Worker : w # "batch" => began'[w] = began[w]
    BY <2>1 DEF Types
  <2> QED  BY <2>1, <2>2, <2>3, <2>4
<1>5. CASE BatchNext
  <2>1. began' = began /\ (UNCHANGED <<pc, day>> \/
          /\ day' = [day EXCEPT !["batch"] = Today]
          /\ \E p \in {"token", "save"} : pc' = [pc EXCEPT !["batch"] = p])
    BY <1>5 DEF BatchNext, Take, Goto
  <2> QED  BY <2>1 DEF Types
<1>6. ASSUME NEW w \in Worker, doCheckin(w) PROVE DaysKept
  <2>1. began' = began /\ day' = day /\ pc[w] \in Doing
    BY <1>6 DEF doCheckin, Token, Status, Claim, Lost, Confirm, CallStep, Doing
  <2>2. \E p \in Doing : pc' = [pc EXCEPT ![w] = p]
    BY <1>6 DEF doCheckin, Token, Status, Claim, Lost, Confirm, Return, Goto, Doing
  <2> QED  BY <2>1, <2>2 DEF Types
<1>7. CASE SaveButton
  <2>1. began' = began /\ day' = day /\ pc' = [pc EXCEPT !["button"] = "done"]
    BY <1>7 DEF SaveButton, Goto
  <2> QED  BY <2>1 DEF Types, Doing
<1>8. ASSUME NEW w \in Worker, (SaveBatch /\ w = "batch") \/ CheckinDone(w) PROVE DaysKept
  <2>1. /\ \E p \in {"next", "idle"} : pc' = [pc EXCEPT ![w] = p]
        /\ began' \in {began, [began EXCEPT ![w] = 0]} /\ day' = [day EXCEPT ![w] = 0]
    BY <1>8 DEF SaveBatch, CheckinDone, Goto, Leave
  <2>2. \A v \in Worker : began'[v] \in {began[v], Today, 0}
    BY <2>1 DEF Types
  <2>3. pc'[w] \notin Doing
    BY <2>1 DEF Types, Doing
  <2>4. \A v \in Worker \ {w} : pc'[v] = pc[v] /\ began'[v] = began[v] /\ day'[v] = day[v]
    BY <2>1 DEF Types
  <2> QED  BY <2>2, <2>3, <2>4
<1>9. CASE \/ Tick \/ SwitchOff \/ refreshAll \/ \E u \in User : CheckInElsewhere(u)
           \/ \E r \in Row : RowAction(r)
  BY <1>1, <1>9 DEF Tick, SwitchOff, refreshAll, CheckInElsewhere, RowAction, setAutoCheckin, add, enable,
     remove, StoreStep
<1> QED
  BY <1>0, <1>2, <1>3, <1>4, <1>5, <1>6, <1>7, <1>8, <1>9 DEF Next, RowAction

LEMMA DayStep ==
  ASSUME Types, DayInv, Next
  PROVE  DayInv'
<1> SUFFICES ASSUME NEW w \in Worker
             PROVE  /\ began'[w] <= Today'
                    /\ pc'[w] \in Doing => began'[w] <= day'[w] /\ day'[w] <= Today'
  BY DEF DayInv
<1>d. Today \in Nat /\ Today' \in Nat /\ Today <= Today'
  BY DaysGo
<1>k. /\ began'[w] \in {began[w], Today, 0}
      /\ pc'[w] \in Doing =>
           (pc[w] \in Doing /\ began'[w] = began[w] /\ day'[w] = day[w]) \/ day'[w] = Today
  BY DaysOfWorkers
<1>1. began[w] \in Int /\ day[w] \in Int /\ began[w] <= Today
  BY DEF Types, DayInv
<1>2. began'[w] \in Int /\ began'[w] <= Today
  BY <1>d, <1>k, <1>1
<1>3. CASE pc[w] \in Doing /\ began'[w] = began[w] /\ day'[w] = day[w]
  <2>1. began[w] <= day[w] /\ day[w] <= Today
    BY <1>3 DEF DayInv
  <2> QED  BY <1>d, <1>1, <1>2, <1>3, <2>1
<1>4. CASE day'[w] = Today
  BY <1>d, <1>2, <1>4
<1>5. CASE pc'[w] \notin Doing
  BY <1>d, <1>2, <1>5
<1> QED
  BY <1>k, <1>3, <1>4, <1>5

(* The upstream forgets nothing.                                            *)
LEMMA ServerGrows ==
  ASSUME Next
  PROVE  credited \subseteq credited' /\ sent \subseteq sent'
BY DEF Next, Tick, CheckInElsewhere, setAutoCheckin, add, enable, remove, StoreStep, refreshAll, SwitchOff,
   startCheckin, tickAutoCheckin, BatchBegin, BatchNext, BatchEnd, doCheckin, Token, Status, Claim, Lost,
   Confirm, CallStep, SaveButton, SaveBatch, CheckinDone, Restart, serverVars

LEMMA ResultKept ==
  ASSUME Types, DayInv, Next, NEW w \in Worker, ResultOf(w),
         pc'[w] = pc[w] \/ pc'[w] \notin {"save", "lost", "confirm"},
         began'[w] = began[w] \/ pc'[w] \notin {"save", "lost", "confirm"},
         at'[w] = at[w] \/ pc'[w] \notin {"save", "lost", "confirm"},
         result'[w] = result[w] \/ pc'[w] # "save"
  PROVE  ResultOf(w)'
<1>1. CASE pc'[w] \notin {"save", "lost", "confirm"}
  BY <1>1 DEF ResultOf
<1>2. CASE began'[w] # Today'
  BY <1>2 DEF ResultOf
<1>3. CASE pc'[w] \in {"save", "lost", "confirm"} /\ began'[w] = Today'
  <2>1. pc'[w] = pc[w] /\ at'[w] = at[w] /\ began[w] = Today'
    BY <1>3
  <2>2. Today \in Nat /\ Today' \in Nat /\ Today <= Today' /\ began[w] \in Int /\ began[w] <= Today
    BY DaysGo DEF Types, DayInv
  <2>3. Today' = Today /\ began[w] = Today
    BY <2>1, <2>2
  <2>4. CASE pc[w] = "save"
    <3>1. IsSo(UserOf[at[w]], Today, result[w]) /\ result'[w] = result[w]
      BY <2>1, <2>3, <2>4 DEF ResultOf
    <3>2. IsSo(UserOf[at[w]], Today, result[w])'
      BY <2>1, <2>3, <3>1, ServerGrows DEF IsSo
    <3> QED  BY <2>1, <2>4, <3>2 DEF ResultOf
  <2>5. CASE pc[w] # "save"
    BY <1>3, <2>1, <2>3, <2>5, ServerGrows DEF ResultOf
  <2> QED  BY <2>4, <2>5
<1> QED
  BY <1>1, <1>2, <1>3

LEMMA ResultStep ==
  ASSUME Types, WorkerInv, DayInv, ResultInv, Next
  PROVE  ResultInv'
<1> USE DEF storeVars, windowVars, workerVars, batchVars, serverVars
<1>0. "button" \in Worker /\ "batch" \in Worker /\ \A w \in Worker : w = "button" \/ w = "batch"
  BY DEF Worker
<1>d. Today \in Nat /\ Today' \in Nat /\ Today <= Today' /\ (~Tick => Today' = Today)
  BY DaysGo
<1>w. \A w \in Worker : ResultOf(w)
  BY DEF ResultInv
<1>b. ASSUME began'["batch"] = began["batch"], results' = results PROVE BatchResults'
  <2>1. CASE began'["batch"] = Today'
    <3>1. began["batch"] \in Int /\ began["batch"] <= Today
      BY <1>0 DEF Types, DayInv
    <3>2. began["batch"] = Today /\ Today' = Today
      BY <1>b, <1>d, <2>1, <3>1
    <3> QED  BY <1>b, <3>2, ServerGrows DEF ResultInv, BatchResults, IsSo
  <2> QED  BY <2>1 DEF BatchResults
<1>n. ASSUME results' = [u \in User |-> 2] PROVE BatchResults'
  BY <1>n DEF BatchResults, IsSo
<1>1. CASE UNCHANGED <<pc, at, began, result, results>>
  BY <1>1, <1>b, <1>w, ResultKept DEF ResultInv
<1>2. CASE Restart
  <2>1. \A w \in Worker : ResultOf(w)'
    BY <1>2 DEF Restart, ResultOf
  <2> QED  BY <1>2, <1>n, <2>1 DEF Restart, ResultInv
<1>3. CASE startCheckin
  <2>1. /\ began' = [began EXCEPT !["button"] = Today] /\ pc' = [pc EXCEPT !["button"] = "token"]
        /\ at' = [at EXCEPT !["button"] = active] /\ result' = result /\ results' = results
    BY <1>3 DEF startCheckin, Take, Goto
  <2>2. /\ pc'["button"] = "token" /\ pc'["batch"] = pc["batch"]
        /\ began'["batch"] = began["batch"] /\ at'["batch"] = at["batch"]
    BY <1>0, <2>1 DEF Types
  <2>3. \A w \in Worker : ResultOf(w)'
    BY <1>0, <1>w, <2>1, <2>2, ResultKept
  <2> QED  BY <1>b, <2>1, <2>2, <2>3 DEF ResultInv
<1>4. CASE tickAutoCheckin \/ BatchEnd \/ BatchBegin
  <2>1. /\ at' = at /\ result' = result
        /\ \E p \in {"begin", "next", "done"} : pc' = [pc EXCEPT !["batch"] = p]
    BY <1>4 DEF tickAutoCheckin, BatchBegin, BatchEnd, Goto
  <2>2. \/ began' = began /\ results' = results
        \/ began' = [began EXCEPT !["batch"] = Today] /\ results' = [u \in User |-> 2]
    BY <1>4 DEF tickAutoCheckin, BatchBegin, BatchEnd
  <2>3. pc'["batch"] \in {"begin", "next", "done"} /\ pc'["button"] = pc["button"]
    BY <1>0, <2>1 DEF Types
  <2>4. began'["button"] = began["button"]
    BY <1>0, <2>2 DEF Types
  <2>5. \A w \in Worker : ResultOf(w)'
    BY <1>0, <1>w, <2>1, <2>3, <2>4, ResultKept
  <2>6. BatchResults'
    BY <1>b, <1>n, <2>2
  <2> QED  BY <2>5, <2>6 DEF ResultInv
<1>5. CASE BatchNext
  <2>0. began' = began /\ results' = results /\ Today' = Today /\ credited' = credited /\ sent' = sent
    BY <1>5, <1>d DEF BatchNext, Tick, Types
  <2>1. CASE UNCHANGED <<pc, at, day, result>>
    BY <1>1, <2>0, <2>1
  <2>2. ASSUME NEW r \in todo, Take("batch", r),
               \/ Goto("batch", "token") /\ UNCHANGED result
               \/ /\ Goto("batch", "save")
                  /\ result' = [result EXCEPT !["batch"] = results[UserOf[r]]]
        PROVE  \A w \in Worker : ResultOf(w)'
    <3>1. at'["batch"] = r /\ at'["button"] = at["button"] /\ UserOf[r] \in User
      BY <1>0, <2>2, CheckInAssumption DEF Take, Types
    <3>2. pc'["button"] = pc["button"] /\ result'["button"] = result["button"]
      BY <1>0, <2>2 DEF Goto, Types
    <3>3. ResultOf("button")'
      BY <1>0, <1>w, <2>0, <3>1, <3>2, ResultKept
    <3>4. \/ pc'["batch"] = "token"
          \/ pc'["batch"] = "save" /\ result'["batch"] = results[UserOf[r]]
      BY <1>0, <2>2 DEF Goto, Types
    <3>5. began["batch"] = Today => IsSo(UserOf[r], Today, results[UserOf[r]])
      BY <3>1 DEF ResultInv, BatchResults
    <3>6. ResultOf("batch")'
      BY <2>0, <3>1, <3>4, <3>5 DEF ResultOf, IsSo
    <3> QED  BY <1>0, <3>3, <3>6
  <2>3. \/ UNCHANGED <<pc, at, day, result>>
        \/ \E r \in todo :
             /\ Take("batch", r)
             /\ \/ Goto("batch", "token") /\ UNCHANGED result
                \/ /\ Goto("batch", "save")
                   /\ result' = [result EXCEPT !["batch"] = results[UserOf[r]]]
    BY <1>5 DEF BatchNext
  <2> QED  BY <1>b, <2>0, <2>1, <2>2, <2>3 DEF ResultInv
<1>6. ASSUME NEW w \in Worker, doCheckin(w) PROVE ResultInv'
  <2>0. began' = began /\ results' = results /\ at' = at /\ Today' = Today
    BY <1>6, <1>d DEF doCheckin, Token, Status, Claim, Lost, Confirm, CallStep, Tick, Types
  <2>1. ASSUME NEW v \in Worker \ {w} PROVE ResultOf(v)'
    <3>1. pc'[v] = pc[v] /\ result'[v] = result[v]
      BY <1>6 DEF doCheckin, Token, Status, Claim, Lost, Confirm, Return, Goto, Types
    <3> QED  BY <1>w, <2>0, <3>1, ResultKept
  <2>2. ASSUME NEW x \in Int, Return(w, x), IsSo(UserAt(w), Today, x)' \/ began[w] # Today
        PROVE ResultOf(w)'
    <3>1. pc'[w] = "save" /\ result'[w] = x
      BY <2>2 DEF Return, Goto, Types
    <3> QED  BY <2>0, <2>2, <3>1 DEF ResultOf, UserAt
  <2>3. ASSUME NEW x \in {-1, -2}, Return(w, x) PROVE ResultOf(w)'
    BY <2>2, <2>3 DEF IsSo
  <2>4. ASSUME Token(w) PROVE ResultOf(w)'
    <3>1. CASE Return(w, -1)
      BY <2>3, <3>1
    <3>2. CASE Goto(w, "status")
      BY <3>2 DEF Goto, ResultOf, Types
    <3> QED  BY <2>4, <3>1, <3>2 DEF Token
  <2>5. ASSUME Status(w) PROVE ResultOf(w)'
    <3>1. CASE CheckedIn(w) /\ Return(w, 1)
      <4>1. IsSo(UserAt(w), Today, 1)'
        BY <2>0, <3>1, ServerGrows DEF CheckedIn, IsSo, UserAt
      <4> QED  BY <2>2, <3>1, <4>1
    <3>2. CASE Goto(w, "claim")
      BY <3>2 DEF Goto, ResultOf, Types
    <3> QED  BY <2>3, <2>5, <3>1, <3>2 DEF Status
  <2>6. ASSUME Claim(w) PROVE ResultOf(w)'
    <3>1. <<UserAt(w), Today>> \in sent'
      BY <2>6 DEF Claim
    <3>2. CASE Return(w, -3)
      <4>1. IsSo(UserAt(w), Today, -3)'
        BY <2>0, <3>1 DEF IsSo, UserAt
      <4> QED  BY <2>2, <3>2, <4>1
    <3>3. ASSUME NEW p \in {"confirm", "lost"}, Goto(w, p) PROVE ResultOf(w)'
      <4>1. pc'[w] \in {"confirm", "lost"}
        BY <3>3 DEF Goto, Types
      <4> QED  BY <2>0, <3>1, <4>1 DEF ResultOf, UserAt
    <3> QED  BY <2>3, <2>6, <3>2, <3>3 DEF Claim
  <2>7. ASSUME Lost(w) \/ Confirm(w) PROVE ResultOf(w)'
    <3>1. IsSo(UserAt(w), Today, -3)' \/ began[w] # Today
      BY <1>w, <2>0, <2>7, ServerGrows DEF Lost, Confirm, ResultOf, IsSo, UserAt
    <3>2. CASE Return(w, -3)
      BY <2>2, <3>1, <3>2
    <3>3. CASE CheckedIn(w) /\ Return(w, 0)
      <4>1. IsSo(UserAt(w), Today, 0)'
        BY <2>0, <3>3, ServerGrows DEF CheckedIn, IsSo, UserAt
      <4> QED  BY <2>2, <3>3, <4>1
    <3> QED  BY <2>3, <2>7, <3>2, <3>3 DEF Lost, Confirm
  <2>8. ResultOf(w)'
    BY <1>6, <2>4, <2>5, <2>6, <2>7 DEF doCheckin
  <2> QED  BY <1>b, <2>0, <2>1, <2>8 DEF ResultInv
<1>7. CASE SaveButton
  <2>1. /\ began' = began /\ at' = at /\ result' = result /\ results' = results
        /\ pc' = [pc EXCEPT !["button"] = "done"]
    BY <1>7 DEF SaveButton, Goto
  <2>2. \A w \in Worker : pc'[w] = pc[w] \/ pc'[w] = "done"
    BY <2>1 DEF Types
  <2>3. \A w \in Worker : ResultOf(w)'
    BY <1>w, <2>1, <2>2, ResultKept
  <2> QED  BY <1>b, <2>1, <2>3 DEF ResultInv
<1>8. CASE SaveBatch
  <2>1. /\ began' = began /\ Today' = Today /\ pc["batch"] = "save" /\ Leave("batch")
        /\ results' = [results EXCEPT ![UserAt("batch")] = result["batch"]]
        /\ pc' = [pc EXCEPT !["batch"] = "next"]
    BY <1>8, <1>d DEF SaveBatch, Goto, Tick, Types
  <2>2. /\ pc'["batch"] = "next" /\ pc'["button"] = pc["button"] /\ at'["button"] = at["button"]
        /\ result'["button"] = result["button"]
    BY <1>0, <2>1 DEF Leave, Types
  <2>3. \A w \in Worker : ResultOf(w)'
    BY <1>0, <1>w, <2>1, <2>2, ResultKept
  <2>4. began["batch"] = Today => IsSo(UserAt("batch"), Today, result["batch"])
    BY <1>0, <1>w, <2>1 DEF ResultOf, UserAt
  <2>5. \A u \in User : results'[u] \in {results[u], result["batch"]}
                        /\ (results'[u] # results[u] => u = UserAt("batch"))
    BY <2>1 DEF Types
  <2>6. began["batch"] = Today => \A u \in User : IsSo(u, Today, results'[u])
    BY <2>4, <2>5 DEF ResultInv, BatchResults
  <2>7. BatchResults'
    BY <2>1, <2>6, ServerGrows DEF BatchResults, IsSo
  <2> QED  BY <2>3, <2>7 DEF ResultInv
<1>9. ASSUME NEW w \in Worker, CheckinDone(w) PROVE ResultInv'
  <2>1. \A v \in Worker : pc'[v] = "idle"
    BY <1>0, <1>9 DEF CheckinDone, Goto, WorkerInv, Types
  <2>2. \A v \in Worker : ResultOf(v)'
    BY <2>1 DEF ResultOf
  <2> QED  BY <1>9, <1>n, <2>2 DEF CheckinDone, ResultInv
<1>10. CASE \/ Tick \/ SwitchOff \/ refreshAll \/ \E u \in User : CheckInElsewhere(u)
            \/ \E r \in Row : RowAction(r)
  BY <1>1, <1>10 DEF Tick, SwitchOff, refreshAll, CheckInElsewhere, RowAction, setAutoCheckin, add, enable,
     remove, StoreStep
<1> QED
  BY <1>2, <1>3, <1>4, <1>5, <1>6, <1>7, <1>8, <1>9, <1>10 DEF Next, RowAction

-----------------------------------------------------------------------------
(* What is done to the rows.  The pages change one, in memory and in the    *)
(* file, and leave its check-in, unless the row is new or gone;             *)
SameCheckIn(c, o) ==
  c.day = o.day /\ c.result = o.result /\ c.retryAt = o.retryAt /\ c.late = o.late

LEMMA RowActionDoes ==
  ASSUME RowTypes, NEW r \in Row, RowAction(r)
  PROVE  /\ row' \in Rows /\ disk' = row' /\ failed' \in {failed, [failed EXCEPT ![r] = None]}
         /\ \A x \in Row \ {r} : row'[x] = row[x]
         /\ row'[r] # None =>
              \/ row[r] # None /\ SameCheckIn(row'[r], row[r])
              \/ row'[r].day = -1 /\ row'[r].result = 2 /\ failed' = [failed EXCEPT ![r] = None]
<1>0. row \in Rows /\ row \in [Row -> CheckInFields \cup {None}]
  BY DEF RowTypes, Rows
<1>r. row[r] \in CheckInFields \cup {None}
  BY <1>0
<1>e. ASSUME NEW c \in CheckInFields \cup {None}, row' = [row EXCEPT ![r] = c]
      PROVE  row' \in Rows /\ row'[r] = c /\ \A x \in Row \ {r} : row'[x] = row[x]
  BY <1>0, <1>e DEF Rows
<1>1. CASE setAutoCheckin(r)
  <2>1. row[r] \in CheckInFields /\ row[r] # None
    BY <1>1, <1>r DEF setAutoCheckin
  <2>2. (~ row[r].auto) \in BOOLEAN
    BY <2>1 DEF CheckInFields
  <2>3. /\ row' = [row EXCEPT ![r] = [row[r] EXCEPT !.auto = ~ row[r].auto]]
        /\ disk' = row' /\ failed' = failed
    BY <1>1 DEF setAutoCheckin, Commit
  <2> DEFINE c == [row[r] EXCEPT !.auto = ~ row[r].auto]
  <2>4. c \in CheckInFields /\ SameCheckIn(c, row[r])
    BY <2>1, <2>2, AutoIs DEF SameCheckIn
  <2>5. row' = [row EXCEPT ![r] = c]
    BY <2>3
  <2> HIDE DEF c
  <2> QED  BY <1>e, <2>1, <2>3, <2>4, <2>5
<1>2. CASE add(r)
  <2>0. disk' = row' /\ failed' = IF row[r] = None THEN [failed EXCEPT ![r] = None] ELSE failed
    BY <1>2 DEF add, Commit
  <2>1. CASE row[r] = None
    <3>1. row' = [row EXCEPT ![r] = [Fresh(r) EXCEPT !.generation = 1]]
      BY <1>2, <2>1 DEF add, Commit
    <3> DEFINE c == [Fresh(r) EXCEPT !.generation = 1]
    <3>2. c \in CheckInFields /\ c.day = -1 /\ c.result = 2
      BY FreshIs, LoginIs
    <3>3. row' = [row EXCEPT ![r] = c]
      BY <3>1
    <3> HIDE DEF c
    <3> QED  BY <1>e, <2>0, <2>1, <3>2, <3>3
  <2>2. CASE row[r] # None
    <3>1. row' = [row EXCEPT ![r] = [row[r] EXCEPT !.generation = row[r].generation + 1]]
      BY <1>2, <2>2 DEF add, Commit
    <3> DEFINE c == [row[r] EXCEPT !.generation = row[r].generation + 1]
    <3>2. row[r] \in CheckInFields
      BY <1>r, <2>2
    <3>3. row[r].generation + 1 \in Nat
      BY <3>2 DEF CheckInFields
    <3>4. c \in CheckInFields /\ SameCheckIn(c, row[r])
      BY <3>2, <3>3, LoginIs DEF SameCheckIn
    <3>5. row' = [row EXCEPT ![r] = c]
      BY <3>1
    <3> HIDE DEF c
    <3> QED  BY <1>e, <2>0, <2>2, <3>4, <3>5
  <2> QED  BY <2>1, <2>2
<1>3. CASE enable(r)
  BY <1>0, <1>3 DEF enable, Commit, SameCheckIn
<1>4. CASE remove(r)
  BY <1>0, <1>4, <1>e DEF remove, Commit
<1> QED
  BY <1>1, <1>2, <1>3, <1>4 DEF RowAction

(* the handler of the batch makes it failed, in memory and perhaps in the   *)
(* file;                                                                    *)
LEMMA HandlerDoes ==
  ASSUME now \in Nat, RowTypes, NEW r \in Row, NEW d \in Int, Handler(r, d)
  PROVE  /\ row' \in Rows /\ disk' \in {row', disk}
         /\ failed' = [failed EXCEPT ![r] = [day |-> d, at |-> now]]
         /\ \A x \in Row \ {r} : row'[x] = row[x]
         /\ row'[r] # None => row'[r].day = d /\ row'[r].result = -1 /\ row'[r].retryAt = now + 1
<1>0. row \in [Row -> CheckInFields \cup {None}] /\ failed' = [failed EXCEPT ![r] = [day |-> d, at |-> now]]
  BY DEF RowTypes, Rows, Handler, Fail
<1>1. CASE row[r] = None
  BY <1>0, <1>1 DEF Handler, RowTypes
<1>2. CASE row[r] # None
  <2>1. row' = [row EXCEPT ![r] = Failing(row[r], d)] /\ disk' \in {row', disk}
    BY <1>2 DEF Handler
  <2>2. row[r] \in CheckInFields
    BY <1>0, <1>2
  <2>3. Failing(row[r], d) \in CheckInFields
    BY <2>2, FailingIs
  <2>4. row' \in Rows /\ row'[r] = Failing(row[r], d) /\ \A x \in Row \ {r} : row'[x] = row[x]
    BY <1>0, <2>1, <2>3 DEF Rows
  <2> QED  BY <1>0, <2>1, <2>2, <2>4, FailingIs
<1> QED
  BY <1>1, <1>2

(* and a worker puts its result into it.                                    *)
LEMMA SaveDoes ==
  ASSUME Types, RowTypes, NEW w \in Worker, at[w] \in Row, IsOwn(w), Commit(Saved(w))
  PROVE  /\ row' \in Rows /\ disk' = row'
         /\ \A x \in Row \ {at[w]} : row'[x] = row[x]
         /\ row'[at[w]].day = day[w] /\ row'[at[w]].result = result[w] /\ row'[at[w]].retryAt = now + 1
         /\ (~row'[at[w]].late => began[w] = Today)
<1>1. row \in [Row -> CheckInFields \cup {None}] /\ row[at[w]] # None
  BY DEF RowTypes, Rows, IsOwn
<1>2. row[at[w]] \in CheckInFields
  BY <1>1
<1>3. row' = [row EXCEPT ![at[w]] = Told(row[at[w]], w)] /\ disk' = row'
  BY DEF Commit, Saved
<1>4. Told(row[at[w]], w) \in CheckInFields
  BY <1>2, ToldIs
<1>5. /\ row' \in Rows /\ row'[at[w]] = Told(row[at[w]], w)
      /\ \A x \in Row \ {at[w]} : row'[x] = row[x]
  BY <1>1, <1>3, <1>4 DEF Rows
<1> QED
  BY <1>2, <1>3, <1>5, ToldIs

LEMMA RowTypesStep ==
  ASSUME Types, RowTypes, WorkerInv, Next
  PROVE  RowTypes'
<1> USE DEF storeVars, batchVars
<1>0. now \in Nat /\ Today \in Int /\ \A w \in Worker : day[w] \in Int
  BY DaysGo DEF Types
<1>1. CASE UNCHANGED <<row, disk, failed>>
  BY <1>1 DEF RowTypes, Rows
<1>2. ASSUME NEW r \in Row, RowAction(r) PROVE RowTypes'
  <2>1. row' \in Rows /\ disk' = row' /\ failed' \in {failed, [failed EXCEPT ![r] = None]}
    BY <1>2, RowActionDoes
  <2> QED  BY <2>1 DEF RowTypes, Rows
<1>3. CASE refreshAll
  BY <1>3 DEF refreshAll, RowTypes, Rows
<1>4. CASE Restart
  <2>1. failed' = [r \in Row |-> IF disk[r] = row[r] THEN failed[r] ELSE None] /\ row' = disk /\ disk' = disk
    BY <1>4 DEF Restart
  <2> QED  BY <2>1 DEF RowTypes, Rows
<1>5. ASSUME NEW r \in Row, NEW d \in Int, Handler(r, d) PROVE RowTypes'
  <2>1. row' \in Rows /\ disk' \in {row', disk} /\ failed' = [failed EXCEPT ![r] = [day |-> d, at |-> now]]
    BY <1>0, <1>5, HandlerDoes
  <2>2. [day |-> d, at |-> now] \in [day : Int, at : Int]
    BY <1>0
  <2> QED  BY <2>1, <2>2 DEF RowTypes, Rows
<1>6. CASE BatchNext
  <2>1. UNCHANGED <<row, disk, failed>> \/ \E r \in todo : Handler(r, Today)
    BY <1>6 DEF BatchNext
  <2> QED  BY <1>0, <1>1, <1>5, <2>1 DEF Types
<1>7. CASE SaveButton
  <2>1. UNCHANGED <<row, disk, failed>> \/ (IsOwn("button") /\ Commit(Saved("button")) /\ failed' = failed)
    BY <1>7 DEF SaveButton, CommitFails
  <2>2. at["button"] \in Row /\ "button" \in Worker
    BY <1>7 DEF SaveButton, WorkerInv, Doing, Worker
  <2>3. CASE IsOwn("button") /\ Commit(Saved("button")) /\ failed' = failed
    <3>1. row' \in Rows /\ disk' = row'
      BY <2>2, <2>3, SaveDoes
    <3> QED  BY <2>3, <3>1 DEF RowTypes
  <2> QED  BY <1>1, <2>1, <2>3
<1>8. CASE SaveBatch
  <2>1. \/ UNCHANGED <<row, disk, failed>>
        \/ Handler(at["batch"], day["batch"])
        \/ /\ IsOwn("batch") /\ Commit(Saved("batch"))
           /\ failed' = failed \/ Fail(at["batch"], day["batch"])
    BY <1>8 DEF SaveBatch
  <2>2. at["batch"] \in Row /\ "batch" \in Worker /\ day["batch"] \in Int
    BY <1>8, <1>0 DEF SaveBatch, WorkerInv, Doing, Worker
  <2>3. CASE /\ IsOwn("batch") /\ Commit(Saved("batch"))
             /\ failed' = failed \/ Fail(at["batch"], day["batch"])
    <3>1. row' \in Rows /\ disk' = row'
      BY <2>2, <2>3, SaveDoes
    <3>2. [day |-> day["batch"], at |-> now] \in [day : Int, at : Int]
      BY <1>0, <2>2
    <3>3. failed' \in [Row -> [day : Int, at : Int] \cup {None}]
      BY <2>3, <3>2 DEF Fail, RowTypes
    <3> QED  BY <3>1, <3>3 DEF RowTypes
  <2> QED  BY <1>1, <1>5, <2>1, <2>2, <2>3
<1>9. CASE \/ Tick \/ SwitchOff \/ \E u \in User : CheckInElsewhere(u)
           \/ startCheckin \/ tickAutoCheckin \/ BatchBegin \/ BatchEnd
           \/ \E w \in Worker : doCheckin(w) \/ CheckinDone(w)
  BY <1>1, <1>9 DEF Tick, SwitchOff, CheckInElsewhere, startCheckin, tickAutoCheckin, BatchBegin, BatchEnd,
     doCheckin, Token, Status, Claim, Lost, Confirm, CallStep, CheckinDone
<1> QED
  BY <1>2, <1>3, <1>4, <1>6, <1>7, <1>8, <1>9 DEF Next, RowAction

-----------------------------------------------------------------------------
(* What the rows say is so.                                                 *)
TrueAt(f, r) == f[r] # None /\ ~f[r].late => IsSo(UserOf[r], f[r].day, f[r].result)

\* The same of what the upstream says after the step.
IsSoAfter(u, d, x) ==
  /\ x \in {0, 1} => <<u, d>> \in credited'
  /\ x = -3 => <<u, d>> \in sent'
TrueAfter(f, r) == f[r] # None /\ ~f[r].late => IsSoAfter(UserOf[r], f[r].day, f[r].result)

LEMMA StaysTrue ==
  ASSUME Next, TruthInv
  PROVE  \A r \in Row : TrueAfter(row, r) /\ TrueAfter(disk, r)
BY ServerGrows DEF TruthInv, RowsTrue, IsSo, TrueAfter, IsSoAfter

LEMMA TruthAfter ==
  ASSUME \A r \in Row : TrueAfter(row', r) /\ TrueAfter(disk', r)
  PROVE  TruthInv'
BY DEF TruthInv, RowsTrue, IsSo, TrueAfter, IsSoAfter

LEMMA TruthStep ==
  ASSUME Types, RowTypes, WorkerInv, DayInv, ResultInv, TruthInv, Next
  PROVE  TruthInv'
<1>0. /\ "button" \in Worker /\ "batch" \in Worker
      /\ now \in Nat /\ Today \in Int /\ \A w \in Worker : day[w] \in Int /\ began[w] \in Int
  BY DaysGo DEF Types, Worker
<1>t. \A r \in Row : TrueAfter(row, r) /\ TrueAfter(disk, r)
  BY StaysTrue
<1>k. ASSUME row' \in {row, disk}, disk' \in {row, disk} PROVE TruthInv'
  BY <1>t, <1>k, TruthAfter
\* One row is changed, in memory and perhaps in the file.
<1>c. ASSUME NEW r \in Row, disk' \in {row', disk}, TrueAfter(row', r),
             \A x \in Row \ {r} : row'[x] = row[x]
      PROVE  TruthInv'
  <2>1. ASSUME NEW x \in Row PROVE TrueAfter(row', x)
    <3>1. CASE x = r
      BY <1>c, <3>1
    <3>2. CASE x # r
      <4>1. row'[x] = row[x]
        BY <1>c, <3>2
      <4> QED  BY <1>t, <4>1 DEF TrueAfter
    <3> QED  BY <3>1, <3>2
  <2>2. ASSUME NEW x \in Row PROVE TrueAfter(disk', x)
    BY <1>c, <1>t, <2>1
  <2> QED  BY <2>1, <2>2, TruthAfter
<1>2. ASSUME NEW r \in Row, RowAction(r) PROVE TruthInv'
  <2>1. /\ disk' = row' /\ \A x \in Row \ {r} : row'[x] = row[x]
        /\ row'[r] # None =>
              \/ row[r] # None /\ SameCheckIn(row'[r], row[r])
              \/ row'[r].result = 2
    BY <1>2, RowActionDoes
  <2>2. TrueAfter(row', r)
    <3>1. CASE row'[r] = None
      BY <3>1 DEF TrueAfter
    <3>2. CASE row[r] # None /\ SameCheckIn(row'[r], row[r])
      BY <1>t, <3>2 DEF TrueAfter, SameCheckIn
    <3>3. CASE row'[r].result = 2
      BY <3>3 DEF TrueAfter, IsSoAfter
    <3> QED  BY <2>1, <3>1, <3>2, <3>3
  <2> QED  BY <1>c, <2>1, <2>2
<1>3. ASSUME NEW r \in Row, NEW d \in Int, Handler(r, d) PROVE TruthInv'
  <2>1. /\ disk' \in {row', disk} /\ \A x \in Row \ {r} : row'[x] = row[x]
        /\ row'[r] # None => row'[r].result = -1
    BY <1>0, <1>3, HandlerDoes
  <2>2. TrueAfter(row', r)
    BY <2>1 DEF TrueAfter, IsSoAfter
  <2> QED  BY <1>c, <2>1, <2>2
<1>4. ASSUME NEW w \in Worker, pc[w] = "save", IsOwn(w), Commit(Saved(w)) PROVE TruthInv'
  <2>0. at[w] \in Row
    BY <1>4 DEF WorkerInv, Doing
  <2>1. /\ disk' = row' /\ \A x \in Row \ {at[w]} : row'[x] = row[x]
        /\ row'[at[w]].day = day[w] /\ row'[at[w]].result = result[w]
        /\ (~row'[at[w]].late => began[w] = Today)
    BY <1>4, <2>0, SaveDoes
  <2>2. began[w] = Today => day[w] = Today
    BY <1>0, <1>4 DEF DayInv, Doing
  <2>3. began[w] = Today => IsSo(UserOf[at[w]], Today, result[w])
    BY <1>4 DEF ResultInv, ResultOf
  <2>4. began[w] = Today => IsSoAfter(UserOf[at[w]], Today, result[w])
    BY <2>3, ServerGrows DEF IsSo, IsSoAfter
  <2>5. TrueAfter(row', at[w])
    BY <2>1, <2>2, <2>4 DEF TrueAfter
  <2> QED  BY <1>c, <2>0, <2>1, <2>5
<1>5. CASE refreshAll \/ Restart
  BY <1>5, <1>k DEF refreshAll, Restart, storeVars
<1>6. CASE BatchNext
  <2>1. UNCHANGED <<row, disk>> \/ \E r \in todo : Handler(r, Today)
    BY <1>6 DEF BatchNext
  <2> QED  BY <1>0, <1>k, <1>3, <2>1 DEF Types
<1>7. CASE SaveButton
  <2>1. /\ pc["button"] = "save"
        /\ UNCHANGED <<row, disk>> \/ (IsOwn("button") /\ Commit(Saved("button")))
    BY <1>7 DEF SaveButton, CommitFails
  <2> QED  BY <1>0, <1>k, <1>4, <2>1
<1>8. CASE SaveBatch
  <2>1. /\ pc["batch"] = "save"
        /\ \/ UNCHANGED <<row, disk>>
           \/ IsOwn("batch") /\ Commit(Saved("batch"))
           \/ Handler(at["batch"], day["batch"])
    BY <1>8 DEF SaveBatch
  <2>2. at["batch"] \in Row
    BY <1>0, <2>1 DEF WorkerInv, Doing
  <2> QED  BY <1>0, <1>k, <1>3, <1>4, <2>1, <2>2
<1>9. CASE \/ Tick \/ SwitchOff \/ \E u \in User : CheckInElsewhere(u)
           \/ startCheckin \/ tickAutoCheckin \/ BatchBegin \/ BatchEnd
           \/ \E w \in Worker : doCheckin(w) \/ CheckinDone(w)
  BY <1>k, <1>9 DEF Tick, SwitchOff, CheckInElsewhere, startCheckin, tickAutoCheckin, BatchBegin, BatchEnd,
     doCheckin, Token, Status, Claim, Lost, Confirm, CallStep, CheckinDone, storeVars
<1> QED
  BY <1>2, <1>5, <1>6, <1>7, <1>8, <1>9 DEF Next, RowAction

-----------------------------------------------------------------------------
(* Failures and retries.                                                    *)
LEMMA RetryStep ==
  ASSUME Types, RowTypes, WorkerInv, DayInv, RetryInv, RowTypes', Next
  PROVE  RetryInv'
<1>0. /\ "button" \in Worker /\ "batch" \in Worker /\ \A w \in Worker : w = "button" \/ w = "batch"
      /\ Today \in Nat /\ Today' \in Nat /\ Today <= Today' /\ now \in Nat /\ now' \in Nat /\ now <= now'
      /\ \A w \in Worker : day[w] \in Int
  BY DaysGo DEF Types, Worker
<1>f. ASSUME NEW x \in Row
      PROVE  /\ failed[x] # None => failed[x].day \in Int /\ failed[x].at \in Int
             /\ row[x] # None => row[x].day \in Int /\ row[x].retryAt \in Int /\ row[x].day <= Today
             /\ disk[x] # None => disk[x].day \in Int /\ disk[x].day <= Today
  <2>1. /\ failed[x] # None => failed[x] \in [day : Int, at : Int]
        /\ row[x] # None => row[x] \in CheckInFields
        /\ disk[x] # None => disk[x] \in CheckInFields
    BY DEF RowTypes, Rows
  <2> QED  BY <2>1 DEF CheckInFields, RetryInv, RowDays
<1>d. \A w \in Worker : pc'[w] \in Doing => (pc[w] \in Doing /\ day'[w] = day[w]) \/ day'[w] = Today
  BY DaysOfWorkers
\* A failure is as it was, and so is what the row says.
<1>s. ASSUME NEW x \in Row, failed[x] # None, failed'[x] = failed[x],
             row'[x] = None \/ (row[x] # None /\ SameCheckIn(row'[x], row[x]))
      PROVE  Spaced(x)'
  <2>1. Spaced(x)
    BY <1>s DEF RetryInv
  <2>2. failed[x].day \in Int /\ failed[x].at \in Int
    BY <1>f, <1>s
  <2>3. failed'[x].day <= Today' /\ failed'[x].at <= now'
    BY <1>0, <1>s, <2>1, <2>2 DEF Spaced
  <2>4. row'[x] # None =>
          /\ failed'[x].day <= row'[x].day
          /\ row'[x].day = failed'[x].day /\ row'[x].result \notin Final => failed'[x].at < row'[x].retryAt
    BY <1>s, <2>1 DEF Spaced, SameCheckIn
  <2>5. \A w \in Worker : pc'[w] \in Doing => failed'[x].day <= day'[w]
    BY <1>d, <1>s, <2>1 DEF Spaced
  <2> QED  BY <2>3, <2>4, <2>5 DEF Spaced
\* A failure that is new.
<1>n. ASSUME NEW x \in Row, NEW d \in Int, d <= Today, failed'[x] = [day |-> d, at |-> now],
             row'[x] # None => row'[x].day = d /\ row'[x].retryAt = now + 1,
             \A w \in Worker : pc'[w] \notin Doing
      PROVE  Spaced(x)'
  <2>1. failed'[x].day = d /\ failed'[x].at = now
    BY <1>n
  <2> QED  BY <1>0, <1>n, <2>1 DEF Spaced
\* The days of the rows, if one row is changed.
<1>r. ASSUME NEW x \in Row, disk' \in {row', disk}, row'[x] # None => row'[x].day <= Today,
             \A y \in Row \ {x} : row'[y] = row[y]
      PROVE  RowDays(row)' /\ RowDays(disk)'
  <2>1. ASSUME NEW y \in Row, row'[y] # None PROVE row'[y].day <= Today'
    <3>1. row'[y].day <= Today /\ row'[y].day \in Int
      <4>1. row'[y] \in CheckInFields
        BY <2>1 DEF RowTypes, Rows
      <4>2. CASE y = x
        BY <1>r, <2>1, <4>1, <4>2 DEF CheckInFields
      <4>3. CASE y # x
        BY <1>f, <1>r, <2>1, <4>3
      <4> QED  BY <4>2, <4>3
    <3> QED  BY <1>0, <3>1
  <2>2. ASSUME NEW y \in Row, disk'[y] # None PROVE disk'[y].day <= Today'
    <3>1. CASE disk' = row'
      BY <2>1, <2>2, <3>1
    <3>2. CASE disk' = disk
      BY <1>0, <1>f, <2>2, <3>2
    <3> QED  BY <1>r, <3>1, <3>2
  <2> QED  BY <2>1, <2>2 DEF RowDays
<1>k. ASSUME row' \in {row, disk}, disk' \in {row, disk} PROVE RowDays(row)' /\ RowDays(disk)'
  <2>1. \A x \in Row : (row[x] # None => row[x].day <= Today') /\ (disk[x] # None => disk[x].day <= Today')
    BY <1>0, <1>f
  <2> QED  BY <1>k, <2>1 DEF RowDays
<1>1. CASE UNCHANGED <<row, disk, failed>>
  <2>1. \A x \in Row : failed'[x] # None => Spaced(x)'
    BY <1>1, <1>s DEF SameCheckIn
  <2> QED  BY <1>1, <1>k, <2>1 DEF RetryInv
<1>2. ASSUME NEW r \in Row, RowAction(r) PROVE RetryInv'
  <2>1. /\ disk' = row' /\ failed' \in {failed, [failed EXCEPT ![r] = None]}
        /\ \A x \in Row \ {r} : row'[x] = row[x]
        /\ row'[r] # None =>
              \/ row[r] # None /\ SameCheckIn(row'[r], row[r])
              \/ row'[r].day = -1 /\ failed' = [failed EXCEPT ![r] = None]
    BY <1>2, RowActionDoes
  <2>2. row'[r] # None => row'[r].day <= Today
    BY <1>0, <1>f, <2>1 DEF SameCheckIn
  <2>3. \A x \in Row \ {r} : failed'[x] = failed[x]
    BY <2>1 DEF RowTypes
  <2>4. failed'[r] # None => failed' = failed
    BY <2>1 DEF RowTypes
  <2>5. failed'[r] # None => row'[r] = None \/ (row[r] # None /\ SameCheckIn(row'[r], row[r]))
    BY <2>1 DEF RowTypes
  <2>6. \A x \in Row : failed'[x] # None => Spaced(x)'
    <3>1. ASSUME NEW x \in Row, failed'[x] # None PROVE Spaced(x)'
      <4>1. CASE x = r
        BY <1>s, <2>4, <2>5, <3>1, <4>1
      <4>2. CASE x # r
        <5>1. failed'[x] = failed[x] /\ row'[x] = row[x]
          BY <2>1, <2>3, <4>2
        <5> QED  BY <1>s, <3>1, <5>1 DEF SameCheckIn
      <4> QED  BY <4>1, <4>2
    <3> QED  BY <3>1
  <2> QED  BY <1>r, <2>1, <2>2, <2>6 DEF RetryInv
\* The row of a worker, or of the batch, is written; no worker is doing then.
<1>3. ASSUME NEW r \in Row, NEW d \in Int, d <= Today, disk' \in {row', disk},
             \A x \in Row \ {r} : row'[x] = row[x],
             row'[r] # None => row'[r].day = d /\ row'[r].retryAt = now + 1,
             \A w \in Worker : pc'[w] \notin Doing,
             \/ failed' = [failed EXCEPT ![r] = [day |-> d, at |-> now]]
             \/ failed' = failed /\ (failed[r] # None => failed[r].day <= d)
      PROVE  RetryInv'
  <2>1. \A x \in Row \ {r} : failed'[x] = failed[x]
    BY <1>3 DEF RowTypes
  <2>2. ASSUME NEW x \in Row \ {r}, failed'[x] # None PROVE Spaced(x)'
    BY <1>s, <1>3, <2>1, <2>2 DEF SameCheckIn
  <2>3. ASSUME failed'[r] # None PROVE Spaced(r)'
    <3>1. CASE failed' = [failed EXCEPT ![r] = [day |-> d, at |-> now]]
      <4>1. failed'[r] = [day |-> d, at |-> now]
        BY <3>1 DEF RowTypes
      <4> QED  BY <1>n, <1>3, <4>1
    <3>2. CASE failed' = failed /\ failed[r].day <= d
      <4>1. Spaced(r) /\ failed'[r] = failed[r]
        BY <2>3, <3>2 DEF RetryInv
      <4>2. failed[r].day \in Int /\ failed[r].at \in Int
        BY <1>f, <2>3, <3>2
      <4>3. failed[r].day <= Today' /\ failed[r].at <= now' /\ failed[r].at < now + 1
        BY <1>0, <4>1, <4>2 DEF Spaced
      <4> QED  BY <1>3, <3>2, <4>1, <4>3 DEF Spaced
    <3> QED  BY <1>3, <2>3, <3>1, <3>2
  <2>4. RowDays(row)' /\ RowDays(disk)'
    BY <1>r, <1>3
  <2> QED  BY <2>2, <2>3, <2>4 DEF RetryInv
<1>4. CASE refreshAll
  <2>1. row' = row /\ disk' \in {row, disk} /\ failed' = failed
    BY <1>4 DEF refreshAll, batchVars
  <2>2. \A x \in Row : failed'[x] # None => Spaced(x)'
    BY <2>1, <1>s DEF SameCheckIn
  <2> QED  BY <1>k, <2>1, <2>2 DEF RetryInv
<1>5. CASE Restart
  <2>1. row' = disk /\ disk' = disk
        /\ failed' = [r \in Row |-> IF disk[r] = row[r] THEN failed[r] ELSE None]
    BY <1>5 DEF Restart
  <2>2. \A x \in Row : failed'[x] # None => failed'[x] = failed[x] /\ row'[x] = row[x]
    BY <2>1
  <2>3. \A x \in Row : failed'[x] # None => Spaced(x)'
    BY <2>2, <1>s DEF SameCheckIn
  <2> QED  BY <1>k, <2>1, <2>3 DEF RetryInv
<1>6. CASE BatchNext
  <2>1. UNCHANGED <<row, disk, failed>> \/ \E r \in todo : Handler(r, Today) /\ pc' = pc
    BY <1>6 DEF BatchNext
  <2>2. ASSUME NEW r \in todo, Handler(r, Today), pc' = pc PROVE RetryInv'
    <3>1. r \in Row /\ Today \in Int /\ Today <= Today
      BY <1>0 DEF Types
    <3>2. \A w \in Worker : pc'[w] \notin Doing
      BY <1>0, <1>6, <2>2 DEF BatchNext, WorkerInv, Doing
    <3>3. /\ disk' \in {row', disk} /\ failed' = [failed EXCEPT ![r] = [day |-> Today, at |-> now]]
          /\ \A x \in Row \ {r} : row'[x] = row[x]
          /\ row'[r] # None => row'[r].day = Today /\ row'[r].retryAt = now + 1
      BY <1>0, <2>2, <3>1, HandlerDoes
    <3> QED  BY <1>3, <3>1, <3>2, <3>3
  <2> QED  BY <1>1, <2>1, <2>2
<1>7. ASSUME NEW w \in Worker, pc[w] = "save", pc'[w] \notin Doing, \A v \in Worker \ {w} : pc'[v] = pc[v]
      PROVE  /\ \A v \in Worker : pc'[v] \notin Doing
             /\ at[w] \in Row /\ day[w] \in Int /\ day[w] <= Today
             /\ failed[at[w]] # None => failed[at[w]].day <= day[w]
  <2>1. at[w] \in Row /\ day[w] <= Today
    BY <1>7 DEF WorkerInv, DayInv, Doing
  <2>2. \A v \in Worker \ {w} : pc[v] = "idle"
    BY <1>0, <1>7 DEF WorkerInv
  <2> QED  BY <1>0, <1>7, <2>1, <2>2 DEF RetryInv, Spaced, Doing
<1>8. CASE SaveButton
  <2>1. /\ pc["button"] = "save" /\ failed' = failed /\ pc' = [pc EXCEPT !["button"] = "done"]
        /\ UNCHANGED <<row, disk>> \/ (IsOwn("button") /\ Commit(Saved("button")))
    BY <1>8 DEF SaveButton, CommitFails, batchVars, Goto
  <2>2. pc'["button"] \notin Doing /\ \A v \in Worker \ {"button"} : pc'[v] = pc[v]
    BY <1>0, <2>1 DEF Types, Doing
  <2>3. CASE IsOwn("button") /\ Commit(Saved("button"))
    <3>1. /\ disk' = row' /\ \A x \in Row \ {at["button"]} : row'[x] = row[x]
          /\ row'[at["button"]].day = day["button"] /\ row'[at["button"]].retryAt = now + 1
      BY <1>0, <1>7, <2>1, <2>2, <2>3, SaveDoes
    <3> QED  BY <1>0, <1>3, <1>7, <2>1, <2>2, <3>1
  <2> QED  BY <1>1, <2>1, <2>3
<1>9. CASE SaveBatch
  <2>1. /\ pc["batch"] = "save" /\ pc' = [pc EXCEPT !["batch"] = "next"]
        /\ \/ UNCHANGED <<row, disk, failed>>
           \/ Handler(at["batch"], day["batch"])
           \/ /\ IsOwn("batch") /\ Commit(Saved("batch"))
              /\ failed' = failed \/ Fail(at["batch"], day["batch"])
    BY <1>9 DEF SaveBatch, Goto
  <2>2. pc'["batch"] \notin Doing /\ \A v \in Worker \ {"batch"} : pc'[v] = pc[v]
    BY <1>0, <2>1 DEF Types, Doing
  <2>3. /\ \A v \in Worker : pc'[v] \notin Doing
        /\ at["batch"] \in Row /\ day["batch"] \in Int /\ day["batch"] <= Today
        /\ failed[at["batch"]] # None => failed[at["batch"]].day <= day["batch"]
    BY <1>0, <1>7, <2>1, <2>2
  <2>4. CASE Handler(at["batch"], day["batch"])
    <3>1. /\ disk' \in {row', disk}
          /\ failed' = [failed EXCEPT ![at["batch"]] = [day |-> day["batch"], at |-> now]]
          /\ \A x \in Row \ {at["batch"]} : row'[x] = row[x]
          /\ row'[at["batch"]] # None =>
               row'[at["batch"]].day = day["batch"] /\ row'[at["batch"]].retryAt = now + 1
      BY <1>0, <2>3, <2>4, HandlerDoes
    <3> QED  BY <1>3, <2>3, <3>1
  <2>5. CASE /\ IsOwn("batch") /\ Commit(Saved("batch"))
             /\ failed' = failed \/ Fail(at["batch"], day["batch"])
    <3>1. /\ disk' = row' /\ \A x \in Row \ {at["batch"]} : row'[x] = row[x]
          /\ row'[at["batch"]].day = day["batch"] /\ row'[at["batch"]].retryAt = now + 1
      BY <1>0, <2>3, <2>5, SaveDoes
    <3>2. failed' = failed \/ failed' = [failed EXCEPT ![at["batch"]] = [day |-> day["batch"], at |-> now]]
      BY <2>5 DEF Fail
    <3> QED  BY <1>3, <2>3, <3>1, <3>2
  <2> QED  BY <1>1, <2>1, <2>4, <2>5
<1>10. CASE \/ Tick \/ SwitchOff \/ \E u \in User : CheckInElsewhere(u)
            \/ startCheckin \/ tickAutoCheckin \/ BatchBegin \/ BatchEnd
            \/ \E w \in Worker : doCheckin(w) \/ CheckinDone(w)
  BY <1>1, <1>10 DEF Tick, SwitchOff, CheckInElsewhere, startCheckin, tickAutoCheckin, BatchBegin, BatchEnd,
     doCheckin, Token, Status, Claim, Lost, Confirm, CallStep, CheckinDone, storeVars, batchVars
<1> QED
  BY <1>2, <1>4, <1>5, <1>6, <1>8, <1>9, <1>10 DEF Next, RowAction

-----------------------------------------------------------------------------
LEMMA InitIInv == Init => IInv
<1> SUFFICES ASSUME Init PROVE IInv
  OBVIOUS
<1> USE DEF Init
<1>0. 0 \in Nat /\ 0 \div DayLength = 0 /\ Today = 0
  BY CheckInAssumption DEF Today
<1>1. Types
  BY DEF Types, Worker
<1>2. \A r \in Row : Fresh(r) \in CheckInFields /\ Fresh(r).day = -1 /\ Fresh(r).result = 2
  BY FreshIs
<1>3. \A r \in Row : row[r] = Fresh(r) /\ disk[r] = Fresh(r) /\ failed[r] = None
  OBVIOUS
<1>4. RowTypes
  BY <1>2 DEF RowTypes, Rows
<1>5. WorkerInv /\ ClaimInv /\ DayInv
  BY <1>0 DEF WorkerInv, ClaimInv, DayInv, Worker, Doing
<1>6. ResultInv
  BY <1>0 DEF ResultInv, ResultOf, BatchResults, IsSo, Worker
<1>7. TruthInv
  BY <1>2, <1>3 DEF TruthInv, RowsTrue, IsSo
<1>8. RetryInv
  BY <1>0, <1>2, <1>3 DEF RetryInv, RowDays
<1> QED
  BY <1>1, <1>4, <1>5, <1>6, <1>7, <1>8 DEF IInv

LEMMA StutterIInv == ASSUME IInv, UNCHANGED vars PROVE IInv'
<1> USE DEF vars, storeVars, windowVars, workerVars, batchVars, serverVars, Today
<1>1. Types' /\ RowTypes'
  BY DEF IInv, Types, RowTypes, Rows
<1>2. WorkerInv' /\ ClaimInv' /\ DayInv'
  BY DEF IInv, WorkerInv, ClaimInv, UserAt, DayInv
<1>3. ResultInv' /\ TruthInv'
  BY DEF IInv, ResultInv, ResultOf, BatchResults, TruthInv, RowsTrue, IsSo
<1>4. RetryInv'
  BY DEF IInv, RetryInv, RowDays, Spaced
<1> QED
  BY <1>1, <1>2, <1>3, <1>4 DEF IInv

(* The inductive invariant: the workers exclude each other, days go on, the *)
(* results of workers and batch are so until midnight, rows say what is so, *)
(* and a failed row is not due before its time.                             *)
THEOREM CheckInInvariance == Spec => []IInv
<1>1. Init => IInv
  BY InitIInv
<1>2. IInv /\ [Next]_vars => IInv'
  <2> SUFFICES ASSUME IInv, [Next]_vars PROVE IInv'
    OBVIOUS
  <2>1. CASE Next
    <3>1. Types' /\ RowTypes' /\ WorkerInv' /\ ClaimInv'
      BY <2>1, TypesStep, RowTypesStep, WorkerStep DEF IInv
    <3>2. DayInv' /\ ResultInv'
      BY <2>1, DayStep, ResultStep DEF IInv
    <3>3. TruthInv' /\ RetryInv'
      BY <2>1, <3>1, TruthStep, RetryStep DEF IInv
    <3> QED  BY <3>1, <3>2, <3>3 DEF IInv
  <2>2. CASE UNCHANGED vars
    BY <2>2, StutterIInv
  <2> QED  BY <2>1, <2>2
<1> QED
  BY <1>1, <1>2, PTL DEF Spec

(* A claim is never sent blindly (doCheckin, startCheckin, runAutoCheckins): *)
(* since the last one for the account the upstream has said that it is not  *)
(* checked in.                                                              *)
THEOREM ClaimsAreAsked == Spec => []NoBlindClaim
<1>1. IInv => NoBlindClaim
  BY DEF IInv, ClaimInv, NoBlindClaim
<1> QED
  BY <1>1, CheckInInvariance, PTL

(* What a row says is so, in memory and in index.json (saveCheckinResult):  *)
(* who is said to be checked in on a day is, and who is said to be pending  *)
(* had a claim sent on that day, unless midnight passed meanwhile.          *)
THEOREM RowsSayWhatIsSo == Spec => []SavedIsTrue
<1>1. IInv => SavedIsTrue
  BY DEF IInv, TruthInv, RowsTrue, IsSo, SavedIsTrue
<1> QED
  BY <1>1, CheckInInvariance, PTL

(* The batch leaves a row that has failed alone for 15 minutes of the same  *)
(* day (checkinDue, runAutoCheckins), also when the failure could not be    *)
(* written.                                                                 *)
THEOREM FailuresRest == Spec => RetrySpaced
<1>1. IInv => \A r \in Row :
        BatchTakes(r) /\ ~stop /\ failed[r] # None /\ failed[r].day = Today => now > failed[r].at
  <2> SUFFICES ASSUME IInv, NEW r \in Row, BatchTakes(r), failed[r] # None, failed[r].day = Today
               PROVE  now > failed[r].at
    OBVIOUS
  <2>1. /\ row[r] # None
        /\ row[r].day # Today \/ (row[r].result \notin Final /\ row[r].retryAt <= now)
    BY DEF BatchTakes, checkinDue
  <2>2. row[r] \in CheckInFields /\ failed[r] \in [day : Int, at : Int]
    BY <2>1 DEF IInv, RowTypes, Rows
  <2>3. row[r].day \in Int /\ row[r].retryAt \in Int /\ failed[r].at \in Int /\ now \in Nat
    BY <2>2 DEF CheckInFields, IInv, Types
  <2>4. /\ Spaced(r) /\ row[r].day <= Today
    BY <2>1 DEF IInv, RetryInv, RowDays
  <2>5. /\ Today <= row[r].day
        /\ row[r].day = Today /\ row[r].result \notin Final => failed[r].at < row[r].retryAt
    BY <2>1, <2>4 DEF Spaced
  <2>6. Today \in Int
    BY <2>3, DayOfNext DEF Today
  <2>7. row[r].day = Today
    BY <2>3, <2>4, <2>5, <2>6
  <2> QED  BY <2>1, <2>3, <2>5, <2>7
<1> QED
  BY <1>1, CheckInInvariance, PTL DEF RetrySpaced

=============================================================================
