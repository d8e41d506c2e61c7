-------------------------------- MODULE CheckIn --------------------------------
(***************************************************************************)
(* The daily check-in of Trae Relay: the button of the status page and the *)
(* automatic check-in of all accounts (WindowTasks), the rows of index.json *)
(* that say what came of it (credentials), and the exchange with the        *)
(* upstream (AccountPool::doCheckin).                                       *)
(*                                                                         *)
(* Time is counted in steps of 15 minutes, the time after which a failed    *)
(* check-in is tried again.  Enterprise accounts, which have no check-in,   *)
(* and the other fields of a row are left out.                              *)
(***************************************************************************)
EXTENDS Integers, FiniteSets

CONSTANTS
  Row,        \* credentials, numbered as in index.json
  User,       \* accounts of the upstream
  UserOf,     \* the account of each credential (edition and user id)
  Web,        \* credentials from the web login; the others are the default ones
  DayLength,  \* steps in a day
  Target,     \* checkinHour, checkinMinute: the step of the day to begin at
  MaxTime,    \* bound: the last step
  MaxLogin,   \* bound: logins of a credential
  None

ASSUME CheckInAssumption ==
  /\ Row \subseteq Nat /\ Web \subseteq Row /\ None \notin Row
  /\ UserOf \in [Row -> User]
  /\ DayLength \in Nat \ {0}

Worker == {"button", "batch"}   \* the two uses of checkinWorker_

(* What doCheckin returns: 0 credited, 1 already checked in, -1 failed, -2  *)
(* the device has checked in with another account, -3 accepted and not      *)
(* confirmed; 2 in a row that has no result.                                *)
Final == {0, 1, -2, -3}

VARIABLES
  now,         \* the time
  credited,    \* the upstream: who has checked in on which day
  row,         \* registry: the check-in of each row, None when there is no row
  disk,        \* index.json
  active,      \* registry["active"]
  refreshing,  \* what refreshing stands for: "no", the "list" or the "batch"
  running,     \* checkinRunning_
  stop,        \* the stop token of the batch
  pc, at, generation, day, result,  \* each worker: where it is, its row, the
                                    \* account's generation, day and result
  todo,        \* ids: the rows the batch has not come to
  results,     \* what the batch has got for each account, 2 for nothing
  began,       \* the day each worker began on
  answered,    \* accounts the upstream has said are not checked in, since
               \* the last claim for them was sent
  sent,        \* claims that were sent, and the day
  failed       \* the day and time of the last failure in a batch, or None

storeVars  == <<row, disk, active>>
windowVars == <<running, stop>>
workerVars == <<pc, at, generation, day, result, began>>
batchVars  == <<todo, results, failed>>
serverVars == <<credited, answered, sent>>
vars == <<now, storeVars, refreshing, windowVars, workerVars, batchVars, serverVars>>

Today == now \div DayLength

(* autoCheckinEnabled and the fields of a row that has never checked in;    *)
(* late: midnight passed between the begin of the check-in and its result.  *)
Fresh(r) == [generation |-> 0, auto |-> r \in Web, day |-> -1, result |-> 2,
             retryAt |-> 0, late |-> FALSE]

Init ==
  /\ now = 0 /\ credited = {} /\ answered = {} /\ sent = {}
  /\ row = [r \in Row |-> Fresh(r)] /\ disk = row
  /\ active = None /\ refreshing = "no" /\ running = FALSE /\ stop = FALSE
  /\ pc = [w \in Worker |-> "idle"] /\ at = [w \in Worker |-> None]
  /\ generation = [w \in Worker |-> 0] /\ day = [w \in Worker |-> 0]
  /\ result = [w \in Worker |-> 2] /\ began = [w \in Worker |-> 0]
  /\ todo = {} /\ results = [u \in User |-> 2] /\ failed = [r \in Row |-> None]

-----------------------------------------------------------------------------
(* commit of index.json: it is written, and then kept; or the write fails.  *)
Commit(rows) == row' = rows /\ disk' = rows
CommitFails  == UNCHANGED <<row, disk>>

Tick ==
  /\ now < MaxTime /\ now' = now + 1
  /\ UNCHANGED <<storeVars, refreshing, windowVars, workerVars, batchVars, serverVars>>

(* The user checks in with the official client.                             *)
CheckInElsewhere(u) ==
  /\ credited' = credited \cup {<<u, Today>>}
  /\ UNCHANGED <<now, storeVars, refreshing, windowVars, workerVars, batchVars,
                 answered, sent>>

StoreStep ==
  UNCHANGED <<now, refreshing, windowVars, workerVars, todo, results, serverVars>>

setAutoCheckin(r) ==
  /\ r \in Web /\ row[r] # None
  /\ Commit([row EXCEPT ![r].auto = ~@])
  /\ UNCHANGED <<active, failed>> /\ StoreStep

(* A login of a credential that has a row keeps its check-in.               *)
add(r) ==
  /\ LET next == IF row[r] = None THEN [Fresh(r) EXCEPT !.generation = 1]
                 ELSE [row[r] EXCEPT !.generation = @ + 1]
     IN /\ next.generation <= MaxLogin
        /\ Commit([row EXCEPT ![r] = next])
  /\ failed' = IF row[r] = None THEN [failed EXCEPT ![r] = None] ELSE failed
  /\ UNCHANGED active /\ StoreStep

enable(r) ==
  /\ row[r] # None /\ refreshing = "no" /\ active # r
  /\ active' = r
  /\ Commit(row)
  /\ UNCHANGED failed /\ StoreStep

remove(r) ==
  /\ row[r] # None
  /\ active = r => refreshing = "no"
  /\ active' = IF active = r THEN None ELSE active
  /\ Commit([row EXCEPT ![r] = None])
  /\ failed' = [failed EXCEPT ![r] = None]
  /\ StoreStep

(* refreshAll: the batch task of the credentials page, which commits what   *)
(* is in memory.                                                            *)
refreshAll ==
  /\ \/ refreshing = "no" /\ refreshing' = "list" /\ UNCHANGED disk
     \/ refreshing = "list" /\ refreshing' = "no" /\ disk' \in {disk, row}
  /\ UNCHANGED <<now, row, active, windowVars, workerVars, batchVars, serverVars>>

(* The settings page: the automatic check-in is switched off, which stops   *)
(* the batch.  (When it is on is left open: it may begin at any time.)      *)
SwitchOff ==
  /\ pc["batch"] # "idle" /\ stop' = TRUE
  /\ UNCHANGED <<now, storeVars, refreshing, running, workerVars, batchVars, serverVars>>

-----------------------------------------------------------------------------
checkinDue(r) ==
  /\ row[r] # None
  /\ IF r \in Web THEN row[r].auto ELSE active = r
  /\ row[r].day # Today \/ (row[r].result \notin Final /\ row[r].retryAt <= now)

Goto(w, p) == pc' = [pc EXCEPT ![w] = p]

Take(w, r) ==
  /\ at' = [at EXCEPT ![w] = r]
  /\ generation' = [generation EXCEPT ![w] = row[r].generation]
  /\ day' = [day EXCEPT ![w] = Today]

Leave(w) ==
  /\ at' = [at EXCEPT ![w] = None] /\ generation' = [generation EXCEPT ![w] = 0]
  /\ day' = [day EXCEPT ![w] = 0] /\ result' = [result EXCEPT ![w] = 2]

\* Mutant of startCheckin: a running check-in is not looked at.
StartUnchecked ==
  /\ pc["button"] = "idle"
  /\ refreshing = "no" /\ active # None
  /\ running' = TRUE
  /\ Take("button", active) /\ began' = [began EXCEPT !["button"] = Today]
  /\ Goto("button", "token")
  /\ UNCHANGED <<now, storeVars, refreshing, stop, result, batchVars, serverVars>>

(* The button: the enabled account as it is now.                            *)
startCheckin ==
  /\ pc["button"] = "idle"
  /\ refreshing = "no" /\ active # None /\ ~running
  /\ running' = TRUE
  /\ Take("button", active) /\ began' = [began EXCEPT !["button"] = Today]
  /\ Goto("button", "token")
  /\ UNCHANGED <<now, storeVars, refreshing, stop, result, batchVars, serverVars>>

(* tickAutoCheckin, every second, with hasDueCheckin.                       *)
tickAutoCheckin ==
  /\ now % DayLength >= Target
  /\ ~running /\ refreshing = "no"
  /\ \E r \in Row : checkinDue(r)
  /\ running' = TRUE /\ stop' = FALSE
  /\ Goto("batch", "begin")
  /\ UNCHANGED <<now, storeVars, refreshing, at, generation, day, result, began,
                 batchVars, serverVars>>

(* runAutoCheckins: nothing while another task or a web login is running.    *)
BatchBegin ==
  /\ pc["batch"] = "begin"
  /\ \/ Goto("batch", "done") /\ UNCHANGED <<refreshing, todo, results, began>>
     \/ /\ refreshing = "no" /\ refreshing' = "batch"
        /\ todo' = {r \in Row : checkinDue(r)}
        /\ results' = [u \in User |-> 2]
        /\ began' = [began EXCEPT !["batch"] = Today]
        /\ Goto("batch", "next")
  /\ UNCHANGED <<now, storeVars, windowVars, at, generation, day, result, failed, serverVars>>

BatchEnd ==
  /\ pc["batch"] = "next" /\ (todo = {} \/ stop)
  /\ refreshing' = "no" /\ todo' = {}
  /\ Goto("batch", "done")
  /\ UNCHANGED <<now, storeVars, windowVars, at, generation, day, result, began,
                 results, failed, serverVars>>

Fail(r, d) ==
  failed' = [failed EXCEPT ![r] = [day |-> d, at |-> now]]

Failing(c, d) ==
  [generation |-> c.generation, auto |-> c.auto, day |-> d, result |-> -1,
   retryAt |-> now + 1, late |-> FALSE]

\* Mutant of Handler: what could not be written is not kept either.
HandlerForgets(r, d) ==
  /\ IF row[r] = None THEN UNCHANGED <<row, disk>>
     ELSE Commit([row EXCEPT ![r] = Failing(row[r], d)]) \/ CommitFails
  /\ Fail(r, d)

(* The handler of the batch: whatever was thrown, the row in memory has     *)
(* failed, written or not.                                                  *)
Handler(r, d) ==
  /\ IF row[r] = None THEN UNCHANGED <<row, disk>>
     ELSE /\ row' = [row EXCEPT ![r] = Failing(row[r], d)]
          /\ disk' \in {row', disk}
  /\ Fail(r, d)

(* The next row: gone or not due any more; its account cannot be loaded; or *)
(* it is checked in, unless another credential of the account has been.     *)
BatchNext ==
  /\ pc["batch"] = "next" /\ todo # {} /\ ~stop
  /\ \E r \in todo :
       /\ \A x \in todo : r <= x
       /\ todo' = todo \ {r}
       /\ \/ /\ ~checkinDue(r)
             /\ UNCHANGED <<row, disk, pc, at, generation, day, result, failed>>
          \/ /\ checkinDue(r)
             /\ Handler(r, Today)
             /\ UNCHANGED <<pc, at, generation, day, result>>
          \/ /\ checkinDue(r)
             /\ Take("batch", r)
             /\ IF results[UserOf[r]] = 2
                  THEN Goto("batch", "token") /\ UNCHANGED result
                  ELSE /\ Goto("batch", "save")
                       /\ result' = [result EXCEPT !["batch"] = results[UserOf[r]]]
             /\ UNCHANGED <<row, disk, failed>>
  /\ UNCHANGED <<now, active, refreshing, windowVars, began, results, serverVars>>

-----------------------------------------------------------------------------
(* doCheckin of worker w.                                                   *)
UserAt(w) == UserOf[at[w]]
CheckedIn(w) == <<UserAt(w), Today>> \in credited

Return(w, x) == Goto(w, "save") /\ result' = [result EXCEPT ![w] = x]
CallStep == UNCHANGED <<now, storeVars, refreshing, windowVars, at, generation, day, began,
                        batchVars>>

(* ensureFreshToken.                                                        *)
Token(w) ==
  /\ pc[w] = "token"
  /\ \/ Return(w, -1)
     \/ Goto(w, "status") /\ UNCHANGED result
  /\ UNCHANGED serverVars /\ CallStep

(* The upstream says that the account has checked in today, or that it has  *)
(* not; or that the device has, or there is no answer.                      *)
Status(w) ==
  /\ pc[w] = "status"
  /\ \/ \E x \in {-1, -2} : Return(w, x) /\ UNCHANGED answered
     \/ /\ CheckedIn(w)
        /\ Return(w, 1) /\ UNCHANGED answered
     \/ /\ ~CheckedIn(w)
        /\ answered' = answered \cup {UserAt(w)}
        /\ Goto(w, "claim") /\ UNCHANGED result
  /\ UNCHANGED <<credited, sent>> /\ CallStep

(* The claim: it is refused; or it may be credited, and the answer is that  *)
(* it was accepted, one without a code, or lost.                            *)
Claim(w) ==
  /\ pc[w] = "claim"
  /\ sent' = sent \cup {<<UserAt(w), Today>>}
  /\ answered' = answered \ {UserAt(w)}
  /\ \/ /\ \E x \in {-1, -2} : Return(w, x)
        /\ UNCHANGED credited
     \/ /\ \/ Return(w, -3)
           \/ \E p \in {"confirm", "lost"} : Goto(w, p) /\ UNCHANGED result
        /\ credited' \in {credited, credited \cup {<<UserAt(w), Today>>}}
  /\ CallStep

\* Mutant of Lost: a claim without an answer counts as credited.
LostCredited(w) ==
  /\ pc[w] = "lost"
  /\ Return(w, 0)
  /\ UNCHANGED serverVars /\ CallStep

(* After a claim without an answer the status is asked for once.            *)
Lost(w) ==
  /\ pc[w] = "lost"
  /\ \/ Return(w, -1)
     \/ CheckedIn(w) /\ Return(w, -3)
  /\ UNCHANGED serverVars /\ CallStep

(* Credited only if the status says so and the total has grown.             *)
Confirm(w) ==
  /\ pc[w] = "confirm"
  /\ \/ Return(w, -3)
     \/ CheckedIn(w) /\ Return(w, 0)
  /\ UNCHANGED serverVars /\ CallStep

-----------------------------------------------------------------------------
IsOwn(w) == row[at[w]] # None /\ row[at[w]].generation = generation[w]

Told(c, w) ==
  [generation |-> c.generation, auto |-> c.auto, day |-> day[w], result |-> result[w],
   retryAt |-> now + 1, late |-> began[w] # Today]
Saved(w) == [row EXCEPT ![at[w]] = Told(row[at[w]], w)]

(* saveCheckinResult: nothing, if the credential has been removed or logged *)
(* in again meanwhile.  If it throws, the button's result is lost.          *)
SaveButton ==
  /\ pc["button"] = "save"
  /\ Goto("button", "done")
  /\ IF IsOwn("button") THEN Commit(Saved("button")) \/ CommitFails ELSE CommitFails
  /\ UNCHANGED <<now, active, refreshing, windowVars, at, generation, day, result, began,
                 batchVars, serverVars>>

SaveBatch ==
  /\ pc["batch"] = "save"
  /\ Goto("batch", "next") /\ Leave("batch")
  /\ results' = [results EXCEPT ![UserAt("batch")] = result["batch"]]
  /\ \/ /\ IsOwn("batch")
        /\ Commit(Saved("batch"))
        /\ IF result["batch"] = -1 THEN Fail(at["batch"], day["batch"]) ELSE UNCHANGED failed
     \/ ~IsOwn("batch") /\ UNCHANGED <<row, disk, failed>>
     \/ IsOwn("batch") /\ Handler(at["batch"], day["batch"])
  /\ UNCHANGED <<now, active, refreshing, windowVars, began, todo, serverVars>>

(* WM_APP_CHECKIN_DONE.                                                     *)
CheckinDone(w) ==
  /\ pc[w] = "done"
  /\ Goto(w, "idle") /\ running' = FALSE
  /\ Leave(w) /\ began' = [began EXCEPT ![w] = 0]
  /\ results' = [u \in User |-> 2]
  /\ UNCHANGED <<now, storeVars, refreshing, stop, todo, failed, serverVars>>

(* The process ends and is started again; a failure that had been written   *)
(* is remembered.                                                           *)
Restart ==
  /\ row' = disk
  /\ refreshing' = "no" /\ running' = FALSE /\ stop' = FALSE
  /\ pc' = [w \in Worker |-> "idle"] /\ at' = [w \in Worker |-> None]
  /\ generation' = [w \in Worker |-> 0] /\ day' = [w \in Worker |-> 0]
  /\ result' = [w \in Worker |-> 2] /\ began' = [w \in Worker |-> 0]
  /\ todo' = {} /\ results' = [u \in User |-> 2]
  /\ failed' = [r \in Row |-> IF disk[r] = row[r] THEN failed[r] ELSE None]
  /\ UNCHANGED <<now, disk, active, serverVars>>

-----------------------------------------------------------------------------
doCheckin(w) == Token(w) \/ Status(w) \/ Claim(w) \/ Lost(w) \/ Confirm(w)

Next ==
  \/ Tick \/ SwitchOff \/ refreshAll \/ Restart
  \/ \E u \in User : CheckInElsewhere(u)
  \/ \E r \in Row : setAutoCheckin(r) \/ add(r) \/ enable(r) \/ remove(r)
  \/ startCheckin \/ tickAutoCheckin \/ BatchBegin \/ BatchNext \/ BatchEnd
  \/ \E w \in Worker : doCheckin(w) \/ CheckinDone(w)
  \/ SaveButton \/ SaveBatch

Spec == Init /\ [][Next]_vars

-----------------------------------------------------------------------------
CheckInOf(r) ==
  [generation : 0 .. MaxLogin, auto : BOOLEAN, day : Nat \cup {-1}, result : -3 .. 2,
   retryAt : Nat, late : BOOLEAN]

TypeOK ==
  /\ now \in 0 .. MaxTime
  /\ credited \subseteq User \X Nat /\ sent \subseteq User \X Nat /\ answered \subseteq User
  /\ \A r \in Row : {row[r], disk[r]} \subseteq CheckInOf(r) \cup {None}
  /\ active \in Row \cup {None} /\ refreshing \in {"no", "list", "batch"}
  /\ \A w \in Worker :
       /\ pc[w] \in {"idle", "begin", "next", "token", "status", "claim", "confirm", "lost",
                     "save", "done"}
       /\ pc[w] # "idle" => running
  /\ refreshing = "batch" <=> pc["batch"] \notin {"idle", "begin", "done"}
  /\ todo \subseteq Row /\ results \in [User -> -3 .. 2]

(* A claim is never sent blindly: since the last one for the account the    *)
(* upstream has said that it is not checked in.  The button and the batch   *)
(* never check in at the same time, two credentials of one account never in *)
(* one batch, and a claim without an answer is not repeated.                *)
NoBlindClaim == \A w \in Worker : pc[w] = "claim" => UserAt(w) \in answered

BatchTakes(r) == r \in todo /\ r \notin todo' /\ pc["batch"] = "next" /\ checkinDue(r)

(* A row that has failed in the batch is left alone for 15 minutes of the   *)
(* same day, also when the failure could not be written, whatever else is   *)
(* saved or committed meanwhile, and also when it is logged in again: a     *)
(* login keeps the check-in of its row.                                     *)
RetrySpaced ==
  [][\A r \in Row :
       BatchTakes(r) /\ ~stop /\ failed[r] # None /\ failed[r].day = Today
         => now > failed[r].at]_vars

(* What a row says is so: checked in on that day, or, when it says pending, *)
(* that a claim was sent on that day; also in the file, and for a           *)
(* credential whose result was got through another one.  (When midnight     *)
(* passes before the result is there it can be that of the other day.)      *)
SavedIsTrue ==
  \A r \in Row : \A c \in {row[r], disk[r]} \ {None} :
    ~c.late =>
      /\ c.result \in {0, 1} => <<UserOf[r], c.day>> \in credited
      /\ c.result = -3 => <<UserOf[r], c.day>> \in sent
=============================================================================
