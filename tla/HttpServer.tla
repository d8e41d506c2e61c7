------------------------------ MODULE HttpServer ------------------------------
(***************************************************************************)
(* The loopback HTTP/1.1 server of Trae Relay (HttpServer): one ServerImpl *)
(* from start to stop.  The accept thread registers each connection and    *)
(* starts a detached thread for it; that thread reads requests in a        *)
(* keep-alive loop, counts each one against kMaxConcurrent while the       *)
(* handler runs, and takes its connection off the register when it ends.   *)
(* stop, called by another thread, closes the listening socket, joins the  *)
(* accept thread and shuts the registered connections down.                *)
(***************************************************************************)
EXTENDS Naturals, Sequences, FiniteSets

CONSTANTS
  Conn,           \* connections clients may open
  MaxConcurrent,  \* kMaxConcurrent: requests handled at once
  None            \* no connection

ASSUME ServerAssumption ==
  /\ IsFiniteSet(Conn)
  /\ None \notin Conn
  /\ MaxConcurrent \in Nat \ {0}

VARIABLES
  running,    \* ServerImpl::running
  listening,  \* the listening socket is open
  acceptPc,   \* where the accept thread is
  arriving,   \* the connection the accept thread has accepted
  conns,      \* ServerImpl::conns, in the order of registration
  pc,         \* where the thread of each connection is
  active,     \* ServerImpl::active
  stopPc,     \* where stop is
  snapshot,   \* the connections stop took off the register
  shut        \* connections whose socket stop has shut down

acceptVars == <<acceptPc, arriving>>
stopVars   == <<running, listening, stopPc, snapshot, shut>>
vars == <<acceptVars, stopVars, conns, pc, active>>

(* "new" is a client that has not connected, "failed" a connection whose    *)
(* thread could not be created.                                             *)
Blocking == {"loop", "read", "gate", "refuse", "busy", "handle"}
ConnPc   == Blocking \cup {"new", "end", "gone", "failed"}

(* std::find: where c is on the register, or its end.                      *)
Position(c) ==
  IF \E i \in 1..Len(conns) : conns[i] = c
    THEN CHOOSE i \in 1..Len(conns) : conns[i] = c
    ELSE Len(conns) + 1

Goto(c, to) == pc' = [pc EXCEPT ![c] = to]

Handling == {c \in Conn : pc[c] = "handle"}
Counted  == {c \in Conn : pc[c] \in {"handle", "refuse"}}

Init ==
  /\ running = TRUE /\ listening = TRUE
  /\ acceptPc = "test" /\ arriving = None
  /\ conns = <<>>
  /\ pc = [c \in Conn |-> "new"]
  /\ active = 0
  /\ stopPc = "up" /\ snapshot = {} /\ shut = {}

-----------------------------------------------------------------------------
(* The accept thread.                                                       *)
AcceptTest ==
  /\ acceptPc = "test"
  /\ acceptPc' = IF running THEN "accept" ELSE "exit"
  /\ UNCHANGED <<arriving, stopVars, conns, pc, active>>

Accept(c) ==
  /\ acceptPc = "accept" /\ listening
  /\ pc[c] = "new"
  /\ acceptPc' = "register" /\ arriving' = c
  /\ UNCHANGED <<stopVars, conns, pc, active>>

(* accept returns INVALID_SOCKET once the listening socket is closed.       *)
AcceptFails ==
  /\ acceptPc = "accept" /\ ~listening
  /\ acceptPc' = IF running THEN "test" ELSE "exit"
  /\ UNCHANGED <<arriving, stopVars, conns, pc, active>>

registerConn ==
  /\ acceptPc = "register"
  /\ conns' = Append(conns, arriving)
  /\ acceptPc' = "spawn"
  /\ UNCHANGED <<arriving, stopVars, pc, active>>

(* std::thread throws: the socket is closed, the connection stays on the    *)
(* register.                                                                *)
Spawn ==
  /\ acceptPc = "spawn"
  /\ \E to \in {"loop", "failed"} : Goto(arriving, to)
  /\ acceptPc' = "test" /\ arriving' = None
  /\ UNCHANGED <<stopVars, conns, active>>

-----------------------------------------------------------------------------
\* Mutant of LoopTest: the keep-alive loop does not look at running.
LoopForever(c) ==
  /\ pc[c] = "loop"
  /\ Goto(c, "read")
  /\ UNCHANGED <<acceptVars, stopVars, conns, active>>

(* handleConnection: the thread of connection c.                            *)
LoopTest(c) ==
  /\ pc[c] = "loop"
  /\ Goto(c, IF running THEN "read" ELSE "end")
  /\ UNCHANGED <<acceptVars, stopVars, conns, active>>

(* A whole request, an empty line, or the end of the connection: the client *)
(* has gone, sent what is no request, or timed out.                         *)
ReadRequest(c) ==
  /\ pc[c] = "read"
  /\ \E to \in {"gate", "loop", "end"} : Goto(c, to)
  /\ UNCHANGED <<acceptVars, stopVars, conns, active>>

(* ActiveSlot: fetch_add, then compare.                                     *)
EnterGate(c) ==
  /\ pc[c] = "gate"
  /\ active' = active + 1
  /\ Goto(c, IF active + 1 > MaxConcurrent THEN "refuse" ELSE "handle")
  /\ UNCHANGED <<acceptVars, stopVars, conns>>

(* Over the limit: the count is rolled back before anything is sent.        *)
Refuse(c) ==
  /\ pc[c] = "refuse"
  /\ active' = active - 1
  /\ Goto(c, "busy")
  /\ UNCHANGED <<acceptVars, stopVars, conns>>

(* The 503; the connection goes on unless the client has gone.              *)
SendBusy(c) ==
  /\ pc[c] = "busy"
  /\ \E to \in {"loop", "end"} : Goto(c, to)
  /\ UNCHANGED <<acceptVars, stopVars, conns, active>>

(* The handler returns or throws; ~ActiveSlot.  An exception, a handler     *)
(* that did not respond, a client that has gone or Connection: close ends   *)
(* the connection.                                                          *)
HandlerReturns(c) ==
  /\ pc[c] = "handle"
  /\ active' = active - 1
  /\ \E to \in {"loop", "end"} : Goto(c, to)
  /\ UNCHANGED <<acceptVars, stopVars, conns>>

(* conns.erase(find(c), end()): everything registered after c goes too.     *)
unregisterConn(c) ==
  /\ pc[c] = "end"
  /\ conns' = SubSeq(conns, 1, Position(c) - 1)
  /\ Goto(c, "gone")
  /\ UNCHANGED <<acceptVars, stopVars, active>>

-----------------------------------------------------------------------------
(* stop.                                                                    *)
StopBegin ==
  /\ stopPc = "up"
  /\ running' = FALSE /\ stopPc' = "close"
  /\ UNCHANGED <<acceptVars, listening, snapshot, shut, conns, pc, active>>

StopClose ==
  /\ stopPc = "close"
  /\ listening' = FALSE /\ stopPc' = "join"
  /\ UNCHANGED <<acceptVars, running, snapshot, shut, conns, pc, active>>

\* Mutant of StopJoin: the accept thread is not joined.
StopJoinSkipped ==
  /\ stopPc = "join"
  /\ stopPc' = "snapshot"
  /\ UNCHANGED <<acceptVars, running, listening, snapshot, shut, conns, pc, active>>

StopJoin ==
  /\ stopPc = "join" /\ acceptPc = "exit"
  /\ stopPc' = "snapshot"
  /\ UNCHANGED <<acceptVars, running, listening, snapshot, shut, conns, pc, active>>

StopSnapshot ==
  /\ stopPc = "snapshot"
  /\ snapshot' = {conns[i] : i \in DOMAIN conns}
  /\ conns' = <<>>
  /\ stopPc' = "shut"
  /\ UNCHANGED <<acceptVars, running, listening, shut, pc, active>>

StopShut ==
  /\ stopPc = "shut"
  /\ shut' = snapshot /\ snapshot' = {}
  /\ stopPc' = "stopped"
  /\ UNCHANGED <<acceptVars, running, listening, conns, pc, active>>

-----------------------------------------------------------------------------
AcceptStep == AcceptTest \/ AcceptFails \/ registerConn \/ Spawn

ConnStep(c) ==
  \/ LoopTest(c) \/ ReadRequest(c) \/ EnterGate(c) \/ Refuse(c) \/ SendBusy(c)
  \/ HandlerReturns(c) \/ unregisterConn(c)

StopStep == StopClose \/ StopJoin \/ StopSnapshot \/ StopShut

Next ==
  \/ AcceptStep \/ \E c \in Conn : Accept(c)
  \/ \E c \in Conn : ConnStep(c)
  \/ StopBegin \/ StopStep

Spec == Init /\ [][Next]_vars

(* Where a thread waits for its client: ::send has no timeout, and a client *)
(* that sends a line now and then keeps the header loop going.  Nothing     *)
(* makes a client read or send; only stop, which shuts the socket, ends the *)
(* wait for certain: recv then returns 0 and send fails.                    *)
AtClient == {"read", "busy", "handle"}
OwnStep(c) == ConnStep(c) /\ (pc[c] \in AtClient => c \in shut)

(* Threads are scheduled.  A handler whose socket is shut ends through its  *)
(* failing writes and the timeouts of its upstream calls.  Nothing makes a  *)
(* client connect or the user stop the service.                             *)
Fairness ==
  /\ WF_vars(AcceptStep)
  /\ \A c \in Conn : WF_vars(OwnStep(c))
  /\ WF_vars(StopStep)

FairSpec == Spec /\ Fairness

-----------------------------------------------------------------------------
TypeOK ==
  /\ running \in BOOLEAN /\ listening \in BOOLEAN
  /\ acceptPc \in {"test", "accept", "register", "spawn", "exit"}
  /\ arriving \in Conn \cup {None}
  /\ acceptPc \in {"register", "spawn"} => arriving \in Conn
  /\ conns \in Seq(Conn)
  /\ pc \in [Conn -> ConnPc]
  /\ active \in Nat
  /\ stopPc \in {"up", "close", "join", "snapshot", "shut", "stopped"}
  /\ snapshot \subseteq Conn /\ shut \subseteq Conn

(* At most kMaxConcurrent handlers run at once, and the counter is exactly  *)
(* the requests that hold a slot or are about to give one back: a refusal,  *)
(* an exception or a client that goes away leaks no slot (ActiveSlot).      *)
HandlersBounded ==
  /\ Cardinality(Handling) <= MaxConcurrent
  /\ active = Cardinality(Counted)

(* When stop takes the register, no connection can come after it: the       *)
(* accept thread has been joined first, so none is registered unseen.       *)
NoConnectionAfterStop ==
  stopPc \in {"shut", "stopped"} => acceptPc = "exit" /\ conns = <<>>

(* A connection whose thread has ended is not on the register, so nothing   *)
(* keeps its ConnImpl alive: its socket is closed and stop never touches it. *)
EndedIsUnregistered ==
  \A c \in Conn : pc[c] = "gone" => \A i \in 1..Len(conns) : conns[i] # c

(* stop ends, whatever the clients do; every connection it has shut down    *)
(* ends, though its thread is not joined; and of the other threads only     *)
(* those remain that wait for a client: none goes on serving by itself.     *)
Ended(c) == pc[c] \in {"new", "gone", "failed"}
ServerDrains ==
  stopPc # "up" ~>
    [](/\ stopPc = "stopped"
       /\ \A c \in Conn : Ended(c) \/ (pc[c] \in AtClient /\ c \notin shut))

(* What the comments of conns and stop say: stop interrupts the blocking    *)
(* calls of every connection that is open.  unregisterConn breaks it.       *)
StopInterruptsAll ==
  stopPc = "stopped" => \A c \in Conn : pc[c] \in Blocking => c \in shut

=============================================================================
