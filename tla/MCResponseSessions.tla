------------------------- MODULE MCResponseSessions -------------------------
(* Two requests, and the items and tools a request may carry.                *)
EXTENDS ResponseSessions, TLC

Symmetry == Permutations(Request) \cup Permutations(Response)

(* Requests meet in the cache: a handler looks up a session (idle), waits   *)
(* for an account (parse), and stores its own (put) before the client hears  *)
(* of it (terminal).  What it does elsewhere touches nothing of another one,  *)
(* and need not be interleaved with it: a handler that is elsewhere goes on.  *)
MeetingPc == {"idle", "parse", "put", "terminal"}
GoesOn == \A r \in Request : req[r].pc \notin MeetingPc => req'[r] # req[r]

(* Which events a response has does not depend on the sessions there are, so *)
(* that they are looked at before a response is stored, and an upstream that  *)
(* begins to answer after that has none but the end.                         *)
SaysLess ==
  stored # <<>> => \A r \in Request : req'[r].said # req[r].said => req'[r].said = 0
Steps == GoesOn /\ SaysLess

(* After close the items are dead, after put the messages, and the events of a *)
(* client that has left.  Of the others' it matters which items were added and not done,  *)
(* and how they end: that the rest is in order has been looked at before.     *)
Indices(q, type) == {e.index : e \in {f \in ToSet(q.events) : f.type = type}}
Matter(q) ==
  IF q.gone \/ ~q.streaming THEN <<>>
  ELSE <<Indices(q, "added") \ Indices(q, "done"), Last(q.events)>>
Alive(q) ==
  CASE q.pc = "put" -> [q EXCEPT !.items = <<>>, !.said = 0, !.events = Matter(q)]
    [] q.pc \in {"terminal", "release", "answer"} ->
         [Idle EXCEPT !.pc = q.pc, !.streaming = q.streaming, !.id = q.id, !.result = q.result,
                      !.slots = q.slots, !.gone = q.gone, !.events = Matter(q)]
    [] OTHER -> q
SessionView ==
  <<settingVars, cacheVars, [r \in Request |-> Alive(req[r])], talk, full, told,
    putVars, least>>
=============================================================================
