---------------------------- MODULE AccountLease ----------------------------
(***************************************************************************)
(* What AccountPool promises to the code that serves requests: a request   *)
(* leases the current account, at most MaxLimit leases are out at a time,   *)
(* and the current account changes only while no lease is out.             *)
(***************************************************************************)
EXTENDS Naturals, FiniteSets

CONSTANTS Request, Object, MaxLimit, None

VARIABLES
  current,  \* the enabled account, or None
  lease     \* the account each request has leased, or None

leaseVars == <<current, lease>>

Leased == {r \in Request : lease[r] # None}

Init ==
  /\ current \in Object \cup {None}
  /\ lease = [r \in Request |-> None]

Acquire(r) ==
  /\ lease[r] = None
  /\ current # None
  /\ Cardinality(Leased) < MaxLimit
  /\ lease' = [lease EXCEPT ![r] = current]
  /\ UNCHANGED current

Release(r) ==
  /\ lease[r] # None
  /\ lease' = [lease EXCEPT ![r] = None]
  /\ UNCHANGED current

Switch(o) ==
  /\ Leased = {}
  /\ current' = o
  /\ UNCHANGED lease

Next ==
  \/ \E r \in Request : Acquire(r) \/ Release(r)
  \/ \E o \in Object \cup {None} : Switch(o)

Spec == Init /\ [][Next]_leaseVars
=============================================================================
