-------------------------- MODULE HttpServer_proofs --------------------------
(***************************************************************************)
(* Proofs about HttpServer, for every set of connections and every limit,  *)
(* and about WebLogin, the login that has a server of its own.             *)
(***************************************************************************)
EXTENDS HttpServer, WebLogin, FiniteSetTheorems, SequenceTheorems, TLAPS

(* The counter is the number of requests that have counted themselves.      *)
CountInv == active = Cardinality(Counted)

(* The accept thread is past its last connection once stop has joined it.   *)
JoinInv ==
  /\ stopPc # "up" => ~running
  /\ stopPc \in {"snapshot", "shut", "stopped"} => acceptPc = "exit"
  /\ stopPc \in {"shut", "stopped"} => conns = <<>>
  /\ acceptPc \in {"register", "spawn"} => pc[arriving] = "new"

(* Every connection is registered once, before its thread is created.       *)
OnceInv ==
  /\ \A i, j \in 1..Len(conns) : conns[i] = conns[j] => i = j
  /\ \A i \in 1..Len(conns) :
       pc[conns[i]] = "new" => acceptPc = "spawn" /\ conns[i] = arriving

IInv == TypeOK /\ HandlersBounded /\ JoinInv /\ OnceInv /\ EndedIsUnregistered

-----------------------------------------------------------------------------
(* Counted and Handling are finite, so their cardinalities are numbers.     *)
LEMMA CountedFinite ==
  /\ IsFiniteSet(Counted) /\ Cardinality(Counted) \in Nat
  /\ IsFiniteSet(Handling) /\ Cardinality(Handling) \in Nat
  /\ Cardinality(Handling) <= Cardinality(Counted)
<1>1. Counted \subseteq Conn /\ Handling \subseteq Counted
  BY DEF Counted, Handling
<1>2. QED
  BY <1>1, ServerAssumption, FS_Subset, FS_CardinalityType

(* A thread that enters the gate adds itself to Counted.                    *)
LEMMA CountedAdd ==
  ASSUME NEW c \in Conn, pc \in [Conn -> ConnPc], pc[c] \notin {"handle", "refuse"},
         NEW to \in {"handle", "refuse"}, pc' = [pc EXCEPT ![c] = to]
  PROVE  Cardinality(Counted') = Cardinality(Counted) + 1
<1>1. Counted' = Counted \cup {c} /\ c \notin Counted
  BY DEF Counted
<1>2. QED
  BY <1>1, CountedFinite, FS_AddElement

(* A thread that gives its slot back removes itself from Counted.           *)
LEMMA CountedRemove ==
  ASSUME NEW c \in Conn, pc \in [Conn -> ConnPc], pc[c] \in {"handle", "refuse"},
         NEW to \in {"busy", "loop", "end"}, pc' = [pc EXCEPT ![c] = to]
  PROVE  Cardinality(Counted') = Cardinality(Counted) - 1
<1>1. Counted' = Counted \ {c} /\ c \in Counted
  BY DEF Counted
<1>2. QED
  BY <1>1, CountedFinite, FS_RemoveElement

(* No other step moves a thread into or out of Counted.                     *)
LEMMA CountedSame ==
  ASSUME NEW c \in Conn, pc \in [Conn -> ConnPc], pc[c] \notin {"handle", "refuse"},
         NEW to \in ConnPc \ {"handle", "refuse"}, pc' = [pc EXCEPT ![c] = to]
  PROVE  Counted' = Counted /\ Handling' = Handling
BY DEF Counted, Handling

(* Where c is on the register.                                              *)
LEMMA PositionType ==
  ASSUME NEW c \in Conn, conns \in Seq(Conn)
  PROVE  /\ Position(c) \in 1..(Len(conns) + 1)
         /\ Position(c) \in 1..Len(conns) => conns[Position(c)] = c
         /\ Position(c) = Len(conns) + 1 => \A i \in 1..Len(conns) : conns[i] # c
BY DEF Position

(* What is left of the register when c is taken off: a prefix of it.        *)
LEMMA PrefixProperties ==
  ASSUME NEW c \in Conn, conns \in Seq(Conn), NEW s, s = SubSeq(conns, 1, Position(c) - 1)
  PROVE  /\ s \in Seq(Conn)
         /\ Len(s) = Position(c) - 1
         /\ \A i \in 1..Len(s) : s[i] = conns[i]
<1>1. Position(c) \in 1..(Len(conns) + 1) /\ Len(conns) \in Nat
  BY PositionType
<1>2. QED
  BY <1>1

-----------------------------------------------------------------------------
(* The types hold at the beginning.                                         *)
LEMMA TypeInit == Init => TypeOK
BY ServerAssumption DEF Init, TypeOK, ConnPc, Blocking

(* Every step keeps the types.                                              *)
LEMMA TypeStep == TypeOK /\ CountInv /\ [Next]_vars => TypeOK'
<1> SUFFICES ASSUME TypeOK, CountInv, [Next]_vars PROVE TypeOK'
  OBVIOUS
<1> USE ServerAssumption DEF TypeOK, ConnPc, Blocking, Goto, acceptVars, stopVars
<1>1. CASE AcceptTest
  BY <1>1 DEF AcceptTest
<1>2. ASSUME NEW c \in Conn, Accept(c) PROVE TypeOK'
  BY <1>2 DEF Accept
<1>3. CASE AcceptFails
  BY <1>3 DEF AcceptFails
<1>4. CASE registerConn
  BY <1>4 DEF registerConn
<1>5. CASE Spawn
  BY <1>5 DEF Spawn
<1>6. ASSUME NEW c \in Conn, LoopTest(c) PROVE TypeOK'
  BY <1>6 DEF LoopTest
<1>7. ASSUME NEW c \in Conn, ReadRequest(c) PROVE TypeOK'
  BY <1>7 DEF ReadRequest
<1>8. ASSUME NEW c \in Conn, EnterGate(c) PROVE TypeOK'
  BY <1>8 DEF EnterGate
<1>9. ASSUME NEW c \in Conn, Refuse(c) PROVE TypeOK'
  <2>1. active - 1 \in Nat
    <3>1. Cardinality(Counted) \in Nat /\ Cardinality(Counted) # 0
      <4>1. c \in Counted
        BY <1>9 DEF Refuse, Counted
      <4>2. QED
        BY <4>1, CountedFinite, FS_EmptySet
    <3>2. QED
      BY <3>1 DEF CountInv
  <2>2. QED
    BY <1>9, <2>1 DEF Refuse
<1>10. ASSUME NEW c \in Conn, SendBusy(c) PROVE TypeOK'
  BY <1>10 DEF SendBusy
<1>11. ASSUME NEW c \in Conn, HandlerReturns(c) PROVE TypeOK'
  <2>1. active - 1 \in Nat
    <3>1. Cardinality(Counted) \in Nat /\ Cardinality(Counted) # 0
      <4>1. c \in Counted
        BY <1>11 DEF HandlerReturns, Counted
      <4>2. QED
        BY <4>1, CountedFinite, FS_EmptySet
    <3>2. QED
      BY <3>1 DEF CountInv
  <2>2. QED
    BY <1>11, <2>1 DEF HandlerReturns
<1>12. ASSUME NEW c \in Conn, unregisterConn(c) PROVE TypeOK'
  <2>1. conns' \in Seq(Conn)
    BY <1>12, PrefixProperties DEF unregisterConn
  <2>2. QED
    BY <1>12, <2>1 DEF unregisterConn
<1>13. CASE StopBegin
  BY <1>13 DEF StopBegin
<1>14. CASE StopClose
  BY <1>14 DEF StopClose
<1>15. CASE StopJoin
  BY <1>15 DEF StopJoin
<1>16. CASE StopSnapshot
  <2>1. snapshot' \subseteq Conn
    BY <1>16 DEF StopSnapshot
  <2>2. QED
    BY <1>16, <2>1 DEF StopSnapshot
<1>17. CASE StopShut
  BY <1>17 DEF StopShut
<1>18. CASE UNCHANGED vars
  BY <1>18 DEF vars, acceptVars, stopVars
<1>19. QED
  BY <1>1, <1>2, <1>3, <1>4, <1>5, <1>6, <1>7, <1>8, <1>9, <1>10, <1>11, <1>12, <1>13, <1>14,
     <1>15, <1>16, <1>17, <1>18 DEF Next, AcceptStep, ConnStep, StopStep

(* Every step keeps the bound on the handlers.                              *)
LEMMA BoundStep == TypeOK /\ JoinInv /\ HandlersBounded /\ [Next]_vars => HandlersBounded'
<1> SUFFICES ASSUME TypeOK, JoinInv, HandlersBounded, [Next]_vars PROVE HandlersBounded'
  OBVIOUS
<1> USE ServerAssumption DEF TypeOK, HandlersBounded, ConnPc, Blocking, Goto, acceptVars, stopVars
<1>1. CASE AcceptTest
  BY <1>1 DEF AcceptTest, Counted, Handling
<1>2. ASSUME NEW c \in Conn, Accept(c) PROVE HandlersBounded'
  BY <1>2 DEF Accept, Counted, Handling
<1>3. CASE AcceptFails
  BY <1>3 DEF AcceptFails, Counted, Handling
<1>4. CASE registerConn
  BY <1>4 DEF registerConn, Counted, Handling
<1>5. CASE Spawn
  BY <1>5, CountedSame DEF Spawn, JoinInv
<1>6. ASSUME NEW c \in Conn, LoopTest(c) PROVE HandlersBounded'
  BY <1>6, CountedSame DEF LoopTest
<1>7. ASSUME NEW c \in Conn, ReadRequest(c) PROVE HandlersBounded'
  BY <1>7, CountedSame DEF ReadRequest
<1>8. ASSUME NEW c \in Conn, EnterGate(c) PROVE HandlersBounded'
  <2> DEFINE to == IF active + 1 > MaxConcurrent THEN "refuse" ELSE "handle"
  <2>1. /\ to \in {"handle", "refuse"}
        /\ pc' = [pc EXCEPT ![c] = to]
        /\ to = "handle" <=> active + 1 <= MaxConcurrent
    BY <1>8 DEF EnterGate
  <2> HIDE DEF to
  <2>2. Cardinality(Counted') = Cardinality(Counted) + 1
    BY <1>8, <2>1, CountedAdd DEF EnterGate
  <2>3. CASE to = "handle"
    <3>1. Handling' \subseteq Counted' /\ Counted' \subseteq Conn
      BY DEF Handling, Counted
    <3>2. Cardinality(Handling') <= Cardinality(Counted')
      BY <3>1, FS_Subset
    <3>3. Cardinality(Handling') \in Nat /\ Cardinality(Counted') \in Nat
      BY <3>1, FS_Subset, FS_CardinalityType
    <3>4. QED
      BY <1>8, <2>1, <2>2, <2>3, <3>2, <3>3 DEF EnterGate
  <2>4. CASE to = "refuse"
    <3>1. Handling' = Handling
      BY <1>8, <2>1, <2>4 DEF EnterGate, Handling
    <3>2. QED
      BY <1>8, <2>2, <3>1 DEF EnterGate
  <2>5. QED
    BY <2>1, <2>3, <2>4
<1>9. ASSUME NEW c \in Conn, Refuse(c) PROVE HandlersBounded'
  <2>1. pc' = [pc EXCEPT ![c] = "busy"]
    BY <1>9 DEF Refuse
  <2>2. Cardinality(Counted') = Cardinality(Counted) - 1
    BY <1>9, <2>1, CountedRemove DEF Refuse
  <2>3. Handling' \subseteq Handling
    BY <1>9, <2>1 DEF Refuse, Handling
  <2>4. Cardinality(Handling') <= Cardinality(Handling) /\ Cardinality(Handling') \in Nat
    BY <2>3, CountedFinite, FS_Subset, FS_CardinalityType
  <2>5. QED
    BY <1>9, <2>2, <2>4, CountedFinite DEF Refuse
<1>10. ASSUME NEW c \in Conn, SendBusy(c) PROVE HandlersBounded'
  BY <1>10, CountedSame DEF SendBusy
<1>11. ASSUME NEW c \in Conn, HandlerReturns(c) PROVE HandlersBounded'
  <2>1. PICK to \in {"loop", "end"} : pc' = [pc EXCEPT ![c] = to]
    BY <1>11 DEF HandlerReturns
  <2>2. Cardinality(Counted') = Cardinality(Counted) - 1
    BY <1>11, <2>1, CountedRemove DEF HandlerReturns
  <2>3. Handling' \subseteq Handling
    BY <1>11, <2>1 DEF HandlerReturns, Handling
  <2>4. Cardinality(Handling') <= Cardinality(Handling) /\ Cardinality(Handling') \in Nat
    BY <2>3, CountedFinite, FS_Subset, FS_CardinalityType
  <2>5. QED
    BY <1>11, <2>2, <2>4, CountedFinite DEF HandlerReturns
<1>12. ASSUME NEW c \in Conn, unregisterConn(c) PROVE HandlersBounded'
  BY <1>12, CountedSame DEF unregisterConn
<1>13. CASE StopBegin
  BY <1>13 DEF StopBegin, Counted, Handling
<1>14. CASE StopClose
  BY <1>14 DEF StopClose, Counted, Handling
<1>15. CASE StopJoin
  BY <1>15 DEF StopJoin, Counted, Handling
<1>16. CASE StopSnapshot
  BY <1>16 DEF StopSnapshot, Counted, Handling
<1>17. CASE StopShut
  BY <1>17 DEF StopShut, Counted, Handling
<1>18. CASE UNCHANGED vars
  BY <1>18 DEF vars, acceptVars, stopVars, Counted, Handling
<1>19. QED
  BY <1>1, <1>2, <1>3, <1>4, <1>5, <1>6, <1>7, <1>8, <1>9, <1>10, <1>11, <1>12, <1>13, <1>14,
     <1>15, <1>16, <1>17, <1>18 DEF Next, AcceptStep, ConnStep, StopStep

(* Every step keeps what stop knows of the accept thread.                   *)
LEMMA JoinStep == TypeOK /\ JoinInv /\ [Next]_vars => JoinInv'
<1> SUFFICES ASSUME TypeOK, JoinInv, [Next]_vars PROVE JoinInv'
  OBVIOUS
<1> USE DEF TypeOK, JoinInv, ConnPc, Blocking, Goto, acceptVars, stopVars
<1>1. CASE AcceptTest
  BY <1>1 DEF AcceptTest
<1>2. ASSUME NEW c \in Conn, Accept(c) PROVE JoinInv'
  BY <1>2 DEF Accept
<1>3. CASE AcceptFails
  BY <1>3 DEF AcceptFails
<1>4. CASE registerConn
  BY <1>4 DEF registerConn
<1>5. CASE Spawn
  BY <1>5 DEF Spawn
<1>6. ASSUME NEW c \in Conn, LoopTest(c) PROVE JoinInv'
  BY <1>6 DEF LoopTest
<1>7. ASSUME NEW c \in Conn, ReadRequest(c) PROVE JoinInv'
  BY <1>7 DEF ReadRequest
<1>8. ASSUME NEW c \in Conn, EnterGate(c) PROVE JoinInv'
  BY <1>8 DEF EnterGate
<1>9. ASSUME NEW c \in Conn, Refuse(c) PROVE JoinInv'
  BY <1>9 DEF Refuse
<1>10. ASSUME NEW c \in Conn, SendBusy(c) PROVE JoinInv'
  BY <1>10 DEF SendBusy
<1>11. ASSUME NEW c \in Conn, HandlerReturns(c) PROVE JoinInv'
  BY <1>11 DEF HandlerReturns
<1>12. ASSUME NEW c \in Conn, unregisterConn(c) PROVE JoinInv'
  <2>1. conns = <<>> => conns' = <<>>
    <3>1. SUFFICES ASSUME conns = <<>> PROVE conns' = <<>>
      OBVIOUS
    <3>2. conns' \in Seq(Conn) /\ Len(conns') = Position(c) - 1
      BY <1>12, PrefixProperties DEF unregisterConn
    <3>3. Position(c) = 1
      BY <3>1, PositionType
    <3>4. QED
      BY <3>2, <3>3
  <2>2. QED
    BY <1>12, <2>1 DEF unregisterConn
<1>13. CASE StopBegin
  BY <1>13 DEF StopBegin
<1>14. CASE StopClose
  BY <1>14 DEF StopClose
<1>15. CASE StopJoin
  BY <1>15 DEF StopJoin
<1>16. CASE StopSnapshot
  BY <1>16 DEF StopSnapshot
<1>17. CASE StopShut
  BY <1>17 DEF StopShut
<1>18. CASE UNCHANGED vars
  BY <1>18 DEF vars, acceptVars, stopVars
<1>19. QED
  BY <1>1, <1>2, <1>3, <1>4, <1>5, <1>6, <1>7, <1>8, <1>9, <1>10, <1>11, <1>12, <1>13, <1>14,
     <1>15, <1>16, <1>17, <1>18 DEF Next, AcceptStep, ConnStep, StopStep

(* Every step keeps each connection registered once.                        *)
LEMMA OnceStep == TypeOK /\ JoinInv /\ OnceInv /\ [Next]_vars => OnceInv'
<1> SUFFICES ASSUME TypeOK, JoinInv, OnceInv, [Next]_vars PROVE OnceInv'
  OBVIOUS
<1> USE DEF TypeOK, JoinInv, OnceInv, ConnPc, Blocking, Goto, acceptVars, stopVars
<1>1. CASE AcceptTest
  BY <1>1 DEF AcceptTest
<1>2. ASSUME NEW c \in Conn, Accept(c) PROVE OnceInv'
  BY <1>2 DEF Accept
<1>3. CASE AcceptFails
  BY <1>3 DEF AcceptFails
<1>4. CASE registerConn
  BY <1>4 DEF registerConn
<1>5. CASE Spawn
  BY <1>5 DEF Spawn
<1>6. ASSUME NEW c \in Conn, LoopTest(c) PROVE OnceInv'
  BY <1>6 DEF LoopTest
<1>7. ASSUME NEW c \in Conn, ReadRequest(c) PROVE OnceInv'
  BY <1>7 DEF ReadRequest
<1>8. ASSUME NEW c \in Conn, EnterGate(c) PROVE OnceInv'
  BY <1>8 DEF EnterGate
<1>9. ASSUME NEW c \in Conn, Refuse(c) PROVE OnceInv'
  BY <1>9 DEF Refuse
<1>10. ASSUME NEW c \in Conn, SendBusy(c) PROVE OnceInv'
  BY <1>10 DEF SendBusy
<1>11. ASSUME NEW c \in Conn, HandlerReturns(c) PROVE OnceInv'
  BY <1>11 DEF HandlerReturns
<1>12. ASSUME NEW c \in Conn, unregisterConn(c) PROVE OnceInv'
  <2>1. Len(conns') = Position(c) - 1 /\ \A i \in 1..Len(conns') : conns'[i] = conns[i]
    <3>1. conns' = SubSeq(conns, 1, Position(c) - 1)
      BY <1>12 DEF unregisterConn
    <3>2. QED
      BY ONLY <3>1, <1>12, TypeOK, PrefixProperties DEF TypeOK
  <2>2. \A i \in 1..Len(conns') : i \in 1..Len(conns)
    <3>1. Position(c) \in 1..(Len(conns) + 1) /\ Len(conns) \in Nat
      BY PositionType
    <3>2. QED
      BY ONLY <2>1, <3>1
  <2>3. \A d \in Conn : pc'[d] = "new" => pc[d] = "new"
    BY <1>12 DEF unregisterConn
  <2>4. UNCHANGED <<acceptPc, arriving>>
    BY <1>12 DEF unregisterConn
  <2>5. \A i \in 1..Len(conns') : conns'[i] \in Conn
    BY ONLY <2>1, <2>2, TypeOK DEF TypeOK
  <2>6. \A i, j \in 1..Len(conns') : conns'[i] = conns'[j] => i = j
    BY ONLY <2>1, <2>2, OnceInv DEF OnceInv
  <2>7. ASSUME NEW i \in 1..Len(conns'), pc'[conns'[i]] = "new"
        PROVE  acceptPc' = "spawn" /\ conns'[i] = arriving'
    BY ONLY <2>1, <2>2, <2>3, <2>4, <2>5, <2>7, OnceInv DEF OnceInv
  <2>8. QED
    BY <2>6, <2>7 DEF OnceInv
<1>13. CASE StopBegin
  BY <1>13 DEF StopBegin
<1>14. CASE StopClose
  BY <1>14 DEF StopClose
<1>15. CASE StopJoin
  BY <1>15 DEF StopJoin
<1>16. CASE StopSnapshot
  BY <1>16 DEF StopSnapshot
<1>17. CASE StopShut
  BY <1>17 DEF StopShut
<1>18. CASE UNCHANGED vars
  BY <1>18 DEF vars
<1>19. QED
  BY <1>1, <1>2, <1>3, <1>4, <1>5, <1>6, <1>7, <1>8, <1>9, <1>10, <1>11, <1>12, <1>13, <1>14,
     <1>15, <1>16, <1>17, <1>18 DEF Next, AcceptStep, ConnStep, StopStep

(* Every step keeps ended connections unregistered.                         *)
LEMMA EndedStep == TypeOK /\ JoinInv /\ OnceInv /\ EndedIsUnregistered /\ [Next]_vars => EndedIsUnregistered'
<1> SUFFICES ASSUME TypeOK, JoinInv, OnceInv, EndedIsUnregistered, [Next]_vars
             PROVE  EndedIsUnregistered'
  OBVIOUS
<1> USE DEF TypeOK, JoinInv, EndedIsUnregistered, ConnPc, Blocking, Goto, acceptVars, stopVars
<1>1. CASE AcceptTest
  BY <1>1 DEF AcceptTest
<1>2. ASSUME NEW c \in Conn, Accept(c) PROVE EndedIsUnregistered'
  BY <1>2 DEF Accept
<1>3. CASE AcceptFails
  BY <1>3 DEF AcceptFails
<1>4. CASE registerConn
  BY <1>4 DEF registerConn
<1>5. CASE Spawn
  BY <1>5 DEF Spawn
<1>6. ASSUME NEW c \in Conn, LoopTest(c) PROVE EndedIsUnregistered'
  BY <1>6 DEF LoopTest
<1>7. ASSUME NEW c \in Conn, ReadRequest(c) PROVE EndedIsUnregistered'
  BY <1>7 DEF ReadRequest
<1>8. ASSUME NEW c \in Conn, EnterGate(c) PROVE EndedIsUnregistered'
  BY <1>8 DEF EnterGate
<1>9. ASSUME NEW c \in Conn, Refuse(c) PROVE EndedIsUnregistered'
  BY <1>9 DEF Refuse
<1>10. ASSUME NEW c \in Conn, SendBusy(c) PROVE EndedIsUnregistered'
  BY <1>10 DEF SendBusy
<1>11. ASSUME NEW c \in Conn, HandlerReturns(c) PROVE EndedIsUnregistered'
  BY <1>11 DEF HandlerReturns
<1>12. ASSUME NEW c \in Conn, unregisterConn(c) PROVE EndedIsUnregistered'
  <2>1. SUFFICES ASSUME NEW d \in Conn, pc'[d] = "gone", NEW i \in 1..Len(conns')
                 PROVE  conns'[i] # d
    BY DEF EndedIsUnregistered
  <2>2. Len(conns') = Position(c) - 1 /\ conns'[i] = conns[i]
    <3>1. conns' = SubSeq(conns, 1, Position(c) - 1)
      BY <1>12 DEF unregisterConn
    <3>2. Len(conns') = Position(c) - 1 /\ \A j \in 1..Len(conns') : conns'[j] = conns[j]
      BY ONLY <3>1, <1>12, TypeOK, PrefixProperties DEF TypeOK
    <3>3. QED
      BY ONLY <2>1, <3>2
  <2>3. i \in 1..Len(conns) /\ i < Position(c) /\ Position(c) \in Nat
    BY <2>1, <2>2, PositionType
  <2>4. CASE d = c
    <3>1. \/ Position(c) \in 1..Len(conns) /\ conns[Position(c)] = c
          \/ \A j \in 1..Len(conns) : conns[j] # c
      BY ONLY <1>12, TypeOK DEF TypeOK, Position
    <3>2. i # Position(c)
      BY <2>3
    <3>3. QED
      BY ONLY <2>2, <2>3, <2>4, <3>1, <3>2, OnceInv DEF OnceInv
  <2>5. CASE d # c
    <3>1. pc[d] = "gone"
      BY <1>12, <2>1, <2>5 DEF unregisterConn
    <3>2. QED
      BY <2>2, <2>3, <3>1
  <2>6. QED
    BY <2>4, <2>5
<1>13. CASE StopBegin
  BY <1>13 DEF StopBegin
<1>14. CASE StopClose
  BY <1>14 DEF StopClose
<1>15. CASE StopJoin
  BY <1>15 DEF StopJoin
<1>16. CASE StopSnapshot
  BY <1>16 DEF StopSnapshot
<1>17. CASE StopShut
  BY <1>17 DEF StopShut
<1>18. CASE UNCHANGED vars
  BY <1>18 DEF vars, acceptVars, stopVars
<1>19. QED
  BY <1>1, <1>2, <1>3, <1>4, <1>5, <1>6, <1>7, <1>8, <1>9, <1>10, <1>11, <1>12, <1>13, <1>14,
     <1>15, <1>16, <1>17, <1>18 DEF Next, AcceptStep, ConnStep, StopStep

-----------------------------------------------------------------------------
(* The invariant holds at the beginning.                                    *)
LEMMA InitInv == Init => IInv
<1> SUFFICES ASSUME Init PROVE IInv
  OBVIOUS
<1>1. Counted = {} /\ Handling = {}
  BY DEF Init, Counted, Handling
<1>2. HandlersBounded
  BY <1>1, FS_EmptySet, ServerAssumption DEF Init, HandlersBounded
<1>3. QED
  BY <1>2, TypeInit DEF Init, IInv, JoinInv, OnceInv, EndedIsUnregistered

(* The inductive invariant.                                                 *)
THEOREM ServerInvariance == Spec => []IInv
<1>1. IInv /\ [Next]_vars => IInv'
  BY TypeStep, BoundStep, JoinStep, OnceStep, EndedStep
  DEF IInv, HandlersBounded, CountInv
<1>2. QED
  BY InitInv, <1>1, PTL DEF Spec

(* Every variable of the server keeps its type; the counter of requests     *)
(* never goes below zero.                                                   *)
THEOREM ServerTypeCorrect == Spec => []TypeOK
<1>1. IInv => TypeOK
  BY DEF IInv
<1>2. QED
  BY ServerInvariance, <1>1, PTL

(* The request gate (ActiveSlot) never admits more than kMaxConcurrent      *)
(* handlers and never loses a slot.                                         *)
THEOREM GateHolds == Spec => []HandlersBounded
<1>1. IInv => HandlersBounded
  BY DEF IInv
<1>2. QED
  BY ServerInvariance, <1>1, PTL

(* Once stop has taken the register no connection is accepted or registered. *)
THEOREM StopIsFinal == Spec => []NoConnectionAfterStop
<1>1. IInv => NoConnectionAfterStop
  BY DEF IInv, JoinInv, NoConnectionAfterStop
<1>2. QED
  BY ServerInvariance, <1>1, PTL

(* A connection whose thread has ended is off the register.                 *)
THEOREM EndedLeaves == Spec => []EndedIsUnregistered
<1>1. IInv => EndedIsUnregistered
  BY DEF IInv
<1>2. QED
  BY ServerInvariance, <1>1, PTL

-----------------------------------------------------------------------------
(***************************************************************************)
(* What WebLogin keeps, for any number of attempts and callbacks: its types, *)
(* and that an attempt saves one account at most and none once it is stopped. *)
(* It shares no variable with HttpServer: LoginInv is its own invariant.     *)
(***************************************************************************)
(* A login is pending only between the moment the window says so and the    *)
(* moment the timer has a reason to end, with no stop in between.           *)
PendingInv ==
  /\ pending => \/ win \in {"browser", "timer"} /\ timer = "none"
                \/ win = "idle" /\ timer = "watch"
  /\ win \in {"close", "create", "open", "browser", "timer", "over"} => timer = "none"
  /\ win = "idle" /\ timer = "watch" => ~stopping
  /\ timer # "none" \/ win \in {"open", "browser", "timer"} => attempt > 0

(* A callback belongs to an attempt, and to the newest only if its page was *)
(* opened; those with a mutex are alone with it.                            *)
Holding == AtWork \cup {"answered"}
CallbackInv ==
  /\ \A c \in Callback : cb[c] # "none" => of[c] \in Attempt /\ of[c] <= attempt
  /\ win \in {"open", "browser"} =>
       \A c \in Callback : cb[c] # "none" => of[c] < attempt
  /\ \A c, d \in Callback :
       cb[c] \in Holding /\ cb[d] \in Holding /\ of[c] = of[d] => c = d

(* Whoever is at work is so for an attempt that has saved nothing.          *)
SaveInv ==
  /\ \A a \in Attempt : saves[a] <= 1
  /\ \A a \in Attempt : a \notin completed => saves[a] = 0
  /\ \A c \in Callback : cb[c] \in AtWork => of[c] \notin completed

(* Nobody is at work for the newest attempt before its timer is started or  *)
(* after it has ended.                                                      *)
RestInv ==
  timer = "ended" \/ (timer = "none" /\ win # "timer") =>
    \A c \in Callback : cb[c] \in AtWork => of[c] < attempt

LoginInv == LoginTypeOK /\ PendingInv /\ CallbackInv /\ SaveInv /\ RestInv

WindowOrTimer == WindowStep \/ Start \/ Exit \/ TimerStep \/ TimePasses

-----------------------------------------------------------------------------
LEMMA LoginInitInv == LoginInit => LoginInv
<1> SUFFICES ASSUME LoginInit PROVE LoginInv
  OBVIOUS
<1>1. LoginTypeOK
  <2>1. cb \in [Callback -> AtWork \cup {"none", "reads", "waiting", "answered"}]
    BY DEF LoginInit
  <2>2. 0 \in 0 .. MaxAttempt /\ 0 \in Nat
    BY LoginAssumption
  <2>3. of \in [Callback -> 0 .. MaxAttempt]
    BY <2>2 DEF LoginInit
  <2>4. saves \in [Attempt -> Nat]
    BY <2>2 DEF LoginInit
  <2> QED  BY <2>1, <2>2, <2>3, <2>4 DEF LoginInit, LoginTypeOK
<1>2. PendingInv
  BY DEF LoginInit, PendingInv
<1>3. CallbackInv
  BY DEF LoginInit, CallbackInv, Holding, AtWork
<1>4. SaveInv
  BY DEF LoginInit, SaveInv, AtWork
<1>5. RestInv
  BY DEF LoginInit, RestInv, AtWork
<1> QED
  BY <1>1, <1>2, <1>3, <1>4, <1>5 DEF LoginInv

-----------------------------------------------------------------------------
(* The window, the timer and the clock leave the callbacks alone.           *)
LEMMA OthersStep ==
  ASSUME LoginInv, WindowOrTimer
  PROVE  LoginInv'
<1> USE DEF windowVars, timerVars, callbackVars
<1>1. UNCHANGED callbackVars
  BY DEF WindowOrTimer, WindowStep, Join, CloseServer, Create, Pend, OpenBrowser, StartTimer,
         Start, Exit, TimerStep, TimerWakes, TimerCloses, TimePasses, stop
<1>2. LoginTypeOK'
  <2>1. CASE TimePasses
    <3>1. PICK a \in 1 .. attempt : overdue' = overdue \cup 1 .. a
      BY <2>1 DEF TimePasses
    <3>2. 1 .. a \subseteq Attempt
      BY <3>1, LoginAssumption DEF LoginInv, LoginTypeOK, Attempt
    <3> QED  BY <1>1, <2>1, <3>1, <3>2 DEF TimePasses, LoginInv, LoginTypeOK
  <2>2. CASE WindowStep
    <3>1. attempt' \in 0 .. MaxAttempt
      BY <2>2, LoginAssumption DEF WindowStep, Join, CloseServer, Create, Pend, OpenBrowser, StartTimer,
         stop, LoginInv, LoginTypeOK
    <3> QED  BY <1>1, <2>2, <3>1 DEF WindowStep, Join, CloseServer, Create, Pend, OpenBrowser,
                StartTimer, stop, LoginInv, LoginTypeOK
  <2>3. CASE Start \/ Exit \/ TimerStep
    BY <1>1, <2>3 DEF Start, Exit, TimerStep, TimerWakes, TimerCloses, stop, LoginInv, LoginTypeOK
  <2> QED  BY <2>1, <2>2, <2>3 DEF WindowOrTimer
<1>3. PendingInv'
  BY DEF WindowOrTimer, WindowStep, Join, CloseServer, Create, Pend, OpenBrowser, StartTimer,
         Start, Exit, TimerStep, TimerWakes, TimerCloses, TimePasses, stop,
         LoginInv, LoginTypeOK, PendingInv
<1>4. attempt \in Nat /\ attempt' \in Nat /\ attempt <= attempt'
  BY DEF WindowOrTimer, WindowStep, Join, CloseServer, Create, Pend, OpenBrowser, StartTimer,
         Start, Exit, TimerStep, TimerWakes, TimerCloses, TimePasses, stop, LoginInv, LoginTypeOK
<1>5. CallbackInv'
  <2>1. \A c \in Callback : cb[c] # "none" => of[c] \in Attempt /\ of[c] <= attempt
    BY DEF LoginInv, CallbackInv
  <2>2. \A c \in Callback : of[c] \in Nat
    BY DEF LoginInv, LoginTypeOK
  <2>3. \A c \in Callback : cb[c] # "none" => of[c] <= attempt'
    BY <1>4, <2>1, <2>2
  <2>4. ASSUME win' \in {"open", "browser"}
        PROVE  \A c \in Callback : cb[c] # "none" => of[c] < attempt'
    <3>1. CASE Create
      BY <2>1, <2>2, <2>4, <3>1, <1>4 DEF Create
    <3>2. CASE ~Create
      <4>1. win \in {"open", "browser"} /\ attempt' = attempt
        BY <2>4, <3>2 DEF WindowOrTimer, WindowStep, Join, CloseServer, Pend, OpenBrowser,
           StartTimer, Start, Exit, TimerStep, TimerWakes, TimerCloses, TimePasses, stop,
           LoginInv, LoginTypeOK
      <4> QED  BY <4>1 DEF LoginInv, CallbackInv
    <3> QED  BY <3>1, <3>2
  <2> QED  BY <1>1, <2>1, <2>3, <2>4 DEF LoginInv, CallbackInv
<1>6. SaveInv'
  BY <1>1 DEF LoginInv, SaveInv
<1>7. RestInv'
  <2>1. \A c \in Callback : of[c] \in Nat /\ (cb[c] \in AtWork => of[c] <= attempt)
    BY DEF LoginInv, LoginTypeOK, CallbackInv, AtWork
  <2> SUFFICES ASSUME timer' = "ended" \/ (timer' = "none" /\ win' # "timer"),
                      NEW c \in Callback, cb[c] \in AtWork
               PROVE  of[c] < attempt'
    BY <1>1 DEF RestInv
  <2>2. CASE Create /\ attempt' = attempt + 1
    BY <1>4, <2>1, <2>2
  <2>3. CASE TimerCloses
    <3>1. of[c] # attempt
      BY <2>3 DEF TimerCloses, Locked
    <3> QED  BY <1>4, <2>1, <2>3, <3>1 DEF TimerCloses
  <2>4. CASE ~(Create /\ attempt' = attempt + 1) /\ ~TimerCloses
    <3>1. attempt' = attempt /\ (timer = "ended" \/ (timer = "none" /\ win # "timer"))
      BY <2>4 DEF WindowOrTimer, WindowStep, Join, CloseServer, Create, Pend, OpenBrowser,
         StartTimer, Start, Exit, TimerStep, TimerWakes, TimePasses, stop, LoginInv, PendingInv
    <3> QED  BY <3>1 DEF LoginInv, RestInv
  <2> QED  BY <2>2, <2>3, <2>4
<1> QED
  BY <1>2, <1>3, <1>5, <1>6, <1>7 DEF LoginInv

-----------------------------------------------------------------------------
(* A callback leaves the window and the timer alone.                        *)
LEMMA CallbackKeeps ==
  ASSUME LoginInv, NEW b \in Callback, Connect(b) \/ CallbackStep(b)
  PROVE  LoginInv'
<1> USE DEF windowVars, timerVars, callbackVars
<1>1. UNCHANGED <<windowVars, timerVars>> /\ (pending' => pending)
  BY DEF CallbackStep, ReadStep, Connect, Arrive, Enter, Exchange, Save, Answered
<1>2. /\ cb \in [Callback -> AtWork \cup {"none", "reads", "waiting", "answered"}]
      /\ of \in [Callback -> 0 .. MaxAttempt] /\ attempt \in 0 .. MaxAttempt
      /\ saves \in [Attempt -> Nat]
  BY DEF LoginInv, LoginTypeOK
<1>3. \A c \in Callback \ {b} : cb'[c] = cb[c] /\ of'[c] = of[c]
  BY <1>2 DEF CallbackStep, ReadStep, Connect, Arrive, Enter, Exchange, Save, Answered
<1>4. cb[b] # "none" => of[b] \in Attempt /\ of[b] <= attempt
  BY DEF LoginInv, CallbackInv
<1>5. LoginTypeOK'
  <2>1. CASE Connect(b)
    BY <1>1, <1>2, <2>1 DEF Connect, LoginInv, LoginTypeOK
  <2>2. CASE Arrive(b)
    BY <1>1, <1>2, <2>2 DEF Arrive, LoginInv, LoginTypeOK
  <2>3. CASE Enter(b)
    BY <1>1, <1>2, <2>3 DEF Enter, LoginInv, LoginTypeOK, AtWork
  <2>4. CASE Exchange(b)
    BY <1>1, <1>2, <2>4 DEF Exchange, LoginInv, LoginTypeOK, AtWork
  <2>5. CASE Save(b)
    BY <1>1, <1>2, <1>4, <2>5 DEF Save, LoginInv, LoginTypeOK, AtWork
  <2>6. CASE Answered(b)
    BY <1>1, <1>2, <2>6 DEF Answered, LoginInv, LoginTypeOK
  <2> QED  BY <2>1, <2>2, <2>3, <2>4, <2>5, <2>6 DEF CallbackStep, ReadStep
<1>6. PendingInv'
  BY <1>1 DEF LoginInv, PendingInv
<1>7. CASE Connect(b)
  <2>1. cb'[b] = "reads" /\ of'[b] = attempt /\ UNCHANGED <<saves, completed>>
    BY <1>2, <1>7 DEF Connect
  <2>2. attempt \in Attempt /\ win \notin {"open", "browser"}
    BY <1>2, <1>7 DEF Connect, LoginInv, PendingInv, Attempt
  <2>3. attempt <= attempt
    BY <1>2
  <2>4. CallbackInv'
    BY <1>1, <1>3, <2>1, <2>2, <2>3 DEF LoginInv, CallbackInv, Holding, AtWork
  <2>5. SaveInv'
    BY <1>3, <2>1 DEF LoginInv, SaveInv, AtWork
  <2>6. RestInv'
    BY <1>1, <1>3, <2>1 DEF LoginInv, RestInv, AtWork
  <2> QED  BY <1>5, <1>6, <2>4, <2>5, <2>6 DEF LoginInv
<1>8. CASE Enter(b) /\ cb'[b] = "exchange"
  <2>1. /\ ~Locked(of[b]) /\ pending /\ of[b] \notin completed
        /\ of' = of /\ cb[b] = "waiting" /\ UNCHANGED <<saves, completed>>
    BY <1>2, <1>8 DEF Enter, Expired
  <2>2. \A c \in Callback : cb[c] \in Holding => of[c] # of[b]
    BY <2>1 DEF Locked, Holding
  <2>3. CallbackInv'
    <3>1. ASSUME NEW c \in Callback, NEW d \in Callback,
                 cb'[c] \in Holding, cb'[d] \in Holding, of'[c] = of'[d]
          PROVE  c = d
      BY <1>3, <2>1, <2>2, <3>1 DEF LoginInv, CallbackInv
    <3> QED  BY <1>1, <1>3, <2>1, <3>1 DEF LoginInv, CallbackInv
  <2>4. SaveInv'
    BY <1>3, <1>8, <2>1 DEF LoginInv, SaveInv
  <2>5. RestInv'
    <3>1. timer = "ended" \/ (timer = "none" /\ win # "timer") => win = "browser"
      BY <2>1 DEF LoginInv, PendingInv
    <3>2. win = "browser" => of[b] < attempt
      BY <2>1 DEF LoginInv, CallbackInv
    <3> QED  BY <1>1, <1>3, <2>1, <3>1, <3>2 DEF LoginInv, RestInv
  <2> QED  BY <1>5, <1>6, <2>3, <2>4, <2>5 DEF LoginInv
\* All others end the work of b or leave it where it was.
<1>9. CASE ~Connect(b) /\ ~(Enter(b) /\ cb'[b] = "exchange")
  <2>1. /\ of' = of /\ cb[b] # "none"
        /\ cb'[b] \in Holding => cb[b] \in Holding
        /\ cb'[b] \in AtWork => cb[b] \in AtWork
    BY <1>2, <1>9 DEF CallbackStep, ReadStep, Arrive, Enter, Exchange, Save, Answered, AtWork, Holding
  <2>2. CallbackInv'
    <3>1. \A c \in Callback : (cb'[c] # "none" => cb[c] # "none")
                           /\ (cb'[c] \in Holding => cb[c] \in Holding)
      BY <1>3, <2>1
    <3> QED  BY <1>1, <2>1, <3>1 DEF LoginInv, CallbackInv
  <2>3. SaveInv'
    <3>1. CASE /\ Save(b) /\ completed' = completed \cup {of[b]}
               /\ saves' = [saves EXCEPT ![of[b]] = @ + 1]
      <4>1. cb[b] = "save" /\ cb'[b] = "answered"
        BY <1>2, <3>1 DEF Save
      <4>2. of[b] \in Attempt /\ of[b] \notin completed /\ saves[of[b]] = 0
        BY <1>4, <4>1 DEF LoginInv, SaveInv, AtWork
      <4>3. \A a \in Attempt : saves'[a] = IF a = of[b] THEN 1 ELSE saves[a]
        BY <1>2, <3>1, <4>2
      <4>4. ASSUME NEW c \in Callback, cb'[c] \in AtWork PROVE of'[c] \notin completed'
        <5>1. c # b
          BY <4>1, <4>4 DEF AtWork
        <5>2. cb[c] \in AtWork /\ of'[c] = of[c]
          BY <1>3, <4>4, <5>1
        <5>3. of[c] # of[b]
          BY <4>1, <5>1, <5>2 DEF LoginInv, CallbackInv, Holding, AtWork
        <5> QED  BY <3>1, <5>2, <5>3 DEF LoginInv, SaveInv
      <4> QED  BY <3>1, <4>3, <4>4 DEF LoginInv, SaveInv
    <3>2. CASE UNCHANGED <<saves, completed>>
      BY <1>3, <2>1, <3>2 DEF LoginInv, SaveInv
    <3> QED  BY <1>9, <3>1, <3>2 DEF CallbackStep, ReadStep, Arrive, Enter, Exchange, Save, Answered
  <2>4. RestInv'
    BY <1>1, <1>3, <2>1 DEF LoginInv, RestInv
  <2> QED  BY <1>5, <1>6, <2>2, <2>3, <2>4 DEF LoginInv
<1> QED
  BY <1>7, <1>8, <1>9

-----------------------------------------------------------------------------
LEMMA LoginStepInv == LoginInv /\ [LoginNext]_loginVars => LoginInv'
<1> SUFFICES ASSUME LoginInv, [LoginNext]_loginVars PROVE LoginInv'
  OBVIOUS
<1>1. CASE UNCHANGED loginVars
  BY <1>1 DEF loginVars, windowVars, timerVars, callbackVars, LoginInv, LoginTypeOK, PendingInv, CallbackInv,
     SaveInv, RestInv
<1>2. CASE WindowOrTimer
  BY <1>2, OthersStep
<1>3. ASSUME NEW b \in Callback, Connect(b) \/ CallbackStep(b) PROVE LoginInv'
  BY <1>3, CallbackKeeps
<1> QED
  BY <1>1, <1>2, <1>3 DEF LoginNext, WindowOrTimer

(* The inductive invariant of the login.                                    *)
THEOREM LoginInvariance == LoginSpec => []LoginInv
<1>1. LoginInit => LoginInv
  BY LoginInitInv
<1>2. LoginInv /\ [LoginNext]_loginVars => LoginInv'
  BY LoginStepInv
<1> QED
  BY <1>1, <1>2, PTL DEF LoginSpec

(* The login's state is well typed, with any number of callbacks.           *)
THEOREM LoginTypeCorrect == LoginSpec => []LoginTypeOK
<1>1. LoginInv => LoginTypeOK
  BY DEF LoginInv
<1> QED
  BY <1>1, LoginInvariance, PTL

(* An attempt saves one account at most, whatever the browser sends and     *)
(* when, and no callback of the newest attempt is at work once stop has     *)
(* joined the timer (LoginOnce).                                            *)
THEOREM SavedOnce == LoginSpec => []LoginOnce
<1>1. LoginInv => LoginOnce
  <2> SUFFICES ASSUME LoginInv PROVE LoginOnce
    OBVIOUS
  <2>1. win \in {"close", "create", "over"} => timer = "none" /\ win # "timer"
    BY DEF LoginInv, PendingInv
  <2> QED  BY <2>1 DEF LoginInv, SaveInv, RestInv, LoginOnce
<1> QED
  BY <1>1, LoginInvariance, PTL
=============================================================================
