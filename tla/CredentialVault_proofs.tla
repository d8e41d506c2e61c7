------------------------ MODULE CredentialVault_proofs ------------------------
(***************************************************************************)
(* Proofs about CredentialVault, for any set of rows and objects and any   *)
(* number of logins and rotations.                                         *)
(***************************************************************************)
EXTENDS CredentialVault, TLAPS

Locked == {"retry", "exchange", "persist"}

(* TypeOK in parts: what each variable holds,                               *)
FileTypes ==
  /\ rows \in [Id -> Nat] /\ enabled \in Id \cup {None}
  /\ source \in Source /\ gone \subseteq Id
  /\ vaultLogin \in [Id -> Nat] /\ vaultTurn \in [Id -> Nat]
  /\ promised \in [Id -> Nat]
UpstreamTypes ==
  /\ logins \in Nat /\ latest \in [1..MaxLogin -> Nat]
  /\ lost \subseteq Nat
ObjectTypes ==
  /\ pool \in Object \cup {None} /\ retired \subseteq Object /\ dirty \subseteq Object
  /\ idOf \in [Object -> Id \cup {None}] /\ genOf \in [Object -> Nat]
  /\ loginOf \in [Object -> Nat] /\ turnOf \in [Object -> Nat]
ThreadTypes ==
  /\ rmtx \in [Object -> Thread \cup {Operator, None}]
  /\ refreshing \in BOOLEAN
  /\ pc \in [Thread -> {"idle", "ensure", "retry", "exchange", "persist"}]
  /\ acct \in [Thread -> Object \cup {None}]
OpTypes ==
  /\ opPc \in {"idle", "write", "commit", "delete"}
  /\ opKind \in {"add", "switch", "remove"} /\ opId \in Id \cup {None}
  /\ opNew \in Object \cup {None} /\ opSource \in Source
Types == FileTypes /\ UpstreamTypes /\ ObjectTypes /\ ThreadTypes /\ OpTypes

(* and who holds the lock of an object.                                     *)
LockInv ==
  /\ \A t \in Thread : pc[t] = "idle" <=> acct[t] = None
  /\ \A t \in Thread, o \in Object :
       rmtx[o] = t <=> pc[t] \in Locked /\ acct[t] = o

(* An object's token is of its own login or of a later one, and the object  *)
(* of a thread, of the pool or of an operation is the object of a row.      *)
ObjectInv ==
  /\ \A o \in Object : genOf[o] <= loginOf[o] /\ loginOf[o] <= logins
  /\ \A o \in Referenced \ {None} : idOf[o] \in Id

(* The vault is written before the row.                                     *)
FileInv ==
  /\ \A i \in Id : rows[i] <= vaultLogin[i] /\ vaultLogin[i] <= logins
  /\ \A i \in gone : rows[i] = 0

(* The enabled row exists in the selected source, and the enabled object is *)
(* its object.                                                              *)
EnabledInv ==
  /\ enabled # None => rows[enabled] # 0 /\ SourceOf[enabled] = source
  /\ pool # None => enabled # None /\ idOf[pool] = enabled /\ genOf[pool] = rows[enabled]

(* What an operation in progress has done so far.                           *)
AddInv ==
  opPc # "idle" /\ opKind = "add" =>
    /\ opPc # "delete"
    /\ opId \in Id \ gone /\ opNew \in Object /\ logins > 0
    /\ idOf[opNew] = opId /\ genOf[opNew] = logins /\ loginOf[opNew] = logins
    /\ opPc = "commit" => vaultLogin[opId] = logins
SwitchInv ==
  opPc # "idle" /\ opKind = "switch" =>
    /\ opPc = "commit"
    /\ opId = None => opNew = None
    /\ opId # None =>
         /\ opNew \in Object /\ idOf[opNew] = opId /\ genOf[opNew] = rows[opId]
         /\ rows[opId] # 0 /\ SourceOf[opId] = opSource
RemoveInv ==
  opPc # "idle" /\ opKind = "remove" =>
    /\ opPc # "write"
    /\ opId \in Id /\ (opPc = "delete" => rows[opId] = 0)

VaultInv == ObjectInv /\ FileInv /\ EnabledInv /\ AddInv /\ SwitchInv /\ RemoveInv

IInv == Types /\ LockInv /\ VaultInv

-----------------------------------------------------------------------------
(* The type invariant, in the parts the proof uses.                         *)
LEMMA TypeParts == TypeOK <=> Types /\ LockInv
BY DEF TypeOK, Types, FileTypes, UpstreamTypes, ObjectTypes, ThreadTypes, OpTypes,
   LockInv, Locked

(* The invariant holds at the beginning.                                    *)
LEMMA VaultInit == Init => IInv
<1> SUFFICES ASSUME Init PROVE IInv
  OBVIOUS
<1> USE VaultAssumption DEF VaultAssumption, Init
<1>1. Types
  BY DEF Types, FileTypes, UpstreamTypes, ObjectTypes, ThreadTypes, OpTypes, Source
<1>2. LockInv
  BY DEF LockInv, Locked
<1>3. ObjectInv /\ FileInv
  BY DEF ObjectInv, FileInv, Referenced
<1>4. EnabledInv /\ AddInv /\ SwitchInv /\ RemoveInv
  BY DEF EnabledInv, AddInv, SwitchInv, RemoveInv
<1>5. QED
  BY <1>1, <1>2, <1>3, <1>4 DEF IInv, VaultInv

(* Each action keeps the types.                                             *)
LEMMA TypesStep ==
  ASSUME IInv, Next
  PROVE  Types'
<1> USE VaultAssumption DEF VaultAssumption, IInv, Types, VaultInv, vars, registryVars, fileVars, upstreamVars, poolVars, objectVars, threadVars, opVars
<1>1. ASSUME NEW i \in Id, NEW o \in Object, StartAdd(i, o) PROVE Types'
  <2>1. FileTypes'
    BY <1>1 DEF StartAdd, TryTokenLock, TokenLock, Fresh, GuardFree, FileTypes, Source
  <2>2. UpstreamTypes'
    BY <1>1 DEF StartAdd, TryTokenLock, TokenLock, Fresh, GuardFree, UpstreamTypes
  <2>3. ObjectTypes'
    BY <1>1
    DEF StartAdd, TryTokenLock, TokenLock, Fresh, GuardFree, ObjectTypes, UpstreamTypes
  <2>4. ThreadTypes'
    BY <1>1 DEF StartAdd, TryTokenLock, TokenLock, Fresh, GuardFree, ThreadTypes
  <2>5. OpTypes'
    BY <1>1
    DEF StartAdd, TryTokenLock, TokenLock, Fresh, GuardFree, OpTypes, FileTypes, Source
  <2>6. QED
    BY <2>1, <2>2, <2>3, <2>4, <2>5
<1>2. ASSUME NEW i \in Id, NEW o \in Object, StartEnable(i, o) PROVE Types'
  <2>1. FileTypes'
    BY <1>2
    DEF StartEnable, StartSwitch, Load, TryTokenLock, TokenLock, Fresh, GuardFree,
       FileTypes, Source
  <2>2. UpstreamTypes'
    BY <1>2
    DEF StartEnable, StartSwitch, Load, TryTokenLock, TokenLock, Fresh, GuardFree,
       UpstreamTypes
  <2>3. ObjectTypes'
    BY <1>2
    DEF StartEnable, StartSwitch, Load, TryTokenLock, TokenLock, Fresh, GuardFree,
       ObjectTypes, FileTypes
  <2>4. ThreadTypes'
    BY <1>2
    DEF StartEnable, StartSwitch, Load, TryTokenLock, TokenLock, Fresh, GuardFree,
       ThreadTypes
  <2>5. OpTypes'
    BY <1>2
    DEF StartEnable, StartSwitch, Load, TryTokenLock, TokenLock, Fresh, GuardFree,
       OpTypes, FileTypes, Source
  <2>6. QED
    BY <2>1, <2>2, <2>3, <2>4, <2>5
<1>3. ASSUME NEW s \in Source, StartSetSource(s) PROVE Types'
  <2>1. FileTypes'
    BY <1>3
    DEF StartSetSource, StartSwitch, TryTokenLock, TokenLock, GuardFree, FileTypes,
       Source
  <2>2. UpstreamTypes'
    BY <1>3
    DEF StartSetSource, StartSwitch, TryTokenLock, TokenLock, GuardFree, UpstreamTypes
  <2>3. ObjectTypes'
    BY <1>3
    DEF StartSetSource, StartSwitch, TryTokenLock, TokenLock, GuardFree, ObjectTypes
  <2>4. ThreadTypes'
    BY <1>3
    DEF StartSetSource, StartSwitch, TryTokenLock, TokenLock, GuardFree, ThreadTypes
  <2>5. OpTypes'
    BY <1>3
    DEF StartSetSource, StartSwitch, TryTokenLock, TokenLock, GuardFree, OpTypes, Source
  <2>6. QED
    BY <2>1, <2>2, <2>3, <2>4, <2>5
<1>4. ASSUME NEW i \in Id, StartRemove(i) PROVE Types'
  <2>1. FileTypes'
    BY <1>4
    DEF StartRemove, StartSwitch, TryTokenLock, TokenLock, GuardFree, FileTypes, Source
  <2>2. UpstreamTypes'
    BY <1>4
    DEF StartRemove, StartSwitch, TryTokenLock, TokenLock, GuardFree, UpstreamTypes
  <2>3. ObjectTypes'
    BY <1>4 DEF StartRemove, StartSwitch, TryTokenLock, TokenLock, GuardFree, ObjectTypes
  <2>4. ThreadTypes'
    BY <1>4 DEF StartRemove, StartSwitch, TryTokenLock, TokenLock, GuardFree, ThreadTypes
  <2>5. OpTypes'
    BY <1>4
    DEF StartRemove, StartSwitch, TryTokenLock, TokenLock, GuardFree, OpTypes,
       FileTypes, Source
  <2>6. QED
    BY <2>1, <2>2, <2>3, <2>4, <2>5
<1>5. ASSUME AddWrite PROVE Types'
  <2>1. FileTypes'
    <3>1. loginOf[opNew] \in Nat /\ turnOf[opNew] \in Nat
      BY <1>5 DEF AddWrite, ObjectTypes, OpTypes, AddInv, RemoveInv, SwitchInv
    <3>2. QED
      BY <1>5, <3>1 DEF AddWrite, OpEnd, FileTypes, Source
  <2>2. UpstreamTypes'
    BY <1>5 DEF AddWrite, OpEnd, UpstreamTypes
  <2>3. ObjectTypes'
    BY <1>5 DEF AddWrite, OpEnd, ObjectTypes
  <2>4. ThreadTypes'
    BY <1>5 DEF AddWrite, OpEnd, ThreadTypes
  <2>5. OpTypes'
    BY <1>5 DEF AddWrite, OpEnd, OpTypes, Source
  <2>6. QED
    BY <2>1, <2>2, <2>3, <2>4, <2>5
<1>6. ASSUME AddCommit PROVE Types'
  <2>1. FileTypes'
    BY <1>6 DEF AddCommit, OpEnd, Replace, FileTypes, ObjectTypes, OpTypes, AddInv, Source
  <2>2. UpstreamTypes'
    BY <1>6 DEF AddCommit, OpEnd, Replace, UpstreamTypes
  <2>3. ObjectTypes'
    BY <1>6 DEF AddCommit, OpEnd, Replace, ObjectTypes, OpTypes
  <2>4. ThreadTypes'
    BY <1>6 DEF AddCommit, OpEnd, Replace, ThreadTypes
  <2>5. OpTypes'
    BY <1>6 DEF AddCommit, OpEnd, Replace, OpTypes, Source
  <2>6. QED
    BY <2>1, <2>2, <2>3, <2>4, <2>5
<1>7. ASSUME SwitchCommit PROVE Types'
  <2>1. FileTypes'
    BY <1>7 DEF SwitchCommit, OpEnd, Replace, FileTypes, OpTypes, Source
  <2>2. UpstreamTypes'
    BY <1>7 DEF SwitchCommit, OpEnd, Replace, UpstreamTypes
  <2>3. ObjectTypes'
    BY <1>7 DEF SwitchCommit, OpEnd, Replace, ObjectTypes, OpTypes
  <2>4. ThreadTypes'
    BY <1>7 DEF SwitchCommit, OpEnd, Replace, ThreadTypes
  <2>5. OpTypes'
    BY <1>7 DEF SwitchCommit, OpEnd, Replace, OpTypes, Source
  <2>6. QED
    BY <2>1, <2>2, <2>3, <2>4, <2>5
<1>8. ASSUME RemoveCommit PROVE Types'
  <2>1. FileTypes'
    BY <1>8 DEF RemoveCommit, OpEnd, Replace, FileTypes, OpTypes, RemoveInv, Source
  <2>2. UpstreamTypes'
    BY <1>8 DEF RemoveCommit, OpEnd, Replace, UpstreamTypes
  <2>3. ObjectTypes'
    BY <1>8 DEF RemoveCommit, OpEnd, Replace, ObjectTypes
  <2>4. ThreadTypes'
    BY <1>8 DEF RemoveCommit, OpEnd, Replace, ThreadTypes
  <2>5. OpTypes'
    BY <1>8 DEF RemoveCommit, OpEnd, Replace, OpTypes, Source
  <2>6. QED
    BY <2>1, <2>2, <2>3, <2>4, <2>5
<1>9. ASSUME RemoveFile PROVE Types'
  <2>1. FileTypes'
    BY <1>9 DEF RemoveFile, OpEnd, FileTypes, OpTypes, Source
  <2>2. UpstreamTypes'
    BY <1>9 DEF RemoveFile, OpEnd, UpstreamTypes
  <2>3. ObjectTypes'
    BY <1>9 DEF RemoveFile, OpEnd, ObjectTypes
  <2>4. ThreadTypes'
    BY <1>9 DEF RemoveFile, OpEnd, ThreadTypes
  <2>5. OpTypes'
    BY <1>9 DEF RemoveFile, OpEnd, OpTypes, Source
  <2>6. QED
    BY <2>1, <2>2, <2>3, <2>4, <2>5
<1>10. ASSUME NEW t \in Thread, Take(t) PROVE Types'
  <2>1. FileTypes'
    BY <1>10 DEF Take, Goto, FileTypes, Source
  <2>2. UpstreamTypes'
    BY <1>10 DEF Take, Goto, UpstreamTypes
  <2>3. ObjectTypes'
    BY <1>10 DEF Take, Goto, ObjectTypes
  <2>4. ThreadTypes'
    BY <1>10 DEF Take, Goto, ThreadTypes, ObjectTypes
  <2>5. OpTypes'
    BY <1>10 DEF Take, Goto, OpTypes, Source
  <2>6. QED
    BY <2>1, <2>2, <2>3, <2>4, <2>5
<1>11. ASSUME NEW t \in Thread, Enter(t) PROVE Types'
  <2>1. FileTypes'
    BY <1>11 DEF Enter, Goto, FileTypes, Source
  <2>2. UpstreamTypes'
    BY <1>11 DEF Enter, Goto, UpstreamTypes
  <2>3. ObjectTypes'
    BY <1>11 DEF Enter, Goto, ObjectTypes
  <2>4. ThreadTypes'
    BY <1>11 DEF Enter, Goto, ThreadTypes
  <2>5. OpTypes'
    BY <1>11 DEF Enter, Goto, OpTypes, Source
  <2>6. QED
    BY <2>1, <2>2, <2>3, <2>4, <2>5
<1>12. ASSUME NEW t \in Thread, Exchange(t) PROVE Types'
  <2>1. FileTypes'
    BY <1>12 DEF Exchange, Goto, Leave, Valid, FileTypes, Source
  <2>2. UpstreamTypes'
    <3>0. lost' \subseteq Nat
      <4>1. loginOf[acct[t]] \in Nat
        BY <1>12 DEF Exchange, ThreadTypes, LockInv, ObjectTypes
      <4> QED  BY <1>12, <4>1 DEF Exchange, UpstreamTypes
    <3>1. CASE latest' = latest
      BY <1>12, <3>0, <3>1 DEF Exchange, UpstreamTypes
    <3>2. CASE latest' = [latest EXCEPT ![loginOf[acct[t]]] = @ + 1]
      <4>1. latest' = [g \in 1..MaxLogin |->
                        IF g = loginOf[acct[t]] THEN latest[g] + 1 ELSE latest[g]]
        BY <3>2 DEF UpstreamTypes
      <4>2. latest' \in [1..MaxLogin -> Nat]
        BY <4>1 DEF UpstreamTypes
      <4>3. QED
        BY <1>12, <3>0, <4>2 DEF Exchange, UpstreamTypes
    <3>3. QED
      BY <1>12, <3>1, <3>2 DEF Exchange
  <2>3. ObjectTypes'
    <3>0. acct[t] \in Object
      BY <1>12 DEF Exchange, LockInv, ThreadTypes
    <3>1. turnOf' \in [Object -> Nat] /\ dirty' \subseteq Object
      BY <1>12, <3>0 DEF Exchange, ObjectTypes
    <3>2. QED
      BY <1>12, <3>1 DEF Exchange, ObjectTypes
  <2>4. ThreadTypes'
    BY <1>12 DEF Exchange, Goto, Leave, Valid, ThreadTypes
  <2>5. OpTypes'
    BY <1>12 DEF Exchange, Goto, Leave, Valid, OpTypes, Source
  <2>6. QED
    BY <2>1, <2>2, <2>3, <2>4, <2>5
<1>13. ASSUME NEW t \in Thread, persist(t) PROVE Types'
  <2>1. FileTypes'
    BY <1>13
    DEF persist, PersistDone, Persistable, Goto, Leave, GuardFree, FileTypes,
       ThreadTypes, LockInv, ObjectTypes, Source
  <2>2. UpstreamTypes'
    <3>1. loginOf[acct[t]] \in Nat
      BY <1>13 DEF persist, ThreadTypes, LockInv, ObjectTypes
    <3>2. lost' \subseteq lost \cup {loginOf[acct[t]]}
      BY <1>13 DEF persist
    <3>3. QED
      BY <1>13, <3>1, <3>2 DEF persist, UpstreamTypes
  <2>3. ObjectTypes'
    BY <1>13 DEF persist, PersistDone, Persistable, Goto, Leave, GuardFree, ObjectTypes
  <2>4. ThreadTypes'
    BY <1>13 DEF persist, PersistDone, Persistable, Goto, Leave, GuardFree, ThreadTypes
  <2>5. OpTypes'
    BY <1>13
    DEF persist, PersistDone, Persistable, Goto, Leave, GuardFree, OpTypes, Source
  <2>6. QED
    BY <2>1, <2>2, <2>3, <2>4, <2>5
<1>14. ASSUME BatchStart PROVE Types'
  <2>1. FileTypes'
    BY <1>14 DEF BatchStart, FileTypes, Source
  <2>2. UpstreamTypes'
    BY <1>14 DEF BatchStart, UpstreamTypes
  <2>3. ObjectTypes'
    BY <1>14 DEF BatchStart, ObjectTypes
  <2>4. ThreadTypes'
    BY <1>14 DEF BatchStart, ThreadTypes
  <2>5. OpTypes'
    BY <1>14 DEF BatchStart, OpTypes, Source
  <2>6. QED
    BY <2>1, <2>2, <2>3, <2>4, <2>5
<1>15. ASSUME BatchEnd PROVE Types'
  <2>1. FileTypes'
    BY <1>15 DEF BatchEnd, FileTypes, Source
  <2>2. UpstreamTypes'
    BY <1>15 DEF BatchEnd, UpstreamTypes
  <2>3. ObjectTypes'
    BY <1>15 DEF BatchEnd, ObjectTypes
  <2>4. ThreadTypes'
    BY <1>15 DEF BatchEnd, ThreadTypes
  <2>5. OpTypes'
    BY <1>15 DEF BatchEnd, OpTypes, Source
  <2>6. QED
    BY <2>1, <2>2, <2>3, <2>4, <2>5
<1>16. ASSUME NEW i \in Id, NEW o \in Object, BatchTake(i, o) PROVE Types'
  <2>1. FileTypes'
    BY <1>16 DEF BatchTake, IsEnabled, Load, Fresh, Goto, GuardFree, FileTypes, Source
  <2>2. UpstreamTypes'
    BY <1>16 DEF BatchTake, IsEnabled, Load, Fresh, Goto, GuardFree, UpstreamTypes
  <2>3. ObjectTypes'
    BY <1>16
    DEF BatchTake, IsEnabled, Load, Fresh, Goto, GuardFree, ObjectTypes, FileTypes
  <2>4. ThreadTypes'
    BY <1>16
    DEF BatchTake, IsEnabled, Load, Fresh, Goto, GuardFree, ThreadTypes, ObjectTypes
  <2>5. OpTypes'
    BY <1>16 DEF BatchTake, IsEnabled, Load, Fresh, Goto, GuardFree, OpTypes, Source
  <2>6. QED
    BY <2>1, <2>2, <2>3, <2>4, <2>5
<1>17. ASSUME NEW o \in Object, Restart(o) PROVE Types'
  <2>1. FileTypes'
    BY <1>17 DEF Restart, FileTypes, Source
  <2>2. UpstreamTypes'
    <3>1. \A x \in dirty : loginOf[x] \in Nat
      BY DEF ObjectTypes
    <3>2. lost' \subseteq Nat
      BY <1>17, <3>1 DEF Restart, UpstreamTypes
    <3>3. QED
      BY <1>17, <3>2 DEF Restart, UpstreamTypes
  <2>3. ObjectTypes'
    BY <1>17 DEF Restart, ObjectTypes, FileTypes
  <2>4. ThreadTypes'
    BY <1>17 DEF Restart, ThreadTypes
  <2>5. OpTypes'
    BY <1>17 DEF Restart, OpTypes, Source
  <2>6. QED
    BY <2>1, <2>2, <2>3, <2>4, <2>5
<1>18. QED
  BY <1>1, <1>2, <1>3, <1>4, <1>5, <1>6, <1>7, <1>8, <1>9, <1>10, <1>11, <1>12, <1>13,
     <1>14, <1>15, <1>16, <1>17 DEF Next, Operation, Refresh

(* Who enters takes the lock, who leaves gives it back, and an operation    *)
(* holds only what it took.                                                 *)
LEMMA LockStep ==
  ASSUME ThreadTypes, pool \in Object \cup {None}, LockInv, Next
  PROVE  LockInv'
<1> USE VaultAssumption DEF VaultAssumption, ThreadTypes, LockInv, Locked, Operator, Threads, threadVars
<1>1. ASSUME NEW i \in Id, NEW o \in Object, StartAdd(i, o) PROVE LockInv'
  BY <1>1 DEF StartAdd, TryTokenLock, TokenLock, Fresh, GuardFree
<1>2. ASSUME NEW i \in Id, NEW o \in Object, StartEnable(i, o) PROVE LockInv'
  BY <1>2 DEF StartEnable, StartSwitch, Load, TryTokenLock, TokenLock, Fresh, GuardFree
<1>3. ASSUME NEW s \in Source, StartSetSource(s) PROVE LockInv'
  BY <1>3 DEF StartSetSource, StartSwitch, TryTokenLock, TokenLock, GuardFree
<1>4. ASSUME NEW i \in Id, StartRemove(i) PROVE LockInv'
  BY <1>4 DEF StartRemove, StartSwitch, TryTokenLock, TokenLock, GuardFree
<1>5. ASSUME AddWrite PROVE LockInv'
  BY <1>5 DEF AddWrite, OpEnd
<1>6. ASSUME AddCommit PROVE LockInv'
  BY <1>6 DEF AddCommit, OpEnd, Replace
<1>7. ASSUME SwitchCommit PROVE LockInv'
  BY <1>7 DEF SwitchCommit, OpEnd, Replace
<1>8. ASSUME RemoveCommit PROVE LockInv'
  BY <1>8 DEF RemoveCommit, OpEnd, Replace
<1>9. ASSUME RemoveFile PROVE LockInv'
  BY <1>9 DEF RemoveFile, OpEnd
<1>10. ASSUME NEW t \in Thread, Take(t) PROVE LockInv'
  BY <1>10 DEF Take, Goto
<1>11. ASSUME NEW t \in Thread, Enter(t) PROVE LockInv'
  BY <1>11 DEF Enter, Goto
<1>12. ASSUME NEW t \in Thread, Exchange(t) PROVE LockInv'
  BY <1>12 DEF Exchange, Goto, Leave, Valid
<1>13. ASSUME NEW t \in Thread, persist(t) PROVE LockInv'
  BY <1>13 DEF persist, PersistDone, Persistable, Goto, Leave, GuardFree
<1>14. ASSUME BatchStart PROVE LockInv'
  BY <1>14 DEF BatchStart
<1>15. ASSUME BatchEnd PROVE LockInv'
  BY <1>15 DEF BatchEnd
<1>16. ASSUME NEW i \in Id, NEW o \in Object, BatchTake(i, o) PROVE LockInv'
  BY <1>16 DEF BatchTake, IsEnabled, Load, Fresh, Goto, GuardFree
<1>17. ASSUME NEW o \in Object, Restart(o) PROVE LockInv'
  BY <1>17 DEF Restart
<1>18. QED
  BY <1>1, <1>2, <1>3, <1>4, <1>5, <1>6, <1>7, <1>8, <1>9, <1>10, <1>11, <1>12, <1>13,
     <1>14, <1>15, <1>16, <1>17 DEF Next, Operation, Refresh

(* Each action keeps the files and rows in step.                            *)
LEMMA VaultStep ==
  ASSUME IInv, Next
  PROVE  VaultInv'
<1> USE VaultAssumption DEF VaultAssumption, IInv, Types, VaultInv, vars, registryVars, fileVars, upstreamVars, poolVars, objectVars, threadVars, opVars
<1>1. ASSUME NEW i \in Id, NEW o \in Object, StartAdd(i, o) PROVE VaultInv'
  <2>1. ObjectInv'
    <3>1. \A x \in Object \ {o} : genOf'[x] = genOf[x] /\ loginOf'[x] = loginOf[x] /\ idOf'[x] = idOf[x]
      BY <1>1 DEF StartAdd, ObjectTypes
    <3>2. genOf'[o] = logins' /\ loginOf'[o] = logins' /\ idOf'[o] = i /\ logins' = logins + 1
      BY <1>1 DEF StartAdd, ObjectTypes
    <3>3. /\ logins \in Nat
          /\ \A x \in Object : genOf[x] \in Nat /\ loginOf[x] \in Nat
      BY DEF UpstreamTypes, ObjectTypes
    <3>4. \A x \in Object : genOf'[x] <= loginOf'[x] /\ loginOf'[x] <= logins'
      BY <3>1, <3>2, <3>3 DEF ObjectInv
    <3>5. Referenced' \subseteq Referenced \cup {o}
      BY <1>1 DEF StartAdd, Referenced
    <3>6. Referenced \ {None} \subseteq Object
      BY DEF Referenced, ObjectTypes, OpTypes, ThreadTypes
    <3>7. \A x \in Referenced' \ {None} : idOf'[x] \in Id
      BY <3>1, <3>2, <3>5, <3>6 DEF ObjectInv
    <3>8. QED
      BY <3>4, <3>7 DEF ObjectInv
  <2>2. FileInv'
    BY <1>1
    DEF StartAdd, TryTokenLock, TokenLock, Fresh, GuardFree, FileInv, FileTypes,
       UpstreamTypes
  <2>3. EnabledInv'
    BY <1>1
    DEF StartAdd, TryTokenLock, TokenLock, Fresh, GuardFree, FileTypes, UpstreamTypes,
       ObjectTypes, ThreadTypes, OpTypes, Source, LockInv, Locked, Referenced,
       ObjectInv, FileInv, EnabledInv, AddInv, SwitchInv, RemoveInv
  <2>4. AddInv'
    BY <1>1
    DEF StartAdd, TryTokenLock, TokenLock, Fresh, GuardFree, FileTypes, UpstreamTypes,
       ObjectTypes, ThreadTypes, OpTypes, Source, LockInv, Locked, Referenced,
       ObjectInv, FileInv, EnabledInv, AddInv, SwitchInv, RemoveInv
  <2>5. SwitchInv'
    BY <1>1
    DEF StartAdd, TryTokenLock, TokenLock, Fresh, GuardFree, FileTypes, UpstreamTypes,
       ObjectTypes, ThreadTypes, OpTypes, Source, LockInv, Locked, Referenced,
       ObjectInv, FileInv, EnabledInv, AddInv, SwitchInv, RemoveInv
  <2>6. RemoveInv'
    BY <1>1
    DEF StartAdd, TryTokenLock, TokenLock, Fresh, GuardFree, FileTypes, UpstreamTypes,
       ObjectTypes, ThreadTypes, OpTypes, Source, LockInv, Locked, Referenced,
       ObjectInv, FileInv, EnabledInv, AddInv, SwitchInv, RemoveInv
  <2>7. QED
    BY <2>1, <2>2, <2>3, <2>4, <2>5, <2>6
<1>2. ASSUME NEW i \in Id, NEW o \in Object, StartEnable(i, o) PROVE VaultInv'
  <2>1. ObjectInv'
    BY <1>2
    DEF StartEnable, StartSwitch, Load, TryTokenLock, TokenLock, Fresh, GuardFree,
       ObjectInv, FileInv, FileTypes, UpstreamTypes, ObjectTypes, Referenced
  <2>2. FileInv'
    BY <1>2
    DEF StartEnable, StartSwitch, Load, TryTokenLock, TokenLock, Fresh, GuardFree,
       FileTypes, UpstreamTypes, ObjectTypes, ThreadTypes, OpTypes, Source, LockInv,
       Locked, Referenced, ObjectInv, FileInv, EnabledInv, AddInv, SwitchInv, RemoveInv
  <2>3. EnabledInv'
    BY <1>2
    DEF StartEnable, StartSwitch, Load, TryTokenLock, TokenLock, Fresh, GuardFree,
       FileTypes, UpstreamTypes, ObjectTypes, ThreadTypes, OpTypes, Source, LockInv,
       Locked, Referenced, ObjectInv, FileInv, EnabledInv, AddInv, SwitchInv, RemoveInv
  <2>4. AddInv'
    BY <1>2
    DEF StartEnable, StartSwitch, Load, TryTokenLock, TokenLock, Fresh, GuardFree,
       FileTypes, UpstreamTypes, ObjectTypes, ThreadTypes, OpTypes, Source, LockInv,
       Locked, Referenced, ObjectInv, FileInv, EnabledInv, AddInv, SwitchInv, RemoveInv
  <2>5. SwitchInv'
    BY <1>2
    DEF StartEnable, StartSwitch, Load, TryTokenLock, TokenLock, Fresh, GuardFree,
       FileTypes, UpstreamTypes, ObjectTypes, ThreadTypes, OpTypes, Source, LockInv,
       Locked, Referenced, ObjectInv, FileInv, EnabledInv, AddInv, SwitchInv, RemoveInv
  <2>6. RemoveInv'
    BY <1>2
    DEF StartEnable, StartSwitch, Load, TryTokenLock, TokenLock, Fresh, GuardFree,
       FileTypes, UpstreamTypes, ObjectTypes, ThreadTypes, OpTypes, Source, LockInv,
       Locked, Referenced, ObjectInv, FileInv, EnabledInv, AddInv, SwitchInv, RemoveInv
  <2>7. QED
    BY <2>1, <2>2, <2>3, <2>4, <2>5, <2>6
<1>3. ASSUME NEW s \in Source, StartSetSource(s) PROVE VaultInv'
  <2>1. ObjectInv'
    BY <1>3
    DEF StartSetSource, StartSwitch, TryTokenLock, TokenLock, GuardFree, FileTypes,
       UpstreamTypes, ObjectTypes, ThreadTypes, OpTypes, Source, LockInv, Locked,
       Referenced, ObjectInv, FileInv, EnabledInv, AddInv, SwitchInv, RemoveInv
  <2>2. FileInv'
    BY <1>3
    DEF StartSetSource, StartSwitch, TryTokenLock, TokenLock, GuardFree, FileTypes,
       UpstreamTypes, ObjectTypes, ThreadTypes, OpTypes, Source, LockInv, Locked,
       Referenced, ObjectInv, FileInv, EnabledInv, AddInv, SwitchInv, RemoveInv
  <2>3. EnabledInv'
    BY <1>3
    DEF StartSetSource, StartSwitch, TryTokenLock, TokenLock, GuardFree, FileTypes,
       UpstreamTypes, ObjectTypes, ThreadTypes, OpTypes, Source, LockInv, Locked,
       Referenced, ObjectInv, FileInv, EnabledInv, AddInv, SwitchInv, RemoveInv
  <2>4. AddInv'
    BY <1>3
    DEF StartSetSource, StartSwitch, TryTokenLock, TokenLock, GuardFree, FileTypes,
       UpstreamTypes, ObjectTypes, ThreadTypes, OpTypes, Source, LockInv, Locked,
       Referenced, ObjectInv, FileInv, EnabledInv, AddInv, SwitchInv, RemoveInv
  <2>5. SwitchInv'
    BY <1>3
    DEF StartSetSource, StartSwitch, TryTokenLock, TokenLock, GuardFree, FileTypes,
       UpstreamTypes, ObjectTypes, ThreadTypes, OpTypes, Source, LockInv, Locked,
       Referenced, ObjectInv, FileInv, EnabledInv, AddInv, SwitchInv, RemoveInv
  <2>6. RemoveInv'
    BY <1>3
    DEF StartSetSource, StartSwitch, TryTokenLock, TokenLock, GuardFree, FileTypes,
       UpstreamTypes, ObjectTypes, ThreadTypes, OpTypes, Source, LockInv, Locked,
       Referenced, ObjectInv, FileInv, EnabledInv, AddInv, SwitchInv, RemoveInv
  <2>7. QED
    BY <2>1, <2>2, <2>3, <2>4, <2>5, <2>6
<1>4. ASSUME NEW i \in Id, StartRemove(i) PROVE VaultInv'
  <2>1. ObjectInv'
    BY <1>4
    DEF StartRemove, StartSwitch, TryTokenLock, TokenLock, GuardFree, ObjectInv,
       ObjectTypes, Referenced
  <2>2. FileInv'
    BY <1>4
    DEF StartRemove, StartSwitch, TryTokenLock, TokenLock, GuardFree, FileInv,
       FileTypes, UpstreamTypes
  <2>3. EnabledInv'
    BY <1>4
    DEF StartRemove, StartSwitch, TryTokenLock, TokenLock, GuardFree, FileTypes,
       UpstreamTypes, ObjectTypes, ThreadTypes, OpTypes, Source, LockInv, Locked,
       Referenced, ObjectInv, FileInv, EnabledInv, AddInv, SwitchInv, RemoveInv
  <2>4. AddInv'
    BY <1>4
    DEF StartRemove, StartSwitch, TryTokenLock, TokenLock, GuardFree, FileTypes,
       UpstreamTypes, ObjectTypes, ThreadTypes, OpTypes, Source, LockInv, Locked,
       Referenced, ObjectInv, FileInv, EnabledInv, AddInv, SwitchInv, RemoveInv
  <2>5. SwitchInv'
    BY <1>4
    DEF StartRemove, StartSwitch, TryTokenLock, TokenLock, GuardFree, FileTypes,
       UpstreamTypes, ObjectTypes, ThreadTypes, OpTypes, Source, LockInv, Locked,
       Referenced, ObjectInv, FileInv, EnabledInv, AddInv, SwitchInv, RemoveInv
  <2>6. RemoveInv'
    BY <1>4
    DEF StartRemove, StartSwitch, TryTokenLock, TokenLock, GuardFree, RemoveInv, OpTypes
  <2>7. QED
    BY <2>1, <2>2, <2>3, <2>4, <2>5, <2>6
<1>5. ASSUME AddWrite PROVE VaultInv'
  <2>1. ObjectInv'
    BY <1>5
    DEF AddWrite, OpEnd, FileTypes, UpstreamTypes, ObjectTypes, ThreadTypes, OpTypes,
       Source, LockInv, Locked, Referenced, ObjectInv, FileInv, EnabledInv, AddInv,
       SwitchInv, RemoveInv
  <2>2. FileInv'
    <3>0. opKind = "add" /\ opId \in Id /\ loginOf[opNew] = logins
      BY <1>5 DEF AddWrite, OpTypes, AddInv, RemoveInv, SwitchInv
    <3>1. /\ rows' = rows /\ gone' = gone /\ logins' = logins
          /\ \A i \in Id : vaultLogin'[i] \in {vaultLogin[i], logins}
      BY <1>5, <3>0 DEF AddWrite, FileTypes
    <3>2. logins \in Nat /\ \A i \in Id : rows[i] \in Nat /\ vaultLogin[i] \in Nat
      BY DEF FileTypes, UpstreamTypes
    <3>3. QED
      BY <3>1, <3>2 DEF FileInv
  <2>3. EnabledInv'
    BY <1>5
    DEF AddWrite, OpEnd, FileTypes, UpstreamTypes, ObjectTypes, ThreadTypes, OpTypes,
       Source, LockInv, Locked, Referenced, ObjectInv, FileInv, EnabledInv, AddInv,
       SwitchInv, RemoveInv
  <2>4. AddInv'
    BY <1>5
    DEF AddWrite, OpEnd, FileTypes, UpstreamTypes, ObjectTypes, ThreadTypes, OpTypes,
       Source, LockInv, Locked, Referenced, ObjectInv, FileInv, EnabledInv, AddInv,
       SwitchInv, RemoveInv
  <2>5. SwitchInv'
    BY <1>5
    DEF AddWrite, OpEnd, FileTypes, UpstreamTypes, ObjectTypes, ThreadTypes, OpTypes,
       Source, LockInv, Locked, Referenced, ObjectInv, FileInv, EnabledInv, AddInv,
       SwitchInv, RemoveInv
  <2>6. RemoveInv'
    BY <1>5
    DEF AddWrite, OpEnd, FileTypes, UpstreamTypes, ObjectTypes, ThreadTypes, OpTypes,
       Source, LockInv, Locked, Referenced, ObjectInv, FileInv, EnabledInv, AddInv,
       SwitchInv, RemoveInv
  <2>7. QED
    BY <2>1, <2>2, <2>3, <2>4, <2>5, <2>6
<1>6. ASSUME AddCommit PROVE VaultInv'
  <2>1. ObjectInv'
    BY <1>6
    DEF AddCommit, OpEnd, Replace, FileTypes, UpstreamTypes, ObjectTypes, ThreadTypes,
       OpTypes, Source, LockInv, Locked, Referenced, ObjectInv, FileInv, EnabledInv,
       AddInv, SwitchInv, RemoveInv
  <2>2. FileInv'
    <3>1. /\ opId \in Id \ gone /\ vaultLogin[opId] = logins /\ genOf[opNew] = logins
          /\ UNCHANGED <<vaultLogin, logins, gone>>
      BY <1>6 DEF AddCommit, AddInv
    <3>2. \A i \in Id : rows'[i] = rows[i] \/ (i = opId /\ rows'[i] = logins)
      BY <1>6, <3>1 DEF AddCommit, FileTypes
    <3>3. QED
      BY <3>1, <3>2 DEF FileInv, FileTypes, UpstreamTypes
  <2>3. EnabledInv'
    BY <1>6
    DEF AddCommit, OpEnd, Replace, FileTypes, UpstreamTypes, ObjectTypes, ThreadTypes,
       OpTypes, Source, LockInv, Locked, Referenced, ObjectInv, FileInv, EnabledInv,
       AddInv, SwitchInv, RemoveInv
  <2>4. AddInv'
    BY <1>6
    DEF AddCommit, OpEnd, Replace, FileTypes, UpstreamTypes, ObjectTypes, ThreadTypes,
       OpTypes, Source, LockInv, Locked, Referenced, ObjectInv, FileInv, EnabledInv,
       AddInv, SwitchInv, RemoveInv
  <2>5. SwitchInv'
    BY <1>6
    DEF AddCommit, OpEnd, Replace, FileTypes, UpstreamTypes, ObjectTypes, ThreadTypes,
       OpTypes, Source, LockInv, Locked, Referenced, ObjectInv, FileInv, EnabledInv,
       AddInv, SwitchInv, RemoveInv
  <2>6. RemoveInv'
    BY <1>6
    DEF AddCommit, OpEnd, Replace, FileTypes, UpstreamTypes, ObjectTypes, ThreadTypes,
       OpTypes, Source, LockInv, Locked, Referenced, ObjectInv, FileInv, EnabledInv,
       AddInv, SwitchInv, RemoveInv
  <2>7. QED
    BY <2>1, <2>2, <2>3, <2>4, <2>5, <2>6
<1>7. ASSUME SwitchCommit PROVE VaultInv'
  <2>1. ObjectInv'
    BY <1>7
    DEF SwitchCommit, OpEnd, Replace, FileTypes, UpstreamTypes, ObjectTypes,
       ThreadTypes, OpTypes, Source, LockInv, Locked, Referenced, ObjectInv, FileInv,
       EnabledInv, AddInv, SwitchInv, RemoveInv
  <2>2. FileInv'
    BY <1>7
    DEF SwitchCommit, OpEnd, Replace, FileTypes, UpstreamTypes, ObjectTypes,
       ThreadTypes, OpTypes, Source, LockInv, Locked, Referenced, ObjectInv, FileInv,
       EnabledInv, AddInv, SwitchInv, RemoveInv
  <2>3. EnabledInv'
    BY <1>7
    DEF SwitchCommit, OpEnd, Replace, FileTypes, UpstreamTypes, ObjectTypes,
       ThreadTypes, OpTypes, Source, LockInv, Locked, Referenced, ObjectInv, FileInv,
       EnabledInv, AddInv, SwitchInv, RemoveInv
  <2>4. AddInv'
    BY <1>7
    DEF SwitchCommit, OpEnd, Replace, FileTypes, UpstreamTypes, ObjectTypes,
       ThreadTypes, OpTypes, Source, LockInv, Locked, Referenced, ObjectInv, FileInv,
       EnabledInv, AddInv, SwitchInv, RemoveInv
  <2>5. SwitchInv'
    BY <1>7
    DEF SwitchCommit, OpEnd, Replace, FileTypes, UpstreamTypes, ObjectTypes,
       ThreadTypes, OpTypes, Source, LockInv, Locked, Referenced, ObjectInv, FileInv,
       EnabledInv, AddInv, SwitchInv, RemoveInv
  <2>6. RemoveInv'
    BY <1>7
    DEF SwitchCommit, OpEnd, Replace, FileTypes, UpstreamTypes, ObjectTypes,
       ThreadTypes, OpTypes, Source, LockInv, Locked, Referenced, ObjectInv, FileInv,
       EnabledInv, AddInv, SwitchInv, RemoveInv
  <2>7. QED
    BY <2>1, <2>2, <2>3, <2>4, <2>5, <2>6
<1>8. ASSUME RemoveCommit PROVE VaultInv'
  <2>1. ObjectInv'
    BY <1>8
    DEF RemoveCommit, OpEnd, Replace, FileTypes, UpstreamTypes, ObjectTypes,
       ThreadTypes, OpTypes, Source, LockInv, Locked, Referenced, ObjectInv, FileInv,
       EnabledInv, AddInv, SwitchInv, RemoveInv
  <2>2. FileInv'
    <3>1. /\ vaultLogin' = vaultLogin /\ logins' = logins
          /\ \A i \in Id : rows'[i] \in {rows[i], 0}
          /\ \A i \in gone' : i \in gone \/ rows'[i] = 0
      BY <1>8 DEF RemoveCommit, FileTypes, RemoveInv
    <3>2. \A i \in Id : rows[i] \in Nat /\ vaultLogin[i] \in Nat
      BY DEF FileTypes
    <3>3. \A i \in gone' : i \in Id
      BY TypesStep DEF FileTypes
    <3>4. QED
      BY <3>1, <3>2, <3>3 DEF FileInv
  <2>3. EnabledInv'
    BY <1>8
    DEF RemoveCommit, OpEnd, Replace, FileTypes, UpstreamTypes, ObjectTypes,
       ThreadTypes, OpTypes, Source, LockInv, Locked, Referenced, ObjectInv, FileInv,
       EnabledInv, AddInv, SwitchInv, RemoveInv
  <2>4. AddInv'
    BY <1>8
    DEF RemoveCommit, OpEnd, Replace, FileTypes, UpstreamTypes, ObjectTypes,
       ThreadTypes, OpTypes, Source, LockInv, Locked, Referenced, ObjectInv, FileInv,
       EnabledInv, AddInv, SwitchInv, RemoveInv
  <2>5. SwitchInv'
    BY <1>8
    DEF RemoveCommit, OpEnd, Replace, FileTypes, UpstreamTypes, ObjectTypes,
       ThreadTypes, OpTypes, Source, LockInv, Locked, Referenced, ObjectInv, FileInv,
       EnabledInv, AddInv, SwitchInv, RemoveInv
  <2>6. RemoveInv'
    BY <1>8
    DEF RemoveCommit, OpEnd, Replace, FileTypes, UpstreamTypes, ObjectTypes,
       ThreadTypes, OpTypes, Source, LockInv, Locked, Referenced, ObjectInv, FileInv,
       EnabledInv, AddInv, SwitchInv, RemoveInv
  <2>7. QED
    BY <2>1, <2>2, <2>3, <2>4, <2>5, <2>6
<1>9. ASSUME RemoveFile PROVE VaultInv'
  <2>1. ObjectInv'
    BY <1>9
    DEF RemoveFile, OpEnd, FileTypes, UpstreamTypes, ObjectTypes, ThreadTypes, OpTypes,
       Source, LockInv, Locked, Referenced, ObjectInv, FileInv, EnabledInv, AddInv,
       SwitchInv, RemoveInv
  <2>2. FileInv'
    <3>0. opId \in Id /\ rows[opId] = 0
      BY <1>9 DEF RemoveFile, OpTypes, AddInv, SwitchInv, RemoveInv
    <3>1. /\ rows' = rows /\ gone' = gone /\ logins' = logins
          /\ \A i \in Id : vaultLogin'[i] = vaultLogin[i] \/ (vaultLogin'[i] = 0 /\ rows[i] = 0)
      BY <1>9, <3>0 DEF RemoveFile, FileTypes
    <3>2. logins \in Nat /\ \A i \in Id : rows[i] \in Nat /\ vaultLogin[i] \in Nat
      BY DEF FileTypes, UpstreamTypes
    <3>3. QED
      BY <3>1, <3>2 DEF FileInv
  <2>3. EnabledInv'
    BY <1>9
    DEF RemoveFile, OpEnd, FileTypes, UpstreamTypes, ObjectTypes, ThreadTypes, OpTypes,
       Source, LockInv, Locked, Referenced, ObjectInv, FileInv, EnabledInv, AddInv,
       SwitchInv, RemoveInv
  <2>4. AddInv'
    BY <1>9
    DEF RemoveFile, OpEnd, FileTypes, UpstreamTypes, ObjectTypes, ThreadTypes, OpTypes,
       Source, LockInv, Locked, Referenced, ObjectInv, FileInv, EnabledInv, AddInv,
       SwitchInv, RemoveInv
  <2>5. SwitchInv'
    BY <1>9
    DEF RemoveFile, OpEnd, FileTypes, UpstreamTypes, ObjectTypes, ThreadTypes, OpTypes,
       Source, LockInv, Locked, Referenced, ObjectInv, FileInv, EnabledInv, AddInv,
       SwitchInv, RemoveInv
  <2>6. RemoveInv'
    BY <1>9
    DEF RemoveFile, OpEnd, FileTypes, UpstreamTypes, ObjectTypes, ThreadTypes, OpTypes,
       Source, LockInv, Locked, Referenced, ObjectInv, FileInv, EnabledInv, AddInv,
       SwitchInv, RemoveInv
  <2>7. QED
    BY <2>1, <2>2, <2>3, <2>4, <2>5, <2>6
<1>10. ASSUME NEW t \in Thread, Take(t) PROVE VaultInv'
  <2>1. ObjectInv'
    BY <1>10
    DEF Take, Goto, FileTypes, UpstreamTypes, ObjectTypes, ThreadTypes, OpTypes, Source,
       LockInv, Locked, Referenced, ObjectInv, FileInv, EnabledInv, AddInv, SwitchInv,
       RemoveInv
  <2>2. FileInv'
    BY <1>10
    DEF Take, Goto, FileTypes, UpstreamTypes, ObjectTypes, ThreadTypes, OpTypes, Source,
       LockInv, Locked, Referenced, ObjectInv, FileInv, EnabledInv, AddInv, SwitchInv,
       RemoveInv
  <2>3. EnabledInv'
    BY <1>10
    DEF Take, Goto, FileTypes, UpstreamTypes, ObjectTypes, ThreadTypes, OpTypes, Source,
       LockInv, Locked, Referenced, ObjectInv, FileInv, EnabledInv, AddInv, SwitchInv,
       RemoveInv
  <2>4. AddInv'
    BY <1>10
    DEF Take, Goto, FileTypes, UpstreamTypes, ObjectTypes, ThreadTypes, OpTypes, Source,
       LockInv, Locked, Referenced, ObjectInv, FileInv, EnabledInv, AddInv, SwitchInv,
       RemoveInv
  <2>5. SwitchInv'
    BY <1>10
    DEF Take, Goto, FileTypes, UpstreamTypes, ObjectTypes, ThreadTypes, OpTypes, Source,
       LockInv, Locked, Referenced, ObjectInv, FileInv, EnabledInv, AddInv, SwitchInv,
       RemoveInv
  <2>6. RemoveInv'
    BY <1>10
    DEF Take, Goto, FileTypes, UpstreamTypes, ObjectTypes, ThreadTypes, OpTypes, Source,
       LockInv, Locked, Referenced, ObjectInv, FileInv, EnabledInv, AddInv, SwitchInv,
       RemoveInv
  <2>7. QED
    BY <2>1, <2>2, <2>3, <2>4, <2>5, <2>6
<1>11. ASSUME NEW t \in Thread, Enter(t) PROVE VaultInv'
  <2>1. ObjectInv'
    BY <1>11
    DEF Enter, Goto, FileTypes, UpstreamTypes, ObjectTypes, ThreadTypes, OpTypes,
       Source, LockInv, Locked, Referenced, ObjectInv, FileInv, EnabledInv, AddInv,
       SwitchInv, RemoveInv
  <2>2. FileInv'
    BY <1>11
    DEF Enter, Goto, FileTypes, UpstreamTypes, ObjectTypes, ThreadTypes, OpTypes,
       Source, LockInv, Locked, Referenced, ObjectInv, FileInv, EnabledInv, AddInv,
       SwitchInv, RemoveInv
  <2>3. EnabledInv'
    BY <1>11
    DEF Enter, Goto, FileTypes, UpstreamTypes, ObjectTypes, ThreadTypes, OpTypes,
       Source, LockInv, Locked, Referenced, ObjectInv, FileInv, EnabledInv, AddInv,
       SwitchInv, RemoveInv
  <2>4. AddInv'
    BY <1>11
    DEF Enter, Goto, FileTypes, UpstreamTypes, ObjectTypes, ThreadTypes, OpTypes,
       Source, LockInv, Locked, Referenced, ObjectInv, FileInv, EnabledInv, AddInv,
       SwitchInv, RemoveInv
  <2>5. SwitchInv'
    BY <1>11
    DEF Enter, Goto, FileTypes, UpstreamTypes, ObjectTypes, ThreadTypes, OpTypes,
       Source, LockInv, Locked, Referenced, ObjectInv, FileInv, EnabledInv, AddInv,
       SwitchInv, RemoveInv
  <2>6. RemoveInv'
    BY <1>11
    DEF Enter, Goto, FileTypes, UpstreamTypes, ObjectTypes, ThreadTypes, OpTypes,
       Source, LockInv, Locked, Referenced, ObjectInv, FileInv, EnabledInv, AddInv,
       SwitchInv, RemoveInv
  <2>7. QED
    BY <2>1, <2>2, <2>3, <2>4, <2>5, <2>6
<1>12. ASSUME NEW t \in Thread, Exchange(t) PROVE VaultInv'
  <2>1. ObjectInv'
    BY <1>12
    DEF Exchange, Goto, Leave, Valid, FileTypes, UpstreamTypes, ObjectTypes,
       ThreadTypes, OpTypes, Source, LockInv, Locked, Referenced, ObjectInv, FileInv,
       EnabledInv, AddInv, SwitchInv, RemoveInv
  <2>2. FileInv'
    BY <1>12
    DEF Exchange, Goto, Leave, Valid, FileTypes, UpstreamTypes, ObjectTypes,
       ThreadTypes, OpTypes, Source, LockInv, Locked, Referenced, ObjectInv, FileInv,
       EnabledInv, AddInv, SwitchInv, RemoveInv
  <2>3. EnabledInv'
    BY <1>12
    DEF Exchange, Goto, Leave, Valid, FileTypes, UpstreamTypes, ObjectTypes,
       ThreadTypes, OpTypes, Source, LockInv, Locked, Referenced, ObjectInv, FileInv,
       EnabledInv, AddInv, SwitchInv, RemoveInv
  <2>4. AddInv'
    BY <1>12
    DEF Exchange, Goto, Leave, Valid, FileTypes, UpstreamTypes, ObjectTypes,
       ThreadTypes, OpTypes, Source, LockInv, Locked, Referenced, ObjectInv, FileInv,
       EnabledInv, AddInv, SwitchInv, RemoveInv
  <2>5. SwitchInv'
    BY <1>12
    DEF Exchange, Goto, Leave, Valid, FileTypes, UpstreamTypes, ObjectTypes,
       ThreadTypes, OpTypes, Source, LockInv, Locked, Referenced, ObjectInv, FileInv,
       EnabledInv, AddInv, SwitchInv, RemoveInv
  <2>6. RemoveInv'
    BY <1>12
    DEF Exchange, Goto, Leave, Valid, FileTypes, UpstreamTypes, ObjectTypes,
       ThreadTypes, OpTypes, Source, LockInv, Locked, Referenced, ObjectInv, FileInv,
       EnabledInv, AddInv, SwitchInv, RemoveInv
  <2>7. QED
    BY <2>1, <2>2, <2>3, <2>4, <2>5, <2>6
<1>13. ASSUME NEW t \in Thread, persist(t) PROVE VaultInv'
  <2>1. ObjectInv'
    BY <1>13
    DEF persist, PersistDone, Persistable, Goto, Leave, GuardFree, FileTypes,
       UpstreamTypes, ObjectTypes, ThreadTypes, OpTypes, Source, LockInv, Locked,
       Referenced, ObjectInv, FileInv, EnabledInv, AddInv, SwitchInv, RemoveInv
  <2>2. FileInv'
    <3>0. acct[t] \in Object
      BY <1>13 DEF persist, ThreadTypes, LockInv
    <3>1. /\ rows' = rows /\ gone' = gone /\ logins' = logins
          /\ \A i \in Id : \/ vaultLogin'[i] = vaultLogin[i]
                           \/ /\ vaultLogin'[i] = loginOf[acct[t]] /\ rows[i] = genOf[acct[t]]
      BY <1>13 DEF persist, Persistable, FileTypes
    <3>2. genOf[acct[t]] <= loginOf[acct[t]] /\ loginOf[acct[t]] <= logins
      BY <3>0 DEF ObjectInv
    <3>3. QED
      BY <3>1, <3>2 DEF FileInv
  <2>3. EnabledInv'
    BY <1>13
    DEF persist, PersistDone, Persistable, Goto, Leave, GuardFree, FileTypes,
       UpstreamTypes, ObjectTypes, ThreadTypes, OpTypes, Source, LockInv, Locked,
       Referenced, ObjectInv, FileInv, EnabledInv, AddInv, SwitchInv, RemoveInv
  <2>4. AddInv'
    BY <1>13
    DEF persist, PersistDone, Persistable, Goto, Leave, GuardFree, FileTypes,
       UpstreamTypes, ObjectTypes, ThreadTypes, OpTypes, Source, LockInv, Locked,
       Referenced, ObjectInv, FileInv, EnabledInv, AddInv, SwitchInv, RemoveInv
  <2>5. SwitchInv'
    BY <1>13
    DEF persist, PersistDone, Persistable, Goto, Leave, GuardFree, FileTypes,
       UpstreamTypes, ObjectTypes, ThreadTypes, OpTypes, Source, LockInv, Locked,
       Referenced, ObjectInv, FileInv, EnabledInv, AddInv, SwitchInv, RemoveInv
  <2>6. RemoveInv'
    BY <1>13
    DEF persist, PersistDone, Persistable, Goto, Leave, GuardFree, FileTypes,
       UpstreamTypes, ObjectTypes, ThreadTypes, OpTypes, Source, LockInv, Locked,
       Referenced, ObjectInv, FileInv, EnabledInv, AddInv, SwitchInv, RemoveInv
  <2>7. QED
    BY <2>1, <2>2, <2>3, <2>4, <2>5, <2>6
<1>14. ASSUME BatchStart PROVE VaultInv'
  <2>1. ObjectInv'
    BY <1>14
    DEF BatchStart, FileTypes, UpstreamTypes, ObjectTypes, ThreadTypes, OpTypes, Source,
       LockInv, Locked, Referenced, ObjectInv, FileInv, EnabledInv, AddInv, SwitchInv,
       RemoveInv
  <2>2. FileInv'
    BY <1>14
    DEF BatchStart, FileTypes, UpstreamTypes, ObjectTypes, ThreadTypes, OpTypes, Source,
       LockInv, Locked, Referenced, ObjectInv, FileInv, EnabledInv, AddInv, SwitchInv,
       RemoveInv
  <2>3. EnabledInv'
    BY <1>14
    DEF BatchStart, FileTypes, UpstreamTypes, ObjectTypes, ThreadTypes, OpTypes, Source,
       LockInv, Locked, Referenced, ObjectInv, FileInv, EnabledInv, AddInv, SwitchInv,
       RemoveInv
  <2>4. AddInv'
    BY <1>14
    DEF BatchStart, FileTypes, UpstreamTypes, ObjectTypes, ThreadTypes, OpTypes, Source,
       LockInv, Locked, Referenced, ObjectInv, FileInv, EnabledInv, AddInv, SwitchInv,
       RemoveInv
  <2>5. SwitchInv'
    BY <1>14
    DEF BatchStart, FileTypes, UpstreamTypes, ObjectTypes, ThreadTypes, OpTypes, Source,
       LockInv, Locked, Referenced, ObjectInv, FileInv, EnabledInv, AddInv, SwitchInv,
       RemoveInv
  <2>6. RemoveInv'
    BY <1>14
    DEF BatchStart, FileTypes, UpstreamTypes, ObjectTypes, ThreadTypes, OpTypes, Source,
       LockInv, Locked, Referenced, ObjectInv, FileInv, EnabledInv, AddInv, SwitchInv,
       RemoveInv
  <2>7. QED
    BY <2>1, <2>2, <2>3, <2>4, <2>5, <2>6
<1>15. ASSUME BatchEnd PROVE VaultInv'
  <2>1. ObjectInv'
    BY <1>15
    DEF BatchEnd, FileTypes, UpstreamTypes, ObjectTypes, ThreadTypes, OpTypes, Source,
       LockInv, Locked, Referenced, ObjectInv, FileInv, EnabledInv, AddInv, SwitchInv,
       RemoveInv
  <2>2. FileInv'
    BY <1>15
    DEF BatchEnd, FileTypes, UpstreamTypes, ObjectTypes, ThreadTypes, OpTypes, Source,
       LockInv, Locked, Referenced, ObjectInv, FileInv, EnabledInv, AddInv, SwitchInv,
       RemoveInv
  <2>3. EnabledInv'
    BY <1>15
    DEF BatchEnd, FileTypes, UpstreamTypes, ObjectTypes, ThreadTypes, OpTypes, Source,
       LockInv, Locked, Referenced, ObjectInv, FileInv, EnabledInv, AddInv, SwitchInv,
       RemoveInv
  <2>4. AddInv'
    BY <1>15
    DEF BatchEnd, FileTypes, UpstreamTypes, ObjectTypes, ThreadTypes, OpTypes, Source,
       LockInv, Locked, Referenced, ObjectInv, FileInv, EnabledInv, AddInv, SwitchInv,
       RemoveInv
  <2>5. SwitchInv'
    BY <1>15
    DEF BatchEnd, FileTypes, UpstreamTypes, ObjectTypes, ThreadTypes, OpTypes, Source,
       LockInv, Locked, Referenced, ObjectInv, FileInv, EnabledInv, AddInv, SwitchInv,
       RemoveInv
  <2>6. RemoveInv'
    BY <1>15
    DEF BatchEnd, FileTypes, UpstreamTypes, ObjectTypes, ThreadTypes, OpTypes, Source,
       LockInv, Locked, Referenced, ObjectInv, FileInv, EnabledInv, AddInv, SwitchInv,
       RemoveInv
  <2>7. QED
    BY <2>1, <2>2, <2>3, <2>4, <2>5, <2>6
<1>16. ASSUME NEW i \in Id, NEW o \in Object, BatchTake(i, o) PROVE VaultInv'
  <2>1. ObjectInv'
    <3>1. Referenced' \subseteq Referenced \cup {o}
      BY <1>16 DEF BatchTake, Goto, Referenced, ThreadTypes
    <3>2. CASE IsEnabled(i)
      <4>1. Referenced' \subseteq Referenced /\ UNCHANGED <<objectVars, logins>>
        BY <1>16, <3>2 DEF BatchTake, Goto, Referenced, ThreadTypes, IsEnabled
      <4>2. QED
        BY <4>1 DEF ObjectInv
    <3>3. CASE ~IsEnabled(i)
      <4>1. /\ \A x \in Object \ {o} : genOf'[x] = genOf[x] /\ loginOf'[x] = loginOf[x] /\ idOf'[x] = idOf[x]
            /\ genOf'[o] = rows[i] /\ loginOf'[o] = vaultLogin[i] /\ idOf'[o] = i /\ logins' = logins
        BY <1>16, <3>3 DEF BatchTake, Load, ObjectTypes
      <4>2. \A x \in Object : genOf'[x] <= loginOf'[x] /\ loginOf'[x] <= logins'
        BY <4>1 DEF ObjectInv, FileInv
      <4>3. Referenced \ {None} \subseteq Object
        BY DEF Referenced, ObjectTypes, OpTypes, ThreadTypes
      <4>4. \A x \in Referenced' \ {None} : idOf'[x] \in Id
        BY <4>1, <4>3, <3>1 DEF ObjectInv
      <4>5. QED
        BY <4>2, <4>4 DEF ObjectInv
    <3>4. QED
      BY <3>2, <3>3
  <2>2. FileInv'
    BY <1>16
    DEF BatchTake, IsEnabled, Load, Fresh, Goto, GuardFree, FileTypes, UpstreamTypes,
       ObjectTypes, ThreadTypes, OpTypes, Source, LockInv, Locked, Referenced,
       ObjectInv, FileInv, EnabledInv, AddInv, SwitchInv, RemoveInv
  <2>3. EnabledInv'
    <3>1. UNCHANGED <<rows, enabled, source, pool>>
      BY <1>16 DEF BatchTake
    <3>2. pool # None => pool \in Object /\ ~Fresh(pool)
      BY DEF Fresh, Referenced, ObjectTypes
    <3>3. pool # None => idOf'[pool] = idOf[pool] /\ genOf'[pool] = genOf[pool]
      BY <1>16, <3>2 DEF BatchTake, Load, ObjectTypes
    <3>4. QED
      BY <3>1, <3>3 DEF EnabledInv
  <2>4. AddInv'
    BY <1>16
    DEF BatchTake, IsEnabled, Load, Fresh, Goto, GuardFree, FileTypes, UpstreamTypes,
       ObjectTypes, ThreadTypes, OpTypes, Source, LockInv, Locked, Referenced,
       ObjectInv, FileInv, EnabledInv, AddInv, SwitchInv, RemoveInv
  <2>5. SwitchInv'
    BY <1>16
    DEF BatchTake, IsEnabled, Load, Fresh, Goto, GuardFree, FileTypes, UpstreamTypes,
       ObjectTypes, ThreadTypes, OpTypes, Source, LockInv, Locked, Referenced,
       ObjectInv, FileInv, EnabledInv, AddInv, SwitchInv, RemoveInv
  <2>6. RemoveInv'
    BY <1>16
    DEF BatchTake, IsEnabled, Load, Fresh, Goto, GuardFree, FileTypes, UpstreamTypes,
       ObjectTypes, ThreadTypes, OpTypes, Source, LockInv, Locked, Referenced,
       ObjectInv, FileInv, EnabledInv, AddInv, SwitchInv, RemoveInv
  <2>7. QED
    BY <2>1, <2>2, <2>3, <2>4, <2>5, <2>6
<1>17. ASSUME NEW o \in Object, Restart(o) PROVE VaultInv'
  <2>1. ObjectInv'
    <3>1. /\ logins' = logins /\ logins \in Nat
          /\ \A x \in Object : \/ genOf'[x] = 0 /\ loginOf'[x] = 0
                               \/ /\ genOf'[x] = rows[enabled] /\ loginOf'[x] = vaultLogin[enabled]
                                  /\ enabled \in Id
      BY <1>17 DEF Restart, FileTypes, UpstreamTypes
    <3>2. \A x \in Object : genOf'[x] <= loginOf'[x] /\ loginOf'[x] <= logins'
      BY <3>1 DEF FileInv
    <3>3. Referenced' \ {None} \subseteq {pool'} \ {None}
      BY <1>17 DEF Restart, Referenced
    <3>4. pool' # None => pool' = o /\ idOf'[o] \in Id
      BY <1>17 DEF Restart, FileTypes
    <3>5. QED
      BY <3>2, <3>3, <3>4 DEF ObjectInv
  <2>2. FileInv'
    BY <1>17
    DEF Restart, FileTypes, UpstreamTypes, ObjectTypes, ThreadTypes, OpTypes, Source,
       LockInv, Locked, Referenced, ObjectInv, FileInv, EnabledInv, AddInv, SwitchInv,
       RemoveInv
  <2>3. EnabledInv'
    BY <1>17
    DEF Restart, FileTypes, UpstreamTypes, ObjectTypes, ThreadTypes, OpTypes, Source,
       LockInv, Locked, Referenced, ObjectInv, FileInv, EnabledInv, AddInv, SwitchInv,
       RemoveInv
  <2>4. AddInv'
    BY <1>17
    DEF Restart, FileTypes, UpstreamTypes, ObjectTypes, ThreadTypes, OpTypes, Source,
       LockInv, Locked, Referenced, ObjectInv, FileInv, EnabledInv, AddInv, SwitchInv,
       RemoveInv
  <2>5. SwitchInv'
    BY <1>17
    DEF Restart, FileTypes, UpstreamTypes, ObjectTypes, ThreadTypes, OpTypes, Source,
       LockInv, Locked, Referenced, ObjectInv, FileInv, EnabledInv, AddInv, SwitchInv,
       RemoveInv
  <2>6. RemoveInv'
    BY <1>17
    DEF Restart, FileTypes, UpstreamTypes, ObjectTypes, ThreadTypes, OpTypes, Source,
       LockInv, Locked, Referenced, ObjectInv, FileInv, EnabledInv, AddInv, SwitchInv,
       RemoveInv
  <2>7. QED
    BY <2>1, <2>2, <2>3, <2>4, <2>5, <2>6
<1>18. QED
  BY <1>1, <1>2, <1>3, <1>4, <1>5, <1>6, <1>7, <1>8, <1>9, <1>10, <1>11, <1>12, <1>13,
     <1>14, <1>15, <1>16, <1>17 DEF Next, Operation, Refresh

-----------------------------------------------------------------------------
(* The inductive invariant holds in every reachable state.                  *)
THEOREM VaultInvariance == Spec => []IInv
<1>1. IInv /\ [Next]_vars => IInv'
  <2> SUFFICES ASSUME IInv, [Next]_vars PROVE IInv'
    OBVIOUS
  <2>1. CASE Next
    <3>1. Types'
      BY <2>1, TypesStep
    <3>2. LockInv'
      BY <2>1, LockStep DEF IInv, Types, ObjectTypes
    <3>3. VaultInv'
      BY <2>1, VaultStep
    <3>4. QED
      BY <3>1, <3>2, <3>3 DEF IInv
  <2>2. CASE UNCHANGED vars
    <3> USE <2>2 DEF vars, registryVars, fileVars, upstreamVars, poolVars, objectVars,
                     threadVars, opVars, IInv
    <3>1. Types'
      BY DEF Types, FileTypes, UpstreamTypes, ObjectTypes, ThreadTypes, OpTypes
    <3>2. LockInv'
      BY DEF LockInv
    <3>3. VaultInv'
      BY DEF VaultInv, ObjectInv, FileInv, EnabledInv, AddInv, SwitchInv, RemoveInv,
         Referenced
    <3>4. QED
      BY <3>1, <3>2, <3>3
  <2>3. QED
    BY <2>1, <2>2
<1>2. QED
  BY VaultInit, <1>1, PTL DEF Spec

(* The state is well typed, and a thread holds the lock of its object       *)
(* exactly while it is inside ensureFreshToken.                             *)
THEOREM VaultTypeCorrect == Spec => []TypeOK
<1>1. IInv => TypeOK
  BY TypeParts DEF IInv
<1>2. QED
  BY VaultInvariance, <1>1, PTL

(* The vault never holds an earlier login than its row names: persist's     *)
(* comparison of generations keeps objects of earlier logins out.           *)
THEOREM NoStaleVault == Spec => []VaultNotOlder
<1>1. IInv => VaultNotOlder
  BY DEF IInv, VaultInv, FileInv, VaultNotOlder, Types, FileTypes
<1>2. QED
  BY VaultInvariance, <1>1, PTL

(* Every row has a vault file, at every step of every operation, whatever   *)
(* write fails and wherever the program crashes.                            *)
THEOREM RowsLoad == Spec => []RowHasVault
<1>1. IInv => RowHasVault
  BY DEF IInv, VaultInv, FileInv, RowHasVault, Types, FileTypes
<1>2. QED
  BY VaultInvariance, <1>1, PTL

(* The enabled object is the object of the active row, in its generation    *)
(* and of the selected source, so that persist writes what it rotates.      *)
THEOREM EnabledIsWritten == Spec => []EnabledPersists
<1>1. IInv => EnabledPersists
  BY DEF IInv, VaultInv, EnabledInv, EnabledPersists, Persistable
<1>2. QED
  BY VaultInvariance, <1>1, PTL

(* A vault file that was deleted with its row is never written again.       *)
THEOREM NoResurrection == Spec => DeletedStaysDeleted
<1>1. IInv /\ [Next]_vars => [\A i \in gone : vaultLogin[i] = 0 => vaultLogin'[i] = 0]_vars
  <2> SUFFICES ASSUME IInv, Next, NEW i \in gone, vaultLogin[i] = 0 PROVE vaultLogin'[i] = 0
    OBVIOUS
  <2> USE DEF IInv, Types, VaultInv, vars, fileVars, registryVars
  <2>0. i \in Id /\ rows[i] = 0
    BY DEF FileInv, FileTypes
  <2>1. CASE AddWrite
    BY <2>0, <2>1 DEF AddWrite, AddInv, RemoveInv, SwitchInv, OpTypes, FileTypes
  <2>2. CASE RemoveFile
    BY <2>0, <2>2 DEF RemoveFile, FileTypes
  <2>3. ASSUME NEW t \in Thread, persist(t) PROVE vaultLogin'[i] = 0
    <3>1. idOf[acct[t]] # i \/ ~Persistable(acct[t])
      BY <2>0 DEF Persistable
    <3>2. QED
      BY <2>0, <2>3, <3>1 DEF persist, FileTypes
  <2>4. CASE UNCHANGED vaultLogin
    BY <2>4
  <2>5. \/ AddWrite \/ RemoveFile \/ (\E t \in Thread : persist(t)) \/ UNCHANGED vaultLogin
    BY DEF Next, Operation, Refresh, StartAdd, StartEnable, StartSetSource, StartRemove,
       StartSwitch,
           AddCommit, SwitchCommit, RemoveCommit, Take, Enter, Exchange, BatchStart, BatchEnd,
           BatchTake, Restart
  <2>6. QED
    BY <2>1, <2>2, <2>3, <2>4, <2>5
<1>2. QED
  BY VaultInvariance, <1>1, PTL DEF Spec, DeletedStaysDeleted

-----------------------------------------------------------------------------
(* Whose the tokens are.  A login is of one row, a token is at most as new  *)
(* as the one the upstream gave last, and a login that was not made has     *)
(* none.                                                                    *)
OwnerInv ==
  \E owner \in [1..MaxLogin -> Id \cup {None}] :
    /\ \A o \in Object : loginOf[o] # 0 => owner[loginOf[o]] = idOf[o]
    /\ \A i \in Id : vaultLogin[i] # 0 => owner[vaultLogin[i]] = i

TurnInv ==
  /\ logins <= MaxLogin
  /\ \A g \in 1..MaxLogin : g > logins => latest[g] = 0
  /\ \A o \in Object : loginOf[o] # 0 => turnOf[o] <= latest[loginOf[o]]
  /\ \A i \in Id : vaultLogin[i] # 0 => vaultTurn[i] <= latest[vaultLogin[i]]

(* The object of a thread is of the login in the row, or of an earlier one  *)
(* than any the vault will hold again.                                      *)
HolderInv ==
  \A t \in Thread : acct[t] # None =>
    /\ genOf[acct[t]] > 0
    /\ \/ rows[idOf[acct[t]]] \in {0, genOf[acct[t]]}
       \/ loginOf[acct[t]] < rows[idOf[acct[t]]]

(* A thread writes the token of a dirty object, and has the token exchanged *)
(* of one that is not,                                                      *)
WriterInv ==
  \A t \in Thread :
    /\ pc[t] \in {"retry", "persist"} => acct[t] \in dirty
    /\ pc[t] = "exchange" => acct[t] \notin dirty

(* and a dirty object has the only copy of the last token of its login.     *)
DirtyInv ==
  \A o \in dirty :
    /\ loginOf[o] # 0 /\ turnOf[o] = latest[loginOf[o]]
    /\ \A x \in Object \ {o} : loginOf[x] = loginOf[o] => turnOf[x] < turnOf[o]
    /\ \A i \in Id : vaultLogin[i] = loginOf[o] => vaultTurn[i] < turnOf[o]

(* The token of a login that is being added is nowhere but in its object    *)
(* and, once written, in the vault.                                         *)
NewInv ==
  opPc # "idle" /\ opKind = "add" =>
    /\ turnOf[opNew] = 0 /\ latest[logins] = 0
    /\ opNew # pool /\ opNew \notin dirty
    /\ \A t \in Thread : acct[t] # opNew
    /\ \A o \in Object \ {opNew} : loginOf[o] < logins
    /\ \A i \in Id : vaultLogin[i] < logins \/ (opPc = "commit" /\ i = opId)
    /\ opPc = "commit" => vaultTurn[opId] = 0

TokenInv == OwnerInv /\ TurnInv /\ HolderInv /\ WriterInv /\ DirtyInv /\ NewInv

(* A step that gives out and rotates no token only copies and drops them:   *)
(* from the vault to an object, and from an object that is not dirty then   *)
(* to the vault.                                                            *)
Copied ==
  /\ UNCHANGED <<logins, latest>>
  /\ dirty' \subseteq dirty
  /\ \A o \in dirty' : loginOf'[o] = loginOf[o] /\ turnOf'[o] = turnOf[o]
  /\ \A o \in Object :
       \/ loginOf'[o] = 0
       \/ idOf'[o] = idOf[o] /\ loginOf'[o] = loginOf[o] /\ turnOf'[o] = turnOf[o]
       \/ \E i \in Id : idOf'[o] = i /\ loginOf'[o] = vaultLogin[i] /\ turnOf'[o] = vaultTurn[i]
  /\ \A i \in Id :
       \/ vaultLogin'[i] = 0
       \/ vaultLogin'[i] = vaultLogin[i] /\ vaultTurn'[i] = vaultTurn[i]
       \/ \E o \in Object \ dirty' :
            idOf[o] = i /\ vaultLogin'[i] = loginOf[o] /\ vaultTurn'[i] = turnOf[o]

(* A thread that is inside ensureFreshToken or on its way there has an      *)
(* object of a row, which no operation and no other thread loads.           *)
LEMMA Holding ==
  ASSUME IInv, NEW t \in Thread, pc[t] # "idle" \/ acct[t] # None
  PROVE  acct[t] \in Object /\ idOf[acct[t]] \in Id /\ ~Fresh(acct[t])
<1>1. acct[t] # None /\ acct[t] \in Object
  BY DEF IInv, LockInv, Types, ThreadTypes
<1>2. acct[t] \in Referenced
  BY DEF Referenced
<1> QED
  BY <1>1, <1>2 DEF Fresh, IInv, VaultInv, ObjectInv

(* What enable and the batch load from the vault is a copy.                 *)
LEMMA LoadCopies ==
  ASSUME IInv, NEW i \in Id, NEW o \in Object, Load(o, i), UNCHANGED <<logins, latest, fileVars>>
  PROVE  Copied
<1>1. /\ idOf'[o] = i /\ loginOf'[o] = vaultLogin[i] /\ turnOf'[o] = vaultTurn[i]
      /\ \A x \in Object \ {o} :
            idOf'[x] = idOf[x] /\ loginOf'[x] = loginOf[x] /\ turnOf'[x] = turnOf[x]
  BY DEF Load, IInv, Types, ObjectTypes
<1>2. dirty' = dirty \ {o} /\ dirty \subseteq Object
  BY DEF Load, IInv, Types, ObjectTypes
<1> QED
  BY <1>1, <1>2 DEF Copied, fileVars

(* Every step but these two only copies and drops tokens.                   *)
LEMMA CopySteps ==
  ASSUME IInv, NewInv, Next,
         ~ \E i \in Id, o \in Object : StartAdd(i, o),
         ~ \E t \in Thread : Exchange(t)
  PROVE  Copied
<1>a. ASSUME UNCHANGED <<upstreamVars, objectVars, fileVars, dirty>> PROVE Copied
  BY <1>a DEF Copied, upstreamVars, objectVars, fileVars
<1>1. ASSUME NEW i \in Id, NEW o \in Object, StartEnable(i, o) PROVE Copied
  BY <1>1, LoadCopies DEF StartEnable, StartSwitch, upstreamVars
<1>2. CASE \/ \E s \in Source : StartSetSource(s)
           \/ \E i \in Id : StartRemove(i)
           \/ AddCommit \/ SwitchCommit \/ RemoveCommit
           \/ \E t \in Thread : Take(t) \/ Enter(t)
           \/ BatchStart \/ BatchEnd
  BY <1>2, <1>a DEF StartSetSource, StartRemove, StartSwitch, AddCommit, SwitchCommit,
     RemoveCommit, Take, Enter, BatchStart, BatchEnd, upstreamVars
<1>3. CASE AddWrite
  <2>1. CASE UNCHANGED fileVars
    BY <1>3, <1>a, <2>1 DEF AddWrite
  <2>2. CASE /\ vaultLogin' = [vaultLogin EXCEPT ![opId] = loginOf[opNew]]
             /\ vaultTurn' = [vaultTurn EXCEPT ![opId] = turnOf[opNew]]
    <3>1. opNew \in Object \ dirty /\ opId \in Id /\ idOf[opNew] = opId
      BY <1>3 DEF AddWrite, IInv, VaultInv, AddInv, SwitchInv, RemoveInv, NewInv, Types, OpTypes
    <3>2. /\ vaultLogin'[opId] = loginOf[opNew] /\ vaultTurn'[opId] = turnOf[opNew]
          /\ \A i \in Id \ {opId} : vaultLogin'[i] = vaultLogin[i] /\ vaultTurn'[i] = vaultTurn[i]
      BY <2>2, <3>1 DEF IInv, Types, FileTypes
    <3>3. UNCHANGED <<upstreamVars, objectVars, dirty>>
      BY <1>3 DEF AddWrite
    <3> QED  BY <3>1, <3>2, <3>3 DEF Copied, upstreamVars, objectVars
  <2> QED  BY <1>3, <2>1, <2>2 DEF AddWrite
<1>4. CASE RemoveFile
  <2>1. CASE UNCHANGED fileVars
    BY <1>4, <1>a, <2>1 DEF RemoveFile
  <2>2. CASE /\ vaultLogin' = [vaultLogin EXCEPT ![opId] = 0]
             /\ vaultTurn' = [vaultTurn EXCEPT ![opId] = 0]
    <3>1. \A i \in Id :
            \/ vaultLogin'[i] = 0
            \/ vaultLogin'[i] = vaultLogin[i] /\ vaultTurn'[i] = vaultTurn[i]
      BY <2>2 DEF IInv, Types, FileTypes
    <3>2. UNCHANGED <<upstreamVars, objectVars, dirty>>
      BY <1>4 DEF RemoveFile
    <3> QED  BY <3>1, <3>2 DEF Copied, upstreamVars, objectVars
  <2> QED  BY <1>4, <2>1, <2>2 DEF RemoveFile
<1>5. ASSUME NEW t \in Thread, persist(t) PROVE Copied
  <2>0. acct[t] \in Object /\ idOf[acct[t]] \in Id
    BY <1>5, Holding DEF persist
  <2>1. CASE UNCHANGED fileVars
    <3>1. UNCHANGED <<upstreamVars, objectVars, fileVars>> /\ dirty' \subseteq dirty
      BY <1>5, <2>1 DEF persist, PersistDone
    <3> QED  BY <3>1 DEF Copied, upstreamVars, objectVars, fileVars
  <2>2. CASE /\ vaultLogin' = [vaultLogin EXCEPT ![idOf[acct[t]]] = loginOf[acct[t]]]
             /\ vaultTurn' = [vaultTurn EXCEPT ![idOf[acct[t]]] = turnOf[acct[t]]]
             /\ PersistDone(t)
    <3>1. dirty' = dirty \ {acct[t]} /\ acct[t] \in Object \ dirty'
      BY <2>0, <2>2 DEF PersistDone
    <3>2. /\ vaultLogin'[idOf[acct[t]]] = loginOf[acct[t]] /\ vaultTurn'[idOf[acct[t]]] = turnOf[acct[t]]
          /\ \A i \in Id \ {idOf[acct[t]]} :
               vaultLogin'[i] = vaultLogin[i] /\ vaultTurn'[i] = vaultTurn[i]
      BY <2>0, <2>2 DEF IInv, Types, FileTypes
    <3>3. UNCHANGED <<upstreamVars, objectVars>>
      BY <1>5 DEF persist
    <3> QED  BY <3>1, <3>2, <3>3 DEF Copied, upstreamVars, objectVars
  <2> QED  BY <1>5, <2>1, <2>2 DEF persist
<1>6. ASSUME NEW i \in Id, NEW o \in Object, BatchTake(i, o) PROVE Copied
  BY <1>6, <1>a, LoadCopies DEF BatchTake, upstreamVars
<1>7. ASSUME NEW o \in Object, Restart(o) PROVE Copied
  <2>1. UNCHANGED <<upstreamVars, fileVars>> /\ dirty' = {}
    BY <1>7 DEF Restart
  <2>2. \A x \in Object :
          \/ loginOf'[x] = 0
          \/ /\ enabled \in Id /\ idOf'[x] = enabled
             /\ loginOf'[x] = vaultLogin[enabled] /\ turnOf'[x] = vaultTurn[enabled]
    BY <1>7 DEF Restart, IInv, Types, FileTypes
  <2> QED  BY <2>1, <2>2 DEF Copied, upstreamVars, fileVars
<1> QED
  BY <1>1, <1>2, <1>3, <1>4, <1>5, <1>6, <1>7 DEF Next, Operation, Refresh

(* What the two other steps do: a login is made,                            *)
LEMMA AddStarts ==
  ASSUME IInv, NEW i \in Id, NEW o \in Object, StartAdd(i, o)
  PROVE  /\ logins < MaxLogin /\ logins' = logins + 1
         /\ idOf'[o] = i /\ loginOf'[o] = logins + 1 /\ turnOf'[o] = 0 /\ dirty' = dirty \ {o}
         /\ \A x \in Object \ {o} :
               idOf'[x] = idOf[x] /\ loginOf'[x] = loginOf[x] /\ turnOf'[x] = turnOf[x]
         /\ latest' = latest /\ vaultLogin' = vaultLogin /\ vaultTurn' = vaultTurn
         /\ opNew' = o /\ opPc' = "write" /\ pool' = pool /\ acct' = acct
BY DEF StartAdd, IInv, Types, ObjectTypes, fileVars, threadVars

(* or a token is rotated: the object has the new one,                       *)
Rotated(t) ==
  /\ dirty' = dirty \cup {acct[t]}
  /\ turnOf' = [turnOf EXCEPT ![acct[t]] = @ + 1]
  /\ pc' = [pc EXCEPT ![t] = "persist"]
  /\ UNCHANGED <<acct, lost>>
(* or no one has it.                                                        *)
AnswerLost(t) ==
  /\ UNCHANGED <<dirty, turnOf>>
  /\ lost' = lost \cup {loginOf[acct[t]]}
  /\ Leave(t)
LEMMA Rotates ==
  ASSUME IInv, NEW t \in Thread, Exchange(t)
  PROVE  /\ pc[t] = "exchange" /\ acct[t] \in Object
         /\ \/ Leave(t) /\ UNCHANGED <<latest, turnOf, dirty, lost>>
            \/ /\ turnOf[acct[t]] = latest[loginOf[acct[t]]]
               /\ latest' = [latest EXCEPT ![loginOf[acct[t]]] = @ + 1]
               /\ Rotated(t) \/ AnswerLost(t)
BY Holding DEF Exchange, Valid, Goto, Rotated, AnswerLost

(* The tokens of the objects after it.                                      *)
LEMMA RotatedTurns ==
  ASSUME IInv, NEW t \in Thread, acct[t] \in Object, Rotated(t) \/ AnswerLost(t)
  PROVE  /\ turnOf'[acct[t]] \in {turnOf[acct[t]], turnOf[acct[t]] + 1}
         /\ Rotated(t) => turnOf'[acct[t]] = turnOf[acct[t]] + 1
         /\ \A x \in Object \ {acct[t]} : turnOf'[x] = turnOf[x]
         /\ \A u \in Thread : acct'[u] \in {acct[u], None}
BY DEF Rotated, AnswerLost, Leave, IInv, Types, ObjectTypes, ThreadTypes

(* Rotating leaves the rows, the files and the operation alone.             *)
LEMMA RotateKeeps ==
  ASSUME NEW t \in Thread, Exchange(t)
  PROVE  UNCHANGED <<rows, vaultLogin, vaultTurn, logins, pool, idOf, genOf, loginOf, opVars>>
BY DEF Exchange, registryVars, fileVars, poolVars

(* A login stays with its row.                                              *)
LEMMA OwnerStep ==
  ASSUME IInv, NewInv, OwnerInv, Next
  PROVE  OwnerInv'
<1>1. PICK owner \in [1..MaxLogin -> Id \cup {None}] :
        /\ \A o \in Object : loginOf[o] # 0 => owner[loginOf[o]] = idOf[o]
        /\ \A i \in Id : vaultLogin[i] # 0 => owner[vaultLogin[i]] = i
  BY DEF OwnerInv
<1>2. CASE Copied
  <2>1. \A o \in Object : loginOf'[o] # 0 => owner[loginOf'[o]] = idOf'[o]
    BY <1>1, <1>2 DEF Copied
  <2>2. \A i \in Id : vaultLogin'[i] # 0 => owner[vaultLogin'[i]] = i
    BY <1>1, <1>2 DEF Copied
  <2> QED  BY <2>1, <2>2 DEF OwnerInv
<1>3. ASSUME NEW t \in Thread, Exchange(t) PROVE OwnerInv'
  <2>1. UNCHANGED <<vaultLogin, idOf, loginOf>>
    BY <1>3, RotateKeeps
  <2> QED  BY <2>1 DEF OwnerInv
<1>4. ASSUME NEW i \in Id, NEW o \in Object, StartAdd(i, o) PROVE OwnerInv'
  <2> DEFINE f == [owner EXCEPT ![logins + 1] = i]
  <2>1. \A x \in Object : loginOf[x] \in 0 .. logins
    BY DEF IInv, VaultInv, ObjectInv, Types, ObjectTypes, UpstreamTypes
  <2>2. \A k \in Id : vaultLogin[k] \in 0 .. logins
    BY DEF IInv, VaultInv, FileInv, Types, FileTypes, UpstreamTypes
  <2>3. logins \in Nat /\ MaxLogin \in Nat /\ logins + 1 \in 1..MaxLogin
    BY <1>4, AddStarts, VaultAssumption DEF IInv, Types, UpstreamTypes
  <2>4. /\ f \in [1..MaxLogin -> Id \cup {None}] /\ f[logins + 1] = i
        /\ \A g \in 1..logins : f[g] = owner[g]
    BY <2>3
  <2> HIDE DEF f
  <2>5. \A x \in Object : loginOf'[x] # 0 => f[loginOf'[x]] = idOf'[x]
    BY <1>1, <1>4, <2>1, <2>4, AddStarts
  <2>6. \A k \in Id : vaultLogin'[k] # 0 => f[vaultLogin'[k]] = k
    BY <1>1, <1>4, <2>2, <2>4, AddStarts
  <2> QED  BY <2>4, <2>5, <2>6 DEF OwnerInv
<1> QED
  BY <1>2, <1>3, <1>4, CopySteps

(* Where a login can be looked up.                                          *)
LEMMA LoginRange ==
  ASSUME IInv, TurnInv
  PROVE  /\ logins \in Nat /\ MaxLogin \in Nat /\ logins <= MaxLogin
         /\ \A o \in Object : loginOf[o] \in 0..logins /\ turnOf[o] \in Nat
         /\ \A i \in Id : vaultLogin[i] \in 0..logins /\ vaultTurn[i] \in Nat
         /\ \A g \in 1..logins : g \in 1..MaxLogin /\ latest[g] \in Nat
<1>1. logins \in Nat /\ MaxLogin \in Nat /\ logins <= MaxLogin
  BY VaultAssumption DEF IInv, Types, UpstreamTypes, TurnInv
<1>2. \A o \in Object : loginOf[o] \in 0..logins /\ turnOf[o] \in Nat
  BY <1>1 DEF IInv, VaultInv, ObjectInv, Types, ObjectTypes
<1>3. \A i \in Id : vaultLogin[i] \in 0..logins /\ vaultTurn[i] \in Nat
  BY <1>1 DEF IInv, VaultInv, FileInv, Types, FileTypes
<1>4. \A g \in 1..logins : g \in 1..MaxLogin /\ latest[g] \in Nat
  BY <1>1 DEF IInv, Types, UpstreamTypes
<1> QED
  BY <1>1, <1>2, <1>3, <1>4

(* No token is newer than the one the upstream gave last.                   *)
LEMMA TurnStep ==
  ASSUME IInv, NewInv, TurnInv, Next
  PROVE  TurnInv'
<1>1. CASE Copied
  <2>1. \A o \in Object : loginOf'[o] # 0 => turnOf'[o] <= latest'[loginOf'[o]]
    BY <1>1 DEF Copied, TurnInv
  <2>2. \A i \in Id : vaultLogin'[i] # 0 => vaultTurn'[i] <= latest'[vaultLogin'[i]]
    BY <1>1 DEF Copied, TurnInv
  <2> QED  BY <1>1, <2>1, <2>2 DEF Copied, TurnInv
<1>2. ASSUME NEW t \in Thread, Exchange(t) PROVE TurnInv'
  <2> DEFINE h == loginOf[acct[t]]
  <2>1. CASE UNCHANGED <<latest, turnOf>>
    BY <1>2, <2>1, RotateKeeps DEF TurnInv
  <2>2. CASE /\ turnOf[acct[t]] = latest[h] /\ latest' = [latest EXCEPT ![h] = @ + 1]
             /\ Rotated(t) \/ AnswerLost(t)
    <3>1. /\ acct[t] \in Object /\ turnOf[acct[t]] = latest[h]
          /\ turnOf'[acct[t]] \in {turnOf[acct[t]], turnOf[acct[t]] + 1}
          /\ \A x \in Object \ {acct[t]} : turnOf'[x] = turnOf[x]
          /\ latest' = [latest EXCEPT ![h] = @ + 1]
      BY <1>2, <2>2, Rotates, RotatedTurns
    <3>2. \A g \in 1..MaxLogin : latest'[g] = IF g = h THEN latest[g] + 1 ELSE latest[g]
      BY <3>1 DEF IInv, Types, UpstreamTypes
    <3>3. h \in 0..logins
      BY <3>1, LoginRange
    <3> HIDE DEF h
    <3>4. \A g \in 1..MaxLogin : g > logins => latest'[g] = 0
      BY <3>2, <3>3, LoginRange DEF TurnInv
    <3>5. \A g \in 1..logins : latest[g] <= latest'[g]
      BY <3>2, LoginRange
    <3>6. \A x \in Object : loginOf[x] # 0 => turnOf'[x] <= latest'[loginOf[x]]
      <4> SUFFICES ASSUME NEW x \in Object, loginOf[x] # 0 PROVE turnOf'[x] <= latest'[loginOf[x]]
        OBVIOUS
      <4>1. loginOf[x] \in 1..logins /\ loginOf[x] \in 1..MaxLogin /\ turnOf[x] \in Nat /\ latest[loginOf[x]] \in Nat
        BY LoginRange
      <4>2. CASE x = acct[t]
        BY <3>1, <3>2, <4>1, <4>2 DEF h
      <4>3. CASE x # acct[t]
        BY <3>1, <3>2, <4>1, <4>3 DEF TurnInv
      <4> QED  BY <4>2, <4>3
    <3>7. \A i \in Id : vaultLogin[i] # 0 => vaultTurn[i] <= latest'[vaultLogin[i]]
      <4> SUFFICES ASSUME NEW i \in Id, vaultLogin[i] # 0 PROVE vaultTurn[i] <= latest'[vaultLogin[i]]
        OBVIOUS
      <4>1. vaultLogin[i] \in 1..MaxLogin /\ vaultTurn[i] \in Nat /\ latest[vaultLogin[i]] \in Nat
        BY LoginRange
      <4> QED  BY <3>2, <4>1 DEF TurnInv
    <3> QED  BY <1>2, <3>4, <3>6, <3>7, RotateKeeps DEF TurnInv
  <2> QED  BY <1>2, <2>1, <2>2, Rotates
<1>3. ASSUME NEW i \in Id, NEW o \in Object, StartAdd(i, o) PROVE TurnInv'
  <2>1. logins + 1 \in 1..MaxLogin /\ latest[logins + 1] = 0 /\ logins' <= MaxLogin
    BY <1>3, AddStarts, LoginRange DEF TurnInv
  <2>2. \A x \in Object : loginOf'[x] # 0 => turnOf'[x] <= latest'[loginOf'[x]]
    <3> SUFFICES ASSUME NEW x \in Object, loginOf'[x] # 0 PROVE turnOf'[x] <= latest'[loginOf'[x]]
      OBVIOUS
    <3>1. CASE x = o
      BY <1>3, <2>1, <3>1, AddStarts
    <3>2. CASE x # o
      BY <1>3, <3>2, AddStarts DEF TurnInv
    <3> QED  BY <3>1, <3>2
  <2>3. \A k \in Id : vaultLogin'[k] # 0 => vaultTurn'[k] <= latest'[vaultLogin'[k]]
    BY <1>3, AddStarts DEF TurnInv
  <2>4. \A g \in 1..MaxLogin : g > logins' => latest'[g] = 0
    BY <1>3, AddStarts, LoginRange DEF TurnInv
  <2> QED  BY <2>1, <2>2, <2>3, <2>4 DEF TurnInv
<1> QED
  BY <1>1, <1>2, <1>3, CopySteps

(* A dirty object stays dirty until its thread is done with it.             *)
LEMMA WriterStep ==
  ASSUME IInv, WriterInv, Next
  PROVE  WriterInv'
<1> USE DEF IInv, Types, ThreadTypes, ObjectTypes
<1>a. ASSUME UNCHANGED <<pc, acct>>,
             NEW o, Fresh(o), dirty' = dirty \ {o}
      PROVE  WriterInv'
  BY <1>a, Holding DEF WriterInv
<1>b. ASSUME UNCHANGED dirty,
             \A t \in Thread : pc'[t] \in Locked => pc'[t] = pc[t] /\ acct'[t] = acct[t]
      PROVE  WriterInv'
  BY <1>b DEF WriterInv, Locked
<1>1. ASSUME NEW i \in Id, NEW o \in Object, StartAdd(i, o) PROVE WriterInv'
  BY <1>1, <1>a DEF StartAdd, threadVars
<1>2. ASSUME NEW i \in Id, NEW o \in Object, StartEnable(i, o) PROVE WriterInv'
  BY <1>2, <1>a DEF StartEnable, StartSwitch, Load, threadVars
<1>3. CASE \/ \E s \in Source : StartSetSource(s)
           \/ \E i \in Id : StartRemove(i)
           \/ AddWrite \/ AddCommit \/ SwitchCommit \/ RemoveCommit \/ RemoveFile
           \/ BatchStart \/ BatchEnd
  BY <1>3, <1>b DEF StartSetSource, StartRemove, StartSwitch, AddWrite, AddCommit, SwitchCommit,
     RemoveCommit, RemoveFile, BatchStart, BatchEnd, threadVars
<1>4. ASSUME NEW t \in Thread, Take(t) PROVE WriterInv'
  BY <1>4, <1>b DEF Take, Goto, Locked
<1>5. ASSUME NEW t \in Thread, Enter(t) PROVE WriterInv'
  <2>1. CASE pc' = [pc EXCEPT ![t] = "retry"]
    BY <1>5, <2>1 DEF Enter, Goto, WriterInv
  <2>2. CASE pc' = [pc EXCEPT ![t] = "exchange"]
    BY <1>5, <2>2 DEF Enter, Goto, WriterInv
  <2>3. CASE pc' = [pc EXCEPT ![t] = "idle"]
    BY <1>5, <2>3, <1>b DEF Enter, Goto, Locked
  <2> QED  BY <1>5, <2>1, <2>2, <2>3 DEF Enter, Goto
<1>6. ASSUME NEW t \in Thread, Exchange(t) PROVE WriterInv'
  <2>1. CASE Leave(t) /\ UNCHANGED dirty
    BY <2>1, <1>b DEF Leave, Locked
  <2>2. CASE dirty' = dirty \cup {acct[t]} /\ Goto(t, "persist") /\ UNCHANGED <<rmtx, acct>>
    <3>1. pc[t] = "exchange" /\ acct[t] \in Object
      BY <1>6, Holding DEF Exchange
    <3>2. \A u \in Thread \ {t} : pc[u] = "exchange" => acct[u] # acct[t]
      BY <3>1 DEF LockInv, Locked
    <3> QED  BY <2>2, <3>2 DEF Goto, WriterInv
  <2> QED  BY <1>6, <2>1, <2>2 DEF Exchange
<1>7. ASSUME NEW t \in Thread, persist(t) PROVE WriterInv'
  <2>0. pc[t] \in {"retry", "persist"} /\ acct[t] \in Object
    BY <1>7, Holding DEF persist
  <2>1. CASE PersistDone(t)
    <3>1. dirty' = dirty \ {acct[t]}
      BY <2>1 DEF PersistDone
    <3>2. \A u \in Thread \ {t} : pc'[u] = pc[u] /\ acct'[u] = acct[u]
      BY <2>1 DEF PersistDone, Goto, Leave
    <3>3. pc'[t] \notin {"retry", "persist"} /\ (pc'[t] = "exchange" => acct'[t] = acct[t])
      BY <2>1 DEF PersistDone, Goto, Leave
    <3>4. \A u \in Thread \ {t} : pc[u] \in {"retry", "persist"} => acct[u] # acct[t]
      <4> SUFFICES ASSUME NEW u \in Thread \ {t}, pc[u] \in {"retry", "persist"}, acct[u] = acct[t] PROVE FALSE
        OBVIOUS
      <4>1. rmtx[acct[t]] = u /\ rmtx[acct[t]] = t
        BY <2>0 DEF LockInv, Locked
      <4> QED  BY <4>1
    <3> QED  BY <3>1, <3>2, <3>3, <3>4 DEF WriterInv
  <2>2. CASE Leave(t) /\ UNCHANGED dirty
    BY <2>2, <1>b DEF Leave, Locked
  <2> QED  BY <1>7, <2>1, <2>2 DEF persist
<1>8. ASSUME NEW i \in Id, NEW o \in Object, BatchTake(i, o) PROVE WriterInv'
  <2>1. /\ "batch" \in Thread /\ pc' = [pc EXCEPT !["batch"] = "ensure"]
        /\ \A u \in Thread \ {"batch"} : pc'[u] = pc[u] /\ acct'[u] = acct[u]
    BY <1>8 DEF BatchTake, Goto
  <2>2. UNCHANGED dirty \/ (Fresh(o) /\ dirty' = dirty \ {o})
    BY <1>8 DEF BatchTake, Load
  <2>3. \A u \in Thread : pc[u] \in {"retry", "persist"} => acct[u] \in dirty /\ ~Fresh(acct[u])
    BY Holding DEF WriterInv
  <2> QED  BY <2>1, <2>2, <2>3 DEF WriterInv
<1>9. ASSUME NEW o \in Object, Restart(o) PROVE WriterInv'
  BY <1>9 DEF Restart, WriterInv
<1> QED
  BY <1>1, <1>2, <1>3, <1>4, <1>5, <1>6, <1>7, <1>8, <1>9 DEF Next, Operation, Refresh

(* The copy of a dirty object's token is the only one.                      *)
LEMMA DirtyStep ==
  ASSUME IInv, NewInv, TurnInv, HolderInv, WriterInv, DirtyInv, Next
  PROVE  DirtyInv'
<1>0. dirty \subseteq Object
  BY DEF IInv, Types, ObjectTypes
<1>1. CASE Copied
  <2> SUFFICES ASSUME NEW o \in dirty'
               PROVE  /\ loginOf'[o] # 0 /\ turnOf'[o] = latest'[loginOf'[o]]
                      /\ \A x \in Object \ {o} : loginOf'[x] = loginOf'[o] => turnOf'[x] < turnOf'[o]
                      /\ \A i \in Id : vaultLogin'[i] = loginOf'[o] => vaultTurn'[i] < turnOf'[o]
    BY DEF DirtyInv
  <2>1. o \in dirty /\ o \in Object /\ loginOf'[o] = loginOf[o] /\ turnOf'[o] = turnOf[o] /\ latest' = latest
    BY <1>0, <1>1 DEF Copied
  <2>2. /\ loginOf[o] # 0 /\ turnOf[o] = latest[loginOf[o]]
        /\ \A x \in Object \ {o} : loginOf[x] = loginOf[o] => turnOf[x] < turnOf[o]
        /\ \A i \in Id : vaultLogin[i] = loginOf[o] => vaultTurn[i] < turnOf[o]
    BY <2>1 DEF DirtyInv
  <2>3. ASSUME NEW x \in Object \ {o}, loginOf'[x] = loginOf[o] PROVE turnOf'[x] < turnOf[o]
    BY <1>1, <2>2, <2>3 DEF Copied
  <2>4. ASSUME NEW i \in Id, vaultLogin'[i] = loginOf[o] PROVE vaultTurn'[i] < turnOf[o]
    BY <1>1, <2>2, <2>4 DEF Copied
  <2> QED  BY <2>1, <2>2, <2>3, <2>4
<1>2. ASSUME NEW t \in Thread, Exchange(t) PROVE DirtyInv'
  <2> DEFINE a == acct[t]
             h == loginOf[acct[t]]
  <2>1. CASE UNCHANGED <<latest, turnOf, dirty>>
    <3>1. UNCHANGED <<vaultLogin, vaultTurn, loginOf>>
      BY <1>2, RotateKeeps
    <3> QED  BY <2>1, <3>1 DEF DirtyInv
  <2>2. CASE /\ turnOf[a] = latest[h] /\ latest' = [latest EXCEPT ![h] = @ + 1]
             /\ Rotated(t) \/ AnswerLost(t)
    <3>1. /\ a \in Object /\ turnOf[a] = latest[h]
          /\ \A x \in Object \ {a} : turnOf'[x] = turnOf[x]
          /\ latest' = [latest EXCEPT ![h] = @ + 1]
          /\ dirty' \subseteq dirty \cup {a}
      BY <1>2, <2>2, Rotates, RotatedTurns DEF Rotated, AnswerLost
    <3>2. UNCHANGED <<vaultLogin, vaultTurn, loginOf>>
      BY <1>2, RotateKeeps
    <3>3. h \in 1..logins
      <4>1. pc[t] = "exchange"
        BY <1>2, Rotates
      <4>2. genOf[a] > 0
        BY <3>1, <4>1 DEF HolderInv, IInv, LockInv
      <4> QED  BY <3>1, <4>2, LoginRange DEF IInv, VaultInv, ObjectInv, Types, ObjectTypes
    <3>4. latest'[h] = latest[h] + 1 /\ latest[h] \in Nat
      <4>1. h \in 1..MaxLogin
        BY <3>3, LoginRange
      <4> QED  BY <3>1, <4>1 DEF IInv, Types, UpstreamTypes
    <3>5. \A x \in Object : loginOf[x] = h => turnOf[x] <= latest[h] /\ turnOf[x] \in Nat
      BY <3>3, LoginRange DEF TurnInv
    <3>6. \A i \in Id : vaultLogin[i] = h => vaultTurn[i] <= latest[h] /\ vaultTurn[i] \in Nat
      BY <3>3, LoginRange DEF TurnInv
    <3>7. \A o \in dirty \ {a} : loginOf[o] # h
      BY <1>0, <3>1, <3>4 DEF DirtyInv
    <3>8. \A g \in 1..MaxLogin : g # h => latest'[g] = latest[g]
      BY <3>1 DEF IInv, Types, UpstreamTypes
    <3>9. \A o \in dirty : loginOf[o] # 0 => loginOf[o] \in 1..MaxLogin
      BY <1>0, LoginRange
    <3> SUFFICES ASSUME NEW o \in dirty'
                 PROVE  /\ loginOf[o] # 0 /\ turnOf'[o] = latest'[loginOf[o]]
                        /\ \A x \in Object \ {o} : loginOf[x] = loginOf[o] => turnOf'[x] < turnOf'[o]
                        /\ \A i \in Id : vaultLogin[i] = loginOf[o] => vaultTurn[i] < turnOf'[o]
      BY <3>2 DEF DirtyInv
    <3>10. CASE o = a
      <4>0. turnOf'[a] = turnOf[a] + 1
        <5>1. a \notin dirty
          BY <1>2, Rotates DEF WriterInv
        <5> QED  BY <1>2, <2>2, <3>1, <3>10, <5>1, RotatedTurns DEF AnswerLost
      <4>1. turnOf'[a] = latest'[h] /\ h # 0
        BY <3>1, <3>3, <3>4, <4>0
      <4>2. \A x \in Object \ {a} : loginOf[x] = h => turnOf'[x] < turnOf'[a]
        BY <3>1, <3>4, <3>5, <4>0
      <4>3. \A i \in Id : vaultLogin[i] = h => vaultTurn[i] < turnOf'[a]
        BY <3>1, <3>4, <3>6, <4>0
      <4> QED  BY <3>10, <4>1, <4>2, <4>3
    <3>11. CASE o # a
      <4>1. o \in dirty \ {a} /\ o \in Object
        BY <1>0, <3>1, <3>11
      <4>2. loginOf[o] # 0 /\ loginOf[o] # h /\ loginOf[o] \in 1..MaxLogin /\ turnOf[o] = latest[loginOf[o]]
        BY <3>7, <3>9, <4>1 DEF DirtyInv
      <4>3. turnOf'[o] = turnOf[o] /\ latest'[loginOf[o]] = latest[loginOf[o]]
        BY <3>1, <3>8, <4>1, <4>2
      <4>4. \A x \in Object \ {o} : loginOf[x] = loginOf[o] => turnOf'[x] < turnOf[o]
        BY <3>1, <4>1, <4>2 DEF DirtyInv
      <4> QED  BY <4>1, <4>2, <4>3, <4>4 DEF DirtyInv
    <3> QED  BY <3>10, <3>11
  <2> QED  BY <1>2, <2>1, <2>2, Rotates
<1>3. ASSUME NEW i \in Id, NEW o \in Object, StartAdd(i, o) PROVE DirtyInv'
  <2>1. /\ loginOf'[o] = logins + 1 /\ dirty' = dirty \ {o}
        /\ \A x \in Object \ {o} : loginOf'[x] = loginOf[x] /\ turnOf'[x] = turnOf[x]
        /\ UNCHANGED <<latest, vaultLogin, vaultTurn>>
    BY <1>3, AddStarts
  <2>2. \A x \in Object : loginOf[x] # logins + 1
    BY LoginRange
  <2> SUFFICES ASSUME NEW d \in dirty'
               PROVE  /\ loginOf'[d] # 0 /\ turnOf'[d] = latest[loginOf'[d]]
                      /\ \A x \in Object \ {d} : loginOf'[x] = loginOf'[d] => turnOf'[x] < turnOf'[d]
                      /\ \A k \in Id : vaultLogin[k] = loginOf'[d] => vaultTurn[k] < turnOf'[d]
    BY <2>1 DEF DirtyInv
  <2>3. d \in dirty /\ d \in Object \ {o}
    BY <1>0, <2>1
  <2>4. \A x \in Object \ {d} : loginOf'[x] = loginOf'[d] => turnOf'[x] < turnOf'[d]
    BY <2>1, <2>2, <2>3 DEF DirtyInv
  <2> QED  BY <2>1, <2>3, <2>4 DEF DirtyInv
<1> QED
  BY <1>1, <1>2, <1>3, CopySteps

(* A thread takes an object of the row's login.                             *)
LEMMA HolderStep ==
  ASSUME IInv, NewInv, HolderInv, Next
  PROVE  HolderInv'
<1> USE DEF IInv, Types, ThreadTypes, ObjectTypes
<1>a. ASSUME UNCHANGED <<rows, idOf, genOf, loginOf>>,
             \A t \in Thread : acct'[t] \in {acct[t], None}
      PROVE  HolderInv'
  BY <1>a DEF HolderInv
<1>b. ASSUME UNCHANGED <<rows, acct>>, NEW o \in Object, Fresh(o),
             \A x \in Object \ {o} : idOf'[x] = idOf[x] /\ genOf'[x] = genOf[x] /\ loginOf'[x] = loginOf[x]
      PROVE  HolderInv'
  BY <1>b, Holding DEF HolderInv
<1>1. ASSUME NEW i \in Id, NEW o \in Object, StartAdd(i, o) PROVE HolderInv'
  BY <1>1, <1>b DEF StartAdd, threadVars, registryVars
<1>2. ASSUME NEW i \in Id, NEW o \in Object, StartEnable(i, o) PROVE HolderInv'
  BY <1>2, <1>b DEF StartEnable, StartSwitch, Load, threadVars, registryVars
<1>3. CASE \/ \E s \in Source : StartSetSource(s)
           \/ \E i \in Id : StartRemove(i)
           \/ AddWrite \/ SwitchCommit \/ RemoveFile
           \/ BatchStart \/ BatchEnd
  BY <1>3, <1>a DEF StartSetSource, StartRemove, StartSwitch, AddWrite, SwitchCommit,
     RemoveFile, BatchStart, BatchEnd, threadVars, registryVars, objectVars
<1>4. CASE AddCommit
  <2>1. UNCHANGED <<idOf, genOf, loginOf, acct>>
    BY <1>4 DEF AddCommit, objectVars, threadVars
  <2>2. CASE UNCHANGED rows
    BY <2>1, <2>2, <1>a
  <2>3. CASE rows' = [rows EXCEPT ![opId] = genOf[opNew]]
    <3>1. opId \in Id /\ opNew \in Object /\ genOf[opNew] = logins
      BY <1>4 DEF AddCommit, VaultInv, AddInv
    <3>2. rows'[opId] = logins /\ \A i \in Id \ {opId} : rows'[i] = rows[i]
      BY <2>3, <3>1 DEF FileTypes
    <3>3. \A t \in Thread : acct[t] # None => loginOf[acct[t]] < logins
      BY <1>4, Holding DEF AddCommit, NewInv
    <3>4. \A t \in Thread : acct[t] # None => idOf[acct[t]] \in Id
      BY Holding
    <3> QED  BY <2>1, <3>2, <3>3, <3>4 DEF HolderInv
  <2> QED  BY <1>4, <2>2, <2>3 DEF AddCommit
<1>5. CASE RemoveCommit
  <2>1. UNCHANGED <<idOf, genOf, loginOf, acct>>
    BY <1>5 DEF RemoveCommit, objectVars, threadVars
  <2>2. CASE UNCHANGED rows
    BY <2>1, <2>2, <1>a
  <2>3. CASE rows' = [rows EXCEPT ![opId] = 0]
    <3>1. \A i \in Id : rows'[i] \in {0, rows[i]}
      BY <2>3 DEF FileTypes
    <3>2. \A t \in Thread : acct[t] # None => idOf[acct[t]] \in Id
      BY Holding
    <3> QED  BY <2>1, <3>1, <3>2 DEF HolderInv
  <2> QED  BY <1>5, <2>2, <2>3 DEF RemoveCommit
<1>6. ASSUME pool # None PROVE rows[idOf[pool]] = genOf[pool] /\ genOf[pool] > 0
  BY <1>6 DEF VaultInv, EnabledInv, FileTypes
<1>7. ASSUME NEW t \in Thread, Take(t) PROVE HolderInv'
  BY <1>6, <1>7 DEF Take, HolderInv, registryVars, objectVars
<1>8. ASSUME NEW t \in Thread, Enter(t) \/ Exchange(t) \/ persist(t) PROVE HolderInv'
  <2>1. UNCHANGED <<rows, idOf, genOf, loginOf>>
    BY <1>8 DEF Enter, Exchange, persist, registryVars, objectVars
  <2>2. \A u \in Thread : acct'[u] \in {acct[u], None}
    BY <1>8 DEF Enter, Exchange, persist, PersistDone, Leave
  <2> QED  BY <2>1, <2>2, <1>a
<1>9. ASSUME NEW i \in Id, NEW o \in Object, BatchTake(i, o) PROVE HolderInv'
  <2>1. CASE acct' = [acct EXCEPT !["batch"] = pool] /\ UNCHANGED objectVars
    BY <1>6, <1>9, <2>1 DEF BatchTake, IsEnabled, HolderInv, registryVars, objectVars
  <2>2. CASE Load(o, i) /\ Fresh(o) /\ acct' = [acct EXCEPT !["batch"] = o]
    <3>1. /\ idOf'[o] = i /\ genOf'[o] = rows[i] /\ rows[i] > 0 /\ rows' = rows
          /\ \A x \in Object \ {o} : idOf'[x] = idOf[x] /\ genOf'[x] = genOf[x] /\ loginOf'[x] = loginOf[x]
      BY <1>9, <2>2 DEF BatchTake, Load, registryVars, FileTypes
    <3>2. \A t \in Thread : acct[t] # o
      BY <2>2 DEF Fresh, Referenced
    <3>3. \A t \in Thread : acct'[t] = o \/ acct'[t] = acct[t]
      BY <2>2
    <3> QED  BY <3>1, <3>2, <3>3, Holding DEF HolderInv
  <2> QED  BY <1>9, <2>1, <2>2 DEF BatchTake
<1>10. ASSUME NEW o \in Object, Restart(o) PROVE HolderInv'
  BY <1>10 DEF Restart, HolderInv
<1> QED
  BY <1>1, <1>2, <1>3, <1>4, <1>5, <1>7, <1>8, <1>9, <1>10 DEF Next, Operation, Refresh

(* The token of a new login stays where it is while it is being added.      *)
LEMMA NewStep ==
  ASSUME IInv, TurnInv, NewInv, Next
  PROVE  NewInv'
<1> USE DEF IInv, Types, ThreadTypes, ObjectTypes, OpTypes
<1>0. opPc # "idle" /\ opKind = "add" => opNew \in Object /\ opNew # None
  BY VaultAssumption DEF VaultInv, AddInv
<1>a. ASSUME opPc' = "idle" \/ opKind' # "add" PROVE NewInv'
  BY <1>a DEF NewInv
<1>b. ASSUME UNCHANGED <<opVars, pool, latest, logins, turnOf, loginOf, vaultLogin, vaultTurn>>,
             dirty' \subseteq dirty,
             \A t \in Thread : acct'[t] \in {acct[t], pool, None}
      PROVE  NewInv'
  BY <1>0, <1>b DEF NewInv, opVars
<1>1. ASSUME NEW i \in Id, NEW o \in Object, StartAdd(i, o) PROVE NewInv'
  <2>1. o # pool /\ \A t \in Thread : acct[t] # o
    BY <1>1 DEF StartAdd, Fresh, Referenced
  <2>2. latest[logins + 1] = 0 /\ logins \in Nat
    BY <1>1, AddStarts, LoginRange DEF TurnInv
  <2>3. /\ \A x \in Object \ {o} : loginOf'[x] < logins'
        /\ \A k \in Id : vaultLogin'[k] < logins'
    BY <1>1, AddStarts, LoginRange
  <2> QED  BY <1>1, <2>1, <2>2, <2>3, AddStarts DEF NewInv
<1>2. CASE \/ \E i \in Id, o \in Object : StartEnable(i, o)
           \/ \E s \in Source : StartSetSource(s)
           \/ \E i \in Id : StartRemove(i)
           \/ AddCommit \/ SwitchCommit \/ RemoveCommit \/ RemoveFile
           \/ \E o \in Object : Restart(o)
  BY <1>2, <1>a DEF StartEnable, StartSetSource, StartRemove, StartSwitch, AddCommit,
     SwitchCommit, RemoveCommit, RemoveFile, Restart, OpEnd
<1>3. CASE AddWrite
  <2>1. CASE OpEnd
    BY <2>1, <1>a DEF OpEnd
  <2>2. CASE /\ vaultLogin' = [vaultLogin EXCEPT ![opId] = loginOf[opNew]]
             /\ vaultTurn' = [vaultTurn EXCEPT ![opId] = turnOf[opNew]]
             /\ opPc' = "commit" /\ UNCHANGED <<opKind, opId, opNew>>
    <3>1. opKind = "add" /\ opPc # "idle" /\ opId \in Id
      BY <1>3 DEF AddWrite, VaultInv, SwitchInv, RemoveInv, AddInv
    <3>2. /\ vaultTurn'[opId] = turnOf[opNew]
          /\ \A k \in Id \ {opId} : vaultLogin'[k] = vaultLogin[k]
      BY <2>2, <3>1 DEF FileTypes
    <3>3. UNCHANGED <<latest, logins, pool, dirty, acct, loginOf, turnOf>>
      BY <1>3 DEF AddWrite, upstreamVars, poolVars, objectVars, threadVars
    <3> QED  BY <1>3, <2>2, <3>1, <3>2, <3>3 DEF NewInv, AddWrite
  <2> QED  BY <1>3, <2>1, <2>2 DEF AddWrite
<1>4. ASSUME NEW t \in Thread, Take(t) \/ Enter(t) PROVE NewInv'
  <2>1. UNCHANGED <<opVars, pool, latest, logins, turnOf, loginOf, vaultLogin, vaultTurn, dirty>>
    BY <1>4 DEF Take, Enter, poolVars, upstreamVars, objectVars, fileVars
  <2>2. \A u \in Thread : acct'[u] \in {acct[u], pool, None}
    BY <1>4 DEF Take, Enter
  <2> QED  BY <2>1, <2>2, <1>b
<1>5. CASE BatchStart \/ BatchEnd
  BY <1>5, <1>b DEF BatchStart, BatchEnd, poolVars, upstreamVars, objectVars, fileVars
<1>6. ASSUME NEW t \in Thread, Exchange(t) PROVE NewInv'
  <2>1. CASE Leave(t) /\ UNCHANGED <<latest, turnOf, dirty>>
    <3>1. \A u \in Thread : acct'[u] \in {acct[u], None}
      BY <2>1 DEF Leave
    <3> QED  BY <1>6, <2>1, <3>1, <1>b, RotateKeeps
  <2>2. CASE /\ latest' = [latest EXCEPT ![loginOf[acct[t]]] = @ + 1]
             /\ Rotated(t) \/ AnswerLost(t)
    <3>0. SUFFICES ASSUME opPc # "idle", opKind = "add" PROVE NewInv'
      BY <1>6, RotateKeeps DEF NewInv, opVars
    <3>1. /\ acct[t] \in Object /\ acct[t] # None /\ \A x \in Thread : acct'[x] \in {acct[x], None}
          /\ \A x \in Object \ {acct[t]} : turnOf'[x] = turnOf[x]
          /\ latest' = [latest EXCEPT ![loginOf[acct[t]]] = @ + 1]
          /\ dirty' \subseteq dirty \cup {acct[t]}
      BY <1>6, <2>2, Rotates, RotatedTurns DEF Rotated, AnswerLost, LockInv
    <3>2. acct[t] # opNew /\ opNew \in Object /\ loginOf[acct[t]] # logins
      BY <1>0, <3>0, <3>1, LoginRange DEF NewInv
    <3>3. latest'[logins] = latest[logins]
      BY <3>1, <3>2, <3>0, LoginRange DEF VaultInv, AddInv, UpstreamTypes
    <3>4. UNCHANGED <<vaultLogin, vaultTurn, logins, pool, loginOf, opVars>>
      BY <1>6, RotateKeeps
    <3> QED  BY <1>0, <3>0, <3>1, <3>2, <3>3, <3>4 DEF NewInv, opVars
  <2> QED  BY <1>6, <2>1, <2>2, Rotates
<1>7. ASSUME NEW t \in Thread, persist(t) PROVE NewInv'
  BY <1>7, <1>a DEF persist, GuardFree, opVars
<1>8. ASSUME NEW i \in Id, NEW o \in Object, BatchTake(i, o) PROVE NewInv'
  BY <1>8, <1>a DEF BatchTake, GuardFree, opVars
<1> QED
  BY <1>1, <1>2, <1>3, <1>4, <1>5, <1>6, <1>7, <1>8 DEF Next, Operation, Refresh

-----------------------------------------------------------------------------
(* What TokenKept says of one row.                                          *)
Kept(i) ==
  rows[i] # 0 =>
    \/ vaultTurn[i] = latest[vaultLogin[i]]
    \/ vaultLogin[i] \in lost
    \/ \E t \in Thread :
         /\ pc[t] = "persist" /\ loginOf[acct[t]] = vaultLogin[i] /\ Valid(acct[t])
         /\ idOf[acct[t]] = i /\ Persistable(acct[t])

(* TokenKept row by row.                                                    *)
LEMMA KeptRows == TokenKept <=> \A i \in Id : Kept(i)
BY DEF TokenKept, Kept

(* A row that keeps its file keeps its token, if no thread gives up writing *)
(* it.                                                                      *)
LEMMA KeptStays ==
  ASSUME IInv, NEW i \in Id, Kept(i), rows'[i] \in {0, rows[i]},
         vaultLogin'[i] = vaultLogin[i], vaultTurn'[i] = vaultTurn[i],
         latest' = latest, lost \subseteq lost',
         \A t \in Thread : pc[t] = "persist" =>
           /\ pc'[t] = "persist" /\ acct'[t] = acct[t]
           /\ idOf'[acct[t]] = idOf[acct[t]] /\ genOf'[acct[t]] = genOf[acct[t]]
           /\ loginOf'[acct[t]] = loginOf[acct[t]] /\ turnOf'[acct[t]] = turnOf[acct[t]]
  PROVE  Kept(i)'
BY DEF Kept, Valid, Persistable

(* Every step keeps the token of a row.                                     *)
LEMMA KeptStep ==
  ASSUME IInv, TokenInv, NEW i \in Id, Kept(i), Next
  PROVE  Kept(i)'
<1> USE DEF IInv, Types, ThreadTypes, ObjectTypes, OpTypes
<1>a. ASSUME NEW o \in Object, Fresh(o), UNCHANGED <<rows, vaultLogin, vaultTurn, latest, lost>>,
             \A t \in Thread : pc[t] = "persist" => pc'[t] = "persist" /\ acct'[t] = acct[t],
             \A x \in Object \ {o} : idOf'[x] = idOf[x] /\ genOf'[x] = genOf[x]
                                   /\ loginOf'[x] = loginOf[x] /\ turnOf'[x] = turnOf[x]
      PROVE  Kept(i)'
  <2>1. \A t \in Thread : pc[t] = "persist" => acct[t] \in Object \ {o}
    BY <1>a, Holding
  <2> QED  BY <1>a, <2>1, KeptStays
<1>b. ASSUME rows'[i] \in {0, rows[i]}, vaultLogin'[i] = vaultLogin[i], vaultTurn'[i] = vaultTurn[i],
             UNCHANGED <<latest, lost, objectVars>>,
             \A t \in Thread : pc[t] = "persist" => pc'[t] = "persist" /\ acct'[t] = acct[t]
      PROVE  Kept(i)'
  BY <1>b, KeptStays DEF objectVars
<1>1. ASSUME NEW k \in Id, NEW o \in Object, StartAdd(k, o) PROVE Kept(i)'
  BY <1>1, <1>a DEF StartAdd, registryVars, fileVars, threadVars
<1>2. ASSUME NEW k \in Id, NEW o \in Object, StartEnable(k, o) PROVE Kept(i)'
  BY <1>2, <1>a DEF StartEnable, StartSwitch, Load, registryVars, fileVars, upstreamVars, threadVars
<1>3. CASE \/ \E s \in Source : StartSetSource(s)
           \/ \E k \in Id : StartRemove(k)
           \/ SwitchCommit \/ BatchStart \/ BatchEnd
  BY <1>3, <1>b DEF StartSetSource, StartRemove, StartSwitch, SwitchCommit, BatchStart, BatchEnd,
     registryVars, fileVars, upstreamVars, threadVars
<1>4. CASE AddWrite
  <2>1. /\ UNCHANGED <<rows, latest, lost, objectVars, pc, acct>>
        /\ opKind = "add" /\ opPc # "idle" /\ opId \in Id
    BY <1>4 DEF AddWrite, registryVars, upstreamVars, threadVars, VaultInv, SwitchInv, RemoveInv, AddInv
  <2>2. CASE UNCHANGED fileVars \/ i # opId
    <3>1. vaultLogin'[i] = vaultLogin[i] /\ vaultTurn'[i] = vaultTurn[i]
      BY <1>4, <2>1, <2>2 DEF AddWrite, fileVars, FileTypes
    <3> QED  BY <2>1, <3>1, <1>b
  <2>3. CASE /\ i = opId
             /\ vaultLogin' = [vaultLogin EXCEPT ![opId] = loginOf[opNew]]
             /\ vaultTurn' = [vaultTurn EXCEPT ![opId] = turnOf[opNew]]
    <3>1. vaultLogin'[i] = logins /\ vaultTurn'[i] = 0 /\ latest'[logins] = 0
      BY <2>1, <2>3 DEF FileTypes, TokenInv, NewInv, VaultInv, AddInv
    <3> QED  BY <3>1 DEF Kept
  <2> QED  BY <1>4, <2>2, <2>3 DEF AddWrite
<1>5. CASE AddCommit
  <2>1. /\ UNCHANGED <<vaultLogin, vaultTurn, latest, lost, objectVars, pc, acct>>
        /\ opKind = "add" /\ opPc = "commit" /\ opId \in Id
    BY <1>5 DEF AddCommit, fileVars, upstreamVars, threadVars, VaultInv, AddInv
  <2>2. CASE i # opId \/ UNCHANGED rows
    <3>1. rows'[i] = rows[i]
      BY <1>5, <2>1, <2>2 DEF AddCommit, FileTypes
    <3> QED  BY <2>1, <3>1, <1>b
  <2>3. CASE i = opId
    <3>1. vaultLogin'[i] = logins /\ vaultTurn'[i] = 0 /\ latest'[logins] = 0
      BY <2>1, <2>3 DEF TokenInv, NewInv, VaultInv, AddInv
    <3> QED  BY <3>1 DEF Kept
  <2> QED  BY <2>2, <2>3
<1>6. CASE RemoveCommit
  <2>1. UNCHANGED <<vaultLogin, vaultTurn, latest, lost, objectVars, pc, acct>>
    BY <1>6 DEF RemoveCommit, fileVars, upstreamVars, threadVars
  <2>2. rows'[i] \in {0, rows[i]}
    BY <1>6 DEF RemoveCommit, FileTypes
  <2> QED  BY <2>1, <2>2, <1>b
<1>7. CASE RemoveFile
  <2>1. UNCHANGED <<rows, latest, lost, objectVars, pc, acct>>
    BY <1>7 DEF RemoveFile, registryVars, upstreamVars, threadVars
  <2>2. CASE i = opId
    <3>1. rows[i] = 0
      BY <1>7, <2>2 DEF RemoveFile, VaultInv, AddInv, SwitchInv, RemoveInv
    <3> QED  BY <2>1, <3>1 DEF Kept
  <2>3. CASE i # opId
    <3>1. vaultLogin'[i] = vaultLogin[i] /\ vaultTurn'[i] = vaultTurn[i]
      BY <1>7, <2>3 DEF RemoveFile, fileVars, FileTypes
    <3> QED  BY <2>1, <3>1, <1>b
  <2> QED  BY <2>2, <2>3
<1>8. ASSUME NEW t \in Thread, Take(t) \/ Enter(t) PROVE Kept(i)'
  <2>1. UNCHANGED <<rows, vaultLogin, vaultTurn, latest, lost, objectVars>>
    BY <1>8 DEF Take, Enter, registryVars, fileVars, upstreamVars
  <2>2. \A u \in Thread : pc[u] = "persist" => pc'[u] = "persist" /\ acct'[u] = acct[u]
    BY <1>8 DEF Take, Enter, Goto
  <2> QED  BY <2>1, <2>2, <1>b
<1>9. ASSUME NEW k \in Id, NEW o \in Object, BatchTake(k, o) PROVE Kept(i)'
  <2>1. UNCHANGED <<rows, vaultLogin, vaultTurn, latest, lost>>
    BY <1>9 DEF BatchTake, registryVars, fileVars, upstreamVars
  <2>2. \A u \in Thread : pc[u] = "persist" => pc'[u] = "persist" /\ acct'[u] = acct[u]
    BY <1>9 DEF BatchTake, Goto
  <2>3. CASE UNCHANGED objectVars
    BY <2>1, <2>2, <2>3, <1>b
  <2>4. CASE Load(o, k) /\ Fresh(o)
    BY <2>1, <2>2, <2>4, <1>a DEF Load
  <2> QED  BY <1>9, <2>3, <2>4 DEF BatchTake
<1>10. ASSUME NEW o \in Object, Restart(o) PROVE Kept(i)'
  <2>1. UNCHANGED <<rows, vaultLogin, vaultTurn, latest>> /\ lost \subseteq lost'
    BY <1>10 DEF Restart, registryVars, fileVars, upstreamVars
  <2>2. \A t \in Thread : pc[t] = "persist" => loginOf[acct[t]] \in lost'
    <3>1. \A t \in Thread : pc[t] = "persist" => acct[t] \in dirty \cap Referenced
      BY Holding DEF TokenInv, WriterInv, Fresh
    <3> QED  BY <1>10, <3>1 DEF Restart
  <2> QED  BY <2>1, <2>2 DEF Kept
<1>11. ASSUME NEW t \in Thread, Exchange(t) PROVE Kept(i)'
  <2> DEFINE a == acct[t]
             h == loginOf[acct[t]]
  <2>0. /\ UNCHANGED <<rows, vaultLogin, vaultTurn, idOf, genOf, loginOf>>
        /\ pc[t] = "exchange" /\ a \in Object
    BY <1>11, RotateKeeps, Rotates
  <2>1. CASE Leave(t) /\ UNCHANGED <<latest, turnOf, lost>>
    <3>1. \A u \in Thread : pc[u] = "persist" => pc'[u] = "persist" /\ acct'[u] = acct[u]
      BY <2>0, <2>1 DEF Leave
    <3> QED  BY <2>0, <2>1, <3>1, <1>b DEF objectVars
  <2>2. CASE /\ turnOf[a] = latest[h] /\ latest' = [latest EXCEPT ![h] = @ + 1]
             /\ Rotated(t) \/ AnswerLost(t)
    <3>1. /\ a \in Object /\ turnOf[a] = latest[h] /\ lost \subseteq lost'
          /\ \A x \in Object \ {a} : turnOf'[x] = turnOf[x]
          /\ latest' = [latest EXCEPT ![h] = @ + 1]
          /\ \A u \in Thread \ {t} : pc'[u] = pc[u] /\ acct'[u] = acct[u]
      BY <2>0, <2>2, RotatedTurns DEF Rotated, AnswerLost, Leave
    <3>2. a # None /\ idOf[a] \in Id
      BY <2>0, <3>1, Holding DEF LockInv
    <3> SUFFICES ASSUME rows[i] # 0 PROVE Kept(i)'
      BY <2>0 DEF Kept
    <3>3. rows[i] <= vaultLogin[i] /\ rows[i] \in Nat /\ vaultLogin[i] \in Nat
      BY DEF VaultInv, FileInv, FileTypes
    <3>4. vaultLogin[i] \in 1..MaxLogin /\ vaultLogin[i] # 0
      BY <3>3, LoginRange DEF TokenInv
    <3>5. CASE vaultLogin[i] = h
      <4>0. CASE AnswerLost(t)
        BY <2>0, <3>5, <4>0 DEF Kept, AnswerLost
      <4>1. CASE Rotated(t)
        <5>1. idOf[a] = i
          BY <3>1, <3>4, <3>5 DEF TokenInv, OwnerInv
        <5>2. Persistable(a)
          <6>1. rows[i] \in {0, genOf[a]} \/ h < rows[i]
            BY <3>2, <5>1 DEF TokenInv, HolderInv
          <6> QED  BY <3>3, <3>5, <5>1, <6>1 DEF Persistable
        <5>3. latest'[h] = latest[h] + 1
          BY <3>1, <3>4, <3>5 DEF UpstreamTypes
        <5>4. Valid(a)'
          BY <2>0, <3>1, <5>3, <4>1, RotatedTurns DEF Valid, Rotated
        <5>5. Persistable(a)'
          BY <2>0, <5>2, <4>1 DEF Persistable, Rotated
        <5>6. pc'[t] = "persist" /\ acct'[t] = acct[t]
          BY <4>1 DEF Rotated
        <5> QED  BY <2>0, <3>5, <5>1, <5>4, <5>5, <5>6 DEF Kept
      <4> QED  BY <2>2, <4>0, <4>1
    <3>6. CASE vaultLogin[i] # h
      <4>1. latest'[vaultLogin[i]] = latest[vaultLogin[i]]
        BY <3>1, <3>4, <3>6 DEF UpstreamTypes
      <4>2. ASSUME NEW u \in Thread, pc[u] = "persist", loginOf[acct[u]] = vaultLogin[i], Valid(acct[u]),
                   idOf[acct[u]] = i, Persistable(acct[u])
            PROVE  /\ pc'[u] = "persist" /\ acct'[u] = acct[u] /\ Valid(acct[u])' /\ Persistable(acct[u])'
        <5>1. acct[u] \in Object \ {a}
          BY <3>6, <4>2, Holding
        <5>2. pc'[u] = "persist" /\ acct'[u] = acct[u] /\ turnOf'[acct[u]] = turnOf[acct[u]]
          BY <2>0, <3>1, <4>2, <5>1
        <5> QED  BY <2>0, <4>1, <4>2, <5>2 DEF Valid, Persistable
      <4> QED  BY <2>0, <3>1, <4>1, <4>2 DEF Kept
    <3> QED  BY <3>5, <3>6
  <2> QED  BY <1>11, <2>1, <2>2, Rotates
<1>12. ASSUME NEW t \in Thread, persist(t) PROVE Kept(i)'
  <2> DEFINE a == acct[t]
             h == loginOf[acct[t]]
  <2>0. /\ a \in Object /\ a # None /\ idOf[a] \in Id /\ a \in dirty
        /\ UNCHANGED <<rows, latest, idOf, genOf, loginOf, turnOf>>
    BY <1>12, Holding DEF persist, registryVars, upstreamVars, objectVars, TokenInv, WriterInv, LockInv
  <2>1. \A u \in Thread \ {t} : pc'[u] = pc[u] /\ acct'[u] = acct[u]
    BY <1>12 DEF persist, PersistDone, Leave, Goto
  <2>2. ASSUME NEW u \in Thread \ {t}
        PROVE  /\ pc'[u] = pc[u] /\ acct'[u] = acct[u] /\ Valid(acct[u])' = Valid(acct[u])
               /\ Persistable(acct[u])' = Persistable(acct[u])
    BY <2>0, <2>1 DEF Valid, Persistable
  <2>3. CASE ~Persistable(a) /\ UNCHANGED <<fileVars, lost>>
    BY <2>0, <2>2, <2>3 DEF Kept, fileVars
  <2>4. CASE UNCHANGED fileVars /\ lost' = lost \cup {h}
    BY <2>0, <2>2, <2>4 DEF Kept, fileVars
  <2>5. CASE /\ vaultLogin' = [vaultLogin EXCEPT ![idOf[a]] = h]
             /\ vaultTurn' = [vaultTurn EXCEPT ![idOf[a]] = turnOf[a]]
             /\ lost' = lost \ {h}
    <3>1. turnOf[a] = latest[h] /\ h # 0
      BY <2>0 DEF TokenInv, DirtyInv
    <3>2. CASE i = idOf[a]
      <4>1. vaultLogin'[i] = h /\ vaultTurn'[i] = turnOf[a]
        BY <2>5, <3>2 DEF FileTypes
      <4> QED  BY <2>0, <3>1, <4>1 DEF Kept
    <3>3. CASE i # idOf[a]
      <4>1. vaultLogin'[i] = vaultLogin[i] /\ vaultTurn'[i] = vaultTurn[i]
        BY <2>5, <3>3 DEF FileTypes
      <4>2. rows[i] # 0 => vaultLogin[i] # h
        <5>1. rows[i] # 0 => vaultLogin[i] # 0
          BY DEF VaultInv, FileInv, FileTypes
        <5> QED  BY <2>0, <3>3, <5>1 DEF TokenInv, OwnerInv
      <4> QED  BY <2>0, <2>2, <2>5, <3>3, <4>1, <4>2 DEF Kept
    <3> QED  BY <3>2, <3>3
  <2> QED  BY <1>12, <2>3, <2>4, <2>5 DEF persist
<1> QED
  BY <1>1, <1>2, <1>3, <1>4, <1>5, <1>6, <1>7, <1>8, <1>9, <1>10, <1>11, <1>12
  DEF Next, Operation, Refresh

(* The tokens' invariant holds at the beginning,                            *)
LEMMA TokenInit == Init => TokenInv /\ TokenKept
<1> SUFFICES ASSUME Init PROVE TokenInv /\ TokenKept
  OBVIOUS
<1>1. OwnerInv
  <2>1. [g \in 1..MaxLogin |-> None] \in [1..MaxLogin -> Id \cup {None}]
    OBVIOUS
  <2> QED  BY <2>1 DEF Init, OwnerInv
<1>2. TurnInv
  BY VaultAssumption DEF Init, TurnInv
<1>3. HolderInv /\ WriterInv /\ DirtyInv /\ NewInv
  BY DEF Init, HolderInv, WriterInv, DirtyInv, NewInv
<1>4. TokenKept
  BY DEF Init, TokenKept
<1> QED
  BY <1>1, <1>2, <1>3, <1>4 DEF TokenInv

(* and so every step keeps the invariant.                                   *)
LEMMA TokenStep == IInv /\ TokenInv /\ TokenKept /\ [Next]_vars => (TokenInv /\ TokenKept)'
<1> SUFFICES ASSUME IInv, TokenInv, TokenKept, [Next]_vars PROVE (TokenInv /\ TokenKept)'
  OBVIOUS
<1>1. CASE Next
  <2>1. TokenInv'
    BY <1>1, OwnerStep, TurnStep, HolderStep, WriterStep, DirtyStep, NewStep DEF TokenInv
  <2>2. TokenKept'
    <3>1. \A i \in Id : Kept(i)'
      BY <1>1, KeptRows, KeptStep
    <3> QED  BY <3>1 DEF TokenKept, Kept
  <2> QED  BY <2>1, <2>2
<1>2. CASE UNCHANGED vars
  <2> USE <1>2 DEF vars, registryVars, fileVars, upstreamVars, poolVars, objectVars, threadVars, opVars
  <2>1. OwnerInv' /\ TurnInv'
    BY DEF TokenInv, OwnerInv, TurnInv
  <2>2. HolderInv' /\ WriterInv' /\ DirtyInv'
    BY DEF TokenInv, HolderInv, WriterInv, DirtyInv
  <2>3. NewInv'
    BY DEF TokenInv, NewInv
  <2>4. TokenKept'
    BY DEF TokenKept, Valid, Persistable
  <2> QED  BY <2>1, <2>2, <2>3, <2>4 DEF TokenInv
<1> QED
  BY <1>1, <1>2

(* The token the upstream will accept is in the vault, or with a thread     *)
(* that may write it and is about to, unless a write failed or the program  *)
(* crashed in between: whatever adds, switches, removals and restarts meet  *)
(* the refreshes.                                                           *)
THEOREM TokensAreKept == Spec => []TokenKept
<1>1. Spec => [](TokenInv /\ TokenKept)
  BY VaultInvariance, TokenInit, TokenStep, PTL DEF Spec
<1> QED
  BY <1>1, PTL

=============================================================================
