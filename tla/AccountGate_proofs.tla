-------------------------- MODULE AccountGate_proofs --------------------------
(***************************************************************************)
(* Proofs about AccountGate, for every set of requests, objects and ids.   *)
(***************************************************************************)
EXTENDS AccountGate, FiniteSetTheorems, TLAPS

(* Every variable keeps its type, and a thread that works has an account.   *)
LEMMA TypeInit == Init => TypeOK
<1> USE GateAssumption DEF Thread, AcquirePc, RefreshPc, EnsurePc, HoldPc, OpPc,
        BackgroundThreads, Batch
<1> SUFFICES ASSUME Init PROVE TypeOK
  OBVIOUS
<1>1. pool \in Object \cup {None} /\ enabled \in Id \cup {None}
      /\ idOf \in [Object -> Id \cup {None}]
  BY DEF Init
<1>2. lim \in [Request -> 1..MaxLimit]
  BY DEF Init
<1>3. pc \in [Thread -> {"idle"}] /\ acct \in [Thread -> Object \cup {None}]
  BY DEF Init
<1>4. QED
  BY <1>1, <1>2, <1>3 DEF Init, TypeOK

(* Every step keeps the types.                                              *)
LEMMA TypeStep == TypeOK /\ [Next]_vars => TypeOK'
<1> USE GateAssumption DEF Thread, AcquirePc, RefreshPc, EnsurePc, HoldPc, OpPc,
        BackgroundThreads, Batch
<1> SUFFICES ASSUME TypeOK, [Next]_vars PROVE TypeOK'
  OBVIOUS
<1> USE DEF TypeOK, poolVars, objectVars, waitVars, batchVars, opVars, Goto,
        Leave, EnsureUnchanged, OpUnchanged, OpGoto, OpReturn, OpTryLock,
        OpNothingToLock
<1>1. ASSUME NEW m \in 1..MaxLimit, SetMax(m) PROVE TypeOK'
  BY <1>1 DEF SetMax
<1>2. ASSUME NEW r \in Request, AcquireBegin(r) PROVE TypeOK'
  BY <1>2 DEF AcquireBegin
<1>3. ASSUME NEW r \in Request, AcquireSnapshot(r) PROVE TypeOK'
  BY <1>3 DEF AcquireSnapshot
<1>4. ASSUME NEW r \in Request, AcquireTry(r) PROVE TypeOK'
  BY <1>4 DEF AcquireTry
<1>5. ASSUME NEW r \in Request, AcquireDeadline(r) PROVE TypeOK'
  BY <1>5 DEF AcquireDeadline
<1>6. ASSUME NEW r \in Request, AcquirePoll(r) PROVE TypeOK'
  BY <1>6 DEF AcquirePoll
<1>7. ASSUME NEW r \in Request, Release(r) PROVE TypeOK'
  <2>1. acct[r] \in Object
    BY <1>7 DEF Release
  <2>2. active' \in [Object -> Nat]
    BY <1>7, <2>1 DEF Release
  <2>3. QED
    BY <1>7, <2>2 DEF Release
<1>8. ASSUME NEW r \in Request, Enqueue(r) PROVE TypeOK'
  BY <1>8 DEF Enqueue
<1>9. ASSUME NEW t \in Thread, EnsureLock(t) PROVE TypeOK'
  BY <1>9 DEF EnsureLock
<1>10. ASSUME NEW t \in Thread, EnsureRetired(t) PROVE TypeOK'
  BY <1>10 DEF EnsureRetired
<1>11. ASSUME NEW t \in Thread, EnsureSaveDirty(t) PROVE TypeOK'
  BY <1>11 DEF EnsureSaveDirty
<1>12. ASSUME NEW t \in Thread, EnsureClean(t) PROVE TypeOK'
  BY <1>12 DEF EnsureClean
<1>13. ASSUME NEW t \in Thread, EnsureDecide(t) PROVE TypeOK'
  BY <1>13 DEF EnsureDecide
<1>14. ASSUME NEW t \in Thread, EnsureExchange(t) PROVE TypeOK'
  BY <1>14 DEF EnsureExchange
<1>15. ASSUME NEW t \in Thread, EnsurePersist(t) PROVE TypeOK'
  BY <1>15 DEF EnsurePersist
<1>16. ASSUME NEW w \in Worker \ Batch, BackgroundTake(w) PROVE TypeOK'
  BY <1>16 DEF BackgroundTake, TakeFrom
<1>18. ASSUME NEW w \in Worker \ Batch, WorkerDone(w) PROVE TypeOK'
  BY <1>18 DEF WorkerDone
<1>19. ASSUME NEW b \in Worker \cap Batch, BatchBegin(b) PROVE TypeOK'
  BY <1>19 DEF BatchBegin
<1>20. ASSUME NEW b \in Worker \cap Batch, BatchList(b) PROVE TypeOK'
  BY <1>20 DEF BatchList
<1>21. ASSUME NEW b \in Worker \cap Batch, BatchPick(b) PROVE TypeOK'
  BY <1>21 DEF BatchPick
<1>22. ASSUME NEW b \in Worker \cap Batch, BatchCommit(b) PROVE TypeOK'
  BY <1>22 DEF BatchCommit
<1>23. ASSUME NEW b \in Worker \cap Batch, BatchEnd(b) PROVE TypeOK'
  BY <1>23 DEF BatchEnd
<1>24. ASSUME NEW kind \in {"switch", "add"}, NEW i \in Id \cup {None}, OpBegin(kind, i) PROVE TypeOK'
  BY <1>24 DEF OpBegin
<1>25. CASE OpLock
  BY <1>25 DEF OpLock
<1>26. CASE OpLoad
  BY <1>26 DEF OpLoad
<1>27. CASE OpLoadFails
  BY <1>27 DEF OpLoadFails
<1>28. CASE OpReplace
  BY <1>28 DEF OpReplace
<1>29. CASE OpReplaceFails
  BY <1>29 DEF OpReplaceFails
<1>30. CASE OpFinish
  BY <1>30 DEF OpFinish
<1>31. CASE UNCHANGED vars
  BY <1>31 DEF vars, poolVars, objectVars, waitVars, batchVars, opVars
<1>32. QED
  BY <1>1, <1>2, <1>3, <1>4, <1>5, <1>6, <1>7, <1>8, <1>9, <1>10, <1>11, <1>12, <1>13,
     <1>14, <1>15, <1>16, <1>18, <1>19, <1>20, <1>21, <1>22, <1>23, <1>24, <1>25,
     <1>26, <1>27, <1>28, <1>29, <1>30, <1>31
  DEF Next, RequestStep, AcquireStep, EnsureStep, BatchStep, OpStep

(* The gate's state is well typed, and the threads inside ensureFreshToken  *)
(* are those that own a refresh mutex (AccountPool, Credentials).           *)
THEOREM TypeCorrect == Spec => []TypeOK
BY TypeInit, TypeStep, PTL DEF Spec

-----------------------------------------------------------------------------
(***************************************************************************)
(* The inductive invariant.  PoolLive, OpInv and OwnerInv say what the     *)
(* locks protect; HeldInv what the slots protect; BatchInv and LiveInv      *)
(* which live objects there can be besides the enabled one.                 *)
(***************************************************************************)
PoolLive == pool # None => pool \notin retired

OpInv ==
  /\ opPc # "idle" => opKind \in {"switch", "add"}
  /\ opPc \in {"idle", "lock"} => opOld = None
  /\ opPc \in {"load", "replace"} => opOld = pool
  /\ opPc # "finish" /\ opPc # "replace" => opNew = None
  /\ opPc = "replace" => (opNew = None <=> opId = None)
  /\ opPc = "replace" /\ opNew # None =>
       /\ opNew # pool /\ opNew \notin retired \cup creditQ
       /\ idOf[opNew] = opId
       /\ active[opNew] = 0
       /\ \A t \in Thread : acct[t] # opNew
  /\ opOld # None => rmtx[opOld] = Operator
  /\ opPc # "idle" /\ opKind = "add" => opId = enabled

OwnerInv == \A t \in Thread : pc[t] \in {"locked"} \cup RefreshPc => rmtx[acct[t]] = t

HeldInv == HeldIsEnabled /\ SlotAccounting

(* One batch task at a time; a switch that has begun lets none of them      *)
(* get past the start; what one works on is the enabled object, a retired   *)
(* one, or a copy for a row that is not enabled.                            *)
BatchInv ==
  /\ \A b \in Worker \cap Batch :
       /\ pc[b] # "idle" => refreshing
       /\ opPc # "idle" /\ opKind = "switch" => pc[b] \in {"idle", "list"}
       /\ pc[b] \in HoldPc /\ health = "healthy" =>
            acct[b] = pool \/ acct[b] \in retired \/ idOf[acct[b]] # enabled
  /\ \A b, c \in Worker \cap Batch : b # c => pc[b] = "idle" \/ pc[c] = "idle"

(* What a request or a single-account worker refers to is the enabled       *)
(* object or a retired one.                                                 *)
LiveInv ==
  /\ \A t \in Thread \ Batch :
       pc[t] \in HoldPc \cup {"try", "enqueue"} => acct[t] = pool \/ acct[t] \in retired
  /\ \A o \in creditQ : o = pool \/ o \in retired

IInv == TypeOK /\ PoolLive /\ OpInv /\ OwnerInv /\ RefreshedIsLive
        /\ HeldInv /\ EnabledAgrees /\ BatchInv /\ LiveInv

(* refreshMtx is held by the thread that refreshes. *)
LEMMA OwnerStep == TypeOK /\ OpInv /\ OwnerInv /\ [Next]_vars => OwnerInv'
<1> USE GateAssumption DEF Thread, AcquirePc, RefreshPc, EnsurePc, HoldPc, OpPc,
        BackgroundThreads, Batch, Operator
<1> SUFFICES ASSUME TypeOK /\ OpInv /\ OwnerInv, [Next]_vars PROVE OwnerInv'
  OBVIOUS
<1> USE DEF TypeOK, OpInv, OwnerInv, poolVars, objectVars, waitVars, batchVars, opVars, Goto, Leave,
        EnsureUnchanged, OpUnchanged, OpGoto, OpReturn, OpTryLock, OpNothingToLock,
        Fresh, Referenced, GuardFree
<1>1. ASSUME NEW m \in 1..MaxLimit, SetMax(m) PROVE OwnerInv'
  BY <1>1 DEF SetMax
<1>2. ASSUME NEW r \in Request, AcquireBegin(r) PROVE OwnerInv'
  BY <1>2 DEF AcquireBegin
<1>3. ASSUME NEW r \in Request, AcquireSnapshot(r) PROVE OwnerInv'
  BY <1>3 DEF AcquireSnapshot
<1>4. ASSUME NEW r \in Request, AcquireTry(r) PROVE OwnerInv'
  BY <1>4 DEF AcquireTry
<1>5. ASSUME NEW r \in Request, AcquireDeadline(r) PROVE OwnerInv'
  BY <1>5 DEF AcquireDeadline
<1>6. ASSUME NEW r \in Request, AcquirePoll(r) PROVE OwnerInv'
  BY <1>6 DEF AcquirePoll
<1>7. ASSUME NEW r \in Request, Release(r) PROVE OwnerInv'
  BY <1>7 DEF Release
<1>8. ASSUME NEW r \in Request, Enqueue(r) PROVE OwnerInv'
  BY <1>8 DEF Enqueue
<1>9. ASSUME NEW t \in Thread, EnsureLock(t) PROVE OwnerInv'
  BY <1>9 DEF EnsureLock
<1>10. ASSUME NEW t \in Thread, EnsureRetired(t) PROVE OwnerInv'
  BY <1>10 DEF EnsureRetired
<1>11. ASSUME NEW t \in Thread, EnsureSaveDirty(t) PROVE OwnerInv'
  BY <1>11 DEF EnsureSaveDirty
<1>12. ASSUME NEW t \in Thread, EnsureClean(t) PROVE OwnerInv'
  BY <1>12 DEF EnsureClean
<1>13. ASSUME NEW t \in Thread, EnsureDecide(t) PROVE OwnerInv'
  BY <1>13 DEF EnsureDecide
<1>14. ASSUME NEW t \in Thread, EnsureExchange(t) PROVE OwnerInv'
  BY <1>14 DEF EnsureExchange
<1>15. ASSUME NEW t \in Thread, EnsurePersist(t) PROVE OwnerInv'
  BY <1>15 DEF EnsurePersist
<1>16. ASSUME NEW w \in Worker \ Batch, BackgroundTake(w) PROVE OwnerInv'
  BY <1>16 DEF BackgroundTake, TakeFrom
<1>18. ASSUME NEW w \in Worker \ Batch, WorkerDone(w) PROVE OwnerInv'
  BY <1>18 DEF WorkerDone
<1>19. ASSUME NEW b \in Worker \cap Batch, BatchBegin(b) PROVE OwnerInv'
  BY <1>19 DEF BatchBegin
<1>20. ASSUME NEW b \in Worker \cap Batch, BatchList(b) PROVE OwnerInv'
  BY <1>20 DEF BatchList
<1>21. ASSUME NEW b \in Worker \cap Batch, BatchPick(b) PROVE OwnerInv'
  BY <1>21 DEF BatchPick
<1>22. ASSUME NEW b \in Worker \cap Batch, BatchCommit(b) PROVE OwnerInv'
  BY <1>22 DEF BatchCommit
<1>23. ASSUME NEW b \in Worker \cap Batch, BatchEnd(b) PROVE OwnerInv'
  BY <1>23 DEF BatchEnd
<1>24. ASSUME NEW kind \in {"switch", "add"}, NEW i \in Id \cup {None}, OpBegin(kind, i) PROVE OwnerInv'
  BY <1>24 DEF OpBegin
<1>25. CASE OpLock
  <2>1. CASE pool # None /\ OpTryLock
    BY <1>25, <2>1 DEF OpLock
  <2>2. CASE OpNothingToLock
    BY <1>25, <2>2 DEF OpLock
  <2>3. CASE OpReturn /\ UNCHANGED rmtx
    BY <1>25, <2>3 DEF OpLock
  <2>4. QED
    BY <1>25, <2>1, <2>2, <2>3 DEF OpLock
<1>26. CASE OpLoad
  BY <1>26 DEF OpLoad
<1>27. CASE OpLoadFails
  BY <1>27 DEF OpLoadFails
<1>28. CASE OpReplace
  BY <1>28 DEF OpReplace
<1>29. CASE OpReplaceFails
  BY <1>29 DEF OpReplaceFails
<1>30. CASE OpFinish
  BY <1>30 DEF OpFinish
<1>31. CASE UNCHANGED vars
  BY <1>31 DEF vars, poolVars, objectVars, waitVars, batchVars, opVars
<1>32. QED
  BY <1>1, <1>2, <1>3, <1>4, <1>5, <1>6, <1>7, <1>8, <1>9, <1>10, <1>11, <1>12, <1>13,
     <1>14, <1>15, <1>16, <1>18, <1>19, <1>20, <1>21, <1>22, <1>23, <1>24, <1>25,
     <1>26, <1>27, <1>28, <1>29, <1>30, <1>31
  DEF Next, RequestStep, AcquireStep, EnsureStep, BatchStep, OpStep

(* The operation holds what it needs: guard, the refreshMtx of the enabled
   object, and a new object nobody else has seen. *)
LEMMA OpStepPreserves == TypeOK /\ PoolLive /\ OpInv /\ OwnerInv /\ [Next]_vars => PoolLive' /\ OpInv'
<1> USE GateAssumption DEF Thread, AcquirePc, RefreshPc, EnsurePc, HoldPc, OpPc,
        BackgroundThreads, Batch, Operator
<1> SUFFICES ASSUME TypeOK /\ PoolLive /\ OpInv /\ OwnerInv, [Next]_vars PROVE PoolLive' /\ OpInv'
  OBVIOUS
<1> USE DEF TypeOK, PoolLive, OpInv, OwnerInv, poolVars, objectVars, waitVars, batchVars, opVars, Goto, Leave,
        EnsureUnchanged, OpUnchanged, OpGoto, OpReturn, OpTryLock, OpNothingToLock,
        Fresh, Referenced, GuardFree
<1>1. ASSUME NEW m \in 1..MaxLimit, SetMax(m) PROVE PoolLive' /\ OpInv'
  BY <1>1 DEF SetMax
<1>2. ASSUME NEW r \in Request, AcquireBegin(r) PROVE PoolLive' /\ OpInv'
  BY <1>2 DEF AcquireBegin
<1>3. ASSUME NEW r \in Request, AcquireSnapshot(r) PROVE PoolLive' /\ OpInv'
  BY <1>3 DEF AcquireSnapshot
<1>4. ASSUME NEW r \in Request, AcquireTry(r) PROVE PoolLive' /\ OpInv'
  BY <1>4 DEF AcquireTry
<1>5. ASSUME NEW r \in Request, AcquireDeadline(r) PROVE PoolLive' /\ OpInv'
  BY <1>5 DEF AcquireDeadline
<1>6. ASSUME NEW r \in Request, AcquirePoll(r) PROVE PoolLive' /\ OpInv'
  BY <1>6 DEF AcquirePoll
<1>7. ASSUME NEW r \in Request, Release(r) PROVE PoolLive' /\ OpInv'
  BY <1>7 DEF Release
<1>8. ASSUME NEW r \in Request, Enqueue(r) PROVE PoolLive' /\ OpInv'
  BY <1>8 DEF Enqueue
<1>9. ASSUME NEW t \in Thread, EnsureLock(t) PROVE PoolLive' /\ OpInv'
  BY <1>9 DEF EnsureLock
<1>10. ASSUME NEW t \in Thread, EnsureRetired(t) PROVE PoolLive' /\ OpInv'
  BY <1>10 DEF EnsureRetired
<1>11. ASSUME NEW t \in Thread, EnsureSaveDirty(t) PROVE PoolLive' /\ OpInv'
  BY <1>11 DEF EnsureSaveDirty
<1>12. ASSUME NEW t \in Thread, EnsureClean(t) PROVE PoolLive' /\ OpInv'
  BY <1>12 DEF EnsureClean
<1>13. ASSUME NEW t \in Thread, EnsureDecide(t) PROVE PoolLive' /\ OpInv'
  BY <1>13 DEF EnsureDecide
<1>14. ASSUME NEW t \in Thread, EnsureExchange(t) PROVE PoolLive' /\ OpInv'
  BY <1>14 DEF EnsureExchange
<1>15. ASSUME NEW t \in Thread, EnsurePersist(t) PROVE PoolLive' /\ OpInv'
  BY <1>15 DEF EnsurePersist
<1>16. ASSUME NEW w \in Worker \ Batch, BackgroundTake(w) PROVE PoolLive' /\ OpInv'
  BY <1>16 DEF BackgroundTake, TakeFrom
<1>18. ASSUME NEW w \in Worker \ Batch, WorkerDone(w) PROVE PoolLive' /\ OpInv'
  BY <1>18 DEF WorkerDone
<1>19. ASSUME NEW b \in Worker \cap Batch, BatchBegin(b) PROVE PoolLive' /\ OpInv'
  BY <1>19 DEF BatchBegin
<1>20. ASSUME NEW b \in Worker \cap Batch, BatchList(b) PROVE PoolLive' /\ OpInv'
  BY <1>20 DEF BatchList
<1>21. ASSUME NEW b \in Worker \cap Batch, BatchPick(b) PROVE PoolLive' /\ OpInv'
  BY <1>21 DEF BatchPick
<1>22. ASSUME NEW b \in Worker \cap Batch, BatchCommit(b) PROVE PoolLive' /\ OpInv'
  BY <1>22 DEF BatchCommit
<1>23. ASSUME NEW b \in Worker \cap Batch, BatchEnd(b) PROVE PoolLive' /\ OpInv'
  BY <1>23 DEF BatchEnd
<1>24. ASSUME NEW kind \in {"switch", "add"}, NEW i \in Id \cup {None}, OpBegin(kind, i) PROVE PoolLive' /\ OpInv'
  BY <1>24 DEF OpBegin
<1>25. CASE OpLock
  BY <1>25 DEF OpLock
<1>26. CASE OpLoad
  BY <1>26 DEF OpLoad
<1>27. CASE OpLoadFails
  BY <1>27 DEF OpLoadFails
<1>28. CASE OpReplace
  BY <1>28 DEF OpReplace
<1>29. CASE OpReplaceFails
  BY <1>29 DEF OpReplaceFails
<1>30. CASE OpFinish
  BY <1>30 DEF OpFinish
<1>31. CASE UNCHANGED vars
  BY <1>31 DEF vars, poolVars, objectVars, waitVars, batchVars, opVars
<1>32. QED
  BY <1>1, <1>2, <1>3, <1>4, <1>5, <1>6, <1>7, <1>8, <1>9, <1>10, <1>11, <1>12, <1>13,
     <1>14, <1>15, <1>16, <1>18, <1>19, <1>20, <1>21, <1>22, <1>23, <1>24, <1>25,
     <1>26, <1>27, <1>28, <1>29, <1>30, <1>31
  DEF Next, RequestStep, AcquireStep, EnsureStep, BatchStep, OpStep

(* Pool and registry change together. *)
LEMMA EnabledStep == TypeOK /\ PoolLive /\ OpInv /\ EnabledAgrees /\ [Next]_vars => EnabledAgrees'
<1> USE GateAssumption DEF Thread, AcquirePc, RefreshPc, EnsurePc, HoldPc, OpPc,
        BackgroundThreads, Batch, Operator
<1> SUFFICES ASSUME TypeOK /\ PoolLive /\ OpInv /\ EnabledAgrees, [Next]_vars PROVE EnabledAgrees'
  OBVIOUS
<1> USE DEF TypeOK, PoolLive, OpInv, EnabledAgrees, poolVars, objectVars, waitVars, batchVars, opVars, Goto, Leave,
        EnsureUnchanged, OpUnchanged, OpGoto, OpReturn, OpTryLock, OpNothingToLock,
        Fresh, Referenced, GuardFree
<1>1. ASSUME NEW m \in 1..MaxLimit, SetMax(m) PROVE EnabledAgrees'
  BY <1>1 DEF SetMax
<1>2. ASSUME NEW r \in Request, AcquireBegin(r) PROVE EnabledAgrees'
  BY <1>2 DEF AcquireBegin
<1>3. ASSUME NEW r \in Request, AcquireSnapshot(r) PROVE EnabledAgrees'
  BY <1>3 DEF AcquireSnapshot
<1>4. ASSUME NEW r \in Request, AcquireTry(r) PROVE EnabledAgrees'
  BY <1>4 DEF AcquireTry
<1>5. ASSUME NEW r \in Request, AcquireDeadline(r) PROVE EnabledAgrees'
  BY <1>5 DEF AcquireDeadline
<1>6. ASSUME NEW r \in Request, AcquirePoll(r) PROVE EnabledAgrees'
  BY <1>6 DEF AcquirePoll
<1>7. ASSUME NEW r \in Request, Release(r) PROVE EnabledAgrees'
  BY <1>7 DEF Release
<1>8. ASSUME NEW r \in Request, Enqueue(r) PROVE EnabledAgrees'
  BY <1>8 DEF Enqueue
<1>9. ASSUME NEW t \in Thread, EnsureLock(t) PROVE EnabledAgrees'
  BY <1>9 DEF EnsureLock
<1>10. ASSUME NEW t \in Thread, EnsureRetired(t) PROVE EnabledAgrees'
  BY <1>10 DEF EnsureRetired
<1>11. ASSUME NEW t \in Thread, EnsureSaveDirty(t) PROVE EnabledAgrees'
  BY <1>11 DEF EnsureSaveDirty
<1>12. ASSUME NEW t \in Thread, EnsureClean(t) PROVE EnabledAgrees'
  BY <1>12 DEF EnsureClean
<1>13. ASSUME NEW t \in Thread, EnsureDecide(t) PROVE EnabledAgrees'
  BY <1>13 DEF EnsureDecide
<1>14. ASSUME NEW t \in Thread, EnsureExchange(t) PROVE EnabledAgrees'
  BY <1>14 DEF EnsureExchange
<1>15. ASSUME NEW t \in Thread, EnsurePersist(t) PROVE EnabledAgrees'
  BY <1>15 DEF EnsurePersist
<1>16. ASSUME NEW w \in Worker \ Batch, BackgroundTake(w) PROVE EnabledAgrees'
  BY <1>16 DEF BackgroundTake, TakeFrom
<1>18. ASSUME NEW w \in Worker \ Batch, WorkerDone(w) PROVE EnabledAgrees'
  BY <1>18 DEF WorkerDone
<1>19. ASSUME NEW b \in Worker \cap Batch, BatchBegin(b) PROVE EnabledAgrees'
  BY <1>19 DEF BatchBegin
<1>20. ASSUME NEW b \in Worker \cap Batch, BatchList(b) PROVE EnabledAgrees'
  BY <1>20 DEF BatchList
<1>21. ASSUME NEW b \in Worker \cap Batch, BatchPick(b) PROVE EnabledAgrees'
  BY <1>21 DEF BatchPick
<1>22. ASSUME NEW b \in Worker \cap Batch, BatchCommit(b) PROVE EnabledAgrees'
  BY <1>22 DEF BatchCommit
<1>23. ASSUME NEW b \in Worker \cap Batch, BatchEnd(b) PROVE EnabledAgrees'
  BY <1>23 DEF BatchEnd
<1>24. ASSUME NEW kind \in {"switch", "add"}, NEW i \in Id \cup {None}, OpBegin(kind, i) PROVE EnabledAgrees'
  BY <1>24 DEF OpBegin
<1>25. CASE OpLock
  BY <1>25 DEF OpLock
<1>26. CASE OpLoad
  BY <1>26 DEF OpLoad
<1>27. CASE OpLoadFails
  BY <1>27 DEF OpLoadFails
<1>28. CASE OpReplace
  BY <1>28 DEF OpReplace
<1>29. CASE OpReplaceFails
  BY <1>29 DEF OpReplaceFails
<1>30. CASE OpFinish
  BY <1>30 DEF OpFinish
<1>31. CASE UNCHANGED vars
  BY <1>31 DEF vars, poolVars, objectVars, waitVars, batchVars, opVars
<1>32. QED
  BY <1>1, <1>2, <1>3, <1>4, <1>5, <1>6, <1>7, <1>8, <1>9, <1>10, <1>11, <1>12, <1>13,
     <1>14, <1>15, <1>16, <1>18, <1>19, <1>20, <1>21, <1>22, <1>23, <1>24, <1>25,
     <1>26, <1>27, <1>28, <1>29, <1>30, <1>31
  DEF Next, RequestStep, AcquireStep, EnsureStep, BatchStep, OpStep

(* Requests and single-account workers see the enabled or a retired object. *)
LEMMA LiveStep == TypeOK /\ PoolLive /\ OpInv /\ LiveInv /\ [Next]_vars => LiveInv'
<1> USE GateAssumption DEF Thread, AcquirePc, RefreshPc, EnsurePc, HoldPc, OpPc,
        BackgroundThreads, Batch, Operator
<1> SUFFICES ASSUME TypeOK /\ PoolLive /\ OpInv /\ LiveInv, [Next]_vars PROVE LiveInv'
  OBVIOUS
<1> USE DEF TypeOK, PoolLive, OpInv, LiveInv, poolVars, objectVars, waitVars, batchVars, opVars, Goto, Leave,
        EnsureUnchanged, OpUnchanged, OpGoto, OpReturn, OpTryLock, OpNothingToLock,
        Fresh, Referenced, GuardFree
<1>1. ASSUME NEW m \in 1..MaxLimit, SetMax(m) PROVE LiveInv'
  BY <1>1 DEF SetMax
<1>2. ASSUME NEW r \in Request, AcquireBegin(r) PROVE LiveInv'
  BY <1>2 DEF AcquireBegin
<1>3. ASSUME NEW r \in Request, AcquireSnapshot(r) PROVE LiveInv'
  BY <1>3 DEF AcquireSnapshot
<1>4. ASSUME NEW r \in Request, AcquireTry(r) PROVE LiveInv'
  BY <1>4 DEF AcquireTry
<1>5. ASSUME NEW r \in Request, AcquireDeadline(r) PROVE LiveInv'
  BY <1>5 DEF AcquireDeadline
<1>6. ASSUME NEW r \in Request, AcquirePoll(r) PROVE LiveInv'
  BY <1>6 DEF AcquirePoll
<1>7. ASSUME NEW r \in Request, Release(r) PROVE LiveInv'
  BY <1>7 DEF Release
<1>8. ASSUME NEW r \in Request, Enqueue(r) PROVE LiveInv'
  BY <1>8 DEF Enqueue
<1>9. ASSUME NEW t \in Thread, EnsureLock(t) PROVE LiveInv'
  BY <1>9 DEF EnsureLock
<1>10. ASSUME NEW t \in Thread, EnsureRetired(t) PROVE LiveInv'
  BY <1>10 DEF EnsureRetired
<1>11. ASSUME NEW t \in Thread, EnsureSaveDirty(t) PROVE LiveInv'
  BY <1>11 DEF EnsureSaveDirty
<1>12. ASSUME NEW t \in Thread, EnsureClean(t) PROVE LiveInv'
  BY <1>12 DEF EnsureClean
<1>13. ASSUME NEW t \in Thread, EnsureDecide(t) PROVE LiveInv'
  BY <1>13 DEF EnsureDecide
<1>14. ASSUME NEW t \in Thread, EnsureExchange(t) PROVE LiveInv'
  BY <1>14 DEF EnsureExchange
<1>15. ASSUME NEW t \in Thread, EnsurePersist(t) PROVE LiveInv'
  BY <1>15 DEF EnsurePersist
<1>16. ASSUME NEW w \in Worker \ Batch, BackgroundTake(w) PROVE LiveInv'
  BY <1>16 DEF BackgroundTake, TakeFrom
<1>18. ASSUME NEW w \in Worker \ Batch, WorkerDone(w) PROVE LiveInv'
  BY <1>18 DEF WorkerDone
<1>19. ASSUME NEW b \in Worker \cap Batch, BatchBegin(b) PROVE LiveInv'
  BY <1>19 DEF BatchBegin
<1>20. ASSUME NEW b \in Worker \cap Batch, BatchList(b) PROVE LiveInv'
  BY <1>20 DEF BatchList
<1>21. ASSUME NEW b \in Worker \cap Batch, BatchPick(b) PROVE LiveInv'
  BY <1>21 DEF BatchPick
<1>22. ASSUME NEW b \in Worker \cap Batch, BatchCommit(b) PROVE LiveInv'
  BY <1>22 DEF BatchCommit
<1>23. ASSUME NEW b \in Worker \cap Batch, BatchEnd(b) PROVE LiveInv'
  BY <1>23 DEF BatchEnd
<1>24. ASSUME NEW kind \in {"switch", "add"}, NEW i \in Id \cup {None}, OpBegin(kind, i) PROVE LiveInv'
  BY <1>24 DEF OpBegin
<1>25. CASE OpLock
  BY <1>25 DEF OpLock
<1>26. CASE OpLoad
  BY <1>26 DEF OpLoad
<1>27. CASE OpLoadFails
  BY <1>27 DEF OpLoadFails
<1>28. CASE OpReplace
  BY <1>28 DEF OpReplace
<1>29. CASE OpReplaceFails
  BY <1>29 DEF OpReplaceFails
<1>30. CASE OpFinish
  BY <1>30 DEF OpFinish
<1>31. CASE UNCHANGED vars
  BY <1>31 DEF vars, poolVars, objectVars, waitVars, batchVars, opVars
<1>32. QED
  BY <1>1, <1>2, <1>3, <1>4, <1>5, <1>6, <1>7, <1>8, <1>9, <1>10, <1>11, <1>12, <1>13,
     <1>14, <1>15, <1>16, <1>18, <1>19, <1>20, <1>21, <1>22, <1>23, <1>24, <1>25,
     <1>26, <1>27, <1>28, <1>29, <1>30, <1>31
  DEF Next, RequestStep, AcquireStep, EnsureStep, BatchStep, OpStep

(* Batch tasks exclude each other and switches. *)
LEMMA BatchStepPreserves == TypeOK /\ OpInv /\ EnabledAgrees /\ BatchInv /\ [Next]_vars => BatchInv'
<1> USE GateAssumption DEF Thread, AcquirePc, RefreshPc, EnsurePc, HoldPc, OpPc,
        BackgroundThreads, Batch, Operator
<1> SUFFICES ASSUME TypeOK /\ OpInv /\ EnabledAgrees /\ BatchInv, [Next]_vars PROVE BatchInv'
  OBVIOUS
<1>a. health = "healthy" => (pool # None => idOf[pool] = enabled) /\ (pool = None => enabled = None)
  BY DEF EnabledAgrees
<1> USE <1>a DEF TypeOK, OpInv, BatchInv, poolVars, objectVars, waitVars, batchVars, opVars, Goto, Leave,
        EnsureUnchanged, OpUnchanged, OpGoto, OpReturn, OpTryLock, OpNothingToLock,
        Fresh, Referenced, GuardFree
<1>1. ASSUME NEW m \in 1..MaxLimit, SetMax(m) PROVE BatchInv'
  BY <1>1 DEF SetMax
<1>2. ASSUME NEW r \in Request, AcquireBegin(r) PROVE BatchInv'
  BY <1>2 DEF AcquireBegin
<1>3. ASSUME NEW r \in Request, AcquireSnapshot(r) PROVE BatchInv'
  BY <1>3 DEF AcquireSnapshot
<1>4. ASSUME NEW r \in Request, AcquireTry(r) PROVE BatchInv'
  BY <1>4 DEF AcquireTry
<1>5. ASSUME NEW r \in Request, AcquireDeadline(r) PROVE BatchInv'
  BY <1>5 DEF AcquireDeadline
<1>6. ASSUME NEW r \in Request, AcquirePoll(r) PROVE BatchInv'
  BY <1>6 DEF AcquirePoll
<1>7. ASSUME NEW r \in Request, Release(r) PROVE BatchInv'
  BY <1>7 DEF Release
<1>8. ASSUME NEW r \in Request, Enqueue(r) PROVE BatchInv'
  BY <1>8 DEF Enqueue
<1>9. ASSUME NEW t \in Thread, EnsureLock(t) PROVE BatchInv'
  BY <1>9 DEF EnsureLock
<1>10. ASSUME NEW t \in Thread, EnsureRetired(t) PROVE BatchInv'
  BY <1>10 DEF EnsureRetired
<1>11. ASSUME NEW t \in Thread, EnsureSaveDirty(t) PROVE BatchInv'
  BY <1>11 DEF EnsureSaveDirty
<1>12. ASSUME NEW t \in Thread, EnsureClean(t) PROVE BatchInv'
  BY <1>12 DEF EnsureClean
<1>13. ASSUME NEW t \in Thread, EnsureDecide(t) PROVE BatchInv'
  BY <1>13 DEF EnsureDecide
<1>14. ASSUME NEW t \in Thread, EnsureExchange(t) PROVE BatchInv'
  BY <1>14 DEF EnsureExchange
<1>15. ASSUME NEW t \in Thread, EnsurePersist(t) PROVE BatchInv'
  BY <1>15 DEF EnsurePersist
<1>16. ASSUME NEW w \in Worker \ Batch, BackgroundTake(w) PROVE BatchInv'
  BY <1>16 DEF BackgroundTake, TakeFrom
<1>18. ASSUME NEW w \in Worker \ Batch, WorkerDone(w) PROVE BatchInv'
  BY <1>18 DEF WorkerDone
<1>19. ASSUME NEW b \in Worker \cap Batch, BatchBegin(b) PROVE BatchInv'
  BY <1>19 DEF BatchBegin
<1>20. ASSUME NEW b \in Worker \cap Batch, BatchList(b) PROVE BatchInv'
  BY <1>20 DEF BatchList
<1>21. ASSUME NEW b \in Worker \cap Batch, BatchPick(b) PROVE BatchInv'
  <2>1. UNCHANGED <<pool, enabled, health, refreshing, opPc, opKind, opId, opOld, opNew>>
    BY <1>21 DEF BatchPick
  <2>2. pc' = [pc EXCEPT ![b] = "ensure"] /\ opPc = "idle" /\ pc[b] = "pick"
    BY <1>21 DEF BatchPick
  <2>3. refreshing /\ \A c \in Worker \cap Batch : c # b => pc'[c] = "idle"
    BY ONLY <1>21, <2>2, TypeOK, BatchInv DEF BatchInv, TypeOK, Thread
  <2>4. CASE acct' = [acct EXCEPT ![b] = pool] /\ UNCHANGED <<idOf, retired>>
    BY <1>21, <2>1, <2>2, <2>3, <2>4
  <2>5. CASE ~(acct' = [acct EXCEPT ![b] = pool] /\ UNCHANGED <<idOf, retired>>)
    <3>1. PICK i \in Id, o \in Object :
            /\ pool # None => idOf[pool] # i
            /\ Fresh(o)
            /\ acct' = [acct EXCEPT ![b] = o]
            /\ idOf' = [idOf EXCEPT ![o] = i]
            /\ retired' = retired \ {o}
      BY <1>21, <2>5 DEF BatchPick
    <3>2. acct'[b] = o /\ idOf'[o] = i
      BY ONLY <1>21, <3>1, TypeOK DEF TypeOK, Thread
    <3>3. health = "healthy" => i # enabled
      BY ONLY <3>1, <1>a, GateAssumption
    <3>4. o # pool
      BY ONLY <3>1 DEF Fresh, Referenced
    <3>5. QED
      BY <1>21, <2>1, <2>2, <2>3, <3>1, <3>2, <3>3, <3>4
  <2>6. QED
    BY ONLY <2>4, <2>5
<1>22. ASSUME NEW b \in Worker \cap Batch, BatchCommit(b) PROVE BatchInv'
  BY <1>22 DEF BatchCommit
<1>23. ASSUME NEW b \in Worker \cap Batch, BatchEnd(b) PROVE BatchInv'
  BY <1>23 DEF BatchEnd
<1>24. ASSUME NEW kind \in {"switch", "add"}, NEW i \in Id \cup {None}, OpBegin(kind, i) PROVE BatchInv'
  BY <1>24 DEF OpBegin
<1>25. CASE OpLock
  BY <1>25 DEF OpLock
<1>26. CASE OpLoad
  BY <1>26 DEF OpLoad
<1>27. CASE OpLoadFails
  BY <1>27 DEF OpLoadFails
<1>28. CASE OpReplace
  <2>1. UNCHANGED <<pc, acct, refreshing, idOf>>
    BY <1>28 DEF OpReplace
  <2>2. ASSUME NEW b \in Worker \cap Batch, pc[b] \in HoldPc
        PROVE  acct[b] = pool' \/ acct[b] \in retired' \/ idOf[acct[b]] # enabled'
    <3>1. opKind = "add" /\ enabled' = enabled /\ health = "healthy"
      BY <2>2, <1>28 DEF OpReplace
    <3>2. acct[b] = pool => acct[b] \in retired'
      BY <2>2, <1>28 DEF OpReplace
    <3>3. retired \subseteq retired'
      BY <1>28 DEF OpReplace
    <3>4. QED
      BY <2>2, <3>1, <3>2, <3>3
  <2>3. QED
    BY <1>28, <2>1, <2>2 DEF OpReplace
<1>29. CASE OpReplaceFails
  BY <1>29 DEF OpReplaceFails
<1>30. CASE OpFinish
  BY <1>30 DEF OpFinish
<1>31. CASE UNCHANGED vars
  BY <1>31 DEF vars, poolVars, objectVars, waitVars, batchVars, opVars
<1>32. QED
  BY <1>1, <1>2, <1>3, <1>4, <1>5, <1>6, <1>7, <1>8, <1>9, <1>10, <1>11, <1>12, <1>13,
     <1>14, <1>15, <1>16, <1>18, <1>19, <1>20, <1>21, <1>22, <1>23, <1>24, <1>25,
     <1>26, <1>27, <1>28, <1>29, <1>30, <1>31
  DEF Next, RequestStep, AcquireStep, EnsureStep, BatchStep, OpStep


-----------------------------------------------------------------------------
(* Taking a slot adds the request to the holders of that account only;      *)
(* giving it back removes it.                                               *)
LEMMA HoldersFinite ==
  ASSUME NEW o PROVE IsFiniteSet(Holders(o)) /\ Cardinality(Holders(o)) \in Nat
BY GateAssumption, FS_Subset, FS_CardinalityType DEF Holders

(* A request that is given a slot is one holder more.                       *)
LEMMA HoldersAdd ==
  ASSUME NEW r \in Request, NEW o, ~Holds(r, o), Holders(o)' = Holders(o) \cup {r}
  PROVE  Cardinality(Holders(o)') = Cardinality(Holders(o)) + 1
BY HoldersFinite, FS_AddElement DEF Holders

(* A request that releases its slot is one holder less.                     *)
LEMMA HoldersRemove ==
  ASSUME NEW r \in Request, NEW o, Holds(r, o), Holders(o)' = Holders(o) \ {r}
  PROVE  Cardinality(Holders(o)') = Cardinality(Holders(o)) - 1
BY HoldersFinite, FS_RemoveElement DEF Holders

(* Steps that change no slot and no holder.                                 *)
LEMMA HeldUnchanged ==
  ASSUME TypeOK, HeldInv,
         pool' = pool, active' = active, retired' = retired,
         \A r \in Request : (pc'[r] \in HoldPc <=> pc[r] \in HoldPc)
                            /\ (pc[r] \in HoldPc => acct'[r] = acct[r])
  PROVE  HeldInv'
<1>1. \A o \in Object : Holders(o)' = Holders(o)
  BY DEF Holders, Holds
<1>2. SlotAccounting'
  BY <1>1 DEF HeldInv, SlotAccounting
<1>3. HeldIsEnabled'
  BY DEF HeldInv, HeldIsEnabled
<1>4. QED
  BY <1>2, <1>3 DEF HeldInv


(* If the enabled account has no slot in use, nobody is being served.        *)
LEMMA NotBusyNoHolder ==
  ASSUME TypeOK, HeldInv, ~PoolBusy
  PROVE  \A r \in Request : pc[r] \notin HoldPc
<1>1. SUFFICES ASSUME NEW r \in Request, pc[r] \in HoldPc PROVE FALSE
  OBVIOUS
<1>2. acct[r] = pool /\ pool \in Object
  BY <1>1, GateAssumption DEF HeldInv, HeldIsEnabled, TypeOK, Thread, HoldPc
<1>3. Cardinality(Holders(pool)) = 0
  BY <1>2, GateAssumption DEF PoolBusy, HeldInv, SlotAccounting, TypeOK
<1>4. Holders(pool) = {}
  BY <1>3, HoldersFinite, FS_EmptySet
<1>5. QED
  BY <1>1, <1>2, <1>4 DEF Holders, Holds

(* Slots are counted exactly, and a request holds a slot of the enabled     *)
(* object only.                                                             *)
LEMMA HeldStep == TypeOK /\ PoolLive /\ OpInv /\ HeldInv /\ [Next]_vars => HeldInv'
<1> USE GateAssumption DEF Thread, AcquirePc, RefreshPc, EnsurePc, HoldPc, OpPc,
        BackgroundThreads, Batch, Operator
<1> SUFFICES ASSUME TypeOK, PoolLive, OpInv, HeldInv, [Next]_vars PROVE HeldInv'
  OBVIOUS
<1> USE DEF poolVars, objectVars, waitVars, batchVars, opVars, Goto, Leave,
        EnsureUnchanged, OpUnchanged, OpGoto, OpReturn, OpTryLock, OpNothingToLock,
        GuardFree
<1>1. ASSUME NEW m \in 1..MaxLimit, SetMax(m) PROVE HeldInv'
  BY <1>1, HeldUnchanged DEF TypeOK, SetMax
<1>2. ASSUME NEW r \in Request, AcquireBegin(r) PROVE HeldInv'
  BY <1>2, HeldUnchanged DEF TypeOK, AcquireBegin
<1>3. ASSUME NEW r \in Request, AcquireSnapshot(r) PROVE HeldInv'
  BY <1>3, HeldUnchanged DEF TypeOK, AcquireSnapshot
<1>4. ASSUME NEW r \in Request, AcquireTry(r) PROVE HeldInv'
  <2>1. CASE ~CanTake(r)
    BY <1>4, <2>1, HeldUnchanged DEF TypeOK, AcquireTry
  <2>2. CASE CanTake(r)
    <3>1. /\ pool \in Object /\ acct[r] = pool /\ acct' = acct /\ pool' = pool
          /\ retired' = retired /\ pc' = [pc EXCEPT ![r] = "ensure"]
          /\ active' = [active EXCEPT ![pool] = @ + 1]
          /\ pc[r] = "try"
      BY <1>4, <2>2 DEF AcquireTry, CanTake, TypeOK
    <3>2. Holders(pool)' = Holders(pool) \cup {r} /\ ~Holds(r, pool)
      BY <3>1 DEF Holders, Holds, TypeOK
    <3>3. \A o \in Object \ {pool} : Holders(o)' = Holders(o)
      BY <3>1 DEF Holders, Holds, TypeOK
    <3>4. active'[pool] = Cardinality(Holders(pool)')
      BY <3>1, <3>2, HoldersAdd DEF HeldInv, SlotAccounting, TypeOK
    <3>5. SlotAccounting'
      BY <3>1, <3>3, <3>4 DEF HeldInv, SlotAccounting, TypeOK
    <3>6. HeldIsEnabled'
      BY <3>1 DEF HeldInv, HeldIsEnabled, PoolLive, TypeOK
    <3>7. QED
      BY <3>5, <3>6 DEF HeldInv
  <2>3. QED
    BY <2>1, <2>2
<1>5. ASSUME NEW r \in Request, AcquireDeadline(r) PROVE HeldInv'
  BY <1>5, HeldUnchanged DEF TypeOK, AcquireDeadline
<1>6. ASSUME NEW r \in Request, AcquirePoll(r) PROVE HeldInv'
  BY <1>6, HeldUnchanged DEF TypeOK, AcquirePoll
<1>7. ASSUME NEW r \in Request, Release(r) PROVE HeldInv'
  <2>1. /\ pc[r] = "run" /\ acct[r] \in Object /\ acct[r] = pool
        /\ pool' = pool /\ retired' = retired /\ pc'[r] \in {"enqueue", "idle"}
        /\ \A q \in Request \ {r} : pc'[q] = pc[q] /\ acct'[q] = acct[q]
    BY <1>7 DEF Release, HeldInv, HeldIsEnabled, TypeOK
  <2>2. Holders(pool)' = Holders(pool) \ {r} /\ Holds(r, pool)
    BY <2>1 DEF Holders, Holds
  <2>3. \A o \in Object \ {pool} : Holders(o)' = Holders(o)
    BY <2>1 DEF Holders, Holds
  <2>4. Cardinality(Holders(pool)) \in Nat /\ Cardinality(Holders(pool)') = Cardinality(Holders(pool)) - 1
        /\ Cardinality(Holders(pool)') \in Nat
    <3>1. IsFiniteSet(Holders(pool)) /\ IsFiniteSet(Holders(pool)')
      BY <2>2, HoldersFinite, FS_RemoveElement
    <3>2. QED
      BY <2>1, <2>2, <3>1, HoldersRemove, HoldersFinite, FS_CardinalityType
  <2>5. active'[pool] = Cardinality(Holders(pool)')
    BY <1>7, <2>1, <2>4 DEF Release, HeldInv, SlotAccounting, TypeOK
  <2>6. \A o \in Object \ {pool} : active'[o] = active[o]
    BY <1>7, <2>1 DEF Release, TypeOK
  <2>7. SlotAccounting'
    <3>1. SUFFICES ASSUME NEW o \in Object PROVE active'[o] = Cardinality(Holders(o)')
      BY DEF SlotAccounting
    <3>2. CASE o = pool
      BY <2>1, <2>5, <3>2
    <3>3. CASE o # pool
      BY <2>3, <2>6, <3>3 DEF HeldInv, SlotAccounting
    <3>4. QED
      BY <3>2, <3>3
  <2>8. HeldIsEnabled'
    BY <2>1 DEF HeldInv, HeldIsEnabled
  <2>9. QED
    BY <2>7, <2>8 DEF HeldInv
<1>8. ASSUME NEW r \in Request, Enqueue(r) PROVE HeldInv'
  BY <1>8, HeldUnchanged DEF TypeOK, Enqueue
<1>9. ASSUME NEW t \in Thread, EnsureLock(t) PROVE HeldInv'
  BY <1>9, HeldUnchanged DEF TypeOK, EnsureLock
<1>10. ASSUME NEW t \in Thread, EnsureRetired(t) PROVE HeldInv'
  BY <1>10, HeldUnchanged DEF TypeOK, EnsureRetired
<1>11. ASSUME NEW t \in Thread, EnsureSaveDirty(t) PROVE HeldInv'
  BY <1>11, HeldUnchanged DEF TypeOK, EnsureSaveDirty
<1>12. ASSUME NEW t \in Thread, EnsureClean(t) PROVE HeldInv'
  BY <1>12, HeldUnchanged DEF TypeOK, EnsureClean
<1>13. ASSUME NEW t \in Thread, EnsureDecide(t) PROVE HeldInv'
  BY <1>13, HeldUnchanged DEF TypeOK, EnsureDecide
<1>14. ASSUME NEW t \in Thread, EnsureExchange(t) PROVE HeldInv'
  BY <1>14, HeldUnchanged DEF TypeOK, EnsureExchange
<1>15. ASSUME NEW t \in Thread, EnsurePersist(t) PROVE HeldInv'
  BY <1>15, HeldUnchanged DEF TypeOK, EnsurePersist
<1>16. ASSUME NEW w \in Worker \ Batch, BackgroundTake(w) PROVE HeldInv'
  BY <1>16, HeldUnchanged DEF TypeOK, BackgroundTake, TakeFrom
<1>18. ASSUME NEW w \in Worker \ Batch, WorkerDone(w) PROVE HeldInv'
  BY <1>18, HeldUnchanged DEF TypeOK, WorkerDone
<1>19. ASSUME NEW b \in Worker \cap Batch, BatchBegin(b) PROVE HeldInv'
  BY <1>19, HeldUnchanged DEF TypeOK, BatchBegin
<1>20. ASSUME NEW b \in Worker \cap Batch, BatchList(b) PROVE HeldInv'
  BY <1>20, HeldUnchanged DEF TypeOK, BatchList
<1>21. ASSUME NEW b \in Worker \cap Batch, BatchPick(b) PROVE HeldInv'
  <2>1. pool' = pool /\ \A r \in Request : pc'[r] = pc[r] /\ acct'[r] = acct[r]
    BY <1>21 DEF BatchPick, TypeOK
  <2>2. CASE active' = active /\ retired' = retired
    BY <2>1, <2>2, HeldUnchanged
  <2>3. CASE \E o \in Object : Fresh(o) /\ active' = [active EXCEPT ![o] = 0] /\ retired' = retired \ {o}
    <3>1. PICK o \in Object : Fresh(o) /\ active' = [active EXCEPT ![o] = 0] /\ retired' = retired \ {o}
      BY <2>3
    <3>2. Holders(o) = {}
      BY <3>1 DEF Holders, Holds, Fresh, Referenced
    <3>3. active[o] = 0
      BY <3>2, FS_EmptySet DEF HeldInv, SlotAccounting
    <3>4. active' = active
      BY <3>1, <3>3 DEF TypeOK
    <3>5. SlotAccounting'
      BY <2>1, <3>4 DEF HeldInv, SlotAccounting, Holders, Holds
    <3>6. HeldIsEnabled'
      BY <2>1, <3>1 DEF HeldInv, HeldIsEnabled
    <3>7. QED
      BY <3>5, <3>6 DEF HeldInv
  <2>4. QED
    BY <1>21, <2>2, <2>3 DEF BatchPick
<1>22. ASSUME NEW b \in Worker \cap Batch, BatchCommit(b) PROVE HeldInv'
  BY <1>22, HeldUnchanged DEF TypeOK, BatchCommit
<1>23. ASSUME NEW b \in Worker \cap Batch, BatchEnd(b) PROVE HeldInv'
  BY <1>23, HeldUnchanged DEF TypeOK, BatchEnd
<1>24. ASSUME NEW kind \in {"switch", "add"}, NEW i \in Id \cup {None}, OpBegin(kind, i) PROVE HeldInv'
  BY <1>24, HeldUnchanged DEF TypeOK, OpBegin
<1>25. CASE OpLock
  BY <1>25, HeldUnchanged DEF TypeOK, OpLock
<1>26. CASE OpLoad
  <2>1. pool' = pool /\ acct' = acct /\ pc' = pc
    BY <1>26 DEF OpLoad, TypeOK
  <2>2. CASE active' = active /\ retired' = retired
    BY <2>1, <2>2, HeldUnchanged
  <2>3. CASE \E o \in Object : Fresh(o) /\ active' = [active EXCEPT ![o] = 0] /\ retired' = retired \ {o}
    <3>1. PICK o \in Object : Fresh(o) /\ active' = [active EXCEPT ![o] = 0] /\ retired' = retired \ {o}
      BY <2>3
    <3>2. Holders(o) = {}
      BY <3>1 DEF Holders, Holds, Fresh, Referenced
    <3>3. active[o] = 0
      BY <3>2, FS_EmptySet DEF HeldInv, SlotAccounting
    <3>4. active' = active
      BY <3>1, <3>3 DEF TypeOK
    <3>5. SlotAccounting'
      BY <2>1, <3>4 DEF HeldInv, SlotAccounting, Holders, Holds
    <3>6. HeldIsEnabled'
      BY <2>1, <3>1 DEF HeldInv, HeldIsEnabled
    <3>7. QED
      BY <3>5, <3>6 DEF HeldInv
  <2>4. QED
    BY <1>26, <2>2, <2>3 DEF OpLoad
<1>27. CASE OpLoadFails
  BY <1>27, HeldUnchanged DEF TypeOK, OpLoadFails
<1>28. CASE OpReplace
  <2>1. active' = active /\ pc' = pc /\ acct' = acct
    BY <1>28 DEF OpReplace
  <2>2. SlotAccounting'
    BY <2>1 DEF HeldInv, SlotAccounting, Holders, Holds
  <2>3. \A r \in Request : pc[r] \notin HoldPc
    BY <1>28, NotBusyNoHolder DEF OpReplace
  <2>4. HeldIsEnabled'
    BY <2>1, <2>3 DEF HeldIsEnabled
  <2>5. QED
    BY <2>2, <2>4 DEF HeldInv
<1>29. CASE OpReplaceFails
  BY <1>29, HeldUnchanged DEF TypeOK, OpReplaceFails
<1>30. CASE OpFinish
  BY <1>30, HeldUnchanged DEF TypeOK, OpFinish
<1>31. CASE UNCHANGED vars
  BY <1>31, HeldUnchanged
  DEF TypeOK, vars, poolVars, objectVars, waitVars, batchVars, opVars
<1>32. QED
  BY <1>1, <1>2, <1>3, <1>4, <1>5, <1>6, <1>7, <1>8, <1>9, <1>10, <1>11, <1>12, <1>13,
     <1>14, <1>15, <1>16, <1>18, <1>19, <1>20, <1>21, <1>22, <1>23, <1>24, <1>25,
     <1>26, <1>27, <1>28, <1>29, <1>30, <1>31
  DEF Next, RequestStep, AcquireStep, EnsureStep, BatchStep, OpStep

(* No operation retires an object while its token is being refreshed. *)
LEMMA RefreshedStep == TypeOK /\ OpInv /\ OwnerInv /\ RefreshedIsLive /\ [Next]_vars => RefreshedIsLive'
<1> USE GateAssumption DEF Thread, AcquirePc, RefreshPc, EnsurePc, HoldPc, OpPc,
        BackgroundThreads, Batch, Operator
<1> SUFFICES ASSUME TypeOK /\ OpInv /\ OwnerInv /\ RefreshedIsLive, [Next]_vars PROVE RefreshedIsLive'
  OBVIOUS
<1> USE DEF TypeOK, OpInv, OwnerInv, RefreshedIsLive, poolVars, objectVars, waitVars, batchVars, opVars, Goto, Leave,
        EnsureUnchanged, OpUnchanged, OpGoto, OpReturn, OpTryLock, OpNothingToLock,
        Fresh, Referenced, GuardFree
<1>1. ASSUME NEW m \in 1..MaxLimit, SetMax(m) PROVE RefreshedIsLive'
  BY <1>1 DEF SetMax
<1>2. ASSUME NEW r \in Request, AcquireBegin(r) PROVE RefreshedIsLive'
  BY <1>2 DEF AcquireBegin
<1>3. ASSUME NEW r \in Request, AcquireSnapshot(r) PROVE RefreshedIsLive'
  BY <1>3 DEF AcquireSnapshot
<1>4. ASSUME NEW r \in Request, AcquireTry(r) PROVE RefreshedIsLive'
  BY <1>4 DEF AcquireTry
<1>5. ASSUME NEW r \in Request, AcquireDeadline(r) PROVE RefreshedIsLive'
  BY <1>5 DEF AcquireDeadline
<1>6. ASSUME NEW r \in Request, AcquirePoll(r) PROVE RefreshedIsLive'
  BY <1>6 DEF AcquirePoll
<1>7. ASSUME NEW r \in Request, Release(r) PROVE RefreshedIsLive'
  BY <1>7 DEF Release
<1>8. ASSUME NEW r \in Request, Enqueue(r) PROVE RefreshedIsLive'
  BY <1>8 DEF Enqueue
<1>9. ASSUME NEW t \in Thread, EnsureLock(t) PROVE RefreshedIsLive'
  <2>1. SUFFICES ASSUME NEW u \in Thread, pc'[u] \in RefreshPc
                 PROVE  rmtx'[acct[u]] = u /\ acct[u] \notin retired
    BY <1>9 DEF EnsureLock
  <2>2. u # t /\ pc[u] \in RefreshPc
    BY <1>9, <2>1 DEF EnsureLock
  <2>3. acct[u] # acct[t]
    <3>1. rmtx[acct[u]] = u /\ u # None
      BY <2>2
    <3>2. rmtx[acct[t]] = None
      BY <1>9 DEF EnsureLock
    <3>3. QED
      BY <3>1, <3>2
  <2>4. QED
    BY <1>9, <2>2, <2>3 DEF EnsureLock
<1>10. ASSUME NEW t \in Thread, EnsureRetired(t) PROVE RefreshedIsLive'
  BY <1>10 DEF EnsureRetired
<1>11. ASSUME NEW t \in Thread, EnsureSaveDirty(t) PROVE RefreshedIsLive'
  BY <1>11 DEF EnsureSaveDirty
<1>12. ASSUME NEW t \in Thread, EnsureClean(t) PROVE RefreshedIsLive'
  BY <1>12 DEF EnsureClean
<1>13. ASSUME NEW t \in Thread, EnsureDecide(t) PROVE RefreshedIsLive'
  BY <1>13 DEF EnsureDecide
<1>14. ASSUME NEW t \in Thread, EnsureExchange(t) PROVE RefreshedIsLive'
  BY <1>14 DEF EnsureExchange
<1>15. ASSUME NEW t \in Thread, EnsurePersist(t) PROVE RefreshedIsLive'
  BY <1>15 DEF EnsurePersist
<1>16. ASSUME NEW w \in Worker \ Batch, BackgroundTake(w) PROVE RefreshedIsLive'
  BY <1>16 DEF BackgroundTake, TakeFrom
<1>18. ASSUME NEW w \in Worker \ Batch, WorkerDone(w) PROVE RefreshedIsLive'
  BY <1>18 DEF WorkerDone
<1>19. ASSUME NEW b \in Worker \cap Batch, BatchBegin(b) PROVE RefreshedIsLive'
  BY <1>19 DEF BatchBegin
<1>20. ASSUME NEW b \in Worker \cap Batch, BatchList(b) PROVE RefreshedIsLive'
  BY <1>20 DEF BatchList
<1>21. ASSUME NEW b \in Worker \cap Batch, BatchPick(b) PROVE RefreshedIsLive'
  BY <1>21 DEF BatchPick
<1>22. ASSUME NEW b \in Worker \cap Batch, BatchCommit(b) PROVE RefreshedIsLive'
  BY <1>22 DEF BatchCommit
<1>23. ASSUME NEW b \in Worker \cap Batch, BatchEnd(b) PROVE RefreshedIsLive'
  BY <1>23 DEF BatchEnd
<1>24. ASSUME NEW kind \in {"switch", "add"}, NEW i \in Id \cup {None}, OpBegin(kind, i) PROVE RefreshedIsLive'
  BY <1>24 DEF OpBegin
<1>25. CASE OpLock
  <2>1. UNCHANGED <<pc, acct, retired>>
    BY <1>25 DEF OpLock
  <2>2. SUFFICES ASSUME NEW t \in Thread, pc[t] \in RefreshPc PROVE rmtx'[acct[t]] = rmtx[acct[t]]
    BY <2>1
  <2>3. rmtx[acct[t]] # None
    <3>1. rmtx[acct[t]] = t
      BY <2>2
    <3>2. t # None
      BY ONLY <2>2, GateAssumption DEF Thread
    <3>3. QED
      BY ONLY <3>1, <3>2
  <2>4. QED
    BY <1>25, <2>2, <2>3 DEF OpLock
<1>26. CASE OpLoad
  BY <1>26 DEF OpLoad
<1>27. CASE OpLoadFails
  BY <1>27 DEF OpLoadFails
<1>28. CASE OpReplace
  <2>1. UNCHANGED <<pc, acct, rmtx>>
    BY <1>28 DEF OpReplace
  <2>2. SUFFICES ASSUME NEW t \in Thread, pc[t] \in RefreshPc PROVE acct[t] \notin retired'
    BY <2>1
  <2>3. acct[t] # pool
    BY <1>28, <2>2 DEF OpReplace
  <2>4. QED
    BY <1>28, <2>2, <2>3 DEF OpReplace
<1>29. CASE OpReplaceFails
  BY <1>29 DEF OpReplaceFails
<1>30. CASE OpFinish
  BY <1>30 DEF OpFinish
<1>31. CASE UNCHANGED vars
  BY <1>31 DEF vars, poolVars, objectVars, waitVars, batchVars, opVars
<1>32. QED
  BY <1>1, <1>2, <1>3, <1>4, <1>5, <1>6, <1>7, <1>8, <1>9, <1>10, <1>11, <1>12, <1>13,
     <1>14, <1>15, <1>16, <1>18, <1>19, <1>20, <1>21, <1>22, <1>23, <1>24, <1>25,
     <1>26, <1>27, <1>28, <1>29, <1>30, <1>31
  DEF Next, RequestStep, AcquireStep, EnsureStep, BatchStep, OpStep


-----------------------------------------------------------------------------
(* The inductive invariant holds in every reachable state.                  *)
THEOREM Invariance == Spec => []IInv
<1>1. Init => IInv
  <2> SUFFICES ASSUME Init PROVE IInv
    OBVIOUS
  <2> USE GateAssumption DEF Thread, Batch, BackgroundThreads, Operator, HoldPc, EnsurePc, RefreshPc
  <2>1. TypeOK
    BY TypeInit
  <2>2. \A r \in Request : pc[r] = "idle"
    BY DEF Init
  <2>3. SlotAccounting
    <3>1. \A o \in Object : Holders(o) = {}
      BY <2>2 DEF Holders, Holds
    <3>2. QED
      BY <3>1, FS_EmptySet DEF Init, SlotAccounting
  <2>4. HeldInv
    BY <2>2, <2>3 DEF HeldInv, HeldIsEnabled
  <2>5. PoolLive /\ OpInv /\ OwnerInv /\ RefreshedIsLive /\ EnabledAgrees /\ BatchInv /\ LiveInv
    BY DEF Init, PoolLive, OpInv, OwnerInv, RefreshedIsLive, EnabledAgrees, BatchInv,
       LiveInv
  <2>6. QED
    BY <2>1, <2>4, <2>5 DEF IInv
<1>2. IInv /\ [Next]_vars => IInv'
  BY TypeStep, OwnerStep, OpStepPreserves, RefreshedStep, HeldStep, EnabledStep,
     BatchStepPreserves, LiveStep DEF IInv
<1>3. QED
  BY <1>1, <1>2, PTL DEF Spec

(* Slots in use are exactly the requests being served, on every account.    *)
THEOREM SlotsExact == Spec => []SlotAccounting
BY Invariance, PTL DEF IInv, HeldInv

(* A request that was granted an account runs on the enabled one until it    *)
(* releases it: no switch overtakes the unlocked pick of acquire.           *)
THEOREM GrantStaysEnabled == Spec => []HeldIsEnabled
BY Invariance, PTL DEF IInv, HeldInv

(* Pool and registry agree at every step of every operation.                *)
THEOREM PoolMatchesRegistry == Spec => []EnabledAgrees
BY Invariance, PTL DEF IInv

(* A token is refreshed and saved for a live object only.                   *)
THEOREM NoRefreshAfterRetirement == Spec => []RefreshedIsLive
BY Invariance, PTL DEF IInv


-----------------------------------------------------------------------------
(* The limit.  Steps that admit nobody leave fewer or the same requests.     *)
LEMMA LimitShrinks ==
  ASSUME LimitRespected,
         \A r \in Request : pc'[r] \in HoldPc =>
           pc[r] \in HoldPc /\ acct'[r] = acct[r] /\ lim'[r] = lim[r]
  PROVE  LimitRespected'
<1>1. SUFFICES ASSUME NEW o \in Object, NEW k \in 1..MaxLimit
               PROVE  Cardinality({r \in Holders(o)' : lim'[r] <= k}) <= k
  BY DEF LimitRespected
<1> DEFINE S == {r \in Holders(o) : lim[r] <= k}
           T == {r \in Holders(o)' : lim'[r] <= k}
<1>2. T \subseteq S
  BY DEF Holders, Holds
<1>3. IsFiniteSet(S)
  BY HoldersFinite, FS_Subset
<1>4. Cardinality(T) <= Cardinality(S) /\ Cardinality(T) \in Nat /\ Cardinality(S) \in Nat
  BY <1>2, <1>3, FS_Subset, FS_CardinalityType
<1>5. Cardinality(S) <= k
  BY DEF LimitRespected
<1> HIDE DEF S, T
<1>6. Cardinality(T) <= k
  BY <1>4, <1>5
<1>7. QED
  BY <1>6 DEF T

(* Every step keeps the limit of each request.                              *)
LEMMA LimitStep == TypeOK /\ HeldInv /\ LimitRespected /\ [Next]_vars => LimitRespected'
<1> USE GateAssumption DEF Thread, AcquirePc, RefreshPc, EnsurePc, HoldPc, OpPc,
        BackgroundThreads, Batch, Operator
<1> SUFFICES ASSUME TypeOK, HeldInv, LimitRespected, [Next]_vars PROVE LimitRespected'
  OBVIOUS
<1> USE DEF poolVars, objectVars, waitVars, batchVars, opVars, Goto, Leave,
        EnsureUnchanged, OpUnchanged, OpGoto, OpReturn, OpTryLock, OpNothingToLock
<1>1. ASSUME NEW m \in 1..MaxLimit, SetMax(m) PROVE LimitRespected'
  BY <1>1, LimitShrinks DEF TypeOK, SetMax
<1>2. ASSUME NEW r \in Request, AcquireBegin(r) PROVE LimitRespected'
  BY <1>2, LimitShrinks DEF TypeOK, AcquireBegin
<1>3. ASSUME NEW r \in Request, AcquireSnapshot(r) PROVE LimitRespected'
  BY <1>3, LimitShrinks DEF TypeOK, AcquireSnapshot
<1>4. ASSUME NEW r \in Request, AcquireTry(r) PROVE LimitRespected'
  <2>1. CASE ~CanTake(r)
    BY <1>4, <2>1, LimitShrinks DEF TypeOK, AcquireTry
  <2>2. CASE CanTake(r)
    <3>1. SUFFICES ASSUME NEW o \in Object, NEW k \in 1..MaxLimit
                   PROVE  Cardinality({q \in Holders(o)' : lim[q] <= k}) <= k
      BY <1>4 DEF LimitRespected, AcquireTry
    <3>2. /\ acct' = acct /\ acct[r] = pool /\ pc[r] = "try" /\ active[pool] < lim[r]
          /\ pc' = [pc EXCEPT ![r] = "ensure"]
      BY <1>4, <2>2 DEF AcquireTry, CanTake
    <3> DEFINE S == {q \in Holders(o) : lim[q] <= k}
               T == {q \in Holders(o)' : lim[q] <= k}
    <3>3. IsFiniteSet(S) /\ Cardinality(S) \in Nat /\ Cardinality(S) <= Cardinality(Holders(o))
      BY HoldersFinite, FS_Subset, FS_CardinalityType
    <3>4. Cardinality(S) <= k
      BY DEF LimitRespected
    <3>5. CASE o = pool /\ lim[r] <= k
      <4>1. T = S \cup {r} /\ r \notin S
        BY <3>2, <3>5 DEF Holders, Holds, TypeOK
      <4>2. Cardinality(T) = Cardinality(S) + 1
        BY <3>3, <4>1, FS_AddElement
      <4>3. Cardinality(S) < lim[r]
        BY <3>2, <3>3, <3>5, HoldersFinite DEF HeldInv, SlotAccounting, TypeOK
      <4>4. QED
        BY <3>3, <3>5, <4>2, <4>3 DEF TypeOK
    <3>6. CASE ~(o = pool /\ lim[r] <= k)
      <4>1. T = S
        BY <3>2, <3>6 DEF Holders, Holds, TypeOK
      <4>2. QED
        BY <3>4, <4>1
    <3>7. QED
      BY <3>5, <3>6
  <2>3. QED
    BY <2>1, <2>2
<1>5. ASSUME NEW r \in Request, AcquireDeadline(r) PROVE LimitRespected'
  BY <1>5, LimitShrinks DEF TypeOK, AcquireDeadline
<1>6. ASSUME NEW r \in Request, AcquirePoll(r) PROVE LimitRespected'
  BY <1>6, LimitShrinks DEF TypeOK, AcquirePoll
<1>7. ASSUME NEW r \in Request, Release(r) PROVE LimitRespected'
  BY <1>7, LimitShrinks DEF TypeOK, Release
<1>8. ASSUME NEW r \in Request, Enqueue(r) PROVE LimitRespected'
  BY <1>8, LimitShrinks DEF TypeOK, Enqueue
<1>9. ASSUME NEW t \in Thread, EnsureLock(t) PROVE LimitRespected'
  BY <1>9, LimitShrinks DEF TypeOK, EnsureLock
<1>10. ASSUME NEW t \in Thread, EnsureRetired(t) PROVE LimitRespected'
  BY <1>10, LimitShrinks DEF TypeOK, EnsureRetired
<1>11. ASSUME NEW t \in Thread, EnsureSaveDirty(t) PROVE LimitRespected'
  BY <1>11, LimitShrinks DEF TypeOK, EnsureSaveDirty
<1>12. ASSUME NEW t \in Thread, EnsureClean(t) PROVE LimitRespected'
  BY <1>12, LimitShrinks DEF TypeOK, EnsureClean
<1>13. ASSUME NEW t \in Thread, EnsureDecide(t) PROVE LimitRespected'
  BY <1>13, LimitShrinks DEF TypeOK, EnsureDecide
<1>14. ASSUME NEW t \in Thread, EnsureExchange(t) PROVE LimitRespected'
  BY <1>14, LimitShrinks DEF TypeOK, EnsureExchange
<1>15. ASSUME NEW t \in Thread, EnsurePersist(t) PROVE LimitRespected'
  BY <1>15, LimitShrinks DEF TypeOK, EnsurePersist
<1>16. ASSUME NEW w \in Worker \ Batch, BackgroundTake(w) PROVE LimitRespected'
  BY <1>16, LimitShrinks DEF TypeOK, BackgroundTake, TakeFrom
<1>18. ASSUME NEW w \in Worker \ Batch, WorkerDone(w) PROVE LimitRespected'
  BY <1>18, LimitShrinks DEF TypeOK, WorkerDone
<1>19. ASSUME NEW b \in Worker \cap Batch, BatchBegin(b) PROVE LimitRespected'
  BY <1>19, LimitShrinks DEF TypeOK, BatchBegin
<1>20. ASSUME NEW b \in Worker \cap Batch, BatchList(b) PROVE LimitRespected'
  BY <1>20, LimitShrinks DEF TypeOK, BatchList
<1>21. ASSUME NEW b \in Worker \cap Batch, BatchPick(b) PROVE LimitRespected'
  BY <1>21, LimitShrinks DEF TypeOK, BatchPick
<1>22. ASSUME NEW b \in Worker \cap Batch, BatchCommit(b) PROVE LimitRespected'
  BY <1>22, LimitShrinks DEF TypeOK, BatchCommit
<1>23. ASSUME NEW b \in Worker \cap Batch, BatchEnd(b) PROVE LimitRespected'
  BY <1>23, LimitShrinks DEF TypeOK, BatchEnd
<1>24. ASSUME NEW kind \in {"switch", "add"}, NEW i \in Id \cup {None}, OpBegin(kind, i) PROVE LimitRespected'
  BY <1>24, LimitShrinks DEF TypeOK, OpBegin
<1>25. CASE OpLock
  BY <1>25, LimitShrinks DEF TypeOK, OpLock
<1>26. CASE OpLoad
  BY <1>26, LimitShrinks DEF TypeOK, OpLoad
<1>27. CASE OpLoadFails
  BY <1>27, LimitShrinks DEF TypeOK, OpLoadFails
<1>28. CASE OpReplace
  BY <1>28, LimitShrinks DEF TypeOK, OpReplace
<1>29. CASE OpReplaceFails
  BY <1>29, LimitShrinks DEF TypeOK, OpReplaceFails
<1>30. CASE OpFinish
  BY <1>30, LimitShrinks DEF TypeOK, OpFinish
<1>31. CASE UNCHANGED vars
  BY <1>31, LimitShrinks
  DEF TypeOK, vars, poolVars, objectVars, waitVars, batchVars, opVars
<1>32. QED
  BY <1>1, <1>2, <1>3, <1>4, <1>5, <1>6, <1>7, <1>8, <1>9, <1>10, <1>11, <1>12, <1>13,
     <1>14, <1>15, <1>16, <1>18, <1>19, <1>20, <1>21, <1>22, <1>23, <1>24, <1>25,
     <1>26, <1>27, <1>28, <1>29, <1>30, <1>31
  DEF Next, RequestStep, AcquireStep, EnsureStep, BatchStep, OpStep

(* At most k of the requests admitted under a limit of k or less run at     *)
(* once on an account, however the setting changes meanwhile.               *)
THEOREM LimitHolds == Spec => []LimitRespected
<1>1. Init => LimitRespected
  <2> SUFFICES ASSUME Init PROVE LimitRespected
    OBVIOUS
  <2>1. \A o \in Object, k \in 1..MaxLimit : {r \in Holders(o) : lim[r] <= k} = {}
    BY GateAssumption DEF Init, Holders, Holds, HoldPc, EnsurePc, RefreshPc, Thread
  <2>2. \A k \in 1..MaxLimit : 0 <= k
    BY GateAssumption
  <2>3. QED
    BY <2>1, <2>2, FS_EmptySet DEF LimitRespected
<1>2. IInv /\ LimitRespected /\ [Next]_vars => LimitRespected'
  BY LimitStep DEF IInv
<1>3. QED
  BY <1>1, <1>2, Invariance, PTL DEF Spec

(* No two threads rotate the refresh token of one credential together.      *)
THEOREM OneRefresh == Spec => []OneRefreshPerCredential
<1>1. IInv => OneRefreshPerCredential
  <2>1. SUFFICES ASSUME IInv, NEW s \in Thread, NEW t \in Thread, s # t,
                        pc[s] \in RefreshPc, pc[t] \in RefreshPc,
                        idOf[acct[s]] = idOf[acct[t]]
                 PROVE  FALSE
    BY DEF OneRefreshPerCredential
  <2>2. acct[s] # acct[t]
    BY <2>1 DEF IInv, RefreshedIsLive
  <2>3. acct[s] \notin retired /\ acct[t] \notin retired
    BY <2>1 DEF IInv, RefreshedIsLive
  <2>4. ASSUME NEW u \in Thread \ Batch, pc[u] \in RefreshPc, acct[u] \notin retired
        PROVE  acct[u] = pool /\ pool # None
    BY <2>1, <2>4 DEF IInv, LiveInv, TypeOK, HoldPc, EnsurePc
  <2>5. ASSUME NEW b \in Worker \cap Batch, pc[b] \in RefreshPc, acct[b] \notin retired, acct[b] # pool
        PROVE  health = "healthy" => idOf[acct[b]] # enabled
    BY <2>1, <2>5 DEF IInv, BatchInv, HoldPc, EnsurePc
  <2>6. pool # None => health = "healthy" /\ idOf[pool] = enabled
    BY <2>1 DEF IInv, EnabledAgrees, TypeOK
  <2>7. CASE s \in Batch /\ t \in Batch
    BY <2>1, <2>7, GateAssumption
    DEF IInv, BatchInv, Thread, Batch, BackgroundThreads, RefreshPc
  <2>8. CASE s \notin Batch /\ t \notin Batch
    BY <2>1, <2>2, <2>3, <2>4, <2>8
  <2>9. CASE s \in Batch /\ t \notin Batch
    BY <2>1, <2>2, <2>3, <2>4, <2>5, <2>6, <2>9, GateAssumption
    DEF Thread, BackgroundThreads, Batch
  <2>10. CASE s \notin Batch /\ t \in Batch
    BY <2>1, <2>2, <2>3, <2>4, <2>5, <2>6, <2>10, GateAssumption
    DEF Thread, BackgroundThreads, Batch
  <2>11. QED
    BY <2>7, <2>8, <2>9, <2>10
<1>2. QED
  BY <1>1, Invariance, PTL

-----------------------------------------------------------------------------
(* Refinement: a grant is Acquire, a release is Release, a swap is Switch,   *)
(* and every other step changes neither the pool nor a lease.               *)
LEMMA LeaseStutters ==
  ASSUME pool' = pool,
         \A r \in Request : (pc'[r] \in HoldPc <=> pc[r] \in HoldPc)
                            /\ (pc[r] \in HoldPc => acct'[r] = acct[r])
  PROVE  [Lease!Next]_(Lease!leaseVars)
<1>1. \A r \in Request : (IF pc'[r] \in HoldPc THEN acct'[r] ELSE None)
                       = (IF pc[r] \in HoldPc THEN acct[r] ELSE None)
  OBVIOUS
<1>2. QED
  BY <1>1 DEF Lease!leaseVars

(* Every step of the gate is a step of the lease, or none.                  *)
LEMMA LeaseStep ==
  TypeOK /\ HeldInv /\ [Next]_vars => [Lease!Next]_(Lease!leaseVars)
<1> USE GateAssumption DEF Thread, AcquirePc, RefreshPc, EnsurePc, HoldPc, OpPc,
        BackgroundThreads, Batch, Operator
<1> SUFFICES ASSUME TypeOK, HeldInv, [Next]_vars PROVE [Lease!Next]_(Lease!leaseVars)
  OBVIOUS
<1> USE DEF poolVars, objectVars, waitVars, batchVars, opVars, Goto, Leave,
        EnsureUnchanged, OpUnchanged, OpGoto, OpReturn, OpTryLock, OpNothingToLock
<1>1. ASSUME NEW m \in 1..MaxLimit, SetMax(m) PROVE [Lease!Next]_(Lease!leaseVars)
  BY <1>1, LeaseStutters DEF TypeOK, SetMax
<1>2. ASSUME NEW r \in Request, AcquireBegin(r) PROVE [Lease!Next]_(Lease!leaseVars)
  BY <1>2, LeaseStutters DEF TypeOK, AcquireBegin
<1>3. ASSUME NEW r \in Request, AcquireSnapshot(r) PROVE [Lease!Next]_(Lease!leaseVars)
  BY <1>3, LeaseStutters DEF TypeOK, AcquireSnapshot
<1>4. ASSUME NEW r \in Request, AcquireTry(r) PROVE [Lease!Next]_(Lease!leaseVars)
  <2>1. CASE ~CanTake(r)
    BY <1>4, <2>1, LeaseStutters DEF TypeOK, AcquireTry
  <2>2. CASE CanTake(r)
    <3>1. /\ acct' = acct /\ acct[r] = pool /\ pc[r] = "try" /\ active[pool] < lim[r]
          /\ pc' = [pc EXCEPT ![r] = "ensure"] /\ pool' = pool /\ pool \in Object
      BY <1>4, <2>2 DEF AcquireTry, CanTake, TypeOK
    <3>2. Lease!Leased = Holders(pool)
      BY <3>1 DEF Lease!Leased, Holders, Holds, HeldInv, HeldIsEnabled, TypeOK
    <3>3. Cardinality(Lease!Leased) < MaxLimit
      BY <3>1, <3>2 DEF HeldInv, SlotAccounting, TypeOK
    <3>4. [q \in Request |-> IF pc'[q] \in HoldPc THEN acct'[q] ELSE None]
          = [[q \in Request |-> IF pc[q] \in HoldPc THEN acct[q] ELSE None] EXCEPT ![r] = pool]
      BY <3>1 DEF TypeOK
    <3>5. Lease!Acquire(r)
      <4>1. [q \in Request |-> IF pc[q] \in HoldPc THEN acct[q] ELSE None][r] = None /\ pool # None
        BY <3>1
      <4>2. Lease!Cardinality(Lease!Leased) = Cardinality(Lease!Leased)
        BY ONLY DEF Lease!Cardinality, Cardinality
      <4>3. QED
        BY ONLY <3>1, <3>3, <3>4, <4>1, <4>2 DEF Lease!Acquire
    <3>6. QED
      BY <3>5 DEF Lease!Next
  <2>3. QED
    BY <2>1, <2>2
<1>5. ASSUME NEW r \in Request, AcquireDeadline(r) PROVE [Lease!Next]_(Lease!leaseVars)
  BY <1>5, LeaseStutters DEF TypeOK, AcquireDeadline
<1>6. ASSUME NEW r \in Request, AcquirePoll(r) PROVE [Lease!Next]_(Lease!leaseVars)
  BY <1>6, LeaseStutters DEF TypeOK, AcquirePoll
<1>7. ASSUME NEW r \in Request, Release(r) PROVE [Lease!Next]_(Lease!leaseVars)
  <2>1. /\ pc[r] = "run" /\ acct[r] # None /\ pool' = pool /\ pc'[r] \in {"enqueue", "idle"}
        /\ \A q \in Request \ {r} : pc'[q] = pc[q] /\ acct'[q] = acct[q]
    BY <1>7 DEF Release, TypeOK
  <2>2. [q \in Request |-> IF pc'[q] \in HoldPc THEN acct'[q] ELSE None]
        = [[q \in Request |-> IF pc[q] \in HoldPc THEN acct[q] ELSE None] EXCEPT ![r] = None]
    BY <2>1
  <2>3. Lease!Release(r)
    BY <2>1, <2>2 DEF Lease!Release
  <2>4. QED
    BY <2>3 DEF Lease!Next
<1>8. ASSUME NEW r \in Request, Enqueue(r) PROVE [Lease!Next]_(Lease!leaseVars)
  BY <1>8, LeaseStutters DEF TypeOK, Enqueue
<1>9. ASSUME NEW t \in Thread, EnsureLock(t) PROVE [Lease!Next]_(Lease!leaseVars)
  BY <1>9, LeaseStutters DEF TypeOK, EnsureLock
<1>10. ASSUME NEW t \in Thread, EnsureRetired(t) PROVE [Lease!Next]_(Lease!leaseVars)
  BY <1>10, LeaseStutters DEF TypeOK, EnsureRetired
<1>11. ASSUME NEW t \in Thread, EnsureSaveDirty(t) PROVE [Lease!Next]_(Lease!leaseVars)
  BY <1>11, LeaseStutters DEF TypeOK, EnsureSaveDirty
<1>12. ASSUME NEW t \in Thread, EnsureClean(t) PROVE [Lease!Next]_(Lease!leaseVars)
  BY <1>12, LeaseStutters DEF TypeOK, EnsureClean
<1>13. ASSUME NEW t \in Thread, EnsureDecide(t) PROVE [Lease!Next]_(Lease!leaseVars)
  BY <1>13, LeaseStutters DEF TypeOK, EnsureDecide
<1>14. ASSUME NEW t \in Thread, EnsureExchange(t) PROVE [Lease!Next]_(Lease!leaseVars)
  BY <1>14, LeaseStutters DEF TypeOK, EnsureExchange
<1>15. ASSUME NEW t \in Thread, EnsurePersist(t) PROVE [Lease!Next]_(Lease!leaseVars)
  BY <1>15, LeaseStutters DEF TypeOK, EnsurePersist
<1>16. ASSUME NEW w \in Worker \ Batch, BackgroundTake(w) PROVE [Lease!Next]_(Lease!leaseVars)
  BY <1>16, LeaseStutters DEF TypeOK, BackgroundTake, TakeFrom
<1>18. ASSUME NEW w \in Worker \ Batch, WorkerDone(w) PROVE [Lease!Next]_(Lease!leaseVars)
  BY <1>18, LeaseStutters DEF TypeOK, WorkerDone
<1>19. ASSUME NEW b \in Worker \cap Batch, BatchBegin(b) PROVE [Lease!Next]_(Lease!leaseVars)
  BY <1>19, LeaseStutters DEF TypeOK, BatchBegin
<1>20. ASSUME NEW b \in Worker \cap Batch, BatchList(b) PROVE [Lease!Next]_(Lease!leaseVars)
  BY <1>20, LeaseStutters DEF TypeOK, BatchList
<1>21. ASSUME NEW b \in Worker \cap Batch, BatchPick(b) PROVE [Lease!Next]_(Lease!leaseVars)
  BY <1>21, LeaseStutters DEF TypeOK, BatchPick
<1>22. ASSUME NEW b \in Worker \cap Batch, BatchCommit(b) PROVE [Lease!Next]_(Lease!leaseVars)
  BY <1>22, LeaseStutters DEF TypeOK, BatchCommit
<1>23. ASSUME NEW b \in Worker \cap Batch, BatchEnd(b) PROVE [Lease!Next]_(Lease!leaseVars)
  BY <1>23, LeaseStutters DEF TypeOK, BatchEnd
<1>24. ASSUME NEW kind \in {"switch", "add"}, NEW i \in Id \cup {None}, OpBegin(kind, i) PROVE [Lease!Next]_(Lease!leaseVars)
  BY <1>24, LeaseStutters DEF TypeOK, OpBegin
<1>25. CASE OpLock
  BY <1>25, LeaseStutters DEF TypeOK, OpLock
<1>26. CASE OpLoad
  BY <1>26, LeaseStutters DEF TypeOK, OpLoad
<1>27. CASE OpLoadFails
  BY <1>27, LeaseStutters DEF TypeOK, OpLoadFails
<1>28. CASE OpReplace
  <2>1. pc' = pc /\ acct' = acct /\ pool' = opNew /\ opNew \in Object \cup {None}
    BY <1>28 DEF OpReplace, TypeOK
  <2>2. \A r \in Request : pc[r] \notin HoldPc
    BY <1>28, NotBusyNoHolder DEF OpReplace
  <2>3. Lease!Leased = {}
    BY <2>2 DEF Lease!Leased
  <2>4. Lease!Switch(opNew)
    BY <2>1, <2>3 DEF Lease!Switch
  <2>5. QED
    BY <2>1, <2>4 DEF Lease!Next
<1>29. CASE OpReplaceFails
  BY <1>29, LeaseStutters DEF TypeOK, OpReplaceFails
<1>30. CASE OpFinish
  BY <1>30, LeaseStutters DEF TypeOK, OpFinish
<1>31. CASE UNCHANGED vars
  BY <1>31, LeaseStutters
  DEF TypeOK, vars, poolVars, objectVars, waitVars, batchVars, opVars
<1>32. QED
  BY <1>1, <1>2, <1>3, <1>4, <1>5, <1>6, <1>7, <1>8, <1>9, <1>10, <1>11, <1>12, <1>13,
     <1>14, <1>15, <1>16, <1>18, <1>19, <1>20, <1>21, <1>22, <1>23, <1>24, <1>25,
     <1>26, <1>27, <1>28, <1>29, <1>30, <1>31
  DEF Next, RequestStep, AcquireStep, EnsureStep, BatchStep, OpStep

(* The gate implements the lease service, for every value of the constants. *)
THEOREM GateImplementsLease == Spec => ImplementsLease
<1>1. Init => Lease!Init
  BY GateAssumption DEF Init, Lease!Init, HoldPc, EnsurePc, RefreshPc, Thread
<1>2. IInv /\ [Next]_vars => [Lease!Next]_(Lease!leaseVars)
  BY LeaseStep DEF IInv
<1>3. QED
  BY <1>1, <1>2, Invariance, PTL DEF Spec, Lease!Spec, ImplementsLease

=============================================================================
