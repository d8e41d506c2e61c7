-------------------------------- MODULE MCUsage --------------------------------
(* What is done for an account around its requests, in three parts that      *)
(* share no variable of the models, so that an order of their steps means    *)
(* nothing and each moves while the others have not begun: a request waits   *)
(* for a slot against the operations on the accounts (Gate: AccountGate);    *)
(* its usage record is written (UsageLedger); the log shows it (UsageLog).   *)
(*                                                                           *)
(* The gate has one request, the worker that reads credits and two account   *)
(* objects.  The ledger has two requests that meet on one account in every   *)
(* order, or run on accounts of their own, one of them enterprise.  The log  *)
(* has three records, room for two of them, and three days, two of which are *)
(* kept.                                                                     *)
EXTENDS UsageLedger, UsageLog

CONSTANTS r1, r2, a1, a2

(* The variables of Gate, two of them under names of their own.             *)
VARIABLES pool, active, retired, dirty, idOf, rmtx, maxC, enabled, health, refreshing,
          creditQ, todo, gatePc, acct, lim, late, opPc, opKind, opId, opOld, opNew

Gate == INSTANCE AccountGate WITH
  Request <- {"r1"}, Worker <- {"credit"}, Object <- {"o1", "o2"}, Id <- {"i1"},
  MaxLimit <- 1, pc <- gatePc
gateVars ==
  <<pool, active, retired, dirty, idOf, rmtx, maxC, enabled, health, refreshing,
    creditQ, todo, gatePc, acct, lim, late, opPc, opKind, opId, opOld, opNew>>

(* Acquiring an account ends, and so does every operation on the accounts   *)
(* (AcquireReturns and OperationReturns of AccountGate).                    *)
AcquireReturns   == Gate!AcquireReturns
OperationReturns == Gate!OperationReturns

-----------------------------------------------------------------------------
LogAtRest ==
  today = 1 /\ appended = <<>> /\ ~cacheLoaded /\ countedDay = 0 /\ at = [r \in Record |-> 0]
LedgerAtRest == Init /\ on = [r \in Request |-> a1]
\* The worker has nothing to do, and no account was ever enabled.
GateAtRest   ==
  health = "healthy" /\ opPc = "idle" /\ gatePc["r1"] = "idle" /\ idOf["o1"] = None /\ idOf["o2"] = None

allVars == <<vars, logVars, gateVars>>
Settles(A)  == GateAtRest /\ LogAtRest /\ A /\ UNCHANGED <<logVars, gateVars>>
Logs(A)     == GateAtRest /\ LedgerAtRest /\ A /\ UNCHANGED <<vars, gateVars>>
Acquires(A) == LogAtRest /\ LedgerAtRest /\ A /\ UNCHANGED <<vars, logVars>>

UsageInit == Init /\ LogInit /\ Gate!Init
UsageNext == Settles(Next) \/ Logs(LogNext) \/ Acquires(Gate!Next)

(* The fairness of UsageLedger and of AccountGate, each for its own part.   *)
UsageFairness ==
  /\ \A r \in Request : WF_allVars(Settles(exit # "ended" /\ Finishing(r)))
  /\ WF_allVars(Settles(exit # "ended" /\ WorkerStep))
  /\ \A q \in Querier : WF_allVars(Settles(exit # "ended" /\ QueryStep(q)))
  /\ WF_allVars(Acquires(Gate!AcquireStep("r1"))) /\ WF_allVars(Acquires(Gate!AcquireDeadline("r1")))
  /\ WF_allVars(Acquires(Gate!OpStep))

UsageSpec == UsageInit /\ [][UsageNext]_allVars /\ UsageFairness
=============================================================================
