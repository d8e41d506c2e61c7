---------------------------- MODULE MCAccountGate ----------------------------
(* AccountGate on a small instance: model values for requests, objects and  *)
(* ids; the set of background threads is chosen by the .cfg.                 *)
EXTENDS AccountGate, TLC

(* The fields of an object nobody refers to are dead: they are set again     *)
(* before the name is reused.  So is the limit of a request that is idle.     *)
LiveFields(f) == [o \in Referenced \cap Object |-> f[o]]
GateView ==
  <<pool, LiveFields(active), retired \cap Referenced, dirty \cap Referenced, LiveFields(idOf),
    rmtx, maxC, enabled, health, batchVars, creditQ, pc, acct, late, opVars,
    [r \in {q \in Request : pc[q] \notin {"idle", "enqueue"}} |-> lim[r]]>>

GateSymmetry == Permutations(Request) \cup Permutations(Object) \cup Permutations(Id)
=============================================================================
