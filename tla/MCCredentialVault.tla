-------------------------- MODULE MCCredentialVault --------------------------
(* CredentialVault on a small instance: a web account and an account of the *)
(* IDE's directory, three objects, and the threads the cfg chooses.         *)
EXTENDS CredentialVault, TLC

CONSTANTS w1, d1, o1, o2, o3, o4

SourcesOf == w1 :> "web" @@ d1 :> "default"
(* Objects that nothing refers to differ in nothing.                        *)
Live == Referenced \ {None}
Seen == <<registryVars, fileVars, upstreamVars, pool, retired \cap Live, dirty \cap Live,
          [o \in Live |-> <<idOf[o], genOf[o], loginOf[o], turnOf[o], rmtx[o]>>],
          threadVars, opPc, opId, opNew, promised, lost,
          IF opPc = "idle" THEN <<>> ELSE <<opKind, opSource>> >>

Objects   == Permutations({o1, o2, o3, o4})
=============================================================================
