-------------------------- MODULE MCExecutionEngine --------------------------
(***************************************************************************)
(* Small instances of ExecutionEngine: two executions requested under one  *)
(* idempotency key, one by a deferred engine and one by a sync engine.     *)
(***************************************************************************)
EXTENDS ExecutionEngineInvariant, TLC

CONSTANTS e1, e2, k1

MCSharedKey == [e \in Executions |-> k1]
MCNoKeys    == [e \in Executions |-> NoKey]

MCMixedModes == [e \in Executions |-> IF e = e1 THEN "deferred" ELSE "sync"]

MCSymmetry == Permutations(Threads) \cup Permutations(Params)
=============================================================================
