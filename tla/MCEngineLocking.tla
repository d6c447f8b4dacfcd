--------------------------- MODULE MCEngineLocking ---------------------------
(***************************************************************************)
(* A small instance of EngineLocking: a deferred execution without a key   *)
(* and a sync execution with one, which may be submitted again.            *)
(***************************************************************************)
EXTENDS EngineLocking

CONSTANTS e1, e2, k1

MCOneKey     == [e \in Executions |-> IF e = e1 THEN NoKey ELSE k1]
MCMixedModes == [e \in Executions |-> IF e = e1 THEN "deferred" ELSE "sync"]
=============================================================================
