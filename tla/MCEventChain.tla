----------------------------- MODULE MCEventChain -----------------------------
(***************************************************************************)
(* Small instances of EventChain: one execution that a single thread works *)
(* on, and one that two threads share.                                     *)
(***************************************************************************)
EXTENDS EventChainInvariant

CONSTANTS x1, w1, w2

MCOwners  == [x \in Executions |-> IF x = x1 THEN {w1} ELSE Writers]
MCStarter == [x \in Executions |-> w1]
=============================================================================
