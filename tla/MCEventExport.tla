---------------------------- MODULE MCEventExport ----------------------------
(***************************************************************************)
(* Small instances of EventExport.                                         *)
(***************************************************************************)
EXTENDS EventExportInvariant, TLC

CONSTANTS x1, w1, w2

\* Every thread works on every execution but x1, which w1 has for itself.
MCOwners == [x \in Executions |-> IF x = x1 THEN {w1} ELSE Writers]

MCSymmetry == Permutations(Requests)
=============================================================================
