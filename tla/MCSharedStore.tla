---------------------------- MODULE MCSharedStore ----------------------------
(***************************************************************************)
(* Small instances of SharedStore: a connection for each thread, as in     *)
(* separate processes, and one for all, as in the plane's request threads. *)
(***************************************************************************)
EXTENDS SharedStoreInvariant, TLC

CONSTANTS t1, t2, c1

\* Thread and connection are one to one when Connections are the threads.
MCOwnConnection == [t \in Threads |-> t]
MCOneConnection == [t \in Threads |-> c1]

MCSymmetry == Permutations(Threads)
=============================================================================
