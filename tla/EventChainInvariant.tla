-------------------------- MODULE EventChainInvariant --------------------------
(***************************************************************************)
(* The inductive invariant of EventChain: what an appending thread knows   *)
(* of the rows that are there, though it looked its predecessor up before  *)
(* others inserted.                                                        *)
(***************************************************************************)
EXTENDS EventChain

\* Rows and writers have the columns of execution_events and append_event.
ShapeInv ==
  /\ rows \in Seq([execution : Executions, timestamp : Nat, previous : Nat])
  /\ writer \in [Writers -> [pc : {"idle", "select", "insert"},
                             execution : Executions \cup {"none"},
                             timestamp : Nat, previous : Nat]]

\* A writer stamps with a time that has come, and only the requesting thread
\* is there before the first row is.
WriterInv ==
  \A w \in Writers :
    LET x == writer[w].execution IN
    /\ writer[w].pc = "idle" => writer[w] = Idle
    /\ writer[w].pc = "select" => writer[w].previous = 0
    /\ writer[w].pc # "idle" =>
         /\ x \in Executions /\ w \in Owners[x]
         /\ writer[w].timestamp \in 1..clock
         /\ EventsOf(x) = {} => w = Starter[x]
    /\ writer[w].pc = "insert" =>
         \/ writer[w].previous \in EventsOf(x)
         \/ writer[w].previous = 0 /\ EventsOf(x) = {}

\* The events of an execution: there is one that append_event chains the next
\* one to, the first has no predecessor, and the rest have one of the others.
TreeInv ==
  \A x \in Executions :
    /\ EventsOf(x) # {} => Previous(x) # {}
    /\ \A i, j \in EventsOf(x) : rows[i].previous = 0 /\ rows[j].previous = 0 => i = j
    /\ \A i \in EventsOf(x) : rows[i].previous \in EventsOf(x) \cup {0}

\* Where one thread appends, time does not run backwards from row to row, nor
\* from the rows to the event under way.
OrderInv ==
  \A x \in Executions : Owners[x] = {Starter[x]} =>
    /\ \A i, j \in EventsOf(x) : i < j => rows[i].timestamp <= rows[j].timestamp
    /\ \A w \in Writers, i \in EventsOf(x) :
         writer[w].pc # "idle" /\ writer[w].execution = x
           => rows[i].timestamp <= writer[w].timestamp

\* The inductive invariant: what append_event keeps true of the chains, whoever
\* else appends between its SELECT and its INSERT.
ChainInv ==
  /\ TypeOK
  /\ ShapeInv
  /\ WriterInv
  /\ TreeInv
  /\ OrderInv
=============================================================================
