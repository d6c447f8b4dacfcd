------------------------------ MODULE EventChain ------------------------------
(***************************************************************************)
(* How the events of an execution are chained (append_event of             *)
(* ledger/store.py) and read back (get_events), by threads that work on    *)
(* one execution at the same time and by a clock that ticks in seconds.    *)
(*                                                                         *)
(* event_hash covers a fresh event_id, so a hash stands for the row it is  *)
(* the hash of: previous_event_hash is the index of that row in            *)
(* execution_events, 0 for NULL.                                           *)
(***************************************************************************)
EXTENDS Naturals, Sequences, FiniteSets

CONSTANTS
  Executions,
  Writers,
  Owners,     \* the threads that append events to each execution
  Starter,    \* the one that requests it and appends its first event
  MaxEvents,  \* bound: rows of the table
  MaxTime     \* bound: seconds

ASSUME ChainAssumption ==
  /\ Owners \in [Executions -> SUBSET Writers]
  /\ \A x \in Executions : Starter[x] \in Owners[x]
  /\ MaxEvents \in Nat
  /\ MaxTime \in Nat \ {0}

VARIABLES
  rows,    \* execution_events, in order of insertion
  clock,   \* _utc_now(): whole seconds
  writer   \* what each thread is appending

vars == <<rows, clock, writer>>

Idle == [pc |-> "idle", execution |-> "none", timestamp |-> 0, previous |-> 0]

Init ==
  /\ rows = <<>>
  /\ clock = 1
  /\ writer = [w \in Writers |-> Idle]

EventsOf(x) == {i \in DOMAIN rows : rows[i].execution = x}

\* Row i comes before row j in ORDER BY timestamp ASC; SQLite keeps rows of
\* one timestamp in their order in the table.
Earlier(i, j) ==
  \/ rows[i].timestamp < rows[j].timestamp
  \/ rows[i].timestamp = rows[j].timestamp /\ i < j

\* Mutant: no WHERE execution_id.
PreviousOfAny(x) ==
  {i \in DOMAIN rows :
     \A j \in DOMAIN rows \ {i} :
       \/ rows[j].timestamp < rows[i].timestamp
       \/ rows[j].timestamp = rows[i].timestamp /\ i < j}

\* ORDER BY timestamp DESC LIMIT 1: of the rows of the latest second, the one
\* that was inserted first.
Previous(x) ==
  {i \in EventsOf(x) :
     \A j \in EventsOf(x) \ {i} :
       \/ rows[j].timestamp < rows[i].timestamp
       \/ rows[j].timestamp = rows[i].timestamp /\ i < j}

\* Mutant: every event of a call is given the time at which the call began.
StampOfCall(w, x) ==
  /\ w \in Owners[x]
  /\ EventsOf(x) # {} \/ w = Starter[x]
  /\ writer[w] = Idle
  /\ \E t \in 1..clock :
       writer' = [writer EXCEPT ![w] =
         [Idle EXCEPT !.pc = "select", !.execution = x, !.timestamp = t]]
  /\ UNCHANGED <<rows, clock>>

\* The engine takes the time and calls append_event.  Resume and cancel find
\* nothing to do before the requesting thread has appended ACTION_REQUESTED.
Stamp(w, x) ==
  /\ w \in Owners[x]
  /\ EventsOf(x) # {} \/ w = Starter[x]
  /\ writer[w] = Idle
  /\ writer' = [writer EXCEPT ![w] =
       [pc |-> "select", execution |-> x, timestamp |-> clock, previous |-> 0]]
  /\ UNCHANGED <<rows, clock>>

SelectPrevious(w) ==
  /\ writer[w].pc = "select"
  /\ \/ \E i \in Previous(writer[w].execution) :
          writer' = [writer EXCEPT ![w] = [@ EXCEPT !.pc = "insert", !.previous = i]]
     \/ /\ Previous(writer[w].execution) = {}
        /\ writer' = [writer EXCEPT ![w] = [@ EXCEPT !.pc = "insert"]]
  /\ UNCHANGED <<rows, clock>>

InsertEvent(w) ==
  /\ writer[w].pc = "insert"
  /\ Len(rows) < MaxEvents
  /\ rows' = Append(rows, [execution |-> writer[w].execution,
                           timestamp |-> writer[w].timestamp,
                           previous  |-> writer[w].previous])
  /\ writer' = [writer EXCEPT ![w] = Idle]
  /\ UNCHANGED clock

\* A thread dies, or the database is locked and the call raises.
Die(w) ==
  /\ writer[w] # Idle
  /\ writer' = [writer EXCEPT ![w] = Idle]
  /\ UNCHANGED <<rows, clock>>

Tick ==
  /\ clock < MaxTime
  /\ clock' = clock + 1
  /\ UNCHANGED <<rows, writer>>

Next ==
  \/ Tick
  \/ \E w \in Writers :
       \/ \E x \in Executions : Stamp(w, x)
       \/ SelectPrevious(w) \/ InsertEvent(w) \/ Die(w)

Spec == Init /\ [][Next]_vars

-----------------------------------------------------------------------------
(* Properties *)

\* Rows and writers stay in their domains, and a link never points to a row
\* that is not there (execution_events).
TypeOK ==
  /\ clock \in 1..MaxTime
  /\ \A i \in DOMAIN rows :
       /\ rows[i].execution \in Executions
       /\ rows[i].timestamp \in 1..clock
       /\ rows[i].previous \in 0..(i - 1)
  /\ \A w \in Writers :
       /\ writer[w].pc \in {"idle", "select", "insert"}
       /\ writer[w].previous \in 0..Len(rows)

\* However the appends of several threads interleave, the events of an
\* execution form one tree of their own: one of them has no predecessor, and
\* every other is chained to an earlier one of the same execution
\* (append_event).
OneTree ==
  \A x \in Executions :
    /\ Cardinality({i \in EventsOf(x) : rows[i].previous = 0}) <= 1
    /\ \A i \in EventsOf(x) :
         rows[i].previous \in {j \in EventsOf(x) : j < i} \cup {0}

\* The events of an execution that one thread works on are read back in the
\* order in which they happened, and each after the one it is chained to,
\* though many bear the same second (get_events).
ReadInOrder ==
  \A x \in Executions : Owners[x] = {Starter[x]} =>
    \A i, j \in EventsOf(x) :
      /\ i < j => Earlier(i, j)
      /\ rows[j].previous = i => Earlier(i, j)
=============================================================================
