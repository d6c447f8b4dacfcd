------------------------------- MODULE EventBus -------------------------------
(***************************************************************************)
(* The bus behind GET /api/v1/events/stream (control_plane/event_bus.py    *)
(* and events_stream of api.py): publishers append numbered messages to a  *)
(* bounded replay buffer and set one wake-up flag; each open stream lists  *)
(* what it has not sent, sends it message by message, and waits for the    *)
(* flag or 15 seconds.  Nothing is locked.                                 *)
(*                                                                         *)
(* A thread may lose the interpreter at a call or at the end of a loop's   *)
(* body (CPython from 3.10 on, the versions the project requires), so the  *)
(* increment, the message and the append of publish_sync are one step, and *)
(* the loop over the buffer is two.                                        *)
(***************************************************************************)
EXTENDS Naturals, Sequences

CONSTANTS
  Streams,      \* clients of the stream
  ReplayLimit,  \* messages the buffer keeps (500)
  MaxFaults     \* bound: connections lost, and deaths of the plane

ASSUME BusAssumption ==
  /\ ReplayLimit \in Nat \ {0}
  /\ MaxFaults \in Nat

VARIABLES
  seq,      \* _seq: the id of the last message
  replay,   \* _replay: the ids in the buffer
  wake,     \* _wake: the flag
  stream,   \* the generators
  stale,    \* history: clients whose last id an earlier life of the plane gave
  faults

busVars == <<seq, replay, wake, stream, stale, faults>>

\* A client that is not connected remembers the last id it has seen.
Off(last) ==
  [pc |-> "off", first |-> FALSE, last |-> last, batch |-> <<>>, listed |-> 0]

BusInit ==
  /\ seq = 0
  /\ replay = <<>>
  /\ wake = FALSE
  /\ stream = [s \in Streams |-> Off(0)]
  /\ stale = {}
  /\ faults = 0

-----------------------------------------------------------------------------
(* publish_sync *)

AppendMessage ==
  /\ seq' = seq + 1
  /\ replay' = IF Len(replay) = ReplayLimit
                 THEN Append(Tail(replay), seq + 1) ELSE Append(replay, seq + 1)
  /\ UNCHANGED <<wake, stream, stale, faults>>

\* Event.set: the flag, and everybody who waits for it.
SetWake ==
  /\ wake' = TRUE
  /\ stream' = [s \in Streams |->
       IF stream[s].pc = "parked" THEN [stream[s] EXCEPT !.pc = "clearing"] ELSE stream[s]]
  /\ UNCHANGED <<seq, replay, stale, faults>>

-----------------------------------------------------------------------------
(* The generator of a stream *)

To(s, pc) == stream' = [stream EXCEPT ![s] = [@ EXCEPT !.pc = pc]]
BusKept == UNCHANGED <<seq, replay, wake, faults>>

\* With the last id it has seen in Last-Event-ID, or without, as the
\* dashboard does.
Connect(s) ==
  /\ stream[s].pc = "off"
  /\ \E from \in {0, stream[s].last} :
       /\ stream' = [stream EXCEPT ![s] = [Off(from) EXCEPT !.pc = "listing", !.first = TRUE]]
       /\ stale' = IF from = 0 THEN stale \ {s} ELSE stale
  /\ BusKept

\* The messages after last: the numbers grow along the buffer, so they are its end.
ReplayAfter(last) ==
  LET old == CHOOSE n \in 0..Len(replay) : \A i \in DOMAIN replay : i > n <=> replay[i] > last
  IN SubSeq(replay, old + 1, Len(replay))

List(s) ==
  /\ stream[s].pc = "listing"
  /\ stream' = [stream EXCEPT ![s] =
       [@ EXCEPT !.pc = "listed", !.batch = ReplayAfter(stream[s].last), !.listed = seq]]
  /\ BusKept /\ UNCHANGED stale

\* A message that was appended meanwhile breaks the iteration and with it the
\* stream: "deque mutated during iteration".
Listed(s) ==
  /\ stream[s].pc = "listed"
  /\ IF seq # stream[s].listed
       THEN stream' = [stream EXCEPT ![s] = Off(@.last)]
       ELSE stream' = [stream EXCEPT ![s] = [@ EXCEPT !.pc = "sending", !.listed = 0]]
  /\ BusKept /\ UNCHANGED stale

Send(s) ==
  /\ stream[s].pc = "sending"
  /\ stream[s].batch # <<>>
  /\ stream' = [stream EXCEPT ![s] =
       [@ EXCEPT !.last = Head(stream[s].batch), !.batch = Tail(stream[s].batch)]]
  /\ stale' = stale \ {s}
  /\ BusKept

\* Mutant: the loop goes on from the newest id of the bus, not from the one it sent.
SentLatest(s) ==
  /\ stream[s].pc = "sending"
  /\ stream[s].batch = <<>>
  /\ stream' = [stream EXCEPT ![s] =
       [@ EXCEPT !.pc = IF stream[s].first THEN "listing" ELSE "checking", !.first = FALSE,
                 !.last = seq]]
  /\ BusKept /\ UNCHANGED stale

\* After the first replay the loop lists again; later it sends a keepalive.
Sent(s) ==
  /\ stream[s].pc = "sending"
  /\ stream[s].batch = <<>>
  /\ stream' = [stream EXCEPT ![s] =
       [@ EXCEPT !.pc = IF stream[s].first THEN "listing" ELSE "checking", !.first = FALSE]]
  /\ BusKept /\ UNCHANGED stale

\* wait_for_updates: look at the number, wait for the flag, clear the flag,
\* each a call of its own.
Check(s) ==
  /\ stream[s].pc = "checking"
  /\ To(s, IF seq > stream[s].last THEN "listing" ELSE "parking")
  /\ BusKept /\ UNCHANGED stale

Park(s) ==
  /\ stream[s].pc = "parking"
  /\ To(s, IF wake THEN "clearing" ELSE "parked")
  /\ BusKept /\ UNCHANGED stale

\* Mutant: wait without a timeout.
NeverTimeout(s) ==
  /\ stream[s].pc = "never"
  /\ To(s, "clearing")
  /\ BusKept /\ UNCHANGED stale

Timeout(s) ==
  /\ stream[s].pc = "parked"
  /\ To(s, "clearing")
  /\ BusKept /\ UNCHANGED stale

Clear(s) ==
  /\ stream[s].pc = "clearing"
  /\ wake' = FALSE
  /\ To(s, "listing")
  /\ UNCHANGED <<seq, replay, stale, faults>>

Generate(s) ==
  \/ List(s) \/ Listed(s) \/ Send(s) \/ Sent(s)
  \/ Check(s) \/ Park(s) \/ Timeout(s) \/ Clear(s)

\* The network or the client drops the connection.
Cut(s) ==
  /\ stream[s].pc # "off"
  /\ faults < MaxFaults
  /\ faults' = faults + 1
  /\ stream' = [stream EXCEPT ![s] = Off(@.last)]
  /\ UNCHANGED <<seq, replay, wake, stale>>

\* The plane dies: the buffer, the numbers and the connections are gone, the
\* clients keep the last id they have seen.
BusRestart ==
  /\ seq' = 0
  /\ replay' = <<>>
  /\ wake' = FALSE
  /\ stream' = [s \in Streams |-> Off(stream[s].last)]
  /\ stale' = {s \in Streams : stream[s].last # 0}
  /\ faults < MaxFaults
  /\ faults' = faults + 1

-----------------------------------------------------------------------------
(* Properties *)

Stream ==
  [pc : {"off", "listing", "listed", "sending", "checking", "parking", "parked", "clearing"},
   first : BOOLEAN, last : Nat, batch : Seq(Nat), listed : Nat]

BusTypeOK ==
  /\ seq \in Nat
  /\ replay \in Seq(Nat)
  /\ wake \in BOOLEAN
  /\ stream \in [Streams -> Stream]
  /\ stale \subseteq Streams
  /\ faults \in 0..MaxFaults

\* While it is connected a stream moves on only to messages after the one it
\* was sent last, in order and each once, and the only ones it passes over had
\* fallen out of the buffer, however publishing interleaves with listing,
\* sending and reconnecting (replay_after and the loop of event_generator).
NothingSkipped ==
  [][\A s \in Streams : LET id == stream'[s].last IN
       /\ stream[s].pc # "off" /\ stream'[s].pc # "off"
       /\ \/ id # stream[s].last
          \/ stream[s].pc = "sending" /\ stream'[s].batch # stream[s].batch
       => /\ id > stream[s].last
          /\ \A skipped \in (stream[s].last + 1)..(id - 1) : skipped + ReplayLimit <= seq]_busVars

\* Every stream that stays connected is sent the newest message, although
\* clearing the flag after the wait may lose the wake-up of another stream.
\* Of a client that came back with an id of an earlier life of the plane and
\* has been sent nothing since, it says only that the numbers have not passed
\* that id: nothing is pushed to it meanwhile.
StreamsCatchUp ==
  \A s \in Streams :
    <>[](stream[s].pc # "off" =>
           IF s \in stale THEN stream[s].last >= seq ELSE stream[s].last = seq)
=============================================================================
