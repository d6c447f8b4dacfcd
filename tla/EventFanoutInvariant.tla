------------------------- MODULE EventFanoutInvariant -------------------------
(***************************************************************************)
(* The inductive invariants of EventFanout: FanoutInv, behind              *)
(* DeliveriesAccountedFor, says how often each destination has taken an    *)
(* event, and what its row says, by the position of the event's handler;   *)
(* StreamsInv, behind NothingSkipped, what the buffer holds and what each  *)
(* stream has still to send.                                               *)
(***************************************************************************)
EXTENDS EventFanout

Pcs == {"new", "stored", "published", "delivering", "posting",
        "recording", "committing", "done", "gone"}

HooksTypeOK ==
  /\ handler \in [Events -> [pc : Pcs, hook : 1..(Destinations + 1),
                             answer : {"none", "delivered", "failed"}, slow : BOOLEAN]]
  /\ delivery \in [Keys -> [Hooks -> {"none", "delivered", "failed"}]]
  /\ acks \in [Events -> [Hooks -> Nat]]
  /\ torn \in [Events -> Nat]

Row(e, d) == delivery[Key(e)][d]
Wanted(e, d) == d \in audience.hooks /\ e \in Subscribed[d]
At(e, pcs) == handler[e].pc \in pcs

\* The handler has not come to d in this life of the plane.
Ahead(e, d) ==
  \/ At(e, {"new", "stored", "published", "delivering", "posting"}) /\ d >= handler[e].hook
  \/ At(e, {"recording", "committing"}) /\ d > handler[e].hook

\* It has left d behind.
Behind(e, d) ==
  \/ At(e, {"delivering", "posting", "recording"}) /\ d < handler[e].hook
  \/ At(e, {"committing", "done"}) /\ ~handler[e].slow

PlacedInv ==
  \A e \in Events :
    /\ At(e, {"new", "stored", "published"}) => handler[e].hook = 1
    /\ At(e, {"posting", "recording"}) => handler[e].hook \in Hooks
    /\ At(e, {"recording"}) => handler[e].answer # "none"

\* An event that a crash would bring back has been taken at most once since
\* the last crash, and only if the crash counts.
TakenInv ==
  \A e \in Events \ Announcements, d \in Hooks :
    /\ acks[e][d] <= 1 + torn[e]
    /\ Ahead(e, d) => acks[e][d] <= torn[e]
    /\ e \notin durable /\ Busy(e) /\ ~At(e, {"recording", "committing"})
         => acks[e][d] <= torn[e]

RowInv ==
  \A e \in Events \ Announcements, d \in Hooks :
    /\ Row(e, d) = "delivered" => acks[e][d] > 0
    /\ At(e, {"recording"}) /\ handler[e].hook = d /\ handler[e].answer = "delivered"
         => acks[e][d] > 0
    /\ Behind(e, d) /\ Wanted(e, d) => Row(e, d) # "none"

FanoutInv ==
  /\ HooksTypeOK
  /\ PlacedInv
  /\ TakenInv
  /\ RowInv

-----------------------------------------------------------------------------
\* The buffer holds the last messages, and has dropped one only when full.
ReplayInv ==
  /\ Len(replay) <= seq
  /\ Len(replay) <= ReplayLimit
  /\ Len(replay) < ReplayLimit => Len(replay) = seq
  /\ \A i \in DOMAIN replay : replay[i] = (seq - Len(replay)) + i

\* What a stream has still to send fits the buffer, is consecutive and comes after
\* what it has sent; what lies between has left the buffer.
BatchInv(s) ==
  LET b == stream[s].batch IN
  /\ Len(b) <= ReplayLimit
  /\ \A i, j \in DOMAIN b : j = i + 1 => b[j] = b[i] + 1
  /\ b # <<>> =>
       /\ b[1] > stream[s].last
       /\ \A k \in (stream[s].last + 1)..(b[1] - 1) : k + ReplayLimit <= seq

\* The inductive invariant behind NothingSkipped.
StreamsInv ==
  /\ BusTypeOK
  /\ ReplayInv
  /\ \A s \in Streams : BatchInv(s)
=============================================================================
