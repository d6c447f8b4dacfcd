----------------------------- MODULE EventFanout -----------------------------
(***************************************************************************)
(* What the control plane tells the world about an event                   *)
(* (ControlPlaneStore.ingest_events_batch, register_agent and              *)
(* register_policy in store.py, WebhookStore in webhooks.py): the handler  *)
(* stores it, publishes it on the EventBus, and then posts it to the       *)
(* webhook destinations one after another, before the commit of its batch. *)
(* Handlers run in a pool of threads and share one connection, so that any *)
(* commit makes everything stored so far durable.                          *)
(***************************************************************************)
EXTENDS EventBus, FiniteSets

CONSTANTS
  Events,         \* ingested events, and announcements of registrations
  Announcements,  \* those of register_agent and register_policy: without an id
  TypeOf,         \* TypeOf[a]: which of the two an announcement is
  Destinations,   \* the number of webhook destinations, in the order of their rows
  Subscribed,     \* Subscribed[d]: the events of the types d asks for
  Audiences,      \* which events come, and who may be listening: clients of the stream,
                  \* enabled destinations
  MaxRunning      \* threads of the pool

ASSUME FanoutAssumption ==
  /\ Announcements \subseteq Events
  /\ TypeOf \in [Announcements -> {"agent.registered", "policy.changed"}]
  /\ Destinations \in Nat
  /\ Subscribed \in [1..Destinations -> SUBSET Events]
  /\ Audiences \subseteq [events : SUBSET Events, streams : SUBSET Streams,
                         hooks : SUBSET (1..Destinations)]
  /\ MaxRunning \in Nat

VARIABLES
  audience,  \* fixed: no operation disables a destination
  handler,   \* the request that ingests or announces an event
  durable,   \* events whose row a commit has made durable
  delivery,  \* webhook_deliveries; each row is committed at once
  acks,      \* history: how often a destination took an event
  torn       \* history: crashes that hit an event between POST and record

vars == <<seq, replay, wake, stream, stale, faults, audience, handler, durable, delivery, acks, torn>>

Hooks == 1..Destinations
Busy(e) == handler[e].pc \notin {"new", "done", "gone"}

\* event_key: the id, which has one type, or the type alone, as an announcement
\* has neither event_id nor id.
Key(e) == IF e \in Announcements THEN <<"None", TypeOf[e]>> ELSE <<"id", e>>
Keys == {Key(e) : e \in Events}

Init ==
  /\ BusInit
  /\ audience \in Audiences
  /\ handler = [e \in Events |-> [pc |-> IF e \in audience.events THEN "new" ELSE "gone",
                                 hook |-> 1, answer |-> "none", slow |-> FALSE]]
  /\ durable = {}
  /\ delivery = [k \in Keys |-> [d \in Hooks |-> "none"]]
  /\ acks = [e \in Events |-> [d \in Hooks |-> 0]]
  /\ torn = [e \in Events |-> 0]

-----------------------------------------------------------------------------
(* The handler *)

Goto(e, pc) == handler' = [handler EXCEPT ![e] = [@ EXCEPT !.pc = pc]]
HooksKept == UNCHANGED <<audience, durable, delivery, acks, torn>>

\* The row of the event, visible to every request at once; that of an agent or
\* a policy has been committed.
Store(e) ==
  /\ handler[e].pc = "new"
  /\ Cardinality({f \in Events : Busy(f)}) < MaxRunning
  /\ Goto(e, "stored")
  /\ durable' = IF e \in Announcements THEN durable \cup {e} ELSE durable
  /\ UNCHANGED busVars /\ UNCHANGED <<audience, delivery, acks, torn>>

Publish(e) ==
  /\ handler[e].pc = "stored"
  /\ AppendMessage
  /\ Goto(e, "published") /\ HooksKept

Announce(e) ==
  /\ handler[e].pc = "published"
  /\ SetWake
  /\ Goto(e, "delivering") /\ HooksKept

NextHook(e) == [handler[e] EXCEPT !.pc = "delivering", !.hook = @ + 1, !.answer = "none"]

\* Mutant: deliver returns at the first destination it passes over.
LookReturns(e) ==
  /\ handler[e].pc = "delivering"
  /\ handler[e].hook \in Hooks
  /\ LET d == handler[e].hook
     IN Goto(e, IF d \notin audience.hooks \/ e \notin Subscribed[d]
                     \/ delivery[Key(e)][d] = "delivered"
                  THEN "committing" ELSE "posting")
  /\ UNCHANGED busVars /\ HooksKept

\* A destination that is not enabled, did not ask for this type, or has a row that says
\* delivered, is passed over.
Look(e) ==
  /\ handler[e].pc = "delivering"
  /\ handler[e].hook \in Hooks
  /\ LET d == handler[e].hook
     IN handler' = [handler EXCEPT ![e] =
          IF d \notin audience.hooks \/ e \notin Subscribed[d]
               \/ delivery[Key(e)][d] = "delivered"
            THEN NextHook(e) ELSE [@ EXCEPT !.pc = "posting"]]
  /\ UNCHANGED busVars /\ HooksKept

\* The destination e is at has taken it once more.
Taken(e) == [acks[e] EXCEPT ![handler[e].hook] = @ + 1]

\* _post: a 2xx answer, an error answer or no connection, or TimeoutError while
\* the answer is awaited, which no except clause of deliver or _post names.
Post(e) ==
  /\ handler[e].pc = "posting"
  /\ \E took \in BOOLEAN, answer \in {"delivered", "failed", "timeout"} :
       /\ answer = "delivered" => took
       /\ acks' = IF took THEN [acks EXCEPT ![e] = Taken(e)] ELSE acks
       /\ handler' = [handler EXCEPT ![e] =
            IF answer = "timeout" THEN [@ EXCEPT !.pc = "committing", !.slow = TRUE]
            ELSE [@ EXCEPT !.pc = "recording", !.answer = answer]]
  /\ UNCHANGED busVars /\ UNCHANGED <<audience, durable, delivery, torn>>

Stored == {e \in Events : Busy(e) \/ handler[e].pc = "done"}

\* _record_delivery: INSERT OR REPLACE and commit, of whatever is pending.
Record(e) ==
  /\ handler[e].pc = "recording"
  /\ delivery' = [delivery EXCEPT ![Key(e)] = [@ EXCEPT ![handler[e].hook] = handler[e].answer]]
  /\ durable' = durable \cup Stored
  /\ handler' = [handler EXCEPT ![e] = NextHook(e)]
  /\ UNCHANGED busVars /\ UNCHANGED <<audience, acks, torn>>

Delivered(e) ==
  /\ handler[e].pc = "delivering"
  /\ handler[e].hook \notin Hooks
  /\ Goto(e, "committing")
  /\ UNCHANGED busVars /\ HooksKept

Commit(e) ==
  /\ handler[e].pc = "committing"
  /\ durable' = durable \cup Stored
  /\ Goto(e, "done")
  /\ UNCHANGED busVars /\ UNCHANGED <<audience, delivery, acks, torn>>

Handle(e) ==
  \/ Publish(e) \/ Announce(e)
  \/ Look(e) \/ Post(e) \/ Record(e) \/ Delivered(e) \/ Commit(e)

\* The plane dies and is started again.  The exporter sends an event again
\* whose batch was not answered: if its row is durable it is a duplicate, and
\* neither published nor posted; if not, it is new.  Nobody announces again.
Crash ==
  /\ BusRestart
  /\ handler' = [e \in Events |->
       IF ~Busy(e) THEN handler[e]
       ELSE IF e \in durable THEN [handler[e] EXCEPT !.pc = "gone"]
       ELSE [pc |-> "new", hook |-> 1, answer |-> "none", slow |-> FALSE]]
  /\ torn' = [e \in Events |->
       IF handler[e].pc \in {"recording", "committing"} THEN torn[e] + 1 ELSE torn[e]]
  /\ UNCHANGED <<audience, durable, delivery, acks>>

Next ==
  \/ \E e \in Events : Store(e) \/ Handle(e)
  \/ \E s \in audience.streams :
       /\ Connect(s) \/ Generate(s) \/ Cut(s)
       /\ UNCHANGED handler /\ HooksKept
  \/ Crash

\* Threads are scheduled fairly, a started handler runs to its end, and a wait
\* ends after 15 seconds; clients need not come back.
Fairness ==
  /\ \A e \in Events : WF_vars(Handle(e))
  /\ \A s \in Streams : WF_vars(Generate(s) /\ UNCHANGED handler /\ HooksKept)

Spec == Init /\ [][Next]_vars /\ Fairness

-----------------------------------------------------------------------------
(* Properties *)

TypeOK ==
  /\ BusTypeOK
  /\ handler \in [Events -> [pc : {"new", "stored", "published", "delivering", "posting",
                                   "recording", "committing", "done", "gone"},
                             hook : 1..(Destinations + 1),
                             answer : {"none", "delivered", "failed"}, slow : BOOLEAN]]
  /\ durable \subseteq Events
  /\ delivery \in [Keys -> [Hooks -> {"none", "delivered", "failed"}]]
  /\ acks \in [Events -> [Hooks -> Nat]]
  /\ torn \in [Events -> 0..MaxFaults]
  /\ audience \in Audiences

\* webhook_deliveries accounts for every ingested event: a destination that
\* took it has taken it once, unless a crash came between the POST and its row;
\* a row says delivered only of an event that was taken; and when the handler
\* has ended each destination that asked for it has a row, unless an earlier
\* one let the handler run into a timeout.
DeliveriesAccountedFor ==
  \A e \in Events \ Announcements, d \in Hooks :
    /\ acks[e][d] <= 1 + torn[e]
    /\ delivery[Key(e)][d] = "delivered" => acks[e][d] > 0
    /\ handler[e].pc = "done" /\ ~handler[e].slow /\ d \in audience.hooks /\ e \in Subscribed[d]
         => delivery[Key(e)][d] # "none"
=============================================================================
