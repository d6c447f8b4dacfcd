----------------------------- MODULE EventExport -----------------------------
(***************************************************************************)
(* From the ledger of an agent to the control plane: the export sink and   *)
(* the durable queue (export/sink.py, export/queue.py), the exporter       *)
(* thread and its HTTP request (export/exporter.py), and the request       *)
(* handler that ingests a batch and projects it on the plane's table of    *)
(* executions (control_plane/store.py).                                    *)
(*                                                                         *)
(* The status of an execution is its position in the lifecycle, a number   *)
(* that only grows; the event that records position n of execution x is    *)
(* the pair <<x, n>>.  The handlers run in the threads of one plane        *)
(* process and share one connection, so one SQL statement is one step and  *)
(* a commit by any of them commits for all.                                *)
(***************************************************************************)
EXTENDS Naturals, Sequences, FiniteSets

CONSTANTS
  Executions,
  Writers,       \* engine threads of the agent process
  Owners,        \* the threads that work on each execution
  MaxStage,      \* last lifecycle position
  Pinned,        \* positions whose event type alone fixes the projected status
  Requests,      \* request threads of the plane
  BatchSize,     \* batch_size of the exporter
  MaxPending,    \* max_pending of the queue
  MaxAbandoned,  \* bound: requests given up by their sender
  MaxCrashes     \* bound: deaths of the plane process

ASSUME ExportAssumption ==
  /\ IsFiniteSet(Writers) /\ Writers # {}
  /\ Owners \in [Executions -> SUBSET Writers]
  /\ MaxStage \in Nat
  /\ Pinned \subseteq 1..MaxStage
  /\ BatchSize \in Nat \ {0}
  /\ MaxPending \in Nat
  /\ MaxAbandoned \in Nat
  /\ MaxCrashes \in Nat

VARIABLES
  \* the agent: ledger, sinks at work, export_queue, exporter thread
  stage, emit, queue, exported, exporter,
  \* the plane: is it listening, its tables as its connection sees them and as
  \* they are on disk, its request threads, what it published since it started
  up, tables, disk, req, published,
  abandoned, crashes   \* bounds

agent == <<stage, emit, queue, exported>>
plane == <<up, tables, disk, req, published>>
vars  == <<agent, exporter, plane, abandoned, crashes>>

Events == Executions \X (1..MaxStage)

\* A queued platform event: the ledger event and the status it was sent with.
Entry == [event : Events, status : 1..MaxStage]

NotEmitting == [pc |-> "idle", event |-> <<>>, status |-> 0]
Free == [pc |-> "free", todo |-> {}, row |-> 0, accepted |-> {}, waited |-> FALSE, fresh |-> FALSE]
Tables == [ingested : SUBSET Events, status : [Executions -> 0..MaxStage]]
RequestPC ==
  {"free", "check", "seq", "insert", "read_row", "write_row", "publish",
   "commit", "respond"}

Request ==
  [pc : RequestPC, todo : SUBSET (1..Len(queue)), row : 0..Len(queue),
   accepted : SUBSET Events, waited : BOOLEAN, fresh : BOOLEAN]

NoTables == [ingested |-> {}, status |-> [x \in Executions |-> 0]]

Queued(ev) == \E i \in DOMAIN queue : queue[i].event = ev

\* The rows of the queue, by their seq, that are not exported yet.
Pending == {i \in DOMAIN queue : queue[i].event \notin exported}

Init ==
  /\ stage = [x \in Executions |-> 0]
  /\ emit = [w \in Writers |-> NotEmitting]
  /\ queue = <<>>
  /\ exported = {}
  /\ exporter = "ready"
  /\ up = TRUE
  /\ tables = NoTables
  /\ disk = NoTables
  /\ req = [r \in Requests |-> Free]
  /\ published = [ev \in Events |-> 0]
  /\ abandoned = 0
  /\ crashes = 0

-----------------------------------------------------------------------------
(* The agent: the engine's _record_event calls the sink *)

\* The engine commits a transition and its event, then calls the sinks.
Advance(w, x) ==
  /\ w \in Owners[x]
  /\ emit[w].pc = "idle"
  /\ stage[x] < MaxStage
  /\ stage' = [stage EXCEPT ![x] = @ + 1]
  /\ emit' = [emit EXCEPT ![w] =
       [pc |-> "read", event |-> <<x, stage[x] + 1>>, status |-> 0]]
  /\ UNCHANGED <<queue, exported, exporter, plane, abandoned, crashes>>

\* ControlPlaneExportSink.emit reads the row of the execution anew.
ReadRow(w) ==
  /\ emit[w].pc = "read"
  /\ emit' = [emit EXCEPT ![w].pc = "room", ![w].status = stage[emit[w].event[1]]]
  /\ UNCHANGED <<stage, queue, exported, exporter, plane, abandoned, crashes>>

\* Mutant: no limit on the pending rows.
CountPendingUnbounded(w) ==
  /\ emit[w].pc = "room"
  /\ emit' = [emit EXCEPT ![w].pc = "insert"]
  /\ UNCHANGED <<stage, queue, exported, exporter, plane, abandoned, crashes>>

\* ExportQueue.enqueue counts the pending rows; a full queue drops the event.
CountPending(w) ==
  /\ emit[w].pc = "room"
  /\ emit' = [emit EXCEPT ![w] =
       IF Cardinality(Pending) >= MaxPending THEN NotEmitting ELSE [@ EXCEPT !.pc = "insert"]]
  /\ UNCHANGED <<stage, queue, exported, exporter, plane, abandoned, crashes>>

InsertQueue(w) ==
  /\ emit[w].pc = "insert"
  /\ queue' = Append(queue, [event |-> emit[w].event, status |-> emit[w].status])
  /\ emit' = [emit EXCEPT ![w] = NotEmitting]
  /\ UNCHANGED <<stage, exported, exporter, plane, abandoned, crashes>>

\* Mutant: pending_batch takes the newest rows.
PendingBatchNewest == {i \in Pending : Cardinality({j \in Pending : j > i}) < BatchSize}

\* pending_batch: ORDER BY seq ASC LIMIT batch_size.
PendingBatch == {i \in Pending : Cardinality({j \in Pending : j < i}) < BatchSize}

\* flush_once posts the oldest pending events.  Posting to a plane that is
\* down, or a request lost on the way, changes nothing: the exporter retries.
FlushOnce(r) ==
  /\ exporter = "ready"
  /\ up
  /\ Pending # {}
  /\ req[r] = Free
  /\ req' = [req EXCEPT ![r] =
       [Free EXCEPT !.pc = "check", !.waited = TRUE, !.todo = PendingBatch]]
  /\ exporter' = "waiting"
  /\ UNCHANGED <<agent, up, tables, disk, published, abandoned, crashes>>

\* The sender of a request, if there is one, no longer waits for it: the plane
\* goes on with it all the same.
Abandon ==
  /\ exporter' = "ready"
  /\ req' = [r \in Requests |-> [req[r] EXCEPT !.waited = FALSE]]
  /\ IF exporter = "waiting"
     THEN abandoned < MaxAbandoned /\ abandoned' = abandoned + 1
     ELSE UNCHANGED abandoned
  /\ UNCHANGED <<stage, queue, exported, up, tables, disk, published, crashes>>

\* The exporter gives up on a slow plane (timeout_seconds) and tries again.
Timeout ==
  /\ exporter = "waiting"
  /\ Abandon
  /\ UNCHANGED emit

\* The agent's process dies and starts again.
AgentRestart ==
  /\ Abandon
  /\ emit' = [w \in Writers |-> NotEmitting]

-----------------------------------------------------------------------------
(* The plane: ingest_events_batch *)

\* The event of the batch that the loop has come to.
Current(r) == queue[req[r].row]

\* The loop is done with row i: it goes on to the next one, or has ended.
After(r, i) ==
  [req[r] EXCEPT !.row = 0, !.todo = @ \ {i},
                 !.pc = IF req[r].todo = {i} THEN "commit" ELSE "check"]

\* The thread raises: a 500, for which the exporter retries as it is.
Raise(r) ==
  /\ req' = [req EXCEPT ![r] = Free]
  /\ exporter' = IF req[r].waited THEN "ready" ELSE exporter

\* The next event of the batch; SELECT 1 FROM ingested_events, and a duplicate
\* is skipped.
CheckDuplicate(r) ==
  /\ req[r].pc = "check"
  /\ \E i \in req[r].todo :
       /\ \A j \in req[r].todo : i <= j
       /\ req' = [req EXCEPT ![r] =
            IF queue[i].event \in tables.ingested
            THEN After(r, i) ELSE [@ EXCEPT !.pc = "seq", !.row = i]]
  /\ UNCHANGED <<agent, exporter, up, tables, disk, published, abandoned, crashes>>

\* _next_stream_seq: what matters here is its commit.
NextStreamSeq(r) ==
  /\ req[r].pc = "seq"
  /\ disk' = tables
  /\ req' = [req EXCEPT ![r].pc = "insert"]
  /\ UNCHANGED <<agent, exporter, up, tables, published, abandoned, crashes>>

\* Mutant: INSERT OR REPLACE INTO ingested_events.
InsertEventOrReplace(r) ==
  /\ req[r].pc = "insert"
  /\ tables' = [tables EXCEPT !.ingested = @ \cup {Current(r).event}]
  /\ req' = [req EXCEPT ![r].pc = "read_row"]
  /\ UNCHANGED <<agent, exporter, up, disk, published, abandoned, crashes>>

\* The PRIMARY KEY stops a request that another one has overtaken.
InsertEvent(r) ==
  /\ req[r].pc = "insert"
  /\ \/ /\ Current(r).event \notin tables.ingested
        /\ tables' = [tables EXCEPT !.ingested = @ \cup {Current(r).event}]
        /\ req' = [req EXCEPT ![r].pc = "read_row"]
        /\ UNCHANGED exporter
     \/ /\ Current(r).event \in tables.ingested
        /\ Raise(r)
        /\ UNCHANGED tables
  /\ UNCHANGED <<agent, up, disk, published, abandoned, crashes>>

\* _apply_execution_projection: SELECT the row ...
ReadProjection(r) ==
  /\ req[r].pc = "read_row"
  /\ req' = [req EXCEPT ![r].pc = "write_row",
                        ![r].fresh = tables.status[Current(r).event[1]] = 0]
  /\ UNCHANGED <<agent, exporter, up, tables, disk, published, abandoned, crashes>>

ProjectedStatus(entry) ==
  IF entry.event[2] \in Pinned THEN entry.event[2] ELSE entry.status

\* Mutant: only the first event of an execution is projected.
WriteProjectionOnce(r) ==
  LET x == Current(r).event[1] IN
  /\ req[r].pc = "write_row"
  /\ tables' = IF req[r].fresh
               THEN [tables EXCEPT !.status[x] = ProjectedStatus(Current(r))] ELSE tables
  /\ req' = [req EXCEPT ![r].pc = "publish", ![r].accepted = @ \cup {Current(r).event}]
  /\ UNCHANGED <<agent, exporter, up, disk, published, abandoned, crashes>>

\* ... then INSERT or UPDATE it; the INSERT fails if a row is there by now.
WriteProjection(r) ==
  LET x == Current(r).event[1] IN
  /\ req[r].pc = "write_row"
  /\ IF req[r].fresh /\ tables.status[x] # 0
     THEN /\ Raise(r)
          /\ UNCHANGED tables
     ELSE /\ tables' = [tables EXCEPT !.status[x] = ProjectedStatus(Current(r))]
          /\ req' = [req EXCEPT ![r].pc = "publish",
                                ![r].accepted = @ \cup {Current(r).event}]
          /\ UNCHANGED exporter
  /\ UNCHANGED <<agent, up, disk, published, abandoned, crashes>>

\* The event bus, then the webhooks, whose record of a delivery commits.
Publish(r) ==
  /\ req[r].pc = "publish"
  /\ published' = [published EXCEPT ![Current(r).event] = @ + 1]
  /\ disk' \in {disk, tables}
  /\ req' = [req EXCEPT ![r] = After(r, req[r].row)]
  /\ UNCHANGED <<agent, exporter, up, tables, abandoned, crashes>>

\* Mutant: no commit after the loop.
CommitBatchNever(r) ==
  /\ req[r].pc = "commit"
  /\ req' = [req EXCEPT ![r].pc = "respond"]
  /\ UNCHANGED <<agent, exporter, up, tables, disk, published, abandoned, crashes>>

CommitBatch(r) ==
  /\ req[r].pc = "commit"
  /\ disk' = tables
  /\ req' = [req EXCEPT ![r].pc = "respond"]
  /\ UNCHANGED <<agent, exporter, up, tables, published, abandoned, crashes>>

\* Mutant: the accepted ids of the response are ignored.
MarkExportedNever(r) ==
  /\ req[r].pc = "respond"
  /\ req' = [req EXCEPT ![r] = Free]
  /\ exporter' = IF req[r].waited THEN "ready" ELSE exporter
  /\ UNCHANGED <<agent, up, tables, disk, published, abandoned, crashes>>

\* Mutant: a response nobody waits for wakes the exporter that has moved on.
MarkExportedLate(r) ==
  /\ req[r].pc = "respond"
  /\ req' = [req EXCEPT ![r] = Free]
  /\ exporter' = "ready"
  /\ exported' = exported \cup req[r].accepted
  /\ UNCHANGED <<stage, emit, queue, up, tables, disk, published, abandoned, crashes>>

\* mark_exported marks what the response lists as accepted, not the
\* duplicates; a response that nobody waits for is lost.
MarkExported(r) ==
  /\ req[r].pc = "respond"
  /\ req' = [req EXCEPT ![r] = Free]
  /\ IF req[r].waited
     THEN exporter' = "ready" /\ exported' = exported \cup req[r].accepted
     ELSE UNCHANGED <<exporter, exported>>
  /\ UNCHANGED <<stage, emit, queue, up, tables, disk, published, abandoned, crashes>>

\* Any other handler of the plane commits on the one connection: a sign-in, an
\* audit row, a registration, the batch of another agent.
CommitElsewhere ==
  /\ up
  /\ disk' = tables
  /\ UNCHANGED <<agent, exporter, up, tables, req, published, abandoned, crashes>>

Busy == \E r \in Requests : req[r] # Free

\* The plane's process ends: what is not committed and what is in memory is lost.
PlaneEnds ==
  /\ up' = FALSE
  /\ tables' = disk
  /\ req' = [r \in Requests |-> Free]
  /\ published' = [ev \in Events |-> 0]
  /\ UNCHANGED <<agent, disk, abandoned>>

\* It is stopped after its last response ...
PlaneStop ==
  /\ up /\ ~Busy
  /\ PlaneEnds
  /\ UNCHANGED <<exporter, crashes>>

\* ... or dies with requests open: the connection is reset and the exporter
\* thread ends on an exception it does not catch, or the network is silent and
\* the exporter times out.
PlaneCrash ==
  /\ up /\ Busy
  /\ crashes < MaxCrashes
  /\ crashes' = crashes + 1
  /\ PlaneEnds
  /\ exporter' \in IF exporter = "waiting" THEN {"ready", "dead"} ELSE {exporter}

PlaneStart ==
  /\ ~up
  /\ up' = TRUE
  /\ UNCHANGED <<agent, exporter, tables, disk, req, published, abandoned, crashes>>

-----------------------------------------------------------------------------
Sink(w) == ReadRow(w) \/ CountPending(w) \/ InsertQueue(w)

Handle(r) ==
  \/ CheckDuplicate(r) \/ NextStreamSeq(r) \/ InsertEvent(r)
  \/ ReadProjection(r) \/ WriteProjection(r) \/ Publish(r) \/ CommitBatch(r)
  \/ MarkExported(r)

Next ==
  \/ \E w \in Writers : Sink(w) \/ \E x \in Executions : Advance(w, x)
  \/ \E r \in Requests : FlushOnce(r) \/ Handle(r)
  \/ Timeout \/ AgentRestart
  \/ CommitElsewhere
  \/ PlaneStop \/ PlaneCrash \/ PlaneStart

Spec == Init /\ [][Next]_vars

\* The exporter thread loops for ever, and a request thread runs to its end.
FairSpec ==
  /\ Spec
  /\ WF_vars(\E r \in Requests : FlushOnce(r))
  /\ \A r \in Requests : WF_vars(Handle(r))

-----------------------------------------------------------------------------
(* Properties *)

\* Every variable stays in its domain (export/queue.py and
\* control_plane/store.py tables, exporter.py thread).
TypeOK ==
  /\ stage \in [Executions -> 0..MaxStage]
  /\ emit \in [Writers -> [pc : {"idle", "read", "room", "insert"},
                           event : Events \cup {<<>>}, status : 0..MaxStage]]
  /\ \A w \in Writers :
       /\ emit[w].pc # "idle" => emit[w].event \in Events
       /\ emit[w].pc \in {"room", "insert"} => emit[w].status \in 1..MaxStage
       /\ emit[w].pc = "read" => stage[emit[w].event[1]] >= emit[w].event[2]
  /\ queue \in Seq(Entry)
  /\ exported \subseteq Events
  /\ exporter \in {"ready", "waiting", "dead"}
  /\ up \in BOOLEAN
  /\ tables \in Tables
  /\ disk \in Tables
  /\ req \in [Requests -> Request]
  /\ \A r \in Requests :
       req[r].pc \notin {"free", "check", "commit", "respond"}
         => req[r].row \in req[r].todo
  /\ published \in [Events -> Nat]
  /\ (exporter = "waiting") <=> \E r \in Requests : req[r].waited

\* An event leaves the agent's queue only when the plane has it on disk: no
\* crash of the plane loses an event that the agent holds no more
\* (mark_exported after the commit of ingest_events_batch).
ExportedIsDurable == exported \subseteq disk.ingested

\* Ingestion is idempotent on event_id: however requests overlap and repeat, a
\* running plane publishes an event once (event-ingestion.md).
PublishedOnce == \A ev \in Events : published[ev] <= 1

\* Threads that enqueue at the same time overrun max_pending by one row each at
\* most, although count and INSERT are separate statements (enqueue).
QueueBounded == Cardinality(Pending) < MaxPending + Cardinality(Writers)

\* Executions that one thread works on, so far without an abandoned request.
Orderly == {x \in Executions : abandoned = 0 /\ Cardinality(Owners[x]) = 1}

\* What the agent was told is accepted shows on the plane's table of
\* executions, after any number of crashes too, although another handler may
\* commit an event without its projection (_apply_execution_projection).
ExportedIsVisible ==
  \A x \in Orderly : \A n \in 1..MaxStage :
    <<x, n>> \in exported => tables.status[x] >= n

\* The plane never shows a later status of an execution and then an earlier
\* one, except by losing uncommitted work in a crash (pending_batch order,
\* _apply_execution_projection).
NeverShowsThePast ==
  [][\A x \in Orderly : up' => tables'.status[x] >= tables.status[x]]_vars

\* Once the plane stays reachable, what is queued is exported: the promise of
\* event-ingestion.md, when no request is given up by its sender.
QueueDrains ==
  <>[]up => \A ev \in Events : Queued(ev) ~> ev \in exported

\* "Events remain queued until the plane is reachable" (event-ingestion.md):
\* once it stays reachable, every queued event gets to the plane.
QueuedEventsArrive ==
  <>[]up => \A ev \in Events : Queued(ev) ~> ev \in tables.ingested
=============================================================================
