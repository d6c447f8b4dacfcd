------------------------- MODULE EventExportInvariant -------------------------
(***************************************************************************)
(* The inductive invariants of EventExport: ExportInv, behind              *)
(* ExportedIsDurable and PublishedOnce, and what PipelineInv adds for      *)
(* QueueBounded, ExportedIsVisible and NeverShowsThePast.                  *)
(***************************************************************************)
EXTENDS EventExport

\* A request between the INSERT of its current event and the publication.
Applying == {"read_row", "write_row", "publish"}

\* One request at most is waited for: the exporter sends one at a time.
SenderInv ==
  \A r, s \in Requests : req[r].waited /\ req[s].waited => r = s

\* What is told accepted was inserted, and is committed when it is told.
DeliveryInv ==
  /\ disk.ingested \subseteq tables.ingested
  /\ exported \subseteq disk.ingested
  /\ \A r \in Requests :
       /\ req[r].accepted \subseteq tables.ingested
       /\ req[r].pc = "respond" => req[r].accepted \subseteq disk.ingested

\* Whoever inserted an event is the only request that can publish it.
PublishInv ==
  /\ \A r \in Requests : req[r].pc \in Applying =>
       /\ Current(r).event \in tables.ingested
       /\ published[Current(r).event] = 0
  /\ \A r, s \in Requests :
       /\ req[r].pc \in Applying
       /\ req[s].pc \in Applying
       /\ Current(r).event = Current(s).event
       => r = s
  /\ \A ev \in Events :
       /\ published[ev] <= 1
       /\ ev \notin tables.ingested => published[ev] = 0

\* The inductive invariant: what each SQL statement of ingest_events_batch and
\* each step of the exporter leaves true for all requests.
ExportInv ==
  /\ TypeOK
  /\ SenderInv
  /\ DeliveryInv
  /\ PublishInv

-----------------------------------------------------------------------------
\* Sinks that were told there is room and have not inserted yet.
Inserting == {w \in Writers : emit[w].pc = "insert"}

\* Each of them may add a row beyond the limit: count and INSERT are separate.
RoomInv == Cardinality(Pending) + Cardinality(Inserting) < MaxPending + Cardinality(Writers)

\* Executions that one thread works on, and the rows of an execution.
SoleOwner == {x \in Executions : Cardinality(Owners[x]) = 1}
RowsOf(x) == {i \in DOMAIN queue : queue[i].event[1] = x}

\* One thread queues the events of its execution in their order, each with the
\* status that the event records.
QueueOrderInv ==
  \A x \in SoleOwner :
    /\ \A i \in RowsOf(x) :
         /\ queue[i].event[2] <= stage[x]
         /\ queue[i].status = queue[i].event[2]
         /\ \A j \in RowsOf(x) : i < j => queue[i].event[2] < queue[j].event[2]
    /\ \A w \in Writers : emit[w].pc # "idle" /\ emit[w].event[1] = x =>
         /\ Owners[x] = {w}
         /\ emit[w].event[2] = stage[x]
         /\ emit[w].pc # "read" => emit[w].status = stage[x]
         /\ \A i \in RowsOf(x) : queue[i].event[2] < stage[x]

\* Handlers with an event in hand.
InHand == {"seq", "insert"} \cup Applying

\* Between the INSERT of the event and the UPDATE of its execution.
Projecting == {"read_row", "write_row"}

\* A request at work when no sender ever gave up: it is waited for, it takes the
\* oldest rows in their order, and finds the tables as it left them.
Serial(r) ==
  /\ req[r].waited
  /\ \A i \in req[r].todo : \A j \in 1..(i - 1) :
       j \notin req[r].todo => queue[j].event \in tables.ingested
  /\ req[r].pc \in InHand => \A j \in req[r].todo : req[r].row <= j
  /\ req[r].pc \in {"seq", "insert"} => Current(r).event \notin tables.ingested
  /\ req[r].pc \in Projecting /\ Current(r).event[1] \in SoleOwner =>
       tables.status[Current(r).event[1]] <= Current(r).event[2]
  /\ req[r].pc = "write_row" =>
       (req[r].fresh <=> tables.status[Current(r).event[1]] = 0)

SerialInv == \A r \in Requests : req[r].pc # "free" => Serial(r)

\* The ingested events of x are its oldest rows of the queue, and its status is
\* that of one of them.
InOrder(t, x) ==
  /\ t.status[x] # 0 => <<x, t.status[x]>> \in t.ingested
  /\ \A i, j \in RowsOf(x) :
       i < j /\ queue[j].event \in t.ingested => queue[i].event \in t.ingested

\* Accepted events show in the tables, and those told accepted on disk: an event
\* may be committed without its projection, but then it is not told accepted.
Shown(x) ==
  \A n \in 1..MaxStage :
    /\ <<x, n>> \in exported => disk.status[x] >= n
    /\ \A r \in Requests : <<x, n>> \in req[r].accepted =>
         /\ tables.status[x] >= n
         /\ req[r].pc = "respond" => disk.status[x] >= n

ProjectionInv ==
  \A x \in SoleOwner :
    /\ InOrder(tables, x)
    /\ InOrder(disk, x)
    /\ disk.status[x] <= tables.status[x]
    /\ Shown(x)

\* Only queued events are ingested.
IngestedInv == \A ev \in tables.ingested : Queued(ev)

\* The whole pipeline, from the sinks to the plane's table of executions.
PipelineInv ==
  /\ ExportInv
  /\ RoomInv
  /\ QueueOrderInv
  /\ IngestedInv
  /\ abandoned \in Nat
  /\ abandoned = 0 => SerialInv /\ ProjectionInv
=============================================================================
