-------------------------- MODULE EventExportProofs --------------------------
(***************************************************************************)
(* ExportInv, then PipelineInv, are inductive invariants of EventExport,   *)
(* for any number of executions, writers and requests and any sizes of     *)
(* batch and queue.                                                        *)
(***************************************************************************)
EXTENDS EventExportInvariant, FiniteSetTheorems, TLAPS

\* The current event of a request that applies one is an event (InsertEvent to
\* Publish).
LEMMA CurrentIsEvent ==
  ASSUME TypeOK, NEW r \in Requests,
         req[r].pc \notin {"free", "check", "commit", "respond"}
  PROVE  req[r].row \in DOMAIN queue /\ Current(r).event \in Events
<1>1. req[r] \in Request /\ queue \in Seq(Entry)
  BY DEF TypeOK
<1>2. req[r].row \in req[r].todo /\ req[r].todo \subseteq 1..Len(queue)
  BY <1>1 DEF TypeOK, Request
<1>3. req[r].row \in DOMAIN queue /\ queue[req[r].row] \in Entry
  BY <1>1, <1>2
<1> QED
  BY <1>3 DEF Current, Entry

\* The initial state satisfies the invariant.
LEMMA InitInv == Init => ExportInv
<1> SUFFICES ASSUME Init PROVE ExportInv
  OBVIOUS
<1> USE ExportAssumption DEF Init, Free, NotEmitting, NoTables
<1>1. TypeOK
  BY DEF TypeOK, Tables, Request, RequestPC, Entry, Events
<1>2. SenderInv /\ DeliveryInv /\ PublishInv
  BY DEF SenderInv, DeliveryInv, PublishInv, Applying
<1> QED
  BY <1>1, <1>2 DEF ExportInv

\* Steps of the sinks only add rows to the queue: requests, tables and
\* publications are as before.
LEMMA SinkKeeps ==
  ASSUME ExportInv, TypeOK',
         UNCHANGED <<exported, exporter, up, tables, disk, req, published>>,
         \A i \in DOMAIN queue : i \in DOMAIN queue' /\ queue'[i] = queue[i]
  PROVE  ExportInv'
<1>1. TypeOK /\ SenderInv /\ DeliveryInv /\ PublishInv
  BY DEF ExportInv
<1>2. SenderInv' /\ DeliveryInv'
  BY <1>1 DEF SenderInv, DeliveryInv
<1>3. ASSUME NEW r \in Requests, req[r].pc \in Applying
      PROVE  Current(r)' = Current(r)
  BY <1>1, <1>3, CurrentIsEvent DEF Current, Applying
<1>4. PublishInv'
  BY <1>1, <1>3 DEF PublishInv
<1> QED
  BY <1>2, <1>4 DEF ExportInv

\* A ledger event comes into being.
LEMMA AdvanceInv ==
  ASSUME ExportInv, NEW w \in Writers, NEW x \in Executions, Advance(w, x)
  PROVE  ExportInv'
<1> USE ExportAssumption
<1>1. TypeOK
  BY DEF ExportInv
<1>2. /\ UNCHANGED <<queue, exported, exporter, up, tables, disk, req, published>>
      /\ stage' = [stage EXCEPT ![x] = @ + 1]
      /\ emit' = [emit EXCEPT ![w] =
           [pc |-> "read", event |-> <<x, stage[x] + 1>>, status |-> 0]]
      /\ stage[x] < MaxStage
  BY DEF Advance, plane
<1>3. stage[x] + 1 \in 1..MaxStage
  BY <1>1, <1>2 DEF TypeOK
<1>4. <<x, stage[x] + 1>> \in Events
  BY <1>3 DEF Events
<1>5. /\ stage' \in [Executions -> 0..MaxStage]
      /\ \A y \in Executions : stage'[y] >= stage[y]
  BY <1>1, <1>2, <1>3 DEF TypeOK
<1>6. emit' \in [Writers -> [pc : {"idle", "read", "room", "insert"},
                             event : Events \cup {<<>>}, status : 0..MaxStage]]
  BY <1>1, <1>2, <1>4 DEF TypeOK
<1>7. ASSUME NEW v \in Writers
      PROVE  /\ emit'[v].pc # "idle" => emit'[v].event \in Events
             /\ emit'[v].pc \in {"room", "insert"} => emit'[v].status \in 1..MaxStage
             /\ emit'[v].pc = "read" => stage'[emit'[v].event[1]] >= emit'[v].event[2]
  <2>1. CASE v = w
    <3>1. emit'[v] = [pc |-> "read", event |-> <<x, stage[x] + 1>>, status |-> 0]
      BY <1>1, <1>2, <2>1 DEF TypeOK
    <3>2. stage'[x] = stage[x] + 1
      BY <1>1, <1>2 DEF TypeOK
    <3> QED
      BY <3>1, <3>2, <1>3, <1>4
  <2>2. CASE v # w
    <3>1. emit'[v] = emit[v]
      BY <1>1, <1>2, <2>2 DEF TypeOK
    <3>2. emit[v].pc = "read" => /\ emit[v].event[1] \in Executions
                                 /\ emit[v].event[2] \in 1..MaxStage
      BY <1>1 DEF TypeOK, Events
    <3> QED
      BY <1>1, <1>5, <3>1, <3>2 DEF TypeOK
  <2> QED
    BY <2>1, <2>2
<1>8. TypeOK'
  <2>1. Request' = Request
    BY <1>2 DEF Request
  <2> QED
    BY <1>1, <1>2, <1>5, <1>6, <1>7, <2>1 DEF TypeOK
<1> QED
  BY <1>2, <1>8, SinkKeeps

\* The sink reads the row, counts the pending rows, and inserts.
LEMMA SinkInv ==
  ASSUME ExportInv, NEW w \in Writers, Sink(w)
  PROVE  ExportInv'
<1> USE ExportAssumption
<1>1. TypeOK
  BY DEF ExportInv
<1>2. CASE ReadRow(w)
  <2>1. /\ UNCHANGED <<stage, queue, exported, exporter, up, tables, disk, req, published>>
        /\ emit[w].pc = "read"
        /\ emit' = [emit EXCEPT ![w].pc = "room",
                                ![w].status = stage[emit[w].event[1]]]
    BY <1>2 DEF ReadRow, plane
  <2>2. stage[emit[w].event[1]] \in 1..MaxStage
    <3>1. emit[w].event \in Events /\ stage[emit[w].event[1]] >= emit[w].event[2]
      BY <1>1, <2>1 DEF TypeOK
    <3>2. emit[w].event[1] \in Executions /\ emit[w].event[2] \in 1..MaxStage
      BY <3>1 DEF Events
    <3>3. stage[emit[w].event[1]] \in 0..MaxStage
      BY <1>1, <3>2 DEF TypeOK
    <3> QED
      BY <3>1, <3>2, <3>3
  <2>3. TypeOK'
    <3>1. Request' = Request
      BY <2>1 DEF Request
    <3> DEFINE e == [emit[w] EXCEPT !.pc = "room", !.status = stage[emit[w].event[1]]]
    <3>a. /\ emit[w] \in [pc : {"idle", "read", "room", "insert"},
                         event : Events \cup {<<>>}, status : 0..MaxStage]
          /\ stage[emit[w].event[1]] \in 0..MaxStage
      BY <1>1, <2>2 DEF TypeOK
    <3>b. /\ e \in [pc : {"idle", "read", "room", "insert"},
                   event : Events \cup {<<>>}, status : 0..MaxStage]
          /\ e.pc = "room" /\ e.event = emit[w].event
          /\ e.status = stage[emit[w].event[1]]
      BY <3>a
    <3>c. emit' = [emit EXCEPT ![w] = e]
      BY <1>1, <2>1 DEF TypeOK
    <3> HIDE DEF e
    <3>2. /\ emit' \in [Writers -> [pc : {"idle", "read", "room", "insert"},
                                   event : Events \cup {<<>>}, status : 0..MaxStage]]
          /\ emit'[w].pc = "room"
          /\ emit'[w].event = emit[w].event
          /\ emit'[w].status = stage[emit[w].event[1]]
          /\ \A v \in Writers \ {w} : emit'[v] = emit[v]
      BY <1>1, <3>b, <3>c DEF TypeOK
    <3>3. emit[w].event \in Events
      BY <1>1, <2>1 DEF TypeOK
    <3>4. ASSUME NEW v \in Writers
          PROVE  /\ emit'[v].pc # "idle" => emit'[v].event \in Events
                 /\ emit'[v].pc \in {"room", "insert"} => emit'[v].status \in 1..MaxStage
                 /\ emit'[v].pc = "read" => stage'[emit'[v].event[1]] >= emit'[v].event[2]
      BY <1>1, <2>1, <3>2, <2>2, <3>3 DEF TypeOK
    <3> QED
      BY <1>1, <2>1, <3>1, <3>2, <3>4 DEF TypeOK
  <2> QED
    BY <2>1, <2>3, SinkKeeps
<1>3. CASE CountPending(w)
  <2>1. /\ UNCHANGED <<stage, queue, exported, exporter, up, tables, disk, req, published>>
        /\ emit[w].pc = "room"
        /\ \/ emit' = [emit EXCEPT ![w] = NotEmitting]
           \/ emit' = [emit EXCEPT ![w].pc = "insert"]
    BY <1>1, <1>3 DEF CountPending, plane, TypeOK
  <2>2. TypeOK'
    <3>1. Request' = Request
      BY <2>1 DEF Request
    <3>2. /\ emit' \in [Writers -> [pc : {"idle", "read", "room", "insert"},
                                   event : Events \cup {<<>>}, status : 0..MaxStage]]
          /\ emit'[w].pc \in {"idle", "insert"}
          /\ emit'[w].pc = "insert" => /\ emit'[w].event = emit[w].event
                                       /\ emit'[w].status = emit[w].status
          /\ \A v \in Writers \ {w} : emit'[v] = emit[v]
      <4>1. CASE emit' = [emit EXCEPT ![w] = NotEmitting]
        <5>1. NotEmitting \in [pc : {"idle", "read", "room", "insert"},
                               event : Events \cup {<<>>}, status : 0..MaxStage]
          BY DEF NotEmitting
        <5> QED
          BY <1>1, <4>1, <5>1 DEF TypeOK, NotEmitting
      <4>2. CASE emit' = [emit EXCEPT ![w].pc = "insert"]
        BY <1>1, <4>2, ZenonT(30) DEF TypeOK
      <4> QED
        BY <2>1, <4>1, <4>2
    <3>3. ASSUME NEW v \in Writers
          PROVE  /\ emit'[v].pc # "idle" => emit'[v].event \in Events
                 /\ emit'[v].pc \in {"room", "insert"} => emit'[v].status \in 1..MaxStage
                 /\ emit'[v].pc = "read" => stage'[emit'[v].event[1]] >= emit'[v].event[2]
      BY <1>1, <2>1, <3>2 DEF TypeOK
    <3> QED
      BY <1>1, <2>1, <3>1, <3>2, <3>3 DEF TypeOK
  <2> QED
    BY <2>1, <2>2, SinkKeeps
<1>4. CASE InsertQueue(w)
  <2>1. /\ UNCHANGED <<stage, exported, exporter, up, tables, disk, req, published>>
        /\ emit[w].pc = "insert"
        /\ queue' = Append(queue, [event |-> emit[w].event, status |-> emit[w].status])
        /\ emit' = [emit EXCEPT ![w] = NotEmitting]
    BY <1>4 DEF InsertQueue, plane
  <2>2. [event |-> emit[w].event, status |-> emit[w].status] \in Entry
    BY <1>1, <2>1 DEF TypeOK, Entry
  <2>3. /\ queue' \in Seq(Entry)
        /\ Len(queue') = Len(queue) + 1
        /\ \A i \in DOMAIN queue : i \in DOMAIN queue' /\ queue'[i] = queue[i]
    BY <1>1, <2>1, <2>2 DEF TypeOK
  <2>4. \A q \in Request : q \in Request'
    <3>1. Len(queue) \in Nat
      BY <1>1 DEF TypeOK
    <3>2. /\ 1..Len(queue) \subseteq 1..Len(queue')
          /\ 0..Len(queue) \subseteq 0..Len(queue')
      BY <2>3, <3>1
    <3> QED
      BY <3>2 DEF Request
  <2>5. TypeOK'
    BY <1>1, <2>1, <2>3, <2>4 DEF TypeOK, NotEmitting
  <2> QED
    BY <2>1, <2>3, <2>5, SinkKeeps
<1> QED
  BY <1>2, <1>3, <1>4 DEF Sink

\* A step of request r that puts it in state q leaves the others alone, and the
\* exporter stops waiting for r at most (every step of ingest_events_batch).
LEMMA HandlerFrame ==
  ASSUME TypeOK, SenderInv, NEW r \in Requests, NEW q \in Request,
         req' = [req EXCEPT ![r] = q],
         q.pc \notin {"free", "check", "commit", "respond"} => q.row \in q.todo,
         \/ q.waited = req[r].waited /\ exporter' = exporter
         \/ q.waited = FALSE /\ exporter' = IF req[r].waited THEN "ready" ELSE exporter,
         UNCHANGED <<stage, emit, queue, up>>,
         exported' \subseteq Events, tables' \in Tables, disk' \in Tables,
         published' \in [Events -> Nat]
  PROVE  /\ TypeOK' /\ SenderInv'
         /\ req'[r] = q
         /\ \A s \in Requests \ {r} : req'[s] = req[s]
<1>1. /\ req \in [Requests -> Request]
      /\ req'[r] = q
      /\ \A s \in Requests \ {r} : req'[s] = req[s]
      /\ req' \in [Requests -> Request]
  BY DEF TypeOK
<1>2. Request' = Request
  BY DEF Request
<1>3. \A s \in Requests : req[s].waited \in BOOLEAN /\ q.waited \in BOOLEAN
  BY <1>1 DEF Request
<1>4. SenderInv'
  BY <1>1, <1>3 DEF SenderInv
<1>5. (exporter' = "waiting") <=> \E s \in Requests : req'[s].waited
  <2>1. CASE q.waited = req[r].waited /\ exporter' = exporter
    BY <1>1, <2>1 DEF TypeOK
  <2>2. CASE q.waited = FALSE /\ exporter' = IF req[r].waited THEN "ready" ELSE exporter
    <3>1. CASE req[r].waited
      BY <1>1, <2>2, <3>1 DEF SenderInv
    <3>2. CASE ~ req[r].waited
      BY <1>1, <2>2, <3>2 DEF TypeOK
    <3> QED
      BY <3>1, <3>2
  <2> QED
    BY <2>1, <2>2
<1>6. \A s \in Requests :
        req'[s].pc \notin {"free", "check", "commit", "respond"}
          => req'[s].row \in req'[s].todo
  BY <1>1 DEF TypeOK
<1>7. exporter' \in {"ready", "waiting", "dead"}
  BY DEF TypeOK
<1>8. TypeOK'
  BY <1>1, <1>2, <1>5, <1>6, <1>7 DEF TypeOK
<1> QED
  BY <1>1, <1>4, <1>8

\* A step of request r that neither inserts nor publishes an event.
LEMMA PublishKept ==
  ASSUME TypeOK, PublishInv, NEW r \in Requests,
         \A s \in Requests \ {r} : req'[s] = req[s],
         req'[r].pc \in Applying
           => req[r].pc \in Applying /\ req'[r].row = req[r].row,
         UNCHANGED <<queue, published>>,
         tables'.ingested = tables.ingested
  PROVE  PublishInv'
<1>1. ASSUME NEW s \in Requests, req'[s].pc \in Applying
      PROVE  req[s].pc \in Applying /\ Current(s)' = Current(s)
  BY <1>1 DEF Current
<1> QED
  BY <1>1 DEF PublishInv

\* What a step of request r must see to for DeliveryInv.
LEMMA DeliveryKept ==
  ASSUME DeliveryInv, NEW r \in Requests,
         \A s \in Requests \ {r} : req'[s] = req[s],
         tables.ingested \subseteq tables'.ingested,
         disk.ingested \subseteq disk'.ingested,
         disk'.ingested \subseteq tables'.ingested,
         req'[r].accepted \subseteq tables'.ingested,
         req'[r].pc = "respond" => req'[r].accepted \subseteq disk'.ingested,
         exported' \subseteq disk'.ingested
  PROVE  DeliveryInv'
BY DEF DeliveryInv

\* A duplicate is skipped, another event is taken up.
LEMMA CheckDuplicateInv ==
  ASSUME ExportInv, NEW r \in Requests, CheckDuplicate(r)
  PROVE  ExportInv'
<1>1. TypeOK /\ SenderInv /\ DeliveryInv /\ PublishInv
  BY DEF ExportInv
<1>2. PICK i \in req[r].todo :
        req' = [req EXCEPT ![r] = IF queue[i].event \in tables.ingested
                                  THEN After(r, i)
                                  ELSE [req[r] EXCEPT !.pc = "seq", !.row = i]]
  BY <1>1 DEF CheckDuplicate, TypeOK
<1>3. /\ UNCHANGED <<stage, emit, queue, exported, exporter, up, tables, disk, published>>
      /\ req[r].pc = "check"
  BY DEF CheckDuplicate, agent
<1>4. req[r] \in Request
  BY <1>1 DEF TypeOK
<1> DEFINE q == req'[r]
<1>q. /\ req' = [req EXCEPT ![r] = q]
      /\ q = IF queue[i].event \in tables.ingested
             THEN After(r, i) ELSE [req[r] EXCEPT !.pc = "seq", !.row = i]
  BY <1>1, <1>2 DEF TypeOK
<1> HIDE DEF q
<1>5. /\ q \in Request
      /\ req' = [req EXCEPT ![r] = q]
      /\ q.pc \notin {"free", "check", "commit", "respond"} => q.row \in q.todo
      /\ q.waited = req[r].waited /\ q.accepted = req[r].accepted
      /\ q.pc \in {"check", "commit", "seq"}
  <2>1. 0 \in 0..Len(queue) /\ i \in 0..Len(queue)
    BY <1>1, <1>2, <1>4 DEF TypeOK, Request
  <2>2. q \in Request
    BY <1>q, <1>4, <2>1 DEF After, Request, RequestPC
  <2>3. CASE queue[i].event \in tables.ingested
    <3>1. /\ q.todo = req[r].todo \ {i}
          /\ q.pc = IF req[r].todo = {i} THEN "commit" ELSE "check"
          /\ q.waited = req[r].waited /\ q.accepted = req[r].accepted
      BY <1>q, <1>4, <2>3 DEF After, Request
    <3> QED
      BY <1>q, <2>2, <3>1, <1>2
  <2>4. CASE queue[i].event \notin tables.ingested
    <3>1. /\ q.todo = req[r].todo /\ q.row = i /\ q.pc = "seq"
          /\ q.waited = req[r].waited /\ q.accepted = req[r].accepted
      BY <1>q, <1>4, <2>4 DEF Request
    <3> QED
      BY <1>q, <2>2, <3>1, <1>2
  <2> QED
    BY <2>3, <2>4
<1>6. /\ TypeOK' /\ SenderInv' /\ req'[r] = q
      /\ \A s \in Requests \ {r} : req'[s] = req[s]
  BY <1>1, <1>3, <1>5, HandlerFrame DEF TypeOK
<1>7. DeliveryInv'
  BY <1>1, <1>3, <1>5, <1>6, DeliveryKept DEF DeliveryInv
<1>8. PublishInv'
  BY <1>1, <1>3, <1>5, <1>6, PublishKept DEF Applying
<1> QED
  BY <1>6, <1>7, <1>8 DEF ExportInv

\* The stream counter is committed, and with it what the tables hold.
LEMMA NextStreamSeqInv ==
  ASSUME ExportInv, NEW r \in Requests, NextStreamSeq(r)
  PROVE  ExportInv'
<1>1. TypeOK /\ SenderInv /\ DeliveryInv /\ PublishInv
  BY DEF ExportInv
<1>2. /\ req[r].pc = "seq"
      /\ UNCHANGED <<stage, emit, queue, exported, exporter, up, tables, published>>
      /\ disk' = tables
  BY DEF NextStreamSeq, agent
<1> DEFINE q == [req[r] EXCEPT !.pc = "insert"]
<1>3. /\ req[r] \in Request
      /\ req' = [req EXCEPT ![r] = q]
  BY <1>1 DEF NextStreamSeq, TypeOK
<1>4. /\ q \in Request /\ q.pc = "insert"
      /\ q.todo = req[r].todo /\ q.row = req[r].row /\ q.waited = req[r].waited /\ q.accepted = req[r].accepted
  BY <1>3 DEF Request, RequestPC
<1> HIDE DEF q
<1>6. /\ TypeOK' /\ SenderInv' /\ req'[r] = q
      /\ \A s \in Requests \ {r} : req'[s] = req[s]
  BY <1>1, <1>2, <1>3, <1>4, HandlerFrame DEF TypeOK
<1>7. DeliveryInv'
  BY <1>1, <1>2, <1>4, <1>6, DeliveryKept DEF DeliveryInv
<1>8. PublishInv'
  BY <1>1, <1>2, <1>4, <1>6, PublishKept DEF Applying
<1> QED
  BY <1>6, <1>7, <1>8 DEF ExportInv

\* The batch is committed before the response goes out.
LEMMA CommitBatchInv ==
  ASSUME ExportInv, NEW r \in Requests, CommitBatch(r)
  PROVE  ExportInv'
<1>1. TypeOK /\ SenderInv /\ DeliveryInv /\ PublishInv
  BY DEF ExportInv
<1>2. /\ req[r].pc = "commit"
      /\ UNCHANGED <<stage, emit, queue, exported, exporter, up, tables, published>>
      /\ disk' = tables
  BY DEF CommitBatch, agent
<1> DEFINE q == [req[r] EXCEPT !.pc = "respond"]
<1>3. /\ req[r] \in Request
      /\ req' = [req EXCEPT ![r] = q]
  BY <1>1 DEF CommitBatch, TypeOK
<1>4. /\ q \in Request /\ q.pc = "respond"
      /\ q.todo = req[r].todo /\ q.row = req[r].row /\ q.waited = req[r].waited /\ q.accepted = req[r].accepted
  BY <1>3 DEF Request, RequestPC
<1> HIDE DEF q
<1>6. /\ TypeOK' /\ SenderInv' /\ req'[r] = q
      /\ \A s \in Requests \ {r} : req'[s] = req[s]
  BY <1>1, <1>2, <1>3, <1>4, HandlerFrame DEF TypeOK
<1>7. DeliveryInv'
  BY <1>1, <1>2, <1>4, <1>6, DeliveryKept DEF DeliveryInv
<1>8. PublishInv'
  BY <1>1, <1>2, <1>4, <1>6, PublishKept DEF Applying
<1> QED
  BY <1>6, <1>7, <1>8 DEF ExportInv

\* The row of the execution is read.
LEMMA ReadProjectionInv ==
  ASSUME ExportInv, NEW r \in Requests, ReadProjection(r)
  PROVE  ExportInv'
<1>1. TypeOK /\ SenderInv /\ DeliveryInv /\ PublishInv
  BY DEF ExportInv
<1>2. /\ req[r].pc = "read_row"
      /\ UNCHANGED <<stage, emit, queue, exported, exporter, up, tables, disk, published>>
  BY DEF ReadProjection, agent
<1> DEFINE q == [req[r] EXCEPT !.pc = "write_row",
                           !.fresh = tables.status[Current(r).event[1]] = 0]
<1>3. /\ req[r] \in Request
      /\ req' = [req EXCEPT ![r] = q]
  BY <1>1 DEF ReadProjection, TypeOK
<1>4. /\ q \in Request /\ q.pc = "write_row"
      /\ q.todo = req[r].todo /\ q.row = req[r].row /\ q.waited = req[r].waited /\ q.accepted = req[r].accepted
  BY <1>3 DEF Request, RequestPC
<1> HIDE DEF q
<1>6. /\ TypeOK' /\ SenderInv' /\ req'[r] = q
      /\ \A s \in Requests \ {r} : req'[s] = req[s]
  BY <1>1, <1>2, <1>3, <1>4, HandlerFrame DEF TypeOK
<1>7. DeliveryInv'
  BY <1>1, <1>2, <1>4, <1>6, DeliveryKept DEF DeliveryInv
<1>8. PublishInv'
  BY <1>1, <1>2, <1>4, <1>6, PublishKept DEF Applying
<1> QED
  BY <1>6, <1>7, <1>8 DEF ExportInv

\* The thread raises, with its writes left to whoever commits next.
LEMMA RaiseInv ==
  ASSUME ExportInv, NEW r \in Requests, Raise(r),
         UNCHANGED <<stage, emit, queue, exported, up, tables, disk, published>>
  PROVE  ExportInv'
<1>1. TypeOK /\ SenderInv /\ DeliveryInv /\ PublishInv
  BY DEF ExportInv
<1>2. /\ Free \in Request /\ Free.pc = "free" /\ Free.waited = FALSE
      /\ Free.accepted = {}
  BY <1>1 DEF Free, Request, RequestPC, TypeOK
<1>3. /\ req' = [req EXCEPT ![r] = Free]
      /\ exporter' = IF req[r].waited THEN "ready" ELSE exporter
  BY DEF Raise
<1>6. /\ TypeOK' /\ SenderInv' /\ req'[r] = Free
      /\ \A s \in Requests \ {r} : req'[s] = req[s]
  BY <1>1, <1>2, <1>3, HandlerFrame DEF TypeOK
<1>7. DeliveryInv'
  BY <1>1, <1>2, <1>6, DeliveryKept DEF DeliveryInv
<1>8. PublishInv'
  BY <1>1, <1>2, <1>6, PublishKept DEF Applying
<1> QED
  BY <1>6, <1>7, <1>8 DEF ExportInv

\* The row is inserted by the first request that gets there.
LEMMA InsertEventInv ==
  ASSUME ExportInv, NEW r \in Requests, InsertEvent(r)
  PROVE  ExportInv'
<1>1. TypeOK /\ SenderInv /\ DeliveryInv /\ PublishInv
  BY DEF ExportInv
<1>2. /\ req[r].pc = "insert"
      /\ UNCHANGED <<stage, emit, queue, exported, up, disk, published>>
  BY DEF InsertEvent, agent
<1>3. CASE Raise(r) /\ UNCHANGED tables
  BY <1>2, <1>3, RaiseInv
<1>4. ASSUME Current(r).event \notin tables.ingested,
             tables' = [tables EXCEPT !.ingested = @ \cup {Current(r).event}],
             req' = [req EXCEPT ![r].pc = "read_row"],
             UNCHANGED exporter
      PROVE  ExportInv'
  <2> DEFINE q == [req[r] EXCEPT !.pc = "read_row"]
             ev == Current(r).event
  <2>1. /\ req[r] \in Request
        /\ req' = [req EXCEPT ![r] = q]
    BY <1>1, <1>4 DEF TypeOK
  <2>2. /\ q \in Request /\ q.pc = "read_row"
        /\ q.todo = req[r].todo /\ q.row = req[r].row
        /\ q.waited = req[r].waited /\ q.accepted = req[r].accepted
    BY <2>1 DEF Request, RequestPC
  <2>3. ev \in Events
    BY <1>1, <1>2, CurrentIsEvent
  <2>4. tables' \in Tables /\ tables'.ingested = tables.ingested \cup {ev}
    BY <1>1, <1>4, <2>3 DEF TypeOK, Tables
  <2>5. q.row \in q.todo
    BY <1>1, <1>2, <2>2 DEF TypeOK
  <2> HIDE DEF q
  <2>6. /\ TypeOK' /\ SenderInv' /\ req'[r] = q
        /\ \A s \in Requests \ {r} : req'[s] = req[s]
    BY <1>1, <1>2, <1>4, <2>1, <2>2, <2>4, <2>5, HandlerFrame, ZenonT(30) DEF TypeOK
  <2>7. DeliveryInv'
    BY <1>1, <1>2, <2>2, <2>4, <2>6, DeliveryKept DEF DeliveryInv
  <2>8. /\ Current(r)' = Current(r)
        /\ \A s \in Requests \ {r} : Current(s)' = Current(s)
    BY <1>2, <2>2, <2>6 DEF Current
  <2>9. published[ev] = 0
    BY <1>1, <1>4, <2>3 DEF PublishInv
  <2>10. \A s \in Requests \ {r} : req[s].pc \in Applying => Current(s).event # ev
    BY <1>1, <1>4 DEF PublishInv
  <2> HIDE DEF ev
  <2>11. PublishInv'
    <3>1. \A s \in Requests : req'[s].pc \in Applying =>
            /\ Current(s)'.event \in tables'.ingested
            /\ published'[Current(s)'.event] = 0
      BY <1>1, <1>2, <2>4, <2>6, <2>8, <2>9 DEF PublishInv, ev
    <3>2. \A s, t \in Requests :
            /\ req'[s].pc \in Applying
            /\ req'[t].pc \in Applying
            /\ Current(s)'.event = Current(t)'.event
            => s = t
      BY <1>1, <2>6, <2>8, <2>10 DEF PublishInv, ev
    <3>3. \A x \in Events : /\ published'[x] <= 1
                            /\ x \notin tables'.ingested => published'[x] = 0
      BY <1>1, <1>2, <2>4 DEF PublishInv
    <3> QED
      BY <3>1, <3>2, <3>3 DEF PublishInv
  <2> QED
    BY <2>6, <2>7, <2>11 DEF ExportInv
<1> QED
  BY <1>3, <1>4 DEF InsertEvent

\* The projection is written, or the INSERT of its row fails.
LEMMA WriteProjectionInv ==
  ASSUME ExportInv, NEW r \in Requests, WriteProjection(r)
  PROVE  ExportInv'
<1> USE ExportAssumption
<1>1. TypeOK /\ SenderInv /\ DeliveryInv /\ PublishInv
  BY DEF ExportInv
<1>2. /\ req[r].pc = "write_row"
      /\ UNCHANGED <<stage, emit, queue, exported, up, disk, published>>
  BY DEF WriteProjection, agent
<1>3. CASE Raise(r) /\ UNCHANGED tables
  BY <1>2, <1>3, RaiseInv
<1>4. ASSUME tables' = [tables EXCEPT !.status[Current(r).event[1]] =
                                        ProjectedStatus(Current(r))],
             req' = [req EXCEPT ![r].pc = "publish",
                                ![r].accepted = @ \cup {Current(r).event}],
             UNCHANGED exporter
      PROVE  ExportInv'
  <2> DEFINE q == [req[r] EXCEPT !.pc = "publish",
                                 !.accepted = @ \cup {Current(r).event}]
  <2>1. /\ req[r] \in Request
        /\ req' = [req EXCEPT ![r] = q]
    BY <1>1, <1>4 DEF TypeOK
  <2>2. /\ Current(r).event \in Events /\ Current(r) \in Entry
        /\ Current(r).event \in tables.ingested
    <3>1. req[r].row \in DOMAIN queue /\ Current(r).event \in Events
      BY <1>1, <1>2, CurrentIsEvent
    <3> QED
      BY <1>1, <1>2, <3>1 DEF TypeOK, Current, PublishInv, Applying
  <2>3. /\ q \in Request /\ q.pc = "publish"
        /\ q.todo = req[r].todo /\ q.row = req[r].row
        /\ q.waited = req[r].waited
        /\ q.accepted = req[r].accepted \cup {Current(r).event}
    BY <2>1, <2>2 DEF Request, RequestPC
  <2>4. tables' \in Tables /\ tables'.ingested = tables.ingested
    <3>1. ProjectedStatus(Current(r)) \in 0..MaxStage
      BY <2>2 DEF ProjectedStatus, Entry, Events
    <3> QED
      BY <1>1, <1>4, <3>1 DEF TypeOK, Tables
  <2>5. q.row \in q.todo
    BY <1>1, <1>2, <2>3 DEF TypeOK
  <2> HIDE DEF q
  <2>6. /\ TypeOK' /\ SenderInv' /\ req'[r] = q
        /\ \A s \in Requests \ {r} : req'[s] = req[s]
    BY <1>1, <1>2, <1>4, <2>1, <2>3, <2>4, <2>5, HandlerFrame, ZenonT(30) DEF TypeOK
  <2>7. DeliveryInv'
    BY <1>1, <1>2, <2>2, <2>3, <2>4, <2>6, DeliveryKept DEF DeliveryInv
  <2>8. PublishInv'
    BY <1>1, <1>2, <2>3, <2>4, <2>6, PublishKept DEF Applying
  <2> QED
    BY <2>6, <2>7, <2>8 DEF ExportInv
<1> QED
  BY <1>3, <1>4 DEF WriteProjection

\* The event is published: its request was the only one that could.
LEMMA PublishStepInv ==
  ASSUME ExportInv, NEW r \in Requests, Publish(r)
  PROVE  ExportInv'
<1>1. TypeOK /\ SenderInv /\ DeliveryInv /\ PublishInv
  BY DEF ExportInv
<1>2. /\ req[r].pc = "publish"
      /\ published' = [published EXCEPT ![Current(r).event] = @ + 1]
      /\ disk' \in {disk, tables}
      /\ UNCHANGED <<stage, emit, queue, exported, exporter, up, tables>>
  BY DEF Publish, agent
<1> DEFINE q == After(r, req[r].row)
           ev == Current(r).event
<1>3. /\ req[r] \in Request
      /\ req' = [req EXCEPT ![r] = q]
      /\ 0 \in 0..Len(queue)
  BY <1>1 DEF Publish, TypeOK
<1>4. /\ q \in Request
      /\ q.todo = req[r].todo \ {req[r].row}
      /\ q.pc = IF req[r].todo = {req[r].row} THEN "commit" ELSE "check"
      /\ q.waited = req[r].waited /\ q.accepted = req[r].accepted
  BY <1>3 DEF After, Request, RequestPC
<1> HIDE DEF q
<1>5. /\ req[r].row \in req[r].todo
      /\ ev \in Events
  BY <1>1, <1>2, CurrentIsEvent DEF TypeOK
<1>6. /\ published' \in [Events -> Nat]
      /\ published'[ev] = published[ev] + 1
      /\ \A x \in Events \ {ev} : published'[x] = published[x]
  BY <1>1, <1>2, <1>5 DEF TypeOK
<1>7. /\ TypeOK' /\ SenderInv' /\ req'[r] = q
      /\ \A s \in Requests \ {r} : req'[s] = req[s]
  <2>2. q.pc \in {"check", "commit"}
    BY <1>4
  <2>3. exported' \subseteq Events /\ tables' \in Tables /\ disk' \in Tables
    BY <1>1, <1>2 DEF TypeOK
  <2> QED
    BY <1>1, <1>2, <1>3, <1>4, <1>6, <2>2, <2>3, HandlerFrame
<1>8. DeliveryInv'
  BY <1>1, <1>2, <1>4, <1>7, DeliveryKept DEF DeliveryInv
<1>9. PublishInv'
  <2>1. req'[r].pc \notin Applying
    BY <1>4, <1>7 DEF Applying
  <2>2. \A s \in Requests \ {r} :
          /\ Current(s)' = Current(s)
          /\ req'[s].pc \in Applying => Current(s).event # ev
    BY <1>1, <1>2, <1>7 DEF PublishInv, Current, Applying
  <2>3. published[ev] = 0 /\ ev \in tables.ingested
    BY <1>1, <1>2 DEF PublishInv, Applying
  <2> HIDE DEF ev
  <2>4. ASSUME NEW s \in Requests, req'[s].pc \in Applying
        PROVE  /\ Current(s)'.event \in tables'.ingested
               /\ published'[Current(s)'.event] = 0
    <3>1. s # r /\ req[s] = req'[s]
      BY <1>7, <2>1, <2>4
    <3>2. Current(s).event \in Events
      BY <1>1, <2>4, <3>1, CurrentIsEvent DEF Applying
    <3> QED
      BY <1>1, <1>2, <1>6, <2>2, <2>4, <3>1, <3>2 DEF PublishInv
  <2>5. \A s, t \in Requests :
          /\ req'[s].pc \in Applying
          /\ req'[t].pc \in Applying
          /\ Current(s)'.event = Current(t)'.event
          => s = t
    BY <1>1, <1>7, <2>1, <2>2 DEF PublishInv
  <2>6. \A x \in Events : /\ published'[x] <= 1
                          /\ x \notin tables'.ingested => published'[x] = 0
    BY <1>1, <1>2, <1>6, <2>3 DEF PublishInv
  <2> QED
    BY <2>4, <2>5, <2>6 DEF PublishInv
<1> QED
  BY <1>7, <1>8, <1>9 DEF ExportInv

\* The response reaches the exporter, or nobody.
LEMMA MarkExportedInv ==
  ASSUME ExportInv, NEW r \in Requests, MarkExported(r)
  PROVE  ExportInv'
<1>1. TypeOK /\ SenderInv /\ DeliveryInv /\ PublishInv
  BY DEF ExportInv
<1>2. /\ req[r].pc = "respond"
      /\ req' = [req EXCEPT ![r] = Free]
      /\ exporter' = IF req[r].waited THEN "ready" ELSE exporter
      /\ exported' \in {exported, exported \cup req[r].accepted}
      /\ UNCHANGED <<stage, emit, queue, up, tables, disk, published>>
  BY DEF MarkExported
<1>3. /\ Free \in Request /\ Free.pc = "free" /\ Free.waited = FALSE
      /\ Free.accepted = {}
  BY <1>1 DEF Free, Request, RequestPC, TypeOK
<1>4. exported' \subseteq Events /\ exported' \subseteq disk.ingested
  BY <1>1, <1>2 DEF TypeOK, Request, DeliveryInv
<1>6. /\ TypeOK' /\ SenderInv' /\ req'[r] = Free
      /\ \A s \in Requests \ {r} : req'[s] = req[s]
  BY <1>1, <1>2, <1>3, <1>4, HandlerFrame DEF TypeOK
<1>7. DeliveryInv'
  BY <1>1, <1>2, <1>3, <1>4, <1>6, DeliveryKept DEF DeliveryInv
<1>8. PublishInv'
  BY <1>1, <1>2, <1>3, <1>6, PublishKept DEF Applying
<1> QED
  BY <1>6, <1>7, <1>8 DEF ExportInv

\* A batch is sent by an exporter that waits for no other.
LEMMA FlushOnceInv ==
  ASSUME ExportInv, NEW r \in Requests, FlushOnce(r)
  PROVE  ExportInv'
<1> USE ExportAssumption
<1>1. TypeOK /\ SenderInv /\ DeliveryInv /\ PublishInv
  BY DEF ExportInv
<1> DEFINE q == [Free EXCEPT !.pc = "check", !.waited = TRUE, !.todo = PendingBatch]
<1>2. /\ exporter = "ready" /\ exporter' = "waiting"
      /\ req' = [req EXCEPT ![r] = q]
      /\ UNCHANGED <<stage, emit, queue, exported, up, tables, disk, published>>
  BY DEF FlushOnce, agent
<1>3. /\ PendingBatch \subseteq 1..Len(queue)
      /\ 0 \in 0..Len(queue)
  BY <1>1 DEF PendingBatch, Pending, TypeOK
<1>4. /\ q \in Request /\ q.pc = "check" /\ q.waited = TRUE
      /\ q.accepted = {} /\ q.todo = PendingBatch
  BY <1>3 DEF Free, Request, RequestPC
<1> HIDE DEF q
<1>5. /\ req'[r] = q
      /\ \A s \in Requests \ {r} : req'[s] = req[s]
      /\ req' \in [Requests -> Request]
      /\ \A s \in Requests : ~ req[s].waited
  BY <1>1, <1>2, <1>4 DEF TypeOK
<1>6. TypeOK'
  <2>1. Request' = Request
    BY <1>2 DEF Request
  <2> QED
    BY <1>1, <1>2, <1>4, <1>5, <2>1 DEF TypeOK
<1>7. SenderInv'
  BY <1>4, <1>5 DEF SenderInv
<1>8. DeliveryInv'
  BY <1>1, <1>2, <1>4, <1>5, DeliveryKept DEF DeliveryInv
<1>9. PublishInv'
  BY <1>1, <1>2, <1>4, <1>5, PublishKept DEF Applying
<1> QED
  BY <1>6, <1>7, <1>8, <1>9 DEF ExportInv

\* The sender stops waiting.
LEMMA AbandonInv ==
  ASSUME ExportInv, Abandon,
         emit' \in {emit, [w \in Writers |-> NotEmitting]}
  PROVE  ExportInv'
<1> USE ExportAssumption
<1>1. TypeOK /\ SenderInv /\ DeliveryInv /\ PublishInv
  BY DEF ExportInv
<1>2. /\ exporter' = "ready"
      /\ req' = [r \in Requests |-> [req[r] EXCEPT !.waited = FALSE]]
      /\ UNCHANGED <<stage, queue, exported, up, tables, disk, published>>
  BY DEF Abandon
<1>3. /\ req' \in [Requests -> Request]
      /\ \A r \in Requests :
           /\ req'[r].waited = FALSE
           /\ req'[r].pc = req[r].pc /\ req'[r].row = req[r].row
           /\ req'[r].todo = req[r].todo /\ req'[r].accepted = req[r].accepted
  <2>1. ASSUME NEW r \in Requests
        PROVE  /\ [req[r] EXCEPT !.waited = FALSE] \in Request
               /\ req'[r].waited = FALSE
               /\ req'[r].pc = req[r].pc /\ req'[r].row = req[r].row
               /\ req'[r].todo = req[r].todo /\ req'[r].accepted = req[r].accepted
    <3>1. req[r] \in Request
      BY <1>1 DEF TypeOK
    <3> QED
      BY <1>2, <3>1 DEF Request
  <2> QED
    BY <1>2, <2>1
<1>4. TypeOK'
  <2>1. Request' = Request
    BY <1>2 DEF Request
  <2>2. /\ emit' \in [Writers -> [pc : {"idle", "read", "room", "insert"},
                                 event : Events \cup {<<>>}, status : 0..MaxStage]]
        /\ \A w \in Writers :
             /\ emit'[w].pc # "idle" => emit'[w].event \in Events
             /\ emit'[w].pc \in {"room", "insert"} => emit'[w].status \in 1..MaxStage
             /\ emit'[w].pc = "read" => stage'[emit'[w].event[1]] >= emit'[w].event[2]
    <3>1. CASE emit' = emit
      BY <1>1, <1>2, <3>1 DEF TypeOK
    <3>2. CASE emit' = [w \in Writers |-> NotEmitting]
      BY <3>2 DEF NotEmitting
    <3> QED
      BY <3>1, <3>2
  <2>3. \A r \in Requests :
          req'[r].pc \notin {"free", "check", "commit", "respond"}
            => req'[r].row \in req'[r].todo
    BY <1>1, <1>3 DEF TypeOK
  <2> QED
    BY <1>1, <1>2, <1>3, <2>1, <2>2, <2>3 DEF TypeOK
<1>5. SenderInv' /\ DeliveryInv'
  BY <1>1, <1>2, <1>3 DEF SenderInv, DeliveryInv
<1>6. PublishInv'
  <2>1. \A r \in Requests : Current(r)' = Current(r)
    BY <1>2, <1>3 DEF Current
  <2>2. \A r \in Requests : req'[r].pc \in Applying => req[r].pc \in Applying
    BY <1>3
  <2>3. ASSUME NEW r \in Requests, req'[r].pc \in Applying
        PROVE  /\ Current(r)'.event \in tables'.ingested
               /\ published'[Current(r)'.event] = 0
    BY <1>1, <1>2, <2>1, <2>2, <2>3, ZenonT(30) DEF PublishInv
  <2>4. ASSUME NEW r \in Requests, NEW s \in Requests,
               req'[r].pc \in Applying, req'[s].pc \in Applying,
               Current(r)'.event = Current(s)'.event
        PROVE  r = s
    BY <1>1, <2>1, <2>2, <2>4 DEF PublishInv
  <2>5. ASSUME NEW ev \in Events
        PROVE  /\ published'[ev] <= 1
               /\ ev \notin tables'.ingested => published'[ev] = 0
    BY <1>1, <1>2 DEF PublishInv
  <2> QED
    BY <2>3, <2>4, <2>5 DEF PublishInv
<1> QED
  BY <1>4, <1>5, <1>6 DEF ExportInv

\* The plane stops or dies: its tables are what is on disk, and no request
\* is left that could have told more.
LEMMA PlaneEndsInv ==
  ASSUME ExportInv, PlaneEnds,
         exporter' \in {"ready", "waiting", "dead"}, exporter' # "waiting"
  PROVE  ExportInv'
<1>1. TypeOK /\ SenderInv /\ DeliveryInv /\ PublishInv
  BY DEF ExportInv
<1>2. /\ up' = FALSE /\ tables' = disk
      /\ req' = [r \in Requests |-> Free]
      /\ published' = [ev \in Events |-> 0]
      /\ UNCHANGED <<stage, emit, queue, exported, disk>>
  BY DEF PlaneEnds, agent
<1>3. /\ Free \in Request /\ Free.pc = "free" /\ Free.waited = FALSE
      /\ Free.accepted = {}
  BY <1>1 DEF Free, Request, RequestPC, TypeOK
<1>4. TypeOK'
  <2>1. Request' = Request
    BY <1>2 DEF Request
  <2> QED
    BY <1>1, <1>2, <1>3, <2>1 DEF TypeOK
<1>5. SenderInv' /\ DeliveryInv' /\ PublishInv'
  BY <1>1, <1>2, <1>3 DEF SenderInv, DeliveryInv, PublishInv, Applying
<1> QED
  BY <1>4, <1>5 DEF ExportInv

\* Every step of the agent and of the plane keeps the invariant.
LEMMA NextInv ==
  ASSUME ExportInv, [Next]_vars
  PROVE  ExportInv'
<1>1. CASE UNCHANGED vars
  <2>1. /\ TypeOK /\ SenderInv /\ DeliveryInv /\ PublishInv
        /\ Request' = Request
        /\ \A r \in Requests : Current(r)' = Current(r)
    BY <1>1 DEF ExportInv, vars, agent, plane, Request, Current
  <2> QED
    BY <1>1, <2>1
    DEF ExportInv, TypeOK, SenderInv, DeliveryInv, PublishInv, vars, agent, plane
<1>2. ASSUME NEW w \in Writers, Sink(w) \/ \E x \in Executions : Advance(w, x)
      PROVE  ExportInv'
  BY <1>2, SinkInv, AdvanceInv
<1>3. ASSUME NEW r \in Requests, FlushOnce(r) \/ Handle(r)
      PROVE  ExportInv'
  BY <1>3, FlushOnceInv, CheckDuplicateInv, NextStreamSeqInv, InsertEventInv,
     ReadProjectionInv, WriteProjectionInv, PublishStepInv, CommitBatchInv,
     MarkExportedInv DEF Handle
<1>4. CASE Timeout \/ AgentRestart
  <2>1. Abandon /\ emit' \in {emit, [w \in Writers |-> NotEmitting]}
    BY <1>4 DEF Timeout, AgentRestart
  <2> QED
    BY <2>1, AbandonInv
<1>5. CASE PlaneStop
  <2>1. exporter = "waiting" => Busy
    BY DEF ExportInv, TypeOK, Busy, Free
  <2>2. exporter' \in {"ready", "waiting", "dead"} /\ exporter' # "waiting"
    BY <1>5, <2>1 DEF PlaneStop, ExportInv, TypeOK
  <2> QED
    BY <1>5, <2>2, PlaneEndsInv DEF PlaneStop
<1>6. CASE PlaneCrash
  <2>1. exporter' \in {"ready", "waiting", "dead"} /\ exporter' # "waiting"
    BY <1>6 DEF PlaneCrash, ExportInv, TypeOK
  <2> QED
    BY <1>6, <2>1, PlaneEndsInv DEF PlaneCrash
<1>7. CASE PlaneStart
  <2>1. /\ TypeOK /\ SenderInv /\ DeliveryInv /\ PublishInv
        /\ UNCHANGED <<stage, emit, queue, exported, exporter, tables, disk, req, published>>
        /\ up' = TRUE
    BY <1>7 DEF PlaneStart, agent, ExportInv
  <2>2. /\ Request' = Request
        /\ \A r \in Requests : Current(r)' = Current(r)
    BY <2>1 DEF Request, Current
  <2> QED
    BY <2>1, <2>2 DEF ExportInv, TypeOK, SenderInv, DeliveryInv, PublishInv
<1>8. CASE CommitElsewhere
  <2>1. /\ TypeOK /\ SenderInv /\ DeliveryInv /\ PublishInv
        /\ UNCHANGED <<stage, emit, queue, exported, exporter, up, tables, req, published>>
        /\ disk' = tables
    BY <1>8 DEF CommitElsewhere, agent, ExportInv
  <2>2. /\ Request' = Request
        /\ \A r \in Requests : Current(r)' = Current(r)
    BY <2>1 DEF Request, Current
  <2>3. TypeOK' /\ SenderInv' /\ PublishInv'
    BY <2>1, <2>2 DEF TypeOK, SenderInv, PublishInv
  <2>4. DeliveryInv'
    BY <2>1 DEF DeliveryInv
  <2> QED
    BY <2>3, <2>4 DEF ExportInv
<1> QED
  BY <1>1, <1>2, <1>3, <1>4, <1>5, <1>6, <1>7, <1>8 DEF Next

\* The invariant holds in every reachable state.
THEOREM ExportInvariance == Spec => []ExportInv
<1> QED
  BY InitInv, NextInv, PTL DEF Spec

\* Every variable stays in its domain, for any numbers of threads and events.
THEOREM ExportTypeCorrect == Spec => []TypeOK
<1>1. ExportInv => TypeOK
  BY DEF ExportInv
<1> QED
  BY <1>1, ExportInvariance, PTL

\* An event the agent holds no more is on the plane's disk, whatever crashes,
\* time-outs and overlapping requests there are (mark_exported).
THEOREM NothingExportedIsLost == Spec => []ExportedIsDurable
<1>1. ExportInv => ExportedIsDurable
  BY DEF ExportInv, DeliveryInv, ExportedIsDurable
<1> QED
  BY <1>1, ExportInvariance, PTL

\* A running plane publishes an event once, however many requests carry it
\* (ingest_events_batch).
THEOREM PublicationIsIdempotent == Spec => []PublishedOnce
<1>1. ExportInv => PublishedOnce
  BY DEF ExportInv, PublishInv, PublishedOnce
<1> QED
  BY <1>1, ExportInvariance, PTL

-----------------------------------------------------------------------------
(* The sinks and the queue *)

\* The domains of the agent's variables, and what the sinks hold.
LEMMA AgentTypes ==
  ASSUME TypeOK
  PROVE  /\ \A w \in Writers : emit[w].pc # "idle" =>
              /\ emit[w].event[1] \in Executions
              /\ emit[w].event[2] \in 1..MaxStage
              /\ emit[w].event = <<emit[w].event[1], emit[w].event[2]>>
         /\ Len(queue) \in Nat /\ DOMAIN queue = 1..Len(queue)
         /\ \A i \in DOMAIN queue :
              /\ queue[i].event[1] \in Executions
              /\ queue[i].event[2] \in 1..MaxStage
              /\ queue[i].event = <<queue[i].event[1], queue[i].event[2]>>
              /\ queue[i].event \in Events
              /\ queue[i].status \in 1..MaxStage
<1>1. \A w \in Writers : emit[w].pc # "idle" => emit[w].event \in Events
  BY DEF TypeOK
<1>2. queue \in Seq(Entry)
  BY DEF TypeOK
<1>3. Len(queue) \in Nat /\ DOMAIN queue = 1..Len(queue)
  BY <1>2
<1>4. \A i \in DOMAIN queue : queue[i].event \in Events /\ queue[i].status \in 1..MaxStage
  <2>1. \A i \in DOMAIN queue : queue[i] \in Entry
    BY <1>2
  <2> QED
    BY <2>1 DEF Entry
<1>5. \A ev \in Events : /\ ev[1] \in Executions /\ ev[2] \in 1..MaxStage
                         /\ ev = <<ev[1], ev[2]>>
  BY DEF Events
<1>6. \A i \in DOMAIN queue :
        /\ queue[i].event[1] \in Executions
        /\ queue[i].event[2] \in 1..MaxStage
        /\ queue[i].event = <<queue[i].event[1], queue[i].event[2]>>
  BY <1>4, <1>5, Zenon
<1>7. \A w \in Writers : emit[w].pc # "idle" =>
        /\ emit[w].event[1] \in Executions
        /\ emit[w].event[2] \in 1..MaxStage
        /\ emit[w].event = <<emit[w].event[1], emit[w].event[2]>>
  BY <1>1, <1>5, Zenon
<1> QED
  BY <1>3, <1>4, <1>6, <1>7, Zenon

\* The pending rows and the inserting sinks are finitely many.
LEMMA FiniteRows ==
  ASSUME TypeOK
  PROVE  /\ IsFiniteSet(Pending) /\ Cardinality(Pending) \in Nat
         /\ IsFiniteSet(Inserting) /\ Cardinality(Inserting) \in Nat
         /\ Cardinality(Inserting) <= Cardinality(Writers)
         /\ Cardinality(Writers) \in Nat
<1>1. Len(queue) \in Nat /\ Pending \subseteq 1..Len(queue)
  BY AgentTypes DEF Pending
<1>2. IsFiniteSet(1..Len(queue))
  BY <1>1, FS_Interval
<1>3. IsFiniteSet(Pending) /\ Cardinality(Pending) \in Nat
  BY <1>1, <1>2, FS_Subset, FS_CardinalityType
<1>4. Inserting \subseteq Writers /\ IsFiniteSet(Writers)
  BY ExportAssumption DEF Inserting
<1> QED
  BY <1>3, <1>4, FS_Subset, FS_CardinalityType

\* With no new row and no new inserting sink there is as much room as before.
LEMMA RoomKept ==
  ASSUME TypeOK, RoomInv,
         Pending' \subseteq Pending, Inserting' \subseteq Inserting
  PROVE  RoomInv'
<1>1. /\ IsFiniteSet(Pending) /\ Cardinality(Pending) \in Nat
      /\ IsFiniteSet(Inserting) /\ Cardinality(Inserting) \in Nat
      /\ Cardinality(Writers) \in Nat
  BY FiniteRows
<1>2. /\ Cardinality(Pending') \in Nat /\ Cardinality(Pending') <= Cardinality(Pending)
      /\ Cardinality(Inserting') \in Nat /\ Cardinality(Inserting') <= Cardinality(Inserting)
  BY <1>1, FS_Subset, FS_CardinalityType
<1>3. /\ Cardinality(Pending)' = Cardinality(Pending')
      /\ Cardinality(Inserting)' = Cardinality(Inserting')
      /\ Cardinality(Writers)' = Cardinality(Writers)
  OBVIOUS
<1> QED
  BY <1>1, <1>2, <1>3, ExportAssumption DEF RoomInv

\* A sink that finds room joins those that will insert.
LEMMA RoomCountPending ==
  ASSUME TypeOK, RoomInv, NEW w \in Writers, CountPending(w)
  PROVE  RoomInv'
<1>1. /\ emit \in [Writers -> [pc : {"idle", "read", "room", "insert"},
                              event : Events \cup {<<>>}, status : 0..MaxStage]]
      /\ emit[w].pc = "room"
      /\ UNCHANGED <<queue, exported>>
      /\ emit' = [emit EXCEPT ![w] = IF Cardinality(Pending) >= MaxPending
                                     THEN NotEmitting ELSE [emit[w] EXCEPT !.pc = "insert"]]
  BY DEF CountPending, TypeOK
<1>2. Pending' = Pending
  BY <1>1 DEF Pending
<1>3. CASE Cardinality(Pending) >= MaxPending
  <2>1. Inserting' \subseteq Inserting
    BY <1>1, <1>3 DEF Inserting, NotEmitting
  <2> QED
    BY <1>2, <2>1, RoomKept
<1>4. CASE ~ Cardinality(Pending) >= MaxPending
  <2>1. Inserting' \subseteq Writers /\ IsFiniteSet(Writers)
    BY ExportAssumption DEF Inserting
  <2>2. /\ Cardinality(Inserting') \in Nat
        /\ Cardinality(Inserting') <= Cardinality(Writers)
    BY <2>1, FS_Subset, FS_CardinalityType
  <2>3. /\ Cardinality(Pending) \in Nat /\ Cardinality(Pending)' = Cardinality(Pending)
        /\ Cardinality(Inserting)' = Cardinality(Inserting')
        /\ Cardinality(Writers) \in Nat
    BY <1>2, FiniteRows
  <2> QED
    BY <1>4, <2>2, <2>3, ExportAssumption DEF RoomInv
<1> QED
  BY <1>3, <1>4

\* The row of a sink takes the place that was kept for it.
LEMMA RoomInsertQueue ==
  ASSUME TypeOK, RoomInv, NEW w \in Writers, InsertQueue(w)
  PROVE  RoomInv'
<1>1. /\ emit \in [Writers -> [pc : {"idle", "read", "room", "insert"},
                              event : Events \cup {<<>>}, status : 0..MaxStage]]
      /\ emit[w].pc = "insert"
      /\ UNCHANGED exported
      /\ queue' = Append(queue, [event |-> emit[w].event, status |-> emit[w].status])
      /\ emit' = [emit EXCEPT ![w] = NotEmitting]
      /\ queue \in Seq(Entry)
  BY DEF InsertQueue, TypeOK
<1>2. /\ Cardinality(Pending) \in Nat /\ IsFiniteSet(Pending)
      /\ Cardinality(Inserting) \in Nat /\ IsFiniteSet(Inserting)
      /\ Cardinality(Writers) \in Nat
  BY FiniteRows
<1>3. Inserting' = Inserting \ {w} /\ w \in Inserting
  BY <1>1 DEF Inserting, NotEmitting
<1>4. Cardinality(Inserting') = Cardinality(Inserting) - 1
  BY <1>2, <1>3, FS_RemoveElement
<1>5. Pending' \subseteq Pending \cup {Len(queue) + 1}
  <2>1. ASSUME NEW i \in Pending' PROVE i \in Pending \cup {Len(queue) + 1}
    <3>1. i \in 1..(Len(queue) + 1) /\ queue'[i].event \notin exported
      BY <1>1, <2>1 DEF Pending
    <3>2. CASE i \in 1..Len(queue)
      BY <1>1, <3>1, <3>2 DEF Pending
    <3> QED
      BY <1>1, <3>1, <3>2
  <2> QED
    BY <2>1
<1>6. /\ IsFiniteSet(Pending \cup {Len(queue) + 1})
      /\ Cardinality(Pending \cup {Len(queue) + 1}) \in
           {Cardinality(Pending), Cardinality(Pending) + 1}
  BY <1>2, FS_AddElement
<1>7. /\ Cardinality(Pending') \in Nat
      /\ Cardinality(Pending') <= Cardinality(Pending) + 1
  <2>1. /\ Cardinality(Pending') <= Cardinality(Pending \cup {Len(queue) + 1})
        /\ Cardinality(Pending') \in Nat
    BY <1>5, <1>6, FS_Subset, FS_CardinalityType
  <2> QED
    BY <1>2, <1>6, <2>1
<1>8. /\ Cardinality(Pending)' = Cardinality(Pending')
      /\ Cardinality(Inserting)' = Cardinality(Inserting')
  OBVIOUS
<1> QED
  BY <1>2, <1>4, <1>7, <1>8, ExportAssumption DEF RoomInv

\* What a step does to the agent: the sinks and the response that is waited for
\* are the only ones to touch what is pending.
LEMMA PlaneFrame ==
  ASSUME NEW r \in Requests, FlushOnce(r) \/ Handle(r)
  PROVE  /\ UNCHANGED <<stage, emit, queue, abandoned, crashes, up>>
         /\ exported \subseteq exported'
<1> USE DEF agent
<1>1. CASE FlushOnce(r)
  BY <1>1 DEF FlushOnce
<1>2. CASE CheckDuplicate(r) \/ NextStreamSeq(r) \/ InsertEvent(r) \/ ReadProjection(r)
  BY <1>2 DEF CheckDuplicate, NextStreamSeq, InsertEvent, ReadProjection
<1>3. CASE WriteProjection(r) \/ Publish(r) \/ CommitBatch(r) \/ MarkExported(r)
  BY <1>3 DEF WriteProjection, Publish, CommitBatch, MarkExported
<1> QED
  BY <1>1, <1>2, <1>3 DEF Handle

\* Every step leaves as much room as the limit and the sinks at work allow.
LEMMA RoomNext ==
  ASSUME TypeOK, RoomInv, [Next]_vars
  PROVE  RoomInv'
<1>1. ASSUME UNCHANGED queue, exported \subseteq exported', Inserting' \subseteq Inserting
      PROVE  RoomInv'
  <2>1. Pending' \subseteq Pending
    BY <1>1 DEF Pending
  <2> QED
    BY <1>1, <2>1, RoomKept
<1>2. ASSUME UNCHANGED <<queue, emit>>, exported \subseteq exported'
      PROVE  RoomInv'
  BY <1>1, <1>2 DEF Inserting
<1>3. ASSUME NEW w \in Writers, Sink(w)
      PROVE  RoomInv'
  <2>1. CASE ReadRow(w)
    <3>1. Inserting' \subseteq Inserting
      BY <2>1 DEF ReadRow, Inserting, TypeOK
    <3> QED
      BY <1>1, <2>1, <3>1 DEF ReadRow
  <2> QED
    BY <1>3, <2>1, RoomCountPending, RoomInsertQueue DEF Sink
<1>4. ASSUME NEW w \in Writers, NEW x \in Executions, Advance(w, x)
      PROVE  RoomInv'
  <2>1. Inserting' \subseteq Inserting
    BY <1>4 DEF Advance, Inserting, TypeOK
  <2> QED
    BY <1>1, <1>4, <2>1 DEF Advance
<1>5. ASSUME NEW r \in Requests, FlushOnce(r) \/ Handle(r)
      PROVE  RoomInv'
  BY <1>2, <1>5, PlaneFrame
<1>6. CASE Timeout \/ AgentRestart
  <2>1. UNCHANGED <<queue, exported>> /\ emit' \in {emit, [w \in Writers |-> NotEmitting]}
    BY <1>6 DEF Timeout, AgentRestart, Abandon
  <2>2. Inserting' \subseteq Inserting
    BY <2>1 DEF Inserting, NotEmitting
  <2> QED
    BY <1>1, <2>1, <2>2
<1>7. CASE PlaneStop \/ PlaneCrash \/ PlaneStart \/ CommitElsewhere \/ UNCHANGED vars
  BY <1>2, <1>7 DEF CommitElsewhere, PlaneStop, PlaneCrash, PlaneStart, PlaneEnds, agent, vars
<1> QED
  BY <1>3, <1>4, <1>5, <1>6, <1>7 DEF Next

\* An execution has one owner, or none of this applies.
LEMMA SoleOwnerIsOne ==
  ASSUME NEW x \in SoleOwner, NEW w \in Writers, w \in Owners[x]
  PROVE  Owners[x] = {w}
<1>1. IsFiniteSet(Owners[x]) /\ Cardinality(Owners[x]) = 1
  BY ExportAssumption, FS_Subset DEF SoleOwner
<1>2. PICK v : Owners[x] = {v}
  BY <1>1, FS_Singleton
<1> QED
  BY <1>2

\* What QueueOrderInv says of one execution: its rows, and the sink that holds
\* an event of it.
RowsOrdered(x) ==
  \A i \in RowsOf(x) :
    /\ queue[i].event[2] <= stage[x]
    /\ queue[i].status = queue[i].event[2]
    /\ \A j \in RowsOf(x) : i < j => queue[i].event[2] < queue[j].event[2]

EmitOrdered(w, x) ==
  /\ Owners[x] = {w}
  /\ emit[w].event[2] = stage[x]
  /\ emit[w].pc # "read" => emit[w].status = stage[x]
  /\ \A i \in RowsOf(x) : queue[i].event[2] < stage[x]

LEMMA QueueOrderParts ==
  QueueOrderInv <=>
    \A x \in SoleOwner :
      /\ RowsOrdered(x)
      /\ \A w \in Writers : emit[w].pc # "idle" /\ emit[w].event[1] = x => EmitOrdered(w, x)
BY DEF QueueOrderInv, RowsOrdered, EmitOrdered

\* The owner of an execution moves it on: its event is later than all its rows.
LEMMA OrderAdvance ==
  ASSUME TypeOK, QueueOrderInv, NEW w \in Writers, NEW y \in Executions, Advance(w, y)
  PROVE  QueueOrderInv'
<1>1. /\ w \in Owners[y] /\ emit[w].pc = "idle"
      /\ UNCHANGED queue
      /\ stage'[y] = stage[y] + 1
      /\ \A x \in Executions \ {y} : stage'[x] = stage[x]
      /\ emit'[w] = [pc |-> "read", event |-> <<y, stage[y] + 1>>, status |-> 0]
      /\ \A v \in Writers \ {w} : emit'[v] = emit[v]
      /\ stage[y] \in Nat
  BY DEF Advance, TypeOK
<1>2. ASSUME NEW x \in SoleOwner
      PROVE  /\ RowsOrdered(x)'
             /\ \A v \in Writers : emit'[v].pc # "idle" /\ emit'[v].event[1] = x
                                     => EmitOrdered(v, x)'
  <2>1. /\ RowsOrdered(x)
        /\ \A v \in Writers : emit[v].pc # "idle" /\ emit[v].event[1] = x => EmitOrdered(v, x)
        /\ x \in Executions /\ stage[x] \in Nat
        /\ RowsOf(x)' = RowsOf(x)
    BY <1>1, QueueOrderParts DEF SoleOwner, TypeOK, RowsOf
  <2>2. \A i \in RowsOf(x) : queue[i].event[2] \in 1..MaxStage
    BY AgentTypes DEF RowsOf
  <2>3. stage'[x] >= stage[x] /\ stage'[x] \in Nat
    BY <1>1, <2>1
  <2>4. RowsOrdered(x)'
    <3>1. \A i \in RowsOf(x) : queue[i].event[2] <= stage'[x]
      BY <2>1, <2>2, <2>3, ExportAssumption DEF RowsOrdered
    <3> QED
      BY <1>1, <2>1, <3>1 DEF RowsOrdered
  <2>5. ASSUME NEW v \in Writers, emit'[v].pc # "idle", emit'[v].event[1] = x
        PROVE  EmitOrdered(v, x)'
    <3>1. CASE x = y
      <4>1. Owners[x] = {w}
        BY <1>1, <3>1, SoleOwnerIsOne
      <4>2. v = w
        BY <1>1, <2>1, <2>5, <4>1 DEF EmitOrdered
      <4>3. \A i \in RowsOf(x) : queue[i].event[2] < stage'[x]
        BY <1>1, <2>1, <2>2, <3>1, ExportAssumption DEF RowsOrdered
      <4> QED
        BY <1>1, <2>1, <3>1, <4>1, <4>2, <4>3 DEF EmitOrdered
    <3>2. CASE x # y
      <4>1. v # w /\ emit'[v] = emit[v] /\ stage'[x] = stage[x]
        BY <1>1, <2>1, <2>5, <3>2
      <4> QED
        BY <1>1, <2>1, <2>5, <4>1 DEF EmitOrdered
    <3> QED
      BY <3>1, <3>2
  <2> QED
    BY <2>4, <2>5
<1> QED
  BY <1>2 DEF QueueOrderInv, RowsOrdered, EmitOrdered

\* No row is added, and a sink at work holds what it held.
LEMMA OrderKept ==
  ASSUME QueueOrderInv, UNCHANGED <<queue, stage>>,
         NEW w \in Writers,
         \A v \in Writers \ {w} : emit'[v] = emit[v],
         emit'[w].pc # "idle" =>
           /\ emit[w].pc # "idle"
           /\ emit'[w].event = emit[w].event
           /\ emit'[w].pc # "read" => \/ emit'[w].status = stage[emit[w].event[1]]
                                     \/ /\ emit[w].pc # "read"
                                        /\ emit'[w].status = emit[w].status
  PROVE  QueueOrderInv'
<1>1. ASSUME NEW x \in SoleOwner
      PROVE  /\ RowsOrdered(x)'
             /\ \A v \in Writers : emit'[v].pc # "idle" /\ emit'[v].event[1] = x
                                     => EmitOrdered(v, x)'
  <2>1. /\ RowsOrdered(x)
        /\ \A v \in Writers : emit[v].pc # "idle" /\ emit[v].event[1] = x => EmitOrdered(v, x)
        /\ RowsOf(x)' = RowsOf(x)
    BY QueueOrderParts DEF RowsOf
  <2>2. RowsOrdered(x)'
    BY <2>1 DEF RowsOrdered
  <2>3. ASSUME NEW v \in Writers, emit'[v].pc # "idle", emit'[v].event[1] = x
        PROVE  EmitOrdered(v, x)'
    <3>1. EmitOrdered(v, x)
      BY <2>1, <2>3
    <3>2. /\ emit'[v].event[2] = emit[v].event[2]
          /\ emit'[v].pc # "read" => emit'[v].status = stage[x]
      BY <2>3, <3>1 DEF EmitOrdered
    <3> QED
      BY <2>1, <3>1, <3>2 DEF EmitOrdered
  <2> QED
    BY <2>2, <2>3
<1> QED
  BY <1>1 DEF QueueOrderInv, RowsOrdered, EmitOrdered

\* The row a sink inserts is the last one of its execution, in its order too.
LEMMA OrderInsertQueue ==
  ASSUME TypeOK, QueueOrderInv, NEW w \in Writers, InsertQueue(w)
  PROVE  QueueOrderInv'
<1> DEFINE n == Len(queue) + 1
<1>1. /\ emit[w].pc = "insert"
      /\ UNCHANGED stage
      /\ emit'[w].pc = "idle"
      /\ \A v \in Writers \ {w} : emit'[v] = emit[v]
  BY DEF InsertQueue, TypeOK, NotEmitting
<1>2. /\ Len(queue) \in Nat /\ DOMAIN queue = 1..Len(queue) /\ DOMAIN queue' = 1..n
      /\ \A i \in DOMAIN queue : queue'[i] = queue[i]
      /\ queue'[n].event = emit[w].event /\ queue'[n].status = emit[w].status
  BY DEF InsertQueue, TypeOK
<1>3. ASSUME NEW x \in SoleOwner
      PROVE  /\ RowsOrdered(x)'
             /\ \A v \in Writers : emit'[v].pc # "idle" /\ emit'[v].event[1] = x
                                     => EmitOrdered(v, x)'
  <2>1. /\ RowsOrdered(x)
        /\ \A v \in Writers : emit[v].pc # "idle" /\ emit[v].event[1] = x => EmitOrdered(v, x)
        /\ stage[x] \in Nat
    BY QueueOrderParts DEF TypeOK, SoleOwner
  <2>2. \A i \in RowsOf(x) : queue[i].event[2] \in Nat /\ i \in 1..Len(queue)
    BY <1>2, AgentTypes DEF RowsOf
  <2>3. CASE emit[w].event[1] = x
    <3>1. /\ Owners[x] = {w} /\ emit[w].event[2] = stage[x] /\ emit[w].status = stage[x]
          /\ \A i \in RowsOf(x) : queue[i].event[2] < stage[x]
      BY <1>1, <2>1, <2>3 DEF EmitOrdered
    <3>2. RowsOf(x)' = RowsOf(x) \cup {n}
      BY <1>2, <2>3 DEF RowsOf
    <3>3. RowsOrdered(x)'
      <4>1. ASSUME NEW i \in RowsOf(x) \cup {n}
            PROVE  /\ queue'[i].event[2] <= stage[x]
                   /\ queue'[i].status = queue'[i].event[2]
        BY <1>2, <2>1, <2>2, <3>1 DEF RowsOrdered
      <4>2. ASSUME NEW i \in RowsOf(x) \cup {n}, NEW j \in RowsOf(x) \cup {n}, i < j
            PROVE  queue'[i].event[2] < queue'[j].event[2]
        <5>1. i \in RowsOf(x) /\ queue'[i] = queue[i]
          BY <1>2, <2>2, <4>2
        <5>2. CASE j \in RowsOf(x)
          BY <1>2, <2>1, <2>2, <4>2, <5>1, <5>2 DEF RowsOrdered
        <5>3. CASE j = n
          BY <1>2, <3>1, <5>1, <5>3
        <5> QED
          BY <5>2, <5>3
      <4> QED
        BY <1>1, <3>2, <4>1, <4>2 DEF RowsOrdered
    <3>4. ASSUME NEW v \in Writers, emit'[v].pc # "idle", emit'[v].event[1] = x
          PROVE  FALSE
      <4>1. v # w /\ emit[v].pc # "idle" /\ emit[v].event[1] = x
        BY <1>1, <3>4
      <4> QED
        BY <2>1, <3>1, <4>1 DEF EmitOrdered
    <3> QED
      BY <3>3, <3>4
  <2>4. CASE emit[w].event[1] # x
    <3>1. RowsOf(x)' = RowsOf(x)
      BY <1>2, <2>4 DEF RowsOf
    <3>2. \A i \in RowsOf(x) : queue'[i] = queue[i]
      BY <1>2, <2>2
    <3>3. RowsOrdered(x)'
      BY <1>1, <2>1, <3>1, <3>2 DEF RowsOrdered
    <3>4. ASSUME NEW v \in Writers, emit'[v].pc # "idle", emit'[v].event[1] = x
          PROVE  EmitOrdered(v, x)'
      BY <1>1, <2>1, <3>1, <3>2, <3>4 DEF EmitOrdered
    <3> QED
      BY <3>3, <3>4
  <2> QED
    BY <2>3, <2>4
<1> QED
  BY <1>3 DEF QueueOrderInv, RowsOrdered, EmitOrdered

\* Every step keeps the queue in the order of the ledger.
LEMMA QueueOrderNext ==
  ASSUME TypeOK, QueueOrderInv, [Next]_vars
  PROVE  QueueOrderInv'
<1>1. ASSUME UNCHANGED <<queue, stage, emit>>
      PROVE  QueueOrderInv'
  BY <1>1 DEF QueueOrderInv, RowsOf
<1>2. ASSUME NEW w \in Writers, Sink(w)
      PROVE  QueueOrderInv'
  <2>1. CASE ReadRow(w)
    <3>1. /\ UNCHANGED <<queue, stage>> /\ emit[w].pc = "read"
          /\ \A v \in Writers \ {w} : emit'[v] = emit[v]
      BY <2>1 DEF ReadRow, TypeOK
    <3>2. emit'[w] = [emit[w] EXCEPT !.pc = "room", !.status = stage[emit[w].event[1]]]
      BY <2>1 DEF ReadRow, TypeOK
    <3>3. /\ emit[w] \in [pc : {"idle", "read", "room", "insert"},
                           event : Events \cup {<<>>}, status : 0..MaxStage]
      BY DEF TypeOK
    <3>4. emit'[w].event = emit[w].event /\ emit'[w].status = stage[emit[w].event[1]]
      BY <3>2, <3>3
    <3> QED
      BY <3>1, <3>4, OrderKept
  <2>2. CASE CountPending(w)
    <3>1. /\ UNCHANGED <<queue, stage>> /\ emit[w].pc = "room"
          /\ \A v \in Writers \ {w} : emit'[v] = emit[v]
          /\ emit'[w] \in {NotEmitting, [emit[w] EXCEPT !.pc = "insert"]}
      BY <2>2 DEF CountPending, TypeOK
    <3>2. /\ emit[w] \in [pc : {"idle", "read", "room", "insert"},
                           event : Events \cup {<<>>}, status : 0..MaxStage]
      BY DEF TypeOK
    <3>3. emit'[w].pc # "idle" => emit'[w].event = emit[w].event /\ emit'[w].status = emit[w].status
      BY <3>1, <3>2 DEF NotEmitting
    <3> QED
      BY <3>1, <3>3, OrderKept
  <2> QED
    BY <1>2, <2>1, <2>2, OrderInsertQueue DEF Sink
<1>3. ASSUME NEW w \in Writers, NEW x \in Executions, Advance(w, x)
      PROVE  QueueOrderInv'
  BY <1>3, OrderAdvance
<1>4. ASSUME NEW r \in Requests, FlushOnce(r) \/ Handle(r)
      PROVE  QueueOrderInv'
  BY <1>1, <1>4, PlaneFrame
<1>5. CASE Timeout
  BY <1>1, <1>5 DEF Timeout, Abandon
<1>6. CASE AgentRestart
  <2>1. UNCHANGED <<queue, stage>> /\ \A w \in Writers : emit'[w].pc = "idle"
    BY <1>6 DEF AgentRestart, Abandon, NotEmitting
  <2> QED
    BY <2>1 DEF QueueOrderInv, RowsOf
<1>7. CASE PlaneStop \/ PlaneCrash \/ PlaneStart \/ CommitElsewhere \/ UNCHANGED vars
  BY <1>1, <1>7 DEF CommitElsewhere, PlaneStop, PlaneCrash, PlaneStart, PlaneEnds, agent, vars
<1> QED
  BY <1>2, <1>3, <1>4, <1>5, <1>6, <1>7 DEF Next

\* Only a request inserts events, and it takes them from the queue.
LEMMA IngestedNext ==
  ASSUME ExportInv, IngestedInv, [Next]_vars
  PROVE  IngestedInv'
<1>0. TypeOK /\ DeliveryInv
  BY DEF ExportInv
<1>1. ASSUME tables'.ingested \subseteq tables.ingested,
             \A i \in DOMAIN queue : i \in DOMAIN queue' /\ queue'[i] = queue[i]
      PROVE  IngestedInv'
  BY <1>1 DEF IngestedInv, Queued
<1>2. ASSUME NEW w \in Writers, Sink(w) \/ \E x \in Executions : Advance(w, x)
      PROVE  IngestedInv'
  <2>1. UNCHANGED tables
    BY <1>2 DEF Sink, ReadRow, CountPending, InsertQueue, Advance, plane
  <2>2. queue \in Seq(Entry)
    BY <1>0 DEF TypeOK
  <2>3. \A i \in DOMAIN queue : i \in DOMAIN queue' /\ queue'[i] = queue[i]
    <3>1. CASE InsertQueue(w)
      BY <2>2, <3>1 DEF InsertQueue
    <3>2. CASE UNCHANGED queue
      BY <3>2
    <3> QED
      BY <1>2, <3>1, <3>2 DEF Sink, ReadRow, CountPending, Advance
  <2> QED
    BY <1>1, <2>1, <2>3
<1>3. ASSUME NEW r \in Requests, InsertEvent(r)
      PROVE  IngestedInv'
  <2>1. UNCHANGED queue /\ req[r].pc = "insert"
    BY <1>3 DEF InsertEvent, agent
  <2>2. req[r].row \in DOMAIN queue
    BY <1>0, <2>1, CurrentIsEvent
  <2>3. tables'.ingested \subseteq tables.ingested \cup {Current(r).event}
    BY <1>0, <1>3 DEF InsertEvent, TypeOK, Tables
  <2> QED
    BY <2>1, <2>2, <2>3 DEF IngestedInv, Queued, Current
<1>4. ASSUME NEW r \in Requests, WriteProjection(r)
      PROVE  IngestedInv'
  <2>1. UNCHANGED queue /\ tables'.ingested = tables.ingested
    BY <1>0, <1>4 DEF WriteProjection, agent, TypeOK, Tables
  <2> QED
    BY <1>1, <2>1
<1>5. ASSUME NEW r \in Requests,
             FlushOnce(r) \/ CheckDuplicate(r) \/ NextStreamSeq(r) \/ ReadProjection(r)
             \/ Publish(r) \/ CommitBatch(r) \/ MarkExported(r)
      PROVE  IngestedInv'
  BY <1>1, <1>5 DEF FlushOnce, CheckDuplicate, NextStreamSeq, ReadProjection, Publish,
     CommitBatch, MarkExported, agent
<1>6. CASE Timeout \/ AgentRestart \/ CommitElsewhere \/ PlaneStart \/ UNCHANGED vars
  BY <1>1, <1>6
  DEF Timeout, AgentRestart, Abandon, CommitElsewhere, PlaneStart, agent, plane, vars
<1>7. CASE PlaneStop \/ PlaneCrash
  <2>1. UNCHANGED queue /\ tables' = disk
    BY <1>7 DEF PlaneStop, PlaneCrash, PlaneEnds, agent
  <2> QED
    BY <1>0, <1>1, <2>1 DEF DeliveryInv
<1> QED
  BY <1>2, <1>3, <1>4, <1>5, <1>6, <1>7 DEF Next, Handle

-----------------------------------------------------------------------------
(* The requests, as long as no sender gave up *)

\* While no sender gave up, one request at most is at work.
LEMMA AloneAtWork ==
  ASSUME ExportInv, SerialInv, NEW r \in Requests, req[r].pc # "free"
  PROVE  \A s \in Requests \ {r} : req[s].pc = "free"
BY DEF ExportInv, SenderInv, SerialInv, Serial

\* What the one request at work does leaves the others free.
LEMMA SerialKept ==
  ASSUME NEW r \in Requests,
         \A s \in Requests \ {r} : req'[s] = req[s] /\ req[s].pc = "free",
         req'[r].pc # "free" => Serial(r)'
  PROVE  SerialInv'
BY DEF SerialInv

\* A step that leaves the tables and the queue alone, whether it commits or not.
LEMMA ProjectionKept ==
  ASSUME TypeOK, ProjectionInv, UNCHANGED <<queue, tables>>, disk' \in {disk, tables},
         \A r \in Requests :
           /\ req'[r].accepted \subseteq req[r].accepted
           /\ req'[r].pc = "respond" => req[r].pc = "respond" \/ disk' = tables,
         \A ev \in exported' :
           ev \in exported \/ \E r \in Requests : req[r].pc = "respond" /\ ev \in req[r].accepted
  PROVE  ProjectionInv'
<1>1. ASSUME NEW x \in SoleOwner
      PROVE  /\ InOrder(tables, x)' /\ InOrder(disk, x)'
             /\ disk'.status[x] <= tables'.status[x]
             /\ Shown(x)'
  <2>1. /\ InOrder(tables, x) /\ InOrder(disk, x)
        /\ disk.status[x] <= tables.status[x]
        /\ Shown(x)
    BY DEF ProjectionInv
  <2>2. /\ tables.status[x] \in 0..MaxStage /\ disk.status[x] \in 0..MaxStage
        /\ MaxStage \in Nat
    BY ExportAssumption DEF TypeOK, Tables, SoleOwner
  <2>3. InOrder(tables, x)' /\ InOrder(disk, x)'
    BY <2>1 DEF InOrder, RowsOf
  <2>4. /\ disk'.status[x] \in {disk.status[x], tables.status[x]}
        /\ disk.status[x] <= disk'.status[x] /\ disk'.status[x] <= tables.status[x]
    BY <2>1, <2>2
  <2>5. ASSUME NEW n \in 1..MaxStage, <<x, n>> \in exported'
        PROVE  disk'.status[x] >= n
    <3>1. disk.status[x] >= n
      BY <2>1, <2>5 DEF Shown
    <3> QED
      BY <2>2, <2>4, <3>1
  <2>6. ASSUME NEW n \in 1..MaxStage, NEW r \in Requests, <<x, n>> \in req'[r].accepted
        PROVE  /\ tables'.status[x] >= n
               /\ req'[r].pc = "respond" => disk'.status[x] >= n
    <3>1. /\ tables.status[x] >= n
          /\ req[r].pc = "respond" => disk.status[x] >= n
      BY <2>1, <2>6 DEF Shown
    <3> QED
      BY <2>2, <2>4, <3>1
  <2> QED
    BY <2>3, <2>4, <2>5, <2>6 DEF Shown
<1> QED
  BY <1>1 DEF ProjectionInv

\* The next event of the batch is taken up, or was there before.
LEMMA SerialCheckDuplicate ==
  ASSUME ExportInv, SerialInv, ProjectionInv, NEW r \in Requests, CheckDuplicate(r)
  PROVE  SerialInv' /\ ProjectionInv'
<1>1. TypeOK
  BY DEF ExportInv
<1>2. PICK i \in req[r].todo :
        /\ \A j \in req[r].todo : i <= j
        /\ req'[r] = IF queue[i].event \in tables.ingested
                     THEN After(r, i) ELSE [req[r] EXCEPT !.pc = "seq", !.row = i]
  BY <1>1 DEF CheckDuplicate, TypeOK
<1>3. /\ UNCHANGED <<queue, tables, disk>>
      /\ exported' = exported
      /\ req[r].pc = "check" /\ req[r] \in Request
      /\ \A s \in Requests \ {r} : req'[s] = req[s]
  BY <1>1 DEF CheckDuplicate, agent, TypeOK
<1>4. \A s \in Requests \ {r} : req[s].pc = "free"
  BY <1>3, AloneAtWork
<1>5. Serial(r)
  BY <1>3 DEF SerialInv
<1>6. Serial(r)'
  <2>1. CASE queue[i].event \in tables.ingested
    <3>1. req'[r].todo = req[r].todo \ {i} /\ req'[r].waited = req[r].waited
      BY <1>2, <1>3, <2>1 DEF After, Request
    <3>2. req'[r].pc \in {"check", "commit"}
      BY <1>2, <1>3, <2>1 DEF After, Request
    <3>3. \A k \in req'[r].todo : \A j \in 1..(k - 1) :
            j \notin req'[r].todo => queue[j].event \in tables.ingested
      BY <1>5, <2>1, <3>1 DEF Serial
    <3> QED
      BY <1>3, <1>5, <3>1, <3>2, <3>3 DEF Serial, InHand, Projecting, Applying
  <2>2. CASE queue[i].event \notin tables.ingested
    <3>1. /\ req'[r].todo = req[r].todo /\ req'[r].waited = req[r].waited
          /\ req'[r].pc = "seq" /\ req'[r].row = i
      BY <1>2, <1>3, <2>2 DEF Request
    <3>2. Current(r)' = queue[i]
      BY <1>3, <3>1 DEF Current
    <3> QED
      BY <1>2, <1>3, <1>5, <2>2, <3>1, <3>2 DEF Serial, Projecting
  <2> QED
    BY <2>1, <2>2
<1>7. SerialInv'
  BY <1>3, <1>4, <1>6, SerialKept
<1>8. ProjectionInv'
  <2>1. req'[r].accepted = req[r].accepted /\ req'[r].pc # "respond"
    BY <1>2, <1>3 DEF After, Request
  <2> QED
    BY <1>1, <1>3, <2>1, ProjectionKept
<1> QED
  BY <1>7, <1>8

\* A commit before the INSERT, or after the loop.
LEMMA SerialCommits ==
  ASSUME ExportInv, SerialInv, ProjectionInv, NEW r \in Requests,
         NextStreamSeq(r) \/ CommitBatch(r)
  PROVE  SerialInv' /\ ProjectionInv'
<1>1. TypeOK
  BY DEF ExportInv
<1>2. /\ UNCHANGED <<queue, tables, exported>> /\ disk' = tables
      /\ \/ req[r].pc = "seq" /\ req' = [req EXCEPT ![r].pc = "insert"]
         \/ req[r].pc = "commit" /\ req' = [req EXCEPT ![r].pc = "respond"]
      /\ req[r] \in Request
      /\ \A s \in Requests \ {r} : req'[s] = req[s]
  BY <1>1 DEF NextStreamSeq, CommitBatch, agent, TypeOK
<1>3. \A s \in Requests \ {r} : req[s].pc = "free"
  BY <1>2, AloneAtWork
<1>4. /\ req'[r].todo = req[r].todo /\ req'[r].waited = req[r].waited
      /\ req'[r].row = req[r].row /\ req'[r].accepted = req[r].accepted
      /\ \/ req[r].pc = "seq" /\ req'[r].pc = "insert"
         \/ req[r].pc = "commit" /\ req'[r].pc = "respond"
  BY <1>1, <1>2 DEF Request, TypeOK
<1>5. Serial(r)
  BY <1>2 DEF SerialInv
<1>6. Serial(r)'
  <2>1. Current(r)' = Current(r)
    BY <1>2, <1>4 DEF Current
  <2> QED
    BY <1>2, <1>4, <1>5, <2>1 DEF Serial, InHand, Projecting, Applying
<1>7. SerialInv'
  BY <1>2, <1>3, <1>6, SerialKept
<1>8. ProjectionInv'
  BY <1>1, <1>2, <1>4, ProjectionKept
<1> QED
  BY <1>7, <1>8

\* The event in hand is the oldest of its execution that the tables lack.
LEMMA SerialInsertEvent ==
  ASSUME ExportInv, SerialInv, ProjectionInv, QueueOrderInv, IngestedInv,
         NEW r \in Requests, InsertEvent(r)
  PROVE  SerialInv' /\ ProjectionInv'
<1> DEFINE k == req[r].row
           ev == Current(r).event
<1>1. TypeOK /\ DeliveryInv
  BY DEF ExportInv
<1>2. /\ req[r].pc = "insert" /\ req[r] \in Request
      /\ UNCHANGED <<queue, disk, exported>>
  BY <1>1 DEF InsertEvent, agent, TypeOK
<1>3. Serial(r) /\ ev \notin tables.ingested
  BY <1>2 DEF SerialInv, Serial
<1>4. /\ tables' = [tables EXCEPT !.ingested = @ \cup {ev}]
      /\ req' = [req EXCEPT ![r].pc = "read_row"]
  BY <1>3 DEF InsertEvent
<1>5. /\ tables'.ingested = tables.ingested \cup {ev} /\ tables'.status = tables.status
      /\ tables.status \in [Executions -> 0..MaxStage]
  BY <1>1, <1>4 DEF TypeOK, Tables
<1>6. /\ req'[r].pc = "read_row" /\ req'[r].todo = req[r].todo
      /\ req'[r].waited = req[r].waited /\ req'[r].row = k
      /\ req'[r].accepted = req[r].accepted
      /\ \A s \in Requests \ {r} : req'[s] = req[s]
  BY <1>1, <1>2, <1>4 DEF Request, TypeOK
<1>7. \A s \in Requests \ {r} : req[s].pc = "free"
  BY <1>2, AloneAtWork
<1>8. /\ k \in DOMAIN queue /\ ev = queue[k].event /\ k \in req[r].todo
      /\ Current(r)' = Current(r)
      /\ ev = <<ev[1], ev[2]>> /\ ev[1] \in Executions /\ ev[2] \in 1..MaxStage
  <2>1. k \in DOMAIN queue /\ k \in req[r].todo
    BY <1>1, <1>2, CurrentIsEvent DEF TypeOK
  <2>2. ev = queue[k].event
    BY DEF Current
  <2>3. Current(r)' = Current(r)
    BY <1>2, <1>6 DEF Current
  <2> HIDE DEF ev, k
  <2> QED
    BY <1>1, <2>1, <2>2, <2>3, AgentTypes
<1>9. DOMAIN queue = 1..Len(queue) /\ Len(queue) \in Nat
  BY <1>1, AgentTypes
<1>10. \A j \in 1..(k - 1) : queue[j].event \in tables.ingested
  <2>1. \A j \in 1..(k - 1) : j \notin req[r].todo
    BY <1>2, <1>3, <1>8, <1>9 DEF Serial, InHand
  <2> QED
    BY <1>3, <1>8, <2>1 DEF Serial
<1> HIDE DEF k, ev
<1>11. ev[1] \in SoleOwner => tables.status[ev[1]] <= ev[2]
  <2> DEFINE x == ev[1]
             n == tables.status[x]
  <2>1. SUFFICES ASSUME x \in SoleOwner, n # 0 PROVE n <= ev[2]
    BY <1>5, <1>8, ExportAssumption
  <2>2. InOrder(tables, x)
    BY <2>1 DEF ProjectionInv
  <2>3. <<x, n>> \in tables.ingested
    BY <2>1, <2>2 DEF InOrder
  <2>4. PICK i \in DOMAIN queue : queue[i].event = <<x, n>>
    BY <2>3 DEF IngestedInv, Queued
  <2>5. i \in RowsOf(x) /\ k \in RowsOf(x)
    BY <1>8, <2>4 DEF RowsOf
  <2>6. i # k
    BY <1>3, <1>8, <2>3, <2>4
  <2>7. ~ (k < i)
    <3> HIDE DEF x, n
    <3> QED
      BY <1>3, <1>8, <2>2, <2>3, <2>4, <2>5 DEF InOrder
  <2>8. i < k
    BY <1>8, <1>9, <2>6, <2>7
  <2>9. queue[i].event[2] < queue[k].event[2]
    BY <2>1, <2>5, <2>8 DEF QueueOrderInv
  <2> QED
    BY <1>5, <1>8, <2>4, <2>9, ExportAssumption
<1>12. Serial(r)'
  <2>1. ev = Current(r).event
    BY DEF ev
  <2>2. \A i \in req'[r].todo : \A j \in 1..(i - 1) :
          j \notin req'[r].todo => queue[j].event \in tables'.ingested
    BY <1>3, <1>5, <1>6 DEF Serial
  <2> QED
    BY <1>2, <1>3, <1>5, <1>6, <1>8, <1>11, <2>1, <2>2 DEF Serial, InHand, Projecting, k
<1>13. ProjectionInv'
  <2>1. ASSUME NEW x \in SoleOwner
        PROVE  /\ InOrder(tables, x)' /\ InOrder(disk, x)'
               /\ disk'.status[x] <= tables'.status[x]
               /\ Shown(x)'
    <3>1. /\ InOrder(tables, x) /\ InOrder(disk, x)
          /\ disk.status[x] <= tables.status[x]
          /\ Shown(x)
      BY DEF ProjectionInv
    <3>2. RowsOf(x)' = RowsOf(x) /\ RowsOf(x) \subseteq DOMAIN queue
      BY <1>2 DEF RowsOf
    <3>3. InOrder(disk, x)'
      BY <1>2, <3>1, <3>2 DEF InOrder
    <3>4. InOrder(tables, x)'
      <4>1. tables'.status[x] # 0 => <<x, tables'.status[x]>> \in tables'.ingested
        BY <1>5, <3>1 DEF InOrder
      <4>2. ASSUME NEW i \in RowsOf(x), NEW j \in RowsOf(x), i < j,
                   queue[j].event \in tables'.ingested
            PROVE  queue[i].event \in tables'.ingested
        <5>1. CASE queue[j].event \in tables.ingested
          BY <1>5, <3>1, <4>2, <5>1 DEF InOrder
        <5>2. CASE queue[j].event = ev
          <6>1. j = k
            <7>1. k \in RowsOf(x) /\ queue[j].event[2] = queue[k].event[2]
              BY <1>8, <3>2, <5>2 DEF RowsOf
            <7>2. ~ (j < k) /\ ~ (k < j)
              <8>1. queue[j].event[2] \in Nat
                BY <1>1, <3>2, AgentTypes
              <8> QED
                BY <7>1, <8>1 DEF QueueOrderInv
            <7> QED
              BY <1>8, <1>9, <3>2, <7>2
          <6>2. i \in 1..(k - 1)
            BY <1>8, <1>9, <3>2, <4>2, <6>1
          <6> QED
            BY <1>5, <1>10, <6>2
        <5> QED
          BY <1>5, <4>2, <5>1, <5>2
      <4> QED
        BY <1>2, <3>2, <4>1, <4>2 DEF InOrder
    <3>5. Shown(x)'
      <4>1. \A q \in Requests :
              /\ req'[q].accepted = req[q].accepted
              /\ req'[q].pc = "respond" => req[q].pc = "respond"
        BY <1>6
      <4> QED
        BY <1>2, <1>5, <3>1, <4>1 DEF Shown
    <3> QED
      BY <1>2, <1>5, <3>1, <3>3, <3>4, <3>5
  <2> QED
    BY <2>1 DEF ProjectionInv
<1> QED
  BY <1>6, <1>7, <1>12, <1>13, SerialKept

\* The row of the execution is read: it is as the last request left it.
LEMMA SerialReadProjection ==
  ASSUME ExportInv, SerialInv, ProjectionInv, NEW r \in Requests, ReadProjection(r)
  PROVE  SerialInv' /\ ProjectionInv'
<1>1. TypeOK
  BY DEF ExportInv
<1> DEFINE b == (tables.status[Current(r).event[1]] = 0)
           q == [req[r] EXCEPT !.pc = "write_row", !.fresh = b]
<1>2. /\ UNCHANGED <<queue, tables, disk, exported>>
      /\ req[r].pc = "read_row" /\ req[r] \in Request
      /\ req'[r] = q
      /\ \A s \in Requests \ {r} : req'[s] = req[s]
  BY <1>1 DEF ReadProjection, agent, TypeOK
<1>3. \A s \in Requests \ {r} : req[s].pc = "free"
  BY <1>2, AloneAtWork
<1>4. /\ req'[r].todo = req[r].todo /\ req'[r].waited = req[r].waited
      /\ req'[r].row = req[r].row /\ req'[r].pc = "write_row" /\ req'[r].fresh = b
      /\ req'[r].accepted = req[r].accepted
  <2> HIDE DEF b
  <2> QED
    BY <1>2 DEF Request
<1>5. Serial(r)
  BY <1>2 DEF SerialInv
<1>6. Current(r)' = Current(r)
  BY <1>2, <1>4 DEF Current
<1>7. Serial(r)'
  BY <1>2, <1>4, <1>5, <1>6 DEF Serial, InHand, Projecting, Applying
<1>8. SerialInv'
  BY <1>2, <1>3, <1>7, SerialKept
<1>9. ProjectionInv'
  BY <1>1, <1>2, <1>4, ProjectionKept
<1> QED
  BY <1>8, <1>9

\* The projection is written: a later event of the execution than any before.
LEMMA SerialWriteProjection ==
  ASSUME ExportInv, SerialInv, ProjectionInv, QueueOrderInv,
         NEW r \in Requests, WriteProjection(r)
  PROVE  /\ SerialInv' /\ ProjectionInv'
         /\ \A x \in SoleOwner : tables'.status[x] >= tables.status[x]
<1> DEFINE ev == Current(r).event
           y == ev[1]
<1>1. TypeOK /\ PublishInv
  BY DEF ExportInv
<1>2. /\ req[r].pc = "write_row" /\ req[r] \in Request
      /\ UNCHANGED <<queue, disk, exported>>
  BY <1>1 DEF WriteProjection, agent, TypeOK
<1>3. Serial(r)
  BY <1>2 DEF SerialInv
<1>4. /\ tables' = [tables EXCEPT !.status[y] = ProjectedStatus(Current(r))]
      /\ req' = [req EXCEPT ![r].pc = "publish", ![r].accepted = @ \cup {ev}]
  BY <1>2, <1>3 DEF WriteProjection, Serial
<1>5. /\ req'[r].pc = "publish" /\ req'[r].todo = req[r].todo
      /\ req'[r].waited = req[r].waited /\ req'[r].row = req[r].row
      /\ req'[r].accepted = req[r].accepted \cup {ev}
      /\ \A s \in Requests \ {r} : req'[s] = req[s]
  <2> HIDE DEF ev
  <2> DEFINE q == [req[r] EXCEPT !.pc = "publish", !.accepted = @ \cup {ev}]
  <2>1. req'[r] = q /\ \A s \in Requests \ {r} : req'[s] = req[s]
    BY <1>1, <1>4 DEF TypeOK
  <2>2. /\ q.pc = "publish" /\ q.todo = req[r].todo /\ q.waited = req[r].waited
        /\ q.row = req[r].row /\ q.accepted = req[r].accepted \cup {ev}
    BY <1>2 DEF Request
  <2> HIDE DEF q
  <2> QED
    BY <2>1, <2>2
<1>6. \A s \in Requests \ {r} : req[s].pc = "free"
  BY <1>2, AloneAtWork
<1>7. /\ req[r].row \in DOMAIN queue /\ Current(r) = queue[req[r].row]
      /\ Current(r)' = Current(r)
      /\ ev \in Events /\ ev \in tables.ingested
  BY <1>1, <1>2, <1>5, CurrentIsEvent DEF Current, PublishInv, Applying
<1>8. /\ ev = <<y, ev[2]>> /\ y \in Executions /\ ev[2] \in 1..MaxStage
      /\ Current(r).status \in 1..MaxStage
  BY <1>1, <1>7, AgentTypes
<1>9. y \in SoleOwner => ProjectedStatus(Current(r)) = ev[2]
  BY <1>7 DEF ProjectedStatus, QueueOrderInv, RowsOf
<1> HIDE DEF ev
<1>10. /\ tables'.ingested = tables.ingested
       /\ tables'.status[y] = ProjectedStatus(Current(r))
       /\ \A x \in Executions \ {y} : tables'.status[x] = tables.status[x]
       /\ tables.status \in [Executions -> 0..MaxStage]
  BY <1>1, <1>4, <1>8 DEF TypeOK, Tables
<1>11. y \in SoleOwner => tables.status[y] <= ev[2] /\ tables'.status[y] = ev[2]
  BY <1>2, <1>3, <1>9, <1>10 DEF Serial, Projecting, ev
<1>12. Serial(r)'
  <2>1. \A i \in req'[r].todo : \A j \in 1..(i - 1) :
          j \notin req'[r].todo => queue[j].event \in tables'.ingested
    BY <1>3, <1>5, <1>10 DEF Serial
  <2> QED
    BY <1>2, <1>3, <1>5, <2>1 DEF Serial, InHand, Projecting, Applying
<1>13. SerialInv'
  BY <1>5, <1>6, <1>12, SerialKept
<1>14. ASSUME NEW x \in SoleOwner
       PROVE  /\ InOrder(tables, x)' /\ InOrder(disk, x)'
              /\ disk'.status[x] <= tables'.status[x]
              /\ Shown(x)'
              /\ tables'.status[x] >= tables.status[x]
  <2>1. /\ InOrder(tables, x) /\ InOrder(disk, x) /\ x \in Executions
        /\ disk.status[x] <= tables.status[x]
        /\ Shown(x)
    BY DEF ProjectionInv, SoleOwner
  <2>2. RowsOf(x)' = RowsOf(x)
    BY <1>2 DEF RowsOf
  <2>3. InOrder(disk, x)'
    BY <1>2, <2>1, <2>2 DEF InOrder
  <2>4. /\ tables'.status[x] # 0 => <<x, tables'.status[x]>> \in tables.ingested
        /\ tables'.status[x] >= tables.status[x]
    <3>1. CASE x = y
      BY <1>7, <1>8, <1>10, <1>11, <3>1, ExportAssumption
    <3>2. CASE x # y
      <4>1. tables'.status[x] = tables.status[x] /\ tables.status[x] \in Nat
        BY <1>10, <2>1, <3>2
      <4> QED
        BY <2>1, <4>1 DEF InOrder
    <3> QED
      BY <3>1, <3>2
  <2>5. InOrder(tables, x)'
    BY <1>2, <1>10, <2>1, <2>2, <2>4 DEF InOrder
  <2>6. /\ tables'.status[x] \in Nat /\ tables.status[x] \in Nat /\ disk.status[x] \in Nat
        /\ \A n \in 1..MaxStage : n \in Nat
    <3>1. tables.status[x] \in Nat /\ disk.status[x] \in Nat
      BY <1>1, <2>1, ExportAssumption DEF TypeOK, Tables
    <3>2. tables'.status[x] \in Nat
      BY <1>8, <1>10, <1>11, <2>1, <3>1, ExportAssumption
    <3> QED
      BY <3>1, <3>2, ExportAssumption
  <2>7. Shown(x)'
    <3>1. ASSUME NEW n \in 1..MaxStage, NEW q \in Requests, <<x, n>> \in req'[q].accepted
          PROVE  /\ tables'.status[x] >= n
                 /\ req'[q].pc = "respond" => disk.status[x] >= n
      <4>1. CASE <<x, n>> \in req[q].accepted
        <5>1. /\ tables.status[x] >= n
              /\ req[q].pc = "respond" => disk.status[x] >= n
          BY <2>1, <4>1 DEF Shown
        <5>2. req'[q].pc = "respond" => req[q].pc = "respond"
          BY <1>5
        <5> QED
          BY <2>4, <2>6, <5>1, <5>2
      <4>2. CASE <<x, n>> \notin req[q].accepted
        <5>1. q = r /\ <<x, n>> = ev
          BY <1>5, <3>1, <4>2
        <5>2. x = y /\ n = ev[2]
          BY <5>1
        <5> QED
          BY <1>5, <1>8, <1>11, <5>1, <5>2, ExportAssumption
      <4> QED
        BY <4>1, <4>2
    <3> QED
      BY <1>2, <2>1, <3>1 DEF Shown
  <2> QED
    BY <1>2, <2>1, <2>3, <2>4, <2>5, <2>6, <2>7
<1>15. ProjectionInv'
  BY <1>14 DEF ProjectionInv
<1> QED
  BY <1>13, <1>14, <1>15

\* The published event is done with; a webhook's record may commit it.
LEMMA SerialPublish ==
  ASSUME ExportInv, SerialInv, ProjectionInv, NEW r \in Requests, Publish(r)
  PROVE  SerialInv' /\ ProjectionInv'
<1>1. TypeOK /\ PublishInv
  BY DEF ExportInv
<1>2. /\ UNCHANGED <<queue, tables, exported>> /\ disk' \in {disk, tables}
      /\ req[r].pc = "publish" /\ req[r] \in Request
      /\ req'[r] = After(r, req[r].row)
      /\ \A s \in Requests \ {r} : req'[s] = req[s]
  BY <1>1 DEF Publish, agent, TypeOK
<1>3. \A s \in Requests \ {r} : req[s].pc = "free"
  BY <1>2, AloneAtWork
<1>4. /\ req'[r].todo = req[r].todo \ {req[r].row} /\ req'[r].waited = req[r].waited
      /\ req'[r].pc \in {"check", "commit"} /\ req'[r].accepted = req[r].accepted
  BY <1>2 DEF After, Request
<1>5. Serial(r)
  BY <1>2 DEF SerialInv
<1>6. queue[req[r].row].event \in tables.ingested
  BY <1>1, <1>2 DEF PublishInv, Applying, Current
<1>7. Serial(r)'
  <2>1. \A i \in req'[r].todo : \A j \in 1..(i - 1) :
          j \notin req'[r].todo => queue[j].event \in tables.ingested
    BY <1>4, <1>5, <1>6 DEF Serial
  <2> QED
    BY <1>2, <1>4, <1>5, <2>1 DEF Serial, InHand, Projecting, Applying
<1>8. SerialInv'
  BY <1>2, <1>3, <1>7, SerialKept
<1>9. ProjectionInv'
  BY <1>1, <1>2, <1>4, ProjectionKept
<1> QED
  BY <1>8, <1>9

\* The response is read, and no request is at work.
LEMMA SerialMarkExported ==
  ASSUME ExportInv, SerialInv, ProjectionInv, NEW r \in Requests, MarkExported(r)
  PROVE  SerialInv' /\ ProjectionInv'
<1>1. TypeOK
  BY DEF ExportInv
<1>2. /\ UNCHANGED <<queue, tables, disk>> /\ req[r].pc = "respond"
      /\ req'[r].pc = "free" /\ req'[r].accepted = {}
      /\ exported' \subseteq exported \cup req[r].accepted
      /\ \A s \in Requests \ {r} : req'[s] = req[s]
  BY <1>1 DEF MarkExported, TypeOK, Free
<1>3. \A s \in Requests \ {r} : req[s].pc = "free"
  BY <1>2, AloneAtWork
<1>4. SerialInv'
  BY <1>2, <1>3, SerialKept
<1>5. ProjectionInv'
  BY <1>1, <1>2, ProjectionKept
<1> QED
  BY <1>4, <1>5

\* A batch has with a row every pending row before it (ORDER BY seq LIMIT).
LEMMA BatchIsOldest ==
  ASSUME TypeOK, NEW i \in PendingBatch, NEW j \in Pending, j < i
  PROVE  j \in PendingBatch
<1> DEFINE before(k) == {m \in Pending : m < k}
<1>1. i \in Nat /\ j \in Nat /\ Pending \subseteq Nat /\ IsFiniteSet(Pending)
  BY AgentTypes, FiniteRows DEF PendingBatch, Pending
<1>2. before(j) \subseteq before(i)
  <2>1. ASSUME NEW m \in Pending, m < j PROVE m < i
    BY <1>1, <2>1
  <2> QED
    BY <2>1
<1>3. IsFiniteSet(before(i))
  BY <1>1, FS_Subset
<1>4. /\ Cardinality(before(j)) \in Nat /\ Cardinality(before(i)) \in Nat
      /\ Cardinality(before(j)) <= Cardinality(before(i))
  <2> HIDE DEF before
  <2> QED
    BY <1>2, <1>3, FS_Subset, FS_CardinalityType
<1>5. Cardinality(before(i)) < BatchSize
  BY DEF PendingBatch
<1>6. Cardinality(before(j)) < BatchSize
  <2> HIDE DEF before
  <2> QED
    BY <1>4, <1>5, ExportAssumption
<1> QED
  BY <1>6 DEF PendingBatch

\* A batch is sent when no request is at work.
LEMMA SerialFlushOnce ==
  ASSUME ExportInv, SerialInv, ProjectionInv, NEW r \in Requests, FlushOnce(r)
  PROVE  SerialInv' /\ ProjectionInv'
<1>1. TypeOK /\ DeliveryInv
  BY DEF ExportInv
<1>2. /\ UNCHANGED <<queue, tables, disk, exported>> /\ exporter = "ready"
      /\ req'[r] = [Free EXCEPT !.pc = "check", !.waited = TRUE, !.todo = PendingBatch]
      /\ \A s \in Requests \ {r} : req'[s] = req[s]
  BY <1>1 DEF FlushOnce, agent, TypeOK
<1>3. \A s \in Requests : req[s].pc = "free"
  BY <1>1, <1>2 DEF TypeOK, SerialInv, Serial
<1>4. /\ req'[r].pc = "check" /\ req'[r].waited /\ req'[r].todo = PendingBatch
      /\ req'[r].accepted = {}
  BY <1>2 DEF Free
<1>5. ASSUME NEW i \in PendingBatch, NEW j \in 1..(i - 1), j \notin PendingBatch
      PROVE  queue[j].event \in tables.ingested
  <2>1. i \in 1..Len(queue) /\ Len(queue) \in Nat /\ DOMAIN queue = 1..Len(queue)
    BY <1>1, AgentTypes DEF PendingBatch, Pending
  <2>2. j \in DOMAIN queue /\ j < i
    BY <2>1
  <2>3. j \notin Pending
    BY <1>1, <1>5, <2>2, BatchIsOldest
  <2> QED
    BY <1>1, <2>2, <2>3 DEF Pending, DeliveryInv
<1>6. Serial(r)'
  BY <1>2, <1>4, <1>5 DEF Serial, InHand, Projecting, Applying
<1>7. SerialInv'
  BY <1>2, <1>3, <1>6, SerialKept
<1>8. ProjectionInv'
  BY <1>1, <1>2, <1>4, ProjectionKept
<1> QED
  BY <1>7, <1>8

\* Sinks that leave the queue alone, or add a row that was never ingested.
LEMMA SerialQueueGrows ==
  ASSUME ExportInv, SerialInv, ProjectionInv, UNCHANGED <<tables, disk, req, exported>>,
         Len(queue') \in Nat, DOMAIN queue' = 1..Len(queue'),
         \A i \in DOMAIN queue : i \in DOMAIN queue' /\ queue'[i] = queue[i],
         \A i \in DOMAIN queue' \ DOMAIN queue :
           queue'[i].event[1] \in SoleOwner => queue'[i].event \notin tables.ingested
  PROVE  SerialInv' /\ ProjectionInv'
<1>1. TypeOK /\ DeliveryInv
  BY DEF ExportInv
<1>2. DOMAIN queue = 1..Len(queue) /\ Len(queue) \in Nat
  BY <1>1, AgentTypes
<1>3. ASSUME NEW r \in Requests, req[r].pc # "free"
      PROVE  Serial(r)'
  <2>1. Serial(r) /\ req[r].todo \subseteq DOMAIN queue
    BY <1>1, <1>2, <1>3 DEF SerialInv, TypeOK, Request
  <2>2. \A i \in req[r].todo : \A j \in 1..(i - 1) :
          j \notin req[r].todo => queue'[j].event \in tables.ingested
    BY <1>2, <2>1 DEF Serial
  <2>3. req[r].pc \in {"seq", "insert"} \cup Projecting => Current(r)' = Current(r)
    BY <1>1, CurrentIsEvent DEF Current, Projecting
  <2> QED
    BY <2>1, <2>2, <2>3 DEF Serial, InHand, Projecting
<1>4. ASSUME NEW x \in SoleOwner
      PROVE  /\ InOrder(tables, x)' /\ InOrder(disk, x)'
             /\ disk'.status[x] <= tables'.status[x]
             /\ Shown(x)'
  <2>1. /\ InOrder(tables, x) /\ InOrder(disk, x)
        /\ disk.status[x] <= tables.status[x]
        /\ Shown(x)
    BY DEF ProjectionInv
  <2>2. ASSUME NEW i \in RowsOf(x)', NEW j \in RowsOf(x)', i < j,
               queue'[j].event \in tables.ingested
        PROVE  i \in RowsOf(x) /\ j \in RowsOf(x) /\ queue'[i] = queue[i] /\ queue'[j] = queue[j]
    <3>1. j \in DOMAIN queue
      BY <2>2 DEF RowsOf
    <3>2. i \in DOMAIN queue
      BY <1>2, <2>2, <3>1 DEF RowsOf
    <3> QED
      BY <2>2, <3>1, <3>2 DEF RowsOf
  <2>3. InOrder(tables, x)' /\ InOrder(disk, x)'
    BY <1>1, <2>1, <2>2 DEF InOrder, DeliveryInv
  <2>4. Shown(x)'
    BY <2>1 DEF Shown
  <2> QED
    BY <2>1, <2>3, <2>4
<1> QED
  BY <1>3, <1>4 DEF SerialInv, ProjectionInv

\* Steps of the agent's threads.
LEMMA SerialAgent ==
  ASSUME ExportInv, SerialInv, ProjectionInv, QueueOrderInv, IngestedInv, NEW w \in Writers,
         Sink(w) \/ \E x \in Executions : Advance(w, x)
  PROVE  SerialInv' /\ ProjectionInv'
<1>1. TypeOK
  BY DEF ExportInv
<1>2. UNCHANGED <<tables, disk, req, exported>>
  BY DEF Sink, ReadRow, CountPending, InsertQueue, Advance, plane
<1>3. CASE UNCHANGED queue
  <2>1. DOMAIN queue = 1..Len(queue) /\ Len(queue) \in Nat
    BY <1>1, AgentTypes
  <2> QED
    BY <1>2, <1>3, <2>1, SerialQueueGrows
<1>4. CASE InsertQueue(w)
  <2> DEFINE n == Len(queue) + 1
  <2>1. /\ emit[w].pc = "insert"
        /\ Len(queue) \in Nat /\ DOMAIN queue = 1..Len(queue)
        /\ Len(queue') = n /\ DOMAIN queue' = 1..n
        /\ \A i \in DOMAIN queue : queue'[i] = queue[i]
        /\ queue'[n].event = emit[w].event
    BY <1>1, <1>4 DEF InsertQueue, TypeOK
  <2>2. emit[w].event[1] \in SoleOwner => emit[w].event \notin tables.ingested
    <3>1. SUFFICES ASSUME emit[w].event[1] \in SoleOwner,
                          NEW i \in DOMAIN queue, queue[i].event = emit[w].event
                   PROVE  FALSE
      BY DEF IngestedInv, Queued
    <3>2. /\ queue[i].event[2] < stage[emit[w].event[1]]
          /\ emit[w].event[2] = stage[emit[w].event[1]]
      BY <2>1, <3>1 DEF QueueOrderInv, RowsOf
    <3>3. emit[w].event[2] \in 1..MaxStage
      BY <1>1, <2>1, AgentTypes
    <3> QED
      BY <3>1, <3>2, <3>3, ExportAssumption
  <2>3. \A i \in DOMAIN queue' \ DOMAIN queue : i = n
    BY <2>1
  <2> QED
    BY <1>2, <2>1, <2>2, <2>3, SerialQueueGrows
<1> QED
  BY <1>3, <1>4 DEF Sink, ReadRow, CountPending, Advance

\* The agent starts again when it waits for nothing: no request is at work.
LEMMA SerialAgentRestart ==
  ASSUME ExportInv, SerialInv, ProjectionInv, abandoned = 0, abandoned' = 0, Abandon
  PROVE  SerialInv' /\ ProjectionInv'
<1>1. TypeOK
  BY DEF ExportInv
<1>2. UNCHANGED <<queue, tables, disk, exported>> /\ exporter # "waiting"
  BY DEF Abandon
<1>3. \A r \in Requests : req[r].pc = "free"
  BY <1>1, <1>2 DEF TypeOK, SerialInv, Serial
<1>4. \A r \in Requests : req'[r].pc = req[r].pc /\ req'[r].accepted = req[r].accepted
  <2>1. \A r \in Requests : req[r] \in Request
    BY <1>1 DEF TypeOK
  <2> QED
    BY <2>1 DEF Abandon, Request
<1>5. SerialInv'
  BY <1>3, <1>4 DEF SerialInv
<1>6. ProjectionInv'
  BY <1>1, <1>2, <1>4, ProjectionKept
<1> QED
  BY <1>5, <1>6

\* A commit by another handler: what is in memory stays as it is.
LEMMA SerialCommitElsewhere ==
  ASSUME ExportInv, SerialInv, ProjectionInv, CommitElsewhere
  PROVE  SerialInv' /\ ProjectionInv'
<1>1. TypeOK
  BY DEF ExportInv
<1>2. UNCHANGED <<queue, tables, req, exported>> /\ disk' = tables
  BY DEF CommitElsewhere, agent
<1>3. SerialInv'
  BY <1>2 DEF SerialInv, Serial, Current, SoleOwner
<1>4. ProjectionInv'
  BY <1>1, <1>2, ProjectionKept
<1> QED
  BY <1>3, <1>4

\* The plane starts again from what is on disk, with no request.
LEMMA SerialPlaneEnds ==
  ASSUME TypeOK, ProjectionInv, PlaneEnds
  PROVE  SerialInv' /\ ProjectionInv'
<1>1. /\ UNCHANGED <<queue, disk, exported>> /\ tables' = disk
      /\ \A r \in Requests : req'[r].pc = "free" /\ req'[r].accepted = {}
  BY DEF PlaneEnds, agent, Free
<1>2. ASSUME NEW x \in SoleOwner
      PROVE  /\ InOrder(tables, x)' /\ InOrder(disk, x)'
             /\ disk'.status[x] <= tables'.status[x]
             /\ Shown(x)'
  <2>1. InOrder(disk, x) /\ Shown(x)
    BY DEF ProjectionInv
  <2>2. RowsOf(x)' = RowsOf(x)
    BY <1>1 DEF RowsOf
  <2>3. disk.status[x] \in Nat
    BY ExportAssumption DEF TypeOK, Tables, SoleOwner
  <2>4. Shown(x)'
    BY <1>1, <2>1 DEF Shown
  <2> QED
    BY <1>1, <2>1, <2>2, <2>3, <2>4 DEF InOrder
<1> QED
  BY <1>1, <1>2 DEF SerialInv, ProjectionInv

\* As long as no sender gave up, every step of the plane keeps its tables in the
\* order of the queue, and shows no earlier status while it runs.
LEMMA SerialNext ==
  ASSUME PipelineInv, abandoned = 0, [Next]_vars
  PROVE  /\ abandoned' = 0 => SerialInv' /\ ProjectionInv'
         /\ \A x \in SoleOwner : up' => tables'.status[x] >= tables.status[x]
<1>1. /\ ExportInv /\ QueueOrderInv /\ IngestedInv /\ SerialInv /\ ProjectionInv
      /\ TypeOK
  BY DEF PipelineInv, ExportInv
<1>2. \A x \in SoleOwner : tables.status[x] \in 0..MaxStage
  BY <1>1 DEF TypeOK, Tables, SoleOwner
<1>3. ASSUME tables'.status = tables.status
      PROVE  \A x \in SoleOwner : up' => tables'.status[x] >= tables.status[x]
  BY <1>2, <1>3, ExportAssumption
<1>4. ASSUME NEW w \in Writers, Sink(w) \/ \E x \in Executions : Advance(w, x)
      PROVE  SerialInv' /\ ProjectionInv' /\ tables' = tables
  <2>1. tables' = tables
    BY <1>4 DEF Sink, ReadRow, CountPending, InsertQueue, Advance, plane
  <2> QED
    BY <1>1, <1>4, <2>1, SerialAgent
<1>5. ASSUME NEW r \in Requests, WriteProjection(r)
      PROVE  /\ SerialInv' /\ ProjectionInv'
             /\ \A x \in SoleOwner : tables'.status[x] >= tables.status[x]
  BY <1>1, <1>5, SerialWriteProjection
<1>6. ASSUME NEW r \in Requests, InsertEvent(r)
      PROVE  SerialInv' /\ ProjectionInv' /\ tables'.status = tables.status
  <2>1. tables'.status = tables.status
    BY <1>1, <1>6 DEF InsertEvent, TypeOK, Tables
  <2> QED
    BY <1>1, <1>6, <2>1, SerialInsertEvent
<1>7. ASSUME NEW r \in Requests,
             FlushOnce(r) \/ CheckDuplicate(r) \/ NextStreamSeq(r) \/ ReadProjection(r)
             \/ Publish(r) \/ CommitBatch(r) \/ MarkExported(r)
      PROVE  SerialInv' /\ ProjectionInv' /\ tables' = tables
  <2>1. tables' = tables
    BY <1>7 DEF FlushOnce, CheckDuplicate, NextStreamSeq, ReadProjection, Publish,
       CommitBatch, MarkExported
  <2> QED
    BY <1>1, <1>7, <2>1, SerialFlushOnce, SerialCheckDuplicate, SerialCommits,
       SerialReadProjection, SerialPublish, SerialMarkExported
<1>8. CASE Timeout \/ AgentRestart
  <2>1. Abandon /\ tables' = tables
    BY <1>8 DEF Timeout, AgentRestart, Abandon
  <2> QED
    BY <1>1, <1>3, <2>1, SerialAgentRestart
<1>9. CASE PlaneStop \/ PlaneCrash
  <2>1. PlaneEnds /\ ~ up'
    BY <1>9 DEF PlaneStop, PlaneCrash, PlaneEnds
  <2> QED
    BY <1>1, <2>1, SerialPlaneEnds
<1>10. CASE PlaneStart \/ UNCHANGED vars
  <2>1. UNCHANGED <<queue, tables, disk, req, exported>>
    BY <1>10 DEF PlaneStart, vars, agent, plane
  <2>2. \A i \in DOMAIN queue : i \in DOMAIN queue' /\ queue'[i] = queue[i]
    BY <2>1
  <2>3. Len(queue') \in Nat /\ DOMAIN queue' = 1..Len(queue') /\ DOMAIN queue' \ DOMAIN queue = {}
    BY <1>1, <2>1, AgentTypes
  <2> QED
    BY <1>1, <1>3, <2>1, <2>2, <2>3, SerialQueueGrows
<1>11. CASE CommitElsewhere
  <2>1. tables' = tables
    BY <1>11 DEF CommitElsewhere
  <2> QED
    BY <1>1, <1>3, <1>11, <2>1, SerialCommitElsewhere
<1> QED
  BY <1>3, <1>4, <1>5, <1>6, <1>7, <1>8, <1>9, <1>10, <1>11 DEF Next, Handle

\* The initial state satisfies the invariant.
LEMMA InitPipeline == Init => PipelineInv
<1> SUFFICES ASSUME Init PROVE PipelineInv
  OBVIOUS
<1>1. ExportInv
  BY InitInv
<1>2. RoomInv
  <2>1. Pending = {} /\ Inserting = {}
    BY DEF Init, Pending, Inserting, NotEmitting
  <2>2. Cardinality(Writers) \in Nat \ {0}
    BY ExportAssumption, FS_EmptySet, FS_CardinalityType
  <2> QED
    BY <2>1, <2>2, FS_EmptySet, ExportAssumption DEF RoomInv
<1>3. QueueOrderInv
  BY DEF Init, QueueOrderInv, RowsOf, NotEmitting
<1>4. IngestedInv
  BY DEF Init, IngestedInv, NoTables
<1>5. SerialInv /\ ProjectionInv
  BY DEF Init, SerialInv, ProjectionInv, InOrder, RowsOf, Shown, SoleOwner, NoTables, Free
<1>6. abandoned \in Nat
  BY DEF Init
<1> QED
  BY <1>1, <1>2, <1>3, <1>4, <1>5, <1>6 DEF PipelineInv

\* Every step keeps it.
LEMMA NextPipeline ==
  ASSUME PipelineInv, [Next]_vars
  PROVE  PipelineInv'
<1>1. /\ ExportInv /\ RoomInv /\ QueueOrderInv /\ IngestedInv /\ TypeOK
  BY DEF PipelineInv, ExportInv
<1>2. ExportInv' /\ RoomInv' /\ QueueOrderInv' /\ IngestedInv'
  BY <1>1, NextInv, RoomNext, QueueOrderNext, IngestedNext
<1>3. abandoned' \in Nat /\ (abandoned' = 0 => abandoned = 0)
  <2>1. abandoned' = abandoned \/ abandoned' = abandoned + 1
    BY PlaneFrame DEF Next, vars, Sink, ReadRow, CountPending, InsertQueue, Advance,
       Timeout, AgentRestart, Abandon, CommitElsewhere, PlaneStop, PlaneCrash, PlaneStart,
       PlaneEnds
  <2>2. abandoned \in Nat
    BY DEF PipelineInv
  <2> QED
    BY <2>1, <2>2
<1> QED
  BY <1>2, <1>3, SerialNext DEF PipelineInv

\* PipelineInv holds in every reachable state.
THEOREM PipelineInvariance == Spec => []PipelineInv
<1> QED
  BY InitPipeline, NextPipeline, PTL DEF Spec

\* Threads that enqueue at once overrun max_pending by less than their number
\* (enqueue counts, then inserts).
THEOREM QueueStaysBounded == Spec => []QueueBounded
<1>1. PipelineInv => QueueBounded
  <2>1. TypeOK /\ RoomInv => QueueBounded
    BY FiniteRows, ExportAssumption DEF RoomInv, QueueBounded
  <2> QED
    BY <2>1 DEF PipelineInv, ExportInv
<1> QED
  BY <1>1, PipelineInvariance, PTL

\* What the agent was told is accepted shows on the plane's table of executions
\* (_apply_execution_projection).
THEOREM ExportedStaysVisible == Spec => []ExportedIsVisible
<1>1. PipelineInv => ExportedIsVisible
  <2> SUFFICES ASSUME PipelineInv, abandoned = 0, NEW x \in SoleOwner,
                      NEW n \in 1..MaxStage, <<x, n>> \in exported
               PROVE  tables.status[x] >= n
    BY DEF ExportedIsVisible, Orderly, SoleOwner
  <2>1. ProjectionInv /\ TypeOK
    BY DEF PipelineInv, ExportInv
  <2>2. disk.status[x] >= n /\ disk.status[x] <= tables.status[x]
    BY <2>1 DEF ProjectionInv, Shown
  <2>3. /\ tables.status[x] \in 0..MaxStage /\ disk.status[x] \in 0..MaxStage
        /\ MaxStage \in Nat
    BY <2>1, ExportAssumption DEF TypeOK, Tables, SoleOwner
  <2> QED
    BY <2>2, <2>3
<1> QED
  BY <1>1, PipelineInvariance, PTL

\* A running plane shows no status of an execution and then an earlier one
\* (pending_batch, _apply_execution_projection).
THEOREM NeverThePast == Spec => NeverShowsThePast
<1>1. PipelineInv /\ [Next]_vars =>
        [\A x \in Orderly : up' => tables'.status[x] >= tables.status[x]]_vars
  BY SerialNext DEF Orderly, SoleOwner
<1> QED
  BY <1>1, PipelineInvariance, PTL DEF Spec, NeverShowsThePast
=============================================================================
