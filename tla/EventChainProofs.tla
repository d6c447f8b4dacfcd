--------------------------- MODULE EventChainProofs ---------------------------
(***************************************************************************)
(* ChainInv is an inductive invariant of EventChain, for any threads,      *)
(* executions and bounds; that the events of an execution form one tree,   *)
(* and that those of a single thread are read in order, follow from it.    *)
(***************************************************************************)
EXTENDS EventChainInvariant, FiniteSetTheorems, TLAPS

RowType == [execution : Executions, timestamp : Nat, previous : Nat]
WriterType == [pc : {"idle", "select", "insert"}, execution : Executions \cup {"none"},
               timestamp : Nat, previous : Nat]

\* A thread that appends nothing.
LEMMA IdleFacts ==
  /\ Idle \in WriterType
  /\ Idle.pc = "idle" /\ Idle.previous = 0
BY DEF Idle, WriterType

\* The columns of a writer.
LEMMA WriterColumns ==
  ASSUME NEW r \in WriterType, NEW p, NEW i
  PROVE  /\ [r EXCEPT !.pc = p, !.previous = i]
              = [pc |-> p, execution |-> r.execution, timestamp |-> r.timestamp, previous |-> i]
         /\ r.previous = 0 => [r EXCEPT !.pc = p]
              = [pc |-> p, execution |-> r.execution, timestamp |-> r.timestamp, previous |-> 0]
<1>1. [r EXCEPT !.pc = p, !.previous = i] = [[r EXCEPT !.pc = p] EXCEPT !.previous = i]
  OBVIOUS
<1>2. [r EXCEPT !.pc = p]
        = [pc |-> p, execution |-> r.execution, timestamp |-> r.timestamp, previous |-> r.previous]
  BY DEF WriterType
<1>3. [[pc |-> p, execution |-> r.execution, timestamp |-> r.timestamp,
        previous |-> r.previous] EXCEPT !.previous = i]
        = [pc |-> p, execution |-> r.execution, timestamp |-> r.timestamp, previous |-> i]
  OBVIOUS
<1>4. [[r EXCEPT !.pc = p] EXCEPT !.previous = i]
        = [pc |-> p, execution |-> r.execution, timestamp |-> r.timestamp, previous |-> i]
  BY <1>2, <1>3, Zenon
<1> QED
  BY <1>1, <1>2, <1>4, Zenon

\* An empty table and idle threads.
LEMMA InitChain == Init => ChainInv
<1> SUFFICES ASSUME Init PROVE ChainInv
  OBVIOUS
<1>1. /\ rows = <<>> /\ clock = 1
      /\ \A w \in Writers : writer[w] = Idle
      /\ writer \in [Writers -> WriterType]
  BY IdleFacts DEF Init
<1>2. Len(rows) = 0 /\ DOMAIN rows = {} /\ rows \in Seq(RowType)
  BY <1>1
<1>3. TypeOK
  BY <1>1, <1>2, ChainAssumption, IdleFacts DEF TypeOK
<1>4. ShapeInv
  BY <1>1, <1>2 DEF ShapeInv, RowType, WriterType
<1>5. WriterInv
  BY <1>1, IdleFacts DEF WriterInv
<1>6. TreeInv /\ OrderInv
  BY <1>2 DEF TreeInv, OrderInv, EventsOf
<1> QED
  BY <1>3, <1>4, <1>5, <1>6 DEF ChainInv

\* While the table does not change, neither do the events of an execution.
LEMMA SameRows ==
  ASSUME UNCHANGED rows
  PROVE  \A x : EventsOf(x)' = EventsOf(x) /\ Previous(x)' = Previous(x)
BY DEF EventsOf, Previous

\* A thread comes to another step of append_event, having read what it read.
LEMMA WriterChange ==
  ASSUME ChainInv, NEW w \in Writers, NEW r \in WriterType,
         writer' = [writer EXCEPT ![w] = r], UNCHANGED <<rows, clock>>,
         r.previous \in 0..Len(rows),
         r.pc = "idle" => r = Idle,
         r.pc = "select" => r.previous = 0,
         r.pc # "idle" =>
           /\ r.execution \in Executions /\ w \in Owners[r.execution]
           /\ r.timestamp \in 1..clock
           /\ EventsOf(r.execution) = {} => w = Starter[r.execution]
           /\ Owners[r.execution] = {Starter[r.execution]} =>
                \A i \in EventsOf(r.execution) : rows[i].timestamp <= r.timestamp,
         r.pc = "insert" =>
           \/ r.previous \in EventsOf(r.execution)
           \/ r.previous = 0 /\ EventsOf(r.execution) = {}
  PROVE  ChainInv'
<1>0. writer \in [Writers -> WriterType]
  BY DEF ChainInv, ShapeInv, WriterType
<1>1. /\ writer'[w] = r
      /\ \A v \in Writers : v # w => writer'[v] = writer[v]
      /\ writer' \in [Writers -> WriterType]
  BY <1>0
<1>2. \A x : EventsOf(x)' = EventsOf(x) /\ Previous(x)' = Previous(x)
  BY SameRows
<1>3. TypeOK'
  BY <1>1 DEF ChainInv, TypeOK, WriterType
<1>4. ShapeInv'
  BY <1>1 DEF ChainInv, ShapeInv, WriterType
<1>5. WriterInv'
  <2> SUFFICES ASSUME NEW v \in Writers
               PROVE  LET x == writer'[v].execution IN
                      /\ writer'[v].pc = "idle" => writer'[v] = Idle
                      /\ writer'[v].pc = "select" => writer'[v].previous = 0
                      /\ writer'[v].pc # "idle" =>
                           /\ x \in Executions /\ v \in Owners[x]
                           /\ writer'[v].timestamp \in 1..clock
                           /\ EventsOf(x) = {} => v = Starter[x]
                      /\ writer'[v].pc = "insert" =>
                           \/ writer'[v].previous \in EventsOf(x)
                           \/ writer'[v].previous = 0 /\ EventsOf(x) = {}
    BY DEF WriterInv, EventsOf, Idle
  <2>1. CASE v = w
    BY <1>1, <2>1
  <2>2. CASE v # w
    BY <1>1, <2>2 DEF ChainInv, WriterInv
  <2> QED
    BY <2>1, <2>2
<1>6. TreeInv'
  BY <1>2 DEF ChainInv, TreeInv
<1>7. OrderInv'
  <2> SUFFICES ASSUME NEW x \in Executions, Owners[x] = {Starter[x]}
               PROVE  /\ \A i, j \in EventsOf(x) : i < j => rows[i].timestamp <= rows[j].timestamp
                      /\ \A v \in Writers, i \in EventsOf(x) :
                           writer'[v].pc # "idle" /\ writer'[v].execution = x
                             => rows[i].timestamp <= writer'[v].timestamp
    BY <1>2 DEF OrderInv
  <2>1. \A i, j \in EventsOf(x) : i < j => rows[i].timestamp <= rows[j].timestamp
    BY DEF ChainInv, OrderInv
  <2>2. \A v \in Writers, i \in EventsOf(x) :
          writer'[v].pc # "idle" /\ writer'[v].execution = x
            => rows[i].timestamp <= writer'[v].timestamp
    BY <1>1 DEF ChainInv, OrderInv
  <2> QED
    BY <2>1, <2>2
<1> QED
  BY <1>3, <1>4, <1>5, <1>6, <1>7 DEF ChainInv

\* The time is taken: no event of the execution is later.
LEMMA StampChain ==
  ASSUME ChainInv, NEW w \in Writers, NEW x \in Executions, Stamp(w, x)
  PROVE  ChainInv'
<1> DEFINE r == [pc |-> "select", execution |-> x, timestamp |-> clock, previous |-> 0]
<1>1. /\ writer' = [writer EXCEPT ![w] = r] /\ UNCHANGED <<rows, clock>>
      /\ w \in Owners[x] /\ (EventsOf(x) = {} => w = Starter[x])
  BY DEF Stamp
<1>2. clock \in Nat /\ clock \in 1..clock /\ Len(rows) \in Nat
  BY ChainAssumption DEF ChainInv, TypeOK, ShapeInv
<1>3. r \in WriterType /\ r.previous \in 0..Len(rows)
  BY <1>2 DEF WriterType
<1>4. \A i \in EventsOf(x) : rows[i].timestamp <= clock
  BY <1>2 DEF ChainInv, TypeOK, EventsOf
<1>5. r.pc = "select" /\ r.execution = x /\ r.timestamp = clock /\ r.previous = 0
  OBVIOUS
<1> HIDE DEF r
<1> QED
  BY <1>1, <1>2, <1>3, <1>4, <1>5, WriterChange

\* The predecessor is looked up: it is an event of the execution, or none is.
LEMMA SelectPreviousChain ==
  ASSUME ChainInv, NEW w \in Writers, SelectPrevious(w)
  PROVE  ChainInv'
<1> DEFINE x == writer[w].execution
           r(i) == [pc |-> "insert", execution |-> x,
                    timestamp |-> writer[w].timestamp, previous |-> i]
<1>0. /\ writer \in [Writers -> WriterType] /\ writer[w].pc = "select"
      /\ rows \in Seq(RowType) /\ Len(rows) \in Nat
      /\ UNCHANGED <<rows, clock>>
  <2>1. writer[w].pc = "select" /\ UNCHANGED <<rows, clock>>
    BY DEF SelectPrevious
  <2>2. writer \in [Writers -> WriterType] /\ rows \in Seq(RowType)
    BY DEF ChainInv, ShapeInv, WriterType, RowType
  <2> QED
    BY <2>1, <2>2
<1>1. /\ x \in Executions /\ w \in Owners[x] /\ writer[w].previous = 0
      /\ writer[w].timestamp \in 1..clock /\ writer[w].timestamp \in Nat
      /\ EventsOf(x) = {} => w = Starter[x]
      /\ Owners[x] = {Starter[x]} =>
           \A i \in EventsOf(x) : rows[i].timestamp <= writer[w].timestamp
  BY <1>0 DEF ChainInv, WriterInv, OrderInv, WriterType
<1>2. \E i \in Previous(x) \cup {0} :
        /\ i = 0 => Previous(x) = {}
        /\ writer' = [writer EXCEPT ![w] = r(i)]
  <2>1. CASE \E i \in Previous(x) :
               writer' = [writer EXCEPT ![w] = [@ EXCEPT !.pc = "insert", !.previous = i]]
    <3>1. PICK i \in Previous(x) :
            writer' = [writer EXCEPT ![w] = [@ EXCEPT !.pc = "insert", !.previous = i]]
      BY <2>1
    <3>2. [writer[w] EXCEPT !.pc = "insert", !.previous = i] = r(i)
      BY <1>0, WriterColumns
    <3>3. i # 0
      BY <1>0, <3>1 DEF Previous, EventsOf
    <3> QED
      BY <3>1, <3>2, <3>3
  <2>2. CASE /\ Previous(x) = {}
             /\ writer' = [writer EXCEPT ![w] = [@ EXCEPT !.pc = "insert"]]
    <3>1. [writer[w] EXCEPT !.pc = "insert"] = r(0)
      BY <1>0, <1>1, WriterColumns
    <3> QED
      BY <2>2, <3>1
  <2> QED
    BY <2>1, <2>2 DEF SelectPrevious
<1>3. PICK i \in Previous(x) \cup {0} :
        /\ i = 0 => Previous(x) = {}
        /\ writer' = [writer EXCEPT ![w] = r(i)]
  BY <1>2
<1>4. i \in 0..Len(rows) /\ (i \in EventsOf(x) \/ (i = 0 /\ EventsOf(x) = {}))
  <2>1. Previous(x) \subseteq EventsOf(x) /\ EventsOf(x) \subseteq 1..Len(rows)
    BY <1>0 DEF Previous, EventsOf
  <2>2. Previous(x) = {} => EventsOf(x) = {}
    BY <1>1 DEF ChainInv, TreeInv
  <2> QED
    BY <1>0, <1>3, <2>1, <2>2
<1> DEFINE q == r(i)
<1>5. /\ q \in WriterType
      /\ q.pc = "insert" /\ q.execution = x
      /\ q.timestamp = writer[w].timestamp /\ q.previous = i
  <2>1. i \in Nat
    BY <1>0, <1>4
  <2> QED
    BY <1>1, <2>1 DEF WriterType
<1>6. writer' = [writer EXCEPT ![w] = q]
  BY <1>3
<1> HIDE DEF q
<1> QED
  BY <1>0, <1>1, <1>4, <1>5, <1>6, WriterChange

\* A thread gives up.
LEMMA DieChain ==
  ASSUME ChainInv, NEW w \in Writers, Die(w)
  PROVE  ChainInv'
<1>1. 0 \in 0..Len(rows)
  BY DEF ChainInv, ShapeInv
<1>2. writer' = [writer EXCEPT ![w] = Idle] /\ UNCHANGED <<rows, clock>>
  BY DEF Die
<1> QED
  BY <1>1, <1>2, IdleFacts, WriterChange

\* The clock ticks: nothing is in the future.
LEMMA TickChain ==
  ASSUME ChainInv, Tick
  PROVE  ChainInv'
<1>1. /\ UNCHANGED <<rows, writer>> /\ clock' = clock + 1 /\ clock' \in 1..MaxTime
      /\ 1..clock \subseteq 1..clock'
  BY ChainAssumption DEF Tick, ChainInv, TypeOK
<1>2. \A x : EventsOf(x)' = EventsOf(x) /\ Previous(x)' = Previous(x)
  BY <1>1, SameRows
<1>3. TypeOK'
  BY <1>1 DEF ChainInv, TypeOK
<1>4. WriterInv'
  BY <1>1, <1>2 DEF ChainInv, WriterInv, Idle
<1>5. ShapeInv' /\ TreeInv' /\ OrderInv'
  BY <1>1, <1>2 DEF ChainInv, ShapeInv, TreeInv, OrderInv
<1> QED
  BY <1>3, <1>4, <1>5 DEF ChainInv

\* What the INSERT of one row does to the events of each execution.
LEMMA RowAppended ==
  ASSUME rows \in Seq(RowType), NEW row \in RowType, rows' = Append(rows, row)
  PROVE  LET n == Len(rows) + 1 IN
         /\ rows' \in Seq(RowType) /\ Len(rows') = n
         /\ n \in Nat /\ n \notin DOMAIN rows /\ DOMAIN rows \subseteq Nat
         /\ \A i \in DOMAIN rows : i < n
         /\ DOMAIN rows' = DOMAIN rows \cup {n}
         /\ rows'[n] = row
         /\ \A i \in DOMAIN rows : rows'[i] = rows[i]
         /\ \A x : EventsOf(x)' = EventsOf(x) \cup (IF x = row.execution THEN {n} ELSE {})
<1> DEFINE n == Len(rows) + 1
<1>1. /\ rows' \in Seq(RowType) /\ Len(rows') = n
      /\ n \in Nat /\ n \notin DOMAIN rows /\ DOMAIN rows \subseteq Nat
      /\ \A i \in DOMAIN rows : i < n
      /\ DOMAIN rows' = DOMAIN rows \cup {n}
      /\ rows'[n] = row
      /\ \A i \in DOMAIN rows : rows'[i] = rows[i]
  OBVIOUS
<1> HIDE DEF n
<1>2. \A x : EventsOf(x)' = EventsOf(x) \cup (IF x = row.execution THEN {n} ELSE {})
  BY <1>1 DEF EventsOf
<1> QED
  BY <1>1, <1>2 DEF n

\* The row is inserted.  Others may have inserted since its predecessor was
\* looked up, but not the first event, which only this thread appends.
LEMMA InsertEventChain ==
  ASSUME ChainInv, NEW w \in Writers, InsertEvent(w)
  PROVE  ChainInv'
<1> DEFINE x == writer[w].execution
           n == Len(rows) + 1
           row == [execution |-> x, timestamp |-> writer[w].timestamp,
                   previous |-> writer[w].previous]
<1>0. /\ writer[w].pc = "insert" /\ rows' = Append(rows, row)
      /\ writer' = [writer EXCEPT ![w] = Idle] /\ clock' = clock
  BY DEF InsertEvent
<1>1. rows \in Seq(RowType) /\ writer \in [Writers -> WriterType]
  BY DEF ChainInv, ShapeInv, RowType, WriterType
<1>2. /\ x \in Executions /\ w \in Owners[x]
      /\ writer[w].timestamp \in 1..clock /\ writer[w].timestamp \in Nat
      /\ writer[w].previous \in Nat
      /\ EventsOf(x) = {} => w = Starter[x]
      /\ writer[w].previous \in EventsOf(x) \/ (writer[w].previous = 0 /\ EventsOf(x) = {})
      /\ Owners[x] = {Starter[x]} =>
           \A i \in EventsOf(x) : rows[i].timestamp <= writer[w].timestamp
  BY <1>0, <1>1 DEF ChainInv, WriterInv, OrderInv, WriterType
<1>3. /\ row \in RowType /\ row.execution = x
      /\ row.timestamp = writer[w].timestamp /\ row.previous = writer[w].previous
  BY <1>2 DEF RowType
<1>4. /\ rows' \in Seq(RowType) /\ Len(rows') = n
      /\ n \in Nat /\ n \notin DOMAIN rows /\ DOMAIN rows \subseteq Nat
      /\ \A i \in DOMAIN rows : i < n
      /\ DOMAIN rows' = DOMAIN rows \cup {n}
      /\ rows'[n] = row
      /\ \A i \in DOMAIN rows : rows'[i] = rows[i]
      /\ \A y : EventsOf(y)' = EventsOf(y) \cup (IF y = x THEN {n} ELSE {})
  <2> HIDE DEF row
  <2> QED
    BY <1>0, <1>1, <1>3, RowAppended
<1>5. /\ writer'[w] = Idle /\ writer' \in [Writers -> WriterType]
      /\ \A v \in Writers : v # w => writer'[v] = writer[v]
  BY <1>0, <1>1, IdleFacts
<1>6. \A y : EventsOf(y) \subseteq DOMAIN rows
  BY DEF EventsOf
<1>n. n = Len(rows) + 1 /\ Len(rows) \in Nat
  BY <1>1
<1> HIDE DEF row, n
<1>7. TypeOK'
  <2>1. \A i \in DOMAIN rows' :
          /\ rows'[i].execution \in Executions
          /\ rows'[i].timestamp \in 1..clock
          /\ rows'[i].previous \in 0..(i - 1)
    <3> SUFFICES ASSUME NEW i \in DOMAIN rows'
                 PROVE  /\ rows'[i].execution \in Executions
                        /\ rows'[i].timestamp \in 1..clock
                        /\ rows'[i].previous \in 0..(i - 1)
      OBVIOUS
    <3>1. CASE i \in DOMAIN rows
      BY <1>4, <3>1 DEF ChainInv, TypeOK
    <3>2. CASE i = n
      <4>1. n - 1 = Len(rows) /\ DOMAIN rows = 1..Len(rows)
        BY <1>1, <1>n
      <4>2. writer[w].previous \in 0..Len(rows)
        BY <1>2, <1>6, <1>n, <4>1
      <4>3. rows'[i] = row
        BY <1>4, <3>2
      <4> QED
        BY <1>2, <1>3, <3>2, <4>1, <4>2, <4>3
    <3> QED
      BY <1>4, <3>1, <3>2
  <2>2. \A v \in Writers : writer'[v].previous \in 0..Len(rows')
    BY <1>4, <1>5, <1>n, IdleFacts DEF ChainInv, TypeOK
  <2>3. \A v \in Writers : writer'[v].pc \in {"idle", "select", "insert"}
    BY <1>5 DEF WriterType
  <2> QED
    BY <1>0, <2>1, <2>2, <2>3 DEF ChainInv, TypeOK
<1>8. ShapeInv'
  BY <1>4, <1>5 DEF ShapeInv, RowType, WriterType
<1> DEFINE After(y) == EventsOf(y) \cup (IF y = x THEN {n} ELSE {})
<1>9. WriterInv'
  <2>1. \A v \in Writers : EventsOf(writer[v].execution)' = After(writer'[v].execution)
    <3>1. \A y : After(y) = {i \in DOMAIN rows' : rows'[i].execution = y}
      <4>1. \A y : EventsOf(y)' = {i \in DOMAIN rows' : rows'[i].execution = y}
        BY DEF EventsOf
      <4> QED
        BY <1>4, <4>1
    <3> HIDE DEF After
    <3>2. \A v \in Writers : EventsOf(writer[v].execution)'
                               = {i \in DOMAIN rows' : rows'[i].execution = writer'[v].execution}
      BY DEF EventsOf
    <3> QED
      BY <3>1, <3>2
  <2>2. ASSUME NEW v \in Writers
        PROVE  LET y == writer'[v].execution IN
               /\ writer'[v].pc = "idle" => writer'[v] = Idle
               /\ writer'[v].pc = "select" => writer'[v].previous = 0
               /\ writer'[v].pc # "idle" =>
                    /\ y \in Executions /\ v \in Owners[y]
                    /\ writer'[v].timestamp \in 1..clock'
                    /\ After(y) = {} => v = Starter[y]
               /\ writer'[v].pc = "insert" =>
                    \/ writer'[v].previous \in After(y)
                    \/ writer'[v].previous = 0 /\ After(y) = {}
    <3>1. CASE v = w \/ writer[v].pc = "idle"
      BY <1>5, <3>1, IdleFacts DEF ChainInv, WriterInv
    <3>2. CASE v # w /\ writer[v].pc # "idle"
      <4> DEFINE y == writer[v].execution
      <4>1. /\ y \in Executions /\ v \in Owners[y] /\ writer[v].timestamp \in 1..clock
            /\ writer[v].pc = "select" => writer[v].previous = 0
            /\ EventsOf(y) = {} => v = Starter[y]
            /\ writer[v].pc = "insert" =>
                 \/ writer[v].previous \in EventsOf(y)
                 \/ writer[v].previous = 0 /\ EventsOf(y) = {}
        BY <3>2 DEF ChainInv, WriterInv
      <4>2. y = x => EventsOf(x) # {}
        BY <1>2, <3>2, <4>1
      <4>3. writer'[v] = writer[v]
        BY <1>5, <3>2
      <4> QED
        BY <1>0, <3>2, <4>1, <4>2, <4>3
    <3> QED
      BY <3>1, <3>2
  <2>3. Idle' = Idle
    BY DEF Idle
  <2> HIDE DEF After
  <2> QED
    BY <2>1, <2>2, <2>3 DEF WriterInv
<1>10. TreeInv'
  <2>1. ASSUME NEW y \in Executions, EventsOf(y)' # {}
        PROVE  Previous(y)' # {}
    <3>0. Previous(y)' = {i \in EventsOf(y)' :
             \A j \in EventsOf(y)' \ {i} :
               \/ rows'[j].timestamp < rows'[i].timestamp
               \/ rows'[j].timestamp = rows'[i].timestamp /\ i < j}
      BY DEF Previous
    <3>1. \A i \in DOMAIN rows' : rows'[i].timestamp \in Nat
      <4>1. rows' \in Seq(RowType)
        BY <1>4
      <4>2. \A i \in DOMAIN rows' : rows'[i] \in RowType
        BY <4>1
      <4>3. \A r \in RowType : r.timestamp \in Nat
        BY DEF RowType
      <4> QED
        BY <4>2, <4>3
    <3>2. CASE EventsOf(y) = {}
      BY <1>4, <2>1, <3>0, <3>2
    <3>3. CASE EventsOf(y) # {}
      <4>1. PICK p \in EventsOf(y) :
              \A j \in EventsOf(y) \ {p} :
                \/ rows[j].timestamp < rows[p].timestamp
                \/ rows[j].timestamp = rows[p].timestamp /\ p < j
        BY <3>3 DEF ChainInv, TreeInv, Previous
      <4>2. /\ p < n /\ p \in EventsOf(y)' /\ rows'[p].timestamp \in Nat
            /\ rows'[n].timestamp \in Nat
            /\ \A j \in EventsOf(y) \ {p} :
                 \/ rows'[j].timestamp < rows'[p].timestamp
                 \/ rows'[j].timestamp = rows'[p].timestamp /\ p < j
        BY <1>4, <1>6, <3>1, <4>1
      <4>3. CASE y # x \/ rows'[n].timestamp <= rows'[p].timestamp
        <5>1. p \in Previous(y)'
          BY <1>4, <3>0, <4>2, <4>3
        <5> QED
          BY <5>1
      <4>4. CASE y = x /\ rows'[p].timestamp < rows'[n].timestamp
        <5>1. n \in EventsOf(y)'
          BY <1>4, <4>4
        <5>2. \A j \in EventsOf(y)' \ {n} : rows'[j].timestamp < rows'[n].timestamp
          <6>1. \A j \in EventsOf(y)' \ {n} : j \in EventsOf(y) /\ rows'[j].timestamp \in Nat
            BY <1>4, <1>6, <3>1, <4>4
          <6> QED
            BY <4>2, <4>4, <6>1
        <5>3. n \in Previous(y)'
          BY <3>0, <5>1, <5>2
        <5> QED
          BY <5>3
      <4> QED
        BY <4>2, <4>3, <4>4
    <3> QED
      BY <3>2, <3>3
  <2>2. ASSUME NEW y \in Executions, NEW i \in EventsOf(y)', NEW j \in EventsOf(y)',
               rows'[i].previous = 0, rows'[j].previous = 0
        PROVE  i = j
    <3>1. CASE i \in EventsOf(y) /\ j \in EventsOf(y)
      BY <1>4, <1>6, <2>2, <3>1 DEF ChainInv, TreeInv
    <3>2. CASE i \notin EventsOf(y) \/ j \notin EventsOf(y)
      <4>1. y = x /\ (i = n \/ j = n)
        BY <1>4, <3>2
      <4>2. row.previous = 0
        BY <1>4, <2>2, <4>1
      <4>3. EventsOf(x) = {}
        BY <1>2, <1>3, <1>4, <1>6, <1>1, <4>2
      <4> QED
        BY <1>4, <4>1, <4>3
    <3> QED
      BY <3>1, <3>2
  <2>3. ASSUME NEW y \in Executions, NEW i \in EventsOf(y)'
        PROVE  rows'[i].previous \in EventsOf(y)' \cup {0}
    BY <1>2, <1>3, <1>4, <1>6 DEF ChainInv, TreeInv
  <2> QED
    BY <2>1, <2>2, <2>3 DEF TreeInv
<1>11. OrderInv'
  <2> SUFFICES ASSUME NEW y \in Executions, Owners[y] = {Starter[y]}
               PROVE  /\ \A i, j \in EventsOf(y)' : i < j => rows'[i].timestamp <= rows'[j].timestamp
                      /\ \A v \in Writers, i \in EventsOf(y)' :
                           writer'[v].pc # "idle" /\ writer'[v].execution = y
                             => rows'[i].timestamp <= writer'[v].timestamp
    BY DEF OrderInv
  <2>1. ASSUME NEW i \in EventsOf(y)', NEW j \in EventsOf(y)', i < j
        PROVE  rows'[i].timestamp <= rows'[j].timestamp
    <3>1. CASE i \in EventsOf(y) /\ j \in EventsOf(y)
      BY <1>4, <1>6, <2>1, <3>1 DEF ChainInv, OrderInv
    <3>2. CASE i \in EventsOf(y) /\ j \notin EventsOf(y)
      BY <1>2, <1>3, <1>4, <1>6, <2>1, <3>2
    <3>3. CASE i \notin EventsOf(y)
      <4>1. i = n /\ j \in DOMAIN rows \cup {n}
        BY <1>4, <1>6, <2>1, <3>3
      <4> QED
        BY <1>4, <2>1, <4>1
    <3> QED
      BY <3>1, <3>2, <3>3
  <2>2. ASSUME NEW v \in Writers, NEW i \in EventsOf(y)',
               writer'[v].pc # "idle", writer'[v].execution = y
        PROVE  rows'[i].timestamp <= writer'[v].timestamp
    <3>1. v # w /\ writer'[v] = writer[v]
      BY <1>5, <2>2, IdleFacts
    <3>2. v \in Owners[y]
      BY <2>2, <3>1 DEF ChainInv, WriterInv
    <3>3. i \in EventsOf(y)
      BY <1>2, <1>4, <3>1, <3>2
    <3> QED
      BY <1>4, <1>6, <2>2, <3>1, <3>3 DEF ChainInv, OrderInv
  <2> QED
    BY <2>1, <2>2
<1> QED
  BY <1>7, <1>8, <1>9, <1>10, <1>11 DEF ChainInv

\* Every step of a thread and of the clock keeps the invariant.
LEMMA NextChain ==
  ASSUME ChainInv, [Next]_vars
  PROVE  ChainInv'
<1>1. CASE UNCHANGED vars
  <2>1. UNCHANGED <<rows, clock, writer>>
    BY <1>1 DEF vars
  <2>2. \A x : EventsOf(x)' = EventsOf(x) /\ Previous(x)' = Previous(x)
    BY <2>1, SameRows
  <2>3. WriterInv'
    BY <2>1, <2>2 DEF ChainInv, WriterInv, Idle
  <2>4. TypeOK' /\ ShapeInv'
    BY <2>1 DEF ChainInv, TypeOK, ShapeInv
  <2>5. TreeInv' /\ OrderInv'
    BY <2>1, <2>2 DEF ChainInv, TreeInv, OrderInv
  <2> QED
    BY <2>3, <2>4, <2>5 DEF ChainInv
<1> QED
  BY <1>1, TickChain, StampChain, SelectPreviousChain, InsertEventChain, DieChain DEF Next

\* What an appending thread knows of the rows holds at every statement, for
\* any threads, executions, owners and bounds.
THEOREM ChainInvariance == Spec => []ChainInv
<1>1. Init => ChainInv
  BY InitChain
<1>2. ChainInv /\ [Next]_vars => ChainInv'
  BY NextChain
<1> QED
  BY <1>1, <1>2, PTL DEF Spec

\* Rows and writers stay in their domains, and no row is chained to a later one.
THEOREM ChainTypeCorrect == Spec => []TypeOK
<1>1. ChainInv => TypeOK
  BY DEF ChainInv
<1> QED
  BY <1>1, ChainInvariance, PTL

\* The events of an execution form one tree of their own, however the appends
\* of several threads interleave.
THEOREM OneTreeEver == Spec => []OneTree
<1>1. ASSUME ChainInv, NEW x \in Executions
      PROVE  Cardinality({i \in EventsOf(x) : rows[i].previous = 0}) <= 1
  <2> DEFINE roots == {i \in EventsOf(x) : rows[i].previous = 0}
  <2>1. \A i, j \in roots : i = j
    BY <1>1 DEF ChainInv, TreeInv
  <2> HIDE DEF roots
  <2>2. CASE roots = {}
    <3>1. Cardinality(roots) = 0
      BY <2>2, FS_EmptySet
    <3> QED
      BY <3>1 DEF roots
  <2>3. CASE roots # {}
    <3>1. PICK i \in roots : TRUE
      BY <2>3
    <3>2. roots = {i}
      BY <2>1, <3>1
    <3>3. Cardinality(roots) = 1
      BY <3>2, FS_Singleton
    <3> QED
      BY <3>3 DEF roots
  <2> QED
    BY <2>2, <2>3
<1>2. ASSUME ChainInv, NEW x \in Executions, NEW i \in EventsOf(x)
      PROVE  rows[i].previous \in {j \in EventsOf(x) : j < i} \cup {0}
  <2>1. i \in Nat /\ rows[i].previous \in 0..(i - 1)
    <3>1. i \in DOMAIN rows /\ DOMAIN rows \subseteq Nat
      BY <1>2 DEF ChainInv, ShapeInv, EventsOf
    <3> QED
      BY <1>2, <3>1 DEF ChainInv, TypeOK
  <2>2. rows[i].previous \in EventsOf(x) \cup {0}
    BY <1>2 DEF ChainInv, TreeInv
  <2> QED
    BY <2>1, <2>2
<1>3. ChainInv => OneTree
  BY <1>1, <1>2 DEF OneTree
<1> QED
  BY <1>3, ChainInvariance, PTL

\* The events of an execution that one thread works on are read back in the
\* order in which they happened, and each after the one it is chained to.
THEOREM ReadInOrderEver == Spec => []ReadInOrder
<1>1. ASSUME ChainInv, NEW x \in Executions, Owners[x] = {Starter[x]},
             NEW i \in EventsOf(x), NEW j \in EventsOf(x), i < j
      PROVE  Earlier(i, j)
  <2>1. rows[i].timestamp <= rows[j].timestamp
    BY <1>1 DEF ChainInv, OrderInv
  <2>2. rows[i].timestamp \in Nat /\ rows[j].timestamp \in Nat
    <3>1. i \in DOMAIN rows /\ j \in DOMAIN rows
      BY DEF EventsOf
    <3>2. \A k \in DOMAIN rows : rows[k].timestamp \in 1..clock
      BY <1>1 DEF ChainInv, TypeOK
    <3> QED
      BY <3>1, <3>2
  <2> QED
    BY <1>1, <2>1, <2>2 DEF Earlier
<1>2. ASSUME ChainInv, NEW x \in Executions,
             NEW i \in EventsOf(x), NEW j \in EventsOf(x), rows[j].previous = i
      PROVE  i < j
  <2>1. j \in Nat /\ rows[j].previous \in 0..(j - 1)
    <3>1. j \in DOMAIN rows /\ DOMAIN rows \subseteq Nat
      BY <1>2 DEF ChainInv, ShapeInv, EventsOf
    <3> QED
      BY <1>2, <3>1 DEF ChainInv, TypeOK
  <2> QED
    BY <1>2, <2>1
<1>3. ChainInv => ReadInOrder
  BY <1>1, <1>2 DEF ReadInOrder
<1> QED
  BY <1>3, ChainInvariance, PTL
=============================================================================
