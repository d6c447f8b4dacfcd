-------------------------- MODULE SharedStoreProofs --------------------------
(***************************************************************************)
(* For any number of threads with a connection of their own, any           *)
(* executions and any crashes: StoreInv is an invariant of SharedStore,    *)
(* an approval is consumed once, what callers were told stays true, and    *)
(* the statements implement the atomic decisions of ApprovalDecisions.     *)
(***************************************************************************)
EXTENDS SharedStoreInvariant, TLAPS

Approvals == {"PENDING", "GRANTED", "DENIED", "EXPIRED", "CONSUMED"}

\* The rows that an operation writes are rows of the tables.
LEMMA Domains ==
  /\ \A op \in Operations : StatusTo[op] \in Statuses
  /\ \A op \in Transactions : ApprovalTo[op] \in Approvals
  /\ \A e \in Executions, rows \in Tables, row \in Row : [rows EXCEPT ![e] = row] \in Tables
  /\ \A rows \in Tables, e \in Executions :
       /\ rows[e].approval \in Approvals
       /\ rows[e].status \in Statuses
       /\ rows[e] = [approval |-> rows[e].approval, status |-> rows[e].status]
BY DEF Operations, Transactions, StatusTo, ApprovalTo, Approvals, Tables, Row, Statuses,
       TERMINAL_STATUSES

\* What setting one column of a row gives.
LEMMA Columns ==
  ASSUME NEW row \in Row, NEW x
  PROVE  /\ [row EXCEPT !.approval = x] = [approval |-> x, status |-> row.status]
         /\ [row EXCEPT !.status = x] = [approval |-> row.approval, status |-> x]
BY DEF Row

\* Setting first the approval and then the status, as Decided says.
LEMMA Changes ==
  ASSUME NEW rows \in Tables, NEW e \in Executions, NEW op \in Operations
  PROVE  LET old == IF op \in Transactions
                    THEN [rows EXCEPT ![e].approval = ApprovalTo[op]] ELSE rows
         IN  /\ [old EXCEPT ![e] = [old[e] EXCEPT !.status = StatusTo[op]]]
                  = [rows EXCEPT ![e] = Decided(op, rows[e])]
             /\ old[e].status = rows[e].status
             /\ [rows EXCEPT ![e] = Decided(op, rows[e])] \in Tables
<1>1. rows[e] \in Row /\ Decided(op, rows[e]) \in Row
  BY Domains DEF Tables, Decided, Row, Approvals
<1>2. [rows EXCEPT ![e] = Decided(op, rows[e])] \in Tables
  BY <1>1, Domains
<1>3. CASE op \in Transactions
  <2> DEFINE old == [rows EXCEPT ![e].approval = ApprovalTo[op]]
             mid == [rows[e] EXCEPT !.approval = ApprovalTo[op]]
  <2>1. mid = [approval |-> ApprovalTo[op], status |-> rows[e].status] /\ mid \in Row
    BY <1>1, <1>3, Columns, Domains DEF Row, Approvals
  <2>2. old = [rows EXCEPT ![e] = mid]
    BY DEF Tables
  <2>3. old[e] = mid
    BY <2>2 DEF Tables
  <2>4. [mid EXCEPT !.status = StatusTo[op]] = Decided(op, rows[e])
    BY <1>3, <2>1, Columns DEF Decided
  <2>5. [old EXCEPT ![e] = [mid EXCEPT !.status = StatusTo[op]]]
          = [rows EXCEPT ![e] = Decided(op, rows[e])]
    BY <2>2, <2>4 DEF Tables
  <2>6. QED
    BY <1>2, <1>3, <2>1, <2>3, <2>5
<1>4. CASE op \notin Transactions
  <2>1. [rows[e] EXCEPT !.status = StatusTo[op]] = Decided(op, rows[e])
    BY <1>1, <1>4, Columns DEF Decided
  <2>2. QED
    BY <1>2, <1>4, <2>1
<1>5. QED
  BY <1>3, <1>4

\* The thread whose connection holds the write lock is the only one with a
\* transaction, and the others are not between two statements of one.
LEMMA Alone ==
  ASSUME OwnConnections, TypeOK, \A t \in Threads : ViewInv(t),
         NEW t \in Threads, tx[ConnectionOf[t]] # NoTransaction,
         NEW u \in Threads, u # t
  PROVE  /\ ConnectionOf[u] # ConnectionOf[t]
         /\ tx[ConnectionOf[u]] = NoTransaction
         /\ call[u].pc \in {"idle", "begin", "append_event", "rollback", "run", "update_status"}
         /\ call[u].pc = "begin" => call[u].op # "expire"
         /\ call[u].pc = "append_event" => call[u].op \notin {"grant", "deny", "expire"}
         /\ call[u].pc = "update_status" => call[u].op \notin Transactions
<1>1. /\ ConnectionOf[t] \in Connections
      /\ ConnectionOf[u] \in Connections
      /\ ConnectionOf[u] # ConnectionOf[t]
  BY StoreAssumption DEF OwnConnections
<1>2. tx[ConnectionOf[u]] = NoTransaction
  BY <1>1 DEF TypeOK
<1>3. disk \in Tables /\ disk # NoTransaction
  BY StoreAssumption DEF TypeOK
<1>4. ViewInv(u)
  OBVIOUS
<1>5. call[u].pc \notin {"select", "update_approval"}
  BY <1>2, <1>3, <1>4 DEF ViewInv
<1>6. ASSUME call[u].pc = "update_status", call[u].op \in Transactions
      PROVE  FALSE
  <2>1. call[u].on \in Executions
    BY <1>6 DEF TypeOK
  <2>2. [disk EXCEPT ![call[u].on].approval = ApprovalTo[call[u].op]] \in Tables
    BY <1>3, <1>6, <2>1, Domains DEF Tables, Row, Approvals
  <2>3. QED
    BY <1>2, <1>4, <1>6, <2>2, StoreAssumption DEF ViewInv
<1>7. ASSUME call[u].pc = "commit"
      PROVE  FALSE
  <2>1. call[u].on \in Executions /\ call[u].op \in Operations
    BY <1>7 DEF TypeOK
  <2>2. Decided(call[u].op, disk[call[u].on]) \in Row
    BY <1>3, <2>1, Domains DEF Decided, Row, Approvals
  <2>3. [disk EXCEPT ![call[u].on] = Decided(call[u].op, disk[call[u].on])] \in Tables
    BY <1>3, <2>1, <2>2, Domains
  <2>4. QED
    BY <1>2, <1>4, <1>7, <2>3, StoreAssumption DEF ViewInv
<1>8. /\ call[u].pc = "begin" => call[u].op # "expire"
      /\ call[u].pc = "append_event" => call[u].op \notin {"grant", "deny", "expire"}
  BY <1>4 DEF ViewInv
<1>9. QED
  BY <1>1, <1>2, <1>5, <1>6, <1>7, <1>8 DEF TypeOK

\* What ViewInv says of a thread does not depend on the rows while it has no
\* transaction and is not within one.
LEMMA Outside ==
  ASSUME NEW u \in Threads,
         tx'[ConnectionOf[u]] = NoTransaction,
         call'[u].pc \in {"idle", "begin", "append_event", "rollback", "run", "update_status"},
         call'[u].pc = "begin" => call'[u].op # "expire",
         call'[u].pc = "append_event" => call'[u].op \notin {"grant", "deny", "expire"},
         call'[u].pc = "update_status" => call'[u].op \notin Transactions
  PROVE  ViewInv(u)'
BY DEF ViewInv

LEMMA Initial == Init => StoreInv
BY StoreAssumption DEF Init, StoreInv, TypeOK, RowInv, ViewInv, RunInv, CancelInv, Started,
   ConsumedOnce, AnswersHold, NoCall, Tables, Row, Statuses, TERMINAL_STATUSES, Operations

\* A step of a thread that commits nothing and runs no function preserves the
\* invariant when it preserves what concerns the thread itself.
LEMMA Quiet ==
  ASSUME OwnConnections, StoreInv, NEW t \in Threads, TypeOK',
         UNCHANGED <<disk, told, runs>>,
         \A c \in Connections \ {ConnectionOf[t]} : tx'[c] = tx[c],
         \A u \in Threads \ {t} : call'[u] = call[u],
         call'[t].pc \notin {"append_event", "run"},
         ViewInv(t)'
  PROVE  StoreInv'
<1>1. ASSUME NEW u \in Threads
      PROVE  ViewInv(u)'
  <2>1. CASE u = t
    BY <2>1
  <2>2. CASE u # t
    <3>1. ConnectionOf[u] \in Connections \ {ConnectionOf[t]}
      BY <2>2, StoreAssumption DEF OwnConnections
    <3>2. tx'[ConnectionOf[u]] = tx[ConnectionOf[u]] /\ call'[u] = call[u] /\ disk' = disk
      BY <2>2, <3>1
    <3>3. ViewInv(u)
      BY DEF StoreInv
    <3>4. QED
      BY <3>2, <3>3 DEF ViewInv
  <2>3. QED
    BY <2>1, <2>2
<1>2. ASSUME NEW c \in Connections, tx'[c] # NoTransaction
      PROVE  \E u \in Threads : ConnectionOf[u] = c
  BY <1>2 DEF StoreInv
<1>3. RowInv' /\ ConsumedOnce' /\ AnswersHold'
  BY DEF StoreInv, RowInv, ConsumedOnce, AnswersHold
<1>4. RunInv' /\ CancelInv'
  BY DEF StoreInv, RunInv, CancelInv, Started
<1>5. QED
  BY <1>1, <1>2, <1>3, <1>4 DEF StoreInv

LEMMA CallStep ==
  ASSUME OwnConnections, StoreInv, NEW t \in Threads, NEW e \in Executions,
         NEW op \in {"grant", "deny", "consume", "cancel_waiting", "cancel_approved"},
         Call(t, op, e)
  PROVE  StoreInv'
<1>1. TypeOK /\ ViewInv(t) /\ UNCHANGED <<disk, tx, begun, told, runs>>
  BY DEF StoreInv, Call
<1>2. call' = [call EXCEPT ![t] =
        [pc |-> IF op \in Transactions THEN "begin" ELSE "update_status",
         op |-> op, on |-> e]]
  BY DEF Call
<1>3. TypeOK'
  BY <1>1, <1>2 DEF TypeOK, Operations, Transactions
<1>4. ViewInv(t)'
  <2>1. tx'[ConnectionOf[t]] \in {NoTransaction, disk'}
    BY <1>1 DEF ViewInv, Call
  <2>2. /\ call'[t].pc \in {"begin", "update_status"}
        /\ call'[t].op # "expire"
        /\ call'[t].pc = "update_status" => call'[t].op \notin Transactions
    BY <1>1, <1>2 DEF TypeOK
  <2>3. QED
    BY <2>1, <2>2 DEF ViewInv
<1>5. /\ \A u \in Threads \ {t} : call'[u] = call[u]
      /\ call'[t].pc \notin {"append_event", "run"}
  BY <1>1, <1>2 DEF TypeOK
<1>6. QED
  BY <1>1, <1>3, <1>4, <1>5, Quiet

LEMMA BeginStep ==
  ASSUME OwnConnections, StoreInv, NEW t \in Threads, Begin(t)
  PROVE  StoreInv'
<1> DEFINE c == ConnectionOf[t]
<1>1. TypeOK /\ ViewInv(t) /\ UNCHANGED <<disk, begun, told, runs>> /\ c \in Connections
  BY StoreAssumption DEF StoreInv, Begin
<1>2. CASE InTransaction(c) \/ LockedOut(c)
  <2>1. call' = [call EXCEPT ![t].pc = "rollback"] /\ tx' = tx
    BY <1>2 DEF Begin, Goto
  <2>2. TypeOK'
    BY <1>1, <2>1 DEF TypeOK, Begin
  <2>3. call'[t].pc = "rollback" /\ \A u \in Threads \ {t} : call'[u] = call[u]
    BY <1>1, <2>1 DEF TypeOK
  <2>4. ViewInv(t)'
    BY <2>3 DEF ViewInv
  <2>5. QED
    BY <1>1, <2>1, <2>2, <2>3, <2>4, Quiet
<1>3. CASE ~(InTransaction(c) \/ LockedOut(c))
  <2>1. call' = [call EXCEPT ![t].pc = "select"] /\ tx' = [tx EXCEPT ![c] = disk]
    BY <1>3 DEF Begin, Goto
  <2>2. \A d \in Connections : tx[d] = NoTransaction
    BY <1>3 DEF InTransaction, LockedOut
  <2>3. TypeOK'
    BY <1>1, <1>3, <2>1, <2>2 DEF TypeOK, Begin, InTransaction
  <2>4. /\ call'[t].pc = "select" /\ call'[t].op # "expire" /\ tx'[c] = disk
        /\ \A u \in Threads \ {t} : call'[u] = call[u]
        /\ \A d \in Connections \ {c} : tx'[d] = tx[d]
    BY <1>1, <1>3, <2>1 DEF TypeOK, ViewInv, Begin
  <2>5. ViewInv(t)'
    BY <1>1, <2>4 DEF ViewInv
  <2>6. QED
    BY <1>1, <2>3, <2>4, <2>5, Quiet
<1>4. QED
  BY <1>2, <1>3

LEMMA SelectStep ==
  ASSUME OwnConnections, StoreInv, NEW t \in Threads, Select(t)
  PROVE  StoreInv'
<1> DEFINE c == ConnectionOf[t]
           op == call[t].op
           e == call[t].on
<1>1. /\ TypeOK /\ ViewInv(t) /\ UNCHANGED <<disk, tx, begun, told, runs>> /\ c \in Connections
      /\ call[t].pc = "select" /\ op \in Transactions /\ e \in Executions
  BY StoreAssumption DEF StoreInv, Select, TypeOK
<1>2. tx[c] = disk /\ View(c) = disk /\ op # "expire"
  BY <1>1 DEF ViewInv, View
<1>3. CASE disk[e].approval \notin ApprovalFrom[op]
  <2>1. call' = [call EXCEPT ![t].pc = "rollback"]
    BY <1>2, <1>3 DEF Select, Goto
  <2>2. TypeOK'
    BY <1>1, <2>1 DEF TypeOK
  <2>3. call'[t].pc = "rollback" /\ \A u \in Threads \ {t} : call'[u] = call[u]
    BY <1>1, <2>1 DEF TypeOK
  <2>4. ViewInv(t)'
    BY <2>3 DEF ViewInv
  <2>5. QED
    BY <1>1, <2>2, <2>3, <2>4, Quiet
<1>4. CASE disk[e].approval \in ApprovalFrom[op]
  <2>1. PICK new \in Transactions :
          /\ new = op \/ (op = "grant" /\ new = "expire")
          /\ call' = [call EXCEPT ![t] = [pc |-> "update_approval", op |-> new, on |-> e]]
    BY <1>1, <1>2, <1>4 DEF Select, Transactions
  <2>2. /\ call'[t] = [pc |-> "update_approval", op |-> new, on |-> e]
        /\ \A u \in Threads \ {t} : call'[u] = call[u]
    BY <1>1, <2>1 DEF TypeOK
  <2>3. disk[e].approval = Before(new)
    BY <1>1, <1>2, <1>4, <2>1 DEF Before, ApprovalFrom, Transactions
  <2>4. TypeOK'
    BY <1>1, <2>1 DEF TypeOK, Transactions, Operations
  <2>5. ViewInv(t)'
    BY <1>1, <1>2, <2>2, <2>3 DEF ViewInv
  <2>6. QED
    BY <1>1, <2>2, <2>4, <2>5, Quiet
<1>5. QED
  BY <1>3, <1>4

\* The connection that holds the write lock is never locked out.
LEMMA Holding ==
  ASSUME TypeOK, NEW c \in Connections
  PROVE  /\ View(c) \in Tables
         /\ tx[c] # NoTransaction => ~LockedOut(c) /\ c \notin begun /\ View(c) = tx[c]
         /\ c \in begun \/ LockedOut(c) => tx[c] = NoTransaction
BY DEF TypeOK, View, LockedOut

\* An UPDATE that takes the write lock, and one that does not get it, leave
\* the database with one writer.
LEMMA Written ==
  ASSUME TypeOK, NEW c \in Connections, NEW rows \in Tables, ~LockedOut(c),
         tx' = [tx EXCEPT ![c] = rows], begun' = begun \ {c}
  PROVE  /\ tx' \in [Connections -> Tables \cup {NoTransaction}]
         /\ \A d, f \in Connections :
              tx'[d] # NoTransaction /\ tx'[f] # NoTransaction => d = f
         /\ begun' \subseteq {d \in Connections : tx'[d] = NoTransaction}
         /\ tx'[c] = rows
         /\ \A d \in Connections \ {c} : tx'[d] = tx[d]
BY DEF TypeOK, LockedOut

LEMMA UpdateApprovalStep ==
  ASSUME OwnConnections, StoreInv, NEW t \in Threads, UpdateApproval(t)
  PROVE  StoreInv'
<1> DEFINE c == ConnectionOf[t]
           op == call[t].op
           e == call[t].on
           new == [disk[e] EXCEPT !.approval = ApprovalTo[op]]
<1>1. /\ TypeOK /\ ViewInv(t) /\ UNCHANGED <<disk, told, runs>> /\ c \in Connections
      /\ call[t].pc = "update_approval" /\ op \in Transactions /\ e \in Executions
      /\ op \in Operations
  BY StoreAssumption DEF StoreInv, UpdateApproval, TypeOK
<1>2. /\ tx[c] = disk /\ disk[e].approval = Before(op)
      /\ tx[c] # NoTransaction /\ disk \in Tables
  BY <1>1, StoreAssumption DEF ViewInv, TypeOK
<1>3. ~LockedOut(c) /\ c \notin begun /\ View(c) = disk
  BY <1>1, <1>2, Holding
<1>4. Before(op) \in ApprovalFrom[op]
  BY <1>1 DEF Transactions, Before, ApprovalFrom
<1>5. /\ begun' = begun \ {c}
      /\ tx' = [tx EXCEPT ![c] = [disk EXCEPT ![e] = new]]
      /\ call' = [call EXCEPT ![t].pc = "update_status"]
  BY <1>2, <1>3, <1>4 DEF UpdateApproval, Update, Goto
<1>6. new \in Row /\ [disk EXCEPT ![e] = new] \in Tables
  BY <1>1, <1>2, Domains DEF Tables, Row, Approvals
<1>7. /\ tx' \in [Connections -> Tables \cup {NoTransaction}]
      /\ \A d, f \in Connections :
           tx'[d] # NoTransaction /\ tx'[f] # NoTransaction => d = f
      /\ begun' \subseteq {d \in Connections : tx'[d] = NoTransaction}
      /\ tx'[c] = [disk EXCEPT ![e] = new]
      /\ \A d \in Connections \ {c} : tx'[d] = tx[d]
  BY <1>1, <1>3, <1>5, <1>6, Written
<1>8. /\ call'[t].pc = "update_status" /\ call'[t].op = op /\ call'[t].on = e
      /\ \A u \in Threads \ {t} : call'[u] = call[u]
  BY <1>1, <1>5 DEF TypeOK
<1>9. TypeOK'
  BY <1>1, <1>5, <1>7 DEF TypeOK
<1>10. ViewInv(t)'
  BY <1>1, <1>2, <1>7, <1>8 DEF ViewInv
<1>11. QED
  BY <1>1, <1>7, <1>8, <1>9, <1>10, Quiet

LEMMA UpdateStatusStep ==
  ASSUME OwnConnections, StoreInv, NEW t \in Threads, UpdateStatus(t)
  PROVE  StoreInv'
<1> DEFINE c == ConnectionOf[t]
           op == call[t].op
           e == call[t].on
           rows == View(c)
           new == [rows[e] EXCEPT !.status = StatusTo[op]]
           otherwise == IF op \in Transactions THEN "rollback" ELSE "idle"
<1>1. /\ TypeOK /\ ViewInv(t) /\ UNCHANGED <<disk, told, runs>> /\ c \in Connections
      /\ call[t].pc = "update_status" /\ op \in Operations /\ e \in Executions
      /\ disk \in Tables /\ disk # NoTransaction
  BY StoreAssumption DEF StoreInv, UpdateStatus, TypeOK
<1>2. /\ op \in Transactions =>
           /\ disk[e].approval = Before(op)
           /\ tx[c] = [disk EXCEPT ![e].approval = ApprovalTo[op]]
           /\ tx[c] # NoTransaction
      /\ op \notin Transactions => tx[c] \in {NoTransaction, disk}
  <2>1. op \in Transactions => [disk EXCEPT ![e].approval = ApprovalTo[op]] \in Tables
    BY <1>1, Domains DEF Tables, Row, Approvals
  <2>2. QED
    BY <1>1, <2>1, StoreAssumption DEF ViewInv
<1>3. /\ rows \in Tables
      /\ rows[e].status = disk[e].status
      /\ [rows EXCEPT ![e] = new] = [disk EXCEPT ![e] = Decided(op, disk[e])]
      /\ [rows EXCEPT ![e] = new] \in Tables
      /\ op \notin Transactions => rows = disk
  <2> DEFINE old == IF op \in Transactions
                    THEN [disk EXCEPT ![e].approval = ApprovalTo[op]] ELSE disk
  <2>1. rows = old
    BY <1>2 DEF View
  <2>2. rows \in Tables
    BY <1>1, Holding
  <2>3. /\ [old EXCEPT ![e] = [old[e] EXCEPT !.status = StatusTo[op]]]
             = [disk EXCEPT ![e] = Decided(op, disk[e])]
        /\ old[e].status = disk[e].status
        /\ [disk EXCEPT ![e] = Decided(op, disk[e])] \in Tables
    BY <1>1, Changes
  <2>4. op \notin Transactions => rows = disk
    BY <2>1
  <2> HIDE DEF old, rows
  <2>5. [rows EXCEPT ![e] = [rows[e] EXCEPT !.status = StatusTo[op]]]
          = [disk EXCEPT ![e] = Decided(op, disk[e])]
    BY <2>1, <2>3
  <2>6. QED
    BY <2>1, <2>2, <2>3, <2>4, <2>5
<1>4. CASE /\ ~LockedOut(c) /\ rows[e].status = StatusFrom[op]
           /\ begun' = begun \ {c}
           /\ tx' = [tx EXCEPT ![c] = [rows EXCEPT ![e] = new]]
           /\ Goto(t, "commit")
  <2>1. /\ tx' \in [Connections -> Tables \cup {NoTransaction}]
        /\ \A d, f \in Connections :
             tx'[d] # NoTransaction /\ tx'[f] # NoTransaction => d = f
        /\ begun' \subseteq {d \in Connections : tx'[d] = NoTransaction}
        /\ tx'[c] = [rows EXCEPT ![e] = new]
        /\ \A d \in Connections \ {c} : tx'[d] = tx[d]
    BY <1>1, <1>3, <1>4, Written
  <2>2. call' = [call EXCEPT ![t].pc = "commit"]
    BY <1>4 DEF Goto
  <2>3. /\ call'[t].pc = "commit" /\ call'[t].op = op /\ call'[t].on = e
        /\ \A u \in Threads \ {t} : call'[u] = call[u]
    BY <1>1, <2>2 DEF TypeOK
  <2>4. TypeOK'
    BY <1>1, <2>1, <2>2 DEF TypeOK
  <2>5. ViewInv(t)'
    BY <1>1, <1>2, <1>3, <1>4, <2>1, <2>3, ZenonT(30) DEF ViewInv
  <2>6. QED
    BY <1>1, <2>1, <2>3, <2>4, <2>5, Quiet
<1>5. CASE /\ \/ /\ ~LockedOut(c) /\ begun' = begun \ {c}
                 /\ tx' = [tx EXCEPT ![c] = rows]
              \/ /\ LockedOut(c) \/ c \in begun
                 /\ begun' = begun \cup {c}
                 /\ UNCHANGED tx
           /\ Goto(t, otherwise)
  <2>1. /\ tx' \in [Connections -> Tables \cup {NoTransaction}]
        /\ \A d, f \in Connections :
             tx'[d] # NoTransaction /\ tx'[f] # NoTransaction => d = f
        /\ begun' \subseteq {d \in Connections : tx'[d] = NoTransaction}
        /\ tx'[c] \in {rows, NoTransaction}
        /\ \A d \in Connections \ {c} : tx'[d] = tx[d]
    <3>1. CASE ~LockedOut(c) /\ begun' = begun \ {c} /\ tx' = [tx EXCEPT ![c] = rows]
      BY <1>1, <1>3, <3>1, Written
    <3>2. CASE (LockedOut(c) \/ c \in begun) /\ begun' = begun \cup {c} /\ tx' = tx
      <4>1. tx[c] = NoTransaction
        BY <1>1, <3>2, Holding
      <4>2. QED
        BY <1>1, <3>2, <4>1 DEF TypeOK
    <3>3. QED
      BY <1>5, <3>1, <3>2
  <2>2. call' = [call EXCEPT ![t] = IF otherwise = "idle" THEN NoCall ELSE [@ EXCEPT !.pc = "rollback"]]
    BY <1>5 DEF Goto
  <2>3. /\ call'[t].pc \in {"idle", "rollback"}
        /\ call'[t].pc = "idle" => op \notin Transactions
        /\ \A u \in Threads \ {t} : call'[u] = call[u]
    BY <1>1, <2>2 DEF TypeOK, NoCall
  <2>4. TypeOK'
    BY <1>1, <2>1, <2>2 DEF TypeOK, NoCall
  <2>5. ViewInv(t)'
    BY <1>1, <1>3, <2>1, <2>3 DEF ViewInv
  <2>6. QED
    BY <1>1, <2>1, <2>3, <2>4, <2>5, Quiet
<1>6. QED
  BY <1>4, <1>5 DEF UpdateStatus, Update

LEMMA RollbackStep ==
  ASSUME OwnConnections, StoreInv, NEW t \in Threads, Rollback(t)
  PROVE  StoreInv'
<1> DEFINE c == ConnectionOf[t]
<1>1. /\ TypeOK /\ UNCHANGED <<disk, told, runs>> /\ c \in Connections
      /\ tx' = [tx EXCEPT ![c] = NoTransaction] /\ begun' = begun \ {c}
      /\ call' = [call EXCEPT ![t] = NoCall]
  BY StoreAssumption DEF StoreInv, Rollback, EndTransaction, Goto
<1>2. TypeOK'
  BY <1>1 DEF TypeOK, NoCall
<1>3. /\ tx'[c] = NoTransaction /\ \A d \in Connections \ {c} : tx'[d] = tx[d]
      /\ call'[t].pc = "idle" /\ \A u \in Threads \ {t} : call'[u] = call[u]
  BY <1>1 DEF TypeOK, NoCall
<1>4. ViewInv(t)'
  BY <1>3 DEF ViewInv
<1>5. QED
  BY <1>1, <1>2, <1>3, <1>4, Quiet

LEMMA RunFunctionStep ==
  ASSUME OwnConnections, StoreInv, NEW t \in Threads, RunFunction(t)
  PROVE  StoreInv'
<1> DEFINE c == ConnectionOf[t]
           e == call[t].on
<1>1. /\ TypeOK /\ UNCHANGED <<disk, tx, begun, told>> /\ c \in Connections
      /\ call[t].pc = "run" /\ e \in Executions
      /\ runs' = [runs EXCEPT ![e] = @ + 1]
      /\ call' = [call EXCEPT ![t] = [pc |-> "update_status", op |-> "finish", on |-> e]]
  BY StoreAssumption DEF StoreInv, RunFunction, TypeOK
<1>2. disk[e].approval = "CONSUMED" /\ runs[e] = 0
  BY <1>1 DEF StoreInv, RunInv, Started
<1>3. /\ call'[t] = [pc |-> "update_status", op |-> "finish", on |-> e]
      /\ \A u \in Threads \ {t} : call'[u] = call[u]
  BY <1>1 DEF TypeOK
<1>4. runs'[e] = 1 /\ \A f \in Executions \ {e} : runs'[f] = runs[f]
  BY <1>1, <1>2 DEF TypeOK
<1>5. TypeOK'
  BY <1>1 DEF TypeOK, Operations, Transactions
<1>6. ASSUME NEW u \in Threads
      PROVE  ViewInv(u)'
  <2>1. CASE u = t
    <3>1. tx[c] \in {NoTransaction, disk}
      BY <1>1 DEF StoreInv, ViewInv
    <3>2. QED
      BY <1>1, <1>3, <2>1, <3>1 DEF ViewInv, Transactions
  <2>2. CASE u # t
    <3>1. call'[u] = call[u] /\ tx' = tx /\ disk' = disk
      BY <1>1, <1>3, <2>2
    <3>2. ViewInv(u)
      BY DEF StoreInv
    <3>3. QED
      BY <3>1, <3>2 DEF ViewInv
  <2>3. QED
    BY <2>1, <2>2
<1>7. RunInv' /\ CancelInv'
  <2>1. ASSUME NEW u \in Threads, u # t, Started(u)
        PROVE  call[u].on \in Executions \ {e}
    BY <1>1, <2>1 DEF StoreInv, RunInv, Started, TypeOK
  <2>2. RunInv'
    BY <1>1, <1>3, <1>4, <2>1 DEF StoreInv, RunInv, Started
  <2>3. ASSUME NEW u \in Threads, u # t, call[u].pc = "append_event",
               call[u].op \in {"cancel_waiting", "cancel_approved"}
        PROVE  disk'[call[u].on].status = "CANCELLED" /\ runs'[call[u].on] = 0
    <3>1. call[u].on \in Executions /\ disk[call[u].on].status = "CANCELLED"
          /\ runs[call[u].on] = 0
      BY <1>1, <2>3 DEF StoreInv, CancelInv, TypeOK
    <3>2. call[u].on # e
      BY <1>1, <1>2, <3>1 DEF StoreInv, RowInv
    <3>3. QED
      BY <1>1, <1>4, <3>1, <3>2
  <2>4. CancelInv'
    BY <1>3, <2>3 DEF CancelInv
  <2>5. QED
    BY <2>2, <2>4
<1>8. ConsumedOnce'
  BY <1>4 DEF StoreInv, ConsumedOnce
<1>9. AnswersHold'
  BY <1>1, <1>2, <1>4, ZenonT(30) DEF StoreInv, AnswersHold, RowInv
<1>10. RowInv' /\ \A d \in Connections :
                    tx'[d] # NoTransaction => \E u \in Threads : ConnectionOf[u] = d
  BY <1>1 DEF StoreInv, RowInv
<1>11. QED
  BY <1>5, <1>6, <1>7, <1>8, <1>9, <1>10 DEF StoreInv

LEMMA DieStep ==
  ASSUME OwnConnections, StoreInv, NEW c \in Connections, Die(c)
  PROVE  StoreInv'
<1>1. /\ TypeOK /\ UNCHANGED <<disk, told, runs>>
      /\ tx' = [tx EXCEPT ![c] = NoTransaction] /\ begun' = begun \ {c}
      /\ call' = [t \in Threads |-> IF ConnectionOf[t] = c THEN NoCall ELSE call[t]]
  BY DEF StoreInv, Die, EndTransaction
<1>2. TypeOK'
  BY <1>1 DEF TypeOK, NoCall
<1>3. ASSUME NEW u \in Threads
      PROVE  ViewInv(u)'
  <2>1. CASE ConnectionOf[u] = c
    BY <1>1, <2>1 DEF TypeOK, NoCall, ViewInv
  <2>2. CASE ConnectionOf[u] # c
    <3>1. tx'[ConnectionOf[u]] = tx[ConnectionOf[u]] /\ call'[u] = call[u] /\ disk' = disk
      BY <1>1, <2>2, StoreAssumption DEF TypeOK
    <3>2. ViewInv(u)
      BY DEF StoreInv
    <3>3. QED
      BY <3>1, <3>2 DEF ViewInv
  <2>3. QED
    BY <2>1, <2>2
<1>4. \A u \in Threads : call'[u].pc # "idle" => call'[u] = call[u]
  BY <1>1 DEF NoCall
<1>5. RunInv' /\ CancelInv'
  BY <1>1, <1>4 DEF StoreInv, RunInv, CancelInv, Started
<1>6. RowInv' /\ ConsumedOnce' /\ AnswersHold'
  BY <1>1 DEF StoreInv, RowInv, ConsumedOnce, AnswersHold
<1>7. ASSUME NEW d \in Connections, tx'[d] # NoTransaction
      PROVE  \E u \in Threads : ConnectionOf[u] = d
  BY <1>1, <1>7 DEF StoreInv, TypeOK
<1>8. QED
  BY <1>2, <1>3, <1>5, <1>6, <1>7 DEF StoreInv

\* What a COMMIT writes: the row of one execution, from the state it compared.
LEMMA CommitWrites ==
  ASSUME OwnConnections, StoreInv, NEW t \in Threads, Commit(t)
  PROVE  LET op == call[t].op
             e  == call[t].on
         IN  /\ e \in Executions /\ op \in Operations
             /\ disk[e].status = StatusFrom[op]
             /\ op \in Transactions => disk[e].approval = Before(op)
             /\ disk' = [disk EXCEPT ![e] = Decided(op, disk[e])]
             /\ disk' \in Tables
             /\ disk'[e] = Decided(op, disk[e])
             /\ \A f \in Executions \ {e} : disk'[f] = disk[f]
             /\ tx[ConnectionOf[t]] # NoTransaction
<1> DEFINE c == ConnectionOf[t]
           op == call[t].op
           e == call[t].on
<1>1. /\ TypeOK /\ ViewInv(t) /\ c \in Connections /\ disk \in Tables
      /\ call[t].pc = "commit" /\ op \in Operations /\ e \in Executions
      /\ disk' = View(c)
  BY StoreAssumption DEF StoreInv, Commit, TypeOK
<1>2. /\ disk[e].status = StatusFrom[op]
      /\ op \in Transactions => disk[e].approval = Before(op)
      /\ tx[c] = [disk EXCEPT ![e] = Decided(op, disk[e])]
  BY <1>1 DEF ViewInv
<1>3. [disk EXCEPT ![e] = Decided(op, disk[e])] \in Tables
  BY <1>1, Changes
<1>4. tx[c] # NoTransaction
  BY <1>2, <1>3, StoreAssumption
<1>5. disk' = [disk EXCEPT ![e] = Decided(op, disk[e])]
  BY <1>1, <1>2, <1>4 DEF View
<1>6. /\ disk'[e] = Decided(op, disk[e])
      /\ \A f \in Executions \ {e} : disk'[f] = disk[f]
  BY <1>1, <1>5 DEF Tables
<1>7. QED
  BY <1>1, <1>2, <1>3, <1>4, <1>5, <1>6

\* The decisions a committed row can take, in full.
LEMMA RowSteps ==
  ASSUME StoreInv, NEW e \in Executions, NEW op \in Operations,
         disk[e].status = StatusFrom[op],
         op \in Transactions => disk[e].approval = Before(op)
  PROVE  LET step == <<disk[e].approval, disk[e].status,
                       Decided(op, disk[e]).approval, Decided(op, disk[e]).status>>
         IN  \/ op = "grant" /\ step = <<"PENDING", "WAITING_APPROVAL", "GRANTED", "APPROVED">>
             \/ op = "deny" /\ step = <<"PENDING", "WAITING_APPROVAL", "DENIED", "DENIED">>
             \/ op = "expire" /\ step = <<"PENDING", "WAITING_APPROVAL", "EXPIRED", "EXPIRED">>
             \/ op = "consume" /\ step = <<"GRANTED", "APPROVED", "CONSUMED", "EXECUTING">>
             \/ op = "cancel_waiting"
                /\ step = <<"PENDING", "WAITING_APPROVAL", "PENDING", "CANCELLED">>
             \/ op = "cancel_approved"
                /\ step = <<"GRANTED", "APPROVED", "GRANTED", "CANCELLED">>
             \/ op = "finish" /\ step = <<"CONSUMED", "EXECUTING", "CONSUMED", "SUCCEEDED">>
<1>1. <<disk[e].approval, disk[e].status>> \in
        {<<"PENDING", "WAITING_APPROVAL">>, <<"PENDING", "CANCELLED">>,
         <<"GRANTED", "APPROVED">>, <<"GRANTED", "CANCELLED">>,
         <<"DENIED", "DENIED">>, <<"EXPIRED", "EXPIRED">>,
         <<"CONSUMED", "EXECUTING">>, <<"CONSUMED", "SUCCEEDED">>}
  BY DEF StoreInv, RowInv
<1>2. QED
  BY <1>1 DEF Operations, Transactions, StatusFrom, StatusTo, ApprovalTo, Before, Decided

LEMMA CommitStep ==
  ASSUME OwnConnections, StoreInv, NEW t \in Threads, Commit(t)
  PROVE  StoreInv'
<1> DEFINE c == ConnectionOf[t]
           op == call[t].op
           e == call[t].on
           answers == op \in {"grant", "deny"}
           next == IF answers THEN "idle" ELSE IF op = "expire" THEN "rollback" ELSE "append_event"
<1>1. /\ TypeOK /\ c \in Connections /\ call[t].pc = "commit"
      /\ tx' = [tx EXCEPT ![c] = NoTransaction] /\ begun' = begun \ {c}
      /\ Goto(t, next)
      /\ told' = IF answers THEN told \cup {<<op, e>>} ELSE told
      /\ runs' = runs
  BY StoreAssumption DEF StoreInv, Commit, EndTransaction
<1>2. /\ e \in Executions /\ op \in Operations
      /\ disk[e].status = StatusFrom[op]
      /\ op \in Transactions => disk[e].approval = Before(op)
      /\ disk' \in Tables
      /\ disk'[e] = Decided(op, disk[e])
      /\ \A f \in Executions \ {e} : disk'[f] = disk[f]
      /\ tx[c] # NoTransaction
  BY CommitWrites
<1>3. LET step == <<disk[e].approval, disk[e].status, disk'[e].approval, disk'[e].status>>
      IN  \/ op = "grant" /\ step = <<"PENDING", "WAITING_APPROVAL", "GRANTED", "APPROVED">>
          \/ op = "deny" /\ step = <<"PENDING", "WAITING_APPROVAL", "DENIED", "DENIED">>
          \/ op = "expire" /\ step = <<"PENDING", "WAITING_APPROVAL", "EXPIRED", "EXPIRED">>
          \/ op = "consume" /\ step = <<"GRANTED", "APPROVED", "CONSUMED", "EXECUTING">>
          \/ op = "cancel_waiting"
             /\ step = <<"PENDING", "WAITING_APPROVAL", "PENDING", "CANCELLED">>
          \/ op = "cancel_approved"
             /\ step = <<"GRANTED", "APPROVED", "GRANTED", "CANCELLED">>
          \/ op = "finish" /\ step = <<"CONSUMED", "EXECUTING", "CONSUMED", "SUCCEEDED">>
  BY <1>2, RowSteps
<1>4. call' = [call EXCEPT ![t] = IF next = "idle" THEN NoCall ELSE [@ EXCEPT !.pc = next]]
  BY <1>1 DEF Goto
<1>5. /\ next \in {"idle", "append_event", "rollback"}
      /\ next = "append_event" <=> op \notin {"grant", "deny", "expire"}
  OBVIOUS
<1>6. /\ call'[t].pc = next
      /\ next = "append_event" => call'[t].on = e /\ call'[t].op = op
      /\ \A u \in Threads \ {t} : call'[u] = call[u]
  <2>1. \A u \in Threads \ {t} : call'[u] = call[u]
    BY <1>1, <1>4 DEF TypeOK
  <2>2. next = "idle" => call'[t].pc = "idle"
    BY <1>1, <1>4 DEF TypeOK, NoCall
  <2>3. next # "idle" => call'[t].pc = next /\ call'[t].on = e /\ call'[t].op = op
    BY <1>1, <1>4 DEF TypeOK
  <2> HIDE DEF next
  <2>4. QED
    BY <2>1, <2>2, <2>3
<1> HIDE DEF next
<1>7. TypeOK'
  <2>1. call' \in [Threads ->
          [pc : {"idle", "begin", "select", "update_approval", "update_status",
                 "commit", "append_event", "rollback", "run"},
           op : Operations \cup {"none"}, on : Executions \cup {"none"}]]
    BY <1>1, <1>4, <1>5 DEF TypeOK, NoCall
  <2>2. \A u \in Threads :
          /\ call'[u].pc # "idle" => call'[u].op \in Operations /\ call'[u].on \in Executions
          /\ call'[u].pc \in {"begin", "select", "update_approval"}
               => call'[u].op \in Transactions
    BY <1>1, <1>2, <1>4, <1>5 DEF TypeOK, NoCall
  <2>3. told' \subseteq Operations \X Executions
    BY <1>1, <1>2 DEF TypeOK
  <2>4. /\ tx' \in [Connections -> Tables \cup {NoTransaction}]
        /\ \A d, f \in Connections :
             tx'[d] # NoTransaction /\ tx'[f] # NoTransaction => d = f
        /\ begun' \subseteq {d \in Connections : tx'[d] = NoTransaction}
    BY <1>1 DEF TypeOK
  <2>5. QED
    BY <1>1, <1>2, <2>1, <2>2, <2>3, <2>4 DEF TypeOK
<1>8. ASSUME NEW u \in Threads
      PROVE  ViewInv(u)'
  <2>1. CASE u = t
    <3>1. tx'[c] = NoTransaction
      BY <1>1 DEF TypeOK
    <3>2. QED
      BY <1>5, <1>6, <2>1, <3>1 DEF ViewInv
  <2>2. CASE u # t
    <3>1. \A v \in Threads : ViewInv(v)
      BY DEF StoreInv
    <3>2. /\ ConnectionOf[u] # c
          /\ tx[ConnectionOf[u]] = NoTransaction
          /\ call[u].pc \in {"idle", "begin", "append_event", "rollback", "run", "update_status"}
          /\ call[u].pc = "begin" => call[u].op # "expire"
          /\ call[u].pc = "append_event" => call[u].op \notin {"grant", "deny", "expire"}
          /\ call[u].pc = "update_status" => call[u].op \notin Transactions
      BY <1>1, <1>2, <2>2, <3>1, Alone
    <3>3. ConnectionOf[u] \in Connections
      BY StoreAssumption
    <3>4. tx'[ConnectionOf[u]] = NoTransaction /\ call'[u] = call[u]
      BY <1>1, <1>6, <2>2, <3>2, <3>3 DEF TypeOK
    <3>5. QED
      BY <3>2, <3>4, Outside
  <2>3. QED
    BY <2>1, <2>2
<1>9. /\ \A f \in Executions : disk[f].approval = "CONSUMED" => disk'[f].approval = "CONSUMED"
      /\ op = "consume" => disk'[e].approval = "CONSUMED" /\ disk[e].approval = "GRANTED"
  BY <1>2, <1>3
<1>10. \A f \in Executions : runs[f] > 0 => disk[f].approval = "CONSUMED"
  BY DEF StoreInv, AnswersHold
<1>11. RunInv'
  <2>1. op = "consume" => runs[e] = 0
    BY <1>1, <1>2, <1>9, <1>10 DEF TypeOK
  <2>2. \A u \in Threads : Started(u) =>
          /\ call[u].on \in Executions
          /\ disk[call[u].on].approval = "CONSUMED" /\ runs[call[u].on] = 0
    BY <1>1 DEF StoreInv, RunInv, Started, TypeOK
  <2>3. /\ Started(t)' => op = "consume" /\ call'[t].on = e
        /\ \A u \in Threads \ {t} : Started(u)' <=> Started(u)
    BY <1>5, <1>6 DEF Started
  <2>4. ASSUME NEW u \in Threads, Started(u)'
        PROVE  disk'[call'[u].on].approval = "CONSUMED" /\ runs'[call'[u].on] = 0
    BY <1>1, <1>6, <1>9, <2>1, <2>2, <2>3, <2>4
  <2>5. ASSUME NEW u \in Threads, NEW v \in Threads, Started(u)', Started(v)',
               call'[u].on = call'[v].on
        PROVE  u = v
    <3>1. CASE u # t /\ v # t
      BY <1>6, <2>3, <2>5, <3>1 DEF StoreInv, RunInv
    <3>2. CASE u = t \/ v = t
      BY <1>6, <1>9, <2>2, <2>3, <2>5, <3>2
    <3>3. QED
      BY <3>1, <3>2
  <2>6. QED
    BY <2>4, <2>5 DEF RunInv
<1>12. RowInv'
  BY <1>2, <1>3 DEF StoreInv, RowInv
<1>13. AnswersHold'
  <2>1. ASSUME NEW f \in Executions, <<"grant", f>> \in told'
        PROVE  disk'[f].approval \in {"GRANTED", "CONSUMED"}
    BY <1>1, <1>2, <1>3, <2>1 DEF StoreInv, AnswersHold
  <2>2. ASSUME NEW f \in Executions, <<"deny", f>> \in told'
        PROVE  disk'[f] = [approval |-> "DENIED", status |-> "DENIED"]
    <3>1. CASE <<"deny", f>> \in told
      <4>1. disk[f] = [approval |-> "DENIED", status |-> "DENIED"]
        BY <3>1 DEF StoreInv, AnswersHold
      <4>2. disk[f].approval = "DENIED"
        BY <4>1
      <4>3. f # e
        BY <1>3, <4>2
      <4>4. disk'[f] = disk[f]
        BY <1>2, <4>3
      <4>5. QED
        BY <4>1, <4>4
    <3>2. CASE <<"deny", f>> \notin told
      <4>1. f = e /\ op = "deny"
        BY <1>1, <2>2, <3>2
      <4>2. disk'[e].approval = "DENIED" /\ disk'[e].status = "DENIED"
        BY <1>3, <4>1
      <4>3. QED
        BY <1>2, <4>1, <4>2, Domains
    <3>3. QED
      BY <3>1, <3>2
  <2>3. ASSUME NEW f \in Executions,
               <<"cancel_waiting", f>> \in told' \/ <<"cancel_approved", f>> \in told'
        PROVE  disk'[f].status = "CANCELLED" /\ runs'[f] = 0
    <3>1. <<"cancel_waiting", f>> \in told \/ <<"cancel_approved", f>> \in told
      BY <1>1, <2>3
    <3>2. disk[f].status = "CANCELLED" /\ runs[f] = 0
      BY <3>1 DEF StoreInv, AnswersHold
    <3>3. f # e
      BY <1>3, <3>2
    <3>4. QED
      BY <1>1, <1>2, <3>2, <3>3
  <2>4. ASSUME NEW f \in Executions, runs'[f] > 0
        PROVE  disk'[f].approval = "CONSUMED"
    BY <1>1, <1>9, <1>10, <2>4
  <2>5. QED
    BY <2>1, <2>2, <2>3, <2>4 DEF AnswersHold
<1>14. ConsumedOnce' /\ CancelInv'
  <2>1. ConsumedOnce'
    BY <1>1 DEF StoreInv, ConsumedOnce
  <2>2. ASSUME NEW u \in Threads, call'[u].pc = "append_event",
               call'[u].op \in {"cancel_waiting", "cancel_approved"}
        PROVE  disk'[call'[u].on].status = "CANCELLED" /\ runs'[call'[u].on] = 0
    <3>1. CASE u = t
      <4>1. call'[u].on = e /\ op \in {"cancel_waiting", "cancel_approved"}
        BY <1>6, <2>2, <3>1
      <4>2. disk'[e].status = "CANCELLED" /\ disk[e].approval # "CONSUMED"
        BY <1>3, <4>1
      <4>3. runs[e] = 0
        BY <1>1, <1>2, <1>10, <4>2 DEF TypeOK
      <4>4. QED
        BY <1>1, <4>1, <4>2, <4>3
    <3>2. CASE u # t
      <4>1. /\ call'[u] = call[u] /\ call[u].on \in Executions
            /\ disk[call[u].on].status = "CANCELLED" /\ runs[call[u].on] = 0
        BY <1>1, <1>6, <2>2, <3>2 DEF StoreInv, CancelInv, TypeOK
      <4>2. call[u].on # e
        BY <1>3, <4>1
      <4>3. QED
        BY <1>1, <1>2, <4>1, <4>2
    <3>3. QED
      BY <3>1, <3>2
  <2>3. QED
    BY <2>1, <2>2 DEF CancelInv
<1>15. ASSUME NEW d \in Connections, tx'[d] # NoTransaction
       PROVE  \E u \in Threads : ConnectionOf[u] = d
  BY <1>1, <1>15 DEF StoreInv, TypeOK
<1>16. QED
  BY <1>7, <1>8, <1>11, <1>12, <1>13, <1>14, <1>15 DEF StoreInv

\* An event leaves the two tables alone, since nothing else is open on the
\* thread's own connection.
LEMMA AppendEventStep ==
  ASSUME OwnConnections, StoreInv, NEW t \in Threads, AppendEvent(t)
  PROVE  StoreInv'
<1> DEFINE c == ConnectionOf[t]
           op == call[t].op
           e == call[t].on
<1>1. /\ TypeOK /\ ViewInv(t) /\ runs' = runs /\ c \in Connections
      /\ call[t].pc = "append_event" /\ e \in Executions /\ op \in Operations
  BY StoreAssumption DEF StoreInv, AppendEvent, TypeOK
<1>2. tx[c] \in {NoTransaction, disk} /\ View(c) = disk
  BY <1>1 DEF ViewInv, View
<1>3. /\ disk' = disk
      /\ \/ /\ tx' = [tx EXCEPT ![c] = NoTransaction]
            /\ begun' = begun \ {c}
            /\ Goto(t, IF op = "consume" THEN "run" ELSE "idle")
            /\ told' = IF op = "consume" THEN told ELSE told \cup {<<op, e>>}
         \/ /\ tx' = tx /\ tx[c] = NoTransaction
            /\ begun' = begun \cup {c}
            /\ Goto(t, "idle")
            /\ told' = told
  BY <1>1, <1>2, Holding DEF AppendEvent, EndTransaction
<1>4. \/ call' = [call EXCEPT ![t] = NoCall]
      \/ op = "consume" /\ call' = [call EXCEPT ![t].pc = "run"]
  BY <1>3 DEF Goto
<1>5. /\ call'[t] = NoCall \/ (op = "consume" /\ call'[t].pc = "run" /\ call'[t].on = e)
      /\ \A u \in Threads \ {t} : call'[u] = call[u]
  BY <1>1, <1>4 DEF TypeOK
<1>6. /\ tx'[c] = NoTransaction
      /\ \A d \in Connections \ {c} : tx'[d] = tx[d]
  BY <1>1, <1>3 DEF TypeOK
<1>7. TypeOK'
  <2>1. /\ tx' \in [Connections -> Tables \cup {NoTransaction}]
        /\ \A d, f \in Connections :
             tx'[d] # NoTransaction /\ tx'[f] # NoTransaction => d = f
        /\ begun' \subseteq {d \in Connections : tx'[d] = NoTransaction}
    BY <1>1, <1>3, <1>6 DEF TypeOK
  <2>2. /\ call' \in [Threads ->
             [pc : {"idle", "begin", "select", "update_approval", "update_status",
                    "commit", "append_event", "rollback", "run"},
              op : Operations \cup {"none"}, on : Executions \cup {"none"}]]
        /\ \A u \in Threads :
             /\ call'[u].pc # "idle" => call'[u].op \in Operations /\ call'[u].on \in Executions
             /\ call'[u].pc \in {"begin", "select", "update_approval"}
                  => call'[u].op \in Transactions
    BY <1>1, <1>4 DEF TypeOK, NoCall
  <2>3. disk' \in Tables /\ told' \subseteq Operations \X Executions /\ runs' \in [Executions -> Nat]
    BY <1>1, <1>3 DEF TypeOK
  <2>4. QED
    BY <2>1, <2>2, <2>3 DEF TypeOK
<1>8. ASSUME NEW u \in Threads
      PROVE  ViewInv(u)'
  <2>1. CASE u = t
    BY <1>5, <1>6, <2>1 DEF ViewInv, NoCall
  <2>2. CASE u # t
    <3>1. ConnectionOf[u] \in Connections \ {c}
      BY <2>2, StoreAssumption DEF OwnConnections
    <3>2. tx'[ConnectionOf[u]] = tx[ConnectionOf[u]] /\ call'[u] = call[u] /\ disk' = disk
      BY <1>3, <1>5, <1>6, <2>2, <3>1
    <3>3. ViewInv(u)
      BY DEF StoreInv
    <3>4. QED
      BY <3>2, <3>3 DEF ViewInv
  <2>3. QED
    BY <2>1, <2>2
<1>9. /\ \A u \in Threads : Started(u)' => Started(u) /\ call'[u].on = call[u].on
      /\ \A u \in Threads : call'[u].pc = "append_event" => call'[u] = call[u]
  BY <1>1, <1>5 DEF Started, NoCall
<1>10. RunInv' /\ CancelInv'
  BY <1>1, <1>3, <1>9 DEF StoreInv, RunInv, CancelInv
<1>11. AnswersHold'
  <2>1. op \in {"cancel_waiting", "cancel_approved"} =>
          disk[e].status = "CANCELLED" /\ runs[e] = 0
    BY <1>1 DEF StoreInv, CancelInv
  <2>2. op \notin {"grant", "deny"}
    BY <1>1 DEF StoreInv, ViewInv
  <2>3. told' = told \/ told' = told \cup {<<op, e>>}
    BY <1>3
  <2>4. ASSUME NEW f \in Executions,
               <<"cancel_waiting", f>> \in told' \/ <<"cancel_approved", f>> \in told'
        PROVE  disk[f].status = "CANCELLED" /\ runs[f] = 0
    <3>1. CASE <<"cancel_waiting", f>> \in told \/ <<"cancel_approved", f>> \in told
      BY <3>1 DEF StoreInv, AnswersHold
    <3>2. CASE ~(<<"cancel_waiting", f>> \in told \/ <<"cancel_approved", f>> \in told)
      <4>1. f = e /\ op \in {"cancel_waiting", "cancel_approved"}
        BY <2>3, <2>4, <3>2
      <4>2. QED
        BY <2>1, <4>1
    <3>3. QED
      BY <3>1, <3>2
  <2>5. ASSUME NEW f \in Executions
        PROVE  /\ <<"grant", f>> \in told' => <<"grant", f>> \in told
               /\ <<"deny", f>> \in told' => <<"deny", f>> \in told
    BY <2>2, <2>3
  <2>6. AnswersHold
    BY DEF StoreInv
  <2>7. QED
    BY <1>1, <1>3, <2>4, <2>5, <2>6 DEF AnswersHold
<1>12. ConsumedOnce' /\ RowInv'
  BY <1>1, <1>3 DEF StoreInv, ConsumedOnce, RowInv
<1>13. ASSUME NEW d \in Connections, tx'[d] # NoTransaction
       PROVE  \E u \in Threads : ConnectionOf[u] = d
  BY <1>6, <1>13 DEF StoreInv
<1>14. QED
  BY <1>7, <1>8, <1>10, <1>11, <1>12, <1>13 DEF StoreInv

-----------------------------------------------------------------------------
(* Theorems *)

LEMMA NextStep ==
  ASSUME OwnConnections, StoreInv, [Next]_vars
  PROVE  StoreInv'
<1>1. ASSUME NEW t \in Threads, NEW e \in Executions,
             NEW op \in {"grant", "deny", "consume", "cancel_waiting", "cancel_approved"},
             Call(t, op, e)
      PROVE  StoreInv'
  BY <1>1, CallStep
<1>2. ASSUME NEW t \in Threads,
             \/ Begin(t) \/ Select(t) \/ UpdateApproval(t) \/ UpdateStatus(t)
             \/ Commit(t) \/ AppendEvent(t) \/ Rollback(t) \/ RunFunction(t)
      PROVE  StoreInv'
  BY <1>2, BeginStep, SelectStep, UpdateApprovalStep, UpdateStatusStep, CommitStep,
     AppendEventStep, RollbackStep, RunFunctionStep
<1>3. ASSUME NEW c \in Connections, Die(c)
      PROVE  StoreInv'
  BY <1>3, DieStep
<1>4. CASE UNCHANGED vars
  <2>1. UNCHANGED <<disk, tx, begun, call, told, runs>>
    BY <1>4 DEF vars
  <2>2. TypeOK'
    BY <2>1 DEF StoreInv, TypeOK
  <2>3. \A t \in Threads : ViewInv(t)'
    BY <2>1 DEF StoreInv, ViewInv
  <2>4. RowInv' /\ RunInv' /\ CancelInv' /\ ConsumedOnce' /\ AnswersHold'
    BY <2>1 DEF StoreInv, RowInv, RunInv, CancelInv, Started, ConsumedOnce, AnswersHold
  <2>5. QED
    BY <2>1, <2>2, <2>3, <2>4 DEF StoreInv
<1>5. QED
  BY <1>1, <1>2, <1>3, <1>4 DEF Next

\* With a connection for each thread, what the transactions rest on holds at
\* every statement, whatever the others do and wherever a process dies.
THEOREM StoreInvariance ==
  ASSUME OwnConnections
  PROVE  Spec => []StoreInv
<1>1. StoreInv /\ [Next]_vars => StoreInv'
  BY NextStep
<1>2. QED
  BY Initial, <1>1, PTL DEF Spec

\* A database has one writer at most, and every variable stays in its domain.
THEOREM StoreTypeCorrect ==
  ASSUME OwnConnections
  PROVE  Spec => []TypeOK
<1>1. StoreInv => TypeOK
  BY DEF StoreInv
<1>2. QED
  BY <1>1, StoreInvariance, PTL

\* One-time consumption: the function behind an approval runs at most once.
THEOREM ConsumedAtMostOnce ==
  ASSUME OwnConnections
  PROVE  Spec => []ConsumedOnce
<1>1. StoreInv => ConsumedOnce
  BY DEF StoreInv
<1>2. QED
  BY <1>1, StoreInvariance, PTL

\* What operators and callers were told is never taken back.
THEOREM ToldIsTrue ==
  ASSUME OwnConnections
  PROVE  Spec => []AnswersHold
<1>1. StoreInv => AnswersHold
  BY DEF StoreInv
<1>2. QED
  BY <1>1, StoreInvariance, PTL

\* What a refused transition leaves open holds no change that a later COMMIT on
\* its connection could make visible.
THEOREM NothingLeftBehind ==
  ASSUME OwnConnections
  PROVE  Spec => []LeftOpenIsEmpty
<1>1. ASSUME StoreInv, NEW c \in Connections, tx[c] # NoTransaction,
             \A t \in Threads : ConnectionOf[t] = c => call[t] = NoCall
      PROVE  tx[c] = disk
  <2>1. PICK t \in Threads : ConnectionOf[t] = c
    BY <1>1 DEF StoreInv
  <2>2. call[t].pc = "idle"
    BY <1>1, <2>1 DEF NoCall
  <2>3. tx[c] \in {NoTransaction, disk}
    BY <1>1, <2>1, <2>2 DEF StoreInv, ViewInv
  <2>4. QED
    BY <1>1, <2>3
<1>2. StoreInv => LeftOpenIsEmpty
  BY <1>1 DEF LeftOpenIsEmpty
<1>3. QED
  BY <1>2, StoreInvariance, PTL

\* A COMMIT is one decision of the abstract rows, and nothing else changes them.
LEMMA StepDecides ==
  ASSUME OwnConnections, StoreInv, [Next]_vars
  PROVE  [Promise!Next]_disk
<1>1. ASSUME NEW t \in Threads, Commit(t)
      PROVE  Promise!Next
  <2> DEFINE op == call[t].op
             e == call[t].on
  <2>1. /\ e \in Executions /\ op \in Operations
        /\ disk[e].status = StatusFrom[op]
        /\ op \in Transactions => disk[e].approval = Before(op)
        /\ disk' = [disk EXCEPT ![e] = Decided(op, disk[e])]
    BY <1>1, CommitWrites
  <2>2. disk \in Tables
    BY DEF StoreInv, TypeOK
  <2>3. LET step == <<disk[e].approval, disk[e].status,
                      Decided(op, disk[e]).approval, Decided(op, disk[e]).status>>
        IN  \/ op = "grant" /\ step = <<"PENDING", "WAITING_APPROVAL", "GRANTED", "APPROVED">>
            \/ op = "deny" /\ step = <<"PENDING", "WAITING_APPROVAL", "DENIED", "DENIED">>
            \/ op = "expire" /\ step = <<"PENDING", "WAITING_APPROVAL", "EXPIRED", "EXPIRED">>
            \/ op = "consume" /\ step = <<"GRANTED", "APPROVED", "CONSUMED", "EXECUTING">>
            \/ op = "cancel_waiting"
               /\ step = <<"PENDING", "WAITING_APPROVAL", "PENDING", "CANCELLED">>
            \/ op = "cancel_approved"
               /\ step = <<"GRANTED", "APPROVED", "GRANTED", "CANCELLED">>
            \/ op = "finish" /\ step = <<"CONSUMED", "EXECUTING", "CONSUMED", "SUCCEEDED">>
    BY <2>1, RowSteps
  <2>4. /\ disk[e] = [approval |-> disk[e].approval, status |-> disk[e].status]
        /\ Decided(op, disk[e]) = [approval |-> Decided(op, disk[e]).approval,
                                   status   |-> Decided(op, disk[e]).status]
    BY <2>1, <2>2, Domains DEF Decided
  <2>5. CASE op \in Transactions
    <3>1. <<disk[e], Decided(op, disk[e])>> \in Promise!Decisions
      BY <2>3, <2>4, <2>5 DEF Transactions, Promise!Decisions, Promise!RowOf, Promise!Waiting
    <3>2. Promise!Decide(e)
      BY <2>1, <3>1 DEF Promise!Decide
    <3>3. QED
      BY <2>1, <3>2 DEF Promise!Next
  <2>6. CASE op \notin Transactions
    <3>1. <<disk[e].status, StatusTo[op]>> \in Promise!Cancellations \cup Promise!Outcomes
      BY <2>3, <2>6
         DEF Transactions, StatusTo, Promise!Cancellations, Promise!Outcomes
    <3>2. Decided(op, disk[e]) = [disk[e] EXCEPT !.status = StatusTo[op]]
      <4>1. disk[e] \in Row
        BY <2>1, <2>2 DEF Tables
      <4>2. QED
        BY <2>6, <4>1, Columns DEF Decided
    <3>3. disk' = [disk EXCEPT ![e].status = StatusTo[op]]
      BY <2>1, <2>2, <3>2 DEF Tables
    <3>4. Promise!Move(e)
      BY <3>1, <3>3 DEF Promise!Move
    <3>5. QED
      BY <2>1, <3>4 DEF Promise!Next
  <2>7. QED
    BY <2>5, <2>6
<1>2. ASSUME NEW t \in Threads, AppendEvent(t)
      PROVE  disk' = disk
  <2>1. ViewInv(t)
    BY DEF StoreInv
  <2>2. QED
    BY <1>2, <2>1 DEF AppendEvent, ViewInv, View
<1>3. \/ \E t \in Threads : Commit(t) \/ AppendEvent(t)
      \/ disk' = disk
  BY DEF Next, vars, Call, Begin, Select, UpdateApproval, UpdateStatus, Rollback, RunFunction, Die
<1>4. QED
  BY <1>1, <1>2, <1>3

\* The statements of ledger/store.py, in any order the write lock allows and
\* with any crashes, implement decisions that are atomic.
THEOREM DecisionsAreAtomic ==
  ASSUME OwnConnections
  PROVE  Spec => ImplementsDecisions
<1>1. Init => Promise!Init
  BY DEF Init, Promise!Init, Promise!Waiting, Promise!RowOf
<1>2. StoreInv /\ [Next]_vars => [Promise!Next]_disk
  BY StepDecides
<1>3. QED
  BY <1>1, <1>2, StoreInvariance, PTL DEF Spec, ImplementsDecisions, Promise!Spec

\* No statement of any process, and no crash, takes back a denial, an expiry or a
\* consumption that was committed (deny_approval, consume_approval_for_execution).
THEOREM DecidedStaysDecided ==
  ASSUME OwnConnections
  PROVE  Spec => Promise!DecisionsAreFinal
<1>1. ASSUME StoreInv, Promise!Next, NEW e \in Executions,
             disk[e].approval \in {"DENIED", "EXPIRED", "CONSUMED"}
      PROVE  disk'[e].approval = disk[e].approval
  <2>1. PICK x \in Executions : Promise!Decide(x) \/ Promise!Move(x)
    BY <1>1 DEF Promise!Next
  <2>2. disk \in [Executions -> Row]
    BY <1>1 DEF StoreInv, TypeOK, Tables
  <2>3. CASE Promise!Decide(x)
    <3>1. PICK d \in Promise!Decisions : disk[x] = d[1] /\ disk' = [disk EXCEPT ![x] = d[2]]
      BY <2>3 DEF Promise!Decide
    <3>2. d[1].approval \in {"PENDING", "GRANTED"}
      BY DEF Promise!Decisions, Promise!Waiting, Promise!RowOf
    <3>3. QED
      BY <1>1, <2>2, <3>1, <3>2
  <2>4. CASE Promise!Move(x)
    <3>1. PICK to : disk' = [disk EXCEPT ![x].status = to]
      BY <2>4 DEF Promise!Move
    <3>2. QED
      BY <2>2, <3>1 DEF Row
  <2>5. QED
    BY <2>1, <2>3, <2>4
<1>2. StoreInv /\ [Next]_vars => [Promise!KeepsDecisions]_disk
  BY <1>1, StepDecides DEF Promise!KeepsDecisions
<1>3. QED
  BY <1>2, StoreInvariance, PTL DEF Spec, Promise!DecisionsAreFinal
=============================================================================
