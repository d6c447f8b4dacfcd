------------------------- MODULE SharedStoreInvariant -------------------------
(***************************************************************************)
(* The inductive invariant of SharedStore when every thread has a          *)
(* connection of its own: what a thread that holds the write lock knows    *)
(* of the committed rows while its own changes wait for COMMIT.            *)
(***************************************************************************)
EXTENDS SharedStore

OwnConnections == \A t, u \in Threads : ConnectionOf[t] = ConnectionOf[u] => t = u

\* The approval status that each transaction starts from.
Before(op) == IF op = "consume" THEN "GRANTED" ELSE "PENDING"

\* The row that an operation commits.
Decided(op, row) ==
  [approval |-> IF op \in Transactions THEN ApprovalTo[op] ELSE row.approval,
   status   |-> StatusTo[op]]

\* The pairs of approval row and execution row that are ever committed.
RowInv ==
  \A e \in Executions :
    <<disk[e].approval, disk[e].status>> \in
      {<<"PENDING", "WAITING_APPROVAL">>, <<"PENDING", "CANCELLED">>,
       <<"GRANTED", "APPROVED">>, <<"GRANTED", "CANCELLED">>,
       <<"DENIED", "DENIED">>, <<"EXPIRED", "EXPIRED">>,
       <<"CONSUMED", "EXECUTING">>, <<"CONSUMED", "SUCCEEDED">>}

\* What the transaction of a thread sees, at each step of its call.
ViewInv(t) ==
  LET c  == ConnectionOf[t]
      e  == call[t].on
      op == call[t].op
  IN  /\ call[t].pc \in {"begin", "select"} => op # "expire"
      /\ call[t].pc \in {"idle", "begin", "append_event", "run"}
           => tx[c] \in {NoTransaction, disk}
      /\ call[t].pc = "append_event" => op \notin {"grant", "deny", "expire"}
      /\ call[t].pc \in {"select", "update_approval"} => tx[c] = disk
      /\ call[t].pc = "update_approval" => disk[e].approval = Before(op)
      /\ call[t].pc = "update_status" /\ op \notin Transactions
           => tx[c] \in {NoTransaction, disk}
      /\ call[t].pc = "update_status" /\ op \in Transactions
           => /\ disk[e].approval = Before(op)
              /\ tx[c] = [disk EXCEPT ![e].approval = ApprovalTo[op]]
      /\ call[t].pc = "commit"
           => /\ disk[e].status = StatusFrom[op]
              /\ op \in Transactions => disk[e].approval = Before(op)
              /\ tx[c] = [disk EXCEPT ![e] = Decided(op, disk[e])]

\* A thread that has consumed an approval and not yet called the function.
Started(t) ==
  \/ call[t].pc = "run"
  \/ call[t].pc = "append_event" /\ call[t].op = "consume"

\* Such a thread is alone.
RunInv ==
  /\ \A t \in Threads : Started(t) =>
       disk[call[t].on].approval = "CONSUMED" /\ runs[call[t].on] = 0
  /\ \A t, u \in Threads :
       Started(t) /\ Started(u) /\ call[t].on = call[u].on => t = u

\* A cancellation that waits for its event is committed.
CancelInv ==
  \A t \in Threads :
    call[t].pc = "append_event" /\ call[t].op \in {"cancel_waiting", "cancel_approved"} =>
      disk[call[t].on].status = "CANCELLED" /\ runs[call[t].on] = 0

\* The inductive invariant: what the transactions of ledger/store.py keep true
\* at every statement, when no two threads share a connection.
StoreInv ==
  /\ TypeOK
  /\ \A c \in Connections :
       tx[c] # NoTransaction => \E t \in Threads : ConnectionOf[t] = c
  /\ RowInv
  /\ \A t \in Threads : ViewInv(t)
  /\ RunInv
  /\ CancelInv
  /\ ConsumedOnce
  /\ AnswersHold
=============================================================================
