----------------------------- MODULE SharedStore -----------------------------
(***************************************************************************)
(* The approval transactions of SQLiteExecutionStore (ledger/store.py),    *)
(* one SQL statement per step, on connections that threads may share       *)
(* (check_same_thread=False): the write lock of the database, transactions *)
(* that python opens before an UPDATE, and what a COMMIT or ROLLBACK by    *)
(* one thread does to the others on its connection.                        *)
(*                                                                         *)
(* Executions begin when their approval has been requested.                *)
(***************************************************************************)
EXTENDS Naturals, StateMachine

CONSTANTS
  Threads,
  Connections,
  ConnectionOf,   \* the connection of the store each thread uses
  Executions,
  NoTransaction

Row == [approval : {"PENDING", "GRANTED", "DENIED", "EXPIRED", "CONSUMED"},
        status   : Statuses]
Tables == [Executions -> Row]

ASSUME StoreAssumption ==
  /\ ConnectionOf \in [Threads -> Connections]
  /\ NoTransaction \notin Tables

VARIABLES
  disk,    \* the committed rows of approval_requests and execution_records
  tx,      \* per connection, the rows its open write transaction sees
  begun,   \* connections in a transaction that has not got the write lock
  call,    \* what each thread is doing
  told,    \* history: decisions whose callers were told that they succeeded
  runs     \* history: how often each guarded function was run

vars == <<disk, tx, begun, call, told, runs>>

Operations ==
  {"grant", "expire", "deny", "consume", "cancel_waiting", "cancel_approved", "finish"}
Transactions == {"grant", "expire", "deny", "consume"}

\* The compare-and-set of each operation on the approval row ...
ApprovalFrom == [grant |-> {"PENDING"}, deny |-> {"PENDING"}, consume |-> {"GRANTED"},
                 expire |-> {"PENDING", "GRANTED", "DENIED", "EXPIRED", "CONSUMED"}]
ApprovalTo == [grant |-> "GRANTED", deny |-> "DENIED", consume |-> "CONSUMED",
               expire |-> "EXPIRED"]

\* ... and on the execution row.
StatusFrom ==
  [grant |-> "WAITING_APPROVAL", deny |-> "WAITING_APPROVAL",
   expire |-> "WAITING_APPROVAL", cancel_waiting |-> "WAITING_APPROVAL",
   consume |-> "APPROVED", cancel_approved |-> "APPROVED", finish |-> "EXECUTING"]
StatusTo ==
  [grant |-> "APPROVED", deny |-> "DENIED", expire |-> "EXPIRED",
   cancel_waiting |-> "CANCELLED", cancel_approved |-> "CANCELLED",
   consume |-> "EXECUTING", finish |-> "SUCCEEDED"]

NoCall == [pc |-> "idle", op |-> "none", on |-> "none"]

Init ==
  /\ disk = [e \in Executions |-> [approval |-> "PENDING", status |-> "WAITING_APPROVAL"]]
  /\ tx = [c \in Connections |-> NoTransaction]
  /\ begun = {}
  /\ call = [t \in Threads |-> NoCall]
  /\ told = {}
  /\ runs = [e \in Executions |-> 0]

View(c) == IF tx[c] = NoTransaction THEN disk ELSE tx[c]
InTransaction(c) == tx[c] # NoTransaction \/ c \in begun
LockedOut(c) == \E d \in Connections \ {c} : tx[d] # NoTransaction

Goto(t, step) ==
  call' = [call EXCEPT ![t] = IF step = "idle" THEN NoCall ELSE [@ EXCEPT !.pc = step]]

\* grant_approval, deny_approval, consume_approval_for_execution (from
\* resume_after_approval), and the transition_execution of cancel_execution.
Call(t, op, e) ==
  /\ call[t].pc = "idle"
  /\ call' = [call EXCEPT ![t] =
       [pc |-> IF op \in Transactions THEN "begin" ELSE "update_status", op |-> op, on |-> e]]
  /\ UNCHANGED <<disk, tx, begun, told, runs>>

\* Mutant: BEGIN without IMMEDIATE, and the rows are read all the same.
BeginDeferred(t) ==
  LET c == ConnectionOf[t] IN
  /\ call[t].pc = "begin"
  /\ IF InTransaction(c)
     THEN Goto(t, "rollback") /\ UNCHANGED tx
     ELSE Goto(t, "select") /\ tx' = [tx EXCEPT ![c] = disk]
  /\ UNCHANGED <<disk, begun, told, runs>>

\* BEGIN IMMEDIATE fails within a transaction, and when it has waited too long
\* for the write lock.
Begin(t) ==
  LET c == ConnectionOf[t] IN
  /\ call[t].pc = "begin"
  /\ IF InTransaction(c) \/ LockedOut(c)
     THEN Goto(t, "rollback") /\ UNCHANGED tx
     ELSE Goto(t, "select") /\ tx' = [tx EXCEPT ![c] = disk]
  /\ UNCHANGED <<disk, begun, told, runs>>

\* The approval row decides; a grant finds out whether it comes too late.
Select(t) ==
  LET approval == View(ConnectionOf[t])[call[t].on].approval IN
  /\ call[t].pc = "select"
  /\ \/ /\ approval \in ApprovalFrom[call[t].op]
        /\ \E late \in BOOLEAN :
             call' = [call EXCEPT ![t] =
               [pc |-> "update_approval",
                op |-> IF @.op = "grant" /\ late THEN "expire" ELSE @.op, on |-> @.on]]
     \/ /\ approval \notin ApprovalFrom[call[t].op]
        /\ Goto(t, "rollback")
  /\ UNCHANGED <<disk, tx, begun, told, runs>>

\* An UPDATE: python begins a transaction if there is none, the statement
\* takes the write lock whether or not a row matches, and when it cannot get
\* the lock the transaction stays begun.  A row that matches is set by new.
Update(t, matches, new, next, otherwise) ==
  LET c == ConnectionOf[t]
      e == call[t].on
      rows == View(c)
  IN  \/ /\ ~LockedOut(c)
         /\ begun' = begun \ {c}
         /\ \/ /\ matches
               /\ tx' = [tx EXCEPT ![c] = [rows EXCEPT ![e] = new]]
               /\ Goto(t, next)
            \/ /\ ~matches
               /\ tx' = [tx EXCEPT ![c] = rows]
               /\ Goto(t, otherwise)
      \/ /\ LockedOut(c) \/ c \in begun
         /\ begun' = begun \cup {c}
         /\ Goto(t, otherwise)
         /\ UNCHANGED tx

UpdateApproval(t) ==
  LET row == View(ConnectionOf[t])[call[t].on]
      op  == call[t].op
  IN  /\ call[t].pc = "update_approval"
      /\ Update(t, row.approval \in ApprovalFrom[op],
                   [row EXCEPT !.approval = ApprovalTo[op]], "update_status", "rollback")
      /\ UNCHANGED <<disk, told, runs>>

\* Mutant: "AND status = ?" is missing.
UpdateStatusUncompared(t) ==
  LET row == View(ConnectionOf[t])[call[t].on]
      op  == call[t].op
  IN  /\ call[t].pc = "update_status"
      /\ Update(t, TRUE, [row EXCEPT !.status = StatusTo[op]], "commit", "rollback")
      /\ UNCHANGED <<disk, told, runs>>

\* _transition_execution_in_tx rolls back when the row has moved on;
\* transition_execution raises and leaves its transaction open.
UpdateStatus(t) ==
  LET row == View(ConnectionOf[t])[call[t].on]
      op  == call[t].op
  IN  /\ call[t].pc = "update_status"
      /\ Update(t, row.status = StatusFrom[op],
                   [row EXCEPT !.status = StatusTo[op]], "commit",
                   IF op \in Transactions THEN "rollback" ELSE "idle")
      /\ UNCHANGED <<disk, told, runs>>

\* The statement that ends the transaction of the connection, whoever began it.
EndTransaction(c) ==
  /\ tx' = [tx EXCEPT ![c] = NoTransaction]
  /\ begun' = begun \ {c}

\* An expiry raises inside the try, so a ROLLBACK follows; a grant or denial is
\* answered; after the others comes their event.
Commit(t) ==
  LET op == call[t].op
      answers == op \in {"grant", "deny"}
  IN  /\ call[t].pc = "commit"
      /\ disk' = View(ConnectionOf[t])
      /\ EndTransaction(ConnectionOf[t])
      /\ Goto(t, IF answers THEN "idle" ELSE IF op = "expire" THEN "rollback" ELSE "append_event")
      /\ told' = IF answers THEN told \cup {<<op, call[t].on>>} ELSE told
      /\ UNCHANGED runs

\* append_event inserts and commits (the rows it adds are EventChain's): its
\* COMMIT ends whatever is open on the connection.  A consumption then goes on
\* to the function; without the write lock the call raises.
AppendEvent(t) ==
  LET c == ConnectionOf[t]
      op == call[t].op
  IN  /\ call[t].pc = "append_event"
      /\ \/ /\ ~LockedOut(c)
            /\ disk' = View(c)
            /\ EndTransaction(c)
            /\ Goto(t, IF op = "consume" THEN "run" ELSE "idle")
            /\ told' = IF op = "consume" THEN told ELSE told \cup {<<op, call[t].on>>}
         \/ /\ LockedOut(c) \/ c \in begun
            /\ begun' = begun \cup {c}
            /\ Goto(t, "idle")
            /\ UNCHANGED <<disk, tx, told>>
      /\ UNCHANGED runs

\* Mutant: an error leaves the transaction open.
RollbackNever(t) ==
  /\ call[t].pc = "rollback"
  /\ Goto(t, "idle")
  /\ UNCHANGED <<disk, tx, begun, told, runs>>

\* ROLLBACK, which itself fails when there is no transaction; either way the
\* call raises.
Rollback(t) ==
  /\ call[t].pc = "rollback"
  /\ EndTransaction(ConnectionOf[t])
  /\ Goto(t, "idle")
  /\ UNCHANGED <<disk, told, runs>>

\* The guarded function returns; its outcome (here: success) is then recorded.
RunFunction(t) ==
  /\ call[t].pc = "run"
  /\ runs' = [runs EXCEPT ![call[t].on] = @ + 1]
  /\ call' = [call EXCEPT ![t] = [pc |-> "update_status", op |-> "finish", on |-> @.on]]
  /\ UNCHANGED <<disk, tx, begun, told>>

\* The process of a connection dies.
Die(c) ==
  /\ InTransaction(c) \/ \E t \in Threads : ConnectionOf[t] = c /\ call[t] # NoCall
  /\ EndTransaction(c)
  /\ call' = [t \in Threads |-> IF ConnectionOf[t] = c THEN NoCall ELSE call[t]]
  /\ UNCHANGED <<disk, told, runs>>

Next ==
  \/ \E t \in Threads :
       \/ \E e \in Executions :
            \E op \in {"grant", "deny", "consume", "cancel_waiting", "cancel_approved"} :
              Call(t, op, e)
       \/ Begin(t) \/ Select(t) \/ UpdateApproval(t) \/ UpdateStatus(t)
       \/ Commit(t) \/ AppendEvent(t) \/ Rollback(t) \/ RunFunction(t)
  \/ \E c \in Connections : Die(c)

Spec == Init /\ [][Next]_vars

-----------------------------------------------------------------------------
(* Properties *)

\* Every variable stays in its domain, and a database has one writer at most
\* (approval_requests, execution_records, in_transaction).
TypeOK ==
  /\ disk \in Tables
  /\ tx \in [Connections -> Tables \cup {NoTransaction}]
  /\ \A c, d \in Connections :
       tx[c] # NoTransaction /\ tx[d] # NoTransaction => c = d
  /\ begun \subseteq {c \in Connections : tx[c] = NoTransaction}
  /\ call \in [Threads ->
       [pc : {"idle", "begin", "select", "update_approval", "update_status",
              "commit", "append_event", "rollback", "run"},
        op : Operations \cup {"none"}, on : Executions \cup {"none"}]]
  /\ \A t \in Threads :
       /\ call[t].pc # "idle" => call[t].op \in Operations /\ call[t].on \in Executions
       /\ call[t].pc \in {"begin", "select", "update_approval"} => call[t].op \in Transactions
  /\ told \subseteq Operations \X Executions
  /\ runs \in [Executions -> Nat]

\* An approval is consumed once ("one-time approval consume", CHANGELOG.md):
\* however threads resume, the guarded function is run at most once.
ConsumedOnce == \A e \in Executions : runs[e] <= 1

\* What an operator or a caller was told stays true: no later ROLLBACK, crash or
\* late answer takes a decision back (grant_approval, deny_approval).
AnswersHold ==
  \A e \in Executions :
    /\ <<"grant", e>> \in told => disk[e].approval \in {"GRANTED", "CONSUMED"}
    /\ <<"deny", e>> \in told => disk[e] = [approval |-> "DENIED", status |-> "DENIED"]
    /\ <<"cancel_waiting", e>> \in told \/ <<"cancel_approved", e>> \in told
         => disk[e].status = "CANCELLED" /\ runs[e] = 0
    /\ runs[e] > 0 => disk[e].approval = "CONSUMED"

\* A refused transition leaves its transaction open and the database locked,
\* but with nothing in it that a later commit could bring to light
\* (transition_execution raises without a rollback).
LeftOpenIsEmpty ==
  \A c \in Connections :
    /\ tx[c] # NoTransaction
    /\ \A t \in Threads : ConnectionOf[t] = c => call[t] = NoCall
    => tx[c] = disk

Promise == INSTANCE ApprovalDecisions WITH rows <- disk

\* Whatever order the statements of several processes run in, what is committed
\* changes by whole decisions only (BEGIN IMMEDIATE ... COMMIT).
ImplementsDecisions == Promise!Spec
=============================================================================
