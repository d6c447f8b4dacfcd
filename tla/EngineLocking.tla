---------------------------- MODULE EngineLocking ----------------------------
(***************************************************************************)
(* The engine over one SQLite file, with its write lock.  Each thread has  *)
(* a connection.  Python opens a transaction before a statement that       *)
(* writes; when the statement is refused (a transition whose row has moved *)
(* on, an INSERT whose key is taken) transition_execution,                 *)
(* upsert_execution_record and register_idempotency leave it open, and     *)
(* with it the lock, until the connection next commits.  Meanwhile the     *)
(* writes of every other connection time out and raise, and the calls they *)
(* belong to are left where they are.                                      *)
(*                                                                         *)
(* ExecutionEngine lets any store call fail, and any thread die (Crash);   *)
(* here threads live, and the store calls that fail are these.             *)
(***************************************************************************)
EXTENDS ExecutionEngine

VARIABLES
  holder,    \* the thread whose connection has a transaction open, or None
  \* history: the executions whose own call raised from a locked store
  cutShort

lockingVars == <<vars, holder, cutShort>>

\* The steps that are, or end in, a statement that writes.
Writing == PC \ {"idle", "duplicate", "call", "load_approval"}

\* The steps of the call that carries an execution, from its record to its
\* outcome or its rest: not those of a submission before the INSERT, of a
\* cancellation or of a resume that has not consumed the approval.
Carrying ==
  {"log_requested", "delegation", "evaluated", "policy", "log_policy", "enforce",
   "create_approval", "log_prompt", "prompt", "log_granted", "begin",
   "log_started", "call", "succeed", "fail"}

\* The first statement of a call that may write.  A call that timed out has left
\* its connection in a transaction without the lock, where BEGIN IMMEDIATE is
\* refused, and an earlier read may be out of date.
FirstWrites == {"register", "insert", "consume", "cancel_waiting", "cancel_approved"}

LockedOut(t) == holder \notin {None, t}

LockingInit == Init /\ holder = None /\ cutShort = {}

\* The statement changed no row: nothing is committed and the caller raises,
\* but for a key that is taken.  An UPDATE of the decision always applies.
LeftOpen(t) == UNCHANGED tables /\ pc'[t] \in {"idle", "duplicate"}

\* A step with the lock at hand.  A statement that applies is committed, with
\* whatever its connection had open; consume_approval rolls back instead.
Proceed(t) ==
  /\ pc[t] \in Writing => ~LockedOut(t)
  /\ pc[t] = "consume" => holder # t
  /\ Step(t)
  /\ holder' = IF pc[t] \notin Writing THEN holder
               ELSE IF pc[t] # "consume" /\ LeftOpen(t) THEN t ELSE None
  /\ UNCHANGED cutShort

\* BEGIN IMMEDIATE in a transaction raises, and the handler's ROLLBACK ends it.
BeginTwice(t) ==
  /\ pc[t] = "consume"
  /\ holder = t
  /\ holder' = None
  /\ Goto(t, "idle")
  /\ UNCHANGED <<tables, overdue, history, cutShort>>

\* "database is locked": after the five seconds a connection waits for the lock,
\* or at once where its transaction has read an older state.
GiveUp(t) ==
  /\ \/ pc[t] \in Writing /\ LockedOut(t)
     \/ pc[t] \in FirstWrites /\ holder = None
  /\ Goto(t, "idle")
  /\ cutShort' = cutShort \cup (IF pc[t] \in Carrying THEN {on[t]} ELSE {})
  /\ UNCHANGED <<tables, overdue, history, holder>>

LockingStep(t) == Proceed(t) \/ BeginTwice(t) \/ GiveUp(t)

\* The statements of an operator need the lock as well; the clock does not.
LockingOperator(e) ==
  /\ \/ holder = None /\ (GrantApproval(e) \/ DenyApproval(e))
     \/ Deadline(e)
  /\ UNCHANGED <<holder, cutShort>>

LockingNext ==
  \/ \E t \in Threads :
       \/ LockingStep(t)
       \/ Begin(t) /\ UNCHANGED <<holder, cutShort>>
  \/ \E e \in Executions : LockingOperator(e)

\* A running thread keeps running: the policy, the guarded function and the
\* approval provider return (the provider has a timeout), and a connection
\* waits for the lock for a bounded time.
LockingSpec ==
  LockingInit /\ [][LockingNext]_lockingVars
  /\ \A t \in Threads : WF_lockingVars(LockingStep(t))

-----------------------------------------------------------------------------
(* Properties *)

\* The executions that have come to an outcome, or rest where a human decision
\* or a resume is awaited.
Settled(e) ==
  \/ status[e] \in TERMINAL_STATUSES
  \/ ApprovalMode[e] = "deferred" /\ status[e] \in {"WAITING_APPROVAL", "APPROVED"}

\* With threads that live, no execution is left half-way but one whose own call
\* met a store that the refused statement of another connection had left locked
\* (_run_fn_body, transition_execution).  What is refused by its row, and a
\* lock that is released in time, leave none behind.
EveryExecutionSettles ==
  \A e \in Executions :
    status[e] # NoRecord ~> Settled(e) \/ e \in cutShort
=============================================================================
