--------------------------- MODULE ExecutionEngine ---------------------------
(***************************************************************************)
(* The Python reference runtime: ExecutionEngine (execution/engine.py)     *)
(* over SQLiteExecutionStore (ledger/store.py).                            *)
(*                                                                         *)
(* A thread calls run_controlled, resume_after_approval or                 *)
(* cancel_execution; operators grant and deny approvals from the CLI.      *)
(* Every store call commits on its own, so one store call is one step, and *)
(* any other thread or operator may run, or the thread may die, between    *)
(* two of them.  Threads have a store connection each; two threads may be  *)
(* in different processes that share the ledger file.                      *)
(***************************************************************************)
EXTENDS Naturals, Sequences, StateMachine

CONSTANTS
  Threads,       \* callers of the engine
  Executions,    \* execution ids
  Keys,          \* idempotency keys
  NoKey,         \* an execution requested without a key
  KeyOf,         \* the idempotency key of each execution's context
  Params,        \* action parameters, as their hashes
  None,          \* NULL column, idle thread
  ApprovalMode,  \* "sync" or "deferred": mode of the engine an id is run by
  OnError        \* "fail_closed" or "fail_open"

ASSUME EngineAssumption ==
  /\ NoKey \notin Keys
  /\ KeyOf \in [Executions -> Keys \cup {NoKey}]
  /\ None \notin Executions \cup Params
  /\ None \notin {"PENDING", "GRANTED", "DENIED", "EXPIRED", "CONSUMED"}
  /\ ApprovalMode \in [Executions -> {"sync", "deferred"}]
  /\ OnError \in {"fail_closed", "fail_open"}

VARIABLES
  \* execution_records
  status, decision, approvedBy, hash,
  \* idempotency_keys, approval_requests, execution_events
  keyOwner, approval, events,
  overdue,   \* approvals whose expires_at is in the past
  \* the threads: next step, the execution id and parameters of its context
  pc, on, given,
  \* history: parameters of each call of the guarded function, and the
  \* executions some caller was told (ReplayError) to have succeeded before
  calls, replayed

records == <<status, decision, approvedBy, hash>>
tables  == <<records, keyOwner, approval, events>>
history == <<calls, replayed>>
threads == <<pc, on, given>>
vars    == <<tables, overdue, threads, history>>

Decisions == {"ALLOW", "REQUIRE_APPROVAL", "BLOCK"}
ApprovalStatuses == {"PENDING", "GRANTED", "DENIED", "EXPIRED", "CONSUMED"}
EventTypes ==
  {"ACTION_REQUESTED", "CONTEXT_RESOLVED", "POLICY_EVALUATED", "ACTION_BLOCKED",
   "APPROVAL_REQUESTED", "APPROVAL_GRANTED", "APPROVAL_DENIED",
   "APPROVAL_EXPIRED", "ACTION_STARTED", "ACTION_SUCCEEDED", "ACTION_FAILED",
   "ACTION_CANCELLED"}

\* Steps that append one ledger event: its type, and the step after it.
LogSteps ==
  {"log_requested", "log_policy", "log_blocked", "log_pending", "log_prompt",
   "log_denied", "log_expired", "log_granted", "log_started",
   "log_succeeded", "log_failed", "log_cancelled"}

\* Mutant: a prompt that timed out is logged as a denial.
EventOfTimeoutAsDenial(step) ==
  CASE step = "log_requested" -> "ACTION_REQUESTED"
    [] step = "log_policy"    -> "POLICY_EVALUATED"
    [] step = "log_blocked"   -> "ACTION_BLOCKED"
    [] step \in {"log_pending", "log_prompt"}  -> "APPROVAL_REQUESTED"
    [] step \in {"log_denied", "log_expired"} -> "APPROVAL_DENIED"
    [] step = "log_granted"   -> "APPROVAL_GRANTED"
    [] step = "log_started"   -> "ACTION_STARTED"
    [] step = "log_succeeded" -> "ACTION_SUCCEEDED"
    [] step = "log_failed"    -> "ACTION_FAILED"
    [] step = "log_cancelled" -> "ACTION_CANCELLED"

EventOf(step) ==
  CASE step = "log_requested" -> "ACTION_REQUESTED"
    [] step = "log_policy"    -> "POLICY_EVALUATED"
    [] step = "log_blocked"   -> "ACTION_BLOCKED"
    [] step \in {"log_pending", "log_prompt"} -> "APPROVAL_REQUESTED"
    [] step = "log_denied"    -> "APPROVAL_DENIED"
    [] step = "log_expired"   -> "APPROVAL_EXPIRED"
    [] step = "log_granted"   -> "APPROVAL_GRANTED"
    [] step = "log_started"   -> "ACTION_STARTED"
    [] step = "log_succeeded" -> "ACTION_SUCCEEDED"
    [] step = "log_failed"    -> "ACTION_FAILED"
    [] step = "log_cancelled" -> "ACTION_CANCELLED"

AfterLog(step) ==
  CASE step = "log_requested" -> "delegation"
    [] step = "log_policy"    -> "enforce"
    [] step = "log_prompt"    -> "prompt"
    [] step = "log_granted"   -> "begin"
    [] step = "log_started"   -> "call"
    [] OTHER                  -> "idle"     \* the call returns or raises

PC ==
  LogSteps \cup
  {"idle", "register", "duplicate", "insert", "delegation", "evaluated",
   "policy", "enforce", "create_approval", "prompt", "begin", "call",
   "succeed", "fail", "load_approval", "consume",
   "cancel_waiting", "cancel_approved"}

Logged(e, type) == \E i \in DOMAIN events[e] : events[e][i] = type

-----------------------------------------------------------------------------
Init ==
  /\ status     = [e \in Executions |-> NoRecord]
  /\ decision   = [e \in Executions |-> "ALLOW"]
  /\ approvedBy = [e \in Executions |-> FALSE]
  /\ hash       = [e \in Executions |-> None]
  /\ keyOwner   = [k \in Keys |-> None]
  /\ approval   = [e \in Executions |-> None]
  /\ events     = [e \in Executions |-> <<>>]
  /\ overdue    = {}
  /\ pc         = [t \in Threads |-> "idle"]
  /\ on         = [t \in Threads |-> None]
  /\ given      = [t \in Threads |-> None]
  /\ calls      = [e \in Executions |-> <<>>]
  /\ replayed   = {}

\* The thread goes on to a step of the same call, or leaves the call: it
\* returns, raises to its caller, or its process dies.
Goto(t, step) ==
  IF step = "idle"
  THEN /\ pc'    = [pc EXCEPT ![t] = "idle"]
       /\ on'    = [on EXCEPT ![t] = None]
       /\ given' = [given EXCEPT ![t] = None]
  ELSE /\ pc' = [pc EXCEPT ![t] = step]
       /\ UNCHANGED <<on, given>>

Enter(t, e, p, step) ==
  /\ pc[t] = "idle"
  /\ pc'    = [pc EXCEPT ![t] = step]
  /\ on'    = [on EXCEPT ![t] = e]
  /\ given' = [given EXCEPT ![t] = p]
  /\ UNCHANGED <<tables, overdue, history>>

\* Mutant: the UPDATE without "AND status = ?".
TransitionWithoutCompare(t, from, to, next) ==
  /\ status' = [status EXCEPT ![on[t]] = to]
  /\ Goto(t, next)

\* transition_execution: a compare-and-set on the status column; the thread
\* raises when the row no longer has the status it expects.
Transition(t, from, to, next) ==
  LET e == on[t]
      applies == AssertTransition(from, to) /\ status[e] = from
  IN  \/ /\ applies
         /\ status' = [status EXCEPT ![e] = to]
         /\ Goto(t, next)
      \/ /\ ~applies
         /\ UNCHANGED status
         /\ Goto(t, "idle")

\* append_event (the chain of hashes is the subject of module EventChain).
Append_event(e, type) == events' = [events EXCEPT ![e] = Append(@, type)]

RecordEvent(t) ==
  /\ pc[t] \in LogSteps
  /\ Append_event(on[t], EventOf(pc[t]))
  /\ Goto(t, AfterLog(pc[t]))
  /\ UNCHANGED <<records, keyOwner, approval, overdue, history>>

-----------------------------------------------------------------------------
(* run_controlled *)

RunControlled(t, e, p) ==
  Enter(t, e, p, IF KeyOf[e] # NoKey THEN "register" ELSE "insert")

\* Mutant: INSERT OR REPLACE, the last request owns the key.
RegisterIdempotencyLastWins(t) ==
  /\ pc[t] = "register"
  /\ keyOwner' = [keyOwner EXCEPT ![KeyOf[on[t]]] = on[t]]
  /\ Goto(t, "insert")
  /\ UNCHANGED <<records, approval, events, overdue, history>>

\* register_idempotency: the PRIMARY KEY makes the first INSERT win.
RegisterIdempotency(t) ==
  LET k == KeyOf[on[t]] IN
  /\ pc[t] = "register"
  /\ \/ /\ keyOwner[k] = None
        /\ keyOwner' = [keyOwner EXCEPT ![k] = on[t]]
        /\ Goto(t, "insert")
     \/ /\ keyOwner[k] # None
        /\ UNCHANGED keyOwner
        /\ Goto(t, "duplicate")
  /\ UNCHANGED <<records, approval, events, overdue, history>>

\* Mutant: any duplicate that was not blocked is reported as a replay.
DuplicateAlwaysReplay(t) ==
  LET prior == keyOwner[KeyOf[on[t]]] IN
  /\ pc[t] = "duplicate"
  /\ replayed' = IF status[prior] \notin {NoRecord, "BLOCKED"}
                 THEN replayed \cup {prior} ELSE replayed
  /\ Goto(t, "idle")
  /\ UNCHANGED <<tables, overdue, calls>>

\* get_execution_by_idempotency, then ReplayError, BlockedError or
\* ConflictError: the call never goes further.
Duplicate(t) ==
  LET prior == keyOwner[KeyOf[on[t]]] IN
  /\ pc[t] = "duplicate"
  /\ replayed' = IF status[prior] = "SUCCEEDED"
                 THEN replayed \cup {prior} ELSE replayed
  /\ Goto(t, "idle")
  /\ UNCHANGED <<tables, overdue, calls>>

\* upsert_execution_record is a plain INSERT: a row of that id makes it raise.
InsertRecord(t) ==
  LET e == on[t] IN
  /\ pc[t] = "insert"
  /\ \/ /\ status[e] = NoRecord
        /\ status'   = [status EXCEPT ![e] = "REQUESTED"]
        /\ hash'     = [hash EXCEPT ![e] = given[t]]
        /\ Goto(t, "log_requested")
     \/ /\ status[e] # NoRecord
        /\ UNCHANGED <<status, hash>>
        /\ Goto(t, "idle")
  /\ UNCHANGED <<decision, approvedBy, keyOwner, approval, events, overdue, history>>

\* _check_delegation: the chain authorises the action, or the record is blocked.
CheckDelegation(t) ==
  /\ pc[t] = "delegation"
  /\ \/ /\ Append_event(on[t], "CONTEXT_RESOLVED")
        /\ Goto(t, "evaluated")
        /\ UNCHANGED status
     \/ /\ Transition(t, "REQUESTED", "BLOCKED", "log_blocked")
        /\ UNCHANGED events
  /\ UNCHANGED <<decision, approvedBy, hash, keyOwner, approval, overdue, history>>

BecomeEvaluated(t) ==
  /\ pc[t] = "evaluated"
  /\ Transition(t, "REQUESTED", "EVALUATED", "policy")
  /\ UNCHANGED <<decision, approvedBy, hash, keyOwner, approval, events, overdue, history>>

\* policy.evaluate returns a decision, which update_execution_record stores...
EvaluatePolicy(t) ==
  /\ pc[t] = "policy"
  /\ \E d \in Decisions : decision' = [decision EXCEPT ![on[t]] = d]
  /\ Goto(t, "log_policy")
  /\ UNCHANGED <<status, approvedBy, hash, keyOwner, approval, events, overdue, history>>

\* Mutant: the configured on_error mode is ignored.
HandlePolicyErrorOpen(t) ==
  /\ pc[t] = "policy"
  /\ Transition(t, "EVALUATED", "EXECUTING", "log_started")
  /\ UNCHANGED <<decision, approvedBy, hash, keyOwner, approval, events, overdue, history>>

\* ... or raises: _handle_policy_error.
HandlePolicyError(t) ==
  /\ pc[t] = "policy"
  /\ IF OnError = "fail_open"
     THEN Transition(t, "EVALUATED", "EXECUTING", "log_started")
     ELSE Transition(t, "EVALUATED", "FAILED", "idle")
  /\ UNCHANGED <<decision, approvedBy, hash, keyOwner, approval, events, overdue, history>>

Enforce(t) ==
  LET d == decision[on[t]] IN
  /\ pc[t] = "enforce"
  /\ \/ d = "BLOCK" /\ Transition(t, "EVALUATED", "BLOCKED", "log_blocked")
     \/ d = "ALLOW" /\ Transition(t, "EVALUATED", "EXECUTING", "log_started")
     \/ /\ d = "REQUIRE_APPROVAL"
        /\ Transition(t, "EVALUATED", "WAITING_APPROVAL",
             IF ApprovalMode[on[t]] = "deferred" THEN "create_approval"
                                                 ELSE "log_prompt")
  /\ UNCHANGED <<decision, approvedBy, hash, keyOwner, approval, events, overdue, history>>

\* _deferred_approval_path: the approval row is inserted by a store call of
\* its own, after the one that made the execution WAITING_APPROVAL.
CreateApprovalRequest(t) ==
  /\ pc[t] = "create_approval"
  /\ approval' = [approval EXCEPT ![on[t]] = "PENDING"]
  /\ Goto(t, "log_pending")
  /\ UNCHANGED <<records, keyOwner, events, overdue, history>>

\* _approval_path: the provider answers; it answers "timeout" on its own.
Prompt(t) ==
  LET e == on[t] IN
  /\ pc[t] = "prompt"
  /\ \/ /\ Transition(t, "WAITING_APPROVAL", "APPROVED", "log_granted")
        /\ approvedBy' = [approvedBy EXCEPT ![e] = @ \/ status[e] = "WAITING_APPROVAL"]
     \/ /\ Transition(t, "WAITING_APPROVAL", "DENIED", "log_denied")
        /\ UNCHANGED approvedBy
     \/ /\ Transition(t, "WAITING_APPROVAL", "EXPIRED", "log_expired")
        /\ UNCHANGED approvedBy
  /\ UNCHANGED <<decision, hash, keyOwner, approval, events, overdue, history>>

\* Mutant: the inline approval path forgets ACTION_STARTED.
BeginExecuteUnlogged(t) ==
  /\ pc[t] = "begin"
  /\ Transition(t, "APPROVED", "EXECUTING", "call")
  /\ UNCHANGED <<decision, approvedBy, hash, keyOwner, approval, events, overdue, history>>

BeginExecute(t) ==
  /\ pc[t] = "begin"
  /\ Transition(t, "APPROVED", "EXECUTING", "log_started")
  /\ UNCHANGED <<decision, approvedBy, hash, keyOwner, approval, events, overdue, history>>

\* _run_fn_body: the guarded function, with its interceptors, returns or raises.
CallFunction(t) ==
  /\ pc[t] = "call"
  /\ calls' = [calls EXCEPT ![on[t]] = Append(@, given[t])]
  /\ Goto(t, "succeed") \/ Goto(t, "fail")
  /\ UNCHANGED <<tables, overdue, replayed>>

\* Mutant: the except branch re-raises without recording the failure.
FinishFunctionSilentFailure(t) ==
  /\ \/ pc[t] = "succeed" /\ Transition(t, "EXECUTING", "SUCCEEDED", "log_succeeded")
     \/ pc[t] = "fail" /\ Goto(t, "idle") /\ UNCHANGED status
  /\ UNCHANGED <<decision, approvedBy, hash, keyOwner, approval, events, overdue, history>>

FinishFunction(t) ==
  /\ \/ pc[t] = "succeed" /\ Transition(t, "EXECUTING", "SUCCEEDED", "log_succeeded")
     \/ pc[t] = "fail"    /\ Transition(t, "EXECUTING", "FAILED", "log_failed")
  /\ UNCHANGED <<decision, approvedBy, hash, keyOwner, approval, events, overdue, history>>

-----------------------------------------------------------------------------
(* resume_after_approval *)

\* Mutant: the parameter hash is not compared.
ResumeAfterApprovalAnyParameters(t, e, p) ==
  /\ status[e] \notin
       {NoRecord, "WAITING_APPROVAL", "DENIED", "EXPIRED", "BLOCKED", "CANCELLED"}
  /\ Enter(t, e, p, "load_approval")

\* Reads the record; every other status or other parameters raise, and
\* nothing has been written.
ResumeAfterApproval(t, e, p) ==
  /\ status[e] \notin
       {NoRecord, "WAITING_APPROVAL", "DENIED", "EXPIRED", "BLOCKED", "CANCELLED"}
  /\ p = hash[e]
  /\ Enter(t, e, p, "load_approval")

LoadApproval(t) ==
  LET e == on[t] IN
  /\ pc[t] = "load_approval"
  /\ Goto(t, IF approval[e] # None /\ e \notin overdue THEN "consume" ELSE "idle")
  /\ UNCHANGED <<tables, overdue, history>>

\* Mutant: consumption trusts the approval that LoadApproval read.
ConsumeApprovalUnchecked(t) ==
  /\ pc[t] = "consume"
  /\ approval' = [approval EXCEPT ![on[t]] = "CONSUMED"]
  /\ status'   = [status EXCEPT ![on[t]] = "EXECUTING"]
  /\ Goto(t, "log_started")
  /\ UNCHANGED <<decision, approvedBy, hash, keyOwner, events, overdue, history>>

\* Mutant: consumption compares the approval row, not the execution row.
ConsumeApprovalOneTable(t) ==
  LET e == on[t] IN
  /\ pc[t] = "consume"
  /\ \/ /\ approval[e] = "GRANTED"
        /\ approval' = [approval EXCEPT ![e] = "CONSUMED"]
        /\ status'   = [status EXCEPT ![e] = "EXECUTING"]
        /\ Goto(t, "log_started")
     \/ /\ approval[e] # "GRANTED"
        /\ UNCHANGED <<approval, status>>
        /\ Goto(t, "idle")
  /\ UNCHANGED <<decision, approvedBy, hash, keyOwner, events, overdue, history>>

\* consume_approval_for_execution: one transaction on both tables, rolled
\* back as a whole when either row has moved on.
ConsumeApproval(t) ==
  LET e == on[t]
      applies == approval[e] = "GRANTED" /\ status[e] = "APPROVED"
  IN  /\ pc[t] = "consume"
      /\ \/ /\ applies
            /\ approval' = [approval EXCEPT ![e] = "CONSUMED"]
            /\ status'   = [status EXCEPT ![e] = "EXECUTING"]
            /\ Goto(t, "log_started")
         \/ /\ ~applies
            /\ UNCHANGED <<approval, status>>
            /\ Goto(t, "idle")
      /\ UNCHANGED <<decision, approvedBy, hash, keyOwner, events, overdue, history>>

-----------------------------------------------------------------------------
(* cancel_execution: the status is read, then compared and set *)

CancelExecution(t, e) ==
  \/ status[e] = "WAITING_APPROVAL" /\ Enter(t, e, None, "cancel_waiting")
  \/ status[e] = "APPROVED"         /\ Enter(t, e, None, "cancel_approved")

BecomeCancelled(t) ==
  /\ \/ /\ pc[t] = "cancel_waiting"
        /\ Transition(t, "WAITING_APPROVAL", "CANCELLED", "log_cancelled")
     \/ /\ pc[t] = "cancel_approved"
        /\ Transition(t, "APPROVED", "CANCELLED", "log_cancelled")
  /\ UNCHANGED <<decision, approvedBy, hash, keyOwner, approval, events, overdue, history>>

-----------------------------------------------------------------------------
(* The operator's transactions: each rolls back unless both rows apply *)

GrantApproval(e) ==
  /\ approval[e] = "PENDING"
  /\ status[e] = "WAITING_APPROVAL"
  /\ \/ /\ e \in overdue
        /\ approval' = [approval EXCEPT ![e] = "EXPIRED"]
        /\ status'   = [status EXCEPT ![e] = "EXPIRED"]
        /\ UNCHANGED approvedBy
     \/ /\ e \notin overdue
        /\ approval'   = [approval EXCEPT ![e] = "GRANTED"]
        /\ status'     = [status EXCEPT ![e] = "APPROVED"]
        /\ approvedBy' = [approvedBy EXCEPT ![e] = TRUE]
  /\ UNCHANGED <<decision, hash, keyOwner, events, overdue, threads, history>>

\* Mutant: the denial commits though the execution is no longer waiting.
DenyApprovalOneTable(e) ==
  /\ approval[e] = "PENDING"
  /\ approval' = [approval EXCEPT ![e] = "DENIED"]
  /\ status'   = IF status[e] = "WAITING_APPROVAL"
                 THEN [status EXCEPT ![e] = "DENIED"] ELSE status
  /\ UNCHANGED <<decision, approvedBy, hash, keyOwner, events, overdue, threads, history>>

DenyApproval(e) ==
  /\ approval[e] = "PENDING"
  /\ status[e] = "WAITING_APPROVAL"
  /\ approval' = [approval EXCEPT ![e] = "DENIED"]
  /\ status'   = [status EXCEPT ![e] = "DENIED"]
  /\ UNCHANGED <<decision, approvedBy, hash, keyOwner, events, overdue, threads, history>>

\* The clock passes the expires_at of an approval request.
Deadline(e) ==
  /\ approval[e] # None
  /\ overdue' = overdue \cup {e}
  /\ UNCHANGED <<tables, threads, history>>

\* A thread dies, or a store call fails ("database is locked") and raises,
\* between two commits: what is committed stays, the rest never happens.
Crash(t) ==
  /\ pc[t] # "idle"
  /\ Goto(t, "idle")
  /\ UNCHANGED <<tables, overdue, history>>

-----------------------------------------------------------------------------
\* The next step of a call that has begun.
Step(t) ==
  \/ RecordEvent(t)
  \/ RegisterIdempotency(t) \/ Duplicate(t) \/ InsertRecord(t)
  \/ CheckDelegation(t) \/ BecomeEvaluated(t)
  \/ EvaluatePolicy(t) \/ HandlePolicyError(t) \/ Enforce(t)
  \/ CreateApprovalRequest(t) \/ Prompt(t) \/ BeginExecute(t)
  \/ CallFunction(t) \/ FinishFunction(t)
  \/ LoadApproval(t) \/ ConsumeApproval(t)
  \/ BecomeCancelled(t)

Begin(t) ==
  \E e \in Executions :
    \/ \E p \in Params : RunControlled(t, e, p) \/ ResumeAfterApproval(t, e, p)
    \/ CancelExecution(t, e)

Operator(e) == GrantApproval(e) \/ DenyApproval(e) \/ Deadline(e)

Next ==
  \/ \E t \in Threads : Step(t) \/ Begin(t) \/ Crash(t)
  \/ \E e \in Executions : Operator(e)

Spec == Init /\ [][Next]_vars

-----------------------------------------------------------------------------
(* Properties *)

\* Every variable stays in its domain, the rows of the four tables included
\* (engine.py run_controlled, resume_after_approval; ledger/store.py tables).
TypeOK ==
  /\ status \in [Executions -> Statuses \cup {NoRecord}]
  /\ decision \in [Executions -> Decisions]
  /\ approvedBy \in [Executions -> BOOLEAN]
  /\ hash \in [Executions -> Params \cup {None}]
  /\ keyOwner \in [Keys -> Executions \cup {None}]
  /\ approval \in [Executions -> ApprovalStatuses \cup {None}]
  /\ events \in [Executions -> Seq(EventTypes)]
  /\ overdue \subseteq Executions
  /\ pc \in [Threads -> PC]
  /\ on \in [Threads -> Executions \cup {None}]
  /\ given \in [Threads -> Params \cup {None}]
  /\ calls \in [Executions -> Seq(Params \cup {None})]
  /\ replayed \subseteq Executions

\* An ALLOW decision that a policy took and that was logged, or an approver.
Authorised(e) ==
  \/ decision[e] = "ALLOW" /\ Logged(e, "POLICY_EVALUATED")
  \/ approvedBy[e]

\* However many threads submit, resume and cancel one execution, and wherever
\* they die, its guarded function is called at most once (_run_fn_body).
AtMostOneCall == \A e \in Executions : Len(calls[e]) <= 1

\* Of the executions requested under one idempotency key, at most one has its
\* function called (register_idempotency, run_controlled).
OneCallPerKey ==
  \A e, d \in Executions :
    e # d /\ KeyOf[e] = KeyOf[d] /\ KeyOf[e] # NoKey
      => calls[e] = <<>> \/ calls[d] = <<>>

\* The guarded function is called only when an ALLOW of the policy or an
\* approval is on record: the invariant of website/docs/architecture.md.
CallsAuthorised ==
  \A e \in Executions : calls[e] # <<>> => Authorised(e)

\* The function never runs with other parameters than those the record, and
\* so the operator who approved it, was shown (resume_after_approval).
CallsWithRecordedParameters ==
  \A e \in Executions : \A i \in DOMAIN calls[e] : calls[e][i] = hash[e]

\* A blocked, denied, expired or cancelled execution never had its function
\* called, whichever of cancel, grant, prompt and resume came first.
StoppedNeverCalled ==
  \A e \in Executions :
    status[e] \in {"BLOCKED", "DENIED", "EXPIRED", "CANCELLED"} => calls[e] = <<>>

\* The approval row and the execution row, written by separate store calls,
\* never contradict each other; only cancel leaves an approval behind.
ApprovalMatchesExecution ==
  \A e \in Executions :
    /\ approval[e] = "PENDING"  => status[e] \in {"WAITING_APPROVAL", "CANCELLED"}
    /\ approval[e] = "GRANTED"  => status[e] \in {"APPROVED", "CANCELLED"}
    /\ approval[e] = "DENIED"   => status[e] = "DENIED"
    /\ approval[e] = "EXPIRED"  => status[e] = "EXPIRED"
    /\ approval[e] = "CONSUMED" => status[e] \in {"EXECUTING", "SUCCEEDED", "FAILED"}
    /\ /\ ApprovalMode[e] = "deferred"
       /\ approvedBy[e]
       => approval[e] \in {"GRANTED", "CONSUMED"}

\* The status an execution must have once an event of this type is logged.
OutcomeOf ==
  [ACTION_BLOCKED |-> "BLOCKED", APPROVAL_DENIED |-> "DENIED",
   APPROVAL_EXPIRED |-> "EXPIRED", ACTION_CANCELLED |-> "CANCELLED",
   ACTION_SUCCEEDED |-> "SUCCEEDED", ACTION_FAILED |-> "FAILED"]

\* The ledger tells the truth about the outcome: an outcome event agrees with
\* the record for good, and there is one outcome event and one ACTION_STARTED
\* at most, although record and event are separate commits (_record_event).
LedgerTellsOutcome ==
  \A e \in Executions :
    /\ \A i \in DOMAIN events[e] :
         events[e][i] \in DOMAIN OutcomeOf => status[e] = OutcomeOf[events[e][i]]
    /\ \A i, j \in DOMAIN events[e] :
         /\ events[e][i] = events[e][j]
         /\ events[e][i] \in DOMAIN OutcomeOf \cup {"ACTION_STARTED"}
         => i = j

\* Nothing runs off the record: ACTION_STARTED is in the ledger before the
\* function is called, even if the thread dies right after (_begin_execute).
CallIsLoggedFirst ==
  \A e \in Executions : calls[e] # <<>> => Logged(e, "ACTION_STARTED")

\* A caller who is told that its key already succeeded may rely on it: the
\* prior execution succeeded and its function was called (ReplayError).
ReplayIsTruthful ==
  \A e \in replayed : status[e] = "SUCCEEDED" /\ calls[e] # <<>>

\* The engine implements the contract.
Contract == INSTANCE ExecutionContract WITH
  authorised <- {e \in Executions : Authorised(e)},
  calls      <- [e \in Executions |-> Len(calls[e])]

\* Every step of the engine and its operators is a step of the abstract
\* lifecycle or changes nothing of it (V1_SYNC_SEMANTICS.md).
ImplementsContract == Contract!Spec
=============================================================================
