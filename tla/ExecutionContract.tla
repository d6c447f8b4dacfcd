-------------------------- MODULE ExecutionContract --------------------------
(***************************************************************************)
(* What a controlled execution promises to the agent that requests it and  *)
(* to the operator who audits it, with no engine, store, event or thread:  *)
(* the status of an execution moves along the lifecycle only, the guarded  *)
(* function is called at most once, after the execution was authorised by  *)
(* an ALLOW decision or by an approval, and only while it is EXECUTING; a  *)
(* SUCCEEDED execution is one whose function was called.                   *)
(***************************************************************************)
EXTENDS Naturals, StateMachine

CONSTANT Executions

VARIABLES
  status,      \* lifecycle status of each execution
  authorised,  \* executions with an ALLOW or approved decision on record
  calls        \* how many times each guarded function has been called

vars == <<status, authorised, calls>>

Init ==
  /\ status = [e \in Executions |-> NoRecord]
  /\ authorised = {}
  /\ calls = [e \in Executions |-> 0]

Request(e) ==
  /\ status[e] = NoRecord
  /\ status' = [status EXCEPT ![e] = "REQUESTED"]
  /\ UNCHANGED <<authorised, calls>>

\* A decision that lets nothing run: evaluation, block, denial, expiry,
\* cancellation, failure, or the wait for an approval.
Move(e, to) ==
  /\ to \notin {"APPROVED", "EXECUTING", "SUCCEEDED"}
  /\ AssertTransition(status[e], to)
  /\ status' = [status EXCEPT ![e] = to]
  /\ UNCHANGED <<authorised, calls>>

\* The policy's ALLOW goes on record.
Allow(e) ==
  /\ status[e] = "EVALUATED"
  /\ authorised' = authorised \cup {e}
  /\ UNCHANGED <<status, calls>>

Approve(e) ==
  /\ status[e] = "WAITING_APPROVAL"
  /\ status' = [status EXCEPT ![e] = "APPROVED"]
  /\ authorised' = authorised \cup {e}
  /\ UNCHANGED calls

Start(e) ==
  /\ e \in authorised
  /\ AssertTransition(status[e], "EXECUTING")
  /\ status' = [status EXCEPT ![e] = "EXECUTING"]
  /\ UNCHANGED <<authorised, calls>>

Call(e) ==
  /\ status[e] = "EXECUTING"
  /\ calls[e] = 0
  /\ calls' = [calls EXCEPT ![e] = 1]
  /\ UNCHANGED <<status, authorised>>

Succeed(e) ==
  /\ status[e] = "EXECUTING"
  /\ calls[e] = 1
  /\ status' = [status EXCEPT ![e] = "SUCCEEDED"]
  /\ UNCHANGED <<authorised, calls>>

Next ==
  \E e \in Executions :
    \/ Request(e) \/ Allow(e) \/ Approve(e) \/ Start(e) \/ Call(e) \/ Succeed(e)
    \/ \E to \in Statuses : Move(e, to)

Spec == Init /\ [][Next]_vars

-----------------------------------------------------------------------------
(* What follows from the contract *)

\* The function is called once at most, only with an authorisation on record and
\* not before the execution is EXECUTING; SUCCEEDED is said only of an execution
\* that was called (_begin_execute and _run_fn_body of execution/engine.py).
Promises ==
  \A e \in Executions :
    /\ calls[e] \in {0, 1}
    /\ calls[e] = 1 => status[e] \in {"EXECUTING", "SUCCEEDED", "FAILED", "CANCELLED"}
    /\ calls[e] = 1 \/ status[e] \in {"APPROVED", "EXECUTING"} => e \in authorised
    /\ status[e] = "SUCCEEDED" => calls[e] = 1

\* An execution that has an outcome keeps it, and is not called any more
\* (assert_transition and the compare-and-set of transition).
KeepsOutcomes ==
  \A e \in Executions :
    status[e] \in TERMINAL_STATUSES => status'[e] = status[e] /\ calls'[e] = calls[e]

OutcomeIsFinal == [][KeepsOutcomes]_vars
=============================================================================
