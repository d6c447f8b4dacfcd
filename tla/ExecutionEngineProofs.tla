----------------------- MODULE ExecutionEngineProofs -----------------------
(***************************************************************************)
(* IInv is an inductive invariant of ExecutionEngine, for any numbers of   *)
(* threads, executions, keys and parameters, with and without crashes, and *)
(* the safety properties of the engine follow from it.  There is one lemma *)
(* per action; a leaf of Invariance is a lemma.  The second part adds what *)
(* the ledger says, and the refinement of ExecutionContract.               *)
(***************************************************************************)
EXTENDS ExecutionEngineInvariant, TLAPS

\* The empty ledger, with no call under way, satisfies the invariant.
LEMMA InitIInv == Init => IInv
<1> SUFFICES ASSUME Init PROVE IInv
  OBVIOUS
<1> USE EngineAssumption DEF Init, NoRecord
<1>1. TypeOK
  BY DEF TypeOK, PC, LogSteps, Decisions
<1>2. ContextInv /\ KeyInv
  BY DEF ContextInv, KeyInv, Driving, Running
<1>3. DrivingInv /\ RunningInv
  BY DEF DrivingInv, RunningInv, Driving, Running
<1>4. CallsInv /\ ReplayInv
  BY DEF CallsInv, ReplayInv
<1>5. ApprovalInv /\ AuthorisedInv
  BY DEF ApprovalInv, ApprovalMatchesExecution, AuthorisedInv
<1> QED
  BY <1>1, <1>2, <1>3, <1>4, <1>5 DEF IInv

\* A thread that leaves its call without writing disturbs nothing: this is
\* every raise, every lost compare-and-set, and every crash.
LEMMA LeaveInv ==
  ASSUME IInv, NEW t \in Threads, Goto(t, "idle"),
         UNCHANGED <<tables, overdue, history>>
  PROVE  IInv'
<1>1. /\ UNCHANGED <<status, decision, approvedBy, hash, keyOwner, approval, events>>
      /\ UNCHANGED <<overdue, calls, replayed>>
      /\ pc' = [pc EXCEPT ![t] = "idle"]
      /\ on' = [on EXCEPT ![t] = None]
      /\ given' = [given EXCEPT ![t] = None]
  BY DEF Goto, records, tables, history
<1> USE <1>1 DEF IInv
<1>2. TypeOK'
  BY DEF TypeOK, PC
<1>3. ContextInv'
  BY DEF TypeOK, ContextInv, Driving, Running
<1>4. KeyInv'
  BY DEF TypeOK, KeyInv
<1>5. DrivingInv'
  BY DEF TypeOK, DrivingInv, Driving, Logged
<1>6. RunningInv'
  BY DEF TypeOK, RunningInv, Running, Logged
<1>7. CallsInv' /\ ApprovalInv' /\ AuthorisedInv' /\ ReplayInv'
  BY DEF CallsInv, Logged, ApprovalInv, ApprovalMatchesExecution, AuthorisedInv,
         Authorised, ReplayInv
<1> QED
  BY <1>2, <1>3, <1>4, <1>5, <1>6, <1>7

\* REQUESTED becomes EVALUATED, or the compare-and-set is lost.
LEMMA BecomeEvaluatedInv ==
  ASSUME IInv, NEW t \in Threads, BecomeEvaluated(t)
  PROVE  IInv'
<1> DEFINE e == on[t]
<1>0. /\ e \in Executions
      /\ pc[t] \in {"evaluated"}
      /\ UNCHANGED <<decision, approvedBy, hash, keyOwner, approval, events, overdue, calls, replayed>>
  BY DEF BecomeEvaluated, IInv, ContextInv, records, tables, history
<1>1. CASE Goto(t, "idle") /\ UNCHANGED status
  BY <1>0, <1>1, LeaveInv DEF tables, records, history
<1>2. CASE /\ pc[t] = "evaluated"
           /\ status[e] = "REQUESTED" /\ status' = [status EXCEPT ![e] = "EVALUATED"]
           /\ Goto(t, "policy")
  <2>1. pc' = [pc EXCEPT ![t] = "policy"] /\ UNCHANGED <<on, given>>
    BY <1>2 DEF Goto
  <2> USE <1>0, <1>2, <2>1, EngineAssumption DEF IInv, NoRecord
  <2>2. TypeOK'
    BY DEF TypeOK, PC, LogSteps, Statuses, TERMINAL_STATUSES, ApprovalStatuses
  <2>3. ContextInv' /\ KeyInv'
    BY DEF TypeOK, ContextInv, KeyInv, Driving, Running
  <2>4. DrivingInv'
    BY DEF TypeOK, DrivingInv, Driving, Logged, ApprovalInv, Undecided
  <2>5. RunningInv'
    BY DEF TypeOK, RunningInv, CallsInv, Running, Logged
  <2>6. CallsInv' /\ ReplayInv'
    BY DEF TypeOK, CallsInv, RunningInv, Logged, ReplayInv
  <2>7. ApprovalInv' /\ AuthorisedInv'
    BY DEF TypeOK, DrivingInv, ApprovalInv, ApprovalMatchesExecution, Undecided,
           AuthorisedInv, Authorised, CallsInv, Logged
  <2> QED
    BY <2>2, <2>3, <2>4, <2>5, <2>6, <2>7
<1> QED
  BY <1>0, <1>1, <1>2 DEF BecomeEvaluated, Transition

\* The policy raised: fail open, or fail closed.
LEMMA HandlePolicyErrorInv ==
  ASSUME IInv, NEW t \in Threads, HandlePolicyError(t)
  PROVE  IInv'
<1> DEFINE e == on[t]
<1>0. /\ e \in Executions
      /\ pc[t] \in {"policy"}
      /\ UNCHANGED <<decision, approvedBy, hash, keyOwner, approval, events, overdue, calls, replayed>>
  BY DEF HandlePolicyError, IInv, ContextInv, records, tables, history
<1>1. CASE Goto(t, "idle") /\ UNCHANGED status
  BY <1>0, <1>1, LeaveInv DEF tables, records, history
<1>2. CASE /\ pc[t] = "policy"
           /\ status[e] = "EVALUATED" /\ status' = [status EXCEPT ![e] = "EXECUTING"]
           /\ Goto(t, "log_started")
           /\ OnError = "fail_open"
  <2>1. pc' = [pc EXCEPT ![t] = "log_started"] /\ UNCHANGED <<on, given>>
    BY <1>2 DEF Goto
  <2>a. /\ calls[e] = <<>>
        /\ \A u \in Threads : pc[u] \in Running => on[u] # e
    BY <1>0, <1>2 DEF IInv, CallsInv, RunningInv
  <2> USE <1>0, <1>2, <2>1, EngineAssumption DEF IInv, NoRecord
  <2>2. TypeOK'
    BY DEF TypeOK, PC, LogSteps, Statuses, TERMINAL_STATUSES, ApprovalStatuses
  <2>3. ContextInv' /\ KeyInv'
    BY DEF TypeOK, ContextInv, KeyInv, Driving, Running
  <2>4. DrivingInv'
    BY DEF TypeOK, DrivingInv, Driving, Logged, ApprovalInv, Undecided
  <2>5. RunningInv'
    BY <2>a DEF TypeOK, RunningInv, Running, Logged
  <2>6. CallsInv' /\ ReplayInv'
    BY DEF TypeOK, CallsInv, RunningInv, Logged, ReplayInv
  <2>7. ApprovalInv' /\ AuthorisedInv'
    BY DEF TypeOK, DrivingInv, ApprovalInv, ApprovalMatchesExecution, Undecided,
           AuthorisedInv, Authorised, CallsInv, Logged
  <2> QED
    BY <2>2, <2>3, <2>4, <2>5, <2>6, <2>7
<1>3. CASE /\ pc[t] = "policy"
           /\ status[e] = "EVALUATED" /\ status' = [status EXCEPT ![e] = "FAILED"]
           /\ Goto(t, "idle")
  <2>1. /\ pc' = [pc EXCEPT ![t] = "idle"]
        /\ on' = [on EXCEPT ![t] = None]
        /\ given' = [given EXCEPT ![t] = None]
    BY <1>3 DEF Goto
  <2> USE <1>0, <1>3, <2>1, EngineAssumption DEF IInv, NoRecord
  <2>2. TypeOK'
    BY DEF TypeOK, PC, LogSteps, Statuses, TERMINAL_STATUSES, ApprovalStatuses
  <2>3. ContextInv' /\ KeyInv'
    BY DEF TypeOK, ContextInv, KeyInv, Driving, Running
  <2>4. DrivingInv'
    BY DEF TypeOK, DrivingInv, Driving, Logged, ApprovalInv, Undecided
  <2>5. RunningInv'
    BY DEF TypeOK, RunningInv, CallsInv, Running, Logged
  <2>6. CallsInv' /\ ReplayInv'
    BY DEF TypeOK, CallsInv, RunningInv, Logged, ReplayInv
  <2>7. ApprovalInv' /\ AuthorisedInv'
    BY DEF TypeOK, DrivingInv, ApprovalInv, ApprovalMatchesExecution, Undecided,
           AuthorisedInv, Authorised, CallsInv, Logged
  <2> QED
    BY <2>2, <2>3, <2>4, <2>5, <2>6, <2>7
<1> QED
  BY <1>0, <1>1, <1>2, <1>3 DEF HandlePolicyError, Transition

\* The decision of the policy is carried out.
LEMMA EnforceInv ==
  ASSUME IInv, NEW t \in Threads, Enforce(t)
  PROVE  IInv'
<1> DEFINE e == on[t]
<1>0. /\ e \in Executions
      /\ pc[t] \in {"enforce"}
      /\ UNCHANGED <<decision, approvedBy, hash, keyOwner, approval, events, overdue, calls, replayed>>
  BY DEF Enforce, IInv, ContextInv, records, tables, history
<1>1. CASE Goto(t, "idle") /\ UNCHANGED status
  BY <1>0, <1>1, LeaveInv DEF tables, records, history
<1>2. CASE /\ pc[t] = "enforce"
           /\ status[e] = "EVALUATED" /\ status' = [status EXCEPT ![e] = "BLOCKED"]
           /\ Goto(t, "log_blocked")
  <2>1. pc' = [pc EXCEPT ![t] = "log_blocked"] /\ UNCHANGED <<on, given>>
    BY <1>2 DEF Goto
  <2> USE <1>0, <1>2, <2>1, EngineAssumption DEF IInv, NoRecord
  <2>2. TypeOK'
    BY DEF TypeOK, PC, LogSteps, Statuses, TERMINAL_STATUSES, ApprovalStatuses
  <2>3. ContextInv' /\ KeyInv'
    BY DEF TypeOK, ContextInv, KeyInv, Driving, Running
  <2>4. DrivingInv'
    BY DEF TypeOK, DrivingInv, Driving, Logged, ApprovalInv, Undecided
  <2>5. RunningInv'
    BY DEF TypeOK, RunningInv, CallsInv, Running, Logged
  <2>6. CallsInv' /\ ReplayInv'
    BY DEF TypeOK, CallsInv, RunningInv, Logged, ReplayInv
  <2>7. ApprovalInv' /\ AuthorisedInv'
    BY DEF TypeOK, DrivingInv, ApprovalInv, ApprovalMatchesExecution, Undecided,
           AuthorisedInv, Authorised, CallsInv, Logged
  <2> QED
    BY <2>2, <2>3, <2>4, <2>5, <2>6, <2>7
<1>3. CASE /\ pc[t] = "enforce"
           /\ status[e] = "EVALUATED" /\ status' = [status EXCEPT ![e] = "EXECUTING"]
           /\ Goto(t, "log_started")
           /\ decision[e] = "ALLOW"
  <2>1. pc' = [pc EXCEPT ![t] = "log_started"] /\ UNCHANGED <<on, given>>
    BY <1>3 DEF Goto
  <2>a. /\ calls[e] = <<>>
        /\ \A u \in Threads : pc[u] \in Running => on[u] # e
    BY <1>0, <1>3 DEF IInv, CallsInv, RunningInv
  <2> USE <1>0, <1>3, <2>1, EngineAssumption DEF IInv, NoRecord
  <2>2. TypeOK'
    BY DEF TypeOK, PC, LogSteps, Statuses, TERMINAL_STATUSES, ApprovalStatuses
  <2>3. ContextInv' /\ KeyInv'
    BY DEF TypeOK, ContextInv, KeyInv, Driving, Running
  <2>4. DrivingInv'
    BY DEF TypeOK, DrivingInv, Driving, Logged, ApprovalInv, Undecided
  <2>5. RunningInv'
    BY <2>a DEF TypeOK, RunningInv, Running, Logged
  <2>6. CallsInv' /\ ReplayInv'
    BY DEF TypeOK, CallsInv, RunningInv, Logged, ReplayInv
  <2>7. ApprovalInv' /\ AuthorisedInv'
    BY DEF TypeOK, DrivingInv, ApprovalInv, ApprovalMatchesExecution, Undecided,
           AuthorisedInv, Authorised, CallsInv, Logged
  <2> QED
    BY <2>2, <2>3, <2>4, <2>5, <2>6, <2>7
<1>4. CASE /\ pc[t] = "enforce"
           /\ status[e] = "EVALUATED" /\ status' = [status EXCEPT ![e] = "WAITING_APPROVAL"]
           /\ Goto(t, "create_approval")
           /\ ApprovalMode[e] = "deferred"
  <2>1. pc' = [pc EXCEPT ![t] = "create_approval"] /\ UNCHANGED <<on, given>>
    BY <1>4 DEF Goto
  <2> USE <1>0, <1>4, <2>1, EngineAssumption DEF IInv, NoRecord
  <2>2. TypeOK'
    BY DEF TypeOK, PC, LogSteps, Statuses, TERMINAL_STATUSES, ApprovalStatuses
  <2>3. ContextInv' /\ KeyInv'
    BY DEF TypeOK, ContextInv, KeyInv, Driving, Running
  <2>4. DrivingInv'
    BY DEF TypeOK, DrivingInv, Driving, Logged, ApprovalInv, Undecided
  <2>5. RunningInv'
    BY DEF TypeOK, RunningInv, CallsInv, Running, Logged
  <2>6. CallsInv' /\ ReplayInv'
    BY DEF TypeOK, CallsInv, RunningInv, Logged, ReplayInv
  <2>7. ApprovalInv' /\ AuthorisedInv'
    BY DEF TypeOK, DrivingInv, ApprovalInv, ApprovalMatchesExecution, Undecided,
           AuthorisedInv, Authorised, CallsInv, Logged
  <2> QED
    BY <2>2, <2>3, <2>4, <2>5, <2>6, <2>7
<1>5. CASE /\ pc[t] = "enforce"
           /\ status[e] = "EVALUATED" /\ status' = [status EXCEPT ![e] = "WAITING_APPROVAL"]
           /\ Goto(t, "log_prompt")
           /\ ApprovalMode[e] = "sync"
  <2>1. pc' = [pc EXCEPT ![t] = "log_prompt"] /\ UNCHANGED <<on, given>>
    BY <1>5 DEF Goto
  <2> USE <1>0, <1>5, <2>1, EngineAssumption DEF IInv, NoRecord
  <2>2. TypeOK'
    BY DEF TypeOK, PC, LogSteps, Statuses, TERMINAL_STATUSES, ApprovalStatuses
  <2>3. ContextInv' /\ KeyInv'
    BY DEF TypeOK, ContextInv, KeyInv, Driving, Running
  <2>4. DrivingInv'
    BY DEF TypeOK, DrivingInv, Driving, Logged, ApprovalInv, Undecided
  <2>5. RunningInv'
    BY DEF TypeOK, RunningInv, CallsInv, Running, Logged
  <2>6. CallsInv' /\ ReplayInv'
    BY DEF TypeOK, CallsInv, RunningInv, Logged, ReplayInv
  <2>7. ApprovalInv' /\ AuthorisedInv'
    BY DEF TypeOK, DrivingInv, ApprovalInv, ApprovalMatchesExecution, Undecided,
           AuthorisedInv, Authorised, CallsInv, Logged
  <2> QED
    BY <2>2, <2>3, <2>4, <2>5, <2>6, <2>7
<1> QED
  BY EngineAssumption, <1>0, <1>1, <1>2, <1>3, <1>4, <1>5 DEF Enforce, Transition, IInv, TypeOK

\* The inline approval path starts the execution.
LEMMA BeginExecuteInv ==
  ASSUME IInv, NEW t \in Threads, BeginExecute(t)
  PROVE  IInv'
<1> DEFINE e == on[t]
<1>0. /\ e \in Executions
      /\ pc[t] \in {"begin"}
      /\ UNCHANGED <<decision, approvedBy, hash, keyOwner, approval, events, overdue, calls, replayed>>
  BY DEF BeginExecute, IInv, ContextInv, records, tables, history
<1>1. CASE Goto(t, "idle") /\ UNCHANGED status
  BY <1>0, <1>1, LeaveInv DEF tables, records, history
<1>2. CASE /\ pc[t] = "begin"
           /\ status[e] = "APPROVED" /\ status' = [status EXCEPT ![e] = "EXECUTING"]
           /\ Goto(t, "log_started")
  <2>1. pc' = [pc EXCEPT ![t] = "log_started"] /\ UNCHANGED <<on, given>>
    BY <1>2 DEF Goto
  <2>a. /\ calls[e] = <<>>
        /\ \A u \in Threads : pc[u] \in Running => on[u] # e
    BY <1>0, <1>2 DEF IInv, CallsInv, RunningInv
  <2> USE <1>0, <1>2, <2>1, EngineAssumption DEF IInv, NoRecord
  <2>2. TypeOK'
    BY DEF TypeOK, PC, LogSteps, Statuses, TERMINAL_STATUSES, ApprovalStatuses
  <2>3. ContextInv' /\ KeyInv'
    BY DEF TypeOK, ContextInv, KeyInv, Driving, Running
  <2>4. DrivingInv'
    BY DEF TypeOK, DrivingInv, Driving, Logged, ApprovalInv, Undecided
  <2>5. RunningInv'
    BY <2>a DEF TypeOK, RunningInv, Running, Logged
  <2>6. CallsInv' /\ ReplayInv'
    BY DEF TypeOK, CallsInv, RunningInv, Logged, ReplayInv
  <2>7. ApprovalInv' /\ AuthorisedInv'
    BY DEF TypeOK, DrivingInv, ApprovalInv, ApprovalMatchesExecution, Undecided,
           AuthorisedInv, Authorised, CallsInv, Logged
  <2> QED
    BY <2>2, <2>3, <2>4, <2>5, <2>6, <2>7
<1> QED
  BY <1>0, <1>1, <1>2 DEF BeginExecute, Transition

\* The outcome of the guarded function is recorded.
LEMMA FinishFunctionInv ==
  ASSUME IInv, NEW t \in Threads, FinishFunction(t)
  PROVE  IInv'
<1> DEFINE e == on[t]
<1>0. /\ e \in Executions
      /\ pc[t] \in {"succeed", "fail"}
      /\ UNCHANGED <<decision, approvedBy, hash, keyOwner, approval, events, overdue, calls, replayed>>
  BY DEF FinishFunction, IInv, ContextInv, records, tables, history
<1>1. CASE Goto(t, "idle") /\ UNCHANGED status
  BY <1>0, <1>1, LeaveInv DEF tables, records, history
<1>2. CASE /\ pc[t] = "succeed"
           /\ status[e] = "EXECUTING" /\ status' = [status EXCEPT ![e] = "SUCCEEDED"]
           /\ Goto(t, "log_succeeded")
  <2>1. pc' = [pc EXCEPT ![t] = "log_succeeded"] /\ UNCHANGED <<on, given>>
    BY <1>2 DEF Goto
  <2> USE <1>0, <1>2, <2>1, EngineAssumption DEF IInv, NoRecord
  <2>2. TypeOK'
    BY DEF TypeOK, PC, LogSteps, Statuses, TERMINAL_STATUSES, ApprovalStatuses
  <2>3. ContextInv' /\ KeyInv'
    BY DEF TypeOK, ContextInv, KeyInv, Driving, Running
  <2>4. DrivingInv'
    BY DEF TypeOK, DrivingInv, Driving, Logged, ApprovalInv, Undecided
  <2>5. RunningInv'
    BY DEF TypeOK, RunningInv, CallsInv, Running, Logged
  <2>6. CallsInv' /\ ReplayInv'
    BY DEF TypeOK, CallsInv, RunningInv, Logged, ReplayInv
  <2>7. ApprovalInv' /\ AuthorisedInv'
    BY DEF TypeOK, DrivingInv, ApprovalInv, ApprovalMatchesExecution, Undecided,
           AuthorisedInv, Authorised, CallsInv, Logged
  <2> QED
    BY <2>2, <2>3, <2>4, <2>5, <2>6, <2>7
<1>3. CASE /\ pc[t] = "fail"
           /\ status[e] = "EXECUTING" /\ status' = [status EXCEPT ![e] = "FAILED"]
           /\ Goto(t, "log_failed")
  <2>1. pc' = [pc EXCEPT ![t] = "log_failed"] /\ UNCHANGED <<on, given>>
    BY <1>3 DEF Goto
  <2> USE <1>0, <1>3, <2>1, EngineAssumption DEF IInv, NoRecord
  <2>2. TypeOK'
    BY DEF TypeOK, PC, LogSteps, Statuses, TERMINAL_STATUSES, ApprovalStatuses
  <2>3. ContextInv' /\ KeyInv'
    BY DEF TypeOK, ContextInv, KeyInv, Driving, Running
  <2>4. DrivingInv'
    BY DEF TypeOK, DrivingInv, Driving, Logged, ApprovalInv, Undecided
  <2>5. RunningInv'
    BY DEF TypeOK, RunningInv, CallsInv, Running, Logged
  <2>6. CallsInv' /\ ReplayInv'
    BY DEF TypeOK, CallsInv, RunningInv, Logged, ReplayInv
  <2>7. ApprovalInv' /\ AuthorisedInv'
    BY DEF TypeOK, DrivingInv, ApprovalInv, ApprovalMatchesExecution, Undecided,
           AuthorisedInv, Authorised, CallsInv, Logged
  <2> QED
    BY <2>2, <2>3, <2>4, <2>5, <2>6, <2>7
<1> QED
  BY <1>0, <1>1, <1>2, <1>3 DEF FinishFunction, Transition

\* A cancellation wins or loses its compare-and-set.
LEMMA BecomeCancelledInv ==
  ASSUME IInv, NEW t \in Threads, BecomeCancelled(t)
  PROVE  IInv'
<1> DEFINE e == on[t]
<1>0. /\ e \in Executions
      /\ pc[t] \in {"cancel_waiting", "cancel_approved"}
      /\ UNCHANGED <<decision, approvedBy, hash, keyOwner, approval, events, overdue, calls, replayed>>
  BY DEF BecomeCancelled, IInv, ContextInv, records, tables, history
<1>1. CASE Goto(t, "idle") /\ UNCHANGED status
  BY <1>0, <1>1, LeaveInv DEF tables, records, history
<1>2. CASE /\ pc[t] = "cancel_waiting"
           /\ status[e] = "WAITING_APPROVAL" /\ status' = [status EXCEPT ![e] = "CANCELLED"]
           /\ Goto(t, "log_cancelled")
  <2>1. pc' = [pc EXCEPT ![t] = "log_cancelled"] /\ UNCHANGED <<on, given>>
    BY <1>2 DEF Goto
  <2> USE <1>0, <1>2, <2>1, EngineAssumption DEF IInv, NoRecord
  <2>2. TypeOK'
    BY DEF TypeOK, PC, LogSteps, Statuses, TERMINAL_STATUSES, ApprovalStatuses
  <2>3. ContextInv' /\ KeyInv'
    BY DEF TypeOK, ContextInv, KeyInv, Driving, Running
  <2>4. DrivingInv'
    BY DEF TypeOK, DrivingInv, Driving, Logged, ApprovalInv, Undecided
  <2>5. RunningInv'
    BY DEF TypeOK, RunningInv, CallsInv, Running, Logged
  <2>6. CallsInv' /\ ReplayInv'
    BY DEF TypeOK, CallsInv, RunningInv, Logged, ReplayInv
  <2>7. ApprovalInv' /\ AuthorisedInv'
    BY DEF TypeOK, DrivingInv, ApprovalInv, ApprovalMatchesExecution, Undecided,
           AuthorisedInv, Authorised, CallsInv, Logged
  <2> QED
    BY <2>2, <2>3, <2>4, <2>5, <2>6, <2>7
<1>3. CASE /\ pc[t] = "cancel_approved"
           /\ status[e] = "APPROVED" /\ status' = [status EXCEPT ![e] = "CANCELLED"]
           /\ Goto(t, "log_cancelled")
  <2>1. pc' = [pc EXCEPT ![t] = "log_cancelled"] /\ UNCHANGED <<on, given>>
    BY <1>3 DEF Goto
  <2> USE <1>0, <1>3, <2>1, EngineAssumption DEF IInv, NoRecord
  <2>2. TypeOK'
    BY DEF TypeOK, PC, LogSteps, Statuses, TERMINAL_STATUSES, ApprovalStatuses
  <2>3. ContextInv' /\ KeyInv'
    BY DEF TypeOK, ContextInv, KeyInv, Driving, Running
  <2>4. DrivingInv'
    BY DEF TypeOK, DrivingInv, Driving, Logged, ApprovalInv, Undecided
  <2>5. RunningInv'
    BY DEF TypeOK, RunningInv, CallsInv, Running, Logged
  <2>6. CallsInv' /\ ReplayInv'
    BY DEF TypeOK, CallsInv, RunningInv, Logged, ReplayInv
  <2>7. ApprovalInv' /\ AuthorisedInv'
    BY DEF TypeOK, DrivingInv, ApprovalInv, ApprovalMatchesExecution, Undecided,
           AuthorisedInv, Authorised, CallsInv, Logged
  <2> QED
    BY <2>2, <2>3, <2>4, <2>5, <2>6, <2>7
<1> QED
  BY <1>0, <1>1, <1>2, <1>3 DEF BecomeCancelled, Transition

\* One event is appended; what was logged stays logged.
LEMMA RecordEventInv ==
  ASSUME IInv, NEW t \in Threads, RecordEvent(t)
  PROVE  IInv'
<1> DEFINE e == on[t]
<1>0. /\ e \in Executions
      /\ UNCHANGED <<status, decision, approvedBy, hash, keyOwner, approval>>
      /\ UNCHANGED <<overdue, calls, replayed>>
  BY DEF RecordEvent, IInv, ContextInv, LogSteps, records, history
<1>1. /\ events' \in [Executions -> Seq(EventTypes)]
      /\ \A d \in Executions : \A i \in DOMAIN events[d] :
           i \in DOMAIN events'[d] /\ events'[d][i] = events[d][i]
      /\ \E i \in DOMAIN events'[e] : events'[e][i] = EventOf(pc[t])
  <2>1. EventOf(pc[t]) \in EventTypes
    BY DEF RecordEvent, LogSteps, EventOf, EventTypes
  <2>2. events' = [events EXCEPT ![e] = Append(@, EventOf(pc[t]))]
    BY DEF RecordEvent, Append_event
  <2>3. events \in [Executions -> Seq(EventTypes)]
    BY DEF IInv, TypeOK
  <2>4. DOMAIN events'[e] = 1 .. Len(events[e]) + 1
    BY <1>0, <2>1, <2>2, <2>3
  <2> QED
    BY <1>0, <2>1, <2>2, <2>3, <2>4
<1>2. \A d \in Executions, type \in {"POLICY_EVALUATED", "ACTION_STARTED"} :
        Logged(d, type) => Logged(d, type)'
  BY <1>1 DEF Logged
<1>3. CASE pc[t] = "log_requested"
  <2>1. pc' = [pc EXCEPT ![t] = "delegation"] /\ UNCHANGED <<on, given>>
    BY <1>3 DEF RecordEvent, AfterLog, Goto
  <2> USE <1>0, <1>2, <1>3, <2>1, EngineAssumption DEF IInv, NoRecord
  <2>2. TypeOK'
    BY <1>1 DEF TypeOK, PC, LogSteps, Statuses, TERMINAL_STATUSES, ApprovalStatuses
  <2>3. ContextInv' /\ KeyInv'
    BY DEF TypeOK, ContextInv, KeyInv, Driving, Running
  <2>4. DrivingInv'
    BY DEF TypeOK, ContextInv, DrivingInv, Driving, ApprovalInv, Undecided
  <2>5. RunningInv'
    BY DEF TypeOK, ContextInv, RunningInv, CallsInv, Running
  <2>6. CallsInv' /\ ReplayInv'
    BY DEF TypeOK, CallsInv, RunningInv, ReplayInv
  <2>7. ApprovalInv' /\ AuthorisedInv'
    BY DEF TypeOK, DrivingInv, ApprovalInv, ApprovalMatchesExecution, Undecided,
           AuthorisedInv, Authorised, CallsInv
  <2> QED
    BY <2>2, <2>3, <2>4, <2>5, <2>6, <2>7
<1>4. CASE pc[t] = "log_policy"
  <2>1. pc' = [pc EXCEPT ![t] = "enforce"] /\ UNCHANGED <<on, given>>
    BY <1>4 DEF RecordEvent, AfterLog, Goto
  <2>a. Logged(on[t], "POLICY_EVALUATED")'
    BY <1>1, <1>4, <2>1 DEF EventOf, Logged
  <2> USE <1>0, <1>2, <1>4, <2>1, EngineAssumption DEF IInv, NoRecord
  <2>2. TypeOK'
    BY <1>1 DEF TypeOK, PC, LogSteps, Statuses, TERMINAL_STATUSES, ApprovalStatuses
  <2>3. ContextInv' /\ KeyInv'
    BY DEF TypeOK, ContextInv, KeyInv, Driving, Running
  <2>4. DrivingInv'
    BY <2>a DEF TypeOK, ContextInv, DrivingInv, Driving, ApprovalInv, Undecided
  <2>5. RunningInv'
    BY DEF TypeOK, ContextInv, RunningInv, CallsInv, Running
  <2>6. CallsInv' /\ ReplayInv'
    BY DEF TypeOK, CallsInv, RunningInv, ReplayInv
  <2>7. ApprovalInv' /\ AuthorisedInv'
    BY DEF TypeOK, DrivingInv, ApprovalInv, ApprovalMatchesExecution, Undecided,
           AuthorisedInv, Authorised, CallsInv
  <2> QED
    BY <2>2, <2>3, <2>4, <2>5, <2>6, <2>7
<1>5. CASE pc[t] = "log_prompt"
  <2>1. pc' = [pc EXCEPT ![t] = "prompt"] /\ UNCHANGED <<on, given>>
    BY <1>5 DEF RecordEvent, AfterLog, Goto
  <2> USE <1>0, <1>2, <1>5, <2>1, EngineAssumption DEF IInv, NoRecord
  <2>2. TypeOK'
    BY <1>1 DEF TypeOK, PC, LogSteps, Statuses, TERMINAL_STATUSES, ApprovalStatuses
  <2>3. ContextInv' /\ KeyInv'
    BY DEF TypeOK, ContextInv, KeyInv, Driving, Running
  <2>4. DrivingInv'
    BY DEF TypeOK, ContextInv, DrivingInv, Driving, ApprovalInv, Undecided
  <2>5. RunningInv'
    BY DEF TypeOK, ContextInv, RunningInv, CallsInv, Running
  <2>6. CallsInv' /\ ReplayInv'
    BY DEF TypeOK, CallsInv, RunningInv, ReplayInv
  <2>7. ApprovalInv' /\ AuthorisedInv'
    BY DEF TypeOK, DrivingInv, ApprovalInv, ApprovalMatchesExecution, Undecided,
           AuthorisedInv, Authorised, CallsInv
  <2> QED
    BY <2>2, <2>3, <2>4, <2>5, <2>6, <2>7
<1>6. CASE pc[t] = "log_granted"
  <2>1. pc' = [pc EXCEPT ![t] = "begin"] /\ UNCHANGED <<on, given>>
    BY <1>6 DEF RecordEvent, AfterLog, Goto
  <2> USE <1>0, <1>2, <1>6, <2>1, EngineAssumption DEF IInv, NoRecord
  <2>2. TypeOK'
    BY <1>1 DEF TypeOK, PC, LogSteps, Statuses, TERMINAL_STATUSES, ApprovalStatuses
  <2>3. ContextInv' /\ KeyInv'
    BY DEF TypeOK, ContextInv, KeyInv, Driving, Running
  <2>4. DrivingInv'
    BY DEF TypeOK, ContextInv, DrivingInv, Driving, ApprovalInv, Undecided
  <2>5. RunningInv'
    BY DEF TypeOK, ContextInv, RunningInv, CallsInv, Running
  <2>6. CallsInv' /\ ReplayInv'
    BY DEF TypeOK, CallsInv, RunningInv, ReplayInv
  <2>7. ApprovalInv' /\ AuthorisedInv'
    BY DEF TypeOK, DrivingInv, ApprovalInv, ApprovalMatchesExecution, Undecided,
           AuthorisedInv, Authorised, CallsInv
  <2> QED
    BY <2>2, <2>3, <2>4, <2>5, <2>6, <2>7
<1>7. CASE pc[t] = "log_started"
  <2>1. pc' = [pc EXCEPT ![t] = "call"] /\ UNCHANGED <<on, given>>
    BY <1>7 DEF RecordEvent, AfterLog, Goto
  <2>a. Logged(on[t], "ACTION_STARTED")'
    BY <1>1, <1>7, <2>1 DEF EventOf, Logged
  <2> USE <1>0, <1>2, <1>7, <2>1, EngineAssumption DEF IInv, NoRecord
  <2>2. TypeOK'
    BY <1>1 DEF TypeOK, PC, LogSteps, Statuses, TERMINAL_STATUSES, ApprovalStatuses
  <2>3. ContextInv' /\ KeyInv'
    BY DEF TypeOK, ContextInv, KeyInv, Driving, Running
  <2>4. DrivingInv'
    BY DEF TypeOK, ContextInv, DrivingInv, Driving, ApprovalInv, Undecided
  <2>5. RunningInv'
    BY <2>a DEF TypeOK, ContextInv, RunningInv, CallsInv, Running
  <2>6. CallsInv' /\ ReplayInv'
    BY DEF TypeOK, CallsInv, RunningInv, ReplayInv
  <2>7. ApprovalInv' /\ AuthorisedInv'
    BY DEF TypeOK, DrivingInv, ApprovalInv, ApprovalMatchesExecution, Undecided,
           AuthorisedInv, Authorised, CallsInv
  <2> QED
    BY <2>2, <2>3, <2>4, <2>5, <2>6, <2>7
<1>8. CASE AfterLog(pc[t]) = "idle"
  <2>1. /\ pc' = [pc EXCEPT ![t] = "idle"]
        /\ on' = [on EXCEPT ![t] = None]
        /\ given' = [given EXCEPT ![t] = None]
    BY <1>8 DEF RecordEvent, Goto
  <2> USE <1>0, <1>2, <1>8, <2>1, EngineAssumption DEF IInv, NoRecord
  <2>2. TypeOK'
    BY <1>1 DEF TypeOK, PC, LogSteps, Statuses, TERMINAL_STATUSES, ApprovalStatuses
  <2>3. ContextInv' /\ KeyInv'
    BY DEF TypeOK, ContextInv, KeyInv, Driving, Running
  <2>4. DrivingInv'
    BY DEF TypeOK, ContextInv, DrivingInv, Driving, ApprovalInv, Undecided
  <2>5. RunningInv'
    BY DEF TypeOK, ContextInv, RunningInv, CallsInv, Running
  <2>6. CallsInv' /\ ReplayInv'
    BY DEF TypeOK, CallsInv, RunningInv, ReplayInv
  <2>7. ApprovalInv' /\ AuthorisedInv'
    BY DEF TypeOK, DrivingInv, ApprovalInv, ApprovalMatchesExecution, Undecided,
           AuthorisedInv, Authorised, CallsInv
  <2> QED
    BY <2>2, <2>3, <2>4, <2>5, <2>6, <2>7
<1> QED
  BY <1>3, <1>4, <1>5, <1>6, <1>7, <1>8 DEF RecordEvent, LogSteps, AfterLog

\* A request begins, with or without an idempotency key.
LEMMA RunControlledInv ==
  ASSUME IInv, NEW t \in Threads, NEW e \in Executions, NEW p \in Params,
         RunControlled(t, e, p)
  PROVE  IInv'
<1>0. /\ UNCHANGED <<status, decision, approvedBy, hash, keyOwner, approval>>
      /\ UNCHANGED <<events, overdue, calls, replayed>>
      /\ on' = [on EXCEPT ![t] = e]
      /\ given' = [given EXCEPT ![t] = p]
  BY DEF RunControlled, Enter, records, tables, history
<1>1. CASE pc' = [pc EXCEPT ![t] = "register"] /\ KeyOf[e] \in Keys
  <2> USE <1>0, <1>1, EngineAssumption DEF IInv, NoRecord
  <2>2. TypeOK'
    BY DEF TypeOK, PC, LogSteps, Statuses, TERMINAL_STATUSES, ApprovalStatuses
  <2>3. ContextInv' /\ KeyInv'
    BY DEF TypeOK, ContextInv, KeyInv, Driving, Running
  <2>4. DrivingInv'
    BY DEF TypeOK, DrivingInv, Driving, Logged, ApprovalInv, Undecided
  <2>5. RunningInv'
    BY DEF TypeOK, RunningInv, CallsInv, Running, Logged
  <2>6. CallsInv' /\ ReplayInv'
    BY DEF TypeOK, CallsInv, RunningInv, Logged, ReplayInv
  <2>7. ApprovalInv' /\ AuthorisedInv'
    BY DEF TypeOK, DrivingInv, ApprovalInv, ApprovalMatchesExecution, Undecided,
           AuthorisedInv, Authorised, CallsInv, Logged
  <2> QED
    BY <2>2, <2>3, <2>4, <2>5, <2>6, <2>7
<1>2. CASE pc' = [pc EXCEPT ![t] = "insert"] /\ KeyOf[e] \notin Keys
  <2> USE <1>0, <1>2, EngineAssumption DEF IInv, NoRecord
  <2>2. TypeOK'
    BY DEF TypeOK, PC, LogSteps, Statuses, TERMINAL_STATUSES, ApprovalStatuses
  <2>3. ContextInv' /\ KeyInv'
    BY DEF TypeOK, ContextInv, KeyInv, Driving, Running
  <2>4. DrivingInv'
    BY DEF TypeOK, DrivingInv, Driving, Logged, ApprovalInv, Undecided
  <2>5. RunningInv'
    BY DEF TypeOK, RunningInv, CallsInv, Running, Logged
  <2>6. CallsInv' /\ ReplayInv'
    BY DEF TypeOK, CallsInv, RunningInv, Logged, ReplayInv
  <2>7. ApprovalInv' /\ AuthorisedInv'
    BY DEF TypeOK, DrivingInv, ApprovalInv, ApprovalMatchesExecution, Undecided,
           AuthorisedInv, Authorised, CallsInv, Logged
  <2> QED
    BY <2>2, <2>3, <2>4, <2>5, <2>6, <2>7
<1> QED
  BY EngineAssumption, <1>1, <1>2 DEF RunControlled, Enter

\* A resume begins, with the parameters on record.
LEMMA ResumeAfterApprovalInv ==
  ASSUME IInv, NEW t \in Threads, NEW e \in Executions, NEW p \in Params,
         ResumeAfterApproval(t, e, p)
  PROVE  IInv'
<1>0. /\ UNCHANGED <<status, decision, approvedBy, hash, keyOwner, approval>>
      /\ UNCHANGED <<events, overdue, calls, replayed>>
      /\ on' = [on EXCEPT ![t] = e]
      /\ given' = [given EXCEPT ![t] = p]
  BY DEF ResumeAfterApproval, Enter, records, tables, history
<1>1. CASE pc' = [pc EXCEPT ![t] = "load_approval"] /\ p = hash[e] /\ status[e] # "NO_RECORD"
  <2> USE <1>0, <1>1, EngineAssumption DEF IInv, NoRecord
  <2>2. TypeOK'
    BY DEF TypeOK, PC, LogSteps, Statuses, TERMINAL_STATUSES, ApprovalStatuses
  <2>3. ContextInv' /\ KeyInv'
    BY DEF TypeOK, ContextInv, KeyInv, Driving, Running
  <2>4. DrivingInv'
    BY DEF TypeOK, DrivingInv, Driving, Logged, ApprovalInv, Undecided
  <2>5. RunningInv'
    BY DEF TypeOK, RunningInv, CallsInv, Running, Logged
  <2>6. CallsInv' /\ ReplayInv'
    BY DEF TypeOK, CallsInv, RunningInv, Logged, ReplayInv
  <2>7. ApprovalInv' /\ AuthorisedInv'
    BY DEF TypeOK, DrivingInv, ApprovalInv, ApprovalMatchesExecution, Undecided,
           AuthorisedInv, Authorised, CallsInv, Logged
  <2> QED
    BY <2>2, <2>3, <2>4, <2>5, <2>6, <2>7
<1> QED
  BY EngineAssumption, <1>1 DEF ResumeAfterApproval, Enter, NoRecord

\* A cancellation begins.
LEMMA CancelExecutionInv ==
  ASSUME IInv, NEW t \in Threads, NEW e \in Executions, CancelExecution(t, e)
  PROVE  IInv'
<1>0. /\ UNCHANGED <<status, decision, approvedBy, hash, keyOwner, approval>>
      /\ UNCHANGED <<events, overdue, calls, replayed>>
      /\ on' = [on EXCEPT ![t] = e]
      /\ given' = [given EXCEPT ![t] = None]
  BY DEF CancelExecution, Enter, records, tables, history
<1>1. CASE pc' = [pc EXCEPT ![t] = "cancel_waiting"]
  <2> USE <1>0, <1>1, EngineAssumption DEF IInv, NoRecord
  <2>2. TypeOK'
    BY DEF TypeOK, PC, LogSteps, Statuses, TERMINAL_STATUSES, ApprovalStatuses
  <2>3. ContextInv' /\ KeyInv'
    BY DEF TypeOK, ContextInv, KeyInv, Driving, Running
  <2>4. DrivingInv'
    BY DEF TypeOK, DrivingInv, Driving, Logged, ApprovalInv, Undecided
  <2>5. RunningInv'
    BY DEF TypeOK, RunningInv, CallsInv, Running, Logged
  <2>6. CallsInv' /\ ReplayInv'
    BY DEF TypeOK, CallsInv, RunningInv, Logged, ReplayInv
  <2>7. ApprovalInv' /\ AuthorisedInv'
    BY DEF TypeOK, DrivingInv, ApprovalInv, ApprovalMatchesExecution, Undecided,
           AuthorisedInv, Authorised, CallsInv, Logged
  <2> QED
    BY <2>2, <2>3, <2>4, <2>5, <2>6, <2>7
<1>2. CASE pc' = [pc EXCEPT ![t] = "cancel_approved"]
  <2> USE <1>0, <1>2, EngineAssumption DEF IInv, NoRecord
  <2>2. TypeOK'
    BY DEF TypeOK, PC, LogSteps, Statuses, TERMINAL_STATUSES, ApprovalStatuses
  <2>3. ContextInv' /\ KeyInv'
    BY DEF TypeOK, ContextInv, KeyInv, Driving, Running
  <2>4. DrivingInv'
    BY DEF TypeOK, DrivingInv, Driving, Logged, ApprovalInv, Undecided
  <2>5. RunningInv'
    BY DEF TypeOK, RunningInv, CallsInv, Running, Logged
  <2>6. CallsInv' /\ ReplayInv'
    BY DEF TypeOK, CallsInv, RunningInv, Logged, ReplayInv
  <2>7. ApprovalInv' /\ AuthorisedInv'
    BY DEF TypeOK, DrivingInv, ApprovalInv, ApprovalMatchesExecution, Undecided,
           AuthorisedInv, Authorised, CallsInv, Logged
  <2> QED
    BY <2>2, <2>3, <2>4, <2>5, <2>6, <2>7
<1> QED
  BY EngineAssumption, <1>1, <1>2 DEF CancelExecution, Enter

\* A thread dies.
LEMMA CrashInv ==
  ASSUME IInv, NEW t \in Threads, Crash(t)
  PROVE  IInv'
BY LeaveInv DEF Crash

\* The approval is read, and found usable or not.
LEMMA LoadApprovalInv ==
  ASSUME IInv, NEW t \in Threads, LoadApproval(t)
  PROVE  IInv'
<1> DEFINE e == on[t]
<1>0. /\ e \in Executions
      /\ pc[t] \in {"load_approval"}
      /\ UNCHANGED <<status, decision, approvedBy, hash, keyOwner, approval, events, overdue, calls, replayed>>
  BY DEF LoadApproval, IInv, ContextInv, records, tables, history
<1>1. CASE Goto(t, "idle")
  BY <1>0, <1>1, LeaveInv DEF tables, records, history
<1>2. CASE Goto(t, "consume") /\ pc[t] = "load_approval"
  <2>1. pc' = [pc EXCEPT ![t] = "consume"] /\ UNCHANGED <<on, given>>
    BY <1>2 DEF Goto
  <2> USE <1>0, <1>2, <2>1, EngineAssumption DEF IInv, NoRecord
  <2>2. TypeOK'
    BY DEF TypeOK, PC, LogSteps, Statuses, TERMINAL_STATUSES, ApprovalStatuses
  <2>3. ContextInv' /\ KeyInv'
    BY DEF TypeOK, ContextInv, KeyInv, Driving, Running
  <2>4. DrivingInv'
    BY DEF TypeOK, DrivingInv, Driving, Logged, ApprovalInv, Undecided
  <2>5. RunningInv'
    BY DEF TypeOK, RunningInv, CallsInv, Running, Logged
  <2>6. CallsInv' /\ ReplayInv'
    BY DEF TypeOK, CallsInv, RunningInv, Logged, ReplayInv
  <2>7. ApprovalInv' /\ AuthorisedInv'
    BY DEF TypeOK, DrivingInv, ApprovalInv, ApprovalMatchesExecution, Undecided,
           AuthorisedInv, Authorised, CallsInv, Logged
  <2> QED
    BY <2>2, <2>3, <2>4, <2>5, <2>6, <2>7
<1> QED
  BY <1>0, <1>1, <1>2 DEF LoadApproval

\* The holder of the key is looked up and reported.
LEMMA DuplicateInv ==
  ASSUME IInv, NEW t \in Threads, Duplicate(t)
  PROVE  IInv'
<1> DEFINE e == on[t]
<1>0. /\ e \in Executions
      /\ pc[t] \in {"duplicate"}
      /\ UNCHANGED <<status, decision, approvedBy, hash, keyOwner, approval, events, overdue, calls>>
  BY DEF Duplicate, IInv, ContextInv, records, tables, history
<1>1. /\ pc' = [pc EXCEPT ![t] = "idle"]
      /\ on' = [on EXCEPT ![t] = None]
      /\ given' = [given EXCEPT ![t] = None]
  BY DEF Duplicate, Goto
<1>2. /\ replayed' \subseteq Executions
      /\ \A d \in replayed' : status[d] = "SUCCEEDED"
  BY <1>0 DEF Duplicate, IInv, TypeOK, ContextInv, ReplayInv
<1> USE <1>0, <1>1, <1>2 DEF IInv
<1>3. TypeOK'
  BY DEF TypeOK, PC, LogSteps, Statuses, TERMINAL_STATUSES, ApprovalStatuses
<1>4. ContextInv' /\ KeyInv'
  BY DEF TypeOK, ContextInv, KeyInv, Driving, Running
<1>5. DrivingInv'
  BY DEF TypeOK, DrivingInv, Driving, Logged, ApprovalInv, Undecided
<1>6. RunningInv'
  BY DEF TypeOK, RunningInv, CallsInv, Running, Logged
<1>7. CallsInv' /\ ReplayInv'
  BY DEF TypeOK, CallsInv, RunningInv, Logged, ReplayInv
<1>8. ApprovalInv' /\ AuthorisedInv'
  BY DEF TypeOK, DrivingInv, ApprovalInv, ApprovalMatchesExecution, Undecided,
           AuthorisedInv, Authorised, CallsInv, Logged
<1> QED
  BY <1>3, <1>4, <1>5, <1>6, <1>7, <1>8

\* The key is taken, or found taken.
LEMMA RegisterIdempotencyInv ==
  ASSUME IInv, NEW t \in Threads, RegisterIdempotency(t)
  PROVE  IInv'
<1> DEFINE e == on[t]
<1>0. /\ e \in Executions
      /\ pc[t] \in {"register"}
      /\ UNCHANGED <<status, decision, approvedBy, hash, approval, events, overdue, calls, replayed>>
  BY DEF RegisterIdempotency, IInv, ContextInv, records, tables, history
<1>1. CASE /\ keyOwner[KeyOf[e]] = None
           /\ keyOwner' = [keyOwner EXCEPT ![KeyOf[e]] = e]
           /\ Goto(t, "insert")
           /\ pc[t] = "register"
  <2>1. pc' = [pc EXCEPT ![t] = "insert"] /\ UNCHANGED <<on, given>>
    BY <1>1 DEF Goto
  <2> USE <1>0, <1>1, <2>1, EngineAssumption DEF IInv, NoRecord
  <2>2. TypeOK'
    BY DEF TypeOK, PC, LogSteps, Statuses, TERMINAL_STATUSES, ApprovalStatuses
  <2>3. ContextInv' /\ KeyInv'
    BY DEF TypeOK, ContextInv, KeyInv, Driving, Running
  <2>4. DrivingInv'
    BY DEF TypeOK, DrivingInv, Driving, Logged, ApprovalInv, Undecided
  <2>5. RunningInv'
    BY DEF TypeOK, RunningInv, CallsInv, Running, Logged
  <2>6. CallsInv' /\ ReplayInv'
    BY DEF TypeOK, CallsInv, RunningInv, Logged, ReplayInv
  <2>7. ApprovalInv' /\ AuthorisedInv'
    BY DEF TypeOK, DrivingInv, ApprovalInv, ApprovalMatchesExecution, Undecided,
           AuthorisedInv, Authorised, CallsInv, Logged
  <2> QED
    BY <2>2, <2>3, <2>4, <2>5, <2>6, <2>7
<1>2. CASE /\ keyOwner[KeyOf[e]] # None /\ UNCHANGED keyOwner
           /\ Goto(t, "duplicate")
           /\ pc[t] = "register"
  <2>1. pc' = [pc EXCEPT ![t] = "duplicate"] /\ UNCHANGED <<on, given>>
    BY <1>2 DEF Goto
  <2> USE <1>0, <1>2, <2>1, EngineAssumption DEF IInv, NoRecord
  <2>2. TypeOK'
    BY DEF TypeOK, PC, LogSteps, Statuses, TERMINAL_STATUSES, ApprovalStatuses
  <2>3. ContextInv' /\ KeyInv'
    BY DEF TypeOK, ContextInv, KeyInv, Driving, Running
  <2>4. DrivingInv'
    BY DEF TypeOK, DrivingInv, Driving, Logged, ApprovalInv, Undecided
  <2>5. RunningInv'
    BY DEF TypeOK, RunningInv, CallsInv, Running, Logged
  <2>6. CallsInv' /\ ReplayInv'
    BY DEF TypeOK, CallsInv, RunningInv, Logged, ReplayInv
  <2>7. ApprovalInv' /\ AuthorisedInv'
    BY DEF TypeOK, DrivingInv, ApprovalInv, ApprovalMatchesExecution, Undecided,
           AuthorisedInv, Authorised, CallsInv, Logged
  <2> QED
    BY <2>2, <2>3, <2>4, <2>5, <2>6, <2>7
<1> QED
  BY <1>0, <1>1, <1>2 DEF RegisterIdempotency

\* The record is inserted, or its id is taken.
LEMMA InsertRecordInv ==
  ASSUME IInv, NEW t \in Threads, InsertRecord(t)
  PROVE  IInv'
<1> DEFINE e == on[t]
<1>0. /\ e \in Executions
      /\ pc[t] \in {"insert"}
      /\ UNCHANGED <<decision, approvedBy, keyOwner, approval, events, overdue, calls, replayed>>
  BY DEF InsertRecord, IInv, ContextInv, records, tables, history
<1>1. CASE Goto(t, "idle") /\ UNCHANGED <<status, hash>>
  BY <1>0, <1>1, LeaveInv DEF tables, records, history
<1>2. CASE /\ status[e] = NoRecord
           /\ status' = [status EXCEPT ![e] = "REQUESTED"]
           /\ hash' = [hash EXCEPT ![e] = given[t]]
           /\ Goto(t, "log_requested")
           /\ pc[t] = "insert"
  <2>1. pc' = [pc EXCEPT ![t] = "log_requested"] /\ UNCHANGED <<on, given>>
    BY <1>2 DEF Goto
  <2> USE <1>0, <1>2, <2>1, EngineAssumption DEF IInv, NoRecord
  <2>2. TypeOK'
    BY DEF TypeOK, PC, LogSteps, Statuses, TERMINAL_STATUSES, ApprovalStatuses
  <2>3. ContextInv' /\ KeyInv'
    BY DEF TypeOK, ContextInv, KeyInv, Driving, Running, DrivingInv, RunningInv
  <2>4. DrivingInv'
    BY DEF TypeOK, DrivingInv, Driving, Logged, ApprovalInv, Undecided
  <2>5. RunningInv'
    BY DEF TypeOK, RunningInv, CallsInv, Running, Logged
  <2>6. CallsInv' /\ ReplayInv'
    BY DEF TypeOK, CallsInv, RunningInv, Logged, ReplayInv
  <2>7. ApprovalInv' /\ AuthorisedInv'
    BY DEF TypeOK, DrivingInv, ApprovalInv, ApprovalMatchesExecution, Undecided,
           AuthorisedInv, Authorised, CallsInv, Logged
  <2> QED
    BY <2>2, <2>3, <2>4, <2>5, <2>6, <2>7
<1> QED
  BY <1>0, <1>1, <1>2 DEF InsertRecord

\* The decision of the policy is stored.
LEMMA EvaluatePolicyInv ==
  ASSUME IInv, NEW t \in Threads, EvaluatePolicy(t)
  PROVE  IInv'
<1> DEFINE e == on[t]
<1>0. /\ e \in Executions
      /\ pc[t] \in {"policy"}
      /\ UNCHANGED <<status, approvedBy, hash, keyOwner, approval, events, overdue, calls, replayed>>
  BY DEF EvaluatePolicy, IInv, ContextInv, records, tables, history
<1>1. CASE /\ decision' \in [Executions -> Decisions]
           /\ \A d \in Executions : d # e => decision'[d] = decision[d]
           /\ Goto(t, "log_policy") /\ pc[t] = "policy"
  <2>1. pc' = [pc EXCEPT ![t] = "log_policy"] /\ UNCHANGED <<on, given>>
    BY <1>1 DEF Goto
  <2> USE <1>0, <1>1, <2>1, EngineAssumption DEF IInv, NoRecord
  <2>2. TypeOK'
    BY DEF TypeOK, PC, LogSteps, Statuses, TERMINAL_STATUSES, ApprovalStatuses
  <2>3. ContextInv' /\ KeyInv'
    BY DEF TypeOK, ContextInv, KeyInv, Driving, Running
  <2>4. DrivingInv'
    BY DEF TypeOK, DrivingInv, Driving, Logged, ApprovalInv, Undecided
  <2>5. RunningInv'
    BY DEF TypeOK, RunningInv, CallsInv, Running, Logged
  <2>6. CallsInv' /\ ReplayInv'
    BY DEF TypeOK, CallsInv, RunningInv, Logged, ReplayInv
  <2>7. ApprovalInv' /\ AuthorisedInv'
    BY DEF TypeOK, DrivingInv, ApprovalInv, ApprovalMatchesExecution, Undecided,
           AuthorisedInv, Authorised, CallsInv, Logged
  <2> QED
    BY <2>2, <2>3, <2>4, <2>5, <2>6, <2>7
<1> QED
  BY <1>0, <1>1 DEF EvaluatePolicy, IInv, TypeOK

\* The approval row of a deferred execution is inserted.
LEMMA CreateApprovalRequestInv ==
  ASSUME IInv, NEW t \in Threads, CreateApprovalRequest(t)
  PROVE  IInv'
<1> DEFINE e == on[t]
<1>0. /\ e \in Executions
      /\ pc[t] \in {"create_approval"}
      /\ UNCHANGED <<status, decision, approvedBy, hash, keyOwner, events, overdue, calls, replayed>>
  BY DEF CreateApprovalRequest, IInv, ContextInv, records, tables, history
<1>1. CASE /\ approval' = [approval EXCEPT ![e] = "PENDING"]
           /\ Goto(t, "log_pending") /\ pc[t] = "create_approval"
  <2>1. pc' = [pc EXCEPT ![t] = "log_pending"] /\ UNCHANGED <<on, given>>
    BY <1>1 DEF Goto
  <2> USE <1>0, <1>1, <2>1, EngineAssumption DEF IInv, NoRecord
  <2>2. TypeOK'
    BY DEF TypeOK, PC, LogSteps, Statuses, TERMINAL_STATUSES, ApprovalStatuses
  <2>3. ContextInv' /\ KeyInv'
    BY DEF TypeOK, ContextInv, KeyInv, Driving, Running
  <2>4. DrivingInv'
    BY DEF TypeOK, DrivingInv, Driving, Logged, ApprovalInv, Undecided
  <2>5. RunningInv'
    BY DEF TypeOK, RunningInv, CallsInv, Running, Logged
  <2>6. CallsInv' /\ ReplayInv'
    BY DEF TypeOK, CallsInv, RunningInv, Logged, ReplayInv
  <2>7. ApprovalInv' /\ AuthorisedInv'
    BY DEF TypeOK, DrivingInv, ApprovalInv, ApprovalMatchesExecution, Undecided,
           AuthorisedInv, Authorised, CallsInv, Logged
  <2> QED
    BY <2>2, <2>3, <2>4, <2>5, <2>6, <2>7
<1> QED
  BY <1>0, <1>1 DEF CreateApprovalRequest

\* The approval provider answers.
LEMMA PromptInv ==
  ASSUME IInv, NEW t \in Threads, Prompt(t)
  PROVE  IInv'
<1> DEFINE e == on[t]
<1>0. /\ e \in Executions
      /\ pc[t] \in {"prompt"}
      /\ UNCHANGED <<decision, hash, keyOwner, approval, events, overdue, calls, replayed>>
  BY DEF Prompt, IInv, ContextInv, records, tables, history
<1>1. CASE Goto(t, "idle") /\ UNCHANGED <<status, approvedBy>>
  BY <1>0, <1>1, LeaveInv DEF tables, records, history
<1>2. CASE /\ pc[t] = "prompt"
           /\ status[e] = "WAITING_APPROVAL" /\ status' = [status EXCEPT ![e] = "APPROVED"]
           /\ Goto(t, "log_granted")
           /\ approvedBy' = [approvedBy EXCEPT ![e] = TRUE]
  <2>1. pc' = [pc EXCEPT ![t] = "log_granted"] /\ UNCHANGED <<on, given>>
    BY <1>2 DEF Goto
  <2> USE <1>0, <1>2, <2>1, EngineAssumption DEF IInv, NoRecord
  <2>2. TypeOK'
    BY DEF TypeOK, PC, LogSteps, Statuses, TERMINAL_STATUSES, ApprovalStatuses
  <2>3. ContextInv' /\ KeyInv'
    BY DEF TypeOK, ContextInv, KeyInv, Driving, Running
  <2>4. DrivingInv'
    BY DEF TypeOK, DrivingInv, Driving, Logged, ApprovalInv, Undecided
  <2>5. RunningInv'
    BY DEF TypeOK, RunningInv, CallsInv, Running, Logged
  <2>6. CallsInv' /\ ReplayInv'
    BY DEF TypeOK, CallsInv, RunningInv, Logged, ReplayInv
  <2>7. ApprovalInv' /\ AuthorisedInv'
    BY DEF TypeOK, DrivingInv, ApprovalInv, ApprovalMatchesExecution, Undecided,
           AuthorisedInv, Authorised, CallsInv, Logged
  <2> QED
    BY <2>2, <2>3, <2>4, <2>5, <2>6, <2>7
<1>3. CASE /\ pc[t] = "prompt"
           /\ status[e] = "WAITING_APPROVAL" /\ status' = [status EXCEPT ![e] = "DENIED"]
           /\ Goto(t, "log_denied")
           /\ UNCHANGED approvedBy
  <2>1. pc' = [pc EXCEPT ![t] = "log_denied"] /\ UNCHANGED <<on, given>>
    BY <1>3 DEF Goto
  <2> USE <1>0, <1>3, <2>1, EngineAssumption DEF IInv, NoRecord
  <2>2. TypeOK'
    BY DEF TypeOK, PC, LogSteps, Statuses, TERMINAL_STATUSES, ApprovalStatuses
  <2>3. ContextInv' /\ KeyInv'
    BY DEF TypeOK, ContextInv, KeyInv, Driving, Running
  <2>4. DrivingInv'
    BY DEF TypeOK, DrivingInv, Driving, Logged, ApprovalInv, Undecided
  <2>5. RunningInv'
    BY DEF TypeOK, RunningInv, CallsInv, Running, Logged
  <2>6. CallsInv' /\ ReplayInv'
    BY DEF TypeOK, CallsInv, RunningInv, Logged, ReplayInv
  <2>7. ApprovalInv' /\ AuthorisedInv'
    BY DEF TypeOK, DrivingInv, ApprovalInv, ApprovalMatchesExecution, Undecided,
           AuthorisedInv, Authorised, CallsInv, Logged
  <2> QED
    BY <2>2, <2>3, <2>4, <2>5, <2>6, <2>7
<1>4. CASE /\ pc[t] = "prompt"
           /\ status[e] = "WAITING_APPROVAL" /\ status' = [status EXCEPT ![e] = "EXPIRED"]
           /\ Goto(t, "log_expired")
           /\ UNCHANGED approvedBy
  <2>1. pc' = [pc EXCEPT ![t] = "log_expired"] /\ UNCHANGED <<on, given>>
    BY <1>4 DEF Goto
  <2> USE <1>0, <1>4, <2>1, EngineAssumption DEF IInv, NoRecord
  <2>2. TypeOK'
    BY DEF TypeOK, PC, LogSteps, Statuses, TERMINAL_STATUSES, ApprovalStatuses
  <2>3. ContextInv' /\ KeyInv'
    BY DEF TypeOK, ContextInv, KeyInv, Driving, Running
  <2>4. DrivingInv'
    BY DEF TypeOK, DrivingInv, Driving, Logged, ApprovalInv, Undecided
  <2>5. RunningInv'
    BY DEF TypeOK, RunningInv, CallsInv, Running, Logged
  <2>6. CallsInv' /\ ReplayInv'
    BY DEF TypeOK, CallsInv, RunningInv, Logged, ReplayInv
  <2>7. ApprovalInv' /\ AuthorisedInv'
    BY DEF TypeOK, DrivingInv, ApprovalInv, ApprovalMatchesExecution, Undecided,
           AuthorisedInv, Authorised, CallsInv, Logged
  <2> QED
    BY <2>2, <2>3, <2>4, <2>5, <2>6, <2>7
<1> QED
  <2>1. status[e] # "WAITING_APPROVAL" => approvedBy = [approvedBy EXCEPT ![e] = @ \/ status[e] = "WAITING_APPROVAL"]
    BY <1>0 DEF IInv, TypeOK
  <2>2. status[e] = "WAITING_APPROVAL" => [approvedBy EXCEPT ![e] = TRUE] = [approvedBy EXCEPT ![e] = @ \/ status[e] = "WAITING_APPROVAL"]
    BY <1>0 DEF IInv, TypeOK
  <2> QED
    BY <1>0, <1>1, <1>2, <1>3, <1>4, <2>1, <2>2
    DEF Prompt, Transition, AssertTransition, ALLOWED_TRANSITIONS, TERMINAL_STATUSES

\* The delegation chain authorises the action, or the record is blocked.
LEMMA CheckDelegationInv ==
  ASSUME IInv, NEW t \in Threads, CheckDelegation(t)
  PROVE  IInv'
<1> DEFINE e == on[t]
<1>0. /\ e \in Executions
      /\ pc[t] \in {"delegation"}
      /\ UNCHANGED <<decision, approvedBy, hash, keyOwner, approval, overdue, calls, replayed>>
  BY DEF CheckDelegation, IInv, ContextInv, records, tables, history
<1>1. CASE Goto(t, "idle") /\ UNCHANGED <<status, events>>
  BY <1>0, <1>1, LeaveInv DEF tables, records, history
<1>2. CASE /\ UNCHANGED events /\ pc[t] = "delegation"
           /\ status[e] = "REQUESTED" /\ status' = [status EXCEPT ![e] = "BLOCKED"]
           /\ Goto(t, "log_blocked")
  <2>1. pc' = [pc EXCEPT ![t] = "log_blocked"] /\ UNCHANGED <<on, given>>
    BY <1>2 DEF Goto
  <2> USE <1>0, <1>2, <2>1, EngineAssumption DEF IInv, NoRecord
  <2>2. TypeOK'
    BY DEF TypeOK, PC, LogSteps, Statuses, TERMINAL_STATUSES, ApprovalStatuses
  <2>3. ContextInv' /\ KeyInv'
    BY DEF TypeOK, ContextInv, KeyInv, Driving, Running
  <2>4. DrivingInv'
    BY DEF TypeOK, DrivingInv, Driving, Logged, ApprovalInv, Undecided
  <2>5. RunningInv'
    BY DEF TypeOK, RunningInv, CallsInv, Running, Logged
  <2>6. CallsInv' /\ ReplayInv'
    BY DEF TypeOK, CallsInv, RunningInv, Logged, ReplayInv
  <2>7. ApprovalInv' /\ AuthorisedInv'
    BY DEF TypeOK, DrivingInv, ApprovalInv, ApprovalMatchesExecution, Undecided,
           AuthorisedInv, Authorised, CallsInv, Logged
  <2> QED
    BY <2>2, <2>3, <2>4, <2>5, <2>6, <2>7
<1>3. CASE /\ UNCHANGED status /\ pc[t] = "delegation"
           /\ Append_event(e, "CONTEXT_RESOLVED")
           /\ Goto(t, "evaluated")
  <2>1. pc' = [pc EXCEPT ![t] = "evaluated"] /\ UNCHANGED <<on, given>>
    BY <1>3 DEF Goto
  <2>a. /\ events' \in [Executions -> Seq(EventTypes)]
        /\ \A d \in Executions, type \in {"POLICY_EVALUATED", "ACTION_STARTED"} :
             Logged(d, type) => Logged(d, type)'
    <3>1. events' = [events EXCEPT ![e] = Append(@, "CONTEXT_RESOLVED")]
      BY <1>3 DEF Append_event
    <3>2. events \in [Executions -> Seq(EventTypes)] /\ "CONTEXT_RESOLVED" \in EventTypes
      BY DEF IInv, TypeOK, EventTypes
    <3> QED
      BY <1>0, <3>1, <3>2, SMTT(30) DEF Logged
  <2> USE <1>0, <1>3, <2>1, <2>a, EngineAssumption DEF IInv, NoRecord
  <2>2. TypeOK'
    BY DEF TypeOK, PC, LogSteps, Statuses, TERMINAL_STATUSES, ApprovalStatuses
  <2>3. ContextInv' /\ KeyInv'
    BY DEF TypeOK, ContextInv, KeyInv, Driving, Running
  <2>4. DrivingInv'
    BY DEF TypeOK, DrivingInv, Driving, ApprovalInv, Undecided, ContextInv
  <2>5. RunningInv'
    BY DEF TypeOK, RunningInv, CallsInv, Running, ContextInv
  <2>6. CallsInv' /\ ReplayInv'
    BY DEF TypeOK, CallsInv, RunningInv, ReplayInv
  <2>7. ApprovalInv' /\ AuthorisedInv'
    BY DEF TypeOK, DrivingInv, ApprovalInv, ApprovalMatchesExecution, Undecided,
           AuthorisedInv, Authorised, CallsInv
  <2> QED
    BY <2>2, <2>3, <2>4, <2>5, <2>6, <2>7
<1> QED
  BY <1>0, <1>1, <1>2, <1>3 DEF CheckDelegation, Transition

\* The guarded function is called.
LEMMA CallFunctionInv ==
  ASSUME IInv, NEW t \in Threads, CallFunction(t)
  PROVE  IInv'
<1> DEFINE e == on[t]
<1>0. /\ e \in Executions
      /\ pc[t] \in {"call"}
      /\ UNCHANGED <<status, decision, approvedBy, hash, keyOwner, approval, events, overdue, replayed>>
  BY DEF CallFunction, IInv, ContextInv, records, tables, history
<1>a. /\ calls' = [calls EXCEPT ![e] = <<hash[e]>>]
      /\ calls' \in [Executions -> Seq(Params \cup {None})]
      /\ pc[t] = "call" /\ status[e] = "EXECUTING" /\ Logged(e, "ACTION_STARTED")
      /\ OnError = "fail_closed" => Authorised(e)
  <2>1. /\ calls[e] = <<>> /\ given[t] = hash[e] /\ hash[e] \in Params \cup {None}
        /\ pc[t] = "call" /\ status[e] = "EXECUTING" /\ Logged(e, "ACTION_STARTED")
        /\ OnError = "fail_closed" => Authorised(e)
    BY <1>0 DEF IInv, TypeOK, ContextInv, RunningInv, Running, AuthorisedInv
  <2>2. calls' = [calls EXCEPT ![e] = Append(@, given[t])]
    BY DEF CallFunction
  <2>3. Append(<<>>, given[t]) = <<given[t]>>
    OBVIOUS
  <2> QED
    BY <1>0, <2>1, <2>2, <2>3 DEF IInv, TypeOK
<1> USE <1>a
<1>1. CASE Goto(t, "succeed")
  <2>1. pc' = [pc EXCEPT ![t] = "succeed"] /\ UNCHANGED <<on, given>>
    BY <1>1 DEF Goto
  <2> USE <1>0, <1>1, <2>1, EngineAssumption DEF IInv, NoRecord
  <2>2. TypeOK'
    BY DEF TypeOK, PC, LogSteps, Statuses, TERMINAL_STATUSES, ApprovalStatuses
  <2>3. ContextInv' /\ KeyInv'
    BY DEF TypeOK, ContextInv, KeyInv, Driving, Running
  <2>4. DrivingInv'
    BY DEF TypeOK, DrivingInv, Driving, Logged, ApprovalInv, Undecided
  <2>5. RunningInv'
    BY DEF TypeOK, RunningInv, CallsInv, Running, Logged
  <2>6. CallsInv' /\ ReplayInv'
    BY DEF TypeOK, CallsInv, RunningInv, Logged, ReplayInv
  <2>7. ApprovalInv' /\ AuthorisedInv'
    BY DEF TypeOK, DrivingInv, ApprovalInv, ApprovalMatchesExecution, Undecided,
           AuthorisedInv, Authorised, CallsInv, Logged
  <2> QED
    BY <2>2, <2>3, <2>4, <2>5, <2>6, <2>7
<1>2. CASE Goto(t, "fail")
  <2>1. pc' = [pc EXCEPT ![t] = "fail"] /\ UNCHANGED <<on, given>>
    BY <1>2 DEF Goto
  <2> USE <1>0, <1>2, <2>1, EngineAssumption DEF IInv, NoRecord
  <2>2. TypeOK'
    BY DEF TypeOK, PC, LogSteps, Statuses, TERMINAL_STATUSES, ApprovalStatuses
  <2>3. ContextInv' /\ KeyInv'
    BY DEF TypeOK, ContextInv, KeyInv, Driving, Running
  <2>4. DrivingInv'
    BY DEF TypeOK, DrivingInv, Driving, Logged, ApprovalInv, Undecided
  <2>5. RunningInv'
    BY DEF TypeOK, RunningInv, CallsInv, Running, Logged
  <2>6. CallsInv' /\ ReplayInv'
    BY DEF TypeOK, CallsInv, RunningInv, Logged, ReplayInv
  <2>7. ApprovalInv' /\ AuthorisedInv'
    BY DEF TypeOK, DrivingInv, ApprovalInv, ApprovalMatchesExecution, Undecided,
           AuthorisedInv, Authorised, CallsInv, Logged
  <2> QED
    BY <2>2, <2>3, <2>4, <2>5, <2>6, <2>7
<1> QED
  BY <1>1, <1>2 DEF CallFunction

\* The approval is consumed and the execution starts, or neither.
LEMMA ConsumeApprovalInv ==
  ASSUME IInv, NEW t \in Threads, ConsumeApproval(t)
  PROVE  IInv'
<1> DEFINE e == on[t]
<1>0. /\ e \in Executions
      /\ pc[t] \in {"consume"}
      /\ UNCHANGED <<decision, approvedBy, hash, keyOwner, events, overdue, calls, replayed>>
  BY DEF ConsumeApproval, IInv, ContextInv, records, tables, history
<1>1. CASE Goto(t, "idle") /\ UNCHANGED <<approval, status>>
  BY <1>0, <1>1, LeaveInv DEF tables, records, history
<1>2. CASE /\ pc[t] = "consume"
           /\ status[e] = "APPROVED" /\ status' = [status EXCEPT ![e] = "EXECUTING"]
           /\ Goto(t, "log_started")
           /\ approval[e] = "GRANTED"
           /\ approval' = [approval EXCEPT ![e] = "CONSUMED"]
  <2>1. pc' = [pc EXCEPT ![t] = "log_started"] /\ UNCHANGED <<on, given>>
    BY <1>2 DEF Goto
  <2>a. /\ calls[e] = <<>>
        /\ \A u \in Threads : pc[u] \in Running => on[u] # e
    BY <1>0, <1>2 DEF IInv, CallsInv, RunningInv
  <2> USE <1>0, <1>2, <2>1, EngineAssumption DEF IInv, NoRecord
  <2>2. TypeOK'
    BY DEF TypeOK, PC, LogSteps, Statuses, TERMINAL_STATUSES, ApprovalStatuses
  <2>3. ContextInv' /\ KeyInv'
    BY DEF TypeOK, ContextInv, KeyInv, Driving, Running
  <2>4. DrivingInv'
    BY DEF TypeOK, DrivingInv, Driving, Logged, ApprovalInv, Undecided
  <2>5. RunningInv'
    BY <2>a DEF TypeOK, RunningInv, Running, Logged
  <2>6. CallsInv' /\ ReplayInv'
    BY DEF TypeOK, CallsInv, RunningInv, Logged, ReplayInv
  <2>7. ApprovalInv' /\ AuthorisedInv'
    BY DEF TypeOK, DrivingInv, ApprovalInv, ApprovalMatchesExecution, Undecided,
           AuthorisedInv, Authorised, CallsInv, Logged
  <2> QED
    BY <2>2, <2>3, <2>4, <2>5, <2>6, <2>7
<1> QED
  BY <1>0, <1>1, <1>2 DEF ConsumeApproval

\* An approval is granted, or found expired.
LEMMA GrantApprovalInv ==
  ASSUME IInv, NEW e \in Executions, GrantApproval(e)
  PROVE  IInv'
<1>1. /\ UNCHANGED <<decision, hash, keyOwner, events, overdue, calls, replayed>>
      /\ UNCHANGED <<pc, on, given>>
  BY DEF GrantApproval, records, tables, history, threads
<1>2. CASE /\ approval[e] = "PENDING" /\ status[e] = "WAITING_APPROVAL"
           /\ approval' = [approval EXCEPT ![e] = "EXPIRED"]
           /\ status' = [status EXCEPT ![e] = "EXPIRED"]
           /\ UNCHANGED approvedBy
  <2> USE <1>1, <1>2, EngineAssumption DEF IInv, NoRecord
  <2>2. TypeOK'
    BY DEF TypeOK, PC, LogSteps, Statuses, TERMINAL_STATUSES, ApprovalStatuses
  <2>3. ContextInv' /\ KeyInv'
    BY DEF TypeOK, ContextInv, KeyInv, Driving, Running
  <2>4. DrivingInv'
    BY DEF TypeOK, DrivingInv, Driving, Logged, ApprovalInv, Undecided
  <2>5. RunningInv'
    BY DEF TypeOK, RunningInv, CallsInv, Running, Logged
  <2>6. CallsInv' /\ ReplayInv'
    BY DEF TypeOK, CallsInv, RunningInv, Logged, ReplayInv
  <2>7. ApprovalInv' /\ AuthorisedInv'
    BY DEF TypeOK, DrivingInv, ApprovalInv, ApprovalMatchesExecution, Undecided,
           AuthorisedInv, Authorised, CallsInv, Logged
  <2> QED
    BY <2>2, <2>3, <2>4, <2>5, <2>6, <2>7
<1>3. CASE /\ approval[e] = "PENDING" /\ status[e] = "WAITING_APPROVAL"
           /\ approval' = [approval EXCEPT ![e] = "GRANTED"]
           /\ status' = [status EXCEPT ![e] = "APPROVED"]
           /\ approvedBy' = [approvedBy EXCEPT ![e] = TRUE]
  <2> USE <1>1, <1>3, EngineAssumption DEF IInv, NoRecord
  <2>2. TypeOK'
    BY DEF TypeOK, PC, LogSteps, Statuses, TERMINAL_STATUSES, ApprovalStatuses
  <2>3. ContextInv' /\ KeyInv'
    BY DEF TypeOK, ContextInv, KeyInv, Driving, Running
  <2>4. DrivingInv'
    BY DEF TypeOK, DrivingInv, Driving, Logged, ApprovalInv, Undecided
  <2>5. RunningInv'
    BY DEF TypeOK, RunningInv, CallsInv, Running, Logged
  <2>6. CallsInv' /\ ReplayInv'
    BY DEF TypeOK, CallsInv, RunningInv, Logged, ReplayInv
  <2>7. ApprovalInv' /\ AuthorisedInv'
    BY DEF TypeOK, DrivingInv, ApprovalInv, ApprovalMatchesExecution, Undecided,
           AuthorisedInv, Authorised, CallsInv, Logged
  <2> QED
    BY <2>2, <2>3, <2>4, <2>5, <2>6, <2>7
<1> QED
  BY <1>2, <1>3 DEF GrantApproval

\* An approval is denied.
LEMMA DenyApprovalInv ==
  ASSUME IInv, NEW e \in Executions, DenyApproval(e)
  PROVE  IInv'
<1>1. /\ UNCHANGED <<decision, approvedBy, hash, keyOwner, events, overdue, calls, replayed>>
      /\ UNCHANGED <<pc, on, given>>
  BY DEF DenyApproval, records, tables, history, threads
<1>2. CASE /\ approval[e] = "PENDING" /\ status[e] = "WAITING_APPROVAL"
           /\ approval' = [approval EXCEPT ![e] = "DENIED"]
           /\ status' = [status EXCEPT ![e] = "DENIED"]
  <2> USE <1>1, <1>2, EngineAssumption DEF IInv, NoRecord
  <2>2. TypeOK'
    BY DEF TypeOK, PC, LogSteps, Statuses, TERMINAL_STATUSES, ApprovalStatuses
  <2>3. ContextInv' /\ KeyInv'
    BY DEF TypeOK, ContextInv, KeyInv, Driving, Running
  <2>4. DrivingInv'
    BY DEF TypeOK, DrivingInv, Driving, Logged, ApprovalInv, Undecided
  <2>5. RunningInv'
    BY DEF TypeOK, RunningInv, CallsInv, Running, Logged
  <2>6. CallsInv' /\ ReplayInv'
    BY DEF TypeOK, CallsInv, RunningInv, Logged, ReplayInv
  <2>7. ApprovalInv' /\ AuthorisedInv'
    BY DEF TypeOK, DrivingInv, ApprovalInv, ApprovalMatchesExecution, Undecided,
           AuthorisedInv, Authorised, CallsInv, Logged
  <2> QED
    BY <2>2, <2>3, <2>4, <2>5, <2>6, <2>7
<1> QED
  BY <1>2 DEF DenyApproval

\* The deadline of an approval passes.
LEMMA DeadlineInv ==
  ASSUME IInv, NEW e \in Executions, Deadline(e)
  PROVE  IInv'
<1>1. /\ UNCHANGED <<status, decision, approvedBy, hash, keyOwner, approval, events>>
      /\ UNCHANGED <<pc, on, given, calls, replayed>>
      /\ overdue' = overdue \cup {e}
  BY DEF Deadline, records, tables, history, threads
<1> QED
  BY <1>1 DEF IInv, TypeOK, ContextInv, KeyInv, DrivingInv, RunningInv, CallsInv,
     ApprovalInv, ApprovalMatchesExecution, AuthorisedInv, Authorised, Logged, ReplayInv

\* A step of something else changes nothing (stuttering).
LEMMA StutterInv ==
  ASSUME IInv, UNCHANGED vars
  PROVE  IInv'
BY DEF vars, tables, records, threads, history, IInv, TypeOK, ContextInv, KeyInv,
   DrivingInv, RunningInv, CallsInv, ApprovalInv, ApprovalMatchesExecution,
   AuthorisedInv, Authorised, Logged, ReplayInv

\* Every step of a thread, of an operator and of the clock keeps the invariant.
LEMMA NextIInv ==
  ASSUME IInv, [Next]_vars
  PROVE  IInv'
<1>1. ASSUME NEW t \in Threads, Step(t)
      PROVE  IInv'
  BY <1>1, RecordEventInv, RegisterIdempotencyInv, DuplicateInv, InsertRecordInv,
     CheckDelegationInv, BecomeEvaluatedInv, EvaluatePolicyInv,
     HandlePolicyErrorInv, EnforceInv, CreateApprovalRequestInv, PromptInv,
     BeginExecuteInv, CallFunctionInv, FinishFunctionInv, LoadApprovalInv,
     ConsumeApprovalInv, BecomeCancelledInv DEF Step
<1>2. ASSUME NEW t \in Threads, Begin(t)
      PROVE  IInv'
  BY <1>2, RunControlledInv, ResumeAfterApprovalInv, CancelExecutionInv DEF Begin
<1>3. ASSUME NEW e \in Executions, Operator(e)
      PROVE  IInv'
  BY <1>3, GrantApprovalInv, DenyApprovalInv, DeadlineInv DEF Operator
<1> QED
  BY <1>1, <1>2, <1>3, CrashInv, StutterInv DEF Next

\* The invariant holds in every reachable state of engine and store.
THEOREM Invariance == Spec => []IInv
<1>1. Init => IInv
  BY InitIInv
<1>2. IInv /\ [Next]_vars => IInv'
  BY NextIInv
<1> QED
  BY <1>1, <1>2, PTL DEF Spec

\* Every variable stays in its domain, for any threads, executions and keys.
THEOREM TypeCorrect == Spec => []TypeOK
<1>1. IInv => TypeOK
  BY EngineAssumption DEF IInv
<1> QED
  BY <1>1, Invariance, PTL

\* However many threads submit, resume, cancel or die, the guarded function
\* of an execution is called at most once.
THEOREM AtMostOnce == Spec => []AtMostOneCall
<1>1. ASSUME IInv, NEW e \in Executions
      PROVE  Len(calls[e]) <= 1
  <2>1. calls[e] = <<>> \/ calls[e] = <<hash[e]>>
    BY <1>1 DEF IInv, CallsInv
  <2>2. Len(<<>>) = 0 /\ Len(<<hash[e]>>) = 1
    OBVIOUS
  <2>3. Len(calls[e]) = 0 \/ Len(calls[e]) = 1
    BY <2>1, <2>2, Zenon
  <2>4. \A n \in {0, 1} : n <= 1
    OBVIOUS
  <2> QED
    BY <2>3, <2>4, Zenon
<1>2. IInv => AtMostOneCall
  BY <1>1 DEF AtMostOneCall
<1> QED
  BY <1>2, Invariance, PTL

\* Executions requested under one idempotency key have one call between them.
THEOREM OncePerKey == Spec => []OneCallPerKey
<1>1. ASSUME IInv, NEW e \in Executions, NEW d \in Executions,
             KeyOf[e] = KeyOf[d], KeyOf[e] # NoKey, calls[e] # <<>>, calls[d] # <<>>
      PROVE  e = d
  <2>1. KeyOf[e] \in Keys
    BY <1>1, EngineAssumption
  <2>2. status[e] # NoRecord /\ status[d] # NoRecord
    BY <1>1 DEF IInv, CallsInv, NoRecord
  <2>3. keyOwner[KeyOf[e]] = e /\ keyOwner[KeyOf[d]] = d
    BY <1>1, <2>1, <2>2 DEF IInv, KeyInv
  <2> QED
    BY <1>1, <2>3
<1>2. IInv => OneCallPerKey
  BY <1>1 DEF OneCallPerKey
<1> QED
  BY <1>2, Invariance, PTL

\* The function runs with the parameters on record only.
THEOREM RecordedParametersOnly == Spec => []CallsWithRecordedParameters
<1>1. IInv => CallsWithRecordedParameters
  BY EngineAssumption DEF CallsWithRecordedParameters, IInv, CallsInv
<1> QED
  BY <1>1, Invariance, PTL

\* A blocked, denied, expired or cancelled execution was never called.
THEOREM StoppedIsStopped == Spec => []StoppedNeverCalled
<1>1. IInv => StoppedNeverCalled
  BY EngineAssumption DEF StoppedNeverCalled, IInv, CallsInv
<1> QED
  BY <1>1, Invariance, PTL

\* The approval table and the execution table never contradict each other.
THEOREM ApprovalAndExecutionAgree == Spec => []ApprovalMatchesExecution
<1>1. IInv => ApprovalMatchesExecution
  BY EngineAssumption DEF ApprovalMatchesExecution, IInv, ApprovalInv
<1> QED
  BY <1>1, Invariance, PTL

\* ACTION_STARTED is in the ledger before the function is called.
THEOREM LoggedBeforeCall == Spec => []CallIsLoggedFirst
<1>1. IInv => CallIsLoggedFirst
  BY EngineAssumption DEF CallIsLoggedFirst, IInv, CallsInv
<1> QED
  BY <1>1, Invariance, PTL

\* An execution reported as a replay did succeed.
THEOREM ReplayTold == Spec => []ReplayIsTruthful
<1>1. IInv => ReplayIsTruthful
  BY EngineAssumption DEF ReplayIsTruthful, IInv, ReplayInv, CallsInv, TypeOK
<1> QED
  BY <1>1, Invariance, PTL

\* Unless the engine was told to fail open, the function is called only with an
\* ALLOW of the policy or an approval on record.
THEOREM AuthorisedBeforeCall ==
  ASSUME OnError = "fail_closed"
  PROVE  Spec => []CallsAuthorised
<1>1. IInv => CallsAuthorised
  BY DEF CallsAuthorised, IInv, AuthorisedInv
<1> QED
  BY <1>1, Invariance, PTL

-----------------------------------------------------------------------------
(***************************************************************************)
(* The ledger tells the truth about outcomes, and the engine implements    *)
(* ExecutionContract.  Both rest on Invariance and on LedgerInv, which     *)
(* says which thread may still write which event of an execution.          *)
(***************************************************************************)

\* Steps of the driving thread before POLICY_EVALUATED is logged.
PolicyAhead == {"log_requested", "delegation", "evaluated", "policy", "log_policy"}

\* Every outcome event is logged at one kind of step, after a transition to
\* a terminal status.
LEMMA OutcomeFacts ==
  /\ \A s \in OutcomeSteps : EventOf(s) \in DOMAIN OutcomeOf
  /\ \A type \in DOMAIN OutcomeOf : OutcomeOf[type] \in TERMINAL_STATUSES
  /\ OutcomeOf["ACTION_SUCCEEDED"] = "SUCCEEDED" /\ OutcomeOf["ACTION_FAILED"] = "FAILED"
  /\ {"POLICY_EVALUATED", "ACTION_STARTED", "CONTEXT_RESOLVED"} \cap DOMAIN OutcomeOf = {}
  /\ \A s \in LogSteps \ OutcomeSteps : EventOf(s) \notin DOMAIN OutcomeOf
  /\ \A s \in LogSteps \ {"log_started"} : EventOf(s) # "ACTION_STARTED"
  /\ \A s \in LogSteps \ {"log_policy"} : EventOf(s) # "POLICY_EVALUATED"
  /\ EventOf("log_started") = "ACTION_STARTED"
  /\ EventOf("log_policy") = "POLICY_EVALUATED"
<1>1. DOMAIN OutcomeOf = {"ACTION_BLOCKED", "APPROVAL_DENIED", "APPROVAL_EXPIRED",
                          "ACTION_CANCELLED", "ACTION_SUCCEEDED", "ACTION_FAILED"}
  BY DEF OutcomeOf
<1>2. \A type \in DOMAIN OutcomeOf : OutcomeOf[type] \in TERMINAL_STATUSES
  BY DEF OutcomeOf, TERMINAL_STATUSES
<1>3. OutcomeOf["ACTION_SUCCEEDED"] = "SUCCEEDED" /\ OutcomeOf["ACTION_FAILED"] = "FAILED"
  BY DEF OutcomeOf
<1>4. /\ \A s \in OutcomeSteps : EventOf(s) \in DOMAIN OutcomeOf
      /\ \A s \in LogSteps \ OutcomeSteps : EventOf(s) \notin DOMAIN OutcomeOf
  BY <1>1 DEF OutcomeSteps, EventOf, LogSteps
<1>5. /\ \A s \in LogSteps \ {"log_started"} : EventOf(s) # "ACTION_STARTED"
      /\ \A s \in LogSteps \ {"log_policy"} : EventOf(s) # "POLICY_EVALUATED"
      /\ EventOf("log_started") = "ACTION_STARTED"
      /\ EventOf("log_policy") = "POLICY_EVALUATED"
  BY DEF EventOf, LogSteps
<1> QED
  BY <1>1, <1>2, <1>3, <1>4, <1>5

\* The empty ledger tells no lie.
LEMMA InitLedger == Init => LedgerInv
BY DEF Init, LedgerInv, LedgerTellsOutcome, Logged, OutcomeSteps

\* A step that writes no event, seen from the ledger: records leave no
\* terminal status, a started execution stays started, and a thread that
\* comes to log an outcome or a start has just made that transition.
SilentStep(t) ==
  /\ UNCHANGED events
  /\ \A d \in Executions :
       status'[d] # status[d] =>
         /\ status[d] \notin TERMINAL_STATUSES
         /\ status'[d] # NoRecord
         /\ status[d] \in Started => status'[d] \in Started
  /\ \A u \in Threads :
       \/ pc'[u] = pc[u] /\ on'[u] = on[u]
       \/ /\ u = t
          /\ pc'[u] \in OutcomeSteps =>
               /\ on'[u] \in Executions
               /\ status[on'[u]] \notin TERMINAL_STATUSES
               /\ status'[on'[u]] = OutcomeOf[EventOf(pc'[u])]
          /\ pc'[u] = "log_started" =>
               /\ on'[u] \in Executions
               /\ status[on'[u]] \notin Started
          /\ pc'[u] \in PolicyAhead => ~Logged(on'[u], "POLICY_EVALUATED")

LEMMA SilentLedger ==
  ASSUME IInv, LedgerInv, NEW t, SilentStep(t)
  PROVE  LedgerInv'
<1>0. /\ UNCHANGED events
      /\ \A d, type : Logged(d, type)' = Logged(d, type)
  BY DEF SilentStep, Logged
<1>1. \A u \in Threads : pc[u] \in OutcomeSteps =>
        /\ on[u] \in Executions
        /\ status[on[u]] \in TERMINAL_STATUSES
        /\ status'[on[u]] = status[on[u]]
  <2> SUFFICES ASSUME NEW u \in Threads, pc[u] \in OutcomeSteps
               PROVE  /\ on[u] \in Executions
                      /\ status[on[u]] \in TERMINAL_STATUSES
                      /\ status'[on[u]] = status[on[u]]
    OBVIOUS
  <2>1. on[u] \in Executions
    BY DEF IInv, ContextInv, OutcomeSteps
  <2>2. status[on[u]] \in TERMINAL_STATUSES
    BY OutcomeFacts DEF LedgerInv
  <2> QED
    BY <2>1, <2>2 DEF SilentStep
<1>2. \A e \in Executions : \A type \in DOMAIN OutcomeOf :
        Logged(e, type) => status'[e] = status[e] /\ status[e] = OutcomeOf[type]
  BY OutcomeFacts DEF LedgerInv, LedgerTellsOutcome, Logged, SilentStep
<1>3. LedgerTellsOutcome'
  BY <1>0, <1>2 DEF LedgerInv, LedgerTellsOutcome, Logged
<1>4. ASSUME NEW e \in Executions
      PROVE  /\ Logged(e, "ACTION_STARTED")' => status'[e] \in Started
             /\ status'[e] = NoRecord => ~Logged(e, "POLICY_EVALUATED")'
  BY <1>0 DEF LedgerInv, SilentStep
<1>5. ASSUME NEW u \in Threads
      PROVE  /\ pc'[u] \in OutcomeSteps =>
                  /\ status'[on'[u]] = OutcomeOf[EventOf(pc'[u])]
                  /\ ~Logged(on'[u], EventOf(pc'[u]))
             /\ pc'[u] = "log_started" => ~Logged(on'[u], "ACTION_STARTED")
             /\ pc'[u] \in PolicyAhead => ~Logged(on'[u], "POLICY_EVALUATED")
  <2>1. CASE pc'[u] = pc[u] /\ on'[u] = on[u]
    BY <1>1, <2>1 DEF LedgerInv, PolicyAhead
  <2>2. CASE ~(pc'[u] = pc[u] /\ on'[u] = on[u])
    BY <1>2, <2>2, OutcomeFacts DEF LedgerInv, SilentStep
  <2> QED
    BY <2>1, <2>2
<1>6. ASSUME NEW u \in Threads, NEW v \in Threads,
             pc'[u] \in OutcomeSteps, pc'[v] \in OutcomeSteps, on'[u] = on'[v]
      PROVE  u = v
  BY <1>1, <1>6 DEF LedgerInv, SilentStep
<1>7. \A u \in Threads : Logged(on[u], EventOf(pc[u]))' = Logged(on'[u], EventOf(pc'[u]))
  BY <1>0 DEF Logged, EventOf
<1>8. \A u \in Threads :
        /\ Logged(on[u], "ACTION_STARTED")' = Logged(on'[u], "ACTION_STARTED")
        /\ Logged(on[u], "POLICY_EVALUATED")' = Logged(on'[u], "POLICY_EVALUATED")
  BY <1>0 DEF Logged
<1> QED
  BY <1>3, <1>4, <1>5, <1>6, <1>7, <1>8 DEF LedgerInv, PolicyAhead

\* What append_event does to the ledger of one execution.
LEMMA AppendFacts ==
  ASSUME TypeOK, NEW e \in Executions, NEW type \in EventTypes, Append_event(e, type)
  PROVE  /\ \A d \in Executions : d # e => events'[d] = events[d]
         /\ DOMAIN events'[e] = DOMAIN events[e] \cup {Len(events[e]) + 1}
         /\ Len(events[e]) + 1 \notin DOMAIN events[e]
         /\ events'[e][Len(events[e]) + 1] = type
         /\ \A i \in DOMAIN events[e] : events'[e][i] = events[e][i]
         /\ \A d \in Executions : \A x :
              Logged(d, x)' <=> Logged(d, x) \/ (d = e /\ x = type)
<1>1. events[e] \in Seq(EventTypes) /\ events \in [Executions -> Seq(EventTypes)]
  BY DEF TypeOK
<1>2. events'[e] = Append(events[e], type) /\ \A d \in Executions : d # e => events'[d] = events[d]
  BY <1>1 DEF Append_event
<1>3. /\ DOMAIN events'[e] = DOMAIN events[e] \cup {Len(events[e]) + 1}
      /\ Len(events[e]) + 1 \notin DOMAIN events[e]
      /\ events'[e][Len(events[e]) + 1] = type
      /\ \A i \in DOMAIN events[e] : events'[e][i] = events[e][i]
  BY <1>1, <1>2
<1>4. \A d \in Executions : \A x :
        Logged(d, x)' <=> Logged(d, x) \/ (d = e /\ x = type)
  <2> SUFFICES ASSUME NEW d \in Executions, NEW x
               PROVE  (\E i \in DOMAIN events'[d] : events'[d][i] = x)
                        <=> \/ \E i \in DOMAIN events[d] : events[d][i] = x
                            \/ d = e /\ x = type
    BY DEF Logged
  <2>1. CASE d # e
    BY <1>2, <2>1
  <2>2. CASE d = e
    BY <1>3, <2>2, Zenon
  <2> QED
    BY <2>1, <2>2
<1> QED
  BY <1>2, <1>3, <1>4

\* A thread appends one event and goes on: the event is true, nobody else is
\* about to write it, and it was not there yet.
LEMMA AppendLedger ==
  ASSUME IInv, LedgerInv, NEW t \in Threads, NEW type \in EventTypes,
         UNCHANGED status, Append_event(on[t], type), on[t] \in Executions,
         \A u \in Threads : u # t => pc'[u] = pc[u] /\ on'[u] = on[u],
         pc'[t] \notin OutcomeSteps \cup {"log_started"},
         pc'[t] \in PolicyAhead =>
           on'[t] = on[t] /\ pc[t] \in PolicyAhead /\ type # "POLICY_EVALUATED",
         type \in DOMAIN OutcomeOf => pc[t] \in OutcomeSteps /\ type = EventOf(pc[t]),
         type = "ACTION_STARTED" => pc[t] = "log_started",
         type = "POLICY_EVALUATED" => pc[t] = "log_policy"
  PROVE  LedgerInv'
<1> DEFINE e == on[t]
<1>a. /\ \A d \in Executions : d # e => events'[d] = events[d]
      /\ DOMAIN events'[e] = DOMAIN events[e] \cup {Len(events[e]) + 1}
      /\ Len(events[e]) + 1 \notin DOMAIN events[e]
      /\ events'[e][Len(events[e]) + 1] = type
      /\ \A i \in DOMAIN events[e] : events'[e][i] = events[e][i]
      /\ \A d \in Executions : \A x :
           Logged(d, x)' <=> Logged(d, x) \/ (d = e /\ x = type)
  BY AppendFacts DEF IInv
<1>b. /\ type \in DOMAIN OutcomeOf => status[e] = OutcomeOf[type]
      /\ type \in DOMAIN OutcomeOf \cup {"ACTION_STARTED"} => ~Logged(e, type)
  BY DEF LedgerInv
<1>c. /\ type = "ACTION_STARTED" => status[e] \in Started
      /\ type = "POLICY_EVALUATED" => status[e] # NoRecord
      /\ \A u \in Threads : u # t /\ on[u] = e =>
           /\ type \in DOMAIN OutcomeOf => pc[u] \notin OutcomeSteps
           /\ type = "ACTION_STARTED" => pc[u] # "log_started"
           /\ type = "POLICY_EVALUATED" => pc[u] \notin PolicyAhead
  <2>1. type = "ACTION_STARTED" => status[e] \in Started
    BY DEF IInv, RunningInv, Running, Started
  <2>2. type = "POLICY_EVALUATED" => status[e] # NoRecord
    BY DEF IInv, DrivingInv, Driving
  <2>3. ASSUME NEW u \in Threads, u # t, on[u] = e
        PROVE  /\ type \in DOMAIN OutcomeOf => pc[u] \notin OutcomeSteps
               /\ type = "ACTION_STARTED" => pc[u] # "log_started"
               /\ type = "POLICY_EVALUATED" => pc[u] \notin PolicyAhead
    BY <2>3 DEF LedgerInv, IInv, RunningInv, Running, DrivingInv, Driving, PolicyAhead
  <2> QED
    BY <2>1, <2>2, <2>3
<1>1. LedgerTellsOutcome'
  <2>1. ASSUME NEW d \in Executions, NEW i \in DOMAIN events'[d],
               events'[d][i] \in DOMAIN OutcomeOf
        PROVE  status'[d] = OutcomeOf[events'[d][i]]
    BY <1>a, <1>b, <2>1 DEF LedgerInv, LedgerTellsOutcome
  <2>2. ASSUME NEW d \in Executions, NEW i \in DOMAIN events'[d], NEW j \in DOMAIN events'[d],
               events'[d][i] = events'[d][j],
               events'[d][i] \in DOMAIN OutcomeOf \cup {"ACTION_STARTED"}
        PROVE  i = j
    <3>1. CASE d # e
      BY <1>a, <2>2, <3>1 DEF LedgerInv, LedgerTellsOutcome
    <3>2. CASE d = e /\ i \in DOMAIN events[e] /\ j \in DOMAIN events[e]
      BY <1>a, <2>2, <3>2 DEF LedgerInv, LedgerTellsOutcome
    <3>3. CASE d = e /\ ~(i \in DOMAIN events[e] /\ j \in DOMAIN events[e])
      BY <1>a, <1>b, <2>2, <3>3 DEF Logged
    <3> QED
      BY <3>1, <3>2, <3>3
  <2> QED
    BY <2>1, <2>2 DEF LedgerTellsOutcome
<1>2. ASSUME NEW d \in Executions
      PROVE  /\ Logged(d, "ACTION_STARTED")' => status'[d] \in Started
             /\ status'[d] = NoRecord => ~Logged(d, "POLICY_EVALUATED")'
  BY <1>a, <1>c DEF LedgerInv
<1>3. ASSUME NEW u \in Threads
      PROVE  /\ pc'[u] \in OutcomeSteps =>
                  /\ status'[on'[u]] = OutcomeOf[EventOf(pc'[u])]
                  /\ ~Logged(on[u], EventOf(pc[u]))'
             /\ pc'[u] = "log_started" => ~Logged(on[u], "ACTION_STARTED")'
             /\ pc'[u] \in PolicyAhead => ~Logged(on[u], "POLICY_EVALUATED")'
  <2>0. \A d \in Executions : \A x :
          (\E i \in DOMAIN events'[d] : events'[d][i] = x)
            <=> Logged(d, x) \/ (d = e /\ x = type)
    BY <1>a DEF Logged
  <2>1. pc'[u] \in OutcomeSteps \cup {"log_started"} \cup PolicyAhead
          => on'[u] = on[u] /\ on[u] \in Executions
    BY DEF IInv, ContextInv, OutcomeSteps, PolicyAhead
  <2>2. pc'[u] \in OutcomeSteps =>
          /\ status'[on'[u]] = OutcomeOf[EventOf(pc'[u])]
          /\ ~(Logged(on[u], EventOf(pc[u])) \/ (on[u] = e /\ EventOf(pc[u]) = type))
          /\ pc'[u] = pc[u]
    BY <1>c, OutcomeFacts DEF LedgerInv
  <2>3. pc'[u] = "log_started" =>
          ~(Logged(on[u], "ACTION_STARTED") \/ (on[u] = e /\ "ACTION_STARTED" = type))
    BY <1>c DEF LedgerInv
  <2>4. pc'[u] \in PolicyAhead =>
          ~(Logged(on[u], "POLICY_EVALUATED") \/ (on[u] = e /\ "POLICY_EVALUATED" = type))
    BY <1>c DEF LedgerInv, PolicyAhead
  <2>5. pc'[u] \in OutcomeSteps => ~Logged(on[u], EventOf(pc[u]))'
    <3>1. Logged(on[u], EventOf(pc[u]))'
            = \E i \in DOMAIN events'[on'[u]] : events'[on'[u]][i] = EventOf(pc'[u])
      BY DEF Logged, EventOf
    <3> QED
      BY <2>0, <2>1, <2>2, <3>1
  <2>6. /\ pc'[u] = "log_started" => ~Logged(on[u], "ACTION_STARTED")'
        /\ pc'[u] \in PolicyAhead => ~Logged(on[u], "POLICY_EVALUATED")'
    BY <2>0, <2>1, <2>3, <2>4 DEF Logged
  <2> QED
    BY <2>2, <2>5, <2>6
<1>4. ASSUME NEW u \in Threads, NEW v \in Threads,
             pc'[u] \in OutcomeSteps, pc'[v] \in OutcomeSteps, on'[u] = on'[v]
      PROVE  u = v
  BY <1>4 DEF LedgerInv
<1> QED
  BY <1>1, <1>2, <1>3, <1>4 DEF LedgerInv, PolicyAhead

-----------------------------------------------------------------------------
(* Every action keeps LedgerInv *)

\* What a goto does to the steps of the threads.
LEMMA GotoFacts ==
  ASSUME TypeOK, NEW t \in Threads, NEW step, Goto(t, step)
  PROVE  /\ pc'[t] = step
         /\ step # "idle" => on'[t] = on[t]
         /\ \A u \in Threads : u # t => pc'[u] = pc[u] /\ on'[u] = on[u]
BY DEF Goto, TypeOK

\* One event is appended, and the thread goes on to a step that logs nothing.
LEMMA RecordEventLedger ==
  ASSUME IInv, LedgerInv, NEW t \in Threads, RecordEvent(t)
  PROVE  LedgerInv'
<1>1. /\ on[t] \in Executions /\ pc[t] \in LogSteps
      /\ UNCHANGED status /\ Append_event(on[t], EventOf(pc[t]))
      /\ Goto(t, AfterLog(pc[t]))
  BY DEF RecordEvent, IInv, ContextInv, LogSteps, records
<1>2. EventOf(pc[t]) \in EventTypes
  BY <1>1 DEF EventOf, LogSteps, EventTypes
<1>3. AfterLog(pc[t]) \notin OutcomeSteps \cup {"log_started"}
  BY <1>1 DEF AfterLog, OutcomeSteps, LogSteps
<1>4. AfterLog(pc[t]) \in PolicyAhead => AfterLog(pc[t]) # "idle" /\ pc[t] = "log_requested"
  BY <1>1 DEF AfterLog, PolicyAhead, LogSteps
<1>5. /\ EventOf(pc[t]) \in DOMAIN OutcomeOf => pc[t] \in OutcomeSteps
      /\ EventOf(pc[t]) = "ACTION_STARTED" => pc[t] = "log_started"
      /\ EventOf(pc[t]) = "POLICY_EVALUATED" => pc[t] = "log_policy"
  BY <1>1, OutcomeFacts
<1>6. /\ pc'[t] = AfterLog(pc[t])
      /\ AfterLog(pc[t]) # "idle" => on'[t] = on[t]
      /\ \A u \in Threads : u # t => pc'[u] = pc[u] /\ on'[u] = on[u]
  BY <1>1, GotoFacts DEF IInv
<1> QED
  BY <1>1, <1>2, <1>3, <1>4, <1>5, <1>6, AppendLedger DEF PolicyAhead

\* The compare-and-set of one thread: it wins, and comes to the step that
\* logs what it did, or it loses and leaves the call.
LEMMA TransitionSilent ==
  ASSUME IInv, NEW t \in Threads, NEW from, NEW to \in Statuses, NEW next,
         on[t] \in Executions, Transition(t, from, to, next), UNCHANGED events,
         from \in Started => to \in Started,
         next \in OutcomeSteps => to = OutcomeOf[EventOf(next)],
         next = "log_started" => from \notin Started,
         next \in PolicyAhead => ~Logged(on[t], "POLICY_EVALUATED")
  PROVE  SilentStep(t)
<1>1. CASE /\ status[on[t]] = from /\ AssertTransition(from, to)
           /\ status' = [status EXCEPT ![on[t]] = to] /\ Goto(t, next)
  <2>1. from \notin TERMINAL_STATUSES /\ to # NoRecord
    BY <1>1 DEF AssertTransition, Statuses, TERMINAL_STATUSES, NoRecord
  <2>2. /\ pc'[t] = next
        /\ next # "idle" => on'[t] = on[t]
        /\ \A u \in Threads : u # t => pc'[u] = pc[u] /\ on'[u] = on[u]
    BY <1>1, GotoFacts DEF IInv
  <2>3. /\ status'[on[t]] = to
        /\ \A d \in Executions : d # on[t] => status'[d] = status[d]
    BY <1>1 DEF IInv, TypeOK
  <2>4. "idle" \notin OutcomeSteps \cup PolicyAhead \cup {"log_started"}
    BY DEF OutcomeSteps, PolicyAhead
  <2> QED
    BY <1>1, <2>1, <2>2, <2>3, <2>4 DEF SilentStep
<1>2. CASE UNCHANGED status /\ Goto(t, "idle")
  <2>1. /\ pc'[t] = "idle"
        /\ \A u \in Threads : u # t => pc'[u] = pc[u] /\ on'[u] = on[u]
    BY <1>2, GotoFacts DEF IInv
  <2> QED
    BY <1>2, <2>1 DEF SilentStep, OutcomeSteps, PolicyAhead
<1> QED
  BY <1>1, <1>2 DEF Transition

\* The delegation is authorised and logged, or the record is blocked.
LEMMA CheckDelegationLedger ==
  ASSUME IInv, LedgerInv, NEW t \in Threads, CheckDelegation(t)
  PROVE  LedgerInv'
<1>1. on[t] \in Executions /\ pc[t] = "delegation"
  BY DEF CheckDelegation, IInv, ContextInv
<1>2. CASE Append_event(on[t], "CONTEXT_RESOLVED") /\ Goto(t, "evaluated") /\ UNCHANGED status
  <2>1. "CONTEXT_RESOLVED" \in EventTypes /\ "CONTEXT_RESOLVED" \notin DOMAIN OutcomeOf
    BY OutcomeFacts DEF EventTypes
  <2>2. /\ pc'[t] = "evaluated" /\ on'[t] = on[t]
        /\ \A u \in Threads : u # t => pc'[u] = pc[u] /\ on'[u] = on[u]
    BY <1>2, GotoFacts DEF IInv
  <2>3. "evaluated" \notin OutcomeSteps \cup {"log_started"} /\ "delegation" \in PolicyAhead
    BY DEF OutcomeSteps, PolicyAhead
  <2> QED
    BY <1>1, <1>2, <2>1, <2>2, <2>3, AppendLedger
<1>3. CASE Transition(t, "REQUESTED", "BLOCKED", "log_blocked") /\ UNCHANGED events
  <2>1. OutcomeOf[EventOf("log_blocked")] = "BLOCKED"
    BY DEF OutcomeOf, EventOf
  <2> QED
    BY <1>1, <1>3, <2>1, TransitionSilent, SilentLedger
       DEF Statuses, TERMINAL_STATUSES, Started, PolicyAhead
<1> QED
  BY <1>2, <1>3 DEF CheckDelegation

\* The steps of a call that only compare and set the status.
LEMMA TransitionsLedger ==
  ASSUME IInv, LedgerInv, NEW t \in Threads,
         \/ BecomeEvaluated(t) \/ HandlePolicyError(t) \/ Enforce(t) \/ Prompt(t)
         \/ BeginExecute(t) \/ FinishFunction(t) \/ BecomeCancelled(t)
  PROVE  LedgerInv'
<1> USE DEF Statuses, TERMINAL_STATUSES, Started, OutcomeSteps, PolicyAhead
<1>0. on[t] \in Executions
  BY DEF IInv, ContextInv, BecomeEvaluated, HandlePolicyError, Enforce, Prompt,
         BeginExecute, FinishFunction, BecomeCancelled
<1>e. /\ OutcomeOf[EventOf("log_blocked")] = "BLOCKED"
      /\ OutcomeOf[EventOf("log_denied")] = "DENIED"
      /\ OutcomeOf[EventOf("log_expired")] = "EXPIRED"
      /\ OutcomeOf[EventOf("log_cancelled")] = "CANCELLED"
      /\ OutcomeOf[EventOf("log_succeeded")] = "SUCCEEDED"
      /\ OutcomeOf[EventOf("log_failed")] = "FAILED"
  BY DEF OutcomeOf, EventOf
<1>1. CASE BecomeEvaluated(t)
  <2>1. ~Logged(on[t], "POLICY_EVALUATED")
    BY <1>1 DEF BecomeEvaluated, LedgerInv
  <2> QED
    BY <1>0, <1>1, <2>1, TransitionSilent, SilentLedger DEF BecomeEvaluated
<1>2. CASE HandlePolicyError(t)
  BY <1>0, <1>2, TransitionSilent, SilentLedger DEF HandlePolicyError
<1>3. CASE Enforce(t)
  BY <1>0, <1>e, <1>3, TransitionSilent, SilentLedger DEF Enforce
<1>4. CASE Prompt(t)
  BY <1>0, <1>e, <1>4, TransitionSilent, SilentLedger DEF Prompt
<1>5. CASE BeginExecute(t)
  BY <1>0, <1>5, TransitionSilent, SilentLedger DEF BeginExecute
<1>6. CASE FinishFunction(t)
  BY <1>0, <1>e, <1>6, TransitionSilent, SilentLedger DEF FinishFunction
<1>7. CASE BecomeCancelled(t)
  BY <1>0, <1>e, <1>7, TransitionSilent, SilentLedger DEF BecomeCancelled
<1> QED
  BY <1>1, <1>2, <1>3, <1>4, <1>5, <1>6, <1>7

\* The first steps of run_controlled: key, record, and policy decision.
LEMMA RequestLedger ==
  ASSUME IInv, LedgerInv, NEW t \in Threads,
         RegisterIdempotency(t) \/ Duplicate(t) \/ InsertRecord(t) \/ EvaluatePolicy(t)
  PROVE  LedgerInv'
<1> USE GotoFacts, SilentLedger DEF OutcomeSteps, PolicyAhead
<1>0. TypeOK
  BY DEF IInv
<1>1. CASE RegisterIdempotency(t)
  <2>1. UNCHANGED <<status, events>> /\ (Goto(t, "insert") \/ Goto(t, "duplicate"))
    BY <1>1 DEF RegisterIdempotency, records
  <2>2. SilentStep(t)
    BY <1>0, <2>1 DEF SilentStep
  <2> QED
    BY <2>2
<1>2. CASE Duplicate(t)
  <2>1. UNCHANGED <<status, events>> /\ Goto(t, "idle")
    BY <1>2 DEF Duplicate, tables, records
  <2>2. SilentStep(t)
    BY <1>0, <2>1 DEF SilentStep
  <2> QED
    BY <2>2
<1>3. CASE InsertRecord(t)
  <2>1. on[t] \in Executions /\ UNCHANGED events
    BY <1>3 DEF InsertRecord, IInv, ContextInv
  <2>2. CASE UNCHANGED status /\ Goto(t, "idle")
    <3>1. SilentStep(t)
      BY <1>0, <2>1, <2>2 DEF SilentStep
    <3> QED
      BY <3>1
  <2>3. CASE /\ status[on[t]] = NoRecord /\ Goto(t, "log_requested")
             /\ status' = [status EXCEPT ![on[t]] = "REQUESTED"]
    <3>1. ~Logged(on[t], "POLICY_EVALUATED")
      BY <2>1, <2>3 DEF LedgerInv
    <3>2. \A d \in Executions : status'[d] # status[d] =>
            /\ status[d] \notin TERMINAL_STATUSES \cup Started
            /\ status'[d] # NoRecord
      BY <1>0, <2>1, <2>3 DEF TypeOK, TERMINAL_STATUSES, Started, NoRecord
    <3>3. /\ pc'[t] = "log_requested" /\ on'[t] = on[t]
          /\ \A u \in Threads : u # t => pc'[u] = pc[u] /\ on'[u] = on[u]
      BY <1>0, <2>3
    <3>4. SilentStep(t)
      BY <2>1, <3>1, <3>2, <3>3 DEF SilentStep
    <3> QED
      BY <3>4
  <2> QED
    BY <1>3, <2>2, <2>3 DEF InsertRecord
<1>4. CASE EvaluatePolicy(t)
  <2>1. UNCHANGED <<status, events>> /\ Goto(t, "log_policy")
    BY <1>4 DEF EvaluatePolicy
  <2>2. ~Logged(on[t], "POLICY_EVALUATED")
    BY <1>4 DEF EvaluatePolicy, LedgerInv
  <2>3. SilentStep(t)
    BY <1>0, <2>1, <2>2 DEF SilentStep
  <2> QED
    BY <2>3
<1> QED
  BY <1>1, <1>2, <1>3, <1>4

\* The approval row, the call itself, and the resume of an approved execution.
LEMMA ApprovalAndCallLedger ==
  ASSUME IInv, LedgerInv, NEW t \in Threads,
         \/ CreateApprovalRequest(t) \/ CallFunction(t)
         \/ LoadApproval(t) \/ ConsumeApproval(t)
  PROVE  LedgerInv'
<1> USE GotoFacts, SilentLedger DEF OutcomeSteps, PolicyAhead
<1>0. TypeOK
  BY DEF IInv
<1>1. CASE CreateApprovalRequest(t) \/ CallFunction(t) \/ LoadApproval(t)
  <2>1. /\ UNCHANGED <<status, events>>
        /\ \E s \in {"log_pending", "succeed", "fail", "consume", "idle"} : Goto(t, s)
    BY <1>1 DEF CreateApprovalRequest, CallFunction, LoadApproval, tables, records
  <2>2. SilentStep(t)
    BY <1>0, <2>1 DEF SilentStep
  <2> QED
    BY <2>2
<1>2. CASE ConsumeApproval(t)
  <2>1. on[t] \in Executions /\ UNCHANGED events
    BY <1>2 DEF ConsumeApproval, IInv, ContextInv
  <2>2. CASE UNCHANGED status /\ Goto(t, "idle")
    <3>1. SilentStep(t)
      BY <1>0, <2>1, <2>2 DEF SilentStep
    <3> QED
      BY <3>1
  <2>3. CASE /\ status[on[t]] = "APPROVED" /\ Goto(t, "log_started")
             /\ status' = [status EXCEPT ![on[t]] = "EXECUTING"]
    <3>1. \A d \in Executions : status'[d] # status[d] =>
            /\ status[d] \notin TERMINAL_STATUSES \cup Started
            /\ status'[d] # NoRecord
      BY <1>0, <2>1, <2>3 DEF TypeOK, TERMINAL_STATUSES, Started, NoRecord
    <3>2. /\ pc'[t] = "log_started" /\ on'[t] = on[t]
          /\ \A u \in Threads : u # t => pc'[u] = pc[u] /\ on'[u] = on[u]
      BY <1>0, <2>3
    <3>3. status[on[t]] \notin Started
      BY <2>3 DEF Started
    <3>4. SilentStep(t)
      BY <2>1, <3>1, <3>2, <3>3 DEF SilentStep
    <3> QED
      BY <3>4
  <2> QED
    BY <1>2, <2>2, <2>3 DEF ConsumeApproval
<1> QED
  BY <1>1, <1>2

\* A call begins, or its thread dies.
LEMMA BeginAndCrashLedger ==
  ASSUME IInv, LedgerInv, NEW t \in Threads, Begin(t) \/ Crash(t)
  PROVE  LedgerInv'
<1>1. /\ UNCHANGED <<status, events>>
      /\ \A u \in Threads : u # t => pc'[u] = pc[u] /\ on'[u] = on[u]
      /\ pc'[t] \in {"register", "insert", "load_approval", "cancel_waiting",
                     "cancel_approved", "idle"}
  <2>1. CASE Crash(t)
    BY <2>1, GotoFacts DEF Crash, IInv, tables, records
  <2>2. CASE Begin(t)
    <3>1. PICK e \in Executions, p \in Params \cup {None},
               s \in {"register", "insert", "load_approval", "cancel_waiting",
                      "cancel_approved"} : Enter(t, e, p, s)
      BY <2>2 DEF Begin, RunControlled, ResumeAfterApproval, CancelExecution
    <3> QED
      BY <3>1 DEF Enter, IInv, TypeOK, tables, records
  <2> QED
    BY <2>1, <2>2
<1>2. SilentStep(t)
  BY <1>1 DEF SilentStep, OutcomeSteps, PolicyAhead
<1> QED
  BY <1>2, SilentLedger

\* The operator's transactions move a waiting execution and write no event.
LEMMA OperatorLedger ==
  ASSUME IInv, LedgerInv, NEW e \in Executions, Operator(e)
  PROVE  LedgerInv'
<1>1. /\ UNCHANGED <<events, pc, on>>
      /\ \/ UNCHANGED status
         \/ /\ status[e] = "WAITING_APPROVAL"
            /\ \E to \in {"EXPIRED", "APPROVED", "DENIED"} :
                 status' = [status EXCEPT ![e] = to]
  BY DEF Operator, GrantApproval, DenyApproval, Deadline, tables, records, threads
<1>2. \A d \in Executions : status'[d] # status[d] =>
        /\ status[d] \notin TERMINAL_STATUSES \cup Started
        /\ status'[d] # NoRecord
  BY <1>1 DEF IInv, TypeOK, TERMINAL_STATUSES, Started, NoRecord
<1>3. SilentStep(e)
  BY <1>1, <1>2 DEF SilentStep
<1> QED
  BY <1>3, SilentLedger

\* Every step keeps what is known of the ledger.
LEMMA NextLedger ==
  ASSUME IInv, LedgerInv, [Next]_vars
  PROVE  LedgerInv'
<1>1. ASSUME NEW t \in Threads, Step(t)
      PROVE  LedgerInv'
  BY <1>1, RecordEventLedger, CheckDelegationLedger, TransitionsLedger, RequestLedger,
     ApprovalAndCallLedger DEF Step
<1>2. CASE UNCHANGED vars
  <2>1. SilentStep(None)
    BY <1>2 DEF SilentStep, vars, tables, records, threads
  <2> QED
    BY <2>1, SilentLedger
<1> QED
  BY <1>1, <1>2, BeginAndCrashLedger, OperatorLedger DEF Next

\* Rows, threads and ledger agree in every reachable state, for any threads,
\* executions, keys and parameters, with and without crashes.
THEOREM EngineInvariance == Spec => []EngineInv
<1>1. Init => EngineInv
  BY InitIInv, InitLedger DEF EngineInv
<1>2. EngineInv /\ [Next]_vars => EngineInv'
  BY NextIInv, NextLedger DEF EngineInv
<1> QED
  BY <1>1, <1>2, PTL DEF Spec

\* The outcome events of the ledger agree with the record for good, and an
\* outcome and a start are logged once at most.
THEOREM LedgerIsTrue == Spec => []LedgerTellsOutcome
<1>1. EngineInv => LedgerTellsOutcome
  BY DEF EngineInv, LedgerInv
<1> QED
  BY <1>1, EngineInvariance, PTL

-----------------------------------------------------------------------------
(* The engine implements the contract *)

\* What the contract sees of the engine, besides the status.
OnRecord == {e \in Executions : Authorised(e)}
Counted  == [e \in Executions |-> Len(calls[e])]

ContractStep == [Contract!Next]_(Contract!vars)

\* A step after which the contract sees nothing new.
LEMMA ContractStutter ==
  ASSUME UNCHANGED <<status, OnRecord, Counted>>
  PROVE  ContractStep
BY DEF ContractStep, Contract!vars, OnRecord, Counted

\* Authorisation and call count are functions of the rows.
LEMMA UnchangedRows ==
  /\ UNCHANGED <<decision, approvedBy, events>> => UNCHANGED OnRecord
  /\ UNCHANGED calls => UNCHANGED Counted
BY DEF OnRecord, Counted, Authorised, Logged

\* The initial states are initial states of the contract.
LEMMA InitContract == Init => Contract!Init
<1> SUFFICES ASSUME Init PROVE Contract!Init
  OBVIOUS
<1>1. \A e \in Executions : ~Authorised(e)
  BY DEF Init, Authorised, Logged
<1>2. \A e \in Executions : Len(calls[e]) = 0
  BY DEF Init
<1> QED
  BY <1>1, <1>2 DEF Init, Contract!Init, NoRecord, Contract!NoRecord

\* A transition that lets nothing run is a move of the contract.
LEMMA TransitionMoves ==
  ASSUME TypeOK, NEW t \in Threads, on[t] \in Executions,
         NEW from, NEW to \in Statuses \ {"APPROVED", "EXECUTING", "SUCCEEDED"}, NEW next,
         Transition(t, from, to, next), UNCHANGED <<OnRecord, Counted>>
  PROVE  ContractStep
<1>1. CASE AssertTransition(status[on[t]], to) /\ status' = [status EXCEPT ![on[t]] = to]
  <2>1. Contract!Move(on[t], to)
    BY <1>1 DEF Contract!Move, Contract!AssertTransition, AssertTransition,
       Contract!TERMINAL_STATUSES, TERMINAL_STATUSES, Contract!ALLOWED_TRANSITIONS,
       ALLOWED_TRANSITIONS, OnRecord, Counted
  <2> QED
    BY <2>1 DEF ContractStep, Contract!Next, Contract!Statuses, Statuses,
       Contract!TERMINAL_STATUSES, TERMINAL_STATUSES
<1>2. CASE UNCHANGED status
  BY <1>2, ContractStutter
<1> QED
  BY <1>1, <1>2 DEF Transition

\* A transition to EXECUTING of an authorised execution starts it.
LEMMA TransitionStarts ==
  ASSUME TypeOK, NEW t \in Threads, on[t] \in Executions, NEW from, NEW next,
         Transition(t, from, "EXECUTING", next), UNCHANGED <<OnRecord, Counted>>,
         Authorised(on[t]) \/ status[on[t]] # from
  PROVE  ContractStep
<1>1. CASE /\ AssertTransition(status[on[t]], "EXECUTING") /\ Authorised(on[t])
           /\ status' = [status EXCEPT ![on[t]] = "EXECUTING"]
  <2>1. Contract!Start(on[t])
    BY <1>1 DEF Contract!Start, Contract!AssertTransition, AssertTransition,
       Contract!TERMINAL_STATUSES, TERMINAL_STATUSES, Contract!ALLOWED_TRANSITIONS,
       ALLOWED_TRANSITIONS, OnRecord, Counted
  <2> QED
    BY <2>1 DEF ContractStep, Contract!Next
<1>2. CASE UNCHANGED status
  BY <1>2, ContractStutter
<1> QED
  BY <1>1, <1>2 DEF Transition

\* POLICY_EVALUATED puts an ALLOW on record; no other event says anything of
\* authorisation.
LEMMA RecordEventRefines ==
  ASSUME IInv, LedgerInv, NEW t \in Threads, RecordEvent(t)
  PROVE  ContractStep
<1>1. /\ on[t] \in Executions /\ pc[t] \in LogSteps
      /\ UNCHANGED <<status, decision, approvedBy, calls>>
      /\ Append_event(on[t], EventOf(pc[t]))
  BY DEF RecordEvent, IInv, ContextInv, LogSteps, records, history
<1>2. EventOf(pc[t]) \in EventTypes
  BY <1>1 DEF EventOf, LogSteps, EventTypes
<1>3. \A d \in Executions : \A x :
        Logged(d, x)' <=> Logged(d, x) \/ (d = on[t] /\ x = EventOf(pc[t]))
  BY <1>1, <1>2, AppendFacts DEF IInv
<1>4. \A d \in Executions :
        Authorised(d)' <=> \/ Authorised(d)
                           \/ /\ d = on[t] /\ pc[t] = "log_policy"
                              /\ decision[d] = "ALLOW"
  <2>1. EventOf(pc[t]) = "POLICY_EVALUATED" <=> pc[t] = "log_policy"
    BY <1>1, OutcomeFacts
  <2>2. \A d \in Executions :
          Authorised(d)' <=> (decision[d] = "ALLOW" /\ Logged(d, "POLICY_EVALUATED")') \/ approvedBy[d]
    BY <1>1 DEF Authorised, Logged
  <2>3. \A d \in Executions :
          Authorised(d) <=> (decision[d] = "ALLOW" /\ Logged(d, "POLICY_EVALUATED")) \/ approvedBy[d]
    BY DEF Authorised
  <2> QED
    BY <1>3, <2>1, <2>2, <2>3
<1>5. UNCHANGED Counted
  BY <1>1, UnchangedRows
<1>6. CASE pc[t] = "log_policy" /\ decision[on[t]] = "ALLOW"
  <2>1. status[on[t]] = "EVALUATED"
    BY <1>6 DEF IInv, DrivingInv
  <2>2. OnRecord' = OnRecord \cup {on[t]}
    BY <1>1, <1>4, <1>6 DEF OnRecord
  <2>3. Contract!Allow(on[t])
    BY <1>1, <1>5, <2>1, <2>2 DEF Contract!Allow, OnRecord, Counted
  <2> QED
    BY <1>1, <2>3 DEF ContractStep, Contract!Next
<1>7. CASE ~(pc[t] = "log_policy" /\ decision[on[t]] = "ALLOW")
  <2>1. OnRecord' = OnRecord
    BY <1>4, <1>7 DEF OnRecord
  <2> QED
    BY <1>1, <1>5, <2>1, ContractStutter
<1> QED
  BY <1>6, <1>7

\* The row of the execution is inserted, which is the request.
LEMMA InsertRecordRefines ==
  ASSUME IInv, NEW t \in Threads, InsertRecord(t)
  PROVE  ContractStep
<1>1. on[t] \in Executions /\ UNCHANGED <<OnRecord, Counted>>
  BY UnchangedRows DEF InsertRecord, IInv, ContextInv, history
<1>2. CASE UNCHANGED status
  BY <1>1, <1>2, ContractStutter
<1>3. CASE status[on[t]] = NoRecord /\ status' = [status EXCEPT ![on[t]] = "REQUESTED"]
  <2>1. Contract!Request(on[t])
    BY <1>1, <1>3 DEF Contract!Request, OnRecord, Counted, NoRecord, Contract!NoRecord
  <2> QED
    BY <1>1, <2>1 DEF ContractStep, Contract!Next
<1> QED
  BY <1>2, <1>3 DEF InsertRecord

\* The delegation check: the resolved context says nothing of authorisation.
LEMMA CheckDelegationRefines ==
  ASSUME IInv, NEW t \in Threads, CheckDelegation(t)
  PROVE  ContractStep
<1>1. on[t] \in Executions /\ UNCHANGED <<decision, approvedBy>> /\ UNCHANGED Counted
  BY UnchangedRows DEF CheckDelegation, IInv, ContextInv, history
<1>2. CASE Append_event(on[t], "CONTEXT_RESOLVED") /\ UNCHANGED status
  <2>1. "CONTEXT_RESOLVED" \in EventTypes
    BY DEF EventTypes
  <2>2. \A d \in Executions :
          Logged(d, "POLICY_EVALUATED")' <=> Logged(d, "POLICY_EVALUATED")
    BY <1>1, <1>2, <2>1, AppendFacts DEF IInv
  <2>3. \A d \in Executions :
          Authorised(d)' <=> (decision[d] = "ALLOW" /\ Logged(d, "POLICY_EVALUATED")') \/ approvedBy[d]
    BY <1>1 DEF Authorised, Logged
  <2>4. UNCHANGED OnRecord
    BY <2>2, <2>3 DEF OnRecord, Authorised
  <2> QED
    BY <1>1, <1>2, <2>4, ContractStutter
<1>3. CASE Transition(t, "REQUESTED", "BLOCKED", "log_blocked") /\ UNCHANGED events
  BY <1>1, <1>3, UnchangedRows, TransitionMoves DEF IInv, Statuses, TERMINAL_STATUSES
<1> QED
  BY <1>2, <1>3 DEF CheckDelegation

\* A decision that is not yet logged authorises nothing.
LEMMA EvaluatePolicyRefines ==
  ASSUME IInv, LedgerInv, NEW t \in Threads, EvaluatePolicy(t)
  PROVE  ContractStep
<1>1. /\ on[t] \in Executions /\ pc[t] = "policy"
      /\ UNCHANGED <<status, approvedBy, events>> /\ UNCHANGED Counted
      /\ \A d \in Executions : d # on[t] => decision'[d] = decision[d]
  BY UnchangedRows DEF EvaluatePolicy, IInv, TypeOK, ContextInv, history
<1>2. ~Logged(on[t], "POLICY_EVALUATED")
  BY <1>1 DEF LedgerInv
<1>3. UNCHANGED OnRecord
  BY <1>1, <1>2 DEF OnRecord, Authorised, Logged
<1> QED
  BY <1>1, <1>3, ContractStutter

\* The transitions of a call: each moves, starts, approves or succeeds.
LEMMA TransitionsRefine ==
  ASSUME IInv, NEW t \in Threads, OnError = "fail_closed",
         \/ BecomeEvaluated(t) \/ HandlePolicyError(t) \/ Enforce(t)
         \/ BeginExecute(t) \/ BecomeCancelled(t)
  PROVE  ContractStep
<1> USE DEF Statuses, TERMINAL_STATUSES
<1>0. TypeOK /\ on[t] \in Executions /\ UNCHANGED <<OnRecord, Counted>>
  BY UnchangedRows DEF IInv, ContextInv, history, BecomeEvaluated, HandlePolicyError, Enforce,
     BeginExecute, BecomeCancelled
<1>1. CASE BecomeEvaluated(t)
  BY <1>0, <1>1, TransitionMoves DEF BecomeEvaluated
<1>2. CASE HandlePolicyError(t)
  BY <1>0, <1>2, TransitionMoves DEF HandlePolicyError
<1>3. CASE Enforce(t)
  <2>1. decision[on[t]] = "ALLOW" => Authorised(on[t])
    BY <1>3 DEF Enforce, IInv, DrivingInv, Authorised
  <2> QED
    BY <1>0, <1>3, <2>1, TransitionMoves, TransitionStarts DEF Enforce
<1>4. CASE BeginExecute(t)
  <2>1. status[on[t]] = "APPROVED" => Authorised(on[t])
    BY <1>0 DEF IInv, AuthorisedInv, Authorised
  <2> QED
    BY <1>0, <1>4, <2>1, TransitionStarts DEF BeginExecute
<1>5. CASE BecomeCancelled(t)
  BY <1>0, <1>5, TransitionMoves DEF BecomeCancelled
<1> QED
  BY <1>0, <1>1, <1>2, <1>3, <1>4, <1>5

\* An approval, by prompt or by an operator, authorises with the transition.
LEMMA ApprovalRefines ==
  ASSUME TypeOK, NEW e \in Executions, status[e] = "WAITING_APPROVAL",
         status' = [status EXCEPT ![e] = "APPROVED"],
         approvedBy' = [approvedBy EXCEPT ![e] = TRUE],
         UNCHANGED <<decision, events, calls>>
  PROVE  ContractStep
<1>1. UNCHANGED Counted
  BY UnchangedRows
<1>2. OnRecord' = OnRecord \cup {e}
  BY DEF OnRecord, Authorised, Logged, TypeOK
<1>3. Contract!Approve(e)
  BY <1>1, <1>2 DEF Contract!Approve, OnRecord, Counted
<1> QED
  BY <1>3 DEF ContractStep, Contract!Next

\* The inline provider approves, denies or times out.
LEMMA PromptRefines ==
  ASSUME IInv, NEW t \in Threads, Prompt(t)
  PROVE  ContractStep
<1>0. /\ TypeOK /\ on[t] \in Executions
      /\ UNCHANGED <<decision, events, calls>> /\ UNCHANGED Counted
  BY UnchangedRows DEF IInv, ContextInv, Prompt, history
<1>1. CASE /\ Transition(t, "WAITING_APPROVAL", "APPROVED", "log_granted")
           /\ approvedBy' = [approvedBy EXCEPT
                               ![on[t]] = @ \/ status[on[t]] = "WAITING_APPROVAL"]
  <2>1. CASE status[on[t]] = "WAITING_APPROVAL"
    <3>1. approvedBy' = [approvedBy EXCEPT ![on[t]] = TRUE]
      BY <1>1, <2>1, Zenon
    <3>2. AssertTransition("WAITING_APPROVAL", "APPROVED")
      BY DEF AssertTransition, TERMINAL_STATUSES, ALLOWED_TRANSITIONS
    <3> QED
      BY <1>0, <1>1, <2>1, <3>1, <3>2, ApprovalRefines DEF Transition
  <2>2. CASE status[on[t]] # "WAITING_APPROVAL"
    <3>1. UNCHANGED <<status, approvedBy>>
      BY <1>0, <1>1, <2>2 DEF Transition, TypeOK
    <3> QED
      BY <1>0, <3>1, UnchangedRows, ContractStutter
  <2> QED
    BY <2>1, <2>2
<1>2. CASE /\ \/ Transition(t, "WAITING_APPROVAL", "DENIED", "log_denied")
              \/ Transition(t, "WAITING_APPROVAL", "EXPIRED", "log_expired")
           /\ UNCHANGED approvedBy
  BY <1>0, <1>2, UnchangedRows, TransitionMoves DEF Statuses, TERMINAL_STATUSES
<1> QED
  BY <1>1, <1>2 DEF Prompt

\* The function is called: the first and only time.
LEMMA CallFunctionRefines ==
  ASSUME IInv, NEW t \in Threads, CallFunction(t)
  PROVE  ContractStep
<1>1. /\ on[t] \in Executions /\ UNCHANGED <<status, OnRecord>>
      /\ status[on[t]] = "EXECUTING" /\ calls[on[t]] = <<>>
      /\ calls' = [calls EXCEPT ![on[t]] = Append(@, given[t])]
  BY UnchangedRows
     DEF CallFunction, IInv, ContextInv, RunningInv, Running, tables, records
<1>2. /\ calls'[on[t]] = <<given[t]>>
      /\ \A d \in Executions : d # on[t] => calls'[d] = calls[d]
  BY <1>1 DEF IInv, TypeOK
<1>3. Counted[on[t]] = 0 /\ Counted' = [Counted EXCEPT ![on[t]] = 1]
  <2>1. Len(<<>>) = 0 /\ Len(<<given[t]>>) = 1
    OBVIOUS
  <2>2. Len(calls[on[t]]) = 0 /\ Len(calls'[on[t]]) = 1
    BY <1>1, <1>2, <2>1, Zenon
  <2>3. \A d \in Executions : d # on[t] => Len(calls'[d]) = Len(calls[d])
    BY <1>2, Zenon
  <2>4. Counted' = [d \in Executions |-> Len(calls'[d])]
    BY DEF Counted
  <2>5. [d \in Executions |-> Len(calls'[d])] = [Counted EXCEPT ![on[t]] = 1]
    BY <2>2, <2>3 DEF Counted
  <2> QED
    BY <1>1, <2>2, <2>4, <2>5 DEF Counted
<1>4. PICK e \in Executions : e = on[t]
  BY <1>1
<1>5. Contract!Call(e)
  BY <1>1, <1>3, <1>4 DEF Contract!Call, OnRecord, Counted
<1> QED
  BY <1>5 DEF ContractStep, Contract!Next

\* The function has returned or raised, and its outcome is recorded.
LEMMA FinishFunctionRefines ==
  ASSUME IInv, NEW t \in Threads, FinishFunction(t)
  PROVE  ContractStep
<1>0. TypeOK /\ on[t] \in Executions /\ UNCHANGED <<OnRecord, Counted>>
  BY UnchangedRows DEF IInv, ContextInv, FinishFunction, history
<1>1. CASE pc[t] = "fail" /\ Transition(t, "EXECUTING", "FAILED", "log_failed")
  BY <1>0, <1>1, TransitionMoves DEF Statuses, TERMINAL_STATUSES
<1>2. CASE pc[t] = "succeed" /\ Transition(t, "EXECUTING", "SUCCEEDED", "log_succeeded")
  <2>1. calls[on[t]] # <<>> /\ status[on[t]] = "EXECUTING"
    BY <1>2 DEF IInv, RunningInv, Running
  <2>2. calls[on[t]] = <<hash[on[t]]>>
    BY <1>0, <2>1 DEF IInv, CallsInv
  <2>3. Len(calls[on[t]]) = 1
    BY <2>2
  <2>4. CASE status' = [status EXCEPT ![on[t]] = "SUCCEEDED"]
    <3>1. Contract!Succeed(on[t])
      BY <1>0, <2>1, <2>3, <2>4 DEF Contract!Succeed, OnRecord, Counted
    <3> QED
      BY <1>0, <3>1 DEF ContractStep, Contract!Next
  <2>5. CASE UNCHANGED status
    BY <1>0, <2>5, ContractStutter
  <2> QED
    BY <1>2, <2>4, <2>5 DEF Transition
<1> QED
  BY <1>1, <1>2 DEF FinishFunction

\* A granted approval is consumed, which starts the execution.
LEMMA ConsumeApprovalRefines ==
  ASSUME IInv, NEW t \in Threads, ConsumeApproval(t)
  PROVE  ContractStep
<1>1. on[t] \in Executions /\ UNCHANGED <<OnRecord, Counted>>
  BY UnchangedRows DEF ConsumeApproval, IInv, ContextInv, history
<1>2. CASE UNCHANGED status
  BY <1>1, <1>2, ContractStutter
<1>3. CASE status[on[t]] = "APPROVED" /\ status' = [status EXCEPT ![on[t]] = "EXECUTING"]
  <2>1. Authorised(on[t])
    BY <1>1, <1>3 DEF IInv, AuthorisedInv, Authorised
  <2>2. Contract!Start(on[t])
    BY <1>1, <1>3, <2>1 DEF Contract!Start, Contract!AssertTransition,
       Contract!TERMINAL_STATUSES, Contract!ALLOWED_TRANSITIONS, OnRecord, Counted
  <2> QED
    BY <1>1, <2>2 DEF ContractStep, Contract!Next
<1> QED
  BY <1>2, <1>3 DEF ConsumeApproval

\* The steps that change no row the contract looks at.
LEMMA OtherStepsRefine ==
  ASSUME NEW t \in Threads,
         \/ RegisterIdempotency(t) \/ Duplicate(t) \/ CreateApprovalRequest(t)
         \/ LoadApproval(t) \/ Begin(t) \/ Crash(t)
  PROVE  ContractStep
<1>1. UNCHANGED <<status, decision, approvedBy, events, calls>>
  BY DEF RegisterIdempotency, Duplicate, CreateApprovalRequest, LoadApproval, Begin,
     RunControlled, ResumeAfterApproval, CancelExecution, Enter, Crash,
     tables, records, history
<1> QED
  BY <1>1, UnchangedRows, ContractStutter

\* The operator's transactions: an approval, a denial, an expiry.
LEMMA OperatorRefines ==
  ASSUME IInv, NEW e \in Executions, Operator(e)
  PROVE  ContractStep
<1>0. TypeOK
  BY DEF IInv
<1>1. UNCHANGED <<decision, events, calls>> /\ UNCHANGED Counted
  BY UnchangedRows
     DEF Operator, GrantApproval, DenyApproval, Deadline, tables, records, history
<1>2. CASE UNCHANGED <<status, approvedBy>>
  BY <1>1, <1>2, UnchangedRows, ContractStutter
<1>3. CASE /\ status[e] = "WAITING_APPROVAL" /\ status' = [status EXCEPT ![e] = "APPROVED"]
           /\ approvedBy' = [approvedBy EXCEPT ![e] = TRUE]
  BY <1>0, <1>1, <1>3, ApprovalRefines
<1>4. ASSUME NEW to \in {"EXPIRED", "DENIED"}, status[e] = "WAITING_APPROVAL",
             status' = [status EXCEPT ![e] = to], UNCHANGED approvedBy
      PROVE  ContractStep
  <2>1. UNCHANGED OnRecord
    BY <1>1, <1>4, UnchangedRows
  <2>2. Contract!Move(e, to)
    BY <1>1, <1>4, <2>1 DEF Contract!Move, Contract!AssertTransition,
       Contract!TERMINAL_STATUSES, Contract!ALLOWED_TRANSITIONS, OnRecord, Counted
  <2>3. to \in Contract!Statuses
    BY DEF Contract!Statuses, Contract!TERMINAL_STATUSES
  <2> QED
    BY <2>2, <2>3 DEF ContractStep, Contract!Next
<1> QED
  BY <1>2, <1>3, <1>4
     DEF Operator, GrantApproval, DenyApproval, Deadline, tables, records

\* Every step of the engine, of an operator and of the clock is a step of the
\* contract or changes nothing of it.
LEMMA NextRefines ==
  ASSUME IInv, LedgerInv, OnError = "fail_closed", [Next]_vars
  PROVE  ContractStep
<1>1. ASSUME NEW t \in Threads, Step(t)
      PROVE  ContractStep
  BY <1>1, RecordEventRefines, InsertRecordRefines, CheckDelegationRefines,
     EvaluatePolicyRefines, TransitionsRefine, PromptRefines, CallFunctionRefines,
     FinishFunctionRefines, ConsumeApprovalRefines, OtherStepsRefine DEF Step
<1>2. CASE UNCHANGED vars
  <2>1. UNCHANGED <<status, decision, approvedBy, events, calls>>
    BY <1>2 DEF vars, tables, records, history
  <2> QED
    BY <2>1, UnchangedRows, ContractStutter
<1> QED
  BY <1>1, <1>2, OtherStepsRefine, OperatorRefines DEF Next

\* Unless it was told to fail open, the engine implements the contract: the
\* status moves along the lifecycle, and a function is called once at most,
\* after an ALLOW or an approval is on record, while the execution executes.
THEOREM EngineImplementsContract ==
  ASSUME OnError = "fail_closed"
  PROVE  Spec => ImplementsContract
<1>1. Init => Contract!Init
  BY InitContract
<1>2. EngineInv /\ [Next]_vars => [Contract!Next]_(Contract!vars)
  BY NextRefines DEF EngineInv, ContractStep
<1> QED
  BY <1>1, <1>2, EngineInvariance, PTL DEF Spec, ImplementsContract, Contract!Spec

\* What the contract sees has the types its promises need.
LEMMA ContractTypes ==
  ASSUME TypeOK
  PROVE  status \in [Executions -> Contract!Statuses \cup {Contract!NoRecord}]
BY DEF TypeOK, Statuses, TERMINAL_STATUSES, NoRecord, Contract!Statuses,
   Contract!TERMINAL_STATUSES, Contract!NoRecord

\* The promises are an inductive invariant of the contract.
LEMMA ContractPromises ==
  ASSUME TypeOK, Contract!Promises, ContractStep
  PROVE  Contract!Promises'
<1> DEFINE Kept(e) ==
      /\ Counted[e] \in {0, 1}
      /\ Counted[e] = 1 => status[e] \in {"EXECUTING", "SUCCEEDED", "FAILED", "CANCELLED"}
      /\ Counted[e] = 1 \/ status[e] \in {"APPROVED", "EXECUTING"} => e \in OnRecord
      /\ status[e] = "SUCCEEDED" => Counted[e] = 1
<1>1. Contract!Promises = \A e \in Executions : Kept(e)
  BY DEF Contract!Promises, Counted, OnRecord
<1>2. Contract!Promises' = \A e \in Executions : Kept(e)'
  BY DEF Contract!Promises, Counted, OnRecord
<1>3. status \in [Executions -> Contract!Statuses \cup {Contract!NoRecord}]
      /\ DOMAIN Counted = Executions
  BY ContractTypes DEF Counted
<1>4. ASSUME \A e \in Executions : Kept(e), NEW e \in Executions, Contract!Next
      PROVE  Kept(e)'
  <2>0. PICK x \in Executions :
          \/ Contract!Request(x) \/ Contract!Allow(x) \/ Contract!Approve(x)
          \/ Contract!Start(x) \/ Contract!Call(x) \/ Contract!Succeed(x)
          \/ \E to \in Contract!Statuses : Contract!Move(x, to)
    BY <1>4 DEF Contract!Next
  <2>1. CASE Contract!Request(x)
    <3>1. /\ status[x] = "NO_RECORD" /\ status' = [status EXCEPT ![x] = "REQUESTED"]
          /\ OnRecord' = OnRecord /\ Counted' = Counted
      BY <2>1 DEF Contract!Request, Contract!NoRecord, Counted, OnRecord
    <3> QED
      BY <1>3, <1>4, <3>1
  <2>2. CASE Contract!Allow(x)
    <3>1. /\ status' = status /\ OnRecord' = OnRecord \cup {x} /\ Counted' = Counted
      BY <2>2 DEF Contract!Allow, Counted, OnRecord
    <3> QED
      BY <1>3, <1>4, <3>1
  <2>3. CASE Contract!Approve(x)
    <3>1. /\ status[x] = "WAITING_APPROVAL" /\ status' = [status EXCEPT ![x] = "APPROVED"]
          /\ OnRecord' = OnRecord \cup {x} /\ Counted' = Counted
      BY <2>3 DEF Contract!Approve, Counted, OnRecord
    <3> QED
      BY <1>3, <1>4, <3>1
  <2>4. CASE Contract!Start(x)
    <3>1. /\ status[x] \in {"EVALUATED", "APPROVED"} /\ x \in OnRecord
          /\ status' = [status EXCEPT ![x] = "EXECUTING"]
          /\ OnRecord' = OnRecord /\ Counted' = Counted
      BY <2>4 DEF Contract!Start, Contract!AssertTransition,
         Contract!ALLOWED_TRANSITIONS, Counted, OnRecord
    <3> QED
      BY <1>3, <1>4, <3>1
  <2>5. CASE Contract!Call(x)
    <3>1. /\ status[x] = "EXECUTING" /\ status' = status /\ OnRecord' = OnRecord
          /\ Counted' = [Counted EXCEPT ![x] = 1]
      BY <2>5 DEF Contract!Call, Counted, OnRecord
    <3> QED
      BY <1>3, <1>4, <3>1
  <2>6. CASE Contract!Succeed(x)
    <3>1. /\ status[x] = "EXECUTING" /\ Counted[x] = 1
          /\ status' = [status EXCEPT ![x] = "SUCCEEDED"]
          /\ OnRecord' = OnRecord /\ Counted' = Counted
      BY <2>6 DEF Contract!Succeed, Counted, OnRecord
    <3> QED
      BY <1>3, <1>4, <3>1
  <2>7. ASSUME NEW to \in Contract!Statuses, Contract!Move(x, to)
        PROVE  Kept(e)'
    <3>1. /\ to \notin {"APPROVED", "EXECUTING", "SUCCEEDED"}
          /\ status[x] \notin Contract!TERMINAL_STATUSES
          /\ <<status[x], to>> \in Contract!ALLOWED_TRANSITIONS
          /\ status' = [status EXCEPT ![x] = to]
          /\ OnRecord' = OnRecord /\ Counted' = Counted
      BY <2>7 DEF Contract!Move, Contract!AssertTransition, Counted, OnRecord
    <3>2. status[x] = "EXECUTING" => to \in {"FAILED", "CANCELLED"}
      BY <3>1 DEF Contract!ALLOWED_TRANSITIONS
    <3>3. status[x] \notin {"SUCCEEDED", "FAILED", "CANCELLED"}
      BY <3>1 DEF Contract!TERMINAL_STATUSES
    <3> QED
      BY <1>3, <1>4, <3>1, <3>2, <3>3
  <2> QED
    BY <2>0, <2>1, <2>2, <2>3, <2>4, <2>5, <2>6, <2>7
<1>5. ASSUME UNCHANGED Contract!vars
      PROVE  status' = status /\ OnRecord' = OnRecord /\ Counted' = Counted
  BY <1>5 DEF Contract!vars, Counted, OnRecord
<1> QED
  BY <1>1, <1>2, <1>4, <1>5 DEF ContractStep

\* An outcome is final in every step of the contract.
LEMMA ContractFinal ==
  ASSUME TypeOK, Contract!Promises, ContractStep, NEW e \in Executions,
         status[e] \in TERMINAL_STATUSES
  PROVE  status'[e] = status[e] /\ Counted'[e] = Counted[e]
<1>1. CASE UNCHANGED Contract!vars
  BY <1>1 DEF Contract!vars, Counted
<1>2. CASE Contract!Next
  <2> DEFINE Ended == {"BLOCKED", "DENIED", "EXPIRED", "SUCCEEDED", "FAILED", "CANCELLED"}
  <2>1. status[e] \in Ended /\ DOMAIN status = Executions /\ DOMAIN Counted = Executions
    BY DEF TERMINAL_STATUSES, TypeOK, Counted
  <2>2. PICK x \in Executions :
          /\ \/ status[x] \notin Ended /\ (\E to : status' = [status EXCEPT ![x] = to])
             \/ status' = status
          /\ \/ status[x] = "EXECUTING" /\ Counted' = [Counted EXCEPT ![x] = 1]
             \/ Counted' = Counted
    BY <1>2 DEF Contract!Next, Contract!Request, Contract!Allow, Contract!Approve, Contract!Start,
       Contract!Call, Contract!Succeed, Contract!Move, Contract!AssertTransition,
       Contract!TERMINAL_STATUSES, Contract!NoRecord, Counted
  <2> QED
    BY <2>1, <2>2
<1> QED
  BY <1>1, <1>2 DEF ContractStep

\* With fail_closed, the engine keeps the promises of the contract: in every state
\* a function was called once at most, only with an authorisation on record, and
\* SUCCEEDED is said only of an execution that was called (run_controlled).
THEOREM EngineKeepsPromises ==
  ASSUME OnError = "fail_closed"
  PROVE  Spec => []Contract!Promises
<1>1. Init => Contract!Promises
  BY EngineAssumption DEF Init, Contract!Promises, NoRecord
<1>2. EngineInv /\ Contract!Promises /\ [Next]_vars => Contract!Promises'
  BY NextRefines, ContractPromises DEF EngineInv, IInv
<1> QED
  BY <1>1, <1>2, EngineInvariance, PTL DEF Spec

\* With fail_closed, no thread, operator or crash changes the outcome of an
\* execution, or calls it after it (assert_transition, transition_execution).
THEOREM EngineOutcomeIsFinal ==
  ASSUME OnError = "fail_closed"
  PROVE  Spec => Contract!OutcomeIsFinal
<1>1. EngineInv /\ Contract!Promises /\ [Next]_vars => Contract!KeepsOutcomes
  BY NextRefines, ContractFinal
     DEF EngineInv, IInv, TERMINAL_STATUSES, Contract!TERMINAL_STATUSES, Contract!KeepsOutcomes,
         Counted
<1>2. Contract!KeepsOutcomes => [Contract!KeepsOutcomes]_(Contract!vars)
  OBVIOUS
<1> QED
  BY <1>1, <1>2, EngineInvariance, EngineKeepsPromises, PTL DEF Spec, Contract!OutcomeIsFinal
=============================================================================
