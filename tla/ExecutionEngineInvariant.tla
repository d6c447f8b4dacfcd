---------------------- MODULE ExecutionEngineInvariant ----------------------
(***************************************************************************)
(* The inductive invariant behind the safety properties of                 *)
(* ExecutionEngine: what the compare-and-set of transition_execution and   *)
(* the two-table transactions make each thread know about the rows of the  *)
(* execution it is working on, at every step of its call.                  *)
(***************************************************************************)
EXTENDS ExecutionEngine

\* Steps of run_controlled after the INSERT of the record and before the
\* execution starts: one thread at most is ever there for one execution.
Driving ==
  {"log_requested", "delegation", "evaluated", "policy", "log_policy", "enforce",
   "create_approval", "log_pending", "log_prompt", "prompt", "log_granted", "begin"}

\* Steps between the transition to EXECUTING and the one to an outcome.
Running == {"log_started", "call", "succeed", "fail"}

Undecided == {NoRecord, "REQUESTED", "EVALUATED"}

\* The context of a call, as every step of the call finds it.
ContextInv ==
  \A t \in Threads :
    /\ pc[t] # "idle" => on[t] \in Executions
    /\ pc[t] \in {"register", "duplicate"} => KeyOf[on[t]] \in Keys
    /\ pc[t] = "duplicate" => keyOwner[KeyOf[on[t]]] # None
    /\ pc[t] \in {"register", "insert"} => given[t] \in Params
    /\ pc[t] \in Driving \cup Running \cup {"load_approval", "consume"}
         => given[t] = hash[on[t]]
    /\ pc[t] \in {"load_approval", "consume"} => status[on[t]] # NoRecord

\* Whoever inserts a record under a key owns the key.
KeyInv ==
  /\ \A e \in Executions :
       status[e] # NoRecord /\ KeyOf[e] \in Keys => keyOwner[KeyOf[e]] = e
  /\ \A t \in Threads :
       pc[t] = "insert" /\ KeyOf[on[t]] \in Keys => keyOwner[KeyOf[on[t]]] = on[t]

\* What the rows are for a thread that drives an execution.
DrivingInv ==
  /\ \A t \in Threads :
       /\ pc[t] \in {"log_requested", "delegation", "evaluated"}
            => status[on[t]] = "REQUESTED"
       /\ pc[t] \in {"policy", "log_policy", "enforce"}
            => status[on[t]] = "EVALUATED"
       /\ pc[t] \in Driving => status[on[t]] # NoRecord
       /\ pc[t] = "enforce" => Logged(on[t], "POLICY_EVALUATED")
       /\ pc[t] = "create_approval"
            => /\ status[on[t]] \in {"WAITING_APPROVAL", "CANCELLED"}
               /\ approval[on[t]] = None
               /\ ApprovalMode[on[t]] = "deferred"
       /\ pc[t] \in {"log_prompt", "prompt", "log_granted", "begin"}
            => ApprovalMode[on[t]] = "sync"
  /\ \A t, u \in Threads :
       pc[t] \in Driving /\ pc[u] \in Driving /\ on[t] = on[u] => t = u

\* What the rows are for a thread that runs the guarded function.
RunningInv ==
  /\ \A t \in Threads :
       /\ pc[t] \in Running => status[on[t]] = "EXECUTING"
       /\ pc[t] \in {"log_started", "call"} => calls[on[t]] = <<>>
       /\ pc[t] = "call" => Logged(on[t], "ACTION_STARTED")
       /\ pc[t] \in {"succeed", "fail"} => calls[on[t]] # <<>>
  /\ \A t, u \in Threads :
       pc[t] \in Running /\ pc[u] \in Running /\ on[t] = on[u] => t = u

\* A call of the guarded function, seen from the record.
CallsInv ==
  \A e \in Executions :
    /\ calls[e] # <<>> =>
         /\ status[e] \in {"EXECUTING", "SUCCEEDED", "FAILED"}
         /\ Logged(e, "ACTION_STARTED")
         /\ calls[e] = <<hash[e]>>
    /\ status[e] = "SUCCEEDED" => calls[e] # <<>>

\* Approval rows exist only for deferred executions that have waited, and
\* agree with the record.
ApprovalInv ==
  /\ ApprovalMatchesExecution
  /\ \A e \in Executions :
       /\ approval[e] # None => ApprovalMode[e] = "deferred"
       /\ status[e] \in Undecided => approval[e] = None /\ ~approvedBy[e]

\* Nothing starts unauthorised unless the engine was told to fail open.
AuthorisedInv ==
  \A e \in Executions :
    /\ status[e] = "APPROVED" => approvedBy[e]
    /\ OnError = "fail_closed" =>
         /\ status[e] \in {"EXECUTING", "SUCCEEDED"} => Authorised(e)
         /\ calls[e] # <<>> => Authorised(e)

ReplayInv == \A e \in replayed : status[e] = "SUCCEEDED"

\* The inductive invariant: what every commit of transition_execution, of the
\* approval transactions and of append_event leaves true for every thread.
IInv ==
  /\ TypeOK
  /\ ContextInv
  /\ KeyInv
  /\ DrivingInv
  /\ RunningInv
  /\ CallsInv
  /\ ApprovalInv
  /\ AuthorisedInv
  /\ ReplayInv

\* Steps that log an outcome of the execution: the record has it already.
OutcomeSteps ==
  {"log_blocked", "log_denied", "log_expired", "log_cancelled", "log_succeeded",
   "log_failed"}

Started == {"EXECUTING", "SUCCEEDED", "FAILED"}

\* Who may still write which event of an execution: outcome events and
\* ACTION_STARTED have one writer, the thread whose compare-and-set made the
\* transition, and POLICY_EVALUATED is written by the one driving thread.
LedgerInv ==
  /\ LedgerTellsOutcome
  /\ \A e \in Executions :
       /\ Logged(e, "ACTION_STARTED") => status[e] \in Started
       /\ status[e] = NoRecord => ~Logged(e, "POLICY_EVALUATED")
  /\ \A t \in Threads :
       /\ pc[t] \in OutcomeSteps =>
            /\ status[on[t]] = OutcomeOf[EventOf(pc[t])]
            /\ ~Logged(on[t], EventOf(pc[t]))
       /\ pc[t] = "log_started" => ~Logged(on[t], "ACTION_STARTED")
       /\ pc[t] \in {"log_requested", "delegation", "evaluated", "policy", "log_policy"}
            => ~Logged(on[t], "POLICY_EVALUATED")
  /\ \A t, u \in Threads :
       pc[t] \in OutcomeSteps /\ pc[u] \in OutcomeSteps /\ on[t] = on[u] => t = u

\* The two together: the rows, the threads and the ledger of the engine.
EngineInv == IInv /\ LedgerInv
=============================================================================
