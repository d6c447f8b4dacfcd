---------------------------- MODULE StateMachine ----------------------------
(***************************************************************************)
(* The execution lifecycle shared by every runtime: the statuses of an     *)
(* execution record, the terminal ones, and the table of transitions that  *)
(* execution/state_machine.py accepts.                                     *)
(***************************************************************************)

\* What a status is before the row of the execution has been inserted.
NoRecord == "NO_RECORD"

TERMINAL_STATUSES ==
  {"BLOCKED", "DENIED", "EXPIRED", "SUCCEEDED", "FAILED", "CANCELLED"}

Statuses ==
  {"REQUESTED", "EVALUATED", "WAITING_APPROVAL", "APPROVED", "EXECUTING"}
    \cup TERMINAL_STATUSES

ALLOWED_TRANSITIONS ==
       {"REQUESTED"}        \X {"EVALUATED", "BLOCKED", "FAILED"}
  \cup {"EVALUATED"}        \X {"BLOCKED", "WAITING_APPROVAL", "EXECUTING", "FAILED"}
  \cup {"WAITING_APPROVAL"} \X {"APPROVED", "DENIED", "EXPIRED", "CANCELLED"}
  \cup {"APPROVED"}         \X {"EXECUTING", "CANCELLED"}
  \cup {"EXECUTING"}        \X {"SUCCEEDED", "FAILED", "CANCELLED"}

\* The three raises of assert_transition are the three ways this is false.
AssertTransition(from, to) ==
  /\ from # to
  /\ from \notin TERMINAL_STATUSES
  /\ <<from, to>> \in ALLOWED_TRANSITIONS
=============================================================================
