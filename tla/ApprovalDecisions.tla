-------------------------- MODULE ApprovalDecisions --------------------------
(***************************************************************************)
(* What the ledger promises to operators and to resuming threads: each     *)
(* grant, denial, expiry, consumption, cancellation and outcome changes    *)
(* the approval row and the execution row together, at once and from the   *)
(* state it names, with no connection, transaction or lock to be seen.     *)
(***************************************************************************)
EXTENDS StateMachine

CONSTANT Executions

VARIABLE rows   \* the approval and the status of each execution

RowOf(approval, status) == [approval |-> approval, status |-> status]

Waiting == RowOf("PENDING", "WAITING_APPROVAL")

Init == rows = [e \in Executions |-> Waiting]

\* The rows before and after each decision; a cancellation and an outcome leave
\* the approval alone.
Decisions ==
  {<<Waiting, RowOf("GRANTED", "APPROVED")>>,
   <<Waiting, RowOf("DENIED", "DENIED")>>,
   <<Waiting, RowOf("EXPIRED", "EXPIRED")>>,
   <<RowOf("GRANTED", "APPROVED"), RowOf("CONSUMED", "EXECUTING")>>}

Cancellations == {"WAITING_APPROVAL", "APPROVED"} \X {"CANCELLED"}
Outcomes      == {"EXECUTING"} \X {"SUCCEEDED"}

Decide(e) ==
  \E d \in Decisions :
    /\ rows[e] = d[1]
    /\ rows' = [rows EXCEPT ![e] = d[2]]

Move(e) ==
  \E m \in Cancellations \cup Outcomes :
    /\ rows[e].status = m[1]
    /\ rows' = [rows EXCEPT ![e].status = m[2]]

Next == \E e \in Executions : Decide(e) \/ Move(e)

Spec == Init /\ [][Next]_rows

-----------------------------------------------------------------------------
(* What follows from the promise *)

\* A denied, expired or consumed approval stays what it is: nobody can grant it
\* any more, or consume it again (grant_approval, consume_approval_for_execution).
KeepsDecisions ==
  \A e \in Executions :
    rows[e].approval \in {"DENIED", "EXPIRED", "CONSUMED"} =>
      rows'[e].approval = rows[e].approval

DecisionsAreFinal == [][KeepsDecisions]_rows
=============================================================================
