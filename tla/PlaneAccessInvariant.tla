------------------------ MODULE PlaneAccessInvariant ------------------------
(***************************************************************************)
(* The inductive invariant behind the safety properties of PlaneAccess:    *)
(* what is in the tables once a request has passed a statement of its      *)
(* script, and what is on disk once it has committed after it.             *)
(***************************************************************************)
EXTENDS PlaneAccess

Running(r) == req[r].status = "running"

\* r has executed this statement, or skipped it.
Passed(r, statement) ==
  /\ Running(r)
  /\ \E i \in 1..(req[r].at - 1) : Script[req[r].kind][i] = statement

\* r has committed since.
PassedAndCommitted(r, statement) ==
  /\ Running(r)
  /\ \E i, j \in 1..(req[r].at - 1) :
       i < j /\ Script[req[r].kind][i] = statement /\ Script[req[r].kind][j] = "commit"

\* A session id that no running request may still create.
Settled(s) == s \in Cookies \/ req[s].status = "ok"

Placed ==
  \A r \in Requests : Running(r) =>
    /\ req[r].at \in 1..(Len(Script[req[r].kind]) + 1)
    /\ req[r].user \in Users
    /\ req[r].team \in Teams
    /\ req[r].role \in 1..3
    /\ req[r].kind = "sso" => req[r].token \in Tokens
    /\ req[r].cookie # Nobody => Settled(req[r].cookie)
    /\ req[r].kind \notin {"setup", "sso", "login"} => req[r].cookie # Nobody
    /\ req[r].kind = "login" /\ req[r].cookie = Nobody => req[r].at \notin {2, 3}

\* r is between its INSERT of the default team and that of the administrator.
SettingUp(r) == Running(r) /\ req[r].kind = "setup" /\ req[r].at = 3

SetUpInv ==
  /\ \A r \in Requests : SettingUp(r) =>
       /\ DefaultTeam \in db.teams
       /\ \A u \in Users : db.accounts[u] # "admin"
  /\ \A q, r \in Requests : SettingUp(q) /\ SettingUp(r) => q = r

AccountInv ==
  \A r \in Requests :
    \/ Passed(r, "account")
    \/ Passed(r, "authenticate")
    \/ Running(r) /\ req[r].known
    => db.accounts[req[r].user] # "none"

SignOutInv ==
  /\ \A s \in signedOut : Settled(s)
  /\ \A r \in Requests : req[r].cookie # Nobody =>
       /\ Passed(r, "drop") => db.sessions[req[r].cookie] = NoSession
       /\ PassedAndCommitted(r, "drop") => disk.sessions[req[r].cookie] = NoSession

AuditInv ==
  /\ db.trail \subseteq db.changed \cup void
  /\ \A r \in Requests :
    /\ Passed(r, "decide") => r \in db.changed \cup decided \cup void
    /\ Passed(r, Effect[req[r].kind]) => r \in db.changed \cup void
    /\ Passed(r, "audit") => r \in db.trail
    /\ PassedAndCommitted(r, "audit") => r \in disk.trail
    /\ req[r].status = "ok" => r \in db.trail

\* The row of a member is as its last writer left it, and so it is on disk
\* once that request has committed.
RoleInv ==
  \A t \in Teams, u \in Users : LET r == lastWriter[t][u] IN
    r # Nobody =>
      /\ req[r].status # "idle"
      /\ Running(r) => Passed(r, "member") /\ req[r].team = t /\ req[r].user = u
      /\ req[r].status \in {"running", "ok"} => db.role[t][u] = req[r].role
      /\ req[r].status = "ok" \/ PassedAndCommitted(r, "member")
           => disk.role[t][u] = req[r].role
      /\ req[r].status = "ok" => req[r].role \in 1..3

AccessInv ==
  /\ TypeOK
  /\ Placed
  /\ Sound(db)
  /\ Sound(disk)
  /\ SetUpInv
  /\ AccountInv
  /\ SignOutInv
  /\ SignedOutStaysOut
  /\ AuditInv
  /\ AuditTellsChanges
  /\ RoleInv
=============================================================================
