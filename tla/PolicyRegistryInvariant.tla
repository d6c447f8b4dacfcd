------------------------ MODULE PolicyRegistryInvariant ------------------------
(***************************************************************************)
(* The inductive invariant behind the safety properties of PolicyRegistry: *)
(* what is in the tables once a request has passed a statement of its      *)
(* script, and what is on disk once it has committed after it.             *)
(***************************************************************************)
EXTENDS PolicyRegistry

\* r has executed this statement.
Passed(r, statement) ==
  /\ Running(r)
  /\ \E i \in 1..(req[r].at - 1) : Script[req[r].kind][i] = statement

\* r has committed since.
PassedAndCommitted(r, statement) ==
  /\ Running(r)
  /\ \E i, j \in 1..(req[r].at - 1) :
       i < j /\ Script[req[r].kind][i] = statement /\ Script[req[r].kind][j] = "commit"

\* What a running request asks for; its default version has been filled in
\* before anything else.
Placed ==
  \A r \in Requests : Running(r) =>
    /\ req[r].at \in 1..(Len(Script[req[r].kind]) + 1)
    /\ req[r].bundle \in Bundles
    /\ req[r].agent \in Agents
    /\ req[r].kind \in {"register_policy", "register_inactive"} => req[r].version \in Versions
    /\ req[r].kind = "assign" => req[r].version \in Versions \cup {Latest}
    /\ req[r].at > 1 => req[r].version # Latest

\* What a request will refer to is there.
PendingInv ==
  \A r \in Requests :
    /\ Passed(r, "bundle") => db.bundle[req[r].version] # None
    /\ Passed(r, "hash") => db.hash[req[r].version] # None
    /\ Passed(r, "check") => db.bundle[req[r].version] # None
    /\ Passed(r, "default") /\ req[r].version \in Versions /\ ~req[r].named
         => db.bundle[req[r].version] # None

\* Bundle and hash of a version differ only while its registration is between
\* the two statements, on disk until it has committed both.
HashInv ==
  /\ HashIdentifiesBundle
  /\ \A v \in Versions \ mixed :
       (\A r \in Requests : ~(Uncommitted(r) /\ req[r].version = v))
         => disk.hash[v] = disk.bundle[v]
  /\ \A r \in Requests : HalfWay(r) /\ req[r].version \notin mixed =>
       /\ db.bundle[req[r].version] = req[r].bundle
       /\ \A q \in Requests : HalfWay(q) /\ req[q].version = req[r].version => q = r

AuditInv ==
  \A r \in Requests :
    /\ Passed(r, "audit") => r \in db.trail
    /\ PassedAndCommitted(r, "audit") => r \in disk.trail
    /\ req[r].status = "ok" => r \in db.trail

\* Bundle and hash of a version are as their last writers left them, and so they
\* are on disk once that request has committed.
PublishedInv ==
  \A column \in Columns, v \in Versions : LET r == publishedBy[column][v] IN
    r # None =>
      /\ req[r].status # "idle"
      /\ Running(r) => Passed(r, column)
      /\ req[r].status \in {"running", "ok"} => db[column][v] = req[r].bundle
      /\ PassedAndCommitted(r, column) => disk[column][v] = req[r].bundle

\* The row of an agent is as its last writer left it, and so it is on disk
\* once that request has committed.
AttachedInv ==
  \A a \in Agents : LET r == attachedBy[a] IN
    r # None =>
      /\ req[r].status # "idle"
      /\ Running(r) => (Passed(r, "row") \/ Passed(r, "update")) /\ req[r].agent = a
      /\ req[r].status \in {"running", "ok"} => db.agent[a].version = req[r].version
      /\ PassedAndCommitted(r, "row") \/ PassedAndCommitted(r, "update")
           => disk.agent[a].version = req[r].version

\* The same of the active version.
ActivatedInv ==
  LET r == activatedBy IN
    r # None =>
      /\ req[r].status # "idle"
      /\ Running(r) => Passed(r, "active")
      /\ req[r].status \in {"running", "ok"} => db.active = req[r].version
      /\ PassedAndCommitted(r, "active") => disk.active = req[r].version

RegistryInv ==
  /\ TypeOK
  /\ Placed
  /\ PendingInv
  /\ ReferencesResolve
  /\ HashInv
  /\ AuditInv
  /\ PublishedInv
  /\ AttachedInv
  /\ ActivatedInv
  /\ AnsweredIsDurable
=============================================================================
