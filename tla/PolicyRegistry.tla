---------------------------- MODULE PolicyRegistry ----------------------------
(***************************************************************************)
(* The registry of policies and agents on the control plane                *)
(* (control_plane/store.py, identity.py and the handlers of api.py): a     *)
(* policy has versions, each with its bundle and the hash of its bundle,   *)
(* and one version is active; an agent is attached to a version.  Rows of  *)
(* different policies never meet, so one policy is modelled.               *)
(*                                                                         *)
(* As in PlaneAccess the handlers share one connection: a step is one SQL  *)
(* statement, `db' is what every request sees, `disk' what was last        *)
(* committed.  The requests are those PlaneAccess authorises.              *)
(***************************************************************************)
EXTENDS Naturals, Sequences, FiniteSets

CONSTANTS
  Requests,     \* HTTP requests; each is served once
  Versions,
  Bundles,      \* a bundle stands for its SHA-256 as well
  Agents,
  None,         \* no row, no version
  Latest,       \* a request that leaves the version to the plane
  NoPolicy,     \* a registration of an agent without a policy
  Calls,        \* what is asked: kind, version, bundle, agent
  InitialDbs,   \* databases the plane may be started on
  MaxRunning,   \* threads of the pool: requests served at the same time
  MaxCrashes    \* bound: deaths of the plane process

Kinds == {"register_policy", "register_inactive", "register_agent", "assign"}

\* The statements of each request, in the order the code executes them;
\* record_policy_version and set_active_policy commit for themselves.
Script ==
  [register_policy   |-> <<"bundle", "hash", "commit", "active", "commit", "commit",
                           "audit", "commit">>,
   register_inactive |-> <<"bundle", "hash", "commit", "commit", "audit", "commit">>,
   register_agent    |-> <<"default", "find", "row", "commit", "audit", "commit">>,
   assign            |-> <<"default", "check", "update", "commit", "audit", "commit",
                           "read">>]

VARIABLES
  db,          \* the tables as the connection sees them
  disk,        \* the tables as last committed
  req,         \* the requests
  publishedBy, \* history: who last wrote the bundle, and the hash, of a version
  attachedBy,  \* history: who last wrote the row of an agent
  activatedBy, \* history: who last wrote the active version
  mixed,       \* history: versions with registrations that overlapped or broke off
  crashes

vars == <<db, disk, req, publishedBy, attachedBy, activatedBy, mixed, crashes>>

\* A row of agents; `named' is history: the version is as an agent's
\* registration named it.
Row == [version : Versions \cup {None, NoPolicy}, named : BOOLEAN]
NoRow == [version |-> None, named |-> TRUE]

\* What a registration publishes, each with a statement of the same name.
Columns == {"bundle", "hash"}

Database ==
  [bundle : [Versions -> Bundles \cup {None}],
   hash   : [Versions -> Bundles \cup {None}],
   active : Versions \cup {None},
   agent  : [Agents -> Row],     \* NoRow: not registered
   trail  : SUBSET Requests]     \* audit_log: the requests it reports

Call ==
  [kind : Kinds, version : Versions \cup {Latest, NoPolicy}, bundle : Bundles, agent : Agents]

\* What a request of this kind may ask for: a policy is registered under a
\* version, and only a registration of an agent may do without a policy.
Sensible(c) ==
  /\ c.kind \in {"register_policy", "register_inactive"} => c.version \in Versions
  /\ c.kind = "assign" => c.version # NoPolicy

ActiveIsRegistered(d) ==
  d.active # None => d.bundle[d.active] # None /\ d.hash[d.active] # None

AttachedIsRegistered(d) ==
  \A a \in Agents :
    d.agent[a].version \in Versions /\ ~d.agent[a].named
      => d.bundle[d.agent[a].version] # None

ASSUME RegistryAssumption ==
  /\ None \notin Versions \cup Bundles \cup Requests
  /\ Latest \notin Versions \cup {None, NoPolicy}
  /\ NoPolicy \notin Versions \cup {None}
  /\ Calls \subseteq {c \in Call : Sensible(c)}
  /\ \A d \in InitialDbs :
       /\ d \in Database
       /\ ActiveIsRegistered(d)
       /\ AttachedIsRegistered(d)
       /\ d.hash = d.bundle
       /\ d.trail = {}
  /\ MaxRunning \in Nat
  /\ MaxCrashes \in Nat

Idle ==
  [status |-> "idle", kind |-> "assign", at |-> 1, version |-> None, bundle |-> None,
   agent |-> None, named |-> FALSE, known |-> FALSE]

Init ==
  /\ db \in InitialDbs
  /\ disk = db
  /\ req = [r \in Requests |-> Idle]
  /\ publishedBy = [column \in Columns |-> [v \in Versions |-> None]]
  /\ attachedBy = [a \in Agents |-> None]
  /\ activatedBy = None
  /\ mixed = {}
  /\ crashes = 0

-----------------------------------------------------------------------------
(* How a request moves *)

Running(r) == req[r].status = "running"

AtStatement(r, statement) ==
  /\ Running(r)
  /\ req[r].at <= Len(Script[req[r].kind])
  /\ Script[req[r].kind][req[r].at] = statement

Advance(r) == req' = [req EXCEPT ![r] = [@ EXCEPT !.at = req[r].at + 1]]
\* Of an answered request, what it wrote is still of interest.
Over(r, status) ==
  IF status = "ok"
    THEN [Idle EXCEPT !.status = status, !.version = req[r].version, !.bundle = req[r].bundle]
    ELSE [Idle EXCEPT !.status = status]
End(r, status) == req' = [req EXCEPT ![r] = Over(r, status)]
Kept == UNCHANGED <<publishedBy, attachedBy, activatedBy, mixed, crashes>>
Refuse(r) == End(r, "refused") /\ UNCHANGED <<db, disk>> /\ Kept

Arrive(r) ==
  /\ req[r].status = "idle"
  /\ Cardinality({q \in Requests : Running(q)}) < MaxRunning
  /\ \E c \in Calls :
       req' = [req EXCEPT ![r] =
         [Idle EXCEPT !.status = "running", !.kind = c.kind, !.version = c.version,
                      !.bundle = c.bundle, !.agent = c.agent]]
  /\ UNCHANGED <<db, disk>> /\ Kept

-----------------------------------------------------------------------------
(* register_policy *)

\* r has stored its bundle and not yet the hash of it, or not committed both.
Publishing(r) == Running(r) /\ req[r].kind \in {"register_policy", "register_inactive"}
HalfWay(r) == Publishing(r) /\ req[r].at = 2
Uncommitted(r) == Publishing(r) /\ req[r].at \in {2, 3}

Publish(r, column) ==
  publishedBy' =
    [publishedBy EXCEPT ![column] = [publishedBy[column] EXCEPT ![req[r].version] = r]]

\* INSERT OR REPLACE INTO policies: a version may be registered again.
InsertBundle(r) ==
  /\ AtStatement(r, "bundle")
  /\ LET v == req[r].version
     IN /\ db' = [db EXCEPT !.bundle = [@ EXCEPT ![v] = req[r].bundle]]
        /\ mixed' = IF \E q \in Requests : HalfWay(q) /\ req[q].version = v
                      THEN mixed \cup {v} ELSE mixed
  /\ Publish(r, "bundle")
  /\ Advance(r)
  /\ UNCHANGED <<disk, attachedBy, activatedBy, crashes>>

\* Mutant: INSERT OR IGNORE INTO policy_history.
InsertHashIgnore(r) ==
  /\ AtStatement(r, "hash")
  /\ db' = IF db.hash[req[r].version] # None THEN db
           ELSE [db EXCEPT !.hash = [@ EXCEPT ![req[r].version] = req[r].bundle]]
  /\ Publish(r, "hash")
  /\ Advance(r)
  /\ UNCHANGED <<disk, attachedBy, activatedBy, mixed, crashes>>

\* record_policy_version: INSERT OR REPLACE INTO policy_history.
InsertHash(r) ==
  /\ AtStatement(r, "hash")
  /\ db' = [db EXCEPT !.hash = [@ EXCEPT ![req[r].version] = req[r].bundle]]
  /\ Publish(r, "hash")
  /\ Advance(r)
  /\ UNCHANGED <<disk, attachedBy, activatedBy, mixed, crashes>>

\* set_active_policy
Activate(r) ==
  /\ AtStatement(r, "active")
  /\ db' = [db EXCEPT !.active = req[r].version]
  /\ activatedBy' = r
  /\ Advance(r)
  /\ UNCHANGED <<disk, publishedBy, attachedBy, mixed, crashes>>

-----------------------------------------------------------------------------
(* register_agent and assign_agent_policy *)

\* get_active_policy_version, when the request names a policy and no version.
\* Only assign_agent_policy insists on there being one.
Default(r) ==
  /\ AtStatement(r, "default")
  /\ IF req[r].version # Latest
       THEN /\ req' = [req EXCEPT ![r] = [@ EXCEPT !.at = req[r].at + 1, !.named = TRUE]]
            /\ UNCHANGED <<db, disk>> /\ Kept
       ELSE IF req[r].kind = "assign" /\ db.active = None
         THEN Refuse(r)
         ELSE /\ req' = [req EXCEPT ![r] = [@ EXCEPT !.at = req[r].at + 1, !.version = db.active]]
              /\ UNCHANGED <<db, disk>> /\ Kept

Find(r) ==
  /\ AtStatement(r, "find")
  /\ req' = [req EXCEPT ![r] =
               [@ EXCEPT !.at = req[r].at + 1, !.known = db.agent[req[r].agent] # NoRow]]
  /\ UNCHANGED <<db, disk>> /\ Kept

Attach(r, row) ==
  /\ db' = [db EXCEPT !.agent = [@ EXCEPT ![req[r].agent] = row]]
  /\ attachedBy' = [attachedBy EXCEPT ![req[r].agent] = r]
  /\ Advance(r)
  /\ UNCHANGED <<disk, publishedBy, activatedBy, mixed, crashes>>

\* UPDATE of the agent that was found, or INSERT, which fails when another
\* request has inserted it since.  The version is not looked up.
WriteAgent(r) ==
  /\ AtStatement(r, "row")
  /\ IF ~req[r].known /\ db.agent[req[r].agent] # NoRow
       THEN Refuse(r)
       ELSE Attach(r, [version |-> req[r].version, named |-> req[r].named])

\* Mutant: assign_agent_policy does not look the version up.
CheckVersionNot(r) ==
  /\ AtStatement(r, "check")
  /\ Advance(r) /\ UNCHANGED <<db, disk>> /\ Kept

\* get_policy
CheckVersion(r) ==
  /\ AtStatement(r, "check")
  /\ IF db.bundle[req[r].version] = None
       THEN Refuse(r)
       ELSE Advance(r) /\ UNCHANGED <<db, disk>> /\ Kept

\* UPDATE agents: of an agent that is not registered it updates nothing.
UpdateAgent(r) ==
  /\ AtStatement(r, "update")
  /\ IF db.agent[req[r].agent] = NoRow
       THEN Advance(r) /\ UNCHANGED <<db, disk>> /\ Kept
       ELSE Attach(r, [version |-> req[r].version, named |-> FALSE])

\* get_agent, after the audit log has reported the assignment.
ReadAgent(r) ==
  /\ AtStatement(r, "read")
  /\ IF db.agent[req[r].agent] = NoRow
       THEN Refuse(r)
       ELSE Advance(r) /\ UNCHANGED <<db, disk>> /\ Kept

-----------------------------------------------------------------------------
(* What all share, and crashes *)

InsertAudit(r) ==
  /\ AtStatement(r, "audit")
  /\ db' = [db EXCEPT !.trail = @ \cup {r}]
  /\ Advance(r) /\ UNCHANGED disk /\ Kept

\* Mutant: a registration is committed with its activation only, and of one that
\* activates nothing the audit log's own commit saves the audit row.
CommitWithActivation(r) ==
  /\ AtStatement(r, "commit")
  /\ disk' = IF req[r].kind = "register_inactive" THEN [disk EXCEPT !.trail = db.trail] ELSE db
  /\ Advance(r) /\ UNCHANGED db /\ Kept

Commit(r) ==
  /\ AtStatement(r, "commit")
  /\ disk' = db
  /\ Advance(r) /\ UNCHANGED db /\ Kept

Answer(r) ==
  /\ Running(r)
  /\ req[r].at = Len(Script[req[r].kind]) + 1
  /\ End(r, "ok") /\ UNCHANGED <<db, disk>> /\ Kept

\* The plane dies and is started again on what was committed: that may be a
\* bundle without its hash, when another request committed in between.
Crash ==
  /\ crashes < MaxCrashes
  /\ crashes' = crashes + 1
  /\ db' = disk
  /\ req' = [r \in Requests |-> IF Running(r) THEN Over(r, "lost") ELSE req[r]]
  /\ mixed' = mixed \cup {req[r].version : r \in {q \in Requests : Uncommitted(q)}}
  /\ UNCHANGED <<disk, publishedBy, attachedBy, activatedBy>>

Statement(r) ==
  \/ InsertBundle(r) \/ InsertHash(r) \/ Activate(r)
  \/ Default(r) \/ Find(r) \/ WriteAgent(r)
  \/ CheckVersion(r) \/ UpdateAgent(r) \/ ReadAgent(r)
  \/ InsertAudit(r) \/ Commit(r)

Next ==
  \/ \E r \in Requests : Arrive(r) \/ Statement(r) \/ Answer(r)
  \/ Crash

Spec == Init /\ [][Next]_vars

-----------------------------------------------------------------------------
(* Properties *)

Request ==
  [status : {"idle", "running", "ok", "refused", "lost"}, kind : Kinds, at : 1..9,
   version : Versions \cup {None, Latest, NoPolicy}, bundle : Bundles \cup {None},
   agent : Agents \cup {None}, named : BOOLEAN, known : BOOLEAN]

TypeOK ==
  /\ db \in Database
  /\ disk \in Database
  /\ req \in [Requests -> Request]
  /\ publishedBy \in [Columns -> [Versions -> Requests \cup {None}]]
  /\ attachedBy \in [Agents -> Requests \cup {None}]
  /\ activatedBy \in Requests \cup {None}
  /\ mixed \subseteq Versions
  /\ crashes \in 0..MaxCrashes

\* What refers to a version of the policy refers to one that exists, in memory
\* and after any crash: the active version has a bundle and a hash, and an agent
\* is attached to a version with a bundle unless its own registration named one.
ReferencesResolve ==
  \A d \in {db, disk} : ActiveIsRegistered(d) /\ AttachedIsRegistered(d)

\* The hash the history shows for a version is that of the bundle the plane
\* hands out, however often the version is registered again, unless two
\* registrations of it overlapped or a crash cut one in two.
HashIdentifiesBundle ==
  \A v \in Versions \ mixed :
    (\A r \in Requests : ~(HalfWay(r) /\ req[r].version = v))
      => db.hash[v] = db.bundle[v]

PublishedIsDurable ==
  \A column \in Columns, v \in Versions : LET r == publishedBy[column][v] IN
    r # None /\ req[r].status = "ok" => disk[column][v] = req[r].bundle

\* Whatever else runs or crashes, what the plane has answered is on disk until
\* another request replaces it: the bundle and the hash of a registration, active
\* or not, the version an agent is attached to, and which one is active.  The
\* audit log on disk reports it.
AnsweredIsDurable ==
  /\ \A r \in Requests : req[r].status = "ok" => r \in disk.trail
  /\ PublishedIsDurable
  /\ \A a \in Agents : LET r == attachedBy[a] IN
       r # None /\ req[r].status = "ok" => disk.agent[a].version = req[r].version
  /\ activatedBy # None /\ req[activatedBy].status = "ok"
       => disk.active = req[activatedBy].version
=============================================================================
