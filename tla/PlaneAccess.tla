----------------------------- MODULE PlaneAccess -----------------------------
(***************************************************************************)
(* Who may do what on the control plane: set-up of the first               *)
(* administrator, password and SSO sign-in, sessions, roles and the audit  *)
(* log (control_plane/identity.py, access.py, rbac.py, cookies.py,         *)
(* sso_oidc.py and the handlers of api.py that use them).                  *)
(*                                                                         *)
(* The handlers run in a pool of threads over ONE sqlite connection.  One  *)
(* SQL statement is one step; every request sees what any request has      *)
(* written, a commit makes everything written so far durable, and a crash  *)
(* brings back the last commit.  Script gives the statements of each kind  *)
(* of request, and a request stands at one position of its script.         *)
(*                                                                         *)
(* Approvals are decided in the database of the ledger, over a second      *)
(* connection that all threads share in the same way.                      *)
(***************************************************************************)
EXTENDS Naturals, Sequences, FiniteSets

CONSTANTS
  Requests,     \* HTTP requests; each is served once
  Cookies,      \* ids of the sessions that exist at the start
  Users,        \* user names
  Teams,
  DefaultTeam,  \* "sq_team_default"
  Tokens,       \* OIDC state tokens, drawn at random and never twice
  Nobody,       \* no session, no cookie, no writer
  Calls,        \* what is asked: kind, subject, team, role, OIDC state
  InitialDbs,   \* databases the plane may be started on
  Ageing,       \* bound: the sessions that may live to their 24 hours
  MaxRunning,   \* threads of the pool: requests served at the same time
  MaxCrashes    \* bound: deaths of the plane process

\* rbac.Role; 0 is no row in team_members.
Viewer == 1
Operator == 2
Administrator == 3
Ranks == 0..3

Kinds ==
  {"setup", "login", "logout", "sso", "add_member", "configure", "decide", "purge"}

\* The statements of each request, in the order the code executes them.
Script ==
  [setup      |-> <<"configured", "team", "account", "member", "commit",
                    "audit", "commit", "session", "commit">>,
   login      |-> <<"authenticate", "drop", "commit", "session", "commit",
                    "audit", "commit">>,
   logout     |-> <<"drop", "commit", "audit", "commit">>,
   sso        |-> <<"state", "pop", "exchange", "find", "account", "member",
                    "commit", "session", "commit", "audit", "commit">>,
   add_member |-> <<"authorise", "find", "account", "member", "commit",
                    "audit", "commit">>,
   configure  |-> <<"authorise", "write", "commit", "audit", "commit">>,
   decide     |-> <<"authorise", "begin", "decide", "save", "audit", "commit">>,
   purge      |-> <<"drop", "commit">>]

\* The statement whose effect the audit row of the request reports.
Effect ==
  [setup |-> "member", add_member |-> "member", login |-> "session", sso |-> "session",
   logout |-> "drop", configure |-> "write", decide |-> "save", purge |-> "none"]

\* RequireOperator and RequireAdmin; the other kinds require no principal.
Needs(kind) ==
  IF kind = "decide" THEN Operator
  ELSE IF kind \in {"add_member", "configure"} THEN Administrator ELSE 0

VARIABLES
  db,         \* the tables as the connection sees them
  disk,       \* the tables as last committed
  req,        \* the requests
  open,       \* the ledger's connection is in a transaction
  decided,    \* the decisions written in it
  token,      \* app.state.oidc_states and the tokens it has held
  expired,    \* sessions older than SESSION_MAX_AGE
  lastWriter, \* history: who last wrote a member row
  signedOut,  \* history: sessions whose sign-out was answered
  void,       \* history: decisions that a ROLLBACK took back, sign-outs of no session
  crashes

vars == <<db, disk, req, open, decided, token, expired, lastWriter, signedOut, void, crashes>>

Sids == Requests \cup Cookies   \* a request opens at most one session: its own
NoSession == [user |-> Nobody, team |-> Nobody]
Session == [user : Users, team : Teams] \cup {NoSession}

Database ==
  [teams    : SUBSET Teams,
   accounts : [Users -> {"none", "local", "sso", "admin"}],
   role     : [Teams -> [Users -> Ranks]],
   sessions : [Sids -> Session],
   trail    : SUBSET Requests,    \* audit_log: the requests it reports
   changed  : SUBSET Requests]    \* history: requests whose change is in

\* A database that committed requests leave behind.
Sound(d) ==
  /\ \A t \in Teams, u \in Users : d.role[t][u] # 0 => d.accounts[u] # "none"
  /\ \A s \in Sids : d.sessions[s] # NoSession => d.accounts[d.sessions[s].user] # "none"
  /\ \A u \in Users : d.accounts[u] = "admin" => DefaultTeam \in d.teams
  /\ \A u, v \in Users : d.accounts[u] = "admin" /\ d.accounts[v] = "admin" => u = v

Call ==
  [kind : Kinds \ {"purge"}, user : Users, team : Teams, role : 1..3, token : Tokens]

ASSUME AccessAssumption ==
  /\ DefaultTeam \in Teams
  /\ Requests \cap Cookies = {}
  /\ Nobody \notin Users \cup Teams \cup Sids
  /\ Calls \subseteq Call
  /\ \A d \in InitialDbs :
       /\ d \in Database
       /\ Sound(d)
       /\ d.trail = {} /\ d.changed = {}
       /\ \A r \in Requests : d.sessions[r] = NoSession
  /\ Ageing \subseteq Sids
  /\ MaxRunning \in Nat
  /\ MaxCrashes \in Nat

Idle ==
  [status |-> "idle", kind |-> "purge", at |-> 1, user |-> Nobody, team |-> Nobody,
   role |-> 0, token |-> Nobody, cookie |-> Nobody, known |-> FALSE,
   actor |-> NoSession, rank |-> 0]

Init ==
  /\ db \in InitialDbs
  /\ disk = db
  /\ req = [r \in Requests |-> Idle]
  /\ open = FALSE
  /\ decided = {}
  /\ token = [k \in Tokens |-> "unused"]
  /\ expired = {}
  /\ lastWriter = [t \in Teams |-> [u \in Users |-> Nobody]]
  /\ signedOut = {}
  /\ void = {}
  /\ crashes = 0

-----------------------------------------------------------------------------
(* How a request moves *)

AtStatement(r, statement) ==
  /\ req[r].status = "running"
  /\ req[r].at <= Len(Script[req[r].kind])
  /\ Script[req[r].kind][req[r].at] = statement

Advance(r) == req' = [req EXCEPT ![r] = [@ EXCEPT !.at = req[r].at + 1]]
\* Of a request that is over, its kind and the role it wrote are still of interest.
Over(r, status) ==
  IF status = "ok" THEN [Idle EXCEPT !.status = "ok", !.kind = req[r].kind, !.role = req[r].role]
  ELSE [Idle EXCEPT !.status = status]
End(r, status) == req' = [req EXCEPT ![r] = Over(r, status)]
Known(r, found) == req' = [req EXCEPT ![r] = [@ EXCEPT !.at = req[r].at + 1, !.known = found]]

\* d, with the change of r reported if the statement is the one that makes it.
Reporting(d, r, statement) ==
  IF Effect[req[r].kind] = statement
    THEN [d EXCEPT !.changed = @ \cup {r}] ELSE d

LedgerKept == UNCHANGED <<open, decided>>
Kept == UNCHANGED <<token, expired, lastWriter, signedOut, void, crashes>> /\ LedgerKept

\* A handler raises: a 4xx or 5xx answer, nothing rolled back.
Refuse(r) == End(r, "refused") /\ UNCHANGED <<db, disk>> /\ Kept

\* Session ids a browser has been handed: at the start or by an answer.
Handed == Cookies \cup {r \in Requests : req[r].status = "ok" /\ "session" \in
                           {Script[req[r].kind][i] : i \in DOMAIN Script[req[r].kind]}}

\* Sign-in may come with an old cookie; sign-out without one does nothing.
CookiesFor(kind) ==
  IF kind \in {"setup", "sso"} THEN {Nobody}
  ELSE Handed \cup (IF kind = "login" THEN {Nobody} ELSE {})

Arrive(r) ==
  /\ req[r].status = "idle"
  /\ Cardinality({q \in Requests : req[q].status = "running"}) < MaxRunning
  /\ \E c \in Calls : \E cookie \in CookiesFor(c.kind) :
       req' = [req EXCEPT ![r] =
         [Idle EXCEPT !.status = "running", !.kind = c.kind, !.user = c.user,
                      !.team = IF c.kind \in {"setup", "sso"} THEN DefaultTeam ELSE c.team,
                      !.role = IF c.kind = "setup" THEN Administrator ELSE c.role,
                      !.token = c.token, !.cookie = cookie]]
  /\ UNCHANGED <<db, disk>> /\ Kept

-----------------------------------------------------------------------------
(* Set-up, password sign-in and SSO *)

\* setup_required: SELECT COUNT of users.
Configured(r) ==
  /\ AtStatement(r, "configured")
  /\ IF \E u \in Users : db.accounts[u] # "none"
       THEN Refuse(r)
       ELSE Advance(r) /\ UNCHANGED <<db, disk>> /\ Kept

\* Mutant: INSERT OR IGNORE INTO teams.
InsertTeamIgnore(r) ==
  /\ AtStatement(r, "team")
  /\ db' = [db EXCEPT !.teams = @ \cup {DefaultTeam}]
  /\ Advance(r) /\ UNCHANGED disk /\ Kept

\* INSERT INTO teams fails on the fixed primary key sq_team_default.
InsertTeam(r) ==
  /\ AtStatement(r, "team")
  /\ IF DefaultTeam \in db.teams
       THEN Refuse(r)
       ELSE /\ db' = [db EXCEPT !.teams = @ \cup {DefaultTeam}]
            /\ Advance(r) /\ UNCHANGED disk /\ Kept

\* authenticate_local and user_teams: an account without a password, or
\* without a team, may not sign in.  The team asked for is not compared with
\* the memberships; without one it is any of the memberships, or the default.
Authenticate(r) ==
  /\ AtStatement(r, "authenticate")
  /\ LET u == req[r].user
         joined == {t \in db.teams : db.role[t][u] # 0}
     IN IF \/ db.accounts[u] \notin {"local", "admin"}
           \/ joined = {} /\ db.accounts[u] # "admin"
          THEN Refuse(r)
          ELSE /\ \E t \in {req[r].team} \cup (IF joined = {} THEN {DefaultTeam} ELSE joined) :
                    req' = [req EXCEPT ![r] =
                      [@ EXCEPT !.team = t, !.at = req[r].at + (IF req[r].cookie = Nobody THEN 3 ELSE 1)]]
               /\ UNCHANGED <<db, disk>> /\ Kept

\* sso_start: a new state, remembered in the memory of the process only.
SsoStart(k) ==
  /\ token[k] = "unused"
  /\ token' = [token EXCEPT ![k] = "pending"]
  /\ UNCHANGED <<db, disk, req, expired, lastWriter, signedOut, void, crashes>> /\ LedgerKept

\* sso_callback looks the state up and takes it out in two calls; the second
\* does not mind that another callback has taken it.
CheckState(r) ==
  /\ AtStatement(r, "state")
  /\ IF token[req[r].token] = "pending"
       THEN Advance(r) /\ UNCHANGED <<db, disk>> /\ Kept
       ELSE Refuse(r)

PopState(r) ==
  /\ AtStatement(r, "pop")
  /\ token' = [token EXCEPT ![req[r].token] = "spent"]
  /\ Advance(r)
  /\ UNCHANGED <<db, disk, expired, lastWriter, signedOut, void, crashes>> /\ LedgerKept

\* oidc_exchange_code: the identity provider vouches for the user or does not.
Exchange(r) ==
  /\ AtStatement(r, "exchange")
  /\ \/ Advance(r) /\ UNCHANGED <<db, disk>> /\ Kept
     \/ Refuse(r)

-----------------------------------------------------------------------------
(* Accounts, memberships and sessions *)

\* Mutant: the user is taken to exist.
FindAlways(r) ==
  /\ AtStatement(r, "find")
  /\ Known(r, TRUE)
  /\ UNCHANGED <<db, disk>> /\ Kept

\* SELECT user_id FROM users: is the name taken?
Find(r) ==
  /\ AtStatement(r, "find")
  /\ Known(r, db.accounts[req[r].user] # "none")
  /\ UNCHANGED <<db, disk>> /\ Kept

AccountOf(kind) ==
  IF kind = "setup" THEN "admin" ELSE IF kind = "sso" THEN "sso" ELSE "local"

\* INSERT INTO users, unless the SELECT found the user; the name is UNIQUE.
\* add_team_member wants a password for a new user.
InsertAccount(r) ==
  /\ AtStatement(r, "account")
  /\ \/ /\ req[r].known
        /\ Advance(r) /\ UNCHANGED <<db, disk>> /\ Kept
     \/ /\ ~req[r].known
        /\ db.accounts[req[r].user] = "none"
        /\ db' = [db EXCEPT !.accounts = [@ EXCEPT ![req[r].user] = AccountOf(req[r].kind)]]
        /\ Advance(r) /\ UNCHANGED disk /\ Kept
     \/ /\ ~req[r].known
        /\ db.accounts[req[r].user] # "none" \/ req[r].kind = "add_member"
        /\ Refuse(r)

\* INSERT (OR REPLACE) INTO team_members: an SSO sign-in, too, overwrites the
\* role an administrator has given.
InsertMember(r) ==
  /\ AtStatement(r, "member")
  /\ LET t == req[r].team
         u == req[r].user
     IN /\ db' = Reporting([db EXCEPT !.role = [@ EXCEPT ![t] = [db.role[t] EXCEPT ![u] = req[r].role]]],
                           r, "member")
        /\ lastWriter' = [lastWriter EXCEPT ![t] = [@ EXCEPT ![u] = r]]
  /\ Advance(r)
  /\ UNCHANGED <<disk, token, expired, signedOut, void, crashes>> /\ LedgerKept

\* create_session: a random id.
InsertSession(r) ==
  /\ AtStatement(r, "session")
  /\ db' = Reporting([db EXCEPT !.sessions =
                        [@ EXCEPT ![r] = [user |-> req[r].user, team |-> req[r].team]]],
                     r, "session")
  /\ Advance(r) /\ UNCHANGED disk /\ Kept

\* Mutant: sign-out only clears the cookie.
DropSessionNot(r) ==
  /\ AtStatement(r, "drop")
  /\ db' = Reporting(db, r, "drop")
  /\ Advance(r) /\ UNCHANGED disk /\ Kept

\* delete_session: sign-out goes on in the same way when the session is gone
\* already.
DropSession(r) ==
  /\ AtStatement(r, "drop")
  /\ LET gone == db.sessions[req[r].cookie] = NoSession IN
       /\ db' = IF gone THEN db
                ELSE Reporting([db EXCEPT !.sessions = [@ EXCEPT ![req[r].cookie] = NoSession]],
                               r, "drop")
       /\ void' = IF gone /\ Effect[req[r].kind] = "drop" THEN void \cup {r} ELSE void
  /\ Advance(r)
  /\ UNCHANGED <<disk, token, expired, lastWriter, signedOut, crashes>> /\ LedgerKept

-----------------------------------------------------------------------------
(* Requests of a signed-in user *)

\* Mutant: the LEFT JOIN forgets tm.team_id = s.team_id.
RankAnywhere(d, s) ==
  IF d.accounts[s.user] = "admin" THEN Administrator
  ELSE CHOOSE n \in Ranks :
         /\ \E t \in Teams : n = d.role[t][s.user]
         /\ \A t \in Teams : n >= d.role[t][s.user]

\* get_session and effective_role: the role is read anew for each request; a
\* platform administrator is one in every team, a user without a row a viewer.
RankIn(d, s) ==
  IF d.accounts[s.user] = "admin" THEN Administrator
  ELSE IF d.role[s.team][s.user] # 0 THEN d.role[s.team][s.user] ELSE Viewer

\* require_principal and require_csrf: the row of the session, its age, its
\* role, and the token of the page.  An expired session is deleted on sight.
Authorise(r) ==
  /\ AtStatement(r, "authorise")
  /\ LET sid == req[r].cookie
         s   == db.sessions[sid]
     IN \/ Refuse(r)   \* no such session, or another CSRF token than its own
        \/ /\ s # NoSession /\ sid \in expired
           /\ req' = [req EXCEPT ![r] = [@ EXCEPT !.kind = "purge", !.at = 1]]
           /\ UNCHANGED <<db, disk>> /\ Kept
        \/ /\ s # NoSession /\ sid \notin expired
           /\ RankIn(db, s) >= Needs(req[r].kind)
           /\ req' = [req EXCEPT ![r] =
                [@ EXCEPT !.at = req[r].at + 1, !.actor = s, !.rank = RankIn(db, s)]]
           /\ UNCHANGED <<db, disk>> /\ Kept

\* create_team: a new row.  upsert_sso_provider and add_destination have the
\* same statements, for rows that nothing modelled here reads.
Write(r) ==
  /\ AtStatement(r, "write")
  /\ db' = Reporting([db EXCEPT !.teams = @ \cup {req[r].team}], r, "write")
  /\ Advance(r) /\ UNCHANGED disk /\ Kept

\* except Exception: ROLLBACK, of whatever the connection has in its transaction.
RollBack(r) ==
  /\ open' = FALSE
  /\ decided' = {}
  /\ void' = void \cup decided
  /\ End(r, "refused")
  /\ UNCHANGED <<db, disk, token, expired, lastWriter, signedOut, crashes>>

\* grant_approval and deny_approval: BEGIN IMMEDIATE fails inside the
\* transaction of another decision, or on the lock of another process.
Begin(r) ==
  /\ AtStatement(r, "begin")
  /\ \/ RollBack(r)
     \/ /\ ~open
        /\ open' = TRUE
        /\ Advance(r)
        /\ UNCHANGED <<db, disk, decided, token, expired, lastWriter, signedOut, void, crashes>>

\* The approval is not PENDING, or both its rows are updated: in a new
\* transaction if another decision has ended the one r began.
Decide(r) ==
  /\ AtStatement(r, "decide")
  /\ \/ RollBack(r)
     \/ /\ open' = TRUE
        /\ decided' = decided \cup {r}
        /\ Advance(r)
        /\ UNCHANGED <<db, disk, token, expired, lastWriter, signedOut, void, crashes>>

\* commit() on the ledger's connection, of whoever's decisions; of nothing, and
\* without an error, if they were rolled back.
Save(r) ==
  /\ AtStatement(r, "save")
  /\ open' = FALSE
  /\ decided' = {}
  /\ db' = [db EXCEPT !.changed = @ \cup decided]
  /\ disk' = [disk EXCEPT !.changed = @ \cup decided]
  /\ Advance(r)
  /\ UNCHANGED <<token, expired, lastWriter, signedOut, void, crashes>>

InsertAudit(r) ==
  /\ AtStatement(r, "audit")
  /\ db' = [db EXCEPT !.trail = @ \cup {r}]
  /\ Advance(r) /\ UNCHANGED disk /\ Kept

\* Mutant: the commit is left to whoever commits next.
CommitLater(r) ==
  /\ AtStatement(r, "commit")
  /\ Advance(r) /\ UNCHANGED <<db, disk>> /\ Kept

\* commit() ends the one transaction of the connection, whoever wrote in it.
Commit(r) ==
  /\ AtStatement(r, "commit")
  /\ disk' = db
  /\ Advance(r) /\ UNCHANGED db /\ Kept

\* The response leaves; a purge answers 401.
Answer(r) ==
  /\ req[r].status = "running"
  /\ req[r].at = Len(Script[req[r].kind]) + 1
  /\ End(r, IF req[r].kind = "purge" THEN "refused" ELSE "ok")
  /\ signedOut' = IF req[r].kind \in {"login", "logout"} /\ req[r].cookie # Nobody
                    THEN signedOut \cup {req[r].cookie} ELSE signedOut
  /\ UNCHANGED <<db, disk, token, expired, lastWriter, void, crashes>> /\ LedgerKept

-----------------------------------------------------------------------------
(* Time and faults *)

Expire(s) ==
  /\ s \in Ageing \ expired
  /\ db.sessions[s] # NoSession
  /\ expired' = expired \cup {s}
  /\ UNCHANGED <<db, disk, req, token, lastWriter, signedOut, void, crashes>> /\ LedgerKept

\* The plane dies and is started again: requests, SSO states and what was not
\* committed are gone.
Crash ==
  /\ crashes < MaxCrashes
  /\ crashes' = crashes + 1
  /\ db' = disk
  /\ open' = FALSE
  /\ decided' = {}
  /\ req' = [r \in Requests |->
       IF req[r].status = "running" THEN Over(r, "lost") ELSE req[r]]
  /\ token' = [k \in Tokens |-> IF token[k] = "pending" THEN "spent" ELSE token[k]]
  /\ UNCHANGED <<disk, expired, lastWriter, signedOut, void>>

Statement(r) ==
  \/ Configured(r) \/ InsertTeam(r) \/ Authenticate(r)
  \/ CheckState(r) \/ PopState(r) \/ Exchange(r)
  \/ Find(r) \/ InsertAccount(r) \/ InsertMember(r)
  \/ InsertSession(r) \/ DropSession(r)
  \/ Authorise(r) \/ Write(r)
  \/ Begin(r) \/ Decide(r) \/ Save(r)
  \/ InsertAudit(r) \/ Commit(r)

Next ==
  \/ \E r \in Requests : Arrive(r) \/ Statement(r) \/ Answer(r)
  \/ \E k \in Tokens : SsoStart(k)
  \/ \E s \in Sids : Expire(s)
  \/ Crash

Spec == Init /\ [][Next]_vars

-----------------------------------------------------------------------------
(* Properties *)

Request ==
  [status : {"idle", "running", "ok", "refused", "lost"}, kind : Kinds, at : Nat,
   user : Users \cup {Nobody}, team : Teams \cup {Nobody}, role : Ranks,
   token : Tokens \cup {Nobody}, cookie : Sids \cup {Nobody}, known : BOOLEAN,
   actor : Session, rank : Ranks]

TypeOK ==
  /\ db \in Database
  /\ disk \in Database
  /\ req \in [Requests -> Request]
  /\ open \in BOOLEAN
  /\ decided \subseteq Requests
  /\ token \in [Tokens -> {"unused", "pending", "spent"}]
  /\ expired \subseteq Sids
  /\ lastWriter \in [Teams -> [Users -> Requests \cup {Nobody}]]
  /\ signedOut \subseteq Sids
  /\ void \subseteq Requests
  /\ crashes \in 0..MaxCrashes

\* However set-ups overlap, with each other and with crashes, there is one
\* initial administrator: setup_initial_admin checks and inserts in separate
\* statements, and only the fixed key of the default team tells two apart.
OneSetUp ==
  \A d \in {db, disk} : \A u, v \in Users :
    d.accounts[u] = "admin" /\ d.accounts[v] = "admin" => u = v

\* What refers to a user refers to one that exists, also after a crash that
\* kept what another request's commit had made durable: no foreign key says so,
\* only the order of the statements of provision_sso_user and add_team_member.
NoDanglingRows ==
  \A d \in {db, disk} :
    /\ \A t \in Teams, u \in Users : d.role[t][u] # 0 => d.accounts[u] # "none"
    /\ \A s \in Sids : d.sessions[s] # NoSession => d.accounts[d.sessions[s].user] # "none"

\* Once a sign-out, or a sign-in that replaces a session, has been answered,
\* that session never works again, whatever crashes or is committed later.
SignedOutStaysOut ==
  \A s \in signedOut : db.sessions[s] = NoSession /\ disk.sessions[s] = NoSession

\* The audit log tells the truth as far as the code lets it: each row on disk
\* reports a change of that request that is on disk, and each request that was
\* answered has its row.  Two kinds of rows report nothing: that of a sign-out
\* whose session was gone already, and that of a decision which the ROLLBACK of
\* another, overlapping one took back between its UPDATE and its commit.
AuditTellsChanges ==
  /\ disk.trail \subseteq disk.changed \cup void
  /\ \A r \in Requests : req[r].status = "ok" => r \in disk.trail

\* add_member told its caller that u has this role in t, and nobody has
\* touched the row since.
Promised(t, u) ==
  \E r \in Requests :
    /\ lastWriter[t][u] = r
    /\ req[r].status = "ok" /\ req[r].kind = "add_member"

\* r is authorised now, with the role that was promised.
AuthorisedAnew(r) ==
  LET s == req'[r].actor IN
    /\ req[r].actor = NoSession /\ s # NoSession
    /\ Promised(s.team, s.user)
    /\ db.accounts[s.user] # "admin"
    => req'[r].rank = req[lastWriter[s.team][s.user]].role

\* From the answer of add_member on, every request of that user in that team
\* is authorised with the new role: none is cached, and no crash revives the
\* old one.
RoleChangeTakesHold == [][\A r \in Requests : AuthorisedAnew(r)]_vars
=============================================================================
