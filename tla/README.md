# Verification of sqube-agent-control

Specifications, model-checking runs and proofs for the repository in `../src`: a
runtime that lets an AI agent perform an action only after a policy, and where
needed a human, has allowed it; a ledger of what was done; and a control plane that
collects these records. Paths below are relative to `src/src/sqube_agent_guard`
unless they say otherwise.

## 1. The system

| Component | State | Operations | Talks to |
|---|---|---|---|
| Execution engine (`execution/engine.py`) | none of its own; local variables of each call | `run_controlled`, `resume_after_approval`, `cancel_execution` | store, policy, approval provider, sinks, the guarded function |
| Lifecycle (`execution/state_machine.py`) | constant table | `assert_transition` | called by the store |
| Execution store (`ledger/store.py`) | SQLite: `execution_records`, `idempotency_keys`, `approval_requests`, `execution_events` | compare-and-set of a status, append of an event, grant / deny / consume transactions | engine, CLI, control plane |
| Export (`export/*`, `platform_events.py`) | SQLite `export_queue`; exporter thread | sink `emit`, `enqueue`, `flush_once`, `mark_exported` | ledger (reads), plane (HTTP) |
| Plane store (`control_plane/store.py`) | SQLite `ingested_events`, `cp_executions`, `agents`, `policies`, one connection shared by all request threads | `ingest_events_batch`, the projection, agents and policies | bus, webhooks, ledger |
| Event bus, SSE (`control_plane/event_bus.py`, `api.py`) | replay deque, sequence, wake-up flag | `publish_sync`, `replay_after`, `wait_for_updates` | browsers |
| Webhooks (`control_plane/webhooks.py`) | destinations, deliveries | `deliver` | external HTTP |
| Identity (`control_plane/identity.py`, `access.py`, `rbac.py`, `sso_oidc.py`) | users, teams, sessions, OIDC states, audit log | setup, sign-in, sessions, roles | API |
| Policy (`policy/engine.py`, `bundle.py`, `authority/delegation.py`) | immutable | `evaluate`, `allows_action` | engine |
| Approval prompt (`approval/*`) | a reader thread per prompt | `request` | terminal |
| Telemetry (`telemetry/otel.py`) | open spans by execution | `emit` | OpenTelemetry |
| Node and Rust runtimes (`../../nodejs`, `../../rust`) | the same tables | the same lifecycle | the same contract (`tests/contract/V1_SYNC_SEMANTICS.md`) |

The hard behaviours are these:

* One execution is worked on by several processes that meet only in the ledger: the
  requesting thread, a resuming one, `cancel` and the operator's `grant` and `deny`.
  Each store call commits by itself; nothing locks an execution across calls.
* Record, event, approval row and idempotency key are different commits, and a
  process may die between any two of them.
* Deadlines and prompt time-outs race the answers they wait for.
* Export is at-least-once over a network that loses answers, into a plane whose
  request threads share one connection, so a commit of one commits all.
* Timestamps have whole seconds, and events are ordered by them.
* The plane's handlers run in a pool of threads over one connection: each of their SQL
  statements is visible to every request at once, and durable as soon as anyone
  commits. A check and the statement it was made for are separate steps.
* Streams share one wake-up flag and clear it after waiting; webhooks are posted between
  storing an event and committing it.
* Policies are data that two runtimes read with two programs.

What makes each part correct, beyond its types: an execution is called at most once,
with the recorded parameters, only when authorised, never when it was stopped; the
approval row and the record agree; the ledger tells the outcome. Events are linked
within their execution and read back in order. An exported event is durable on the
plane, published once, shown, sent to the streams that are open and posted to the
destinations that want it. There is one initial administrator; a session is good until its
sign-out and for the role its user has now; the audit log tells what was changed. A
reference to a policy version resolves, and a hash identifies its bundle. A bundle means
what it says, to both runtimes.

`PROJECT.json` lists the hazards at their lines, with the properties that would
catch each one, and those that no property covers yet.

## 2. Modules

    StateMachine            statuses and transitions
      ExecutionContract     what a controlled execution promises (abstract)
      ExecutionEngine       engine and store, one store call per step
        ExecutionEngineInvariant   the inductive invariant
          ExecutionEngineProofs    theorems about rows, calls and ledger; the refinement
          MCExecutionEngine        instances for TLC
        EngineLocking              the engine over a store whose write lock may stay held
          MCEngineLocking
    ApprovalDecisions       atomic approval and execution rows (abstract)
    SharedStore             the approval transactions, one SQL statement per step
      SharedStoreInvariant, SharedStoreProofs, MCSharedStore
    EventChain              append_event and get_events, one statement per step
      EventChainInvariant, EventChainProofs, MCEventChain
    EventExport             sink, queue, exporter, ingestion, projection
      EventExportInvariant, EventExportProofs, MCEventExport
    PlaneAccess             set-up, sign-in, sessions, roles, audit log
      PlaneAccessInvariant, PlaneAccessProofs, MCPlaneAccess
    PolicyRegistry          versions, hashes, the active version, agents
      PolicyRegistryInvariant, PolicyRegistryProofs, MCPolicyRegistry
    EventBus                replay buffer, wake-up flag, the generators of streams
      EventFanout           handlers that store, publish, post and commit; composes the bus
        EventFanoutInvariant, EventFanoutProofs, MCEventFanout
    PolicyBundles           bundles as Python and Node.js load and evaluate them
      PolicyBundlesProofs, MCPolicyBundles

### ExecutionEngine

Variables are the columns that decide something (`status`, `decision`,
`approved_by` as a Boolean, `parameters_hash`), the other three tables, the set of
approvals whose deadline has passed, and per thread the next step, the execution and
the parameters of its context. `calls` and `replayed` are history: with which
parameters the guarded function was called, and which executions a caller was told
had succeeded. Every store call that writes is one action; the control flow between
two of them belongs to the action before it. `Transition` is
`transition_execution`: it applies when the row still has the expected status, and
otherwise the thread raises. Grant, deny and consume are `BEGIN IMMEDIATE`
transactions and are one step each; a transaction that would raise changes nothing
and is left out as a stutter.

Choices worth knowing:

* Each thread has a store connection of its own (threads may be in different
  processes). Threads that share one connection share its transaction too, and a
  transaction is more than one step: `SharedStore` is about both.
* `Crash` covers a process that dies, a store call that raises (`database is
  locked`) and a guarded function that ends in a `BaseException`: in each the call
  is left where the last commit put it. Its slot in `Threads` then serves another
  caller.
* Ids may be submitted again, so the `INSERT` of a record may fail.
* The policy, the delegation check, the provider and the guarded function (with its
  interceptors) return any of their outcomes. Sinks swallow every exception and
  cannot affect the engine.
* A resume that is refused before it writes (other parameters, illegal status) is a
  stutter.
* `ApprovalMode` is a function of the execution: a process configures one engine as
  sync or deferred, and an id is run by one engine.

`ExecutionContract` has the status, the set of authorised executions and the number
of calls. The refinement maps "authorised" to "an ALLOW that a policy took and that
was logged as POLICY_EVALUATED, or an approver".

### EngineLocking

The engine with the write lock of its SQLite file. Python opens a transaction before a
statement that writes; where the statement is refused, because a row has moved on or a key
is taken, `transition_execution`, `upsert_execution_record` and `register_idempotency` leave
it open, and with it the lock, until the connection next commits (`holder`). Until then
a write on any other connection waits for five seconds and raises, in whatever call it is
(`GiveUp`). Each step is one of `ExecutionEngine` with what it does to the lock, and a call
that gives up is one of its crashes, so the safety of the engine is not in question here;
whether executions come to an end is. `cutShort` collects the executions whose
own call gave up after the record was inserted. A call that timed out leaves its
connection in a transaction without the lock; what follows from it, a `BEGIN IMMEDIATE`
that is refused or a read that is out of date, makes the first writing statement of
a later call fail, and `GiveUp` allows that of every first statement.

### SharedStore

The rows of `approval_requests` and `execution_records` as they are on disk, what each
connection's open transaction sees of them, and per thread the next SQL statement of
its call. `ConnectionOf` says which threads share a store object. What it keeps of
SQLite and of python's `sqlite3`:

* The database has one write lock, held by the connection whose `tx` is not
  `NoTransaction`. `BEGIN IMMEDIATE` and the first `UPDATE` of a transaction wait for
  it and may give up.
* `BEGIN IMMEDIATE` within a transaction is an error, and the handler then runs
  `ROLLBACK`, which ends the transaction of the connection whichever thread began it.
* Python opens a transaction before an `UPDATE`. An `UPDATE` that matches no row still
  takes the lock, and one that does not get the lock leaves the transaction begun
  (`begun`): `transition_execution` raises from both without a rollback.
* `commit()` with nothing to commit succeeds in silence.

`grant`, `expire`, `deny` and `consume` are the transactions, `cancel_*` and `finish`
the compare-and-sets of `transition_execution`; `expire` is a grant that finds the
deadline passed, an input of `Select`. `AppendEvent` is the `append_event` that follows
a consumption, a cancellation and an outcome: a statement that needs the lock and a
`COMMIT` that ends whatever is open on the connection; its rows are `EventChain`'s. `Die`
ends the process of a connection, and with it all of its threads. Executions begin
with their approval requested. The reads that `resume_after_approval` and
`cancel_execution` make first are left out: a call may start in any state, and the
compare of its own statement decides. The outcome of a function is its success.

`ApprovalDecisions` is the same two rows changed by whole decisions. That `SharedStore`
implements it when every thread has its own connection is what allows
`ExecutionEngine` to take grant, deny and consume as one step each.

### EventChain

The rows of `execution_events` in order of insertion, a clock in seconds, and per
writer the timestamp and predecessor it holds. A hash covers a fresh random
`event_id`, so it stands for its row. The engine takes the time before it calls
`append_event`, often before the transition as well; `Stamp` and `SelectPrevious` are
separate steps. For `ORDER BY timestamp DESC LIMIT 1` SQLite sorts stably and
returns the first inserted of the rows that tie. A
timestamp that the caller puts in the context itself is not modelled.

### EventExport

The status of an execution is its position in the lifecycle, a number; the event of position
`n` of `x` is `<<x, n>>`. `Pinned` holds the positions whose event type alone determines the
projected status (the outcomes); for the others the projection takes the status that the
sink read, which may be a later one. `queue` keeps every row, `exported` is the set of
events with an `exported_at`. On the plane one SQL statement is one step; `tables` is what
the connection sees, `disk` what is committed. `Abandon` is what time-out and restart of the
agent share: the request goes on at the plane while nobody waits for it. `PlaneCrash` loses
what is not committed, and may end the exporter thread, since a reset connection is not
among the exceptions that `flush_once` catches. `CommitElsewhere` is any other handler of
the plane that commits on the connection they share, a sign-in or an audit row: it makes
durable whatever half of a batch is in the tables, an event without its projection included.
A refused or failed POST is a stutter. `_next_stream_seq` is its commit; what happens
between the `INSERT` and the commit of an event is the subject of `EventFanout`. Rejected
events (missing fields) and the flush of `shutdown` beside a running loop are not modelled.
The latter overlaps requests in the way an abandoned one does.

### PlaneAccess

`Script` gives the statements of each kind of request in the order the code executes
them, and a request stands at one position of its script. `db` is what the connection
sees, `disk` what is committed: `Commit` copies all of `db`, whoever wrote it, and
`Crash` goes back to `disk`. A handler that raises (`Refuse`) rolls nothing back, as in
the code. A role is a number, 0 for no row in `team_members`. `changed` is history: the
requests whose change is in the tables, for comparison with `trail`, the audit log.

* A request opens at most one session, so a session is named after the request that opened
  it; the others exist at the start. A session is usable by a browser that was handed
  its cookie (`Handed`).
* `Authenticate` takes the team the request names without comparing it with the
  memberships, as `login` does. `Authorise` is `require_principal` and `require_csrf`: it
  reads the role anew, and turns the request into a purge when the session is too old.
* An SSO callback looks its state up and takes it out in two steps, and writes the default
  role over the one the user has. The identity provider may refuse. That the
  provider is still enabled is not looked at by the callback, and is left out.
* A decision is a transaction on the ledger's one connection (`Begin`, `Decide`, `Save`),
  which all handlers share like the plane's. A `BEGIN IMMEDIATE` within the transaction of
  another decision is refused, and the `ROLLBACK` that follows ends that transaction: the
  other handler then commits nothing, answers, and writes its audit row. `open` and `decided`
  are that connection's transaction, `void` collects the decisions that were rolled back, and
  the sign-outs whose `DELETE` matched no row, which are audited as well.
* `write` stands for the three configuring routes, whose statements have the same order.

The initial databases are any that satisfy `Sound`.

### PolicyRegistry

The same form: scripts, one connection, commits and crashes. Rows of different policies
never meet, so one policy is modelled. A bundle stands for its SHA-256. `named` is the one
bit that decides whether a reference has been looked up: `register_agent` takes the version
of the request as it is, and only a version filled in by the plane, or checked by
`assign_agent_policy`, is promised to exist. `mixed` collects the versions whose
registrations overlapped between bundle and hash, or broke off there: of these the hash
may be that of another bundle. `publishedBy` is history: which request last wrote the bundle
and which the hash of a version.

### EventBus and EventFanout

`EventBus` is `publish_sync`, the deque, and one generator per stream. Listing the buffer
is two steps, since an append meanwhile ends the iteration with an error that cuts the
stream; the increment and the append of `publish_sync` are one, because CPython, from 3.10
on, does not switch threads between them. A build without the global lock is not
covered. A client keeps the last id it saw; it may come back with it, or without, as the
dashboard does, and after a restart that id may be greater than any the plane has given.
Such a stream is `stale` until it is opened anew: the sequence of the plane has to pass
its id before it is sent anything.

`EventFanout` is the handler around it: `Store`, `Publish`, `Announce`, then per
destination `Look`, `Post`, `Record`, then `Commit`. It extends `EventBus` and each of its
actions says what it does to the bus. `Post` distinguishes what the destination did
(`took`) from what the plane learned. A time-out while the answer is awaited is a
`TimeoutError`, which neither `_post` nor `deliver` catches: later destinations are not
posted to (`slow`). Announcements have no id, so all of one type (`TypeOf`: `agent.registered`
or `policy.changed`) share one key, and one that is delivered suppresses the next of its
type. `acks` and `torn` are history: how often a
destination took an event, and how many crashes came between the POST and its record.

### PolicyBundles

JSON objects are records, and `DOMAIN` tells the keys that are present; strings are members
of small sets with the relations the comparisons need (`Starts`, `Inside`, `Wildcard`). What
`str` and `String` make of a value is `PyText` and `NodeText`, and what is left of a prefix
is `PyStrip` (`rstrip` takes all slashes) and `NodeStrip` (the regular expression takes
one). `PyForm` and `NodeForm` say whether a `when` is a list of parts or a leaf: an empty
object in the place of a list is an empty list to Python and nothing to Node.js. Each
runtime loads the bundle and evaluates a rule per step, and keeps the decisions of those
that matched as a set, since the merge asks only which are among them. `Matches` and
`NodeMatches` are the conditions as the two programs build them; `Written` is the reference:
every key counts. All three are recursive functions over `Conditions`, the `when` objects of
the bundles with those nested in them. `Join` is the recursion of ALL and ANY that both
runtimes share, `Throughout` the one of what must hold of every object that is looked at.

## 3. Runs

| Run | Shows |
|---|---|
| `engine_safety` | Two executions under one key, one deferred and one sync, three threads that may die, two parameter values, `fail_closed`: the safety properties, the inductive invariant `EngineInv` and the refinement of `ExecutionContract` |
| `engine_liveness` | `EngineLocking`, two connections whose refused calls leave the store locked, `fail_open`: every execution settles, but for those whose own call met such a lock |
| `store_processes` | Three processes on one execution, with lock time-outs, transactions left open and crashes: one-time consumption, answers that hold, the inductive invariant, and the refinement of `ApprovalDecisions` |
| `store_threads` (violation) | Two threads on one store object consume one approval twice |
| `chain_tree` | One execution shared by two threads, one owned by one: the tree and the order of reading |
| `export_safety` | Overlapping requests, one abandoned, one crash, any number of clean restarts of the plane, a queue of two: the safety properties and the inductive invariant `PipelineInv` of the whole pipeline |
| `export_liveness` | The queue drains, with a plane that comes and goes and is reachable in the end |
| `export_lost_response` (violation) | One late response blocks the head of the queue |
| `access_sessions` | Overlapping set-ups, sign-ins, sign-outs, SSO callbacks, role changes and decisions that may be rolled back by one another, with a session that expires and a crash: one initial administrator, no dangling rows, no session after its sign-out, an audit log that is true but of decisions rolled back, roles that take hold |
| `registry_versions` | Overlapping registrations and assignments with a crash: references resolve, a hash identifies its bundle, answers are durable and audited |
| `fanout_streams` | Overlapping handlers, two streams or two destinations or three messages, a buffer of two, with a lost connection or a crash: deliveries are accounted for; nothing that the buffer has is skipped, repeated or out of order; streams catch up with the newest message unless their id is from before a restart |
| `policy_runtimes` | Lists of up to two rules: Python decides as written, and both runtimes agree on what they read alike |

### Bounds

Three threads are the most that one execution meets in distinct roles at a time: the one
that requests, one that resumes or cancels, and another that resumes as well or
submits the id again; operators are not bounded. Two executions are needed for
a shared key, and two parameters for a resume with the wrong ones. The engine model
has no counters: every status moves forward only, so its state space is finite
without a bound. In `SharedStore` the executions share only the lock, so one
execution and three connections (one that holds the lock, one that was locked out, one
that comes later) show every conflict; it has no counter either. `MaxEvents` of five rows
allow a split in one execution beside a chain in the other; `MaxTime` three seconds give
ties and steps. Two request threads
overlap; a batch of two in a queue of two fills the queue and leaves partial
batches. `MaxAbandoned = 1` and `MaxCrashes = 1` allow each to fall at any place,
and both in one behaviour. Commits by other handlers are not bounded. In the liveness run of
`EventExport` both are zero: an abandoned request is
the subject of the violation run, and a crash may end the exporter for good.
`engine_liveness` needs one execution with a key that may be submitted again and one
without, which may be refused by its id, cancelled and resumed; two connections show a lock that is
left and one that is met.

`access_sessions` (some 1 030 000 states) serves three requests, two at a time: a conflict
is between two, and the third sees what they left or signs in with what they wrote. Two
users and two teams let a user have one role here and another there. Its three initial
databases are a plane never set up, one whose member signs in by SSO and holds a session,
and one whose administrator holds a session and whose member has a local account and no row
in the default team. One cookie, one OIDC state and one crash fall at any place.
`registry_versions` (900 000) has three requests, two at a time, two versions, two bundles
and an agent: registering the same version with two bundles, and moving the active version
away and back. `fanout_streams` (1 180 000) begins in one of three ways, since streams and
destinations never meet in a step: two messages and two streams, which are needed to steal
each other's wake-up; an event, an announcement and two destinations; or three messages and
one stream. Three messages and a buffer of two let a batch have an order and a listing come
after a message that the buffer has lost; there one stream is enough, since streams share
only the flag. `policy_runtimes` (420 000) takes 25
conditions that use every key, nest, carry keys nobody reads, end in one or two slashes,
hold a boolean or an empty object, or are wrong, nested up to two deep. Since rules meet
only in the merge, lists of two are enough, with every rule beside, in both orders, a few
partners of each decision and the rules that are malformed.

Deadlock checking is off in every run, since each system may rest: all executions
finished, all events exported, or a bound reached.

### Fairness

`EngineLocking!LockingSpec` has weak fairness of the next step of each thread that is in a
call: threads run, the approval provider has a time-out, policy and guarded function are
assumed to return, and a connection waits five seconds for the lock. That the lock comes
free is not assumed: nobody is obliged to use again a connection that holds it, and the
calls that meet it raise. Hence the exception in `EveryExecutionSettles`, without which it
is false: a cancellation or a retry that comes too late may leave the running execution
APPROVED or EXECUTING for ever. No fairness is assumed of callers, operators or the clock,
so a deferred execution may wait for ever, as `EveryExecutionSettles` allows.
`EventExport!FairSpec` is weak fairness of the exporter loop, which wakes up at least every
sixty seconds, and of each request thread. That the plane becomes reachable is the premise
of the liveness properties, not a fairness condition. `EventFanout!Fairness` is weak
fairness of each handler that has started and of each open stream: the pool schedules its
threads, `_post` has a time-out of five seconds, and a wait ends after fifteen. Nothing
obliges an event to be ingested or a client to connect or to come back. `StreamsCatchUp`
says that a stream that stays connected has, in the end, been sent all up to the newest
message; if its id is from before a restart it says only that there is nothing above that id
left to send, which may be nothing at all of what is published. It rests on the fifteen seconds: a
stream may clear the flag that was set for another, and without the time-out (the mutant)
the other waits for ever.

### Properties restricted on purpose

`ExportedIsVisible` and `NeverShowsThePast` speak of executions one thread works on and
of histories without an abandoned request (`Orderly`). Outside of these the
projection is last-writer-wins and does go back: two requests that interleave may
write in either order, and two threads on one execution may enqueue in either order.
`NeverShowsThePast` excludes the step in which the plane dies, since the projection on
its connection may not have been committed.

`HashIdentifiesBundle` speaks of versions that are not `mixed`. `DeliveriesAccountedFor`
speaks of ingested events, allows one more delivery per crash between POST and record, and
promises no row behind a time-out. `AuditTellsChanges` exempts two kinds of audit rows:
those of decisions that the `ROLLBACK` of another request took back, and those of sign-outs of
a session that was gone. `RuntimesAgree` speaks of bundles that Python accepts and that
both runtimes read alike: they use neither environments nor resource patterns, no value
whose `str` and `String` differ (a boolean, null), no prefix of which the two leave
different remains (one that ends in two slashes), and no empty object in the place of a
list. `action_in` is taken to be a list, of anything else Node.js raises.
`RoleChangeTakesHold` is about
requests that authorise after the answer of `add_member`; one that authorised before it
finishes with the role it had.

## 4. Proofs

All proofs hold for every value of the constants. The assumptions are
`EngineAssumption`, `StoreAssumption`, `ChainAssumption`, `ExportAssumption`,
`AccessAssumption`, `RegistryAssumption`, `BusAssumption`, `FanoutAssumption` and
`BundleAssumption`: domains of the constants, databases that the plane itself may have left
behind, for `EventExport` that there are finitely many threads and at least one, and for
`PolicyBundles` that rules are a list and each condition has a depth, greater than that of the
conditions nested in it, since a JSON document is finite. Four theorems need
`OnError = "fail_closed"`: `AuthorisedBeforeCall`, `EngineImplementsContract` and the two drawn
from it, `EngineKeepsPromises` and `EngineOutcomeIsFinal`. Those about
`SharedStore` need that no two threads have the same connection (`OwnConnections`), without
which `store_threads` refutes `ConsumedOnce`.

**ExecutionEngine.** None of the properties is inductive: that a function is called
once follows only if a thread at `call` knows that the row is EXECUTING, that it
alone put it there, and that no call was made before. `IInv` says what each step of a
call knows of the rows. `DrivingInv`: a thread between the `INSERT` of the record
and its start is the only one there for its execution, and the early steps find the
row in one status. `RunningInv`: a thread between the transition to EXECUTING and the
outcome is alone as well. `CallsInv`, `ApprovalInv` and `KeyInv` relate the tables,
`ContextInv` the thread to its row. Uniqueness rests on the compare-and-set: two
threads cannot both find APPROVED. There is one lemma per action, and `LeaveInv`
is shared by all steps that end a call. From `Spec => []IInv` follow `AtMostOnce`,
`OncePerKey`, `RecordedParametersOnly`, `StoppedIsStopped`,
`ApprovalAndExecutionAgree`, `LoggedBeforeCall`, `ReplayTold` and
`AuthorisedBeforeCall`.

*The ledger.* Record and event are two commits, so whether an event agrees with the record
depends on who may still write it. `LedgerInv` says it: a thread at a step that logs an
outcome is the only such thread for its execution, the record has that outcome and the
ledger does not yet; ACTION_STARTED is in the ledger only of an execution that has started,
and not while a thread is about to log it; until `log_policy` no POLICY_EVALUATED is
logged, and an id without a record has none. What makes the writer unique is once more
the compare-and-set, and that an outcome has no successor in the lifecycle, which is
where `EngineInv == IInv /\ LedgerInv` needs both halves. `EngineInvariance` and
`LedgerIsTrue` hold for either `OnError`.

*The refinement.* `EngineImplementsContract` takes the steps one by one: a transition is the
contract's step along the lifecycle (a start when an approval is consumed), `call` its call,
an approval or the logging of an ALLOW its authorisation, and all others stutter. The mapped
`authorised` is read off the ledger and the record, and the contract lets an ALLOW come only
while the execution is EVALUATED and a start only after it: that an ALLOW the policy took
is what the ledger will show, and that no event written earlier or later says so, is `LedgerInv`
with `AuthorisedInv`. Under `fail_open` the theorem is false: a policy that raised is
followed by a call with nothing on record (section 5).

*What the contract is good for.* `Promises` is an inductive invariant of `ExecutionContract`
alone (`ContractPromises`): calls are counted to one at most, nothing is called or started without
an authorisation, SUCCEEDED means called. `OutcomeIsFinal` follows from it: no step leaves a
terminal status, or calls an execution that has one. The two lemmas are about steps of the
contract and use of the engine only that its statuses are in their domain; with the refinement
they give `EngineKeepsPromises` and `EngineOutcomeIsFinal`, and a port that implements the
contract has both by its own refinement.

**SharedStore.** That an approval is consumed once needs to know what an open
transaction sees. `ViewInv` says it for each statement: from `BEGIN IMMEDIATE` on, the
transaction of a thread is the disk plus exactly the columns it has written so far, and
the row still is where its compare found it. `RowInv` lists the pairs of approval and
status that are ever committed, so the status a transition compares fixes the approval
as well. `Alone` is the lemma that carries the proof: while one connection has a
transaction, no other thread is between two statements of one, so its `COMMIT`
cannot pull the disk from under them. `RunInv` and `CancelInv` cover a thread after
its `COMMIT`. A transaction left open by a refused transition holds no
change (`tx[c] \in {NoTransaction, disk}`), which is why the next call on that connection
may commit it unharmed. `ConsumedAtMostOnce`, `ToldIsTrue`, `NothingLeftBehind` and the refinement
`DecisionsAreAtomic` follow, and from the latter `DecidedStaysDecided`: a committed denial, expiry
or consumption is never taken back.

**EventChain.** `ChainInv` says what an appending thread knows although it looked its
predecessor up before others inserted. `WriterInv`: the predecessor it holds is a row of its
execution, or there is none and the thread is the one that starts the execution. That
makes the first event the only root: nobody else finds the table empty. `TreeInv` says that
`ORDER BY timestamp DESC LIMIT 1` has an answer as soon as there is a row, which an `INSERT`
with an earlier timestamp must keep true. `OrderInv`: where one thread appends, its clock reading
is no earlier than any row's. `OneTreeEver` and `ReadInOrderEver` follow.

**EventExport.** `ExportInv` adds to the types that at most one request is waited for
(`SenderInv`), that what a response will list as accepted is in the plane's tables,
and on disk once the response is due (`DeliveryInv`), and that an event between
`INSERT` and publication belongs to one request and is not published yet
(`PublishInv`). Commits by other requests only help; the one step that removes rows,
the loss of uncommitted work, also frees every request. `NothingExportedIsLost` and
`PublicationIsIdempotent` follow.

`PipelineInv` adds the rest of the way. `RoomInv`: pending rows and the sinks that have
counted and not inserted yet are together less than `MaxPending` and one for each thread,
from which `QueueStaysBounded` follows; the sum is over a finite set of threads, and an
`INSERT` moves one unit from one side to the other. The other two theorems are about the
order of events through five components. `QueueOrderInv`: the one thread that works on an
execution queues its events in their order, each with the status it records. `SerialInv`, as
long as no sender has given up: a request at work is the one waited for, hence alone, takes
the oldest rows in their order, and has in hand an event that is not ingested yet and not
earlier than what the projection shows. `ProjectionInv`: the ingested events of an execution
are its oldest rows, in the tables and on disk; the disk shows no later status than the
tables; and the status is at least that of each event that was listed as accepted, in the
tables, and on disk when the answer is due and ever after. Of an event that is on disk
without being answered it says nothing: another handler's commit may have brought it there
before its `UPDATE`. A crash loses the tail of that order and no gap opens.
`ExportedStaysVisible` and `NeverThePast`, the last an action property of every step but the
death of the plane, follow.

**PlaneAccess.** What a property says of the end of a request is not inductive: the
statements of others come in between. `AccessInv` says what the tables hold once a request
is past a statement of its script, and what the disk holds once it has committed after
it; no statement of another request undoes it (that is what the lemma for each action
shows), and `Crash`, which may, ends every request. The script is a constant, so lemmas about it
(`Positions`, `EndsReported`) turn a position into facts about what was passed.
`SetUpInv`: past `team`, a set-up alone has created the default team, which is why `INSERT`
into `teams` on a fixed key excludes a second administrator although the count of users
does not. `Sound`, of `db` and of `disk`, is preserved because an account is written
before the rows that name it and no statement deletes one. `SignOutInv`: a session dropped
is not inserted again, since its id belongs to a request that is past its script.
`AuditIsTrue` follows the change of a request from its statement to the disk; a decision is
on disk once `Save` has committed it, or was rolled back and is in `void` (`RollBackInv`).
`RoleInv` ties the row of a member to who wrote it last. `OneSetUpEver`,
`NoDanglingRowsEver`, `SignOutIsFinal`, `AuditIsTrue` and `RoleChangesHold`, the last an
action property of each step in which a request is authorised, follow.

**PolicyRegistry.** The same argument. `PendingInv`: the version a request will refer to has
a bundle, and a version is never unregistered. `HashInv`: bundle and hash of a version that
is not mixed differ only while its one registration stands between the two statements; on
disk until it has committed both, because another request may commit the first alone.
`PublishedInv`: bundle and hash of a version are as their last writers left them, each on
disk once that request has committed after it. `AttachedInv` and `ActivatedInv` follow the
last writer of a row through its commit.
`ReferencesAlwaysResolve`, `HashAlwaysIdentifies` and `AnswersAreDurable` follow.

**EventFanout.** `FanoutInv` says of each event and destination how often it was taken
and what the row says, by whether its handler has come to the destination, is at it, or has
left it behind (`Ahead`, `Behind`). An event that is busy, not durable and not between POST
and commit has been taken only as often as crashes have hit it: `Record` makes it durable, so
a second POST of an event that comes back needs a crash that counts. `KeyUnique` is the
lemma that no other event writes the row of an ingested one; it is false of announcements.
`EveryDeliveryAccounted` follows.

*The streams.* `StreamsInv`: the buffer holds the newest messages, each with the number
after the one before, and has dropped one only when full; what a generator has still to send
is consecutive and after what it has sent, and what lies between had left the buffer when it
was listed, hence for good. It holds of the batch of a stream whatever is published
meanwhile, since the batch is a copy. After a restart the buffer begins again at one and a
client may come back with an id from before: it is sent nothing until the sequence has
passed it, which is what the code does and what the property allows. `ReplayAfterIsTheRest`
is the lemma about the operator: `ReplayAfter` gives the part of the buffer behind the given
id, stated as a `SubSeq`, because what the recursive `SelectSeq` returns is out of the
prover's reach. `StreamsSkipNothing` follows, an action property of every step of the bus,
and `StreamsHoldABuffer`: what a stream has still to send never exceeds the limit of the
buffer, however slow its client.

**PolicyBundles.** The conditions are recursive functions, and a proof needs first that they
exist, or nothing is known of their values. `Fixpoint` shows it without looking at the
depth: a monotone map of truth-valued functions has a fixed point (the least one, as in the
theorem of Knaster and Tarski), and ALL and ANY are monotone in the values of the parts. The
`...Equation` lemmas then say that each function is what its definition says. What relates
two readings of a condition is shown by the counterexample of least depth (`LeastCondition`,
from `BundleAssumption`), none of whose parts is one: `WrittenMatches`, a condition that
holds as written matches in Python, since the keys that Python ignores could only have kept
it from matching; `PlainMatches`, the converse where no key is ignored; `PortableMatches`, a
condition that Python accepts matches in both runtimes or in none, where both read the same
form and the same text and there are no environments and no resource patterns;
`SameComparison` is its leaf. `BundlesInv` is the invariant of the steps: each runtime has
noted the decisions of just those rules before the one it is at whose conditions match, and
Python goes through a list only if it accepted all of it. With `MergeStrictest`, what the
merge makes of a set of decisions, `DecidesAsWrittenEver` and `RuntimesAgreeEver` follow,
for any number of rules and any depth.

**Model-checked only:** the liveness properties `EveryExecutionSettles`, `QueueDrains` and
`StreamsCatchUp`, since the prover has no rule for fairness and `ENABLED`, and the violations.
Every invariant, action property and refinement that a passing run checks is proved.

## 5. Where code and claims differ

Shown by a run:

* Threads that share a store object share its transaction: the `ROLLBACK` of a refused
  `BEGIN IMMEDIATE` undoes another thread's consumption, whose `commit()` succeeds
  regardless, and the approval is consumed and the function run again, against the
  "one-time approval consume" of `CHANGELOG.md` (`store_threads`).
* A lost or late response leaves its events pending for ever, and a full batch of
  them stops the export, against `website/docs/event-ingestion.md`
  (`export_lost_response`).

Met while modelling, and part of the models:

* `fail_open` lets an execution succeed with no recorded authorisation, against the
  invariant in `website/docs/architecture.md`; hence `CallsAuthorised` is about
  `fail_closed`.
* `resume_after_approval` checks the deadline outside the consuming transaction
  (`engine.py:255`).
* A refused statement leaves the write lock held (`ledger/store.py:178`, `316`, `350`): the
  retry of a request under its key, or a cancellation that comes too late, may make the
  running execution fail with "database is locked" after its function was called, and its
  record stays EXECUTING (`EngineLocking`).
* Of two decisions that overlap on the plane one may roll the other back, which is answered
  and audited all the same: the cause is that of `store_threads`
  (`control_plane/store.py:88`). A sign-out is audited for any cookie (`api.py:190`).
* A client that reconnects with its `Last-Event-ID` after a restart of the plane is sent
  nothing until the new sequence has passed that id (`api.py:468`), against "pushes
  execution/approval updates" of `website/docs/event-ingestion.md`: `StreamsCatchUp` exempts
  it (`stale`). The dashboard opens a new stream without an id.
* Another handler's commit may make an event durable without its projection
  (`control_plane/store.py:148`); after a crash it is a duplicate, and is neither shown nor
  marked exported.
* Events of one second form a tree and not a chain (`website/docs/concepts.md`).
* A crash of the plane after a commit that fell between two statements of the set-up leaves
  the default team without an administrator, and every later set-up fails on its key
  (`identity.py:151`).
* An SSO sign-in overwrites the role an administrator gave (`identity.py:239`), and a
  callback does not look at whether its provider is still enabled (`api.py:254`).
* `assign_agent_policy` on an agent that is not registered is audited and then refused
  (`store.py:395`). `register_agent` takes a version that does not exist (`store.py:275`),
  and registering an agent again without a policy detaches it.
* The policy hash of the engine covers the names of the rules only (`policy/engine.py:79`).
* A destination that answers too slowly keeps the later ones from being posted to
  (`webhooks.py:145`), and one delivered announcement suppresses all later ones of its type
  (`webhooks.py:88`).
* A publication during a listing ends the stream with an error (`event_bus.py:25`); each
  open stream parks a thread of the pool.
* "Node.js can load the same JSON" (`website/docs/policies.md`): it loads it, but passes
  only the parameters to a rule, so that an `environment` rule never matches; reads `x/*`
  literally; accepts a decision it does not know, which then counts as ALLOW; matches a rule
  whose keys it knows none of; takes one slash off a prefix where Python takes all; and
  writes `true` where Python writes `True`. Python ignores keys beside `all` and `any`, and
  unknown keys beside known ones.

## 6. Not modelled, and what is left

* **Node.js engine and Rust engine**: ports of the engine over the same tables, each worth
  a module with `ExecutionContract` as the property to implement or to fail.
* **Approval prompt**: reader threads that compete for one terminal. In
  `ExecutionEngine` an arbitrary answer or time-out.
* **Delegation**: a pure check; in `ExecutionEngine` an arbitrary outcome.
* **Telemetry**: its spans observe events and cannot affect an execution.
* **Reading of the ledger**: `verify_chain`, which recomputes hashes and compares no link.
* **Of the identity store**: `ensure_bootstrap`, the ingest API key, `auth_me` and the
  lists (which only read), and the SAML stub. `website/docs/control-plane-auth.md` is its
  documentation.
* **Of webhooks**: destinations that are added while events are delivered, and signatures.
* **Of policies**: files and YAML, and callables.

Left out for good: the dashboard and website, payload formatting, hashing and
redaction, and the HTTP and CLI layers, which call the modelled operations and keep no
state.

Worth proving when they are modelled: that the engines of the ports implement
`ExecutionContract`, which would give them `Promises` and `OutcomeIsFinal`.
