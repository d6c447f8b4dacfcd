------------------------- MODULE PolicyRegistryProofs -------------------------
(***************************************************************************)
(* Proofs about PolicyRegistry.                                            *)
(***************************************************************************)
EXTENDS PolicyRegistryInvariant, TLAPS

USE RegistryAssumption

-----------------------------------------------------------------------------
(* Where the statements stand in the scripts *)

\* A script has six to eight statements.
LEMMA ScriptLength == ASSUME NEW k \in Kinds PROVE Len(Script[k]) \in 6..8
BY DEF Script, Kinds

\* The statements that name a kind or a position.
LEMMA Positions ==
  ASSUME NEW k \in Kinds, NEW i \in 1..Len(Script[k])
  PROVE  /\ Script[k][i] = "bundle" <=> i = 1 /\ k \in {"register_policy", "register_inactive"}
         /\ Script[k][i] = "hash" <=> i = 2 /\ k \in {"register_policy", "register_inactive"}
         /\ Script[k][i] = "active" <=> i = 4 /\ k = "register_policy"
         /\ Script[k][i] = "default" <=> i = 1 /\ k \in {"register_agent", "assign"}
         /\ Script[k][i] = "find" <=> i = 2 /\ k = "register_agent"
         /\ Script[k][i] = "row" <=> i = 3 /\ k = "register_agent"
         /\ Script[k][i] = "check" <=> i = 2 /\ k = "assign"
         /\ Script[k][i] = "update" <=> i = 3 /\ k = "assign"
         /\ Script[k][i] = "read" <=> i = 7 /\ k = "assign"
<1>1. CASE k = "register_policy"
  <2>1. i \in 1..8 BY <1>1 DEF Script
  <2>2. QED BY <1>1, <2>1 DEF Script
<1>2. CASE k = "register_inactive"
  <2>1. i \in 1..6 BY <1>2 DEF Script
  <2>2. QED BY <1>2, <2>1 DEF Script
<1>3. CASE k = "register_agent"
  <2>1. i \in 1..6 BY <1>3 DEF Script
  <2>2. QED BY <1>3, <2>1 DEF Script
<1>4. CASE k = "assign"
  <2>1. i \in 1..7 BY <1>4 DEF Script
  <2>2. QED BY <1>4, <2>1 DEF Script
<1>5. QED BY <1>1, <1>2, <1>3, <1>4 DEF Kinds

\* A whole script reports itself, and commits after it.
LEMMA EndsReported ==
  ASSUME NEW k \in Kinds
  PROVE  \E i, j \in 1..Len(Script[k]) : i < j /\ Script[k][i] = "audit" /\ Script[k][j] = "commit"
<1>1. CASE k = "register_policy"
  <2>1. 7 \in 1..Len(Script[k]) /\ 8 \in 1..Len(Script[k]) BY <1>1 DEF Script
  <2>2. Script[k][7] = "audit" /\ Script[k][8] = "commit" BY <1>1 DEF Script
  <2>3. QED BY <2>1, <2>2
<1>2. CASE k # "register_policy"
  <2>1. 5 \in 1..Len(Script[k]) /\ 6 \in 1..Len(Script[k]) BY <1>2, SMTT(30) DEF Script, Kinds
  <2>2. Script[k][5] = "audit" /\ Script[k][6] = "commit" BY <1>2 DEF Script, Kinds
  <2>3. QED BY <2>1, <2>2
<1>3. QED BY <1>1, <1>2

\* What a request has written, a whole script commits.
LEMMA EndsCommitted ==
  ASSUME NEW k \in Kinds, NEW i \in 1..Len(Script[k]),
         Script[k][i] \in {"bundle", "hash", "row", "update", "active"}
  PROVE  \E j \in 1..Len(Script[k]) : i < j /\ Script[k][j] = "commit"
<1>1. \/ i \in {1, 2} /\ k \in {"register_policy", "register_inactive"}
      \/ i = 3 /\ k \in {"register_agent", "assign"}
      \/ i = 4 /\ k = "register_policy"
  BY Positions
<1>2. CASE i \in {1, 2} /\ k \in {"register_policy", "register_inactive"}
  <2>1. Script[k][3] = "commit" BY <1>2 DEF Script
  <2>2. 3 \in 1..Len(Script[k]) BY ScriptLength
  <2>3. QED BY <1>2, <2>1, <2>2
<1>3. CASE i \in {3, 4}
  <2>1. Script[k][i + 1] = "commit" BY <1>1, <1>3 DEF Script
  <2>2. 4 \in 1..Len(Script[k]) /\ 5 \in 1..Len(Script[k]) BY ScriptLength
  <2>3. i + 1 \in {4, 5} BY <1>3
  <2>4. QED BY <2>1, <2>2, <2>3
<1>4. (i \in {1, 2} /\ k \in {"register_policy", "register_inactive"}) \/ i \in {3, 4}
  BY <1>1
<1>5. QED BY <1>2, <1>3, <1>4

-----------------------------------------------------------------------------
(* How the history of a request grows *)

\* r executes one statement and goes on.
Steps(r, s) ==
  /\ AtStatement(r, s)
  /\ \A q \in Requests \ {r} : req'[q] = req[q]
  /\ req'[r].status = "running"
  /\ req'[r].kind = req[r].kind
  /\ req'[r].at = req[r].at + 1
  /\ req'[r].bundle = req[r].bundle
  /\ req'[r].agent = req[r].agent

\* r begins, or is over.
Leaves(r) ==
  /\ \A q \in Requests \ {r} : req'[q] = req[q]
  /\ req'[r].status # "running" \/ req'[r].at = 1

Kind(r) == req[r].kind
At(r) == req[r].at

LEMMA Typed ==
  ASSUME TypeOK, Placed, NEW r \in Requests
  PROVE  /\ Kind(r) \in Kinds
         /\ At(r) \in 1..9
         /\ Running(r) => At(r) \in 1..(Len(Script[Kind(r)]) + 1)
BY DEF TypeOK, Request, Placed, Kind, At

LEMMA StepsPassed ==
  ASSUME TypeOK, Placed, NEW r \in Requests, NEW s, Steps(r, s),
         NEW q \in Requests, NEW y
  PROVE  /\ Running(q)' <=> Running(q)
         /\ Passed(q, y)' <=> Passed(q, y) \/ (q = r /\ y = s)
<1>1. CASE q # r
  BY <1>1 DEF Steps, Passed, Running
<1>2. CASE q = r
  <2>1. At(r) \in 1..9 BY Typed
  <2>2. 1..(req'[r].at - 1) = 1..(At(r) - 1) \cup {At(r)}
    <3>1. req'[r].at - 1 = At(r) BY <2>1 DEF Steps, At
    <3>2. 1..At(r) = 1..(At(r) - 1) \cup {At(r)} BY <2>1
    <3>3. QED BY <3>1, <3>2
  <2>3. Script[Kind(r)][At(r)] = s BY DEF Steps, AtStatement, Kind, At
  <2>4. QED BY <1>2, <2>2, <2>3 DEF Steps, AtStatement, Passed, Running, Kind, At
<1>3. QED BY <1>1, <1>2

LEMMA StepsCommitted ==
  ASSUME TypeOK, Placed, NEW r \in Requests, NEW s, Steps(r, s),
         NEW q \in Requests, NEW y
  PROVE  PassedAndCommitted(q, y)'
           => PassedAndCommitted(q, y) \/ (q = r /\ s = "commit" /\ Passed(q, y))
<1>1. CASE q # r
  BY <1>1 DEF Steps, PassedAndCommitted, Running
<1>2. CASE q = r
  <2>1. At(r) \in 1..9 BY Typed
  <2>2. 1..(req'[r].at - 1) = 1..(At(r) - 1) \cup {At(r)}
    <3>1. req'[r].at - 1 = At(r) BY <2>1 DEF Steps, At
    <3>2. 1..At(r) = 1..(At(r) - 1) \cup {At(r)} BY <2>1
    <3>3. QED BY <3>1, <3>2
  <2>3. Script[Kind(r)][At(r)] = s BY DEF Steps, AtStatement, Kind, At
  <2>4. SUFFICES ASSUME PassedAndCommitted(r, y)'
                 PROVE  PassedAndCommitted(r, y) \/ (s = "commit" /\ Passed(r, y))
    BY <1>2
  <2>5. PICK i \in 1..(req'[r].at - 1), j \in 1..(req'[r].at - 1) :
               i < j /\ Script[Kind(r)][i] = y /\ Script[Kind(r)][j] = "commit"
    BY <2>4 DEF PassedAndCommitted, Steps, Kind
  <2>6. i \in 1..(At(r) - 1) BY <2>1, <2>2, <2>5 DEF Steps, At
  <2>7. CASE j = At(r)
    BY <2>3, <2>5, <2>6, <2>7 DEF Passed, Steps, AtStatement, Kind, At
  <2>8. CASE j # At(r)
    BY <2>2, <2>5, <2>6, <2>8 DEF PassedAndCommitted, Steps, AtStatement, Kind, At
  <2>9. QED BY <2>7, <2>8
<1>3. QED BY <1>1, <1>2

LEMMA LeavesPassed ==
  ASSUME TypeOK, NEW r \in Requests, Leaves(r), NEW q \in Requests, NEW y
  PROVE  /\ Passed(q, y)' <=> q # r /\ Passed(q, y)
         /\ PassedAndCommitted(q, y)' <=> q # r /\ PassedAndCommitted(q, y)
<1>1. CASE q # r
  BY <1>1 DEF Leaves, Passed, PassedAndCommitted, Running
<1>2. CASE q = r /\ req'[r].status # "running"
  BY <1>2 DEF Passed, PassedAndCommitted, Running
<1>3. CASE q = r /\ req'[r].at = 1
  BY <1>3 DEF Passed, PassedAndCommitted, Running
<1>4. QED BY <1>1, <1>2, <1>3 DEF Leaves

\* A request that has executed all of its script has reported and committed.
LEMMA WholeScript ==
  ASSUME TypeOK, Placed, NEW r \in Requests, Running(r), At(r) = Len(Script[Kind(r)]) + 1
  PROVE  /\ PassedAndCommitted(r, "audit")
         /\ \A y \in {"bundle", "hash", "row", "update", "active"} :
              Passed(r, y) => PassedAndCommitted(r, y)
<1>1. Kind(r) \in Kinds BY Typed
<1>2. Len(Script[Kind(r)]) \in 6..8 BY <1>1, ScriptLength
<1>3. 1..(At(r) - 1) = 1..Len(Script[Kind(r)]) BY <1>2
<1>4. PassedAndCommitted(r, "audit")
  BY <1>1, <1>3, EndsReported DEF PassedAndCommitted, Kind, At
<1>5. ASSUME NEW y \in {"bundle", "hash", "row", "update", "active"}, Passed(r, y)
      PROVE  PassedAndCommitted(r, y)
  <2>1. PICK i \in 1..Len(Script[Kind(r)]) : Script[Kind(r)][i] = y
    BY <1>3, <1>5 DEF Passed, Kind, At
  <2>2. \E j \in 1..Len(Script[Kind(r)]) : i < j /\ Script[Kind(r)][j] = "commit"
    BY <1>1, <2>1, EndsCommitted
  <2>3. QED BY <1>3, <2>1, <2>2 DEF PassedAndCommitted, Kind, At
<1>6. QED BY <1>4, <1>5

-----------------------------------------------------------------------------
(* A request begins, is refused or answered *)

Tables == <<db, disk, publishedBy, attachedBy, activatedBy, mixed, crashes>>

LEMMA LeaveInv ==
  ASSUME RegistryInv, NEW r \in Requests, Leaves(r), ~Uncommitted(r),
         UNCHANGED Tables, req' \in [Requests -> Request],
         req'[r].status \in {"running", "ok"} => req'[r].status = "ok" \/ req[r].status = "idle",
         req'[r].status = "running" =>
           /\ req'[r].bundle \in Bundles
           /\ req'[r].agent \in Agents
           /\ req'[r].kind \in {"register_policy", "register_inactive"} => req'[r].version \in Versions
           /\ req'[r].kind = "assign" => req'[r].version \in Versions \cup {Latest},
         req'[r].status # "idle",
         req'[r].status = "ok" =>
           /\ Running(r) /\ At(r) = Len(Script[Kind(r)]) + 1
           /\ req'[r].version = req[r].version
           /\ req'[r].bundle = req[r].bundle
  PROVE  RegistryInv'
<1> USE DEF Tables
<1>1. TypeOK /\ Placed BY DEF RegistryInv
<1>2. \A q \in Requests : \A y :
        /\ Passed(q, y)' => q # r /\ Passed(q, y)
        /\ PassedAndCommitted(q, y)' => q # r /\ PassedAndCommitted(q, y)
  BY <1>1, LeavesPassed
<1>3. \A q \in Requests \ {r} : req'[q] = req[q] BY DEF Leaves
<1>4. \A q \in Requests : (HalfWay(q)' <=> HalfWay(q)) /\ (Uncommitted(q)' <=> Uncommitted(q))
  BY <1>3 DEF Leaves, HalfWay, Uncommitted, Publishing, Running
<1>5. \A q \in Requests : HalfWay(q) \/ Uncommitted(q) => q # r
  BY DEF HalfWay, Uncommitted
<1>6. req'[r].status = "ok" => r \in disk.trail /\ r \in db.trail
  <2>1. SUFFICES ASSUME req'[r].status = "ok" PROVE r \in disk.trail /\ r \in db.trail
    OBVIOUS
  <2>2. PassedAndCommitted(r, "audit") BY <1>1, <2>1, WholeScript
  <2>3. Passed(r, "audit") BY <2>2 DEF PassedAndCommitted, Passed
  <2>4. QED BY <2>2, <2>3 DEF RegistryInv, AuditInv
<1>7. TypeOK' BY <1>1 DEF TypeOK
<1>8. Placed'
  <2>1. ASSUME NEW k \in Kinds PROVE 1 \in 1..(Len(Script[k]) + 1) BY ScriptLength
  <2>2. req'[r] \in Request OBVIOUS
  <2>3. req'[r].kind \in Kinds BY <2>2 DEF Request
  <2>4. QED BY <1>1, <1>3, <2>1, <2>3 DEF Leaves, Placed, Running
<1>9. PendingInv' BY <1>2, <1>3 DEF RegistryInv, PendingInv
<1>10. ReferencesResolve'
  BY DEF RegistryInv, ReferencesResolve, ActiveIsRegistered, AttachedIsRegistered
<1>11. HashInv'
  BY <1>3, <1>4, <1>5 DEF RegistryInv, HashInv, HashIdentifiesBundle
<1>12. AuditInv' BY <1>2, <1>3, <1>6 DEF RegistryInv, AuditInv
<1>13. AttachedInv'
  <2>1. SUFFICES ASSUME NEW a \in Agents, attachedBy[a] # None
                 PROVE  LET q == attachedBy[a] IN
                        /\ req'[q].status # "idle"
                        /\ Running(q)' => (Passed(q, "row")' \/ Passed(q, "update")') /\ req'[q].agent = a
                        /\ req'[q].status \in {"running", "ok"} => db.agent[a].version = req'[q].version
                        /\ PassedAndCommitted(q, "row")' \/ PassedAndCommitted(q, "update")'
                             => disk.agent[a].version = req'[q].version
    BY DEF AttachedInv
  <2>2. attachedBy[a] \in Requests BY <1>1, <2>1 DEF TypeOK
  <2>3. CASE attachedBy[a] = r
    BY <1>2, <2>1, <2>2, <2>3 DEF RegistryInv, AttachedInv, Running
  <2>4. CASE attachedBy[a] # r
    BY <1>1, <1>3, <2>1, <2>2, <2>4, LeavesPassed DEF RegistryInv, AttachedInv, Running
  <2>5. QED BY <2>3, <2>4
<1>14. ActivatedInv'
  <2>1. activatedBy # None => activatedBy \in Requests BY <1>1 DEF TypeOK
  <2>2. CASE activatedBy = r
    BY <1>2, <2>1, <2>2 DEF RegistryInv, ActivatedInv, Running
  <2>3. CASE activatedBy # r
    BY <1>1, <1>3, <2>1, <2>3, LeavesPassed DEF RegistryInv, ActivatedInv, Running
  <2>4. QED BY <2>2, <2>3
<1>15. PublishedInv' /\ PublishedIsDurable'
  <2>1. SUFFICES ASSUME NEW c \in Columns, NEW v \in Versions, NEW q \in Requests,
                        publishedBy[c][v] = q
                 PROVE  /\ req'[q].status # "idle"
                        /\ Running(q)' => Passed(q, c)'
                        /\ req'[q].status \in {"running", "ok"} => db[c][v] = req'[q].bundle
                        /\ PassedAndCommitted(q, c)' => disk[c][v] = req'[q].bundle
                        /\ req'[q].status = "ok" => disk[c][v] = req'[q].bundle
    <3>1. \A c \in Columns, v \in Versions : publishedBy[c][v] # None => publishedBy[c][v] \in Requests
      BY <1>1 DEF TypeOK
    <3>2. QED BY <3>1 DEF PublishedInv, PublishedIsDurable
  <2>2. /\ req[q].status # "idle"
        /\ Running(q) => Passed(q, c)
        /\ req[q].status \in {"running", "ok"} => db[c][v] = req[q].bundle
        /\ PassedAndCommitted(q, c) => disk[c][v] = req[q].bundle
        /\ req[q].status = "ok" => disk[c][v] = req[q].bundle
    BY <2>1 DEF RegistryInv, PublishedInv, AnsweredIsDurable, PublishedIsDurable
  <2>3. CASE q = r
    <3>1. req'[r].status # "running" /\ ~Running(r)' BY <2>2, <2>3 DEF Running
    <3>2. ~PassedAndCommitted(r, c)' BY <1>2
    <3>3. ASSUME req'[r].status = "ok"
          PROVE  db[c][v] = req'[r].bundle /\ disk[c][v] = req'[r].bundle
      <4>1. Passed(r, c) /\ req'[r].bundle = req[r].bundle BY <2>2, <2>3, <3>3
      <4>2. PassedAndCommitted(r, c) BY <1>1, <3>3, <4>1, WholeScript DEF Columns
      <4>3. QED BY <2>2, <2>3, <3>3, <4>1, <4>2 DEF Running
    <3>4. QED BY <2>3, <3>1, <3>2, <3>3
  <2>4. CASE q # r
    BY <1>1, <1>3, <2>2, <2>4, LeavesPassed DEF Running
  <2>5. QED BY <2>3, <2>4
<1>16. AnsweredIsDurable'
  <2>1. \A q \in Requests : req'[q].status = "ok" => q \in disk.trail
    BY <1>3, <1>6 DEF RegistryInv, AnsweredIsDurable
  <2>2. ASSUME NEW a \in Agents, attachedBy[a] # None, req'[attachedBy[a]].status = "ok"
        PROVE  disk.agent[a].version = req'[attachedBy[a]].version
    <3>1. attachedBy[a] \in Requests BY <1>1, <2>2 DEF TypeOK
    <3>2. CASE attachedBy[a] # r
      BY <1>3, <2>2, <3>1, <3>2 DEF RegistryInv, AnsweredIsDurable
    <3>3. CASE attachedBy[a] = r
      BY <1>1, <2>2, <3>3, WholeScript DEF RegistryInv, AttachedInv
    <3>4. QED BY <3>2, <3>3
  <2>3. activatedBy # None /\ req'[activatedBy].status = "ok"
          => disk.active = req'[activatedBy].version
    <3>1. activatedBy # None => activatedBy \in Requests BY <1>1 DEF TypeOK
    <3>2. CASE activatedBy # r
      BY <1>3, <3>1, <3>2 DEF RegistryInv, AnsweredIsDurable
    <3>3. CASE activatedBy = r
      BY <1>1, <3>1, <3>3, WholeScript DEF RegistryInv, ActivatedInv
    <3>4. QED BY <3>2, <3>3
  <2>4. QED BY <1>15, <2>1, <2>2, <2>3 DEF AnsweredIsDurable
<1>17. QED
  BY <1>7, <1>8, <1>9, <1>10, <1>11, <1>12, <1>13, <1>14, <1>15, <1>16 DEF RegistryInv

-----------------------------------------------------------------------------
(* A statement is executed *)

\* What a request asks for stays as it is from its second statement on.
Keeps(r) == req'[r].version = req[r].version /\ req'[r].named = req[r].named

LEMMA StepsPlaced ==
  ASSUME TypeOK, Placed, NEW r \in Requests, NEW s, Steps(r, s),
         req' \in [Requests -> Request],
         \/ Keeps(r) /\ s # "default"
         \/ req'[r].version \in Versions
         \/ Kind(r) = "register_agent" /\ req'[r].version # Latest
  PROVE  Placed'
<1>1. Kind(r) \in Kinds /\ At(r) \in 1..Len(Script[Kind(r)])
  BY Typed, ScriptLength DEF Steps, AtStatement, Kind, At
<1>2. req'[r].at \in 1..(Len(Script[req'[r].kind]) + 1) /\ req'[r].at > 1
  BY <1>1, ScriptLength DEF Steps, Kind, At
<1>3. At(r) = 1 /\ Kind(r) \in {"register_agent", "assign"} => s = "default"
  BY <1>1, Positions DEF Steps, AtStatement, Kind, At
<1>4. req'[r].version # Latest
  BY <1>1, <1>3 DEF Steps, AtStatement, Placed, Running, Keeps, Kinds, Kind, At
<1>5. ASSUME Kind(r) # "register_agent"
      PROVE  /\ Kind(r) \in {"register_policy", "register_inactive"} => req'[r].version \in Versions
             /\ Kind(r) = "assign" => req'[r].version \in Versions \cup {Latest}
  BY <1>5 DEF Steps, AtStatement, Placed, Running, Keeps, Kind
<1>6. QED
  BY <1>2, <1>4, <1>5 DEF Steps, AtStatement, Placed, Running, Kind

\* Statements that neither publish nor commit.
LEMMA PublishedStays ==
  ASSUME RegistryInv, publishedBy' = publishedBy, disk' = disk,
         db'.bundle = db.bundle, db'.hash = db.hash,
         \A q \in Requests :
           /\ req'[q].status = req[q].status /\ req'[q].bundle = req[q].bundle
           /\ Running(q)' <=> Running(q)
           /\ \A y : /\ Passed(q, y) => Passed(q, y)'
                     /\ PassedAndCommitted(q, y)' => PassedAndCommitted(q, y)
  PROVE  PublishedInv' /\ PublishedIsDurable'
<1>1. \A c \in Columns, v \in Versions :
        publishedBy[c][v] # None => publishedBy[c][v] \in Requests
  BY DEF RegistryInv, TypeOK
<1>2. \A c \in Columns : db'[c] = db[c] BY DEF Columns
<1>3. PublishedInv' BY <1>1, <1>2 DEF RegistryInv, PublishedInv
<1>4. PublishedIsDurable' BY <1>1 DEF RegistryInv, AnsweredIsDurable, PublishedIsDurable
<1>5. QED BY <1>3, <1>4

\* The statements that write nothing.
LEMMA QuietInv ==
  ASSUME RegistryInv, NEW r \in Requests,
         NEW s \in {"default", "find", "check", "update", "read"},
         Steps(r, s), UNCHANGED Tables, req' \in [Requests -> Request],
         s # "default" => Keeps(r),
         s = "default" => \/ req'[r].version \in Versions
                          \/ Kind(r) = "register_agent" /\ req'[r].version # Latest,
         s = "default" /\ req'[r].version \in Versions /\ ~req'[r].named
           => db.bundle[req'[r].version] # None,
         s = "check" => db.bundle[req[r].version] # None
  PROVE  RegistryInv'
<1> USE DEF Tables
<1>1. TypeOK /\ Placed BY DEF RegistryInv
<1>2. \A q \in Requests : \A y :
        /\ Running(q)' <=> Running(q)
        /\ Passed(q, y)' <=> Passed(q, y) \/ (q = r /\ y = s)
        /\ PassedAndCommitted(q, y)' => PassedAndCommitted(q, y)
  BY <1>1, StepsPassed, StepsCommitted
<1>3. \A q \in Requests \ {r} : req'[q] = req[q] BY DEF Steps
<1>4. s = "default" => \A y : ~Passed(r, y) /\ ~PassedAndCommitted(r, y)
  <2>1. SUFFICES ASSUME s = "default" PROVE At(r) = 1
    BY DEF Passed, PassedAndCommitted, At
  <2>2. Kind(r) \in Kinds /\ At(r) \in 1..Len(Script[Kind(r)])
    BY <1>1, Typed, ScriptLength DEF Steps, AtStatement, Kind, At
  <2>3. QED BY <2>1, <2>2, Positions DEF Steps, AtStatement, Kind, At
<1>5. \A q \in Requests : (HalfWay(q)' <=> HalfWay(q)) /\ (Uncommitted(q)' <=> Uncommitted(q))
                          /\ (Uncommitted(q) => q # r)
  <2>1. Kind(r) \notin {"register_policy", "register_inactive"}
    <3>1. Kind(r) \in Kinds /\ At(r) \in 1..Len(Script[Kind(r)])
      BY <1>1, Typed, ScriptLength DEF Steps, AtStatement, Kind, At
    <3>2. QED BY <3>1, Positions DEF Steps, AtStatement, Kind, At
  <2>2. QED
    BY <1>3, <2>1 DEF Steps, HalfWay, Uncommitted, Publishing, Running, Kind
<1>6. \A q \in Requests : HalfWay(q) => q # r
  BY <1>5 DEF HalfWay, Uncommitted
<1>7. TypeOK' BY <1>1 DEF TypeOK
<1>8. Placed'
  <2>1. \/ Keeps(r) /\ s # "default"
        \/ req'[r].version \in Versions
        \/ Kind(r) = "register_agent" /\ req'[r].version # Latest
    OBVIOUS
  <2>2. QED BY <1>1, <2>1, StepsPlaced
<1>9. PendingInv'
  <2>1. \A q \in Requests \ {r} :
           /\ Passed(q, "bundle")' => db.bundle[req'[q].version] # None
           /\ Passed(q, "hash")' => db.hash[req'[q].version] # None
           /\ Passed(q, "check")' => db.bundle[req'[q].version] # None
           /\ Passed(q, "default")' /\ req'[q].version \in Versions /\ ~req'[q].named
                => db.bundle[req'[q].version] # None
    BY <1>2, <1>3 DEF RegistryInv, PendingInv
  <2>2. CASE s = "default"
    BY <1>2, <1>4, <2>1, <2>2 DEF PendingInv
  <2>3. CASE s # "default"
    <3>1. \A y \in {"bundle", "hash", "default"} : Passed(r, y)' => Passed(r, y)
      BY <1>2, <2>3
    <3>2. req'[r].version = req[r].version /\ req'[r].named = req[r].named
      BY <2>3 DEF Keeps
    <3>3. Passed(r, "check")' => Passed(r, "check") \/ s = "check" BY <1>2
    <3>4. /\ Passed(r, "bundle")' => db.bundle[req'[r].version] # None
          /\ Passed(r, "hash")' => db.hash[req'[r].version] # None
          /\ Passed(r, "check")' => db.bundle[req'[r].version] # None
          /\ Passed(r, "default")' /\ req'[r].version \in Versions /\ ~req'[r].named
               => db.bundle[req'[r].version] # None
      BY <3>1, <3>2, <3>3 DEF RegistryInv, PendingInv
    <3>5. QED BY <2>1, <3>4 DEF PendingInv
  <2>4. QED BY <2>2, <2>3
<1>10. ReferencesResolve'
  BY DEF RegistryInv, ReferencesResolve, ActiveIsRegistered, AttachedIsRegistered
<1>11. HashInv'
  BY <1>3, <1>5, <1>6 DEF RegistryInv, HashInv, HashIdentifiesBundle
<1>12. \A q \in Requests : (req'[q].status = "ok" => req[q].status = "ok" /\ q # r)
  BY <1>3 DEF Steps
<1>13. AuditInv' BY <1>2, <1>12 DEF RegistryInv, AuditInv
<1>14. \A q \in Requests : req'[q].status = req[q].status /\ req'[q].agent = req[q].agent
  BY <1>3 DEF Steps, AtStatement, Running
<1>15. \A q \in Requests : s # "default" \/ q # r => req'[q].version = req[q].version
  BY <1>3 DEF Keeps
<1>16. AttachedInv'
  <2>1. \A a \in Agents : attachedBy[a] # None => attachedBy[a] \in Requests
    BY <1>1 DEF TypeOK
  <2>2. \A a \in Agents : s = "default" => attachedBy[a] # r
    BY <1>4 DEF RegistryInv, AttachedInv, Steps, AtStatement
  <2>3. QED BY <1>2, <1>14, <1>15, <2>1, <2>2 DEF RegistryInv, AttachedInv
<1>17. ActivatedInv'
  <2>1. activatedBy # None => activatedBy \in Requests BY <1>1 DEF TypeOK
  <2>2. s = "default" => activatedBy # r
    BY <1>4 DEF RegistryInv, ActivatedInv, Steps, AtStatement
  <2>3. QED BY <1>2, <1>14, <1>15, <2>1, <2>2 DEF RegistryInv, ActivatedInv
<1>18. PublishedInv' /\ PublishedIsDurable'
  <2>1. \A q \in Requests : req'[q].bundle = req[q].bundle BY <1>3 DEF Steps
  <2>2. QED BY <1>2, <1>14, <2>1, PublishedStays
<1>19. AnsweredIsDurable'
  <2>1. \A a \in Agents : attachedBy[a] # None => attachedBy[a] \in Requests
    BY <1>1 DEF TypeOK
  <2>2. activatedBy # None => activatedBy \in Requests BY <1>1 DEF TypeOK
  <2>3. QED
    BY <1>12, <1>15, <1>18, <2>1, <2>2 DEF RegistryInv, AnsweredIsDurable
<1>20. QED
  BY <1>7, <1>8, <1>9, <1>10, <1>11, <1>13, <1>16, <1>17, <1>19, <1>18 DEF RegistryInv

LEMMA StepFacts ==
  ASSUME RegistryInv, NEW r \in Requests, NEW s, s # "default", Steps(r, s), Keeps(r),
         req' \in [Requests -> Request]
  PROVE  /\ Placed'
         /\ \A q \in Requests :
              /\ req'[q].status = req[q].status
              /\ req'[q].kind = req[q].kind
              /\ req'[q].version = req[q].version
              /\ req'[q].bundle = req[q].bundle
              /\ req'[q].agent = req[q].agent
              /\ req'[q].named = req[q].named
         /\ \A q \in Requests : \A y :
              /\ Running(q)' <=> Running(q)
              /\ Passed(q, y)' <=> Passed(q, y) \/ (q = r /\ y = s)
              /\ PassedAndCommitted(q, y)'
                   => PassedAndCommitted(q, y) \/ (q = r /\ s = "commit" /\ Passed(q, y))
         /\ \A q \in Requests \ {r} :
              (HalfWay(q)' <=> HalfWay(q)) /\ (Uncommitted(q)' <=> Uncommitted(q))
<1>1. TypeOK /\ Placed BY DEF RegistryInv
<1>2. Placed' BY <1>1, StepsPlaced
<1>3. \A q \in Requests :
        /\ req'[q].status = req[q].status
        /\ req'[q].kind = req[q].kind
        /\ req'[q].version = req[q].version
        /\ req'[q].bundle = req[q].bundle
        /\ req'[q].agent = req[q].agent
        /\ req'[q].named = req[q].named
  BY DEF Steps, Keeps, AtStatement, Running
<1>4. \A q \in Requests : \A y :
        /\ Running(q)' <=> Running(q)
        /\ Passed(q, y)' <=> Passed(q, y) \/ (q = r /\ y = s)
        /\ PassedAndCommitted(q, y)'
             => PassedAndCommitted(q, y) \/ (q = r /\ s = "commit" /\ Passed(q, y))
  BY <1>1, StepsPassed, StepsCommitted
<1>5. \A q \in Requests \ {r} :
        (HalfWay(q)' <=> HalfWay(q)) /\ (Uncommitted(q)' <=> Uncommitted(q))
  BY DEF Steps, HalfWay, Uncommitted, Publishing, Running
<1>6. QED BY <1>2, <1>3, <1>4, <1>5

\* Where r stands in its registration.
LEMMA StepsHalfWay ==
  ASSUME TypeOK, Placed, NEW r \in Requests, NEW s, Steps(r, s)
  PROVE  /\ HalfWay(r) <=> s = "hash"
         /\ HalfWay(r)' <=> s = "bundle"
         /\ s \notin {"bundle", "hash", "commit"} => ~Uncommitted(r) /\ ~Uncommitted(r)'
         /\ s = "commit" => ~Uncommitted(r)'
         /\ s \in {"bundle", "hash"} => Uncommitted(r)' /\ Kind(r) \in {"register_policy", "register_inactive"}
<1>1. Kind(r) \in Kinds /\ At(r) \in 1..Len(Script[Kind(r)])
  BY Typed, ScriptLength DEF Steps, AtStatement, Kind, At
<1>2. Script[Kind(r)][At(r)] = s BY DEF Steps, AtStatement, Kind, At
<1>3. Kind(r) \in {"register_policy", "register_inactive"} /\ At(r) = 3 => s = "commit"
  BY <1>2 DEF Script
<1>4. /\ s = "bundle" <=> At(r) = 1 /\ Kind(r) \in {"register_policy", "register_inactive"}
      /\ s = "hash" <=> At(r) = 2 /\ Kind(r) \in {"register_policy", "register_inactive"}
  BY <1>1, <1>2, Positions
<1>5. Kind(r) \in {"register_policy", "register_inactive"} /\ s = "commit" => At(r) >= 3
  BY <1>1, <1>4
<1>6. QED
  BY <1>1, <1>3, <1>4, <1>5
  DEF Steps, AtStatement, HalfWay, Uncommitted, Publishing, Running, Kind, At

\* req stays typed when a request steps.
LEMMA AdvanceSteps ==
  ASSUME TypeOK, Placed, NEW r \in Requests, NEW s, AtStatement(r, s), Advance(r)
  PROVE  Steps(r, s) /\ Keeps(r) /\ req' \in [Requests -> Request]
<1>1. Kind(r) \in Kinds /\ At(r) \in 1..Len(Script[Kind(r)]) /\ At(r) \in 1..9
  BY Typed, ScriptLength DEF AtStatement, Kind, At
<1>2. At(r) + 1 \in 1..9
  <2>1. PICK n \in 6..8 : n = Len(Script[Kind(r)]) BY <1>1, ScriptLength
  <2>2. At(r) \in 1..n BY <1>1, <2>1
  <2>3. QED BY <2>2
<1>3. req \in [Requests -> Request] BY DEF TypeOK
<1>4. req' = [req EXCEPT ![r] = [req[r] EXCEPT !.at = At(r) + 1]]
  BY <1>3 DEF Advance, At
<1>5. [req[r] EXCEPT !.at = At(r) + 1] \in Request BY <1>2, <1>3 DEF Request
<1>6. req' \in [Requests -> Request] BY <1>3, <1>4, <1>5
<1>7. Steps(r, s) /\ Keeps(r)
  BY <1>3, <1>4 DEF Steps, Keeps, AtStatement, Running, Request, At
<1>8. QED BY <1>6, <1>7

\* Statements that touch nothing else of what AnsweredIsDurable speaks of.
LEMMA DurableStays ==
  ASSUME RegistryInv, PublishedIsDurable', disk' = disk,
         attachedBy' = attachedBy, activatedBy' = activatedBy,
         \A q \in Requests : req'[q].status = req[q].status /\ req'[q].version = req[q].version
  PROVE  AnsweredIsDurable'
<1>1. \A a \in Agents : attachedBy[a] # None => attachedBy[a] \in Requests
  BY DEF RegistryInv, TypeOK
<1>2. activatedBy # None => activatedBy \in Requests BY DEF RegistryInv, TypeOK
<1>3. QED BY <1>1, <1>2 DEF RegistryInv, AnsweredIsDurable

\* One column of a version is written.
LEMMA PublishInv ==
  ASSUME RegistryInv, NEW r \in Requests, NEW s \in Columns, Steps(r, s), Keeps(r),
         req' \in [Requests -> Request], req[r].version \in Versions, Publish(r, s),
         disk' = disk, db'[s] = [db[s] EXCEPT ![req[r].version] = req[r].bundle],
         \A c \in Columns \ {s} : db'[c] = db[c]
  PROVE  /\ publishedBy' \in [Columns -> [Versions -> Requests \cup {None}]]
         /\ PublishedInv' /\ PublishedIsDurable'
<1> DEFINE v == req[r].version
<1>1. TypeOK /\ Placed BY DEF RegistryInv
<1>2. \A q \in Requests : /\ req'[q].status = req[q].status /\ req'[q].bundle = req[q].bundle
                          /\ Running(q)' <=> Running(q)
                          /\ \A y : Passed(q, y)' <=> Passed(q, y) \/ (q = r /\ y = s)
                          /\ \A y : PassedAndCommitted(q, y)' => PassedAndCommitted(q, y)
  BY StepFacts DEF Columns
<1>3. /\ publishedBy \in [Columns -> [Versions -> Requests \cup {None}]]
      /\ publishedBy' = [publishedBy EXCEPT ![s] = [publishedBy[s] EXCEPT ![v] = r]]
  BY <1>1 DEF TypeOK, Publish
<1>4. /\ publishedBy' \in [Columns -> [Versions -> Requests \cup {None}]]
      /\ \A c \in Columns, w \in Versions :
           publishedBy'[c][w] = IF c = s /\ w = v THEN r ELSE publishedBy[c][w]
  <2>1. [publishedBy[s] EXCEPT ![v] = r] \in [Versions -> Requests \cup {None}] BY <1>3
  <2>2. QED BY <1>3, <2>1
<1>5. \A c \in Columns, w \in Versions :
        db'[c][w] = IF c = s /\ w = v THEN req[r].bundle ELSE db[c][w]
  <2>1. db[s] \in [Versions -> Bundles \cup {None}] BY <1>1 DEF TypeOK, Database, Columns
  <2>2. QED BY <2>1
<1>6. ~PassedAndCommitted(r, s)'
  <2>1. At(r) \in {1, 2}
    <3>1. Kind(r) \in Kinds /\ At(r) \in 1..Len(Script[Kind(r)])
      BY <1>1, Typed, ScriptLength DEF Steps, AtStatement, Kind, At
    <3>2. QED BY <3>1, Positions DEF Steps, AtStatement, Kind, At, Columns
  <2>2. ~PassedAndCommitted(r, s) BY <2>1 DEF PassedAndCommitted, At
  <2>3. QED BY <1>2, <2>2
<1>7. ASSUME NEW c \in Columns, NEW w \in Versions, NEW q \in Requests, publishedBy'[c][w] = q
      PROVE  /\ req'[q].status # "idle"
             /\ Running(q)' => Passed(q, c)'
             /\ req'[q].status \in {"running", "ok"} => db'[c][w] = req'[q].bundle
             /\ PassedAndCommitted(q, c)' => disk[c][w] = req'[q].bundle
             /\ req'[q].status = "ok" => disk[c][w] = req'[q].bundle
  <2>1. CASE c = s /\ w = v
    <3>1. q = r /\ db'[c][w] = req[r].bundle BY <1>4, <1>5, <1>7, <2>1
    <3>2. req'[r].status = "running" BY DEF Steps
    <3>3. QED BY <1>2, <1>6, <2>1, <3>1, <3>2
  <2>2. CASE ~(c = s /\ w = v)
    <3>1. publishedBy[c][w] = q /\ db'[c][w] = db[c][w] BY <1>4, <1>5, <1>7, <2>2
    <3>2. /\ req[q].status # "idle"
          /\ Running(q) => Passed(q, c)
          /\ req[q].status \in {"running", "ok"} => db[c][w] = req[q].bundle
          /\ PassedAndCommitted(q, c) => disk[c][w] = req[q].bundle
          /\ req[q].status = "ok" => disk[c][w] = req[q].bundle
      BY <3>1 DEF RegistryInv, PublishedInv, AnsweredIsDurable, PublishedIsDurable
    <3>3. QED BY <1>2, <3>1, <3>2
  <2>3. QED BY <2>1, <2>2
<1>8. \A c \in Columns, w \in Versions : publishedBy'[c][w] # None => publishedBy'[c][w] \in Requests
  BY <1>4
<1>9. QED BY <1>4, <1>7, <1>8 DEF PublishedInv, PublishedIsDurable

LEMMA InsertBundleInv ==
  ASSUME RegistryInv, NEW r \in Requests, InsertBundle(r)
  PROVE  RegistryInv'
<1> DEFINE v == req[r].version
<1>1. TypeOK /\ Placed BY DEF RegistryInv
<1>2. Steps(r, "bundle") /\ Keeps(r) /\ req' \in [Requests -> Request]
  BY <1>1, AdvanceSteps DEF InsertBundle
<1>3. v \in Versions /\ req[r].bundle \in Bundles
  BY <1>1, <1>2, StepsHalfWay DEF Placed, Steps, AtStatement, Kind
<1>4. /\ db' = [db EXCEPT !.bundle = [db.bundle EXCEPT ![v] = req[r].bundle]]
      /\ UNCHANGED <<disk, attachedBy, activatedBy, crashes>>
      /\ mixed' = IF \E q \in Requests : HalfWay(q) /\ req[q].version = v
                    THEN mixed \cup {v} ELSE mixed
  BY DEF InsertBundle
<1>5. db \in Database BY <1>1 DEF TypeOK
<1>6. /\ db'.bundle = [db.bundle EXCEPT ![v] = req[r].bundle]
      /\ db'.hash = db.hash /\ db'.active = db.active
      /\ db'.agent = db.agent /\ db'.trail = db.trail
      /\ db' \in Database
  BY <1>3, <1>4, <1>5 DEF Database
<1>7. \A w \in Versions : /\ db'.bundle[w] = IF w = v THEN req[r].bundle ELSE db.bundle[w]
                          /\ db.bundle[w] # None => db'.bundle[w] # None
  BY <1>3, <1>5, <1>6 DEF Database
<1>8. /\ publishedBy' \in [Columns -> [Versions -> Requests \cup {None}]]
       /\ PublishedInv' /\ PublishedIsDurable'
  <2>1. db'["bundle"] = [db["bundle"] EXCEPT ![v] = req[r].bundle]
        /\ \A c \in Columns \ {"bundle"} : db'[c] = db[c]
    BY <1>6 DEF Columns
  <2>2. Publish(r, "bundle") /\ "bundle" \in Columns BY DEF InsertBundle, Columns
  <2>3. QED BY <1>2, <1>3, <1>4, <2>1, <2>2, PublishInv
<1>9. TypeOK' BY <1>1, <1>2, <1>3, <1>4, <1>6, <1>8 DEF TypeOK
<1>10. PendingInv'
  <2>1. \A q \in Requests : Running(q) /\ req[q].version \notin Versions
          => ~Passed(q, "bundle") /\ ~Passed(q, "check")
    <3>1. SUFFICES ASSUME NEW q \in Requests, Running(q), req[q].version \notin Versions
                   PROVE  ~Passed(q, "bundle") /\ ~Passed(q, "check")
      OBVIOUS
    <3>2. Kind(q) \in Kinds /\ At(q) \in 1..(Len(Script[Kind(q)]) + 1) BY <1>1, <3>1, Typed
    <3>3. Kind(q) = "assign" => At(q) = 1
      BY <1>1, <3>1, <3>2 DEF Placed, Kind, At
    <3>4. \A i \in 1..(At(q) - 1) : i \in 1..Len(Script[Kind(q)]) BY <3>2, ScriptLength
    <3>5. Kind(q) \notin {"register_policy", "register_inactive"}
      BY <1>1, <3>1 DEF Placed, Kind
    <3>6. QED BY <3>2, <3>3, <3>4, <3>5, Positions DEF Passed, Kind, At
  <2>2. ASSUME NEW q \in Requests
        PROVE  /\ Passed(q, "bundle")' => db'.bundle[req'[q].version] # None
               /\ Passed(q, "hash")' => db'.hash[req'[q].version] # None
               /\ Passed(q, "check")' => db'.bundle[req'[q].version] # None
               /\ Passed(q, "default")' /\ req'[q].version \in Versions /\ ~req'[q].named
                    => db'.bundle[req'[q].version] # None
    <3>1. \A y : Passed(q, y)' => Passed(q, y) \/ (q = r /\ y = "bundle")
      BY <1>2, StepFacts
    <3>2. req'[q].version = req[q].version /\ req'[q].named = req[q].named
      BY <1>2, StepFacts
    <3>3. Passed(q, "bundle")' => db'.bundle[req[q].version] # None
      BY <1>3, <1>7, <2>1, <3>1 DEF RegistryInv, PendingInv, Passed
    <3>4. Passed(q, "check")' => db'.bundle[req[q].version] # None
      BY <1>7, <2>1, <3>1 DEF RegistryInv, PendingInv, Passed
    <3>5. Passed(q, "hash")' => db'.hash[req[q].version] # None
      BY <1>6, <3>1 DEF RegistryInv, PendingInv
    <3>6. Passed(q, "default")' /\ req[q].version \in Versions /\ ~req[q].named
            => db'.bundle[req[q].version] # None
      BY <1>7, <3>1 DEF RegistryInv, PendingInv
    <3>7. QED BY <3>2, <3>3, <3>4, <3>5, <3>6
  <2>3. QED BY <2>2 DEF PendingInv
<1>11. ReferencesResolve'
  BY <1>4, <1>6, <1>7, <1>5
  DEF RegistryInv, ReferencesResolve, ActiveIsRegistered, AttachedIsRegistered, Database
<1>12. HashInv'
  <2>1. HalfWay(r)' /\ ~HalfWay(r) /\ Uncommitted(r)' BY <1>1, <1>2, StepsHalfWay
  <2>2. HashIdentifiesBundle'
    BY <1>2, <1>4, <1>6, <1>7, <2>1, StepFacts DEF RegistryInv, HashInv, HashIdentifiesBundle
  <2>3. \A w \in Versions \ mixed' :
          (\A q \in Requests : ~(Uncommitted(q)' /\ req'[q].version = w))
             => disk'.hash[w] = disk'.bundle[w]
    <3>1. SUFFICES ASSUME NEW w \in Versions \ mixed',
                          \A q \in Requests : ~(Uncommitted(q)' /\ req'[q].version = w)
                   PROVE  disk.hash[w] = disk.bundle[w]
      BY <1>4
    <3>2. w \notin mixed BY <1>4
    <3>3. \A q \in Requests : ~(Uncommitted(q) /\ req[q].version = w)
      BY <1>2, <2>1, <3>1, StepFacts
    <3>4. QED BY <3>2, <3>3 DEF RegistryInv, HashInv
  <2>4. ASSUME NEW q \in Requests, HalfWay(q)', req'[q].version \notin mixed'
        PROVE  /\ db'.bundle[req'[q].version] = req'[q].bundle
               /\ \A p \in Requests : HalfWay(p)' /\ req'[p].version = req'[q].version => p = q
    <3>1. \A p \in Requests : req'[p].version = req[p].version /\ req'[p].bundle = req[p].bundle
      BY <1>2, StepFacts
    <3>2. \A p \in Requests \ {r} : HalfWay(p)' <=> HalfWay(p) BY <1>2, StepFacts
    <3>3. CASE req[q].version = v
      BY <1>3, <1>4, <1>7, <2>1, <2>4, <3>1, <3>2, <3>3
    <3>4. CASE req[q].version # v
      <4>1. req[q].version \in Versions
        BY <1>1, <2>4, <3>1, <3>2, <3>4 DEF HalfWay, Publishing, Placed, Running
      <4>2. req[q].version \notin mixed BY <1>4, <2>4, <3>1
      <4>3. q # r BY <3>4
      <4>4. QED
        BY <1>7, <2>4, <3>1, <3>2, <3>4, <4>1, <4>2, <4>3 DEF RegistryInv, HashInv
    <3>5. QED BY <3>3, <3>4
  <2>5. QED BY <2>2, <2>3, <2>4 DEF HashInv
<1>13. AuditInv' BY <1>2, <1>4, <1>6, StepFacts DEF RegistryInv, AuditInv
<1>14. AttachedInv'
  BY <1>1, <1>2, <1>4, <1>6, StepFacts DEF RegistryInv, AttachedInv, TypeOK
<1>15. ActivatedInv'
  BY <1>1, <1>2, <1>4, <1>6, StepFacts DEF RegistryInv, ActivatedInv, TypeOK
<1>16. AnsweredIsDurable'
  BY <1>2, <1>4, <1>8, StepFacts, DurableStays
<1>17. QED
  BY <1>2, <1>9, <1>10, <1>11, <1>12, <1>13, <1>14, <1>15, <1>16, <1>8, StepFacts DEF RegistryInv

LEMMA InsertHashInv ==
  ASSUME RegistryInv, NEW r \in Requests, InsertHash(r)
  PROVE  RegistryInv'
<1> DEFINE v == req[r].version
<1>1. TypeOK /\ Placed BY DEF RegistryInv
<1>2. Steps(r, "hash") /\ Keeps(r) /\ req' \in [Requests -> Request]
  BY <1>1, AdvanceSteps DEF InsertHash
<1>3. v \in Versions /\ req[r].bundle \in Bundles
  BY <1>1, <1>2, StepsHalfWay DEF Placed, Steps, AtStatement, Kind
<1>4. /\ db' = [db EXCEPT !.hash = [db.hash EXCEPT ![v] = req[r].bundle]]
      /\ UNCHANGED <<disk, attachedBy, activatedBy, mixed, crashes>>
  BY DEF InsertHash
<1>5. db \in Database BY <1>1 DEF TypeOK
<1>6. /\ db'.hash = [db.hash EXCEPT ![v] = req[r].bundle]
      /\ db'.bundle = db.bundle /\ db'.active = db.active
      /\ db'.agent = db.agent /\ db'.trail = db.trail
      /\ db' \in Database
  BY <1>3, <1>4, <1>5 DEF Database
<1>7. \A w \in Versions : /\ db'.hash[w] = IF w = v THEN req[r].bundle ELSE db.hash[w]
                          /\ db.hash[w] # None => db'.hash[w] # None
  BY <1>3, <1>5, <1>6 DEF Database
<1>8. /\ publishedBy' \in [Columns -> [Versions -> Requests \cup {None}]]
       /\ PublishedInv' /\ PublishedIsDurable'
  <2>1. db'["hash"] = [db["hash"] EXCEPT ![v] = req[r].bundle]
        /\ \A c \in Columns \ {"hash"} : db'[c] = db[c]
    BY <1>6 DEF Columns
  <2>2. Publish(r, "hash") /\ "hash" \in Columns BY DEF InsertHash, Columns
  <2>3. QED BY <1>2, <1>3, <1>4, <2>1, <2>2, PublishInv
<1>9. TypeOK' BY <1>1, <1>2, <1>4, <1>6, <1>8 DEF TypeOK
<1>10. PendingInv'
  <2>1. ASSUME NEW q \in Requests, Passed(q, "hash") PROVE req[q].version \in Versions
    <3>1. Kind(q) \in Kinds /\ At(q) \in 1..(Len(Script[Kind(q)]) + 1)
      BY <1>1, <2>1, Typed DEF Passed
    <3>2. \A i \in 1..(At(q) - 1) : i \in 1..Len(Script[Kind(q)]) BY <3>1, ScriptLength
    <3>3. Kind(q) \in {"register_policy", "register_inactive"}
      BY <2>1, <3>1, <3>2, Positions DEF Passed, Kind, At
    <3>4. QED BY <1>1, <2>1, <3>3 DEF Placed, Passed, Kind
  <2>2. ASSUME NEW q \in Requests
        PROVE  /\ Passed(q, "bundle")' => db'.bundle[req'[q].version] # None
               /\ Passed(q, "hash")' => db'.hash[req'[q].version] # None
               /\ Passed(q, "check")' => db'.bundle[req'[q].version] # None
               /\ Passed(q, "default")' /\ req'[q].version \in Versions /\ ~req'[q].named
                    => db'.bundle[req'[q].version] # None
    <3>1. \A y : Passed(q, y)' => Passed(q, y) \/ (q = r /\ y = "hash")
      BY <1>2, StepFacts
    <3>2. req'[q].version = req[q].version /\ req'[q].named = req[q].named
      BY <1>2, StepFacts
    <3>3. Passed(q, "hash")' => db'.hash[req[q].version] # None
      BY <1>3, <1>7, <2>1, <3>1 DEF RegistryInv, PendingInv
    <3>4. QED BY <1>6, <3>1, <3>2, <3>3 DEF RegistryInv, PendingInv
  <2>3. QED BY <2>2 DEF PendingInv
<1>11. ReferencesResolve'
  BY <1>4, <1>6, <1>7, <1>5
  DEF RegistryInv, ReferencesResolve, ActiveIsRegistered, AttachedIsRegistered, Database
<1>12. HashInv'
  <2>1. HalfWay(r) /\ ~HalfWay(r)' /\ Uncommitted(r)' BY <1>1, <1>2, StepsHalfWay
  <2>2. \A q \in Requests : req'[q].version = req[q].version /\ req'[q].bundle = req[q].bundle
    BY <1>2, StepFacts
  <2>3. \A q \in Requests \ {r} :
          (HalfWay(q)' <=> HalfWay(q)) /\ (Uncommitted(q)' <=> Uncommitted(q))
    BY <1>2, StepFacts
  <2>4. ASSUME NEW w \in Versions \ mixed',
               \A q \in Requests : ~(HalfWay(q)' /\ req'[q].version = w)
        PROVE  db'.hash[w] = db'.bundle[w]
    <3>1. CASE w = v
      BY <1>4, <1>6, <1>7, <2>1, <2>4, <3>1 DEF RegistryInv, HashInv
    <3>2. CASE w # v
      BY <1>4, <1>6, <1>7, <2>2, <2>3, <2>4, <3>2
      DEF RegistryInv, HashInv, HashIdentifiesBundle
    <3>3. QED BY <3>1, <3>2
  <2>5. \A w \in Versions \ mixed' :
          (\A q \in Requests : ~(Uncommitted(q)' /\ req'[q].version = w))
             => disk'.hash[w] = disk'.bundle[w]
    <3>1. \A q \in Requests : Uncommitted(q) => Uncommitted(q)' BY <2>1, <2>3
    <3>2. QED BY <1>4, <2>2, <3>1 DEF RegistryInv, HashInv
  <2>6. \A q \in Requests : HalfWay(q)' /\ req'[q].version \notin mixed' =>
          /\ db'.bundle[req'[q].version] = req'[q].bundle
          /\ \A p \in Requests : HalfWay(p)' /\ req'[p].version = req'[q].version => p = q
    BY <1>4, <1>6, <2>1, <2>2, <2>3 DEF RegistryInv, HashInv
  <2>7. QED BY <2>4, <2>5, <2>6 DEF HashInv, HashIdentifiesBundle
<1>13. AuditInv' BY <1>2, <1>4, <1>6, StepFacts DEF RegistryInv, AuditInv
<1>14. AttachedInv'
  BY <1>1, <1>2, <1>4, <1>6, StepFacts DEF RegistryInv, AttachedInv, TypeOK
<1>15. ActivatedInv'
  BY <1>1, <1>2, <1>4, <1>6, StepFacts DEF RegistryInv, ActivatedInv, TypeOK
<1>16. AnsweredIsDurable'
  BY <1>2, <1>4, <1>8, StepFacts, DurableStays
<1>17. QED
  BY <1>2, <1>9, <1>10, <1>11, <1>12, <1>13, <1>14, <1>15, <1>16, <1>8, StepFacts DEF RegistryInv

\* Statements after which bundles and hashes are as they were.
LEMMA KeptHashes ==
  ASSUME RegistryInv, NEW r \in Requests,
         NEW s, s \notin {"bundle", "hash", "default", "commit", "check"},
         Steps(r, s), Keeps(r), req' \in [Requests -> Request],
         db'.bundle = db.bundle, db'.hash = db.hash, disk' = disk, mixed' = mixed
  PROVE  PendingInv' /\ HashInv'
<1>1. TypeOK /\ Placed BY DEF RegistryInv
<1>2. \A q \in Requests : /\ req'[q].version = req[q].version
                          /\ req'[q].bundle = req[q].bundle
                          /\ req'[q].named = req[q].named
  BY StepFacts
<1>3. \A q \in Requests : \A y \in {"bundle", "hash", "check", "default"} :
        Passed(q, y)' => Passed(q, y)
  BY StepFacts
<1>4. \A q \in Requests :
        (HalfWay(q)' <=> HalfWay(q)) /\ (Uncommitted(q)' <=> Uncommitted(q))
  BY <1>1, StepFacts, StepsHalfWay
<1>5. PendingInv' BY <1>2, <1>3 DEF RegistryInv, PendingInv
<1>6. HashInv' BY <1>2, <1>4 DEF RegistryInv, HashInv, HashIdentifiesBundle
<1>7. QED BY <1>5, <1>6

LEMMA ActivateInv ==
  ASSUME RegistryInv, NEW r \in Requests, Activate(r)
  PROVE  RegistryInv'
<1>1. TypeOK /\ Placed BY DEF RegistryInv
<1>2. Steps(r, "active") /\ Keeps(r) /\ req' \in [Requests -> Request]
  BY <1>1, AdvanceSteps DEF Activate
<1>3. Kind(r) = "register_policy" /\ At(r) = 4
  <2>1. Kind(r) \in Kinds /\ At(r) \in 1..Len(Script[Kind(r)])
    BY <1>1, <1>2, Typed, ScriptLength DEF Steps, AtStatement, Kind, At
  <2>2. QED BY <1>2, <2>1, Positions DEF Steps, AtStatement, Kind, At
<1>4. req[r].version \in Versions BY <1>1, <1>2, <1>3 DEF Placed, Steps, AtStatement, Kind
<1>5. /\ db' = [db EXCEPT !.active = req[r].version]
      /\ activatedBy' = r
      /\ UNCHANGED <<disk, publishedBy, attachedBy, mixed, crashes>>
  BY DEF Activate
<1>6. db \in Database BY <1>1 DEF TypeOK
<1>7. /\ db'.active = req[r].version
      /\ db'.bundle = db.bundle /\ db'.hash = db.hash
      /\ db'.agent = db.agent /\ db'.trail = db.trail
      /\ db' \in Database
  BY <1>4, <1>5, <1>6 DEF Database
<1>8. TypeOK' BY <1>1, <1>2, <1>5, <1>7 DEF TypeOK
<1>9. PendingInv' /\ HashInv' BY <1>2, <1>5, <1>7, KeptHashes
<1>10. Passed(r, "bundle") /\ Passed(r, "hash")
  <2>1. 1 \in 1..(req[r].at - 1) /\ 2 \in 1..(req[r].at - 1) BY <1>3 DEF At
  <2>2. Script[req[r].kind][1] = "bundle" /\ Script[req[r].kind][2] = "hash"
    BY <1>3 DEF Script, Kind
  <2>3. QED BY <1>2, <2>1, <2>2 DEF Passed, Steps, AtStatement
<1>11. ReferencesResolve'
  <2>1. ActiveIsRegistered(disk) /\ AttachedIsRegistered(disk) /\ AttachedIsRegistered(db)
    BY DEF RegistryInv, ReferencesResolve
  <2>2. ActiveIsRegistered(db')
    BY <1>7, <1>10 DEF RegistryInv, PendingInv, ActiveIsRegistered
  <2>3. AttachedIsRegistered(db') BY <1>7, <2>1 DEF AttachedIsRegistered
  <2>4. QED BY <1>5, <2>1, <2>2, <2>3 DEF ReferencesResolve
<1>12. AuditInv' BY <1>2, <1>5, <1>7, StepFacts DEF RegistryInv, AuditInv
<1>13. AttachedInv'
  BY <1>1, <1>2, <1>5, <1>7, StepFacts DEF RegistryInv, AttachedInv, TypeOK
<1>14. ActivatedInv'
  <2>1. req'[r].status = "running" /\ Passed(r, "active")' BY <1>2, StepFacts DEF Steps
  <2>2. req'[r].version = req[r].version BY <1>2 DEF Keeps
  <2>3. ~PassedAndCommitted(r, "active")'
    <3>1. req'[r].kind = "register_policy" /\ req'[r].at = 5 BY <1>2, <1>3 DEF Steps, Kind, At
    <3>2. \A i \in 1..4, j \in 1..4 :
            ~(i < j /\ Script["register_policy"][i] = "active")
      BY DEF Script
    <3>3. QED BY <3>1, <3>2 DEF PassedAndCommitted
  <2>4. QED BY <1>5, <1>7, <2>1, <2>2, <2>3 DEF ActivatedInv
<1>15. PublishedInv' /\ PublishedIsDurable' BY <1>2, <1>5, <1>7, StepFacts, PublishedStays
<1>16. AnsweredIsDurable'
  <2>1. req'[r].status = "running" BY <1>2 DEF Steps
  <2>2. QED
    BY <1>1, <1>2, <1>5, <1>7, <1>15, <2>1, StepFacts
    DEF RegistryInv, AnsweredIsDurable, TypeOK
<1>17. QED
  BY <1>2, <1>8, <1>9, <1>11, <1>12, <1>13, <1>14, <1>16, <1>15, StepFacts DEF RegistryInv

-----------------------------------------------------------------------------
(* The row of an agent is written *)

\* WriteAgent and UpdateAgent, when they write.
LEMMA AttachInv ==
  ASSUME RegistryInv, NEW r \in Requests, NEW s \in {"row", "update"}, AtStatement(r, s),
         NEW row \in Row, Attach(r, row), row.version = req[r].version,
         row.version \in Versions /\ ~row.named => db.bundle[row.version] # None
  PROVE  RegistryInv'
<1> DEFINE a == req[r].agent
<1>1. TypeOK /\ Placed BY DEF RegistryInv
<1>2. Steps(r, s) /\ Keeps(r) /\ req' \in [Requests -> Request]
  BY <1>1, AdvanceSteps DEF Attach
<1>3. a \in Agents BY <1>1 DEF Placed, AtStatement
<1>4. /\ db' = [db EXCEPT !.agent = [db.agent EXCEPT ![a] = row]]
      /\ attachedBy' = [attachedBy EXCEPT ![a] = r]
      /\ UNCHANGED <<disk, publishedBy, activatedBy, mixed, crashes>>
  BY DEF Attach
<1>5. db \in Database BY <1>1 DEF TypeOK
<1>6. /\ db'.agent = [db.agent EXCEPT ![a] = row]
      /\ db'.bundle = db.bundle /\ db'.hash = db.hash
      /\ db'.active = db.active /\ db'.trail = db.trail
      /\ db' \in Database
  BY <1>3, <1>4, <1>5 DEF Database
<1>7. \A b \in Agents : /\ db'.agent[b] = IF b = a THEN row ELSE db.agent[b]
                        /\ attachedBy'[b] = IF b = a THEN r ELSE attachedBy[b]
  BY <1>1, <1>3, <1>4, <1>5, <1>6 DEF Database, TypeOK
<1>8. TypeOK'
  <2>1. attachedBy' \in [Agents -> Requests \cup {None}] BY <1>1, <1>3, <1>4 DEF TypeOK
  <2>2. QED BY <1>1, <1>2, <1>4, <1>6, <2>1 DEF TypeOK
<1>9. PendingInv' /\ HashInv' BY <1>2, <1>4, <1>6, KeptHashes
<1>10. ReferencesResolve'
  <2>1. /\ ActiveIsRegistered(disk) /\ AttachedIsRegistered(disk)
        /\ ActiveIsRegistered(db) /\ AttachedIsRegistered(db)
    BY DEF RegistryInv, ReferencesResolve
  <2>2. ActiveIsRegistered(db') BY <1>6, <2>1 DEF ActiveIsRegistered
  <2>3. AttachedIsRegistered(db') BY <1>6, <1>7, <2>1 DEF AttachedIsRegistered
  <2>4. QED BY <1>4, <2>1, <2>2, <2>3 DEF ReferencesResolve
<1>11. AuditInv' BY <1>2, <1>4, <1>6, StepFacts DEF RegistryInv, AuditInv
<1>12. AttachedInv'
  <2>1. req'[r].status = "running" /\ Passed(r, s)' /\ req'[r].agent = a
    BY <1>2, StepFacts DEF Steps
  <2>2. req'[r].version = row.version BY <1>2 DEF Keeps
  <2>3. ~PassedAndCommitted(r, "row")' /\ ~PassedAndCommitted(r, "update")'
    <3>1. Kind(r) \in {"register_agent", "assign"} /\ At(r) = 3
      <4>1. Kind(r) \in Kinds /\ At(r) \in 1..Len(Script[Kind(r)])
        BY <1>1, <1>2, Typed, ScriptLength DEF Steps, AtStatement, Kind, At
      <4>2. QED BY <1>2, <4>1, Positions DEF Steps, AtStatement, Kind, At
    <3>2. req'[r].kind = Kind(r) /\ req'[r].at = 4 BY <1>2, <3>1 DEF Steps, Kind, At
    <3>3. \A i \in 1..3, j \in 1..3 :
            ~(i < j /\ Script[Kind(r)][i] \in {"row", "update"})
      BY <3>1 DEF Script
    <3>4. QED BY <3>2, <3>3 DEF PassedAndCommitted
  <2>4. ASSUME NEW b \in Agents, NEW q \in Requests, attachedBy'[b] = q
        PROVE  /\ req'[q].status # "idle"
               /\ Running(q)' => (Passed(q, "row")' \/ Passed(q, "update")') /\ req'[q].agent = b
               /\ req'[q].status \in {"running", "ok"} => db'.agent[b].version = req'[q].version
               /\ PassedAndCommitted(q, "row")' \/ PassedAndCommitted(q, "update")'
                    => disk'.agent[b].version = req'[q].version
    <3>1. CASE b = a
      <4>1. q = r /\ db'.agent[b] = row BY <1>7, <2>4, <3>1
      <4>2. Passed(r, "row")' \/ Passed(r, "update")' BY <2>1
      <4>3. QED BY <2>1, <2>2, <2>3, <3>1, <4>1, <4>2
    <3>2. CASE b # a
      <4>1. attachedBy[b] = q /\ db'.agent[b] = db.agent[b] BY <1>7, <2>4, <3>2
      <4>2. q # None OBVIOUS
      <4>3. /\ req[q].status # "idle"
            /\ Running(q) => (Passed(q, "row") \/ Passed(q, "update")) /\ req[q].agent = b
            /\ req[q].status \in {"running", "ok"} => db.agent[b].version = req[q].version
            /\ PassedAndCommitted(q, "row") \/ PassedAndCommitted(q, "update")
                 => disk.agent[b].version = req[q].version
        BY <4>1, <4>2 DEF RegistryInv, AttachedInv
      <4>4. QED BY <1>2, <1>4, <4>1, <4>3, StepFacts
    <3>3. QED BY <3>1, <3>2
  <2>5. \A b \in Agents : attachedBy'[b] # None => attachedBy'[b] \in Requests
    BY <1>8 DEF TypeOK
  <2>6. QED BY <2>4, <2>5 DEF AttachedInv
<1>13. ActivatedInv'
  BY <1>1, <1>2, <1>4, <1>6, StepFacts DEF RegistryInv, ActivatedInv, TypeOK
<1>14. PublishedInv' /\ PublishedIsDurable' BY <1>2, <1>4, <1>6, StepFacts, PublishedStays
<1>15. AnsweredIsDurable'
  <2>1. req'[r].status = "running" BY <1>2 DEF Steps
  <2>2. \A q \in Requests : req'[q].status = req[q].status /\ req'[q].version = req[q].version
    BY <1>2, StepFacts
  <2>3. ASSUME NEW b \in Agents, attachedBy'[b] # None, req'[attachedBy'[b]].status = "ok"
        PROVE  disk'.agent[b].version = req'[attachedBy'[b]].version
    <3>1. b # a BY <1>7, <2>1, <2>3
    <3>2. attachedBy'[b] = attachedBy[b] BY <1>7, <3>1
    <3>3. attachedBy[b] \in Requests BY <1>1, <2>3, <3>2 DEF TypeOK
    <3>4. QED BY <1>4, <2>2, <2>3, <3>2, <3>3 DEF RegistryInv, AnsweredIsDurable
  <2>4. activatedBy # None => activatedBy \in Requests BY <1>1 DEF TypeOK
  <2>5. QED BY <1>4, <1>14, <2>2, <2>3, <2>4 DEF RegistryInv, AnsweredIsDurable
<1>16. QED
  BY <1>2, <1>8, <1>9, <1>10, <1>11, <1>12, <1>13, <1>15, <1>14, StepFacts DEF RegistryInv

-----------------------------------------------------------------------------
(* The audit log, and commits *)

LEMMA InsertAuditInv ==
  ASSUME RegistryInv, NEW r \in Requests, InsertAudit(r)
  PROVE  RegistryInv'
<1>1. TypeOK /\ Placed BY DEF RegistryInv
<1>2. Steps(r, "audit") /\ Keeps(r) /\ req' \in [Requests -> Request]
  BY <1>1, AdvanceSteps DEF InsertAudit
<1>3. db' = [db EXCEPT !.trail = db.trail \cup {r}]
  BY DEF InsertAudit
<1>4. UNCHANGED <<disk, publishedBy, attachedBy, activatedBy, mixed, crashes>>
  BY DEF InsertAudit, Kept
<1>5. db \in Database BY <1>1 DEF TypeOK
<1>6. /\ db'.trail = db.trail \cup {r}
      /\ db'.bundle = db.bundle /\ db'.hash = db.hash
      /\ db'.active = db.active /\ db'.agent = db.agent
      /\ db' \in Database
  BY <1>3, <1>5 DEF Database
<1>7. TypeOK' BY <1>1, <1>2, <1>4, <1>6 DEF TypeOK
<1>8. PendingInv' /\ HashInv' BY <1>2, <1>4, <1>6, KeptHashes
<1>9. ReferencesResolve'
  <2>1. ActiveIsRegistered(db') /\ AttachedIsRegistered(db')
    BY <1>6 DEF RegistryInv, ReferencesResolve, ActiveIsRegistered, AttachedIsRegistered
  <2>2. QED BY <1>4, <2>1 DEF RegistryInv, ReferencesResolve
<1>10. AuditInv'
  BY <1>2, <1>4, <1>6, StepFacts DEF RegistryInv, AuditInv
<1>11. AttachedInv'
  BY <1>1, <1>2, <1>4, <1>6, StepFacts DEF RegistryInv, AttachedInv, TypeOK
<1>12. ActivatedInv'
  BY <1>1, <1>2, <1>4, <1>6, StepFacts DEF RegistryInv, ActivatedInv, TypeOK
<1>13. PublishedInv' /\ PublishedIsDurable' BY <1>2, <1>4, <1>6, StepFacts, PublishedStays
<1>14. AnsweredIsDurable'
  BY <1>2, <1>4, <1>13, StepFacts, DurableStays
<1>15. QED
  BY <1>2, <1>7, <1>8, <1>9, <1>10, <1>11, <1>12, <1>14, <1>13, StepFacts DEF RegistryInv

\* A commit makes disk what everyone has written so far.
LEMMA CommitInv ==
  ASSUME RegistryInv, NEW r \in Requests, Commit(r)
  PROVE  RegistryInv'
<1>1. TypeOK /\ Placed BY DEF RegistryInv
<1>2. Steps(r, "commit") /\ Keeps(r) /\ req' \in [Requests -> Request]
  BY <1>1, AdvanceSteps DEF Commit
<1>3. disk' = db /\ UNCHANGED <<db, publishedBy, attachedBy, activatedBy, mixed, crashes>>
  BY DEF Commit, Kept
<1>4. \A q \in Requests : /\ req'[q].status = req[q].status
                          /\ req'[q].version = req[q].version
                          /\ req'[q].bundle = req[q].bundle
                          /\ req'[q].agent = req[q].agent
                          /\ req'[q].named = req[q].named
  BY <1>2, StepFacts
<1>5. \A q \in Requests : \A y : /\ Running(q)' <=> Running(q)
                                 /\ PassedAndCommitted(q, y)' => Passed(q, y)
  <2>1. \A q \in Requests : \A y : PassedAndCommitted(q, y) => Passed(q, y)
    BY DEF PassedAndCommitted, Passed
  <2>2. QED BY <1>2, <2>1, StepFacts
<1>6. \A q \in Requests : \A y \in {"bundle", "hash", "check", "default", "row", "update", "active", "audit"} :
        Passed(q, y)' <=> Passed(q, y)
  BY <1>2, StepFacts
<1>7. TypeOK' BY <1>1, <1>2, <1>3 DEF TypeOK
<1>8. PendingInv' BY <1>3, <1>4, <1>6 DEF RegistryInv, PendingInv
<1>9. ReferencesResolve' BY <1>3 DEF RegistryInv, ReferencesResolve
<1>10. HashInv'
  <2>1. \A q \in Requests : HalfWay(q)' <=> HalfWay(q)
    BY <1>1, <1>2, StepFacts, StepsHalfWay
  <2>2. \A q \in Requests : HalfWay(q) => Uncommitted(q)'
    <3>1. ~HalfWay(r) BY <1>1, <1>2, StepsHalfWay
    <3>2. \A q \in Requests \ {r} : Uncommitted(q)' <=> Uncommitted(q) BY <1>2, StepFacts
    <3>3. QED BY <3>1, <3>2 DEF HalfWay, Uncommitted
  <2>3. HashIdentifiesBundle' BY <1>3, <1>4, <2>1 DEF RegistryInv, HashInv, HashIdentifiesBundle
  <2>4. \A w \in Versions \ mixed' :
          (\A q \in Requests : ~(Uncommitted(q)' /\ req'[q].version = w))
             => disk'.hash[w] = disk'.bundle[w]
    BY <1>3, <1>4, <2>2 DEF RegistryInv, HashInv, HashIdentifiesBundle
  <2>5. \A q \in Requests : HalfWay(q)' /\ req'[q].version \notin mixed' =>
          /\ db'.bundle[req'[q].version] = req'[q].bundle
          /\ \A p \in Requests : HalfWay(p)' /\ req'[p].version = req'[q].version => p = q
    BY <1>3, <1>4, <2>1 DEF RegistryInv, HashInv
  <2>6. QED BY <2>3, <2>4, <2>5 DEF HashInv
<1>11. AuditInv' BY <1>3, <1>4, <1>5, <1>6 DEF RegistryInv, AuditInv
<1>12. AttachedInv'
  <2>1. \A a \in Agents : attachedBy[a] # None => attachedBy[a] \in Requests
    BY <1>1 DEF TypeOK
  <2>2. \A q \in Requests : Passed(q, "row") \/ Passed(q, "update") => req[q].status = "running"
    BY DEF Passed, Running
  <2>3. QED BY <1>3, <1>4, <1>5, <1>6, <2>1, <2>2 DEF RegistryInv, AttachedInv
<1>13. ActivatedInv'
  <2>1. activatedBy # None => activatedBy \in Requests BY <1>1 DEF TypeOK
  <2>2. \A q \in Requests : Passed(q, "active") => req[q].status = "running"
    BY DEF Passed, Running
  <2>3. QED BY <1>3, <1>4, <1>5, <1>6, <2>1, <2>2 DEF RegistryInv, ActivatedInv
<1>14. PublishedInv' /\ PublishedIsDurable'
  <2>1. ASSUME NEW c \in Columns, NEW v \in Versions, NEW q \in Requests, publishedBy[c][v] = q
        PROVE  /\ req'[q].status # "idle"
               /\ Running(q)' => Passed(q, c)'
               /\ req'[q].status \in {"running", "ok"} => db[c][v] = req'[q].bundle
               /\ PassedAndCommitted(q, c)' => db[c][v] = req'[q].bundle
    <3>1. /\ req[q].status # "idle"
          /\ Running(q) => Passed(q, c)
          /\ req[q].status \in {"running", "ok"} => db[c][v] = req[q].bundle
      BY <2>1 DEF RegistryInv, PublishedInv
    <3>2. Passed(q, c)' <=> Passed(q, c) BY <1>6 DEF Columns
    <3>3. Passed(q, c) => req[q].status = "running" BY DEF Passed, Running
    <3>4. QED BY <1>4, <1>5, <3>1, <3>2, <3>3
  <2>2. \A c \in Columns, v \in Versions :
          publishedBy[c][v] # None => publishedBy[c][v] \in Requests
    BY <1>1 DEF TypeOK
  <2>3. QED BY <1>3, <2>1, <2>2 DEF PublishedInv, PublishedIsDurable
<1>15. AnsweredIsDurable'
  <2>1. \A q \in Requests : req'[q].status = "ok" => q \in disk'.trail
    BY <1>3, <1>4 DEF RegistryInv, AuditInv
  <2>2. \A a \in Agents : attachedBy[a] # None => attachedBy[a] \in Requests
    BY <1>1 DEF TypeOK
  <2>3. activatedBy # None => activatedBy \in Requests BY <1>1 DEF TypeOK
  <2>4. QED
    BY <1>3, <1>4, <1>14, <2>1, <2>2, <2>3
    DEF RegistryInv, AttachedInv, ActivatedInv, AnsweredIsDurable
<1>16. QED
  BY <1>2, <1>7, <1>8, <1>9, <1>10, <1>11, <1>12, <1>13, <1>15, <1>14, StepFacts DEF RegistryInv

-----------------------------------------------------------------------------
(* The statements that write nothing, and how requests begin and end *)

\* The answer is recorded, of whatever kind.
LEMMA OverTyped ==
  ASSUME TypeOK, NEW r \in Requests, NEW status \in {"ok", "refused", "lost"}
  PROVE  Over(r, status) \in Request /\ Over(r, status).status = status
<1>1. req[r].version \in Versions \cup {None, Latest, NoPolicy} /\ req[r].bundle \in Bundles \cup {None}
  BY DEF TypeOK, Request
<1>2. "assign" \in Kinds /\ 1 \in 1..9 BY DEF Kinds
<1>3. QED BY <1>1, <1>2 DEF Over, Idle, Request

LEMMA RefuseInv ==
  ASSUME RegistryInv, NEW r \in Requests, Refuse(r), ~Uncommitted(r)
  PROVE  RegistryInv'
<1>1. TypeOK BY DEF RegistryInv
<1>2. UNCHANGED Tables BY DEF Refuse, Kept, Tables
<1>3. req \in [Requests -> Request] BY <1>1 DEF TypeOK
<1>4. Over(r, "refused") \in Request /\ Over(r, "refused").status = "refused"
  BY <1>1, OverTyped
<1>5. req' = [req EXCEPT ![r] = Over(r, "refused")] BY DEF Refuse, End
<1>6. req' \in [Requests -> Request] /\ req'[r].status = "refused" BY <1>3, <1>4, <1>5
<1>7. Leaves(r) BY <1>3, <1>5, <1>6 DEF Leaves
<1>8. QED BY <1>2, <1>6, <1>7, LeaveInv

LEMMA AnswerInv ==
  ASSUME RegistryInv, NEW r \in Requests, Answer(r)
  PROVE  RegistryInv'
<1>1. TypeOK /\ Placed BY DEF RegistryInv
<1>2. UNCHANGED Tables BY DEF Answer, Kept, Tables
<1>3. req \in [Requests -> Request] BY <1>1 DEF TypeOK
<1>4. /\ Over(r, "ok") \in Request /\ Over(r, "ok").status = "ok"
      /\ Over(r, "ok").version = req[r].version /\ Over(r, "ok").bundle = req[r].bundle
  BY <1>1, OverTyped DEF Over, Idle
<1>5. req' = [req EXCEPT ![r] = Over(r, "ok")] BY DEF Answer, End
<1>6. /\ req' \in [Requests -> Request] /\ req'[r].status = "ok"
      /\ req'[r].version = req[r].version /\ req'[r].bundle = req[r].bundle
  BY <1>3, <1>4, <1>5
<1>7. Leaves(r) BY <1>3, <1>5, <1>6 DEF Leaves
<1>8. Running(r) /\ At(r) = Len(Script[Kind(r)]) + 1 BY DEF Answer, At, Kind
<1>9. ~Uncommitted(r)
  <2>1. Kind(r) \in Kinds BY <1>1, Typed
  <2>2. PICK n \in 6..8 : n = Len(Script[Kind(r)]) BY <2>1, ScriptLength
  <2>3. At(r) \notin {2, 3} BY <1>8, <2>2, SMTT(30)
  <2>4. QED BY <2>3 DEF Uncommitted, At
<1>10. QED BY <1>2, <1>6, <1>7, <1>8, <1>9, LeaveInv

LEMMA ArriveInv ==
  ASSUME RegistryInv, NEW r \in Requests, Arrive(r)
  PROVE  RegistryInv'
<1>1. TypeOK BY DEF RegistryInv
<1>2. UNCHANGED Tables BY DEF Arrive, Kept, Tables
<1>3. req \in [Requests -> Request] BY <1>1 DEF TypeOK
<1>4. PICK c \in Calls :
        req' = [req EXCEPT ![r] =
          [Idle EXCEPT !.status = "running", !.kind = c.kind, !.version = c.version,
                       !.bundle = c.bundle, !.agent = c.agent]]
  BY DEF Arrive
<1>5. c \in Call /\ Sensible(c) OBVIOUS
<1>6. /\ req'[r] = [status |-> "running", kind |-> c.kind, at |-> 1, version |-> c.version,
                    bundle |-> c.bundle, agent |-> c.agent, named |-> FALSE, known |-> FALSE]
      /\ \A q \in Requests \ {r} : req'[q] = req[q]
  BY <1>3, <1>4 DEF Idle
<1>7. req'[r] \in Request BY <1>5, <1>6 DEF Request, Call
<1>8. req' \in [Requests -> Request] BY <1>3, <1>4, <1>6, <1>7
<1>9. Leaves(r) BY <1>6 DEF Leaves
<1>10. /\ req'[r].bundle \in Bundles
       /\ req'[r].agent \in Agents
       /\ req'[r].kind \in {"register_policy", "register_inactive"} => req'[r].version \in Versions
       /\ req'[r].kind = "assign" => req'[r].version \in Versions \cup {Latest}
  BY <1>5, <1>6 DEF Call, Sensible
<1>11. req[r].status = "idle" /\ req'[r].status = "running" BY <1>6 DEF Arrive
<1>12. ~Uncommitted(r) BY <1>11 DEF Uncommitted, Publishing, Running
<1>13. QED BY <1>2, <1>8, <1>9, <1>10, <1>11, <1>12, LeaveInv

\* Only a registration of a policy is ever half way.
LEMMA NotPublishing ==
  ASSUME TypeOK, Placed, NEW r \in Requests,
         NEW s \in {"default", "find", "row", "check", "update", "read"}, AtStatement(r, s)
  PROVE  Kind(r) \in {"register_agent", "assign"} /\ ~Uncommitted(r)
<1>1. Kind(r) \in Kinds /\ At(r) \in 1..Len(Script[Kind(r)])
  BY Typed, ScriptLength DEF AtStatement, Kind, At
<1>2. Kind(r) \in {"register_agent", "assign"}
  BY <1>1, Positions DEF AtStatement, Kind, At
<1>3. QED BY <1>2 DEF Uncommitted, Publishing, Kind

LEMMA DefaultInv ==
  ASSUME RegistryInv, NEW r \in Requests, Default(r)
  PROVE  RegistryInv'
<1>1. TypeOK /\ Placed BY DEF RegistryInv
<1>2. AtStatement(r, "default") BY DEF Default
<1>3. Kind(r) \in {"register_agent", "assign"} /\ ~Uncommitted(r) BY <1>1, <1>2, NotPublishing
<1>4. Kind(r) \in Kinds /\ At(r) \in 1..Len(Script[Kind(r)]) /\ At(r) = 1
  <2>1. Kind(r) \in Kinds /\ At(r) \in 1..Len(Script[Kind(r)])
    BY <1>1, <1>2, Typed, ScriptLength DEF AtStatement, Kind, At
  <2>2. QED BY <1>2, <2>1, Positions DEF AtStatement, Kind, At
<1>5. req \in [Requests -> Request] /\ db \in Database BY <1>1 DEF TypeOK
<1>6. CASE req[r].version # Latest
  <2>1. req' = [req EXCEPT ![r] = [req[r] EXCEPT !.at = req[r].at + 1, !.named = TRUE]]
    BY <1>6 DEF Default
  <2>2. UNCHANGED Tables BY <1>6 DEF Default, Kept, Tables
  <2>3. req[r].at + 1 = 2 BY <1>4 DEF At
  <2>4. [req[r] EXCEPT !.at = 2, !.named = TRUE] \in Request
    <3>1. req[r] \in Request /\ 2 \in 1..9 BY <1>5
    <3>2. QED BY <3>1 DEF Request
  <2>5. req' \in [Requests -> Request] BY <1>5, <2>1, <2>3, <2>4
  <2>6. Steps(r, "default") /\ req'[r].version = req[r].version /\ req'[r].named = TRUE
    BY <1>2, <1>5, <2>1 DEF Steps, AtStatement, Running, Request
  <2>7. \/ req'[r].version \in Versions
        \/ Kind(r) = "register_agent" /\ req'[r].version # Latest
    BY <1>1, <1>2, <1>3, <1>6, <2>6 DEF Placed, AtStatement, Kind
  <2>8. QED BY <2>2, <2>5, <2>6, <2>7, QuietInv
<1>7. CASE req[r].version = Latest /\ Kind(r) = "assign" /\ db.active = None
  <2>1. Refuse(r) BY <1>7 DEF Default, Kind
  <2>2. QED BY <1>3, <2>1, RefuseInv
<1>8. CASE req[r].version = Latest /\ ~(Kind(r) = "assign" /\ db.active = None)
  <2>1. req' = [req EXCEPT ![r] = [req[r] EXCEPT !.at = req[r].at + 1, !.version = db.active]]
    BY <1>8 DEF Default, Kind
  <2>2. UNCHANGED Tables BY <1>8 DEF Default, Kind, Kept, Tables
  <2>3. req[r].at + 1 = 2 BY <1>4 DEF At
  <2>4. db.active \in Versions \cup {None} BY <1>5 DEF Database
  <2>5. [req[r] EXCEPT !.at = 2, !.version = db.active] \in Request
    <3>1. req[r] \in Request /\ 2 \in 1..9 BY <1>5
    <3>2. QED BY <2>4, <3>1 DEF Request
  <2>6. req' \in [Requests -> Request] BY <1>5, <2>1, <2>3, <2>5
  <2>7. Steps(r, "default") /\ req'[r].version = db.active
    BY <1>2, <1>5, <2>1 DEF Steps, AtStatement, Running, Request
  <2>8. \/ req'[r].version \in Versions
        \/ Kind(r) = "register_agent" /\ req'[r].version # Latest
    BY <1>3, <1>8, <2>4, <2>7
  <2>9. req'[r].version \in Versions => db.bundle[req'[r].version] # None
    BY <2>7 DEF RegistryInv, ReferencesResolve, ActiveIsRegistered
  <2>10. QED BY <2>2, <2>6, <2>7, <2>8, <2>9, QuietInv
<1>9. QED BY <1>6, <1>7, <1>8

LEMMA FindInv ==
  ASSUME RegistryInv, NEW r \in Requests, Find(r)
  PROVE  RegistryInv'
<1>1. TypeOK /\ Placed BY DEF RegistryInv
<1>2. AtStatement(r, "find") BY DEF Find
<1>3. At(r) + 1 = 3
  <2>1. Kind(r) \in Kinds /\ At(r) \in 1..Len(Script[Kind(r)])
    BY <1>1, <1>2, Typed, ScriptLength DEF AtStatement, Kind, At
  <2>2. QED BY <1>2, <2>1, Positions DEF AtStatement, Kind, At
<1>4. req \in [Requests -> Request] BY <1>1 DEF TypeOK
<1>5. PICK k \in BOOLEAN : req' = [req EXCEPT ![r] = [req[r] EXCEPT !.at = req[r].at + 1, !.known = k]]
  <2>1. (db.agent[req[r].agent] # NoRow) \in BOOLEAN OBVIOUS
  <2>2. QED BY <2>1 DEF Find
<1>6. UNCHANGED Tables BY DEF Find, Kept, Tables
<1>7. [req[r] EXCEPT !.at = 3, !.known = k] \in Request
  <2>1. req[r] \in Request /\ 3 \in 1..9 BY <1>4
  <2>2. QED BY <2>1 DEF Request
<1>8. req' \in [Requests -> Request] BY <1>3, <1>4, <1>5, <1>7 DEF At
<1>9. Steps(r, "find") /\ Keeps(r)
  BY <1>2, <1>4, <1>5 DEF Steps, Keeps, AtStatement, Running, Request
<1>10. QED BY <1>6, <1>8, <1>9, QuietInv

\* A statement that only reads and lets r go on.
LEMMA PassInv ==
  ASSUME RegistryInv, NEW r \in Requests, NEW s \in {"check", "update", "read"},
         AtStatement(r, s), Advance(r), UNCHANGED Tables,
         s = "check" => db.bundle[req[r].version] # None
  PROVE  RegistryInv'
<1>1. Steps(r, s) /\ Keeps(r) /\ req' \in [Requests -> Request]
  BY AdvanceSteps DEF RegistryInv
<1>2. QED BY <1>1, QuietInv

LEMMA CheckVersionInv ==
  ASSUME RegistryInv, NEW r \in Requests, CheckVersion(r)
  PROVE  RegistryInv'
<1>1. AtStatement(r, "check") BY DEF CheckVersion
<1>2. ~Uncommitted(r) BY <1>1, NotPublishing DEF RegistryInv
<1>3. CASE db.bundle[req[r].version] = None
  BY <1>2, <1>3, RefuseInv DEF CheckVersion
<1>4. CASE db.bundle[req[r].version] # None
  BY <1>1, <1>4, PassInv DEF CheckVersion, Kept, Tables
<1>5. QED BY <1>3, <1>4

LEMMA ReadAgentInv ==
  ASSUME RegistryInv, NEW r \in Requests, ReadAgent(r)
  PROVE  RegistryInv'
<1>1. AtStatement(r, "read") BY DEF ReadAgent
<1>2. ~Uncommitted(r) BY <1>1, NotPublishing DEF RegistryInv
<1>3. CASE db.agent[req[r].agent] = NoRow
  BY <1>2, <1>3, RefuseInv DEF ReadAgent
<1>4. CASE db.agent[req[r].agent] # NoRow
  BY <1>1, <1>4, PassInv DEF ReadAgent, Kept, Tables
<1>5. QED BY <1>3, <1>4

LEMMA WriteAgentInv ==
  ASSUME RegistryInv, NEW r \in Requests, WriteAgent(r)
  PROVE  RegistryInv'
<1> DEFINE row == [version |-> req[r].version, named |-> req[r].named]
<1>1. TypeOK /\ Placed BY DEF RegistryInv
<1>2. AtStatement(r, "row") BY DEF WriteAgent
<1>3. Kind(r) = "register_agent" /\ At(r) = 3 /\ ~Uncommitted(r)
  <2>1. Kind(r) \in Kinds /\ At(r) \in 1..Len(Script[Kind(r)])
    BY <1>1, <1>2, Typed, ScriptLength DEF AtStatement, Kind, At
  <2>2. ~Uncommitted(r) BY <1>1, <1>2, NotPublishing
  <2>3. QED BY <1>2, <2>1, <2>2, Positions DEF AtStatement, Kind, At
<1>4. row \in Row
  <2>1. req[r].version # Latest BY <1>1, <1>2, <1>3 DEF Placed, AtStatement, At
  <2>2. /\ req[r].version \in Versions \cup {None, Latest, NoPolicy}
        /\ req[r].named \in BOOLEAN
    BY <1>1 DEF TypeOK, Request
  <2>3. QED BY <2>1, <2>2 DEF Row
<1>5. Passed(r, "default")
  <2>1. 1 \in 1..(req[r].at - 1) BY <1>3 DEF At
  <2>2. Script[req[r].kind][1] = "default" BY <1>3 DEF Script, Kind
  <2>3. QED BY <1>2, <2>1, <2>2 DEF Passed, AtStatement
<1>6. row.version \in Versions /\ ~row.named => db.bundle[row.version] # None
  BY <1>5 DEF RegistryInv, PendingInv
<1>7. CASE ~req[r].known /\ db.agent[req[r].agent] # NoRow
  BY <1>3, <1>7, RefuseInv DEF WriteAgent
<1>8. CASE ~(~req[r].known /\ db.agent[req[r].agent] # NoRow)
  <2>1. Attach(r, row) BY <1>8 DEF WriteAgent
  <2>2. row.version = req[r].version OBVIOUS
  <2>3. QED BY <1>2, <1>4, <1>6, <2>1, <2>2, AttachInv
<1>9. QED BY <1>7, <1>8

LEMMA UpdateAgentInv ==
  ASSUME RegistryInv, NEW r \in Requests, UpdateAgent(r)
  PROVE  RegistryInv'
<1> DEFINE row == [version |-> req[r].version, named |-> FALSE]
<1>1. TypeOK /\ Placed BY DEF RegistryInv
<1>2. AtStatement(r, "update") BY DEF UpdateAgent
<1>3. Kind(r) = "assign" /\ At(r) = 3
  <2>1. Kind(r) \in Kinds /\ At(r) \in 1..Len(Script[Kind(r)])
    BY <1>1, <1>2, Typed, ScriptLength DEF AtStatement, Kind, At
  <2>2. QED BY <1>2, <2>1, Positions DEF AtStatement, Kind, At
<1>4. req[r].version \in Versions BY <1>1, <1>2, <1>3 DEF Placed, AtStatement, Kind, At
<1>5. Passed(r, "check")
  <2>1. 2 \in 1..(req[r].at - 1) BY <1>3 DEF At
  <2>2. Script[req[r].kind][2] = "check" BY <1>3 DEF Script, Kind
  <2>3. QED BY <1>2, <2>1, <2>2 DEF Passed, AtStatement
<1>6. CASE db.agent[req[r].agent] = NoRow
  BY <1>2, <1>6, PassInv DEF UpdateAgent, Kept, Tables
<1>7. CASE db.agent[req[r].agent] # NoRow
  <2>1. Attach(r, row) BY <1>7 DEF UpdateAgent
  <2>2. row \in Row /\ row.version = req[r].version BY <1>4 DEF Row
  <2>3. db.bundle[row.version] # None BY <1>5 DEF RegistryInv, PendingInv
  <2>4. QED BY <1>2, <2>1, <2>2, <2>3, AttachInv
<1>8. QED BY <1>6, <1>7

-----------------------------------------------------------------------------
(* Crashes, and the invariant *)

LEMMA CrashInv ==
  ASSUME RegistryInv, Crash
  PROVE  RegistryInv'
<1>1. TypeOK /\ Placed BY DEF RegistryInv
<1>2. /\ db' = disk /\ disk' = disk
      /\ publishedBy' = publishedBy /\ attachedBy' = attachedBy /\ activatedBy' = activatedBy
      /\ crashes' = crashes + 1 /\ crashes < MaxCrashes
      /\ mixed' = mixed \cup {req[r].version : r \in {q \in Requests : Uncommitted(q)}}
  BY DEF Crash
<1>3. \A r \in Requests : req'[r] = IF Running(r) THEN Over(r, "lost") ELSE req[r]
  BY DEF Crash
<1>4. \A r \in Requests : req'[r] \in Request /\ req'[r].status # "running"
  BY <1>1, <1>3, OverTyped DEF TypeOK, Running
<1>5. \A r \in Requests : /\ req'[r].status = "ok" => req'[r] = req[r]
                          /\ req[r].status # "idle" => req'[r].status # "idle"
  BY <1>1, <1>3, OverTyped
<1>6. \A r \in Requests : /\ ~Running(r)' /\ ~HalfWay(r)' /\ ~Uncommitted(r)'
                          /\ \A y : ~Passed(r, y)' /\ ~PassedAndCommitted(r, y)'
  BY <1>4 DEF Running, HalfWay, Uncommitted, Publishing, Passed, PassedAndCommitted
<1>7. TypeOK'
  <2>1. req' \in [Requests -> Request]
    <3>1. req' = [r \in Requests |-> IF Running(r) THEN Over(r, "lost") ELSE req[r]]
      BY DEF Crash
    <3>2. QED BY <1>4, <3>1
  <2>2. mixed' \subseteq Versions
    <3>1. \A q \in Requests : Uncommitted(q) => req[q].version \in Versions
      BY <1>1 DEF Uncommitted, Publishing, Placed
    <3>2. QED BY <1>1, <1>2, <3>1 DEF TypeOK
  <2>3. crashes' \in 0..MaxCrashes BY <1>1, <1>2 DEF TypeOK
  <2>4. QED BY <1>1, <1>2, <2>1, <2>2, <2>3 DEF TypeOK
<1>8. Placed' BY <1>6 DEF Placed
<1>9. PendingInv' BY <1>6 DEF PendingInv
<1>10. ReferencesResolve' BY <1>2 DEF RegistryInv, ReferencesResolve
<1>11. HashInv'
  <2>1. ASSUME NEW v \in Versions \ mixed' PROVE disk.hash[v] = disk.bundle[v]
    <3>1. v \notin mixed /\ \A q \in Requests : ~(Uncommitted(q) /\ req[q].version = v)
      BY <1>2, <2>1
    <3>2. QED BY <3>1 DEF RegistryInv, HashInv
  <2>2. QED BY <1>2, <1>6, <2>1 DEF HashInv, HashIdentifiesBundle
<1>12. \A r \in Requests : req'[r].status = "ok" => r \in disk.trail
  BY <1>5 DEF RegistryInv, AnsweredIsDurable
<1>13. AuditInv' BY <1>2, <1>6, <1>12 DEF AuditInv
<1>14. \A a \in Agents : LET r == attachedBy[a] IN
         r # None => /\ r \in Requests
                     /\ req[r].status # "idle"
                     /\ req'[r].status = "ok" => disk.agent[a].version = req'[r].version
  BY <1>1, <1>5 DEF TypeOK, RegistryInv, AttachedInv, AnsweredIsDurable
<1>15. AttachedInv' BY <1>2, <1>4, <1>5, <1>6, <1>14 DEF AttachedInv
<1>16. activatedBy # None =>
         /\ activatedBy \in Requests
         /\ req[activatedBy].status # "idle"
         /\ req'[activatedBy].status = "ok" => disk.active = req'[activatedBy].version
  BY <1>1, <1>5 DEF TypeOK, RegistryInv, ActivatedInv, AnsweredIsDurable
<1>17. ActivatedInv' BY <1>2, <1>4, <1>5, <1>6, <1>16 DEF ActivatedInv
<1>18. PublishedInv' /\ PublishedIsDurable'
  <2>1. \A c \in Columns, v \in Versions : LET r == publishedBy[c][v] IN
          r # None => /\ r \in Requests
                      /\ req[r].status # "idle"
                      /\ req'[r].status = "ok" => disk[c][v] = req'[r].bundle
    BY <1>1, <1>5 DEF TypeOK, RegistryInv, PublishedInv, AnsweredIsDurable, PublishedIsDurable
  <2>2. QED BY <1>2, <1>4, <1>5, <1>6, <2>1 DEF PublishedInv, PublishedIsDurable
<1>19. AnsweredIsDurable' BY <1>2, <1>12, <1>14, <1>16, <1>18 DEF AnsweredIsDurable
<1>20. QED
  BY <1>7, <1>8, <1>9, <1>10, <1>11, <1>13, <1>15, <1>17, <1>19, <1>18 DEF RegistryInv

LEMMA InitInv == Init => RegistryInv
<1> SUFFICES ASSUME Init PROVE RegistryInv
  OBVIOUS
<1>1. /\ db \in Database /\ ActiveIsRegistered(db) /\ AttachedIsRegistered(db)
      /\ db.hash = db.bundle /\ disk = db
  BY DEF Init
<1>2. \A r \in Requests : req[r] = Idle BY DEF Init
<1>3. \A r \in Requests : /\ req[r].status = "idle" /\ ~Running(r) /\ ~HalfWay(r)
                          /\ ~Uncommitted(r)
                          /\ \A y : ~Passed(r, y) /\ ~PassedAndCommitted(r, y)
  BY <1>2 DEF Idle, Running, HalfWay, Uncommitted, Publishing, Passed, PassedAndCommitted
<1>4. Idle \in Request BY DEF Idle, Request, Kinds
<1>5. TypeOK BY <1>1, <1>4 DEF Init, TypeOK
<1>6. Placed /\ PendingInv /\ AuditInv BY <1>3 DEF Placed, PendingInv, AuditInv
<1>7. ReferencesResolve BY <1>1 DEF ReferencesResolve
<1>8. HashInv BY <1>1, <1>3 DEF HashInv, HashIdentifiesBundle
<1>9. AttachedInv /\ ActivatedInv BY DEF Init, AttachedInv, ActivatedInv
<1>10. AnsweredIsDurable BY <1>3 DEF Init, AnsweredIsDurable, PublishedIsDurable
<1>11. PublishedInv BY DEF Init, PublishedInv
<1>12. QED BY <1>5, <1>6, <1>7, <1>8, <1>9, <1>10, <1>11 DEF RegistryInv

LEMMA NextInv == RegistryInv /\ [Next]_vars => RegistryInv'
<1> SUFFICES ASSUME RegistryInv, [Next]_vars PROVE RegistryInv'
  OBVIOUS
<1>1. ASSUME NEW r \in Requests, Arrive(r) PROVE RegistryInv' BY <1>1, ArriveInv
<1>2. ASSUME NEW r \in Requests, Statement(r) PROVE RegistryInv'
  BY <1>2, InsertBundleInv, InsertHashInv, ActivateInv, DefaultInv, FindInv, WriteAgentInv,
     CheckVersionInv, UpdateAgentInv, ReadAgentInv, InsertAuditInv, CommitInv
  DEF Statement
<1>3. ASSUME NEW r \in Requests, Answer(r) PROVE RegistryInv' BY <1>3, AnswerInv
<1>4. CASE Crash BY <1>4, CrashInv
<1>5. CASE UNCHANGED vars
  <2>1. \A r \in Requests : /\ Running(r)' <=> Running(r)
                            /\ HalfWay(r)' <=> HalfWay(r)
                            /\ Uncommitted(r)' <=> Uncommitted(r)
    BY <1>5 DEF vars, Running, HalfWay, Uncommitted, Publishing
  <2>2. \A r \in Requests : \A y : /\ Passed(r, y)' <=> Passed(r, y)
                                   /\ PassedAndCommitted(r, y)' <=> PassedAndCommitted(r, y)
    BY <1>5 DEF vars, Passed, PassedAndCommitted, Running
  <2>3. TypeOK' /\ Placed' BY <1>5, <2>1 DEF vars, RegistryInv, TypeOK, Placed
  <2>4. PendingInv' /\ AuditInv' BY <1>5, <2>2 DEF vars, RegistryInv, PendingInv, AuditInv
  <2>5. ReferencesResolve' BY <1>5 DEF vars, RegistryInv, ReferencesResolve
  <2>6. HashInv' BY <1>5, <2>1 DEF vars, RegistryInv, HashInv, HashIdentifiesBundle
  <2>7. AttachedInv'
    <3>1. \A a \in Agents : attachedBy[a] # None => attachedBy[a] \in Requests
      BY DEF RegistryInv, TypeOK
    <3>2. QED BY <1>5, <2>1, <2>2, <3>1 DEF vars, RegistryInv, AttachedInv
  <2>8. ActivatedInv'
    <3>1. activatedBy # None => activatedBy \in Requests BY DEF RegistryInv, TypeOK
    <3>2. QED BY <1>5, <2>1, <2>2, <3>1 DEF vars, RegistryInv, ActivatedInv
  <2>11. PublishedInv' /\ PublishedIsDurable' BY <1>5, <2>1, <2>2, PublishedStays DEF vars
  <2>9. AnsweredIsDurable' BY <1>5, <2>11 DEF vars, RegistryInv, AnsweredIsDurable
  <2>10. QED
    BY <2>3, <2>4, <2>5, <2>6, <2>7, <2>8, <2>9, <2>11 DEF RegistryInv
<1>6. QED BY <1>1, <1>2, <1>3, <1>4, <1>5 DEF Next

\* The invariant of the registry: whatever the number of requests, versions,
\* bundles, agents and crashes, the tables are what the requests have passed.
THEOREM RegistryInvariant == Spec => []RegistryInv
<1>1. QED BY InitInv, NextInv, PTL DEF Spec

\* No reference to a version of a policy dangles, in memory or on disk.
THEOREM ReferencesAlwaysResolve == Spec => []ReferencesResolve
<1>1. RegistryInv => ReferencesResolve BY DEF RegistryInv
<1>2. QED BY <1>1, RegistryInvariant, PTL

\* The hash of a version identifies the bundle the plane hands out, outside of
\* overlapping and broken registrations.
THEOREM HashAlwaysIdentifies == Spec => []HashIdentifiesBundle
<1>1. RegistryInv => HashIdentifiesBundle BY DEF RegistryInv, HashInv
<1>2. QED BY <1>1, RegistryInvariant, PTL

\* What the plane answered is on disk, and reported: bundle and hash of a registration,
\* the version of an agent, the active one.
THEOREM AnswersAreDurable == Spec => []AnsweredIsDurable
<1>1. RegistryInv => AnsweredIsDurable BY DEF RegistryInv
<1>2. QED BY <1>1, RegistryInvariant, PTL
=============================================================================
