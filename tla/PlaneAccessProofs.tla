-------------------------- MODULE PlaneAccessProofs --------------------------
(***************************************************************************)
(* Proofs about PlaneAccess.                                               *)
(***************************************************************************)
EXTENDS PlaneAccessInvariant, TLAPS

USE AccessAssumption

-----------------------------------------------------------------------------
(* Where the statements stand in the scripts *)

\* A script has two to eleven statements.
LEMMA ScriptLength == ASSUME NEW k \in Kinds PROVE Len(Script[k]) \in 2..11
BY DEF Script, Kinds

\* The statements that name a kind or a position.
LEMMA Positions ==
  ASSUME NEW k \in Kinds, NEW i \in 1..Len(Script[k])
  PROVE  /\ Script[k][i] = "authenticate" <=> k = "login" /\ i = 1
         /\ Script[k][i] = "authorise" => k \in {"add_member", "configure", "decide"} /\ i = 1
         /\ Script[k][i] = "state" => k = "sso"
         /\ Script[k][i] = "pop" => k = "sso"
         /\ Script[k][i] = "team" <=> k = "setup" /\ i = 2
         /\ Script[k][i] = "account" <=>
              (k = "setup" /\ i = 3) \/ (k = "sso" /\ i = 5) \/ (k = "add_member" /\ i = 3)
         /\ Script[k][i] = "member" <=>
              (k = "setup" /\ i = 4) \/ (k = "sso" /\ i = 6) \/ (k = "add_member" /\ i = 4)
         /\ Script[k][i] = "session" <=>
              (k = "setup" /\ i = 8) \/ (k = "login" /\ i = 4) \/ (k = "sso" /\ i = 8)
         /\ Script[k][i] = "drop" <=>
              (k = "login" /\ i = 2) \/ (k = "logout" /\ i = 1) \/ (k = "purge" /\ i = 1)
         /\ Script[k][i] = "audit" <=>
              \/ k \in {"setup", "login", "add_member"} /\ i = 6
              \/ k = "logout" /\ i = 3
              \/ k = "decide" /\ i = 5
              \/ k = "sso" /\ i = 10
              \/ k = "configure" /\ i = 4
         /\ Script[k][i] = "write" <=> k = "configure" /\ i = 2
         /\ Script[k][i] = "begin" <=> k = "decide" /\ i = 2
         /\ Script[k][i] = "decide" <=> k = "decide" /\ i = 3
         /\ Script[k][i] = "save" <=> k = "decide" /\ i = 4
<1>1. CASE k = "setup"
  <2>1. i \in 1..9 BY <1>1 DEF Script
  <2>2. QED BY <1>1, <2>1 DEF Script
<1>2. CASE k = "login"
  <2>1. i \in 1..7 BY <1>2 DEF Script
  <2>2. QED BY <1>2, <2>1 DEF Script
<1>3. CASE k = "logout"
  <2>1. i \in 1..4 BY <1>3 DEF Script
  <2>2. QED BY <1>3, <2>1 DEF Script
<1>4. CASE k = "sso"
  <2>1. i \in 1..11 BY <1>4 DEF Script
  <2>2. QED BY <1>4, <2>1 DEF Script
<1>5. CASE k = "add_member"
  <2>1. i \in 1..7 BY <1>5 DEF Script
  <2>2. QED BY <1>5, <2>1 DEF Script
<1>6. CASE k = "configure"
  <2>1. i \in 1..5 BY <1>6 DEF Script
  <2>2. QED BY <1>6, <2>1 DEF Script
<1>7. CASE k = "decide"
  <2>1. i \in 1..6 BY <1>7 DEF Script
  <2>2. QED BY <1>7, <2>1 DEF Script
<1>8. CASE k = "purge"
  <2>1. i \in 1..2 BY <1>8 DEF Script
  <2>2. QED BY <1>8, <2>1 DEF Script
<1>9. QED BY <1>1, <1>2, <1>3, <1>4, <1>5, <1>6, <1>7, <1>8 DEF Kinds

\* Each request but a purge reports itself, and commits after it.
LEMMA EndsReported ==
  ASSUME NEW k \in Kinds, k # "purge"
  PROVE  \E i, j \in 1..Len(Script[k]) : i < j /\ Script[k][i] = "audit" /\ Script[k][j] = "commit"
<1>1. CASE k = "setup"
  <2>1. 6 \in 1..Len(Script[k]) /\ 7 \in 1..Len(Script[k]) BY <1>1 DEF Script
  <2>2. Script[k][6] = "audit" /\ Script[k][7] = "commit" BY <1>1 DEF Script
  <2>3. QED BY <2>1, <2>2
<1>2. CASE k = "login"
  <2>1. 6 \in 1..Len(Script[k]) /\ 7 \in 1..Len(Script[k]) BY <1>2 DEF Script
  <2>2. Script[k][6] = "audit" /\ Script[k][7] = "commit" BY <1>2 DEF Script
  <2>3. QED BY <2>1, <2>2
<1>3. CASE k = "add_member"
  <2>1. 6 \in 1..Len(Script[k]) /\ 7 \in 1..Len(Script[k]) BY <1>3 DEF Script
  <2>2. Script[k][6] = "audit" /\ Script[k][7] = "commit" BY <1>3 DEF Script
  <2>3. QED BY <2>1, <2>2
<1>4. CASE k = "logout"
  <2>1. 3 \in 1..Len(Script[k]) /\ 4 \in 1..Len(Script[k]) BY <1>4 DEF Script
  <2>2. Script[k][3] = "audit" /\ Script[k][4] = "commit" BY <1>4 DEF Script
  <2>3. QED BY <2>1, <2>2
<1>5. CASE k = "decide"
  <2>1. 5 \in 1..Len(Script[k]) /\ 6 \in 1..Len(Script[k]) BY <1>5 DEF Script
  <2>2. Script[k][5] = "audit" /\ Script[k][6] = "commit" BY <1>5 DEF Script
  <2>3. QED BY <2>1, <2>2
<1>6. CASE k = "sso"
  <2>1. 10 \in 1..Len(Script[k]) /\ 11 \in 1..Len(Script[k]) BY <1>6 DEF Script
  <2>2. Script[k][10] = "audit" /\ Script[k][11] = "commit" BY <1>6 DEF Script
  <2>3. QED BY <2>1, <2>2
<1>7. CASE k = "configure"
  <2>1. 4 \in 1..Len(Script[k]) /\ 5 \in 1..Len(Script[k]) BY <1>7 DEF Script
  <2>2. Script[k][4] = "audit" /\ Script[k][5] = "commit" BY <1>7 DEF Script
  <2>3. QED BY <2>1, <2>2
<1>8. QED BY <1>1, <1>2, <1>3, <1>4, <1>5, <1>6, <1>7 DEF Kinds

\* Where a member row is written, or a session dropped, a commit is next.
LEMMA EndsCommitted ==
  ASSUME NEW k \in Kinds, NEW i \in 1..Len(Script[k]), Script[k][i] \in {"member", "drop"}
  PROVE  \E j \in 1..Len(Script[k]) : i < j /\ Script[k][j] = "commit"
<1>1. \/ (k = "setup" /\ i = 4) \/ (k = "sso" /\ i = 6) \/ (k = "add_member" /\ i = 4)
      \/ (k = "login" /\ i = 2) \/ (k = "logout" /\ i = 1) \/ (k = "purge" /\ i = 1)
  BY Positions
<1>2. i + 1 \in 1..Len(Script[k]) /\ Script[k][i + 1] = "commit"
  <2>1. CASE k = "setup" /\ i = 4 BY <2>1 DEF Script
  <2>2. CASE k = "sso" /\ i = 6 BY <2>2 DEF Script
  <2>3. CASE k = "add_member" /\ i = 4 BY <2>3 DEF Script
  <2>4. CASE k = "login" /\ i = 2 BY <2>4 DEF Script
  <2>5. CASE k = "logout" /\ i = 1 BY <2>5 DEF Script
  <2>6. CASE k = "purge" /\ i = 1 BY <2>6 DEF Script
  <2>7. QED BY <1>1, <2>1, <2>2, <2>3, <2>4, <2>5, <2>6
<1>3. QED BY <1>2

\* The order on which the tables rely.
LEMMA Earlier ==
  ASSUME NEW k \in Kinds, NEW i \in 1..Len(Script[k])
  PROVE  /\ Script[k][i] = "member" => \E j \in 1..(i - 1) : Script[k][j] = "account"
         /\ Script[k][i] = "session" =>
              \E j \in 1..(i - 1) : Script[k][j] \in {"account", "authenticate"}
         /\ Script[k][i] = "audit" => \E j \in 1..(i - 1) : Script[k][j] = Effect[k]
         /\ Script[k][i] = "save" => \E j \in 1..(i - 1) : Script[k][j] = "decide"
<1>1. ASSUME Script[k][i] = "member"
      PROVE  \E j \in 1..(i - 1) : Script[k][j] = "account"
  <2>1. (k = "setup" /\ i = 4) \/ (k = "sso" /\ i = 6) \/ (k = "add_member" /\ i = 4)
    BY <1>1, Positions
  <2>2. i - 1 \in 1..(i - 1) /\ Script[k][i - 1] = "account" BY <2>1 DEF Script
  <2>3. QED BY <2>2
<1>2. ASSUME Script[k][i] = "session"
      PROVE  \E j \in 1..(i - 1) : Script[k][j] \in {"account", "authenticate"}
  <2>1. (k = "setup" /\ i = 8) \/ (k = "login" /\ i = 4) \/ (k = "sso" /\ i = 8)
    BY <1>2, Positions
  <2>2. CASE k = "setup"
    <3>1. 3 \in 1..(i - 1) /\ Script[k][3] = "account" BY <2>1, <2>2 DEF Script
    <3>2. QED BY <3>1
  <2>3. CASE k = "login"
    <3>1. 1 \in 1..(i - 1) /\ Script[k][1] = "authenticate" BY <2>1, <2>3 DEF Script
    <3>2. QED BY <3>1
  <2>4. CASE k = "sso"
    <3>1. 5 \in 1..(i - 1) /\ Script[k][5] = "account" BY <2>1, <2>4 DEF Script
    <3>2. QED BY <3>1
  <2>5. QED BY <2>1, <2>2, <2>3, <2>4
<1>3. ASSUME Script[k][i] = "audit"
      PROVE  \E j \in 1..(i - 1) : Script[k][j] = Effect[k]
  <2>1. \/ k \in {"setup", "login", "add_member"} /\ i = 6
        \/ k = "logout" /\ i = 3
        \/ k = "decide" /\ i = 5
        \/ k = "sso" /\ i = 10
        \/ k = "configure" /\ i = 4
    BY <1>3, Positions
  <2>2. CASE k \in {"setup", "login", "add_member"}
    <3>1. 4 \in 1..(i - 1) /\ Script[k][4] = Effect[k] BY <2>1, <2>2 DEF Script, Effect
    <3>2. QED BY <3>1
  <2>3. CASE k = "logout"
    <3>1. 1 \in 1..(i - 1) /\ Script[k][1] = Effect[k] BY <2>1, <2>3 DEF Script, Effect
    <3>2. QED BY <3>1
  <2>4. CASE k = "configure"
    <3>1. 2 \in 1..(i - 1) /\ Script[k][2] = Effect[k] BY <2>1, <2>4 DEF Script, Effect
    <3>2. QED BY <3>1
  <2>5. CASE k = "decide"
    <3>1. 4 \in 1..(i - 1) /\ Script[k][4] = Effect[k] BY <2>1, <2>5 DEF Script, Effect
    <3>2. QED BY <3>1
  <2>6. CASE k = "sso"
    <3>1. 8 \in 1..(i - 1) /\ Script[k][8] = Effect[k] BY <2>1, <2>6 DEF Script, Effect
    <3>2. QED BY <3>1
  <2>7. QED BY <2>1, <2>2, <2>3, <2>4, <2>5, <2>6
<1>4. ASSUME Script[k][i] = "save"
      PROVE  \E j \in 1..(i - 1) : Script[k][j] = "decide"
  <2>1. k = "decide" /\ i = 4 BY <1>4, Positions
  <2>2. 3 \in 1..(i - 1) /\ Script[k][3] = "decide" BY <2>1 DEF Script
  <2>3. QED BY <2>2
<1>5. QED BY <1>1, <1>2, <1>3, <1>4

-----------------------------------------------------------------------------
(* How the history of a request grows *)

Kind(r) == req[r].kind
At(r) == req[r].at

\* r executes one statement and goes on.
Steps(r, s) ==
  /\ AtStatement(r, s)
  /\ \A q \in Requests \ {r} : req'[q] = req[q]
  /\ req'[r].status = "running"
  /\ req'[r].kind = req[r].kind
  /\ req'[r].at = req[r].at + 1
  /\ req'[r].user = req[r].user
  /\ req'[r].team = req[r].team \/ (s = "authenticate" /\ req'[r].team \in Teams)
  /\ req'[r].role = req[r].role
  /\ req'[r].token = req[r].token
  /\ req'[r].cookie = req[r].cookie
  /\ s = "authenticate" => req[r].cookie # Nobody

LEMMA Typed ==
  ASSUME TypeOK, Placed, NEW r \in Requests
  PROVE  /\ Kind(r) \in Kinds
         /\ At(r) \in Nat
         /\ Running(r) => At(r) \in 1..(Len(Script[Kind(r)]) + 1)
BY DEF TypeOK, Request, Placed, Kind, At

LEMMA Standing ==
  ASSUME TypeOK, Placed, NEW r \in Requests, NEW s, AtStatement(r, s)
  PROVE  /\ Kind(r) \in Kinds
         /\ At(r) \in 1..Len(Script[Kind(r)])
         /\ Script[Kind(r)][At(r)] = s
         /\ Running(r)
<1>1. Running(r) BY DEF AtStatement, Running
<1>2. Len(Script[Kind(r)]) \in 2..11 BY Typed, ScriptLength
<1>3. QED BY <1>1, <1>2, Typed DEF AtStatement, Kind, At

LEMMA StepsPassed ==
  ASSUME TypeOK, Placed, NEW r \in Requests, NEW s, Steps(r, s),
         NEW q \in Requests, NEW y
  PROVE  /\ Running(q)' <=> Running(q)
         /\ Passed(q, y)' <=> Passed(q, y) \/ (q = r /\ y = s)
<1>1. CASE q # r
  BY <1>1 DEF Steps, Passed, Running
<1>2. CASE q = r
  <2>1. /\ At(r) \in Nat /\ At(r) >= 1
        /\ Script[Kind(r)][At(r)] = s
        /\ Running(r)
    <3>1. AtStatement(r, s) BY DEF Steps
    <3>2. QED BY <3>1, Standing, Typed, ScriptLength
  <2>2. 1..(req'[r].at - 1) = 1..(At(r) - 1) \cup {At(r)}
    <3>1. req'[r].at - 1 = At(r) BY <2>1 DEF Steps, At
    <3>2. 1..At(r) = 1..(At(r) - 1) \cup {At(r)} BY <2>1
    <3>3. QED BY <3>1, <3>2
  <2>3. QED BY <1>2, <2>1, <2>2 DEF Steps, Passed, Running, Kind, At
<1>3. QED BY <1>1, <1>2

LEMMA StepsCommitted ==
  ASSUME TypeOK, Placed, NEW r \in Requests, NEW s, Steps(r, s),
         NEW q \in Requests, NEW y
  PROVE  PassedAndCommitted(q, y)'
           => PassedAndCommitted(q, y) \/ (q = r /\ s = "commit" /\ Passed(q, y))
<1>1. CASE q # r
  BY <1>1 DEF Steps, PassedAndCommitted, Running
<1>2. CASE q = r
  <2>1. /\ At(r) \in Nat /\ At(r) >= 1
        /\ Script[Kind(r)][At(r)] = s
        /\ Running(r)
    <3>1. AtStatement(r, s) BY DEF Steps
    <3>2. QED BY <3>1, Standing, Typed, ScriptLength
  <2>2. 1..(req'[r].at - 1) = 1..(At(r) - 1) \cup {At(r)}
    <3>1. req'[r].at - 1 = At(r) BY <2>1 DEF Steps, At
    <3>2. 1..At(r) = 1..(At(r) - 1) \cup {At(r)} BY <2>1
    <3>3. QED BY <3>1, <3>2
  <2>3. SUFFICES ASSUME PassedAndCommitted(r, y)'
                 PROVE  PassedAndCommitted(r, y) \/ (s = "commit" /\ Passed(r, y))
    BY <1>2
  <2>4. PICK i \in 1..(req'[r].at - 1), j \in 1..(req'[r].at - 1) :
               i < j /\ Script[Kind(r)][i] = y /\ Script[Kind(r)][j] = "commit"
    BY <2>3 DEF PassedAndCommitted, Steps, Kind
  <2>5. i \in 1..(At(r) - 1) BY <2>1, <2>2, <2>4
  <2>6. CASE j = At(r)
    BY <2>1, <2>4, <2>5, <2>6 DEF Passed, Kind, At
  <2>7. CASE j # At(r)
    BY <2>1, <2>2, <2>4, <2>5, <2>7 DEF PassedAndCommitted, Kind, At
  <2>8. QED BY <2>6, <2>7
<1>3. QED BY <1>1, <1>2

\* What r has done before it comes to a statement.
LEMMA Before ==
  ASSUME TypeOK, Placed, NEW r \in Requests, NEW s, AtStatement(r, s)
  PROVE  /\ s = "member" => Passed(r, "account")
         /\ s = "session" => Passed(r, "account") \/ Passed(r, "authenticate")
         /\ s = "audit" => Passed(r, Effect[Kind(r)])
         /\ s = "save" => Passed(r, "decide")
         /\ s = "member" => ~Passed(r, "member")
         /\ At(r) = 1 => \A y : ~Passed(r, y) /\ ~PassedAndCommitted(r, y)
<1>1. /\ Kind(r) \in Kinds /\ At(r) \in 1..Len(Script[Kind(r)])
      /\ Script[Kind(r)][At(r)] = s /\ Running(r)
  BY Standing
<1>2. s = "member" => Passed(r, "account")
  BY <1>1, Earlier DEF Passed, Kind, At
<1>3. s = "session" => Passed(r, "account") \/ Passed(r, "authenticate")
  BY <1>1, Earlier DEF Passed, Kind, At
<1>4. s = "audit" => Passed(r, Effect[Kind(r)])
  BY <1>1, Earlier DEF Passed, Kind, At
<1>5. s = "save" => Passed(r, "decide")
  BY <1>1, Earlier DEF Passed, Kind, At
<1>6. s = "member" => ~Passed(r, "member")
  <2>1. SUFFICES ASSUME s = "member", NEW i \in 1..(At(r) - 1), Script[Kind(r)][i] = "member"
                 PROVE  FALSE
    BY DEF Passed, Kind, At
  <2>2. PICK n \in 2..11 : n = Len(Script[Kind(r)]) BY <1>1, ScriptLength
  <2>3. i \in 1..Len(Script[Kind(r)]) /\ i # At(r) BY <1>1, <2>2
  <2>4. QED BY <1>1, <2>1, <2>3, Positions
<1>7. At(r) = 1 => \A y : ~Passed(r, y) /\ ~PassedAndCommitted(r, y)
  BY DEF Passed, PassedAndCommitted, At
<1>8. QED BY <1>2, <1>3, <1>4, <1>5, <1>6, <1>7

\* A request that has executed all of its script has reported and committed.
LEMMA WholeScript ==
  ASSUME TypeOK, Placed, NEW r \in Requests, Running(r), At(r) = Len(Script[Kind(r)]) + 1
  PROVE  /\ Kind(r) # "purge" => PassedAndCommitted(r, "audit")
         /\ \A y \in {"member", "drop"} : Passed(r, y) => PassedAndCommitted(r, y)
         /\ Kind(r) \in {"login", "logout"} => Passed(r, "drop")
<1>1. Kind(r) \in Kinds BY Typed
<1>2. Len(Script[Kind(r)]) \in 2..11 BY <1>1, ScriptLength
<1>3. 1..(At(r) - 1) = 1..Len(Script[Kind(r)]) BY <1>2
<1>4. Kind(r) # "purge" => PassedAndCommitted(r, "audit")
  BY <1>1, <1>3, EndsReported DEF PassedAndCommitted, Kind, At
<1>5. ASSUME NEW y \in {"member", "drop"}, Passed(r, y)
      PROVE  PassedAndCommitted(r, y)
  <2>1. PICK i \in 1..Len(Script[Kind(r)]) : Script[Kind(r)][i] = y
    BY <1>3, <1>5 DEF Passed, Kind, At
  <2>2. \E j \in 1..Len(Script[Kind(r)]) : i < j /\ Script[Kind(r)][j] = "commit"
    BY <1>1, <2>1, EndsCommitted
  <2>3. QED BY <1>3, <2>1, <2>2 DEF PassedAndCommitted, Kind, At
<1>6. ASSUME Kind(r) \in {"login", "logout"}
      PROVE  Passed(r, "drop")
  <2>1. \E i \in 1..Len(Script[Kind(r)]) : Script[Kind(r)][i] = "drop"
    <3>1. CASE Kind(r) = "login"
      <4>1. 2 \in 1..Len(Script[Kind(r)]) /\ Script[Kind(r)][2] = "drop" BY <3>1 DEF Script
      <4>2. QED BY <4>1
    <3>2. CASE Kind(r) = "logout"
      <4>1. 1 \in 1..Len(Script[Kind(r)]) /\ Script[Kind(r)][1] = "drop" BY <3>2 DEF Script
      <4>2. QED BY <4>1
    <3>3. QED BY <1>6, <3>1, <3>2
  <2>2. QED BY <1>3, <2>1 DEF Passed, Kind, At
<1>7. QED BY <1>4, <1>5, <1>6

-----------------------------------------------------------------------------
(* One statement keeps the invariant *)

LEMMA StepFacts ==
  ASSUME TypeOK, Placed, NEW r \in Requests, NEW s, Steps(r, s)
  PROVE  /\ Placed'
         /\ \A q \in Requests :
              /\ req'[q].status = req[q].status
              /\ req'[q].kind = req[q].kind
              /\ req'[q].user = req[q].user
              /\ req'[q].role = req[q].role
              /\ req'[q].cookie = req[q].cookie
              /\ s # "authenticate" => req'[q].team = req[q].team
         /\ \A q \in Requests : \A y :
              /\ Running(q)' <=> Running(q)
              /\ Passed(q, y)' <=> Passed(q, y) \/ (q = r /\ y = s)
              /\ PassedAndCommitted(q, y)'
                   => PassedAndCommitted(q, y) \/ (q = r /\ s = "commit" /\ Passed(q, y))
         /\ \A c \in Sids : Settled(c)' <=> Settled(c)
         /\ \A q \in Requests : SettingUp(q)' => (SettingUp(q) /\ q # r) \/ (q = r /\ s = "team")
<1>1. AtStatement(r, s) BY DEF Steps
<1>2. /\ Kind(r) \in Kinds /\ At(r) \in 1..Len(Script[Kind(r)])
      /\ Script[Kind(r)][At(r)] = s /\ Running(r)
  BY <1>1, Standing
<1>3. PICK n \in 2..11 : n = Len(Script[Kind(r)]) BY <1>2, ScriptLength
<1>4. \A q \in Requests :
        /\ req'[q].status = req[q].status
        /\ req'[q].kind = req[q].kind
        /\ req'[q].user = req[q].user
        /\ req'[q].role = req[q].role
        /\ req'[q].token = req[q].token
        /\ req'[q].cookie = req[q].cookie
        /\ s # "authenticate" => req'[q].team = req[q].team
  BY <1>2 DEF Steps, Running
<1>5. \A c \in Sids : Settled(c)' <=> Settled(c)
  BY <1>4 DEF Settled, Sids
<1>6. Placed'
  <2>1. ASSUME NEW q \in Requests, Running(q)'
        PROVE  /\ req'[q].at \in 1..(Len(Script[req'[q].kind]) + 1)
               /\ req'[q].team \in Teams
               /\ req'[q].kind = "login" /\ req'[q].cookie = Nobody => req'[q].at \notin {2, 3}
    <3>1. CASE q # r
      BY <2>1, <3>1 DEF Steps, Placed, Running
    <3>2. CASE q = r
      <4>1. req'[r].at = At(r) + 1 /\ req'[r].kind = Kind(r) /\ req'[r].cookie = req[r].cookie
        BY DEF Steps, Kind, At
      <4>2. At(r) + 1 \in 1..(n + 1) BY <1>2, <1>3
      <4>3. Kind(r) = "login" /\ req[r].cookie = Nobody => At(r) \notin {1, 2}
        BY <1>2, Positions DEF Placed, Steps, Kind, At
      <4>4. At(r) + 1 \in {2, 3} => At(r) \in {1, 2} BY <1>2, <1>3
      <4>5. req'[r].team \in Teams BY <1>2 DEF Steps, Placed
      <4>6. QED BY <1>3, <3>2, <4>1, <4>2, <4>3, <4>4, <4>5
    <3>3. QED BY <3>1, <3>2
  <2>2. ASSUME NEW q \in Requests, Running(q)'
        PROVE  /\ req'[q].user \in Users
               /\ req'[q].role \in 1..3
               /\ req'[q].kind = "sso" => req'[q].token \in Tokens
               /\ req'[q].cookie # Nobody => Settled(req[q].cookie)'
               /\ req'[q].kind \notin {"setup", "sso", "login"} => req'[q].cookie # Nobody
    <3>1. Running(q) BY <1>4, <2>2 DEF Running
    <3>2. req[q].cookie # Nobody => req[q].cookie \in Sids BY DEF TypeOK, Request
    <3>3. QED BY <1>4, <1>5, <3>1, <3>2 DEF Placed
  <2>3. QED BY <2>1, <2>2 DEF Placed
<1>7. \A q \in Requests : \A y :
        /\ Running(q)' <=> Running(q)
        /\ Passed(q, y)' <=> Passed(q, y) \/ (q = r /\ y = s)
        /\ PassedAndCommitted(q, y)'
             => PassedAndCommitted(q, y) \/ (q = r /\ s = "commit" /\ Passed(q, y))
  BY StepsPassed, StepsCommitted
<1>8. ASSUME NEW q \in Requests, SettingUp(q)'
      PROVE  (SettingUp(q) /\ q # r) \/ (q = r /\ s = "team")
  <2>1. CASE q # r BY <1>8, <2>1 DEF Steps, SettingUp, Running
  <2>2. CASE q = r
    <3>1. At(r) + 1 = 3 /\ Kind(r) = "setup" BY <1>8, <2>2 DEF Steps, SettingUp, Kind, At
    <3>2. At(r) = 2 BY <1>2, <1>3, <3>1
    <3>3. QED BY <1>2, <2>2, <3>1, <3>2, Positions
  <2>3. QED BY <2>1, <2>2
<1>9. QED BY <1>4, <1>5, <1>6, <1>7, <1>8

\* What the statement s of r may do to the tables.
Writes(r, s) ==
  /\ signedOut' = signedOut
  /\ \/ s = "commit" /\ disk' = db /\ db' = db
     \/ s # "commit" /\ disk' = disk
     \/ s = "save" /\ disk' = [disk EXCEPT !.changed = disk.changed \cup decided]
  /\ void \subseteq void'
  /\ decided \subseteq decided' \cup db'.changed
  /\ \A u \in Users : db.accounts[u] # "none" => db'.accounts[u] # "none"
  /\ s \in {"account", "authenticate"} => db'.accounts[req[r].user] # "none"
  /\ req'[r].known => req[r].known \/ db'.accounts[req[r].user] # "none"
  /\ \A c \in Sids \ {r} : db.sessions[c] = NoSession => db'.sessions[c] = NoSession
  /\ s = "drop" => db'.sessions[req[r].cookie] = NoSession
  /\ db.changed \subseteq db'.changed
  /\ s # "audit" => db'.trail = db.trail
  /\ s = "audit" => db'.trail = db.trail \cup {r}
  /\ s = "decide" => r \in decided'
  /\ s = Effect[Kind(r)] => r \in db'.changed \cup void'
  /\ \/ s # "member" /\ db'.role = db.role /\ lastWriter' = lastWriter
     \/ s = "member" /\ \A t \in Teams, u \in Users :
          IF t = req[r].team /\ u = req[r].user
            THEN db'.role[t][u] = req[r].role /\ lastWriter'[t][u] = r
            ELSE db'.role[t][u] = db.role[t][u] /\ lastWriter'[t][u] = lastWriter[t][u]

LEMMA StepInv ==
  ASSUME AccessInv, NEW r \in Requests, NEW s, Steps(r, s), Writes(r, s),
         TypeOK', Sound(db'), SetUpInv'
  PROVE  AccessInv'
<1>1. TypeOK /\ Placed BY DEF AccessInv
<1>2. Running(r) BY <1>1, Standing DEF Steps
<1>3. /\ Placed'
      /\ \A q \in Requests :
           /\ req'[q].status = req[q].status
           /\ req'[q].kind = req[q].kind
           /\ req'[q].user = req[q].user
           /\ req'[q].role = req[q].role
           /\ req'[q].cookie = req[q].cookie
           /\ s # "authenticate" => req'[q].team = req[q].team
      /\ \A q \in Requests : \A y :
           /\ Running(q)' <=> Running(q)
           /\ Passed(q, y)' <=> Passed(q, y) \/ (q = r /\ y = s)
           /\ PassedAndCommitted(q, y)'
                => PassedAndCommitted(q, y) \/ (q = r /\ s = "commit" /\ Passed(q, y))
      /\ \A c \in Sids : Settled(c)' <=> Settled(c)
  BY <1>1, StepFacts
<1>4. db \in Database /\ disk \in Database /\ req \in [Requests -> Request] BY <1>1 DEF TypeOK
<1>5. \/ s = "commit" /\ disk' = db /\ db' = db
      \/ /\ s # "commit"
         /\ disk'.teams = disk.teams /\ disk'.accounts = disk.accounts
         /\ disk'.role = disk.role /\ disk'.sessions = disk.sessions
         /\ disk'.trail = disk.trail /\ disk.changed \subseteq disk'.changed
  BY <1>4 DEF Writes, Database
<1>6. Sound(disk')
  <2>1. CASE s = "commit" BY <1>5, <2>1 DEF AccessInv
  <2>2. CASE s # "commit" BY <1>5, <2>2 DEF AccessInv, Sound
  <2>3. QED BY <2>1, <2>2
<1>7. AccountInv'
  <2>1. ASSUME NEW q \in Requests, Passed(q, "account")' \/ Passed(q, "authenticate")'
        PROVE  db'.accounts[req'[q].user] # "none"
    <3>1. req[q].user \in Users BY <1>1, <1>3, <2>1 DEF Placed, Passed
    <3>2. CASE q = r /\ s \in {"account", "authenticate"} BY <1>3, <3>2 DEF Writes
    <3>3. CASE ~(q = r /\ s \in {"account", "authenticate"})
      <4>1. Passed(q, "account") \/ Passed(q, "authenticate") BY <1>3, <2>1, <3>3
      <4>2. QED BY <1>3, <3>1, <4>1 DEF Writes, AccessInv, AccountInv
    <3>4. QED BY <3>2, <3>3
  <2>2. ASSUME NEW q \in Requests, Running(q)', req'[q].known
        PROVE  db'.accounts[req'[q].user] # "none"
    <3>1. Running(q) /\ req[q].user \in Users BY <1>1, <1>3, <2>2 DEF Placed
    <3>2. req[q].known \/ db'.accounts[req[q].user] # "none"
      BY <2>2 DEF Writes, Steps
    <3>3. QED BY <1>3, <3>1, <3>2 DEF Writes, AccessInv, AccountInv
  <2>3. QED BY <2>1, <2>2 DEF AccountInv
<1>8. SignOutInv'
  <2>1. \A c \in signedOut' : Settled(c)'
    BY <1>1, <1>3 DEF Writes, AccessInv, SignOutInv, TypeOK
  <2>2. ASSUME NEW q \in Requests, req'[q].cookie # Nobody, Passed(q, "drop")'
        PROVE  db'.sessions[req'[q].cookie] = NoSession
    <3>1. req'[q].cookie = req[q].cookie /\ Running(q) BY <1>3, <2>2 DEF Passed
    <3>2. CASE q = r /\ s = "drop" BY <3>1, <3>2 DEF Writes
    <3>3. CASE ~(q = r /\ s = "drop")
      <4>1. Passed(q, "drop") BY <1>3, <2>2, <3>3
      <4>2. db.sessions[req[q].cookie] = NoSession
        BY <2>2, <3>1, <4>1 DEF AccessInv, SignOutInv
      <4>3. req[q].cookie \in Sids \ {r}
        <5>1. req[q].cookie \in Sids BY <1>4, <2>2, <3>1 DEF Request
        <5>2. Settled(req[q].cookie) BY <1>1, <2>2, <3>1 DEF Placed
        <5>3. QED BY <1>2, <5>1, <5>2 DEF Settled, Running
      <4>4. QED BY <3>1, <4>2, <4>3 DEF Writes
    <3>4. QED BY <3>2, <3>3
  <2>3. ASSUME NEW q \in Requests, req'[q].cookie # Nobody, PassedAndCommitted(q, "drop")'
        PROVE  disk'.sessions[req'[q].cookie] = NoSession
    <3>1. req'[q].cookie = req[q].cookie BY <1>3
    <3>2. PassedAndCommitted(q, "drop") => Passed(q, "drop") BY DEF PassedAndCommitted, Passed
    <3>3. CASE s = "commit"
      <4>1. Passed(q, "drop") BY <1>3, <2>3, <3>2
      <4>2. QED BY <1>5, <2>3, <3>1, <3>3, <4>1 DEF AccessInv, SignOutInv
    <3>4. CASE s # "commit"
      <4>1. PassedAndCommitted(q, "drop") BY <1>3, <2>3, <3>4
      <4>2. QED BY <1>5, <2>3, <3>1, <3>4, <4>1 DEF AccessInv, SignOutInv
    <3>5. QED BY <3>3, <3>4
  <2>4. QED BY <2>1, <2>2, <2>3 DEF SignOutInv
<1>9. SignedOutStaysOut'
  <2>1. ASSUME NEW c \in signedOut
        PROVE  db'.sessions[c] = NoSession /\ disk'.sessions[c] = NoSession
    <3>1. c \in Sids BY <1>1 DEF TypeOK
    <3>2. c # r BY <1>2 DEF AccessInv, SignOutInv, Settled, Running
    <3>3. db.sessions[c] = NoSession /\ disk.sessions[c] = NoSession
      BY DEF AccessInv, SignedOutStaysOut
    <3>4. QED BY <1>5, <3>1, <3>2, <3>3 DEF Writes
  <2>2. QED BY <2>1 DEF Writes, SignedOutStaysOut
<1>10. AuditInv'
  <2>1. /\ db.trail \subseteq db'.trail /\ db'.trail \subseteq db.trail \cup {r}
        /\ s = "audit" => r \in db'.trail
        /\ s # "audit" => db'.trail = db.trail
        /\ db.changed \subseteq db'.changed /\ void \subseteq void'
        /\ decided \subseteq decided' \cup db'.changed
    BY DEF Writes
  <2>2. db'.trail \subseteq db'.changed \cup void'
    <3>1. s = "audit" => r \in db.changed \cup void
      BY <1>1, Before DEF Steps, AccessInv, AuditInv, Kind
    <3>2. db.trail \subseteq db.changed \cup void BY DEF AccessInv, AuditInv
    <3>3. QED BY <2>1, <3>1, <3>2
  <2>3. ASSUME NEW q \in Requests
        PROVE  /\ Passed(q, "decide")' => q \in db'.changed \cup decided' \cup void'
               /\ Passed(q, Effect[req[q].kind])' => q \in db'.changed \cup void'
               /\ Passed(q, "audit")' => q \in db'.trail
               /\ PassedAndCommitted(q, "audit")' => q \in disk'.trail
               /\ req'[q].status = "ok" => q \in db'.trail
    <3>1. ASSUME Passed(q, Effect[req[q].kind])' PROVE q \in db'.changed \cup void'
      <4>1. PICK y : y = Effect[req[q].kind] OBVIOUS
      <4>2. Passed(q, y)' BY <1>3, <3>1, <4>1 DEF Passed
      <4>3. Passed(q, y) \/ (q = r /\ s = Effect[Kind(r)]) BY <1>3, <4>1, <4>2 DEF Kind
      <4>4. Passed(q, y) => q \in db.changed \cup void BY <4>1 DEF AccessInv, AuditInv
      <4>5. s = Effect[Kind(r)] => r \in db'.changed \cup void' BY DEF Writes
      <4>6. QED BY <2>1, <4>3, <4>4, <4>5
    <3>2. ASSUME Passed(q, "audit")' PROVE q \in db'.trail
      BY <1>3, <2>1, <3>2 DEF AccessInv, AuditInv
    <3>3. ASSUME PassedAndCommitted(q, "audit")' PROVE q \in disk'.trail
      <4>1. PassedAndCommitted(q, "audit") => Passed(q, "audit")
        BY DEF PassedAndCommitted, Passed
      <4>2. CASE s = "commit" BY <1>3, <1>5, <3>3, <4>1, <4>2 DEF AccessInv, AuditInv
      <4>3. CASE s # "commit" BY <1>3, <1>5, <3>3, <4>3 DEF AccessInv, AuditInv
      <4>4. QED BY <4>2, <4>3
    <3>4. req'[q].status = "ok" => q \in db'.trail
      BY <1>3, <2>1 DEF AccessInv, AuditInv
    <3>5. ASSUME Passed(q, "decide")' PROVE q \in db'.changed \cup decided' \cup void'
      <4>1. Passed(q, "decide") \/ (q = r /\ s = "decide") BY <1>3, <3>5
      <4>2. Passed(q, "decide") => q \in db.changed \cup decided \cup void
        BY DEF AccessInv, AuditInv
      <4>3. s = "decide" => r \in decided' BY DEF Writes
      <4>4. QED BY <2>1, <4>1, <4>2, <4>3
    <3>6. req'[q].kind = req[q].kind BY <1>3
    <3>7. QED BY <3>1, <3>2, <3>3, <3>4, <3>5, <3>6
  <2>4. QED BY <2>2, <2>3 DEF AuditInv
<1>11. AuditTellsChanges'
  <2>1. disk'.trail \subseteq disk'.changed \cup void'
    <3>1. void \subseteq void' BY DEF Writes
    <3>2. CASE s = "commit"
      BY <1>5, <3>1, <3>2 DEF AccessInv, AuditInv
    <3>3. CASE s # "commit"
      BY <1>5, <3>1, <3>3 DEF AccessInv, AuditTellsChanges
    <3>4. QED BY <3>2, <3>3
  <2>2. \A q \in Requests : req'[q].status = "ok" => q \in disk'.trail
    <3>1. CASE s = "commit" BY <1>3, <1>5, <3>1 DEF AccessInv, AuditInv
    <3>2. CASE s # "commit" BY <1>3, <1>5, <3>2 DEF AccessInv, AuditTellsChanges
    <3>3. QED BY <3>1, <3>2
  <2>3. QED BY <2>1, <2>2 DEF AuditTellsChanges
<1>12. RoleInv'
  <2>1. ASSUME NEW t \in Teams, NEW u \in Users, NEW q \in Requests, lastWriter'[t][u] = q
        PROVE  /\ req'[q].status # "idle"
               /\ Running(q)' => Passed(q, "member")' /\ req'[q].team = t /\ req'[q].user = u
               /\ req'[q].status \in {"running", "ok"} => db'.role[t][u] = req'[q].role
               /\ req'[q].status = "ok" \/ PassedAndCommitted(q, "member")'
                    => disk'.role[t][u] = req'[q].role
               /\ req'[q].status = "ok" => req'[q].role \in 1..3
    <3>1. CASE s = "member" /\ t = req[r].team /\ u = req[r].user
      <4>1. q = r /\ db'.role[t][u] = req[r].role BY <2>1, <3>1 DEF Writes
      <4>2. ~PassedAndCommitted(r, "member")'
        <5>1. ~Passed(r, "member") BY <1>1, <3>1, Before DEF Steps
        <5>2. ~PassedAndCommitted(r, "member") BY <5>1 DEF PassedAndCommitted, Passed
        <5>3. QED BY <1>3, <3>1, <5>2
      <4>3. QED BY <1>2, <1>3, <3>1, <4>1, <4>2 DEF Running
    <3>2. CASE ~(s = "member" /\ t = req[r].team /\ u = req[r].user)
      <4>1. lastWriter[t][u] = q /\ db'.role[t][u] = db.role[t][u]
        BY <2>1, <3>2 DEF Writes
      <4>2. /\ req[q].status # "idle"
            /\ Running(q) => Passed(q, "member") /\ req[q].team = t /\ req[q].user = u
            /\ req[q].status \in {"running", "ok"} => db.role[t][u] = req[q].role
            /\ req[q].status = "ok" \/ PassedAndCommitted(q, "member")
                 => disk.role[t][u] = req[q].role
            /\ req[q].status = "ok" => req[q].role \in 1..3
        <5>1. q # Nobody BY DEF Sids
        <5>2. QED BY <4>1, <5>1 DEF AccessInv, RoleInv
      <4>3. req'[q].team = req[q].team
        <5>1. SUFFICES ASSUME q = r, s = "authenticate" PROVE FALSE
          BY <1>3 DEF Steps
        <5>2. At(r) = 1 BY <1>1, <5>1, Standing, Positions DEF Steps
        <5>3. Passed(r, "member") BY <1>2, <4>2, <5>1
        <5>4. QED BY <1>1, <5>2, <5>3, Before DEF Steps
      <4>4. req'[q].status = "ok" \/ PassedAndCommitted(q, "member")'
              => disk'.role[t][u] = req'[q].role
        <5>1. CASE s = "commit"
          <6>1. PassedAndCommitted(q, "member") => Passed(q, "member")
            BY DEF PassedAndCommitted, Passed
          <6>2. Passed(q, "member") => req[q].status = "running" BY DEF Passed, Running
          <6>3. PassedAndCommitted(q, "member")' => Passed(q, "member") BY <1>3, <6>1
          <6>4. QED BY <1>3, <1>5, <4>2, <5>1, <6>2, <6>3
        <5>2. CASE s # "commit" BY <1>3, <1>5, <4>2, <5>2
        <5>3. QED BY <5>1, <5>2
      <4>5. QED BY <1>3, <4>1, <4>2, <4>3, <4>4
    <3>3. QED BY <3>1, <3>2
  <2>2. \A t \in Teams, u \in Users : lastWriter'[t][u] # Nobody => lastWriter'[t][u] \in Requests
    BY DEF TypeOK
  <2>3. QED BY <2>1, <2>2 DEF RoleInv
<1>13. QED
  BY <1>3, <1>6, <1>7, <1>8, <1>9, <1>10, <1>11, <1>12 DEF AccessInv

-----------------------------------------------------------------------------
(* A request begins, begins anew or is over *)

Leaves(r) ==
  /\ req' \in [Requests -> Request]
  /\ \A q \in Requests \ {r} : req'[q] = req[q]
  /\ db' = db /\ disk' = disk /\ lastWriter' = lastWriter /\ crashes' = crashes
  /\ void \subseteq void' /\ decided \subseteq decided' \cup void'
  /\ req[r].status # "ok" /\ req'[r].status # "idle"

\* At the first statement of its script, or, at a sign-in without a cookie,
\* past the three that concern the old session.
Begins(r) ==
  /\ req'[r].user \in Users
  /\ req'[r].team \in Teams
  /\ req'[r].role \in 1..3
  /\ req'[r].kind = "sso" => req'[r].token \in Tokens
  /\ req'[r].cookie # Nobody => req'[r].cookie # r /\ Settled(req'[r].cookie)
  /\ req'[r].kind \notin {"setup", "sso", "login"} => req'[r].cookie # Nobody
  /\ req'[r].known => Running(r) /\ req[r].known /\ req'[r].user = req[r].user
  /\ \A t \in Teams, u \in Users : lastWriter[t][u] # r
  /\ \/ req'[r].at = 1
     \/ /\ req'[r].at = 4 /\ req'[r].kind = "login" /\ req'[r].cookie = Nobody
        /\ db.accounts[req'[r].user] # "none"

LEMMA LeaveInv ==
  ASSUME AccessInv, NEW r \in Requests, Leaves(r), TypeOK',
         req'[r].status = "running" => Begins(r),
         req'[r].status = "ok" =>
           /\ Running(r) /\ At(r) = Len(Script[Kind(r)]) + 1
           /\ Kind(r) # "purge" /\ req'[r].role = req[r].role,
         \/ signedOut' = signedOut
         \/ /\ signedOut' = signedOut \cup {req[r].cookie}
            /\ Running(r) /\ At(r) = Len(Script[Kind(r)]) + 1
            /\ Kind(r) \in {"login", "logout"} /\ req[r].cookie # Nobody
  PROVE  AccessInv'
<1>1. TypeOK /\ Placed BY DEF AccessInv
<1>2. ASSUME NEW q \in Requests \ {r}
      PROVE  /\ req'[q] = req[q]
             /\ Running(q)' <=> Running(q)
             /\ SettingUp(q)' <=> SettingUp(q)
             /\ \A y : (Passed(q, y)' <=> Passed(q, y))
                       /\ (PassedAndCommitted(q, y)' <=> PassedAndCommitted(q, y))
  BY DEF Leaves, Running, SettingUp, Passed, PassedAndCommitted
<1>3. ASSUME NEW y, Passed(r, y)'
      PROVE  /\ y \in {"authenticate", "drop", "commit"}
             /\ req'[r].kind = "login" /\ req'[r].cookie = Nobody
             /\ db.accounts[req'[r].user] # "none"
  <2>1. req'[r].at # 1 BY <1>3 DEF Passed
  <2>2. /\ req'[r].at = 4 /\ req'[r].kind = "login" /\ req'[r].cookie = Nobody
        /\ db.accounts[req'[r].user] # "none"
    BY <1>3, <2>1 DEF Passed, Running, Begins
  <2>3. \A i \in 1..3 : Script["login"][i] \in {"authenticate", "drop", "commit"}
    BY DEF Script
  <2>4. QED BY <1>3, <2>2, <2>3 DEF Passed
<1>4. \A y : PassedAndCommitted(r, y)' => Passed(r, y)' BY DEF PassedAndCommitted, Passed
<1>5. ~SettingUp(r)' BY DEF SettingUp, Running, Begins
<1>6. \A c \in Sids : Settled(c) => Settled(c)' BY DEF Leaves, Settled, Sids
<1>7. req'[r].status = "ok" => r \in disk.trail /\ r \in db.trail
  <2>1. SUFFICES ASSUME req'[r].status = "ok" PROVE r \in disk.trail /\ r \in db.trail
    OBVIOUS
  <2>2. PassedAndCommitted(r, "audit") BY <1>1, <2>1, WholeScript
  <2>3. Passed(r, "audit") BY <2>2 DEF PassedAndCommitted, Passed
  <2>4. QED BY <2>2, <2>3 DEF AccessInv, AuditInv
<1>8. Placed'
  <2>1. ASSUME NEW q \in Requests \ {r}, Running(q)'
        PROVE  /\ req'[q].at \in 1..(Len(Script[req'[q].kind]) + 1)
               /\ req'[q].user \in Users
               /\ req'[q].team \in Teams
               /\ req'[q].role \in 1..3
               /\ req'[q].kind = "sso" => req'[q].token \in Tokens
               /\ req'[q].cookie # Nobody => Settled(req[q].cookie)'
               /\ req'[q].kind \notin {"setup", "sso", "login"} => req'[q].cookie # Nobody
               /\ req'[q].kind = "login" /\ req'[q].cookie = Nobody => req'[q].at \notin {2, 3}
    <3>1. req'[q] = req[q] /\ Running(q) BY <1>2, <2>1
    <3>2. req[q].cookie # Nobody => Settled(req'[q].cookie)
      BY <1>1, <3>1 DEF Placed
    <3>3. req[q].cookie # Nobody => req[q].cookie \in Sids BY <1>1 DEF TypeOK, Request
    <3>4. req'[q].cookie # Nobody => Settled(req[q].cookie)'
      BY <1>6, <3>1, <3>2, <3>3 DEF Settled
    <3>5. QED BY <1>1, <3>1, <3>4 DEF Placed
  <2>2. ASSUME Running(r)'
        PROVE  /\ req'[r].at \in 1..(Len(Script[req'[r].kind]) + 1)
               /\ req'[r].user \in Users
               /\ req'[r].team \in Teams
               /\ req'[r].role \in 1..3
               /\ req'[r].kind = "sso" => req'[r].token \in Tokens
               /\ req'[r].cookie # Nobody => Settled(req[r].cookie)'
               /\ req'[r].kind \notin {"setup", "sso", "login"} => req'[r].cookie # Nobody
               /\ req'[r].kind = "login" /\ req'[r].cookie = Nobody => req'[r].at \notin {2, 3}
    <3>1. Begins(r) BY <2>2 DEF Running
    <3>2. req'[r].at \in 1..(Len(Script[req'[r].kind]) + 1)
      <4>1. req'[r] \in Request BY DEF Leaves
      <4>2. req'[r].kind \in Kinds BY <4>1 DEF Request
      <4>3. PICK n \in 2..11 : n = Len(Script[req'[r].kind]) BY <4>2, ScriptLength
      <4>4. req'[r].at = 4 => n = 7
        <5>1. Len(Script["login"]) = 7 BY DEF Script
        <5>2. req'[r].at = 4 => req'[r].kind = "login" BY <3>1 DEF Begins
        <5>3. QED BY <4>3, <5>1, <5>2
      <4>5. req'[r].at = 1 \/ req'[r].at = 4 BY <3>1 DEF Begins
      <4>6. n \in 2..11 /\ 1 \in 1..(n + 1) BY <4>3
      <4>7. n = 7 => 4 \in 1..(n + 1) OBVIOUS
      <4>8. QED BY <4>3, <4>4, <4>5, <4>6, <4>7
    <3>3. req'[r].cookie # Nobody => Settled(req[r].cookie)'
      <4>1. req'[r].cookie # Nobody => req'[r].cookie \in Sids \ {r}
        BY <3>1 DEF Leaves, Request, Begins
      <4>2. QED BY <3>1, <4>1 DEF Leaves, Begins, Settled, Sids
    <3>4. QED BY <3>1, <3>2, <3>3 DEF Begins
  <2>3. QED BY <2>1, <2>2 DEF Placed
<1>9. Sound(db') /\ Sound(disk') BY DEF Leaves, AccessInv
<1>10. SetUpInv' BY <1>2, <1>5 DEF Leaves, AccessInv, SetUpInv
<1>11. AccountInv'
  <2>1. ASSUME NEW q \in Requests \ {r},
               \/ Passed(q, "account")' \/ Passed(q, "authenticate")'
               \/ Running(q)' /\ req'[q].known
        PROVE  db'.accounts[req'[q].user] # "none"
    BY <1>2, <2>1 DEF Leaves, AccessInv, AccountInv
  <2>2. ASSUME \/ Passed(r, "account")' \/ Passed(r, "authenticate")'
               \/ Running(r)' /\ req'[r].known
        PROVE  db'.accounts[req'[r].user] # "none"
    <3>1. CASE Passed(r, "account")' \/ Passed(r, "authenticate")'
      BY <1>3, <3>1 DEF Leaves
    <3>2. CASE Running(r)' /\ req'[r].known
      BY <3>2 DEF Leaves, Running, Begins, AccessInv, AccountInv
    <3>3. QED BY <2>2, <3>1, <3>2
  <2>3. QED BY <2>1, <2>2 DEF AccountInv
<1>12. SignOutInv' /\ SignedOutStaysOut'
  <2>1. ASSUME NEW c \in signedOut'
        PROVE  /\ c \in Sids /\ Settled(c)
               /\ db.sessions[c] = NoSession /\ disk.sessions[c] = NoSession
    <3>1. CASE c \in signedOut
      BY <1>1, <3>1 DEF TypeOK, AccessInv, SignOutInv, SignedOutStaysOut
    <3>2. CASE c \notin signedOut
      <4>1. /\ c = req[r].cookie /\ c # Nobody
            /\ Running(r) /\ At(r) = Len(Script[Kind(r)]) + 1
            /\ Kind(r) \in {"login", "logout"}
        BY <2>1, <3>2
      <4>2. Passed(r, "drop") /\ PassedAndCommitted(r, "drop") BY <1>1, <4>1, WholeScript
      <4>3. QED
        BY <1>1, <4>1, <4>2 DEF TypeOK, Request, Placed, AccessInv, SignOutInv
    <3>3. QED BY <3>1, <3>2
  <2>2. SignedOutStaysOut' BY <2>1 DEF Leaves, SignedOutStaysOut
  <2>3. \A c \in signedOut' : Settled(c)' BY <1>6, <2>1
  <2>4. ASSUME NEW q \in Requests, req'[q].cookie # Nobody
        PROVE  /\ Passed(q, "drop")' => db'.sessions[req'[q].cookie] = NoSession
               /\ PassedAndCommitted(q, "drop")' => disk'.sessions[req'[q].cookie] = NoSession
    <3>1. CASE q = r BY <1>3, <1>4, <2>4, <3>1
    <3>2. CASE q # r BY <1>2, <2>4, <3>2 DEF Leaves, AccessInv, SignOutInv
    <3>3. QED BY <3>1, <3>2
  <2>5. QED BY <2>2, <2>3, <2>4 DEF SignOutInv
<1>13. AuditInv'
  <2>1. /\ db' = db /\ disk' = disk
        /\ void \subseteq void' /\ decided \subseteq decided' \cup void'
    BY DEF Leaves
  <2>2. ASSUME NEW q \in Requests
        PROVE  /\ Passed(q, "decide")' => q \in db'.changed \cup decided' \cup void'
               /\ Passed(q, Effect[req[q].kind])' => q \in db'.changed \cup void'
               /\ Passed(q, "audit")' => q \in db'.trail
               /\ PassedAndCommitted(q, "audit")' => q \in disk'.trail
               /\ req'[q].status = "ok" => q \in db'.trail
    <3>1. CASE q # r
      <4>1. req'[q] = req[q] BY <1>2, <3>1
      <4>2. PICK y : y = Effect[req[q].kind] OBVIOUS
      <4>3. Passed(q, Effect[req[q].kind])' => Passed(q, y)
        BY <4>1, <4>2 DEF Passed, Running
      <4>4. Passed(q, y) => q \in db.changed \cup void BY <4>2 DEF AccessInv, AuditInv
      <4>5. Passed(q, "decide") => q \in db.changed \cup decided \cup void
        BY DEF AccessInv, AuditInv
      <4>6. Passed(q, "decide")' <=> Passed(q, "decide") BY <1>2, <3>1
      <4>7. /\ Passed(q, "audit")' => q \in db'.trail
            /\ PassedAndCommitted(q, "audit")' => q \in disk'.trail
            /\ req'[q].status = "ok" => q \in db'.trail
        BY <1>2, <2>1, <3>1 DEF AccessInv, AuditInv
      <4>8. QED BY <2>1, <4>3, <4>4, <4>5, <4>6, <4>7
    <3>2. CASE q = r
      <4>1. ~Passed(r, Effect[req[r].kind])'
        <5>1. SUFFICES ASSUME NEW y, y = Effect[req'[r].kind], Passed(r, y)' PROVE FALSE
          BY DEF Passed
        <5>2. y = "session" BY <1>3, <5>1 DEF Effect
        <5>3. QED BY <1>3, <5>1, <5>2
      <4>2. ~Passed(r, "decide")' /\ ~Passed(r, "audit")' /\ ~PassedAndCommitted(r, "audit")'
        BY <1>3, <1>4
      <4>3. QED BY <1>7, <2>1, <3>2, <4>1, <4>2
    <3>3. QED BY <3>1, <3>2
  <2>3. db'.trail \subseteq db'.changed \cup void'
    BY <2>1 DEF AccessInv, AuditInv
  <2>4. QED BY <2>2, <2>3 DEF AuditInv
<1>14. AuditTellsChanges'
  BY <1>2, <1>7 DEF Leaves, AccessInv, AuditTellsChanges
<1>15. RoleInv'
  <2>1. ASSUME NEW t \in Teams, NEW u \in Users, NEW q \in Requests, lastWriter[t][u] = q
        PROVE  /\ req'[q].status # "idle"
               /\ Running(q)' => Passed(q, "member")' /\ req'[q].team = t /\ req'[q].user = u
               /\ req'[q].status \in {"running", "ok"} => db.role[t][u] = req'[q].role
               /\ req'[q].status = "ok" \/ PassedAndCommitted(q, "member")'
                    => disk.role[t][u] = req'[q].role
               /\ req'[q].status = "ok" => req'[q].role \in 1..3
    <3>1. q # Nobody BY DEF Sids
    <3>2. /\ req[q].status # "idle"
          /\ Running(q) => Passed(q, "member") /\ req[q].team = t /\ req[q].user = u
          /\ req[q].status \in {"running", "ok"} => db.role[t][u] = req[q].role
          /\ req[q].status = "ok" \/ PassedAndCommitted(q, "member")
               => disk.role[t][u] = req[q].role
          /\ req[q].status = "ok" => req[q].role \in 1..3
      BY <2>1, <3>1 DEF AccessInv, RoleInv
    <3>3. CASE q # r BY <1>2, <3>2, <3>3
    <3>4. CASE q = r
      <4>1. req'[r].status # "running" BY <2>1, <3>4 DEF Begins
      <4>2. ~Running(r)' /\ ~PassedAndCommitted(r, "member")'
        BY <4>1 DEF Running, PassedAndCommitted
      <4>3. ASSUME req'[r].status = "ok"
            PROVE  /\ db.role[t][u] = req'[r].role /\ disk.role[t][u] = req'[r].role
                   /\ req'[r].role \in 1..3
        <5>1. Running(r) /\ Passed(r, "member") BY <3>2, <3>4, <4>3
        <5>2. PassedAndCommitted(r, "member") BY <1>1, <4>3, <5>1, WholeScript
        <5>3. req[r].role \in 1..3 BY <1>1, <5>1 DEF Placed
        <5>4. QED BY <3>2, <3>4, <4>3, <5>1, <5>2, <5>3 DEF Running
      <4>4. QED BY <3>4, <4>1, <4>2, <4>3 DEF Leaves
    <3>5. QED BY <3>3, <3>4
  <2>2. \A t \in Teams, u \in Users : lastWriter[t][u] # Nobody => lastWriter[t][u] \in Requests
    BY <1>1 DEF TypeOK
  <2>3. QED BY <2>1, <2>2 DEF Leaves, RoleInv
<1>16. QED
  BY <1>8, <1>9, <1>10, <1>11, <1>12, <1>13, <1>14, <1>15 DEF AccessInv

-----------------------------------------------------------------------------
(* The requests stay typed *)

LEMMA OverTyped ==
  ASSUME TypeOK, NEW r \in Requests, NEW status \in {"ok", "refused", "lost"}
  PROVE  /\ Over(r, status) \in Request
         /\ Over(r, status).status = status
         /\ Over(r, status).actor = NoSession
         /\ status = "ok" => Over(r, status).role = req[r].role
<1>1. req[r].kind \in Kinds /\ req[r].role \in Ranks BY DEF TypeOK, Request
<1>2. Idle \in Request BY DEF Idle, Request, Kinds, Ranks, Session
<1>3. CASE status = "ok" BY <1>1, <1>2, <1>3 DEF Over, Idle, Request
<1>4. CASE status # "ok" BY <1>2, <1>4 DEF Over, Idle, Request
<1>5. QED BY <1>3, <1>4

LEMMA KnownSteps ==
  ASSUME TypeOK, Placed, NEW r \in Requests, NEW s, AtStatement(r, s), s # "authenticate",
         NEW k \in BOOLEAN,
         req' = [req EXCEPT ![r] = [req[r] EXCEPT !.at = req[r].at + 1, !.known = k]]
  PROVE  Steps(r, s) /\ req' \in [Requests -> Request] /\ req'[r].known = k
<1>1. At(r) \in 1..Len(Script[Kind(r)]) /\ Running(r) BY Standing
<1>2. At(r) + 1 \in Nat BY Typed
<1>3. req \in [Requests -> Request] BY DEF TypeOK
<1>4. [req[r] EXCEPT !.at = req[r].at + 1, !.known = k] \in Request
  <2>1. req[r] \in Request BY <1>3
  <2>2. PICK n \in Nat : n = req[r].at + 1 BY <1>2 DEF At
  <2>3. [req[r] EXCEPT !.at = n, !.known = k] \in Request BY <2>1 DEF Request
  <2>4. QED BY <2>2, <2>3
<1>5. req' \in [Requests -> Request] BY <1>3, <1>4
<1>6. Steps(r, s) /\ req'[r].known = k
  BY <1>1, <1>3 DEF Steps, Running, Request
<1>7. QED BY <1>5, <1>6

LEMMA AdvanceSteps ==
  ASSUME TypeOK, Placed, NEW r \in Requests, NEW s, AtStatement(r, s), s # "authenticate",
         Advance(r)
  PROVE  Steps(r, s) /\ req' \in [Requests -> Request] /\ req'[r].known = req[r].known
<1>1. req \in [Requests -> Request] BY DEF TypeOK
<1>2. req[r] \in Request /\ req[r].known \in BOOLEAN BY <1>1 DEF Request
<1>3. req' = [req EXCEPT ![r] = [req[r] EXCEPT !.at = req[r].at + 1]]
  BY <1>1 DEF Advance
<1>4. [req[r] EXCEPT !.at = req[r].at + 1]
        = [req[r] EXCEPT !.at = req[r].at + 1, !.known = req[r].known]
  BY <1>2 DEF Request
<1>5. req' = [req EXCEPT ![r] = [req[r] EXCEPT !.at = req[r].at + 1, !.known = req[r].known]]
  BY <1>3, <1>4
<1>6. QED BY <1>2, <1>5, KnownSteps

-----------------------------------------------------------------------------
(* Statements that write nothing *)

LEMMA QuietInv ==
  ASSUME AccessInv, NEW r \in Requests,
         NEW s \in {"configured", "state", "pop", "exchange", "find", "account",
                    "authenticate", "authorise", "begin"},
         Steps(r, s), TypeOK', UNCHANGED <<db, disk, lastWriter, signedOut, void, decided>>,
         s \in {"account", "authenticate"} => db.accounts[req[r].user] # "none",
         req'[r].known => req[r].known \/ db.accounts[req[r].user] # "none"
  PROVE  AccessInv'
<1>1. TypeOK /\ Placed BY DEF AccessInv
<1>2. Kind(r) \in Kinds BY <1>1, Typed
<1>3. s # Effect[Kind(r)] BY <1>2 DEF Effect, Kinds
<1>4. Writes(r, s) BY <1>3 DEF Writes
<1>5. Sound(db') BY DEF AccessInv
<1>6. SetUpInv'
  BY <1>1, StepFacts DEF AccessInv, SetUpInv
<1>7. QED BY <1>4, <1>5, <1>6, StepInv

\* A statement that writes nothing and lets r go on.
LEMMA PassInv ==
  ASSUME AccessInv, NEW r \in Requests,
         NEW s \in {"configured", "state", "pop", "exchange", "account"},
         AtStatement(r, s), Advance(r),
         UNCHANGED <<db, disk, open, decided, expired, lastWriter, signedOut, void, crashes>>,
         token' \in [Tokens -> {"unused", "pending", "spent"}],
         s = "account" => req[r].known
  PROVE  AccessInv'
<1>1. TypeOK /\ Placed BY DEF AccessInv
<1>2. Steps(r, s) /\ req' \in [Requests -> Request] /\ req'[r].known = req[r].known
  BY <1>1, AdvanceSteps
<1>3. TypeOK' BY <1>1, <1>2 DEF TypeOK
<1>4. s = "account" => db.accounts[req[r].user] # "none"
  BY <1>1, Standing DEF AccessInv, AccountInv
<1>5. QED BY <1>2, <1>3, <1>4, QuietInv

LEMMA RefuseInv ==
  ASSUME AccessInv, NEW r \in Requests, req[r].status = "running", Refuse(r)
  PROVE  AccessInv'
<1>1. TypeOK BY DEF AccessInv
<1>2. req \in [Requests -> Request] BY <1>1 DEF TypeOK
<1>3. Over(r, "refused") \in Request /\ Over(r, "refused").status = "refused"
  BY <1>1, OverTyped
<1>4. req' = [req EXCEPT ![r] = Over(r, "refused")] BY DEF Refuse, End
<1>5. req' \in [Requests -> Request] /\ req'[r].status = "refused" BY <1>2, <1>3, <1>4
<1>6. UNCHANGED <<db, disk, open, decided, token, expired, lastWriter, signedOut, void, crashes>>
  BY DEF Refuse, Kept, LedgerKept
<1>7. Leaves(r) BY <1>2, <1>4, <1>5, <1>6 DEF Leaves
<1>8. TypeOK' BY <1>1, <1>5, <1>6 DEF TypeOK
<1>9. QED BY <1>5, <1>6, <1>7, <1>8, LeaveInv

LEMMA ConfiguredInv ==
  ASSUME AccessInv, NEW r \in Requests, Configured(r)
  PROVE  AccessInv'
<1>1. AtStatement(r, "configured") /\ req[r].status = "running" BY DEF Configured, AtStatement
<1>2. CASE Refuse(r) BY <1>1, <1>2, RefuseInv
<1>3. CASE Advance(r) /\ UNCHANGED <<db, disk>> /\ Kept
  BY <1>1, <1>3, PassInv DEF Kept, LedgerKept, AccessInv, TypeOK
<1>4. QED BY <1>2, <1>3 DEF Configured

LEMMA CheckStateInv ==
  ASSUME AccessInv, NEW r \in Requests, CheckState(r)
  PROVE  AccessInv'
<1>1. AtStatement(r, "state") /\ req[r].status = "running" BY DEF CheckState, AtStatement
<1>2. CASE Refuse(r) BY <1>1, <1>2, RefuseInv
<1>3. CASE Advance(r) /\ UNCHANGED <<db, disk>> /\ Kept
  BY <1>1, <1>3, PassInv DEF Kept, LedgerKept, AccessInv, TypeOK
<1>4. QED BY <1>2, <1>3 DEF CheckState

LEMMA PopStateInv ==
  ASSUME AccessInv, NEW r \in Requests, PopState(r)
  PROVE  AccessInv'
<1>1. AtStatement(r, "pop") /\ Advance(r) BY DEF PopState
<1>2. UNCHANGED <<db, disk, open, decided, expired, lastWriter, signedOut, void, crashes>>
  BY DEF PopState, LedgerKept
<1>3. token' \in [Tokens -> {"unused", "pending", "spent"}]
  BY DEF PopState, AccessInv, TypeOK
<1>4. QED BY <1>1, <1>2, <1>3, PassInv

LEMMA ExchangeInv ==
  ASSUME AccessInv, NEW r \in Requests, Exchange(r)
  PROVE  AccessInv'
<1>1. AtStatement(r, "exchange") /\ req[r].status = "running" BY DEF Exchange, AtStatement
<1>2. CASE Refuse(r) BY <1>1, <1>2, RefuseInv
<1>3. CASE Advance(r) /\ UNCHANGED <<db, disk>> /\ Kept
  BY <1>1, <1>3, PassInv DEF Kept, LedgerKept, AccessInv, TypeOK
<1>4. QED BY <1>2, <1>3 DEF Exchange

LEMMA FindInv ==
  ASSUME AccessInv, NEW r \in Requests, Find(r)
  PROVE  AccessInv'
<1> DEFINE k == db.accounts[req[r].user] # "none"
<1>1. TypeOK /\ Placed BY DEF AccessInv
<1>2. AtStatement(r, "find") /\ k \in BOOLEAN BY DEF Find
<1>3. req' = [req EXCEPT ![r] = [req[r] EXCEPT !.at = req[r].at + 1, !.known = k]]
  BY <1>1 DEF Find, Known, TypeOK
<1>4. Steps(r, "find") /\ req' \in [Requests -> Request] /\ req'[r].known = k
  <2> HIDE DEF k
  <2> QED BY <1>1, <1>2, <1>3, KnownSteps
<1>5. UNCHANGED <<db, disk, open, decided, token, expired, lastWriter, signedOut, void, crashes>>
  BY DEF Find, Kept, LedgerKept
<1>6. TypeOK' BY <1>1, <1>4, <1>5 DEF TypeOK
<1>7. QED BY <1>4, <1>5, <1>6, QuietInv

LEMMA AuthenticateInv ==
  ASSUME AccessInv, NEW r \in Requests, Authenticate(r)
  PROVE  AccessInv'
<1>1. TypeOK /\ Placed /\ AtStatement(r, "authenticate") BY DEF AccessInv, Authenticate
<1>2. Kind(r) = "login" /\ At(r) = 1 /\ Running(r) BY <1>1, Standing, Positions
<1>3. CASE Refuse(r) BY <1>2, <1>3, RefuseInv DEF Running
<1>4. CASE ~Refuse(r)
  <2>1. PICK t \in Teams :
          req' = [req EXCEPT ![r] =
            [req[r] EXCEPT !.team = t, !.at = req[r].at + (IF req[r].cookie = Nobody THEN 3 ELSE 1)]]
    <3>1. req[r].team \in Teams BY <1>1, <1>2 DEF Placed
    <3>2. \A t \in db.teams : t \in Teams BY <1>1 DEF TypeOK, Database
    <3>3. req \in [Requests -> Request] BY <1>1 DEF TypeOK
    <3>4. QED BY <1>4, <3>1, <3>2, <3>3 DEF Authenticate
  <2>2. /\ db.accounts[req[r].user] # "none"
        /\ UNCHANGED <<db, disk, open, decided, token, expired,
                       lastWriter, signedOut, void, crashes>>
    BY <1>4 DEF Authenticate, Kept, LedgerKept
  <2>3. req \in [Requests -> Request] BY <1>1 DEF TypeOK
  <2>4. PICK n \in {2, 4} : n = req[r].at + (IF req[r].cookie = Nobody THEN 3 ELSE 1)
                            /\ (n = 4 <=> req[r].cookie = Nobody)
    BY <1>2 DEF At
  <2>5. req' = [req EXCEPT ![r] = [req[r] EXCEPT !.team = t, !.at = n]]
    BY <2>1, <2>4
  <2>6. [req[r] EXCEPT !.team = t, !.at = n] \in Request
    <3>1. req[r] \in Request /\ n \in Nat BY <2>3
    <3>2. QED BY <3>1 DEF Request
  <2>7. req' \in [Requests -> Request] BY <2>3, <2>5, <2>6
  <2>8. TypeOK' BY <1>1, <2>2, <2>7 DEF TypeOK
  <2>9. /\ \A q \in Requests \ {r} : req'[q] = req[q]
        /\ req'[r].team = t /\ req'[r].at = n
        /\ req'[r].status = req[r].status /\ req'[r].kind = req[r].kind
        /\ req'[r].user = req[r].user /\ req'[r].role = req[r].role
        /\ req'[r].token = req[r].token /\ req'[r].cookie = req[r].cookie
        /\ req'[r].known = req[r].known
    BY <2>3, <2>5 DEF Request
  <2>10. CASE n = 2
    <3>1. Steps(r, "authenticate")
      BY <1>1, <1>2, <2>4, <2>9, <2>10 DEF Steps, Running, At
    <3>2. QED BY <2>2, <2>8, <2>9, <3>1, QuietInv
  <2>11. CASE n = 4
    <3>1. req[r].cookie = Nobody BY <2>4, <2>11
    <3>2. Leaves(r) BY <1>2, <2>2, <2>7, <2>9 DEF Leaves, Running
    <3>3. \A u \in Users, w \in Teams : lastWriter[w][u] # r
      <4>1. \A y : ~Passed(r, y) BY <1>1, <1>2, Before
      <4>2. r # Nobody BY DEF Sids
      <4>3. QED BY <1>2, <4>1, <4>2 DEF AccessInv, RoleInv
    <3>4. Begins(r)
      BY <1>1, <1>2, <2>2, <2>9, <2>11, <3>1, <3>3 DEF Begins, Placed, Kind, Running
    <3>5. req'[r].status # "ok" BY <1>2, <2>9 DEF Running
    <3>6. QED BY <2>2, <2>8, <3>2, <3>4, <3>5, LeaveInv
  <2>12. QED BY <2>10, <2>11
<1>5. QED BY <1>3, <1>4

-----------------------------------------------------------------------------
(* Statements that write *)

LEMMA ReportingFacts ==
  ASSUME NEW d \in Database, NEW r \in Requests, NEW s
  PROVE  /\ Reporting(d, r, s) \in Database
         /\ Reporting(d, r, s).teams = d.teams
         /\ Reporting(d, r, s).accounts = d.accounts
         /\ Reporting(d, r, s).role = d.role
         /\ Reporting(d, r, s).sessions = d.sessions
         /\ Reporting(d, r, s).trail = d.trail
         /\ d.changed \subseteq Reporting(d, r, s).changed
         /\ s = Effect[Kind(r)] => r \in Reporting(d, r, s).changed
<1>1. CASE Effect[req[r].kind] = s
  <2>1. Reporting(d, r, s) = [d EXCEPT !.changed = d.changed \cup {r}] BY <1>1 DEF Reporting
  <2>2. QED BY <2>1 DEF Database
<1>2. CASE Effect[req[r].kind] # s
  BY <1>2 DEF Reporting, Kind
<1>3. QED BY <1>1, <1>2

LEMMA InsertTeamInv ==
  ASSUME AccessInv, NEW r \in Requests, InsertTeam(r)
  PROVE  AccessInv'
<1>1. TypeOK /\ Placed /\ AtStatement(r, "team") BY DEF AccessInv, InsertTeam
<1>2. Kind(r) = "setup" /\ Running(r) BY <1>1, Standing, Positions
<1>3. CASE DefaultTeam \in db.teams
  BY <1>2, <1>3, RefuseInv DEF InsertTeam, Running
<1>4. CASE DefaultTeam \notin db.teams
  <2>1. /\ db' = [db EXCEPT !.teams = db.teams \cup {DefaultTeam}]
        /\ Advance(r)
        /\ UNCHANGED <<disk, open, decided, token, expired, lastWriter, signedOut, void, crashes>>
    BY <1>4 DEF InsertTeam, Kept, LedgerKept
  <2>2. Steps(r, "team") /\ req' \in [Requests -> Request] /\ req'[r].known = req[r].known
    BY <1>1, <2>1, AdvanceSteps
  <2>3. db \in Database BY <1>1 DEF TypeOK
  <2>4. /\ db' \in Database
        /\ db'.teams = db.teams \cup {DefaultTeam} /\ db'.accounts = db.accounts
        /\ db'.role = db.role /\ db'.sessions = db.sessions
        /\ db'.trail = db.trail /\ db'.changed = db.changed
    BY <2>1, <2>3 DEF Database
  <2>5. TypeOK' BY <1>1, <2>1, <2>2, <2>4 DEF TypeOK
  <2>6. Effect[Kind(r)] # "team" BY <1>2 DEF Effect
  <2>7. Writes(r, "team") BY <2>1, <2>2, <2>4, <2>6 DEF Writes
  <2>8. Sound(db') BY <2>4 DEF AccessInv, Sound
  <2>9. SetUpInv'
    <3>1. \A q \in Requests : ~SettingUp(q) BY <1>4 DEF AccessInv, SetUpInv
    <3>2. \A q \in Requests : SettingUp(q)' => q = r BY <1>1, <2>2, <3>1, StepFacts
    <3>3. \A u \in Users : db'.accounts[u] # "admin" BY <1>4, <2>4 DEF AccessInv, Sound
    <3>4. QED BY <2>4, <3>2, <3>3 DEF SetUpInv
  <2>10. QED BY <2>2, <2>5, <2>7, <2>8, <2>9, StepInv
<1>5. QED BY <1>3, <1>4

LEMMA InsertAccountInv ==
  ASSUME AccessInv, NEW r \in Requests, InsertAccount(r)
  PROVE  AccessInv'
<1>1. TypeOK /\ Placed /\ AtStatement(r, "account") BY DEF AccessInv, InsertAccount
<1>2. /\ Running(r) /\ Kind(r) \in {"setup", "sso", "add_member"}
      /\ Kind(r) = "setup" => SettingUp(r)
  <2>1. /\ Kind(r) \in Kinds /\ Running(r) /\ At(r) \in 1..Len(Script[Kind(r)])
        /\ Script[Kind(r)][At(r)] = "account"
    BY <1>1, Standing
  <2>2. QED BY <2>1, Positions DEF SettingUp, Kind, At
<1>3. CASE req[r].known /\ Advance(r) /\ UNCHANGED <<db, disk>> /\ Kept
  BY <1>1, <1>3, PassInv DEF Kept, LedgerKept, TypeOK
<1>4. CASE Refuse(r) BY <1>2, <1>4, RefuseInv DEF Running
<1>5. CASE /\ db.accounts[req[r].user] = "none"
           /\ db' = [db EXCEPT !.accounts = [@ EXCEPT ![req[r].user] = AccountOf(req[r].kind)]]
           /\ Advance(r) /\ UNCHANGED disk /\ Kept
  <2> DEFINE u == req[r].user
             a == AccountOf(req[r].kind)
  <2>1. u \in Users BY <1>1, <1>2 DEF Placed
  <2>2. /\ a \in {"local", "sso", "admin"}
        /\ a = "admin" => Kind(r) = "setup"
    BY DEF AccountOf, Kind
  <2> HIDE DEF a
  <2>3. db \in Database BY <1>1 DEF TypeOK
  <2>4. db' = [db EXCEPT !.accounts = [db.accounts EXCEPT ![u] = a]]
    BY <1>5, <2>3 DEF a, Database
  <2>5. Steps(r, "account") /\ req' \in [Requests -> Request] /\ req'[r].known = req[r].known
    BY <1>1, <1>5, AdvanceSteps
  <2>6. UNCHANGED <<disk, open, decided, token, expired, lastWriter, signedOut, void, crashes>>
    BY <1>5 DEF Kept, LedgerKept
  <2>7. /\ db' \in Database
        /\ db'.accounts = [db.accounts EXCEPT ![u] = a] /\ db'.teams = db.teams
        /\ db'.role = db.role /\ db'.sessions = db.sessions
        /\ db'.trail = db.trail /\ db'.changed = db.changed
    BY <2>1, <2>2, <2>3, <2>4 DEF Database
  <2>8. \A v \in Users : /\ db'.accounts[v] = IF v = u THEN a ELSE db.accounts[v]
                         /\ db.accounts[v] # "none" => db'.accounts[v] # "none"
    BY <2>1, <2>2, <2>3, <2>7 DEF Database
  <2>9. TypeOK' BY <1>1, <2>5, <2>6, <2>7 DEF TypeOK
  <2>10. Effect[Kind(r)] # "account" BY <1>2 DEF Effect
  <2>11. Writes(r, "account")
    BY <2>1, <2>2, <2>5, <2>6, <2>7, <2>8, <2>10 DEF Writes
  <2>12. /\ a = "admin" => DefaultTeam \in db.teams
         /\ a = "admin" => \A v \in Users : db.accounts[v] # "admin"
    BY <1>2, <2>2 DEF AccessInv, SetUpInv
  <2>13. Sound(db')
    <3>1. \A t \in Teams, v \in Users : db'.role[t][v] # 0 => db'.accounts[v] # "none"
      BY <2>7, <2>8 DEF AccessInv, Sound
    <3>2. \A c \in Sids : db'.sessions[c] # NoSession => db'.accounts[db'.sessions[c].user] # "none"
      <4>1. \A c \in Sids : db.sessions[c] # NoSession => db.sessions[c].user \in Users
        BY <2>3 DEF Database, Session
      <4>2. QED BY <2>7, <2>8, <4>1 DEF AccessInv, Sound
    <3>3. \A v \in Users : db'.accounts[v] = "admin" => DefaultTeam \in db'.teams
      BY <2>7, <2>8, <2>12 DEF AccessInv, Sound
    <3>4. \A v, w \in Users : db'.accounts[v] = "admin" /\ db'.accounts[w] = "admin" => v = w
      BY <2>8, <2>12 DEF AccessInv, Sound
    <3>5. QED BY <3>1, <3>2, <3>3, <3>4 DEF Sound
  <2>14. SetUpInv'
    <3>1. \A q \in Requests : SettingUp(q)' => SettingUp(q) /\ q # r
      BY <1>1, <2>5, StepFacts
    <3>2. a = "admin" => \A q \in Requests : ~SettingUp(q)'
      BY <1>2, <2>2, <3>1 DEF AccessInv, SetUpInv
    <3>3. QED BY <2>7, <2>8, <3>1, <3>2 DEF AccessInv, SetUpInv
  <2>15. QED BY <2>5, <2>9, <2>11, <2>13, <2>14, StepInv
<1>6. QED BY <1>3, <1>4, <1>5 DEF InsertAccount

\* The tables of accounts and teams are not touched.
LEMMA KeptSetUp ==
  ASSUME AccessInv, NEW r \in Requests, NEW s, s # "team", Steps(r, s),
         db.teams \subseteq db'.teams, db'.accounts = db.accounts
  PROVE  SetUpInv'
<1>1. \A q \in Requests : SettingUp(q)' => SettingUp(q)
  BY StepFacts DEF AccessInv
<1>2. QED BY <1>1 DEF AccessInv, SetUpInv

LEMMA InsertMemberInv ==
  ASSUME AccessInv, NEW r \in Requests, InsertMember(r)
  PROVE  AccessInv'
<1> DEFINE t == req[r].team
           u == req[r].user
           n == req[r].role
           d == [db EXCEPT !.role = [db.role EXCEPT ![t] = [db.role[t] EXCEPT ![u] = n]]]
<1>1. TypeOK /\ Placed /\ AtStatement(r, "member") BY DEF AccessInv, InsertMember
<1>2. Running(r) BY <1>1, Standing
<1>3. t \in Teams /\ u \in Users /\ n \in 1..3 BY <1>1, <1>2 DEF Placed
<1>4. db \in Database BY <1>1 DEF TypeOK
<1>5. db' = Reporting(d, r, "member") BY <1>4 DEF InsertMember, Database
<1>6. lastWriter' = [lastWriter EXCEPT ![t] = [lastWriter[t] EXCEPT ![u] = r]]
  BY <1>1 DEF InsertMember, TypeOK
<1>7. Advance(r) /\ UNCHANGED <<disk, open, decided, token, expired, signedOut, void, crashes>>
  BY DEF InsertMember, LedgerKept
<1>8. Steps(r, "member") /\ req' \in [Requests -> Request] /\ req'[r].known = req[r].known
  BY <1>1, <1>7, AdvanceSteps
<1>9. /\ d \in Database
      /\ d.role = [db.role EXCEPT ![t] = [db.role[t] EXCEPT ![u] = n]]
      /\ d.teams = db.teams /\ d.accounts = db.accounts
      /\ d.sessions = db.sessions /\ d.trail = db.trail /\ d.changed = db.changed
  <2>1. db.role \in [Teams -> [Users -> Ranks]] BY <1>4 DEF Database
  <2>2. [db.role EXCEPT ![t] = [db.role[t] EXCEPT ![u] = n]] \in [Teams -> [Users -> Ranks]]
    BY <1>3, <2>1 DEF Ranks
  <2>3. QED BY <1>4, <2>2 DEF Database
<1> HIDE DEF d
<1>10. /\ db' \in Database
       /\ db'.role = d.role
       /\ db'.teams = db.teams /\ db'.accounts = db.accounts
       /\ db'.sessions = db.sessions /\ db'.trail = db.trail
       /\ db.changed \subseteq db'.changed
       /\ "member" = Effect[Kind(r)] => r \in db'.changed
  BY <1>5, <1>9, ReportingFacts
<1>11. \A x \in Teams, y \in Users :
         IF x = t /\ y = u
           THEN db'.role[x][y] = n /\ lastWriter'[x][y] = r
           ELSE db'.role[x][y] = db.role[x][y] /\ lastWriter'[x][y] = lastWriter[x][y]
  <2>1. db.role \in [Teams -> [Users -> Ranks]] BY <1>4 DEF Database
  <2>2. lastWriter \in [Teams -> [Users -> Requests \cup {Nobody}]] BY <1>1 DEF TypeOK
  <2>3. QED BY <1>3, <1>6, <1>9, <1>10, <2>1, <2>2
<1>12. TypeOK'
  <2>1. lastWriter' \in [Teams -> [Users -> Requests \cup {Nobody}]]
    BY <1>1, <1>3, <1>6 DEF TypeOK
  <2>2. QED BY <1>1, <1>7, <1>8, <1>10, <2>1 DEF TypeOK
<1>13. Writes(r, "member") BY <1>7, <1>8, <1>10, <1>11 DEF Writes
<1>14. Sound(db')
  <2>1. db.accounts[u] # "none"
    BY <1>1, Before DEF AccessInv, AccountInv
  <2>2. \A x \in Teams, y \in Users : db'.role[x][y] # 0 => db'.accounts[y] # "none"
    BY <1>10, <1>11, <2>1 DEF AccessInv, Sound
  <2>3. QED BY <1>10, <2>2 DEF AccessInv, Sound
<1>15. SetUpInv' BY <1>8, <1>10, KeptSetUp
<1>16. QED BY <1>8, <1>12, <1>13, <1>14, <1>15, StepInv

LEMMA InsertSessionInv ==
  ASSUME AccessInv, NEW r \in Requests, InsertSession(r)
  PROVE  AccessInv'
<1> DEFINE s == [user |-> req[r].user, team |-> req[r].team]
           d == [db EXCEPT !.sessions = [db.sessions EXCEPT ![r] = s]]
<1>1. TypeOK /\ Placed /\ AtStatement(r, "session") BY DEF AccessInv, InsertSession
<1>2. Running(r) BY <1>1, Standing
<1>3. req[r].team \in Teams /\ req[r].user \in Users BY <1>1, <1>2 DEF Placed
<1>4. s \in Session /\ s.user = req[r].user BY <1>3 DEF Session
<1> HIDE DEF s
<1>5. db \in Database /\ r \in Sids BY <1>1 DEF TypeOK, Sids
<1>6. db' = Reporting(d, r, "session") BY <1>5 DEF InsertSession, Database, s
<1>7. /\ Advance(r)
      /\ UNCHANGED <<disk, open, decided, token, expired, lastWriter, signedOut, void, crashes>>
  BY DEF InsertSession, Kept, LedgerKept
<1>8. Steps(r, "session") /\ req' \in [Requests -> Request] /\ req'[r].known = req[r].known
  BY <1>1, <1>7, AdvanceSteps
<1>9. /\ d \in Database
      /\ d.sessions = [db.sessions EXCEPT ![r] = s]
      /\ d.teams = db.teams /\ d.accounts = db.accounts
      /\ d.role = db.role /\ d.trail = db.trail /\ d.changed = db.changed
  BY <1>4, <1>5 DEF Database
<1> HIDE DEF d
<1>10. /\ db' \in Database
       /\ db'.sessions = [db.sessions EXCEPT ![r] = s]
       /\ db'.teams = db.teams /\ db'.accounts = db.accounts
       /\ db'.role = db.role /\ db'.trail = db.trail
       /\ db.changed \subseteq db'.changed
       /\ "session" = Effect[Kind(r)] => r \in db'.changed
  BY <1>6, <1>9, ReportingFacts
<1>11. \A c \in Sids : db'.sessions[c] = IF c = r THEN s ELSE db.sessions[c]
  BY <1>5, <1>10 DEF Database
<1>12. TypeOK' BY <1>1, <1>7, <1>8, <1>10 DEF TypeOK
<1>13. Writes(r, "session") BY <1>7, <1>8, <1>10, <1>11 DEF Writes
<1>14. Sound(db')
  <2>1. db.accounts[req[r].user] # "none"
    BY <1>1, Before DEF AccessInv, AccountInv
  <2>2. \A c \in Sids : db'.sessions[c] # NoSession => db'.accounts[db'.sessions[c].user] # "none"
    BY <1>4, <1>10, <1>11, <2>1 DEF AccessInv, Sound
  <2>3. QED BY <1>10, <2>2 DEF AccessInv, Sound
<1>15. SetUpInv' BY <1>8, <1>10, KeptSetUp
<1>16. QED BY <1>8, <1>12, <1>13, <1>14, <1>15, StepInv

LEMMA DropSessionInv ==
  ASSUME AccessInv, NEW r \in Requests, DropSession(r)
  PROVE  AccessInv'
<1> DEFINE c == req[r].cookie
           d == [db EXCEPT !.sessions = [db.sessions EXCEPT ![c] = NoSession]]
<1>1. TypeOK /\ Placed /\ AtStatement(r, "drop") BY DEF AccessInv, DropSession
<1>2. c \in Sids
  <2>1. /\ Kind(r) \in Kinds /\ Running(r) /\ At(r) \in 1..Len(Script[Kind(r)])
        /\ Script[Kind(r)][At(r)] = "drop"
    BY <1>1, Standing
  <2>2. c # Nobody BY <1>1, <2>1, Positions DEF Placed, Kind, At
  <2>3. QED BY <1>1, <2>2 DEF TypeOK, Request
<1>3. db \in Database BY <1>1 DEF TypeOK
<1>4. /\ Advance(r)
      /\ UNCHANGED <<disk, open, decided, token, expired, lastWriter, signedOut, crashes>>
  BY DEF DropSession, LedgerKept
<1>5. Steps(r, "drop") /\ req' \in [Requests -> Request] /\ req'[r].known = req[r].known
  BY <1>1, <1>4, AdvanceSteps
<1>6. /\ d \in Database
      /\ d.sessions = [db.sessions EXCEPT ![c] = NoSession]
      /\ d.teams = db.teams /\ d.accounts = db.accounts
      /\ d.role = db.role /\ d.trail = db.trail /\ d.changed = db.changed
  <2>1. NoSession \in Session BY DEF Session
  <2>2. QED BY <1>2, <1>3, <2>1 DEF Database
<1>7. \/ /\ db.sessions[c] = NoSession /\ db' = db
         /\ void' = IF Effect[Kind(r)] = "drop" THEN void \cup {r} ELSE void
      \/ db.sessions[c] # NoSession /\ db' = Reporting(d, r, "drop") /\ void' = void
  BY <1>3 DEF DropSession, Database, Kind
<1> HIDE DEF d
<1>8. /\ db' \in Database
      /\ db'.teams = db.teams /\ db'.accounts = db.accounts
      /\ db'.role = db.role /\ db'.trail = db.trail
      /\ db.changed \subseteq db'.changed
      /\ void \subseteq void' /\ void' \subseteq Requests
      /\ "drop" = Effect[Kind(r)] => r \in db'.changed \cup void'
      /\ \A x \in Sids : db'.sessions[x] = IF x = c THEN NoSession ELSE db.sessions[x]
  <2>1. void \subseteq Requests BY <1>1 DEF TypeOK
  <2>2. CASE db.sessions[c] = NoSession
    <3>1. db' = db /\ void' = IF Effect[Kind(r)] = "drop" THEN void \cup {r} ELSE void
      BY <1>7, <2>2
    <3>2. QED BY <1>3, <2>1, <2>2, <3>1
  <2>3. CASE db.sessions[c] # NoSession
    <3>1. db' = Reporting(d, r, "drop") /\ void' = void BY <1>7, <2>3
    <3>2. \A x \in Sids : d.sessions[x] = IF x = c THEN NoSession ELSE db.sessions[x]
      BY <1>2, <1>3, <1>6 DEF Database
    <3>3. /\ db' \in Database
          /\ db'.teams = d.teams /\ db'.accounts = d.accounts
          /\ db'.role = d.role /\ db'.trail = d.trail
          /\ d.changed \subseteq db'.changed
          /\ "drop" = Effect[Kind(r)] => r \in db'.changed
          /\ db'.sessions = d.sessions
      BY <1>6, <3>1, ReportingFacts
    <3>4. QED BY <1>6, <2>1, <3>1, <3>2, <3>3
  <2>4. QED BY <2>2, <2>3
<1>9. TypeOK' BY <1>1, <1>4, <1>5, <1>8 DEF TypeOK
<1>10. Writes(r, "drop") BY <1>2, <1>4, <1>5, <1>8 DEF Writes
<1>11. Sound(db') BY <1>8 DEF AccessInv, Sound
<1>12. SetUpInv' BY <1>5, <1>8, KeptSetUp
<1>13. QED BY <1>5, <1>9, <1>10, <1>11, <1>12, StepInv

LEMMA WriteInv ==
  ASSUME AccessInv, NEW r \in Requests, Write(r)
  PROVE  AccessInv'
<1> DEFINE d == [db EXCEPT !.teams = db.teams \cup {req[r].team}]
<1>1. TypeOK /\ Placed /\ AtStatement(r, "write") BY DEF AccessInv, Write
<1>2. req[r].team \in Teams BY <1>1, Standing DEF Placed
<1>3. db \in Database BY <1>1 DEF TypeOK
<1>4. db' = Reporting(d, r, "write") BY DEF Write
<1>5. /\ Advance(r)
      /\ UNCHANGED <<disk, open, decided, token, expired, lastWriter, signedOut, void, crashes>>
  BY DEF Write, Kept, LedgerKept
<1>6. Steps(r, "write") /\ req' \in [Requests -> Request] /\ req'[r].known = req[r].known
  BY <1>1, <1>5, AdvanceSteps
<1>7. /\ d \in Database
      /\ d.teams = db.teams \cup {req[r].team} /\ d.accounts = db.accounts
      /\ d.role = db.role /\ d.sessions = db.sessions
      /\ d.trail = db.trail /\ d.changed = db.changed
  BY <1>2, <1>3 DEF Database
<1> HIDE DEF d
<1>8. /\ db' \in Database
      /\ db.teams \subseteq db'.teams /\ db'.accounts = db.accounts
      /\ db'.role = db.role /\ db'.sessions = db.sessions /\ db'.trail = db.trail
      /\ db.changed \subseteq db'.changed
      /\ "write" = Effect[Kind(r)] => r \in db'.changed
  BY <1>4, <1>7, ReportingFacts
<1>9. TypeOK' BY <1>1, <1>5, <1>6, <1>8 DEF TypeOK
<1>10. Writes(r, "write") BY <1>5, <1>6, <1>8 DEF Writes
<1>11. Sound(db') BY <1>8 DEF AccessInv, Sound
<1>12. SetUpInv' BY <1>6, <1>8, KeptSetUp
<1>13. QED BY <1>6, <1>9, <1>10, <1>11, <1>12, StepInv

\* A decision that fails takes back what others have decided.
LEMMA RollBackInv ==
  ASSUME AccessInv, NEW r \in Requests, Running(r), RollBack(r)
  PROVE  AccessInv'
<1>1. TypeOK BY DEF AccessInv
<1>2. req \in [Requests -> Request] BY <1>1 DEF TypeOK
<1>3. Over(r, "refused") \in Request /\ Over(r, "refused").status = "refused"
  BY <1>1, OverTyped
<1>4. req' = [req EXCEPT ![r] = Over(r, "refused")] BY DEF RollBack, End
<1>5. req' \in [Requests -> Request] /\ req'[r].status = "refused" BY <1>2, <1>3, <1>4
<1>6. /\ open' = FALSE /\ decided' = {} /\ void' = void \cup decided
      /\ UNCHANGED <<db, disk, token, expired, lastWriter, signedOut, crashes>>
  BY DEF RollBack
<1>7. Leaves(r) BY <1>2, <1>4, <1>5, <1>6 DEF Leaves, Running
<1>8. TypeOK' BY <1>1, <1>5, <1>6 DEF TypeOK
<1>9. QED BY <1>5, <1>6, <1>7, <1>8, LeaveInv

LEMMA BeginInv ==
  ASSUME AccessInv, NEW r \in Requests, Begin(r)
  PROVE  AccessInv'
<1>1. TypeOK /\ Placed /\ AtStatement(r, "begin") BY DEF AccessInv, Begin
<1>2. Running(r) BY <1>1, Standing
<1>3. CASE RollBack(r) BY <1>2, <1>3, RollBackInv
<1>4. CASE ~RollBack(r)
  <2>1. /\ Advance(r) /\ open' = TRUE
        /\ UNCHANGED <<db, disk, decided, token, expired, lastWriter, signedOut, void, crashes>>
    BY <1>4 DEF Begin
  <2>2. Steps(r, "begin") /\ req' \in [Requests -> Request] /\ req'[r].known = req[r].known
    BY <1>1, <2>1, AdvanceSteps
  <2>3. TypeOK' BY <1>1, <2>1, <2>2 DEF TypeOK
  <2>4. QED BY <2>1, <2>2, <2>3, QuietInv
<1>5. QED BY <1>3, <1>4

LEMMA DecideInv ==
  ASSUME AccessInv, NEW r \in Requests, Decide(r)
  PROVE  AccessInv'
<1>1. TypeOK /\ Placed /\ AtStatement(r, "decide") BY DEF AccessInv, Decide
<1>2. Kind(r) = "decide" /\ Running(r) BY <1>1, Standing, Positions
<1>3. CASE RollBack(r) BY <1>2, <1>3, RollBackInv
<1>4. CASE ~RollBack(r)
  <2>1. /\ Advance(r) /\ open' = TRUE /\ decided' = decided \cup {r}
        /\ UNCHANGED <<db, disk, token, expired, lastWriter, signedOut, void, crashes>>
    BY <1>4 DEF Decide
  <2>2. Steps(r, "decide") /\ req' \in [Requests -> Request] /\ req'[r].known = req[r].known
    BY <1>1, <2>1, AdvanceSteps
  <2>3. TypeOK' BY <1>1, <2>1, <2>2 DEF TypeOK
  <2>4. "decide" # Effect[Kind(r)] BY <1>2 DEF Effect
  <2>5. Writes(r, "decide") BY <2>1, <2>2, <2>4 DEF Writes
  <2>6. Sound(db') BY <2>1 DEF AccessInv
  <2>7. SetUpInv' BY <2>1, <2>2, KeptSetUp
  <2>8. QED BY <2>2, <2>3, <2>5, <2>6, <2>7, StepInv
<1>5. QED BY <1>3, <1>4

LEMMA SaveInv ==
  ASSUME AccessInv, NEW r \in Requests, Save(r)
  PROVE  AccessInv'
<1>1. TypeOK /\ Placed /\ AtStatement(r, "save") BY DEF AccessInv, Save
<1>2. db \in Database /\ disk \in Database /\ decided \subseteq Requests
  BY <1>1 DEF TypeOK
<1>3. /\ Advance(r) /\ open' = FALSE /\ decided' = {}
      /\ db' = [db EXCEPT !.changed = db.changed \cup decided]
      /\ disk' = [disk EXCEPT !.changed = disk.changed \cup decided]
      /\ UNCHANGED <<token, expired, lastWriter, signedOut, void, crashes>>
  BY DEF Save
<1>4. Steps(r, "save") /\ req' \in [Requests -> Request] /\ req'[r].known = req[r].known
  BY <1>1, <1>3, AdvanceSteps
<1>5. /\ db' \in Database /\ disk' \in Database
      /\ db'.changed = db.changed \cup decided
      /\ db'.teams = db.teams /\ db'.accounts = db.accounts
      /\ db'.role = db.role /\ db'.sessions = db.sessions /\ db'.trail = db.trail
  BY <1>2, <1>3 DEF Database
<1>6. TypeOK' BY <1>1, <1>3, <1>4, <1>5 DEF TypeOK
<1>7. r \in db.changed \cup decided \cup void
  BY <1>1, Before DEF AccessInv, AuditInv
<1>8. Writes(r, "save") BY <1>3, <1>4, <1>5, <1>7 DEF Writes
<1>9. Sound(db') BY <1>5 DEF AccessInv, Sound
<1>10. SetUpInv' BY <1>4, <1>5, KeptSetUp
<1>11. QED BY <1>4, <1>6, <1>8, <1>9, <1>10, StepInv

LEMMA InsertAuditInv ==
  ASSUME AccessInv, NEW r \in Requests, InsertAudit(r)
  PROVE  AccessInv'
<1>1. TypeOK /\ Placed /\ AtStatement(r, "audit") BY DEF AccessInv, InsertAudit
<1>2. Kind(r) \in Kinds BY <1>1, Typed
<1>3. db' = [db EXCEPT !.trail = db.trail \cup {r}] BY DEF InsertAudit
<1>4. /\ Advance(r)
      /\ UNCHANGED <<disk, open, decided, token, expired, lastWriter, signedOut, void, crashes>>
  BY DEF InsertAudit, Kept, LedgerKept
<1>5. Steps(r, "audit") /\ req' \in [Requests -> Request] /\ req'[r].known = req[r].known
  BY <1>1, <1>4, AdvanceSteps
<1>6. db \in Database BY <1>1 DEF TypeOK
<1>7. /\ db' \in Database
      /\ db'.trail = db.trail \cup {r}
      /\ db'.teams = db.teams /\ db'.accounts = db.accounts
      /\ db'.role = db.role /\ db'.sessions = db.sessions /\ db'.changed = db.changed
  BY <1>3, <1>6 DEF Database
<1>8. TypeOK' BY <1>1, <1>4, <1>5, <1>7 DEF TypeOK
<1>9. "audit" # Effect[Kind(r)] BY <1>2 DEF Effect, Kinds
<1>10. Writes(r, "audit") BY <1>4, <1>5, <1>7, <1>9 DEF Writes
<1>11. Sound(db') BY <1>7 DEF AccessInv, Sound
<1>12. SetUpInv' BY <1>5, <1>7, KeptSetUp
<1>13. QED BY <1>5, <1>8, <1>10, <1>11, <1>12, StepInv

\* A commit makes durable what everyone has written so far.
LEMMA CommitInv ==
  ASSUME AccessInv, NEW r \in Requests, Commit(r)
  PROVE  AccessInv'
<1>1. TypeOK /\ Placed /\ AtStatement(r, "commit") BY DEF AccessInv, Commit
<1>2. Kind(r) \in Kinds BY <1>1, Typed
<1>3. /\ Advance(r) /\ disk' = db
      /\ UNCHANGED <<db, open, decided, token, expired, lastWriter, signedOut, void, crashes>>
  BY DEF Commit, Kept, LedgerKept
<1>4. Steps(r, "commit") /\ req' \in [Requests -> Request] /\ req'[r].known = req[r].known
  BY <1>1, <1>3, AdvanceSteps
<1>5. TypeOK' BY <1>1, <1>3, <1>4 DEF TypeOK
<1>6. "commit" # Effect[Kind(r)] BY <1>2 DEF Effect, Kinds
<1>7. Writes(r, "commit") BY <1>3, <1>4, <1>6 DEF Writes
<1>8. Sound(db') BY <1>3 DEF AccessInv
<1>9. SetUpInv' BY <1>3, <1>4, KeptSetUp
<1>10. QED BY <1>4, <1>5, <1>7, <1>8, <1>9, StepInv

-----------------------------------------------------------------------------
(* Authorisation, and how requests begin and end *)

LEMMA RankTyped ==
  ASSUME NEW d \in Database, NEW s \in Session, s # NoSession
  PROVE  /\ RankIn(d, s) \in Ranks
         /\ d.accounts[s.user] # "admin" /\ d.role[s.team][s.user] # 0
              => RankIn(d, s) = d.role[s.team][s.user]
<1>1. s.user \in Users /\ s.team \in Teams BY DEF Session
<1>2. d.role[s.team][s.user] \in Ranks BY <1>1 DEF Database
<1>3. QED BY <1>2 DEF RankIn, Ranks, Administrator, Viewer

\* The two ways in which require_principal lets a request go on.
LEMMA AuthoriseCases ==
  ASSUME AccessInv, NEW r \in Requests, Authorise(r), ~Refuse(r)
  PROVE  /\ UNCHANGED <<db, disk, open, decided, token, expired,
                        lastWriter, signedOut, void, crashes>>
         /\ db.sessions[req[r].cookie] \in Session
         /\ db.sessions[req[r].cookie] # NoSession
         /\ \/ req' = [req EXCEPT ![r] = [req[r] EXCEPT !.kind = "purge", !.at = 1]]
            \/ req' = [req EXCEPT ![r] =
                 [req[r] EXCEPT !.at = 2, !.actor = db.sessions[req[r].cookie],
                                !.rank = RankIn(db, db.sessions[req[r].cookie])]]
<1>1. TypeOK /\ Placed /\ AtStatement(r, "authorise") BY DEF AccessInv, Authorise
<1>2. At(r) = 1 /\ Running(r) /\ Kind(r) \notin {"setup", "sso", "login"}
  BY <1>1, Standing, Positions
<1>3. req[r].cookie \in Sids BY <1>1, <1>2 DEF Placed, TypeOK, Request, Kind
<1>4. db.sessions[req[r].cookie] \in Session BY <1>1, <1>3 DEF TypeOK, Database
<1>5. UNCHANGED <<db, disk, open, decided, token, expired, lastWriter, signedOut, void, crashes>>
  BY DEF Authorise, Kept, LedgerKept
<1>6. db.sessions[req[r].cookie] # NoSession BY DEF Authorise
<1>7. req[r].at + 1 = 2 BY <1>2 DEF At
<1>8. req \in [Requests -> Request] BY <1>1 DEF TypeOK
<1>9. \/ req' = [req EXCEPT ![r] = [req[r] EXCEPT !.kind = "purge", !.at = 1]]
      \/ req' = [req EXCEPT ![r] =
           [req[r] EXCEPT !.at = 2, !.actor = db.sessions[req[r].cookie],
                          !.rank = RankIn(db, db.sessions[req[r].cookie])]]
  BY <1>7, <1>8 DEF Authorise
<1>10. QED BY <1>4, <1>5, <1>6, <1>9

LEMMA AuthoriseInv ==
  ASSUME AccessInv, NEW r \in Requests, Authorise(r)
  PROVE  AccessInv'
<1> DEFINE s == db.sessions[req[r].cookie]
           n == RankIn(db, s)
<1>1. TypeOK /\ Placed /\ AtStatement(r, "authorise") BY DEF AccessInv, Authorise
<1>2. At(r) = 1 /\ Running(r) /\ Kind(r) \in {"add_member", "configure", "decide"}
  BY <1>1, Standing, Positions
<1>3. CASE Refuse(r) BY <1>2, <1>3, RefuseInv DEF Running
<1>4. CASE ~Refuse(r)
  <2>1. /\ UNCHANGED <<db, disk, open, decided, token, expired,
                       lastWriter, signedOut, void, crashes>>
        /\ s \in Session /\ s # NoSession
        /\ \/ req' = [req EXCEPT ![r] = [req[r] EXCEPT !.kind = "purge", !.at = 1]]
           \/ req' = [req EXCEPT ![r] = [req[r] EXCEPT !.at = 2, !.actor = s, !.rank = n]]
    BY <1>4, AuthoriseCases
  <2>2. n \in Ranks BY <1>1, <2>1, RankTyped DEF TypeOK
  <2> HIDE DEF s, n
  <2>3. req \in [Requests -> Request] /\ req[r] \in Request BY <1>1 DEF TypeOK
  <2>4. CASE req' = [req EXCEPT ![r] = [req[r] EXCEPT !.kind = "purge", !.at = 1]]
    <3>1. [req[r] EXCEPT !.kind = "purge", !.at = 1] \in Request
      <4>1. "purge" \in Kinds /\ 1 \in Nat BY DEF Kinds
      <4>2. QED BY <2>3, <4>1 DEF Request
    <3>2. req' \in [Requests -> Request] BY <2>3, <2>4, <3>1
    <3>3. /\ \A q \in Requests \ {r} : req'[q] = req[q]
          /\ req'[r].kind = "purge" /\ req'[r].at = 1 /\ req'[r].status = req[r].status
          /\ req'[r].user = req[r].user /\ req'[r].team = req[r].team
          /\ req'[r].role = req[r].role /\ req'[r].cookie = req[r].cookie
          /\ req'[r].known = req[r].known
      BY <2>3, <2>4 DEF Request
    <3>4. TypeOK' BY <1>1, <2>1, <3>2 DEF TypeOK
    <3>5. Leaves(r) BY <1>2, <2>1, <3>2, <3>3 DEF Leaves, Running
    <3>6. \A t \in Teams, u \in Users : lastWriter[t][u] # r
      <4>1. \A y : ~Passed(r, y) BY <1>1, <1>2, Before
      <4>2. r # Nobody BY DEF Sids
      <4>3. QED BY <1>2, <4>1, <4>2 DEF AccessInv, RoleInv
    <3>7. req[r].cookie # Nobody /\ req[r].cookie # r /\ Settled(req[r].cookie)
      <4>1. req[r].cookie # Nobody /\ Settled(req[r].cookie) BY <1>1, <1>2 DEF Placed, Kind
      <4>2. QED BY <1>2, <4>1 DEF Settled, Running
    <3>8. Begins(r) BY <1>1, <1>2, <3>3, <3>6, <3>7 DEF Begins, Placed, Settled
    <3>9. req'[r].status # "ok" BY <1>2, <3>3 DEF Running
    <3>10. QED BY <2>1, <3>4, <3>5, <3>8, <3>9, LeaveInv
  <2>5. CASE req' = [req EXCEPT ![r] = [req[r] EXCEPT !.at = 2, !.actor = s, !.rank = n]]
    <3>1. [req[r] EXCEPT !.at = 2, !.actor = s, !.rank = n] \in Request
      <4>1. 2 \in Nat OBVIOUS
      <4>2. QED BY <2>1, <2>2, <2>3, <4>1 DEF Request
    <3>2. req' \in [Requests -> Request] BY <2>3, <2>5, <3>1
    <3>3. TypeOK' BY <1>1, <2>1, <3>2 DEF TypeOK
    <3>4. Steps(r, "authorise") /\ req'[r].known = req[r].known
      BY <1>1, <1>2, <2>3, <2>5 DEF Steps, Running, At, Request
    <3>5. QED BY <2>1, <3>3, <3>4, QuietInv
  <2>6. QED BY <2>1, <2>4, <2>5
<1>5. QED BY <1>3, <1>4

LEMMA ArriveInv ==
  ASSUME AccessInv, NEW r \in Requests, Arrive(r)
  PROVE  AccessInv'
<1>1. TypeOK BY DEF AccessInv
<1>2. req \in [Requests -> Request] BY <1>1 DEF TypeOK
<1>3. PICK c \in Calls : \E cookie \in CookiesFor(c.kind) :
        req' = [req EXCEPT ![r] =
          [Idle EXCEPT !.status = "running", !.kind = c.kind, !.user = c.user,
                       !.team = IF c.kind \in {"setup", "sso"} THEN DefaultTeam ELSE c.team,
                       !.role = IF c.kind = "setup" THEN Administrator ELSE c.role,
                       !.token = c.token, !.cookie = cookie]]
  BY DEF Arrive
<1>4. PICK cookie \in CookiesFor(c.kind), t \in {DefaultTeam, c.team}, n \in {Administrator, c.role} :
        req' = [req EXCEPT ![r] =
          [Idle EXCEPT !.status = "running", !.kind = c.kind, !.user = c.user, !.team = t,
                       !.role = n, !.token = c.token, !.cookie = cookie]]
  BY <1>3
<1>5. c \in Call OBVIOUS
<1>6. t \in Teams /\ n \in 1..3 BY <1>5 DEF Call, Administrator
<1>7. /\ \A q \in Requests \ {r} : req'[q] = req[q]
      /\ req'[r] = [status |-> "running", kind |-> c.kind, at |-> 1, user |-> c.user,
                    team |-> t, role |-> n, token |-> c.token, cookie |-> cookie,
                    known |-> FALSE, actor |-> NoSession, rank |-> 0]
  BY <1>2, <1>4 DEF Idle
<1>8. req[r].status = "idle" BY DEF Arrive
<1>9. \A h \in Handed : h \in Sids /\ h # r /\ h # Nobody /\ Settled(h)
  BY <1>8 DEF Handed, Settled, Sids
<1>10. /\ cookie # Nobody => cookie \in Handed
       /\ c.kind \notin {"setup", "sso", "login"} => cookie \in Handed
  BY DEF CookiesFor
<1>11. req'[r] \in Request
  <2>1. 1 \in Nat /\ 0 \in Ranks /\ n \in Ranks BY <1>6 DEF Ranks
  <2>2. cookie \in Sids \cup {Nobody} BY <1>9, <1>10
  <2>3. QED BY <1>5, <1>6, <1>7, <2>1, <2>2 DEF Request, Call, Session
<1>12. req' \in [Requests -> Request] BY <1>2, <1>4, <1>7, <1>11
<1>13. UNCHANGED <<db, disk, open, decided, token, expired, lastWriter, signedOut, void, crashes>>
  BY DEF Arrive, Kept, LedgerKept
<1>14. TypeOK' BY <1>1, <1>12, <1>13 DEF TypeOK
<1>15. Leaves(r) BY <1>7, <1>8, <1>12, <1>13 DEF Leaves
<1>16. \A x \in Teams, u \in Users : lastWriter[x][u] # r
  <2>1. r # Nobody BY DEF Sids
  <2>2. QED BY <1>8, <2>1 DEF AccessInv, RoleInv
<1>17. Begins(r) BY <1>5, <1>6, <1>7, <1>9, <1>10, <1>16 DEF Begins, Call
<1>18. req'[r].status # "ok" BY <1>7
<1>19. QED BY <1>13, <1>14, <1>15, <1>17, <1>18, LeaveInv

LEMMA AnswerInv ==
  ASSUME AccessInv, NEW r \in Requests, Answer(r)
  PROVE  AccessInv'
<1>1. TypeOK BY DEF AccessInv
<1>2. req \in [Requests -> Request] BY <1>1 DEF TypeOK
<1>3. Running(r) /\ At(r) = Len(Script[Kind(r)]) + 1 BY DEF Answer, Running, At, Kind
<1>4. PICK status \in {"ok", "refused"} :
        /\ req' = [req EXCEPT ![r] = Over(r, status)]
        /\ status = "ok" <=> Kind(r) # "purge"
  BY DEF Answer, End, Kind
<1>5. /\ Over(r, status) \in Request /\ Over(r, status).status = status
      /\ status = "ok" => Over(r, status).role = req[r].role
  BY <1>1, OverTyped
<1>6. /\ req' \in [Requests -> Request] /\ req'[r].status = status
      /\ status = "ok" => req'[r].role = req[r].role
      /\ \A q \in Requests \ {r} : req'[q] = req[q]
  BY <1>2, <1>4, <1>5
<1>7. UNCHANGED <<db, disk, open, decided, token, expired, lastWriter, void, crashes>>
  BY DEF Answer, LedgerKept
<1>8. \/ signedOut' = signedOut
      \/ /\ signedOut' = signedOut \cup {req[r].cookie}
         /\ Kind(r) \in {"login", "logout"} /\ req[r].cookie # Nobody
  BY DEF Answer, Kind
<1>9. TypeOK'
  <2>1. req[r].cookie # Nobody => req[r].cookie \in Sids BY <1>2 DEF Request
  <2>2. QED BY <1>1, <1>6, <1>7, <1>8, <2>1 DEF TypeOK
<1>10. Leaves(r) BY <1>3, <1>6, <1>7 DEF Leaves, Running
<1>11. QED BY <1>3, <1>4, <1>6, <1>8, <1>9, <1>10, LeaveInv

-----------------------------------------------------------------------------
(* Time, crashes, and the invariant *)

\* SSO states and the age of sessions concern none of the tables.
LEMMA OutsideInv ==
  ASSUME AccessInv, TypeOK', UNCHANGED <<db, disk, req, decided, lastWriter, signedOut, void>>
  PROVE  AccessInv'
<1>1. /\ \A r \in Requests : \A y :
           /\ Passed(r, y)' <=> Passed(r, y)
           /\ PassedAndCommitted(r, y)' <=> PassedAndCommitted(r, y)
      /\ \A r \in Requests : (Running(r)' <=> Running(r)) /\ (SettingUp(r)' <=> SettingUp(r))
      /\ \A c \in Sids : Settled(c)' <=> Settled(c)
  BY DEF Passed, PassedAndCommitted, Running, SettingUp, Settled
<1>2. Placed' BY DEF AccessInv, Placed, Running, Settled
<1>3. Sound(db') /\ Sound(disk') BY DEF AccessInv
<1>4. SetUpInv' BY <1>1 DEF AccessInv, SetUpInv
<1>5. AccountInv' BY <1>1 DEF AccessInv, AccountInv
<1>6. SignOutInv' BY <1>1 DEF AccessInv, SignOutInv, TypeOK
<1>7. SignedOutStaysOut' /\ AuditTellsChanges'
  BY DEF AccessInv, SignedOutStaysOut, AuditTellsChanges
<1>8. AuditInv' BY DEF AccessInv, AuditInv, Passed, PassedAndCommitted, Running
<1>9. RoleInv'
  BY SMTT(30) DEF AccessInv, RoleInv, Passed, PassedAndCommitted, Running
<1>10. QED BY <1>2, <1>3, <1>4, <1>5, <1>6, <1>7, <1>8, <1>9 DEF AccessInv

LEMMA CrashInv ==
  ASSUME AccessInv, Crash
  PROVE  AccessInv'
<1>1. TypeOK BY DEF AccessInv
<1>2. /\ db' = disk /\ disk' = disk /\ expired' = expired
      /\ lastWriter' = lastWriter /\ signedOut' = signedOut
      /\ open' = FALSE /\ decided' = {} /\ void' = void
      /\ crashes' = crashes + 1 /\ crashes < MaxCrashes
  BY DEF Crash
<1>3. \A r \in Requests : req'[r] = IF Running(r) THEN Over(r, "lost") ELSE req[r]
  BY DEF Crash, Running
<1>4. \A r \in Requests : req'[r] \in Request /\ req'[r].status # "running"
  BY <1>1, <1>3, OverTyped DEF TypeOK, Running
<1>5. \A r \in Requests : /\ req'[r].status = "ok" => req'[r] = req[r]
                          /\ req[r].status = "ok" => req'[r] = req[r]
                          /\ req[r].status # "idle" => req'[r].status # "idle"
  BY <1>1, <1>3, OverTyped DEF Running
<1>6. \A r \in Requests : /\ ~Running(r)' /\ ~SettingUp(r)'
                          /\ \A y : ~Passed(r, y)' /\ ~PassedAndCommitted(r, y)'
  BY <1>4 DEF Running, SettingUp, Passed, PassedAndCommitted
<1>7. TypeOK'
  <2>1. req' \in [Requests -> Request]
    <3>1. req' = [r \in Requests |-> IF Running(r) THEN Over(r, "lost") ELSE req[r]]
      BY DEF Crash, Running
    <3>2. QED BY <1>3, <1>4, <3>1
  <2>2. token' \in [Tokens -> {"unused", "pending", "spent"}] BY <1>1 DEF Crash, TypeOK
  <2>3. crashes' \in 0..MaxCrashes BY <1>1, <1>2 DEF TypeOK
  <2>4. QED BY <1>1, <1>2, <2>1, <2>2, <2>3 DEF TypeOK
<1>8. Placed' BY <1>6 DEF Placed
<1>9. Sound(db') /\ Sound(disk') BY <1>2 DEF AccessInv
<1>10. SetUpInv' BY <1>6 DEF SetUpInv
<1>11. AccountInv' BY <1>6 DEF AccountInv
<1>12. SignOutInv'
  <2>1. \A c \in signedOut : Settled(c) => Settled(c)'
    BY <1>1, <1>5 DEF TypeOK, Settled, Sids
  <2>2. QED BY <1>2, <1>6, <2>1 DEF AccessInv, SignOutInv
<1>13. SignedOutStaysOut' BY <1>2 DEF AccessInv, SignedOutStaysOut
<1>14. AuditInv'
  <2>1. \A r \in Requests : ~Passed(r, Effect[req[r].kind])' BY <1>4 DEF Passed, Running
  <2>2. \A r \in Requests : req'[r].status = "ok" => r \in disk.trail
    BY <1>5 DEF AccessInv, AuditTellsChanges
  <2>3. db'.trail \subseteq db'.changed \cup void' BY <1>2 DEF AccessInv, AuditTellsChanges
  <2>4. QED BY <1>2, <1>6, <2>1, <2>2, <2>3 DEF AuditInv
<1>15. AuditTellsChanges' BY <1>2, <1>5 DEF AccessInv, AuditTellsChanges
<1>16. RoleInv'
  <2>1. \A t \in Teams, u \in Users : lastWriter[t][u] # Nobody => lastWriter[t][u] \in Requests
    BY <1>1 DEF TypeOK
  <2>2. QED BY <1>2, <1>4, <1>5, <1>6, <2>1 DEF AccessInv, RoleInv
<1>17. QED
  BY <1>7, <1>8, <1>9, <1>10, <1>11, <1>12, <1>13, <1>14, <1>15, <1>16 DEF AccessInv

LEMMA InitInv == Init => AccessInv
<1> SUFFICES ASSUME Init PROVE AccessInv
  OBVIOUS
<1>1. /\ db \in Database /\ Sound(db) /\ disk = db /\ db.trail = {}
      /\ \A r \in Requests : req[r] = Idle
      /\ signedOut = {}
      /\ \A t \in Teams, u \in Users : lastWriter[t][u] = Nobody
  BY DEF Init
<1>2. \A r \in Requests : ~Running(r) /\ req[r].status # "ok"
  BY <1>1 DEF Running, Idle
<1>3. TypeOK
  <2>1. Idle \in Request
    <3>1. 1 \in Nat BY SMT
    <3>2. QED BY <3>1 DEF Idle, Request, Kinds, Ranks, Session
  <2>2. req \in [Requests -> Request] BY <2>1 DEF Init
  <2>3. lastWriter \in [Teams -> [Users -> Requests \cup {Nobody}]] BY DEF Init
  <2>4. crashes \in 0..MaxCrashes BY DEF Init
  <2>5. token \in [Tokens -> {"unused", "pending", "spent"}] BY DEF Init
  <2>6. QED BY <1>1, <2>2, <2>3, <2>4, <2>5 DEF Init, TypeOK
<1>4. Placed BY <1>2 DEF Placed
<1>5. SetUpInv BY <1>2 DEF SetUpInv, SettingUp
<1>6. AccountInv BY <1>2 DEF AccountInv, Passed
<1>7. SignOutInv BY <1>1, <1>2 DEF SignOutInv, Passed, PassedAndCommitted
<1>8. SignedOutStaysOut BY <1>1 DEF SignedOutStaysOut
<1>9. AuditInv BY <1>1, <1>2 DEF AuditInv, Passed, PassedAndCommitted
<1>10. AuditTellsChanges BY <1>1, <1>2 DEF AuditTellsChanges
<1>11. RoleInv BY <1>1 DEF RoleInv
<1>12. QED
  BY <1>1, <1>3, <1>4, <1>5, <1>6, <1>7, <1>8, <1>9, <1>10, <1>11 DEF AccessInv

LEMMA StatementInv ==
  ASSUME AccessInv, NEW r \in Requests, Statement(r)
  PROVE  AccessInv'
BY ConfiguredInv, InsertTeamInv, AuthenticateInv, CheckStateInv, PopStateInv, ExchangeInv,
   FindInv, InsertAccountInv, InsertMemberInv, InsertSessionInv, DropSessionInv,
   AuthoriseInv, WriteInv, BeginInv, DecideInv, SaveInv, InsertAuditInv, CommitInv
DEF Statement

LEMMA NextInv ==
  ASSUME AccessInv, Next
  PROVE  AccessInv'
<1>1. CASE \E r \in Requests : Arrive(r) \/ Statement(r) \/ Answer(r)
  BY <1>1, ArriveInv, StatementInv, AnswerInv
<1>2. ASSUME NEW k \in Tokens, SsoStart(k)
      PROVE  AccessInv'
  <2>1. TypeOK' BY <1>2 DEF AccessInv, TypeOK, SsoStart, LedgerKept
  <2>2. QED BY <1>2, <2>1, OutsideInv DEF SsoStart, LedgerKept
<1>3. ASSUME NEW s \in Sids, Expire(s)
      PROVE  AccessInv'
  <2>1. TypeOK' BY <1>3 DEF AccessInv, TypeOK, Expire, LedgerKept
  <2>2. QED BY <1>3, <2>1, OutsideInv DEF Expire, LedgerKept
<1>4. CASE Crash BY <1>4, CrashInv
<1>5. QED BY <1>1, <1>2, <1>3, <1>4 DEF Next

\* What the tables hold, as the connection sees them and on disk, is what the
\* positions of the requests in their handlers say, in every reachable state.
THEOREM AccessInvariant == Spec => []AccessInv
<1>1. AccessInv /\ UNCHANGED vars => AccessInv'
  <2> SUFFICES ASSUME AccessInv, UNCHANGED vars PROVE AccessInv'
    OBVIOUS
  <2>1. TypeOK' BY DEF vars, AccessInv, TypeOK
  <2>2. QED BY <2>1, OutsideInv DEF vars
<1>2. AccessInv /\ [Next]_vars => AccessInv' BY <1>1, NextInv
<1>3. QED BY InitInv, <1>2, PTL DEF Spec

\* setup_initial_admin makes one platform administrator, however many set-ups
\* overlap and whatever a crash leaves behind.
THEOREM OneSetUpEver == Spec => []OneSetUp
<1>1. AccessInv => OneSetUp BY DEF AccessInv, Sound, OneSetUp
<1>2. QED BY AccessInvariant, <1>1, PTL

\* No membership and no session of a user who does not exist, in the tables
\* and after a restart.
THEOREM NoDanglingRowsEver == Spec => []NoDanglingRows
<1>1. AccessInv => NoDanglingRows BY DEF AccessInv, Sound, NoDanglingRows
<1>2. QED BY AccessInvariant, <1>1, PTL

\* A session that was signed out, or replaced by a sign-in, never works again.
THEOREM SignOutIsFinal == Spec => []SignedOutStaysOut
<1>1. AccessInv => SignedOutStaysOut BY DEF AccessInv
<1>2. QED BY AccessInvariant, <1>1, PTL

\* Audit rows on disk report changes on disk, and an answered change has one.
THEOREM AuditIsTrue == Spec => []AuditTellsChanges
<1>1. AccessInv => AuditTellsChanges BY DEF AccessInv
<1>2. QED BY AccessInvariant, <1>1, PTL

-----------------------------------------------------------------------------
(* Only require_principal gives a request its actor *)

LEMMA ActorKept ==
  ASSUME TypeOK, NEW r \in Requests, NEW q \in Requests,
         \/ \E status \in {"ok", "refused"} : End(q, status)
         \/ Advance(q)
         \/ \E found \in BOOLEAN : Known(q, found)
         \/ Arrive(q) \/ Authenticate(q)
  PROVE  req'[r].actor = req[r].actor \/ req'[r].actor = NoSession
<1>1. req \in [Requests -> Request] /\ req[q] \in Request BY DEF TypeOK
<1>2. ASSUME NEW status \in {"ok", "refused"}, End(q, status)
      PROVE  req'[r].actor = req[r].actor \/ req'[r].actor = NoSession
  <2>1. Over(q, status).actor = NoSession BY OverTyped
  <2>2. QED BY <1>1, <1>2, <2>1 DEF End
<1>3. CASE Advance(q) BY <1>1, <1>3 DEF Advance, Request
<1>4. ASSUME NEW found \in BOOLEAN, Known(q, found)
      PROVE  req'[r].actor = req[r].actor \/ req'[r].actor = NoSession
  BY <1>1, <1>4 DEF Known, Request
<1>5. CASE Arrive(q)
  <2>1. PICK c \in Calls : \E cookie \in CookiesFor(c.kind) :
          req' = [req EXCEPT ![q] =
            [Idle EXCEPT !.status = "running", !.kind = c.kind, !.user = c.user,
                         !.team = IF c.kind \in {"setup", "sso"} THEN DefaultTeam ELSE c.team,
                         !.role = IF c.kind = "setup" THEN Administrator ELSE c.role,
                         !.token = c.token, !.cookie = cookie]]
    BY <1>5 DEF Arrive
  <2>2. QED BY <1>1, <2>1 DEF Idle
<1>6. CASE Authenticate(q)
  <2>1. CASE Refuse(q) BY <1>2, <2>1 DEF Refuse
  <2>2. CASE ~Refuse(q)
    <3>1. PICK t : req' = [req EXCEPT ![q] = [req[q] EXCEPT
                     !.team = t, !.at = req[q].at + (IF req[q].cookie = Nobody THEN 3 ELSE 1)]]
      BY <1>1, <1>6, <2>2 DEF Authenticate
    <3>2. QED BY <1>1, <3>1 DEF Request
  <2>3. QED BY <2>1, <2>2
<1>7. QED BY <1>2, <1>3, <1>4, <1>5, <1>6

\* Each statement but this one keeps or forgets the actor.
LEMMA OtherStatements ==
  ASSUME TypeOK, NEW r \in Requests, NEW q \in Requests, Statement(q), ~Authorise(q)
  PROVE  req'[r].actor = req[r].actor \/ req'[r].actor = NoSession
<1>1. Refuse(q) => \E status \in {"ok", "refused"} : End(q, status) BY DEF Refuse
<1>2. CASE Configured(q) \/ CheckState(q) \/ Exchange(q)
  BY <1>1, <1>2, ActorKept DEF Configured, CheckState, Exchange
<1>3. CASE InsertTeam(q) \/ InsertAccount(q) \/ Begin(q) \/ Decide(q) \/ Save(q)
  <2>1. RollBack(q) => \E status \in {"ok", "refused"} : End(q, status) BY DEF RollBack
  <2>2. QED BY <1>1, <1>3, <2>1, ActorKept DEF InsertTeam, InsertAccount, Begin, Decide, Save
<1>4. CASE Find(q)
  <2>1. \E found \in BOOLEAN : Known(q, found) BY <1>4 DEF Find
  <2>2. QED BY <2>1, ActorKept
<1>5. CASE Authenticate(q) BY <1>5, ActorKept
<1>6. CASE \/ PopState(q) \/ InsertMember(q) \/ InsertSession(q) \/ DropSession(q)
           \/ Write(q) \/ InsertAudit(q) \/ Commit(q)
  BY <1>6, ActorKept
  DEF PopState, InsertMember, InsertSession, DropSession, Write, InsertAudit, Commit
<1>7. QED BY <1>2, <1>3, <1>4, <1>5, <1>6 DEF Statement

LEMMA OnlyAuthorise ==
  ASSUME TypeOK, Next, NEW r \in Requests, req[r].actor = NoSession, req'[r].actor # NoSession
  PROVE  Authorise(r) /\ ~Refuse(r)
<1>1. req \in [Requests -> Request] BY DEF TypeOK
<1>2. ASSUME NEW q \in Requests, Arrive(q) \/ Statement(q) \/ Answer(q)
      PROVE  Authorise(q)
  <2>1. ~Arrive(q) BY ActorKept
  <2>2. ~Answer(q)
    <3>1. Answer(q) => \E status \in {"ok", "refused"} : End(q, status) BY DEF Answer
    <3>2. QED BY <3>1, ActorKept
  <2>3. QED BY <1>2, <2>1, <2>2, OtherStatements
<1>3. ASSUME NEW q \in Requests, Authorise(q)
      PROVE  q = r /\ ~Refuse(q)
  <2>1. q = r BY <1>1, <1>3 DEF Authorise, Refuse, End
  <2>2. ~Refuse(q)
    <3>1. Refuse(q) => \E status \in {"ok", "refused"} : End(q, status) BY DEF Refuse
    <3>2. QED BY <3>1, ActorKept
  <2>3. QED BY <2>1, <2>2
<1>4. CASE \E q \in Requests : Arrive(q) \/ Statement(q) \/ Answer(q)
  BY <1>2, <1>3, <1>4
<1>5. CASE \/ \E k \in Tokens : SsoStart(k)
           \/ \E s \in Sids : Expire(s)
  BY <1>5 DEF SsoStart, Expire
<1>6. CASE Crash
  <2>1. req'[r] = IF req[r].status = "running" THEN Over(r, "lost") ELSE req[r]
    BY <1>6 DEF Crash
  <2>2. QED BY <2>1, OverTyped
<1>7. QED BY <1>4, <1>5, <1>6 DEF Next

LEMMA RankAsPromised ==
  ASSUME AccessInv, Next, NEW r \in Requests, NEW s, s = req'[r].actor,
         req[r].actor = NoSession, s # NoSession,
         Promised(s.team, s.user), db.accounts[s.user] # "admin"
  PROVE  req'[r].rank = req[lastWriter[s.team][s.user]].role
<1>1. TypeOK BY DEF AccessInv
<1>2. Authorise(r) /\ ~Refuse(r) BY <1>1, OnlyAuthorise
<1>3. req \in [Requests -> Request] /\ req[r] \in Request /\ db \in Database
  BY <1>1 DEF TypeOK
<1>4. PICK c : c = db.sessions[req[r].cookie] OBVIOUS
<1>5. /\ c \in Session /\ c # NoSession
      /\ \/ req' = [req EXCEPT ![r] = [req[r] EXCEPT !.kind = "purge", !.at = 1]]
         \/ req' = [req EXCEPT ![r] =
              [req[r] EXCEPT !.at = 2, !.actor = c, !.rank = RankIn(db, c)]]
  BY <1>2, <1>4, AuthoriseCases
<1>6. s = c /\ req'[r].rank = RankIn(db, c)
  <2>1. CASE req' = [req EXCEPT ![r] = [req[r] EXCEPT !.kind = "purge", !.at = 1]]
    BY <1>3, <2>1 DEF Request
  <2>2. CASE req' = [req EXCEPT ![r] =
               [req[r] EXCEPT !.at = 2, !.actor = c, !.rank = RankIn(db, c)]]
    BY <1>3, <2>2 DEF Request
  <2>3. QED BY <1>5, <2>1, <2>2
<1>7. s.team \in Teams /\ s.user \in Users BY <1>5, <1>6 DEF Session
<1>8. PICK q \in Requests : lastWriter[s.team][s.user] = q /\ req[q].status = "ok"
  BY DEF Promised
<1>9. q # Nobody BY DEF Sids
<1>10. db.role[s.team][s.user] = req[q].role /\ req[q].role \in 1..3
  BY <1>7, <1>8, <1>9 DEF AccessInv, RoleInv
<1>11. QED BY <1>3, <1>5, <1>6, <1>8, <1>10, RankTyped

\* From the answer of add_member on, each request is authorised with the role
\* it gave: RoleInv keeps the row as its last writer left it.
THEOREM RoleChangesHold == Spec => RoleChangeTakesHold
<1>1. AccessInv /\ [Next]_vars => [\A r \in Requests : AuthorisedAnew(r)]_vars
  <2> SUFFICES ASSUME AccessInv, Next, NEW r \in Requests PROVE AuthorisedAnew(r)
    OBVIOUS
  <2>1. ASSUME NEW s, s = req'[r].actor,
               req[r].actor = NoSession, s # NoSession,
               Promised(s.team, s.user), db.accounts[s.user] # "admin"
        PROVE  req'[r].rank = req[lastWriter[s.team][s.user]].role
    BY <2>1, RankAsPromised
  <2>2. QED BY <2>1 DEF AuthorisedAnew
<1>2. QED BY AccessInvariant, <1>1, PTL DEF Spec, RoleChangeTakesHold
=============================================================================
