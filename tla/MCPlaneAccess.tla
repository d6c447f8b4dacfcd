---------------------------- MODULE MCPlaneAccess ----------------------------
(***************************************************************************)
(* A small instance of PlaneAccess: a plane that was never set up, and two *)
(* with an administrator and a member.  In one the member signs in by SSO  *)
(* and holds a session; in the other the administrator holds it, and the   *)
(* member has an account but no row in the default team.                   *)
(***************************************************************************)
EXTENDS PlaneAccessInvariant, TLC

CONSTANTS root, ann, home, ops, c1, k1

Empty ==
  [teams |-> {}, accounts |-> [u \in Users |-> "none"],
   role |-> [t \in Teams |-> [u \in Users |-> 0]],
   sessions |-> [s \in Sids |-> NoSession], trail |-> {}, changed |-> {}]

\* ann administers ops, and has a session in the team she does not administer.
SetUp(account, rank) ==
  [Empty EXCEPT
     !.teams = {home, ops},
     !.accounts = (root :> "admin") @@ (ann :> account) @@ @,
     !.role = (home :> ((root :> Administrator) @@ (ann :> rank) @@ @[home]))
              @@ (ops :> ((ann :> Administrator) @@ @[ops])) @@ @,
     !.sessions = (c1 :> [user |-> IF rank = 0 THEN root ELSE ann, team |-> home]) @@ @]

MCInitialDbs == {Empty, SetUp("sso", Operator), SetUp("local", 0)}

Ask(kind, user, team, role) ==
  [kind |-> kind, user |-> user, team |-> team, role |-> role, token |-> k1]

MCCalls ==
  {Ask("setup", root, home, 3), Ask("setup", ann, home, 3),
   Ask("login", ann, home, 1), Ask("logout", ann, home, 1), Ask("sso", ann, home, 2),
   Ask("add_member", ann, home, 1), Ask("configure", ann, ops, 1), Ask("decide", ann, home, 1)}

MCSymmetry == Permutations(Requests)
=============================================================================
