--------------------------- MODULE MCPolicyRegistry ---------------------------
(***************************************************************************)
(* A small instance of PolicyRegistry: two versions, two bundles and one   *)
(* agent, on an empty plane and on one that knows the first version.       *)
(***************************************************************************)
EXTENDS PolicyRegistryInvariant, TLC

CONSTANTS v1, v2, b1, b2, a1

Empty ==
  [bundle |-> [v \in Versions |-> None], hash |-> [v \in Versions |-> None],
   active |-> None, agent |-> [a \in Agents |-> NoRow], trail |-> {}]

MCInitialDbs ==
  {Empty,
   [Empty EXCEPT !.bundle = (v1 :> b1) @@ @, !.hash = (v1 :> b1) @@ @, !.active = v1,
                 !.agent = (a1 :> [version |-> v1, named |-> FALSE]) @@ @]}

Ask(kind, version, bundle) ==
  [kind |-> kind, version |-> version, bundle |-> bundle, agent |-> a1]

MCCalls ==
  {Ask("register_policy", v1, b1), Ask("register_policy", v1, b2),
   Ask("register_policy", v2, b2), Ask("register_inactive", v1, b2),
   Ask("register_inactive", v2, b1), Ask("register_agent", Latest, b1),
   Ask("register_agent", v2, b1), Ask("register_agent", NoPolicy, b1),
   Ask("assign", Latest, b1), Ask("assign", v2, b1)}

MCSymmetry == Permutations(Requests)
=============================================================================
