---------------------------- MODULE PolicyBundles ----------------------------
(***************************************************************************)
(* Declarative policy bundles: one JSON document that the Python runtime   *)
(* (policy/bundle.py, policy/engine.py) and the Node.js runtime            *)
(* (nodejs/src/policyBundle.ts) load and evaluate each in its own way.     *)
(*                                                                         *)
(* JSON objects are records: DOMAIN gives the keys that are present.  A    *)
(* JSON value is a member of a small set, with PyText and NodeText for the *)
(* strings the runtimes make of it and Starts and Inside for the           *)
(* comparisons of prefixes.                                                *)
(***************************************************************************)
EXTENDS Naturals, Sequences

CONSTANTS
  Bundles,     \* rule lists
  Conditions,  \* the `when' objects of their rules, and those nested in them
  Depth,       \* Depth[when]: how deep it nests
  Contexts,    \* what an agent asks to do: agent, environment, action, resource
  EmptyObject, \* an empty object, or empty string, where a list is expected
  PyText,      \* PyText[v]: what str(v) makes of a JSON value
  NodeText,    \* NodeText[v]: what String(v) makes of it
  PyStrip,     \* PyStrip[p]: p.rstrip("/"), without any slash at its end
  NodeStrip,   \* NodeStrip[p]: p.replace(/\/$/, ""), without the last slash
  Starts,      \* Starts[p]: the actions that start with p
  Inside,      \* Inside[p]: the resources that start with p and a slash
  Wildcard,    \* Wildcard[p]: the p/ of a pattern p/*, or NoPrefix
  NoPrefix,
  NotSent      \* an environment the caller has not given

Has(object, key) == key \in DOMAIN object

Listed(when, key) == Has(when, key) /\ when[key] # EmptyObject

\* The objects in the list under `all' or `any'; Python iterates over an empty
\* object too.
Items(when, key) == IF Listed(when, key) THEN {when[key][i] : i \in DOMAIN when[key]} ELSE {}

\* Rules are a list, and a JSON document is finite.
ASSUME BundleAssumption ==
  /\ \A rules \in Bundles :
       /\ Len(rules) \in Nat /\ DOMAIN rules = 1..Len(rules)
       /\ \A i \in DOMAIN rules : Has(rules[i], "when") => rules[i].when \in Conditions
  /\ Depth \in [Conditions -> Nat]
  /\ \A when \in Conditions : \A part \in Items(when, "all") \cup Items(when, "any") :
       part \in Conditions /\ Depth[part] < Depth[when]

Keys == {"agent_id", "environment", "action", "action_prefix", "action_in",
         "resource", "resource_prefix"}

\* models.Decision, the stricter the greater.
Strictness == [ALLOW |-> 0, REQUIRE_APPROVAL |-> 1, BLOCK |-> 2]
Decisions == DOMAIN Strictness

VARIABLES
  bundle, ctx,  \* the input, fixed
  python, node  \* the two runtimes: the rule they are at, the decisions of those that matched

vars == <<bundle, ctx, python, node>>

Fresh == [pc |-> "load", rule |-> 1, decisions |-> {}, decision |-> "none"]

Init ==
  /\ bundle \in Bundles
  /\ ctx \in Contexts
  /\ python = Fresh
  /\ node = Fresh

-----------------------------------------------------------------------------
(* Conditions *)

\* ALL of the objects under `all', else ANY of those under `any'; leaf says how
\* an object without them is evaluated, form which of the three it is.  Keys
\* beside `all' and beside `any' are not looked at.
Join(form, leaf) ==
  LET value[when \in Conditions] ==
        CASE form[when] = "all" -> \A part \in Items(when, "all") : value[part]
          [] form[when] = "any" -> \E part \in Items(when, "any") : value[part]
          [] OTHER -> leaf[when]
  IN value

\* _condition_from_when asks whether the key is there.
PyForm ==
  [when \in Conditions |->
     IF Has(when, "all") THEN "all" ELSE IF Has(when, "any") THEN "any" ELSE "leaf"]

\* matchesWhen asks whether it holds a list.
NodeForm ==
  [when \in Conditions |->
     IF Listed(when, "all") THEN "all" ELSE IF Listed(when, "any") THEN "any" ELSE "leaf"]

Read(when) == Items(when, IF Has(when, "all") THEN "all" ELSE "any")

\* Every object that is looked at is good.
Throughout(good) ==
  LET value[when \in Conditions] ==
        /\ good[when]
        /\ \A part \in Read(when) : value[part]
  IN value

Nests(when) == Has(when, "all") \/ Has(when, "any")

\* The comparisons both runtimes make, each with its own strings.
Compare(c, key, value, text, strip) ==
  CASE key = "agent_id" -> c.agent = text[value]
    [] key = "action" -> c.action = text[value]
    [] key = "action_prefix" -> c.action \in Starts[text[value]]
    [] key = "action_in" -> c.action \in {text[v] : v \in value}
    [] key = "resource_prefix" -> c.resource \in Inside[strip[text[value]]]

\* agent_is, environment_is, action_is, action_prefix, resource_matches and the
\* membership test of _condition_from_when.
Holds(c, key, value) ==
  CASE key = "environment" -> c.environment = PyText[value]
    [] key = "resource" -> IF Wildcard[PyText[value]] = NoPrefix
                             THEN c.resource = PyText[value]
                             ELSE c.resource \in Inside[Wildcard[PyText[value]]]
    [] OTHER -> Compare(c, key, value, PyText, PyStrip)

\* _condition_from_when raises on an empty object and on one without any key it
\* knows.
Accepts == Throughout([when \in Conditions |-> Nests(when) \/ DOMAIN when \cap Keys # {}])

\* Mutant: the parts are joined by ANY.
MatchesAnyKey(c) ==
  Join(PyForm,
       [when \in Conditions |-> \E key \in DOMAIN when \cap Keys : Holds(c, key, when[key])])

KeysHold(c, when) == \A key \in DOMAIN when \cap Keys : Holds(c, key, when[key])

\* The condition it returns: ALL and ANY of the nested ones, or ALL of the keys.
Matches(c) == Join(PyForm, [when \in Conditions |-> KeysHold(c, when)])

\* Mutant: the slash at the end of a prefix is not removed.
NodeHoldsUnstripped(c, key, value) ==
  CASE key = "environment" -> NodeText[value] = ""
    [] key = "resource" -> c.resource = NodeText[value]
    [] OTHER -> Compare(c, key, value, NodeText, NodeText)

\* matchesWhen: the environment is that of the fourth argument, in which
\* simulate passes the parameters only, and a pattern is a resource like any.
NodeHolds(c, key, value) ==
  CASE key = "environment" -> NodeText[value] = ""
    [] key = "resource" -> c.resource = NodeText[value]
    [] OTHER -> Compare(c, key, value, NodeText, NodeStrip)

NodeKeysHold(c, when) ==
  DOMAIN when # {} /\ \A key \in DOMAIN when \cap Keys : NodeHolds(c, key, when[key])

NodeMatches(c) == Join(NodeForm, [when \in Conditions |-> NodeKeysHold(c, when)])

-----------------------------------------------------------------------------
(* Loading and evaluating *)

\* _merge_decisions and mergeDecisions; nothing matched is ALLOW.
Merge(decisions) ==
  IF "BLOCK" \in decisions THEN "BLOCK"
  ELSE IF "REQUIRE_APPROVAL" \in decisions THEN "REQUIRE_APPROVAL" ELSE "ALLOW"

\* policy_from_dict: each rule needs a `when' that is accepted and a decision
\* that is known.
Loads(rules) ==
  /\ rules # <<>>
  /\ \A i \in DOMAIN rules : /\ Has(rules[i], "when") /\ Accepts[rules[i].when]
                             /\ Has(rules[i], "decision") /\ rules[i].decision \in Decisions

LoadPython ==
  /\ python.pc = "load"
  /\ python' = [python EXCEPT !.pc = IF Loads(bundle) THEN "evaluate" ELSE "rejected"]
  /\ UNCHANGED <<bundle, ctx, node>>

\* loadPolicyBundle asks for a rule and no more.
LoadNode ==
  /\ node.pc = "load"
  /\ node' = [node EXCEPT !.pc = IF bundle # <<>> THEN "evaluate" ELSE "rejected"]
  /\ UNCHANGED <<bundle, ctx, python>>

Remaining(runtime) == runtime.pc = "evaluate" /\ runtime.rule <= Len(bundle)

\* A rule without a decision, which only Node.js loads, adds undefined to the
\* list, and Merge passes over it.
DecisionOf(rule) == IF Has(rule, "decision") THEN {rule.decision} ELSE {}

\* The rule is evaluated, its decision noted if it matches.
After(runtime, matches) ==
  [runtime EXCEPT !.rule = @ + 1,
                  !.decisions = @ \cup (IF matches THEN DecisionOf(bundle[runtime.rule]) ELSE {})]

Decided(runtime) == [runtime EXCEPT !.pc = "decided", !.decision = Merge(runtime.decisions)]

\* RulePolicy.evaluate, one rule at a time.
EvaluatePython ==
  /\ Remaining(python)
  /\ python' = After(python, Matches(ctx)[bundle[python.rule].when])
  /\ UNCHANGED <<bundle, ctx, node>>

DecidePython ==
  /\ python.pc = "evaluate" /\ ~Remaining(python)
  /\ python' = Decided(python)
  /\ UNCHANGED <<bundle, ctx, node>>

\* policyFromBundle: a rule without `when' throws.
EvaluateNode ==
  /\ Remaining(node)
  /\ node' = IF Has(bundle[node.rule], "when")
               THEN After(node, NodeMatches(ctx)[bundle[node.rule].when])
               ELSE [node EXCEPT !.pc = "threw"]
  /\ UNCHANGED <<bundle, ctx, python>>

DecideNode ==
  /\ node.pc = "evaluate" /\ ~Remaining(node)
  /\ node' = Decided(node)
  /\ UNCHANGED <<bundle, ctx, python>>

Next ==
  \/ LoadPython \/ EvaluatePython \/ DecidePython
  \/ LoadNode \/ EvaluateNode \/ DecideNode

Spec == Init /\ [][Next]_vars

-----------------------------------------------------------------------------
(* Properties *)

\* What a `when' says if every key of it counts.
Written(c) ==
  LET value[when \in Conditions] ==
        /\ KeysHold(c, when)
        /\ \A part \in Items(when, "all") : value[part]
        /\ Has(when, "any") => \E part \in Items(when, "any") : value[part]
  IN value

LookedAt(when) ==
  IF Has(when, "all") THEN {"all"} ELSE IF Has(when, "any") THEN {"any"} ELSE Keys

\* No key is ignored.
Plain == Throughout([when \in Conditions |-> DOMAIN when \subseteq LookedAt(when)])

Applying == {i \in DOMAIN bundle : Written(ctx)[bundle[i].when]}

\* Python never decides more loosely than a rule that applies as written, and,
\* where no key is ignored, decides as the strictest of them says
\* (_condition_from_when, RulePolicy.evaluate).
DecidesAsWritten ==
  python.pc = "decided" =>
    /\ \A i \in Applying : Strictness[python.decision] >= Strictness[bundle[i].decision]
    /\ (\A i \in DOMAIN bundle : Plain[bundle[i].when]) =>
         IF Applying = {} THEN python.decision = "ALLOW"
         ELSE \E i \in Applying : python.decision = bundle[i].decision

\* No key whose meaning depends on the runtime, and no value whose text does: a
\* number, a boolean or null, an object in place of a list, or a prefix that
\* ends in more slashes than one.
SameText(value) == PyText[value] = NodeText[value]

MeansTheSame(when) ==
  /\ ~Has(when, "environment")
  /\ \A key \in {"agent_id", "action", "action_prefix", "resource", "resource_prefix"} :
       Has(when, key) => SameText(when[key])
  /\ Has(when, "action_in") => \A v \in when.action_in : SameText(v)
  /\ Has(when, "resource") => Wildcard[PyText[when.resource]] = NoPrefix
  /\ Has(when, "resource_prefix") =>
       PyStrip[PyText[when.resource_prefix]] = NodeStrip[NodeText[when.resource_prefix]]

Portable ==
  Throughout([when \in Conditions |->
                /\ PyForm[when] = NodeForm[when]
                /\ PyForm[when] = "leaf" => MeansTheSame(when)])

\* "Node.js can load the same JSON" (website/docs/policies.md): of a bundle that
\* Python accepts both runtimes make the same decision, unless it uses one of
\* the keys or values above.
RuntimesAgree ==
  /\ python.pc = "decided" /\ node.pc = "decided"
  /\ \A i \in DOMAIN bundle : Portable[bundle[i].when]
  => python.decision = node.decision

-----------------------------------------------------------------------------
(* The inductive invariant *)

\* A runtime has noted the decisions of the rules before the one it is at, as
\* far as their conditions have this value, and decides when it is through with
\* them (RulePolicy.evaluate, policyFromBundle).
RuntimeInv(rules, runtime, value) ==
  /\ runtime \in [pc : {"load", "rejected", "threw", "evaluate", "decided"},
                  rule : 1..Len(rules) + 1,
                  decisions : SUBSET UNION {DecisionOf(rules[i]) : i \in DOMAIN rules},
                  decision : Decisions \cup {"none"}]
  /\ runtime.pc \in {"load", "rejected"} => runtime.rule = 1
  /\ \A i \in 1..runtime.rule - 1 : Has(rules[i], "when")
  /\ runtime.decisions =
       UNION {DecisionOf(rules[i]) : i \in {j \in 1..runtime.rule - 1 : value[rules[j].when]}}
  /\ runtime.pc = "decided" => /\ runtime.rule = Len(rules) + 1
                               /\ runtime.decision = Merge(runtime.decisions)

\* Both runtimes go through the same list, Python only if it accepted all of it.
BundlesInv ==
  /\ bundle \in Bundles /\ ctx \in Contexts
  /\ RuntimeInv(bundle, python, Matches(ctx))
  /\ RuntimeInv(bundle, node, NodeMatches(ctx))
  /\ python.pc \in {"evaluate", "decided"} => Loads(bundle)
=============================================================================
