--------------------------- MODULE MCPolicyBundles ---------------------------
(***************************************************************************)
(* Lists of at most two rules over a handful of conditions that use every  *)
(* key, nest, carry keys nobody reads, or are wrong.                       *)
(***************************************************************************)
EXTENDS PolicyBundles, FiniteSetsExt, TLC

CONSTANT JsonTrue  \* the boolean, beside the strings

Texts == {"send", "file.read", "file.", "docs/a", "docs/*", "docs", "docs/", "docs//",
          "production", "other", "bot"}
MCPyText == [s \in Texts |-> s] @@ (JsonTrue :> "True")
MCNodeText == [s \in Texts |-> s] @@ (JsonTrue :> "true")
MCPyStrip == [p \in {"docs", "docs/", "docs//"} |-> "docs"]
MCNodeStrip == [p \in {"docs", "docs/"} |-> "docs"] @@ ("docs//" :> "docs/")

MCStarts == ("file." :> {"file.read"})
MCInside == ("docs" :> {"docs/a"}) @@ [p \in {"docs/", "docs//"} |-> {}]
MCWildcard == ("docs/a" :> NoPrefix) @@ ("docs/*" :> "docs")

MCContexts ==
  [agent : {"bot"}, environment : {"production", NotSent},
   action : {"file.read", "send", "true"}, resource : {"docs/a", "mail"}]

Leaves ==
  {[action |-> "send"], [action_prefix |-> "file."], [action_in |-> {"send", "file.read"}],
   [resource |-> "docs/a"], [resource |-> "docs/*"], [resource_prefix |-> "docs"],
   [resource_prefix |-> "docs/"], [resource_prefix |-> "docs//"], [action |-> JsonTrue],
   [action_in |-> {"send", JsonTrue}],
   [environment |-> "production"], [agent_id |-> "other"],
   [action |-> "send", resource_prefix |-> "docs"],
   [action |-> "send", agent_id |-> "bot"],
   [action |-> "send", enviroment |-> "staging"], [enviroment |-> "staging"]}

Whens ==
  Leaves \cup
  {[all |-> <<>>], [any |-> <<>>], [any |-> EmptyObject],
   [all |-> EmptyObject, action |-> "send"],
   [all |-> <<[action |-> "send"], [environment |-> "production"]>>],
   [any |-> <<[action |-> "send"], [resource |-> "docs/a"]>>],
   [all |-> <<[any |-> <<[agent_id |-> "bot"]>>], [action |-> "send"]>>],
   [any |-> <<[action |-> "send"], [enviroment |-> "staging"]>>],
   [all |-> <<[action |-> "send"]>>, environment |-> "production"]}

\* A rule with an unknown decision, none, or no condition.
OddRules ==
  {[when |-> [action |-> "send"], decision |-> "DENY"], [when |-> [action |-> "send"]],
   [decision |-> "BLOCK"]}
RulesOver(whens) == [when : whens, decision : {"ALLOW", "REQUIRE_APPROVAL", "BLOCK"}] \cup OddRules
Rules == RulesOver(Whens)

\* Rules meet only in the merge: beside any rule, one of each decision that applies to
\* some contexts, one whose condition differs between the runtimes, and the odd ones.
Partners == RulesOver({[action |-> "send"], [action_prefix |-> "file."], [action |-> JsonTrue]})

MCBundles ==
  {<<>>} \cup {<<r>> : r \in Rules} \cup (Rules \X Partners) \cup (Partners \X Rules)

\* A `when' and what is nested in it.
PartsOf(when) == Items(when, "all") \cup Items(when, "any")
MCConditions ==
  LET Nested(whens) == whens \cup UNION {PartsOf(w) : w \in whens} IN Nested(Nested(Whens))
MCDepth[when \in MCConditions] == 1 + Max({0} \cup {MCDepth[part] : part \in PartsOf(when)})
=============================================================================
