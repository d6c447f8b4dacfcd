------------------------- MODULE PolicyBundlesProofs -------------------------
(***************************************************************************)
(* What the two runtimes make of a bundle, for any bundles, contexts and   *)
(* depth of nesting.  The values of conditions are recursive functions: by *)
(* Fixpoint they exist and so satisfy the equations that define them, and  *)
(* what relates two of them is shown by a condition of least depth that    *)
(* would be a counterexample (LeastCondition).                             *)
(***************************************************************************)
EXTENDS PolicyBundles, WellFoundedInduction, TLAPS

\* The conditions nested directly in one.
Parts(when) == Items(when, "all") \cup Items(when, "any")

\* Of any conditions there is one none of whose parts is among them.
LEMMA LeastCondition ==
  ASSUME NEW T \in SUBSET Conditions, T # {}
  PROVE  \E when \in T : Parts(when) \cap T = {}
<1> DEFINE depths == {Depth[when] : when \in T}
<1>1. depths \subseteq Nat /\ depths # {}
  BY BundleAssumption
<1>2. PICK n \in depths : \A m \in depths : <<m, n>> \notin OpToRel(<, Nat)
  <2> HIDE DEF depths
  <2> QED
    BY <1>1, WFMin, NatLessThanWellFounded, Zenon
<1>3. PICK when \in T : Depth[when] = n
  OBVIOUS
<1>4. ASSUME NEW part \in Parts(when) \cap T
      PROVE  FALSE
  <2>1. Depth[part] < Depth[when]
    BY <1>4, BundleAssumption DEF Parts
  <2>2. Depth[part] \in depths
    BY <1>4
  <2> QED
    BY <1>1, <1>2, <1>3, <2>1, <2>2 DEF OpToRel
<1> QED
  BY <1>4

\* Truth-valued functions that are true at the same points are equal.
LEMMA SameTruth ==
  ASSUME NEW S, NEW f \in [S -> BOOLEAN], NEW g \in [S -> BOOLEAN], \A x \in S : f[x] <=> g[x]
  PROVE  f = g
<1>1. ASSUME NEW x \in S
      PROVE  f[x] = g[x]
  BY Zenon
<1> QED
  BY <1>1

\* A monotone map of truth-valued functions has a fixed point: the function true
\* where every function is that the map does not take outside itself.
LEMMA Fixpoint ==
  ASSUME NEW S, NEW body \in [[S -> BOOLEAN] -> [S -> BOOLEAN]],
         \A f, g \in [S -> BOOLEAN] :
           (\A x \in S : f[x] => g[x]) => \A x \in S : body[f][x] => body[g][x]
  PROVE  \E f \in [S -> BOOLEAN] : body[f] = f
<1> DEFINE Closed(g) == g \in [S -> BOOLEAN] /\ \A x \in S : body[g][x] => g[x]
           F == [x \in S |-> \A g : Closed(g) => g[x]]
<1>1. F \in [S -> BOOLEAN] /\ body[F] \in [S -> BOOLEAN]
  <2>1. F \in [S -> BOOLEAN]
    OBVIOUS
  <2> QED
    BY <2>1
<1>2. \A g : Closed(g) => \A x \in S : F[x] => g[x]
  OBVIOUS
<1>3. \A x \in S : (\A g : Closed(g) => g[x]) => F[x]
  OBVIOUS
<1> HIDE DEF F
<1>4. \A x \in S : body[F][x] => F[x]
  <2>1. ASSUME NEW g, Closed(g), NEW x \in S, body[F][x]
        PROVE  g[x]
    <3>1. body[F][x] => body[g][x]
      BY <1>1, <1>2, <2>1
    <3> QED
      BY <2>1, <3>1
  <2> QED
    BY <1>3, <2>1
<1>5. Closed(body[F])
  BY <1>1, <1>4
<1>6. \A x \in S : F[x] => body[F][x]
  BY <1>2, <1>5
<1>7. body[F] = F
  BY <1>1, <1>4, <1>6, SameTruth
<1> QED
  BY <1>1, <1>7

-----------------------------------------------------------------------------
(* The equations of the recursive functions *)

\* Join(form, leaf) exists and is what its definition says.
LEMMA JoinEquation ==
  ASSUME NEW form, NEW leaf \in [Conditions -> BOOLEAN]
  PROVE  /\ Join(form, leaf) \in [Conditions -> BOOLEAN]
         /\ \A when \in Conditions :
              Join(form, leaf)[when] <=>
                IF form[when] = "all"
                  THEN \A part \in Items(when, "all") : Join(form, leaf)[part]
                ELSE IF form[when] = "any"
                  THEN \E part \in Items(when, "any") : Join(form, leaf)[part]
                ELSE leaf[when]
<1> DEFINE Body(f) == [when \in Conditions |->
               CASE form[when] = "all" -> \A part \in Items(when, "all") : f[part]
                 [] form[when] = "any" -> \E part \in Items(when, "any") : f[part]
                 [] OTHER -> leaf[when]]
           body == [f \in [Conditions -> BOOLEAN] |-> Body(f)]
<1>1. Join(form, leaf) = CHOOSE f : f = Body(f)
  BY DEF Join
<1>2. \A f : Body(f) \in [Conditions -> BOOLEAN]
  OBVIOUS
<1>3. ASSUME NEW f \in [Conditions -> BOOLEAN], NEW g \in [Conditions -> BOOLEAN],
             \A when \in Conditions : f[when] => g[when],
             NEW when \in Conditions, Body(f)[when]
      PROVE  Body(g)[when]
  BY <1>3, BundleAssumption
<1> HIDE DEF Body
<1>4. PICK f \in [Conditions -> BOOLEAN] : body[f] = f
  <2>1. body \in [[Conditions -> BOOLEAN] -> [Conditions -> BOOLEAN]]
    BY <1>2
  <2>2. \A f, g \in [Conditions -> BOOLEAN] :
          (\A x \in Conditions : f[x] => g[x])
            => \A x \in Conditions : body[f][x] => body[g][x]
    BY <1>3
  <2> HIDE DEF body
  <2> QED
    BY <2>1, <2>2, Fixpoint, Zenon
<1>5. \E g : g = Body(g)
  BY <1>4
<1>6. Join(form, leaf) = Body(Join(form, leaf))
  BY <1>1, <1>5, Zenon
<1>7. Join(form, leaf) \in [Conditions -> BOOLEAN]
  BY <1>2, <1>6, Zenon
<1> QED
  BY <1>6, <1>7 DEF Body

\* Throughout(good) exists and is what its definition says.
LEMMA ThroughoutEquation ==
  ASSUME NEW good \in [Conditions -> BOOLEAN]
  PROVE  /\ Throughout(good) \in [Conditions -> BOOLEAN]
         /\ \A when \in Conditions :
              Throughout(good)[when] <=>
                /\ good[when]
                /\ \A part \in Read(when) : Throughout(good)[part]
<1> DEFINE Body(f) == [when \in Conditions |->
               /\ good[when]
               /\ \A part \in Read(when) : f[part]]
           body == [f \in [Conditions -> BOOLEAN] |-> Body(f)]
<1>1. Throughout(good) = CHOOSE f : f = Body(f)
  BY DEF Throughout
<1>2. \A f : Body(f) \in [Conditions -> BOOLEAN]
  OBVIOUS
<1>3. ASSUME NEW f \in [Conditions -> BOOLEAN], NEW g \in [Conditions -> BOOLEAN],
             \A when \in Conditions : f[when] => g[when],
             NEW when \in Conditions, Body(f)[when]
      PROVE  Body(g)[when]
  BY <1>3, BundleAssumption DEF Read
<1> HIDE DEF Body
<1>4. PICK f \in [Conditions -> BOOLEAN] : body[f] = f
  <2>1. body \in [[Conditions -> BOOLEAN] -> [Conditions -> BOOLEAN]]
    BY <1>2
  <2>2. \A f, g \in [Conditions -> BOOLEAN] :
          (\A x \in Conditions : f[x] => g[x])
            => \A x \in Conditions : body[f][x] => body[g][x]
    BY <1>3
  <2> HIDE DEF body
  <2> QED
    BY <2>1, <2>2, Fixpoint, Zenon
<1>5. \E g : g = Body(g)
  BY <1>4
<1>6. Throughout(good) = Body(Throughout(good))
  BY <1>1, <1>5, Zenon
<1>7. Throughout(good) \in [Conditions -> BOOLEAN]
  BY <1>2, <1>6, Zenon
<1> QED
  BY <1>6, <1>7 DEF Body

\* Written(c) exists and is what its definition says.
LEMMA WrittenEquation ==
  ASSUME NEW c
  PROVE  /\ Written(c) \in [Conditions -> BOOLEAN]
         /\ \A when \in Conditions :
              Written(c)[when] <=>
                /\ KeysHold(c, when)
                /\ \A part \in Items(when, "all") : Written(c)[part]
                /\ Has(when, "any") => \E part \in Items(when, "any") : Written(c)[part]
<1> DEFINE Body(f) == [when \in Conditions |->
               /\ KeysHold(c, when)
               /\ \A part \in Items(when, "all") : f[part]
               /\ Has(when, "any") => \E part \in Items(when, "any") : f[part]]
           body == [f \in [Conditions -> BOOLEAN] |-> Body(f)]
<1>1. Written(c) = CHOOSE f : f = Body(f)
  BY DEF Written
<1>2. \A f : Body(f) \in [Conditions -> BOOLEAN]
  OBVIOUS
<1>3. ASSUME NEW f \in [Conditions -> BOOLEAN], NEW g \in [Conditions -> BOOLEAN],
             \A when \in Conditions : f[when] => g[when],
             NEW when \in Conditions, Body(f)[when]
      PROVE  Body(g)[when]
  BY <1>3, BundleAssumption
<1> HIDE DEF Body
<1>4. PICK f \in [Conditions -> BOOLEAN] : body[f] = f
  <2>1. body \in [[Conditions -> BOOLEAN] -> [Conditions -> BOOLEAN]]
    BY <1>2
  <2>2. \A f, g \in [Conditions -> BOOLEAN] :
          (\A x \in Conditions : f[x] => g[x])
            => \A x \in Conditions : body[f][x] => body[g][x]
    BY <1>3
  <2> HIDE DEF body
  <2> QED
    BY <2>1, <2>2, Fixpoint, Zenon
<1>5. \E g : g = Body(g)
  BY <1>4
<1>6. Written(c) = Body(Written(c))
  BY <1>1, <1>5, Zenon
<1>7. Written(c) \in [Conditions -> BOOLEAN]
  BY <1>2, <1>6, Zenon
<1> QED
  BY <1>6, <1>7 DEF Body

\* The equation of the conditions of Python.
LEMMA MatchesEquation ==
  ASSUME NEW c
  PROVE  /\ Matches(c) \in [Conditions -> BOOLEAN]
         /\ \A when \in Conditions :
              Matches(c)[when] <=>
                IF Has(when, "all") THEN \A part \in Items(when, "all") : Matches(c)[part]
                ELSE IF Has(when, "any") THEN \E part \in Items(when, "any") : Matches(c)[part]
                ELSE KeysHold(c, when)
<1> DEFINE leaf == [when \in Conditions |-> KeysHold(c, when)]
<1>1. Matches(c) = Join(PyForm, leaf)
  BY DEF Matches
<1>2. leaf \in [Conditions -> BOOLEAN]
  BY DEF KeysHold
<1>3. \A when \in Conditions : leaf[when] <=> KeysHold(c, when)
  OBVIOUS
<1>4. \A when \in Conditions :
        /\ PyForm[when] = "all" <=> Has(when, "all")
        /\ PyForm[when] = "any" <=> ~Has(when, "all") /\ Has(when, "any")
  BY DEF PyForm
<1> HIDE DEF leaf
<1>5. /\ Join(PyForm, leaf) \in [Conditions -> BOOLEAN]
      /\ \A when \in Conditions :
           Join(PyForm, leaf)[when] <=>
             IF PyForm[when] = "all"
               THEN \A part \in Items(when, "all") : Join(PyForm, leaf)[part]
             ELSE IF PyForm[when] = "any"
               THEN \E part \in Items(when, "any") : Join(PyForm, leaf)[part]
             ELSE leaf[when]
  BY <1>2, JoinEquation
<1> QED
  BY <1>1, <1>3, <1>4, <1>5

\* The equation of matchesWhen.
LEMMA NodeMatchesEquation ==
  ASSUME NEW c
  PROVE  /\ NodeMatches(c) \in [Conditions -> BOOLEAN]
         /\ \A when \in Conditions :
              NodeMatches(c)[when] <=>
                IF NodeForm[when] = "all"
                  THEN \A part \in Items(when, "all") : NodeMatches(c)[part]
                ELSE IF NodeForm[when] = "any"
                  THEN \E part \in Items(when, "any") : NodeMatches(c)[part]
                ELSE NodeKeysHold(c, when)
<1> DEFINE leaf == [when \in Conditions |-> NodeKeysHold(c, when)]
<1>1. NodeMatches(c) = Join(NodeForm, leaf)
  BY DEF NodeMatches
<1>2. leaf \in [Conditions -> BOOLEAN]
  BY DEF NodeKeysHold
<1>3. \A when \in Conditions : leaf[when] <=> NodeKeysHold(c, when)
  OBVIOUS
<1> HIDE DEF leaf
<1>4. /\ Join(NodeForm, leaf) \in [Conditions -> BOOLEAN]
      /\ \A when \in Conditions :
           Join(NodeForm, leaf)[when] <=>
             IF NodeForm[when] = "all"
               THEN \A part \in Items(when, "all") : Join(NodeForm, leaf)[part]
             ELSE IF NodeForm[when] = "any"
               THEN \E part \in Items(when, "any") : Join(NodeForm, leaf)[part]
             ELSE leaf[when]
  BY <1>2, JoinEquation
<1> QED
  BY <1>1, <1>3, <1>4

\* The equations of the three ways a condition can be good.
LEMMA AcceptsEquation ==
  \A when \in Conditions : Accepts[when] <=>
    /\ (Nests(when) \/ DOMAIN when \cap Keys # {})
    /\ \A part \in Read(when) : Accepts[part]
<1> DEFINE good == [when \in Conditions |-> (Nests(when) \/ DOMAIN when \cap Keys # {})]
<1>1. Accepts = Throughout(good)
  BY DEF Accepts
<1>2. good \in [Conditions -> BOOLEAN]
  OBVIOUS
<1>3. \A when \in Conditions : good[when] <=> (Nests(when) \/ DOMAIN when \cap Keys # {})
  OBVIOUS
<1> HIDE DEF good
<1> QED
  BY <1>1, <1>2, <1>3, ThroughoutEquation

LEMMA PlainEquation ==
  \A when \in Conditions : Plain[when] <=>
    /\ DOMAIN when \subseteq LookedAt(when)
    /\ \A part \in Read(when) : Plain[part]
<1> DEFINE good == [when \in Conditions |-> DOMAIN when \subseteq LookedAt(when)]
<1>1. Plain = Throughout(good)
  BY DEF Plain
<1>2. good \in [Conditions -> BOOLEAN]
  OBVIOUS
<1>3. \A when \in Conditions : good[when] <=> DOMAIN when \subseteq LookedAt(when)
  OBVIOUS
<1> HIDE DEF good
<1> QED
  BY <1>1, <1>2, <1>3, ThroughoutEquation

LEMMA PortableEquation ==
  \A when \in Conditions : Portable[when] <=>
    /\ PyForm[when] = NodeForm[when]
    /\ PyForm[when] = "leaf" => MeansTheSame(when)
    /\ \A part \in Read(when) : Portable[part]
<1> DEFINE good == [when \in Conditions |->
                      /\ PyForm[when] = NodeForm[when]
                      /\ PyForm[when] = "leaf" => MeansTheSame(when)]
<1>1. Portable = Throughout(good)
  BY DEF Portable
<1>2. good \in [Conditions -> BOOLEAN]
  OBVIOUS
<1>3. \A when \in Conditions :
        good[when] <=> /\ PyForm[when] = NodeForm[when]
                       /\ PyForm[when] = "leaf" => MeansTheSame(when)
  OBVIOUS
<1> HIDE DEF good
<1> QED
  BY <1>1, <1>2, <1>3, ThroughoutEquation

-----------------------------------------------------------------------------
(* What the readings of a condition have in common *)

\* What holds as written matches in Python: the keys that are ignored could only
\* have made it harder to match.
LEMMA WrittenMatches ==
  ASSUME NEW c, NEW w \in Conditions, Written(c)[w]
  PROVE  Matches(c)[w]
<1> DEFINE T == {when \in Conditions : Written(c)[when] /\ ~Matches(c)[when]}
<1>1. SUFFICES ASSUME T # {} PROVE FALSE
  OBVIOUS
<1>2. PICK when \in T : Parts(when) \cap T = {}
  BY <1>1, LeastCondition
<1>3. \A part \in Parts(when) : Written(c)[part] => Matches(c)[part]
  BY <1>2, BundleAssumption DEF Parts
<1> QED
  BY <1>2, <1>3, WrittenEquation, MatchesEquation DEF Parts

\* Where no key is ignored, what matches holds as written.
LEMMA PlainMatches ==
  ASSUME NEW c, NEW w \in Conditions, Plain[w]
  PROVE  Matches(c)[w] => Written(c)[w]
<1> DEFINE T == {when \in Conditions : Plain[when] /\ Matches(c)[when] /\ ~Written(c)[when]}
<1>1. SUFFICES ASSUME T # {} PROVE FALSE
  OBVIOUS
<1>2. PICK when \in T : Parts(when) \cap T = {}
  BY <1>1, LeastCondition
<1>3. \A part \in Parts(when) : Plain[part] /\ Matches(c)[part] => Written(c)[part]
  BY <1>2, BundleAssumption DEF Parts
<1>4. CASE Has(when, "all")
  <2>1. DOMAIN when \subseteq {"all"}
    BY <1>2, <1>4, PlainEquation DEF LookedAt
  <2>2. DOMAIN when \cap Keys = {} /\ ~Has(when, "any")
    BY <2>1 DEF Keys, Has
  <2>3. \A part \in Items(when, "all") : Plain[part] /\ Matches(c)[part]
    BY <1>2, <1>4, PlainEquation, MatchesEquation DEF Read
  <2> QED
    BY <1>2, <1>3, <2>2, <2>3, WrittenEquation DEF Parts, KeysHold
<1>5. CASE ~Has(when, "all") /\ Has(when, "any")
  <2>1. DOMAIN when \subseteq {"any"}
    BY <1>2, <1>5, PlainEquation DEF LookedAt
  <2>2. DOMAIN when \cap Keys = {} /\ Items(when, "all") = {}
    BY <1>5, <2>1 DEF Keys, Has, Items, Listed
  <2>3. PICK part \in Items(when, "any") : Matches(c)[part]
    BY <1>2, <1>5, MatchesEquation
  <2>4. Plain[part]
    BY <1>2, <1>5, PlainEquation DEF Read
  <2> QED
    BY <1>2, <1>3, <2>2, <2>3, <2>4, WrittenEquation DEF Parts, KeysHold
<1>6. CASE ~Has(when, "all") /\ ~Has(when, "any")
  <2>1. Items(when, "all") = {}
    BY <1>6 DEF Items, Listed
  <2> QED
    BY <1>2, <1>6, <2>1, WrittenEquation, MatchesEquation
<1> QED
  BY <1>4, <1>5, <1>6

\* The text of the values and the prefixes being the same, so are the comparisons.
LEMMA SameComparison ==
  ASSUME NEW c, NEW when, MeansTheSame(when), NEW key \in DOMAIN when \cap Keys
  PROVE  NodeHolds(c, key, when[key]) <=> Holds(c, key, when[key])
<1>1. CASE key = "resource_prefix"
  BY <1>1 DEF MeansTheSame, SameText, Has, NodeHolds, Holds, Compare
<1>2. CASE key = "action_in"
  <2>1. {PyText[v] : v \in when[key]} = {NodeText[v] : v \in when[key]}
    BY <1>2 DEF MeansTheSame, SameText, Has
  <2> QED
    BY <1>2, <2>1 DEF NodeHolds, Holds, Compare
<1>3. CASE key = "resource"
  BY <1>3 DEF MeansTheSame, SameText, Has, NodeHolds, Holds
<1>4. CASE key \in {"agent_id", "action", "action_prefix"}
  BY <1>4 DEF MeansTheSame, SameText, Has, NodeHolds, Holds, Compare
<1> QED
  BY <1>1, <1>2, <1>3, <1>4 DEF Keys, MeansTheSame, Has

\* A condition that Python accepts, none of whose keys and values means something
\* else in the other runtime, matches in both runtimes or in none.
LEMMA PortableMatches ==
  ASSUME NEW c, NEW w \in Conditions, Accepts[w], Portable[w]
  PROVE  NodeMatches(c)[w] <=> Matches(c)[w]
<1> DEFINE T == {when \in Conditions : /\ Accepts[when] /\ Portable[when]
                                       /\ ~(NodeMatches(c)[when] <=> Matches(c)[when])}
<1>1. SUFFICES ASSUME T # {} PROVE FALSE
  OBVIOUS
<1>2. PICK when \in T : Parts(when) \cap T = {}
  BY <1>1, LeastCondition
<1>3. \A part \in Parts(when) :
        Accepts[part] /\ Portable[part] => (NodeMatches(c)[part] <=> Matches(c)[part])
  BY <1>2, BundleAssumption DEF Parts
<1>4. /\ PyForm[when] = IF Has(when, "all") THEN "all"
                        ELSE IF Has(when, "any") THEN "any" ELSE "leaf"
      /\ NodeForm[when] = PyForm[when]
      /\ PyForm[when] = "leaf" => MeansTheSame(when)
  BY <1>2, PortableEquation DEF PyForm
<1>5. \A part \in Read(when) : /\ Accepts[part] /\ Portable[part]
                               /\ NodeMatches(c)[part] <=> Matches(c)[part]
  BY <1>2, <1>3, AcceptsEquation, PortableEquation DEF Read, Parts
<1>6. CASE Has(when, "all")
  BY <1>2, <1>4, <1>5, <1>6, NodeMatchesEquation, MatchesEquation DEF Read
<1>7. CASE ~Has(when, "all") /\ Has(when, "any")
  BY <1>2, <1>4, <1>5, <1>7, NodeMatchesEquation, MatchesEquation DEF Read
<1>8. CASE ~Nests(when)
  <2>1. DOMAIN when \cap Keys # {} /\ MeansTheSame(when)
    BY <1>2, <1>4, <1>8, AcceptsEquation DEF Nests
  <2>2. \A key \in DOMAIN when \cap Keys :
          NodeHolds(c, key, when[key]) <=> Holds(c, key, when[key])
    BY <2>1, SameComparison
  <2>3. NodeKeysHold(c, when) <=> KeysHold(c, when)
    BY <2>1, <2>2 DEF KeysHold, NodeKeysHold
  <2> QED
    BY <1>2, <1>4, <1>8, <2>3, NodeMatchesEquation, MatchesEquation DEF Nests
<1> QED
  BY <1>6, <1>7, <1>8 DEF Nests

-----------------------------------------------------------------------------
(* The invariant *)

\* Both runtimes start at the first rule with nothing noted.
LEMMA InitInv == Init => BundlesInv
<1> SUFFICES ASSUME Init PROVE BundlesInv
  OBVIOUS
<1>1. Len(bundle) \in Nat
  BY BundleAssumption DEF Init
<1>2. ASSUME NEW value
      PROVE  RuntimeInv(bundle, Fresh, value)
  BY <1>1 DEF RuntimeInv, Fresh
<1> QED
  BY <1>2 DEF Init, BundlesInv, Fresh

\* Loading evaluates nothing.
LEMMA LoadedInv ==
  ASSUME BundlesInv, NEW runtime, NEW value, RuntimeInv(bundle, runtime, value),
         runtime.pc = "load", NEW pc \in {"evaluate", "rejected"}
  PROVE  RuntimeInv(bundle, [runtime EXCEPT !.pc = pc], value)
BY DEF RuntimeInv

\* What was noted before a runtime throws stays noted.
LEMMA ThrewInv ==
  ASSUME NEW runtime, NEW value, RuntimeInv(bundle, runtime, value)
  PROVE  RuntimeInv(bundle, [runtime EXCEPT !.pc = "threw"], value)
BY DEF RuntimeInv

\* Evaluating a rule extends what is noted by its decision, if it matches.
LEMMA AfterInv ==
  ASSUME BundlesInv, NEW runtime, NEW value, RuntimeInv(bundle, runtime, value),
         Remaining(runtime), Has(bundle[runtime.rule], "when")
  PROVE  RuntimeInv(bundle, After(runtime, value[bundle[runtime.rule].when]), value)
<1> DEFINE at == runtime.rule
           found == IF value[bundle[at].when] THEN DecisionOf(bundle[at]) ELSE {}
           noted == runtime.decisions \cup found
           given == UNION {DecisionOf(bundle[i]) : i \in DOMAIN bundle}
           moved == [runtime EXCEPT !.rule = at + 1]
           next == [moved EXCEPT !.decisions = noted]
<1>1. Len(bundle) \in Nat /\ DOMAIN bundle = 1..Len(bundle)
  BY BundleAssumption DEF BundlesInv
<1>2. at \in 1..Len(bundle) /\ 1..(at + 1) - 1 = 1..at - 1 \cup {at}
  BY <1>1 DEF RuntimeInv, Remaining
<1>3. noted = UNION {DecisionOf(bundle[i]) : i \in {j \in 1..(at + 1) - 1 : value[bundle[j].when]}}
  BY <1>2 DEF RuntimeInv
<1>4. noted \in SUBSET given
  BY <1>1, <1>2, <1>3
<1>5. \A i \in 1..(at + 1) - 1 : Has(bundle[i], "when")
  BY <1>2 DEF RuntimeInv
<1>6. After(runtime, value[bundle[at].when]) = next
  BY Zenon DEF After
<1>7. at + 1 \in 1..Len(bundle) + 1
  BY <1>1, <1>2
<1> HIDE DEF noted, given
<1>8. /\ moved \in [pc : {"load", "rejected", "threw", "evaluate", "decided"},
                    rule : 1..Len(bundle) + 1, decisions : SUBSET given,
                    decision : Decisions \cup {"none"}]
      /\ moved.pc = "evaluate" /\ moved.rule = at + 1
  BY <1>7 DEF RuntimeInv, Remaining, given
<1> HIDE DEF moved
<1>9. /\ next \in [pc : {"load", "rejected", "threw", "evaluate", "decided"},
                   rule : 1..Len(bundle) + 1, decisions : SUBSET given,
                   decision : Decisions \cup {"none"}]
      /\ next.pc = "evaluate" /\ next.rule = at + 1 /\ next.decisions = noted
  BY <1>4, <1>8
<1> HIDE DEF next
<1> QED
  BY <1>3, <1>5, <1>6, <1>9 DEF RuntimeInv, given

\* A runtime that is through merges what it noted.
LEMMA DecidedInv ==
  ASSUME BundlesInv, NEW runtime, NEW value, RuntimeInv(bundle, runtime, value),
         runtime.pc = "evaluate", ~Remaining(runtime)
  PROVE  RuntimeInv(bundle, Decided(runtime), value)
<1>1. Len(bundle) \in Nat
  BY BundleAssumption DEF BundlesInv
<1>2. runtime.rule = Len(bundle) + 1
  BY <1>1 DEF RuntimeInv, Remaining
<1>3. Merge(runtime.decisions) \in Decisions
  BY DEF Merge, Decisions, Strictness
<1> QED
  BY <1>2, <1>3 DEF RuntimeInv, Decided

\* Each action moves one runtime by one of these steps.
LEMMA NextInv == BundlesInv /\ [Next]_vars => BundlesInv'
<1> SUFFICES ASSUME BundlesInv, [Next]_vars PROVE BundlesInv'
  OBVIOUS
<1>1. CASE LoadPython
  <2>1. RuntimeInv(bundle, python', Matches(ctx))
    BY <1>1, LoadedInv DEF LoadPython, BundlesInv
  <2>2. python'.pc \in {"evaluate", "decided"} => Loads(bundle)
    BY <1>1 DEF LoadPython, BundlesInv, RuntimeInv
  <2> QED
    BY <1>1, <2>1, <2>2 DEF LoadPython, BundlesInv
<1>2. CASE EvaluatePython
  <2>1. Loads(bundle) /\ Remaining(python) /\ python.rule \in DOMAIN bundle
    BY <1>2, BundleAssumption DEF EvaluatePython, BundlesInv, Remaining, RuntimeInv
  <2>2. Has(bundle[python.rule], "when")
    BY <2>1 DEF Loads
  <2>3. RuntimeInv(bundle, python', Matches(ctx))
    BY <1>2, <2>1, <2>2, AfterInv DEF EvaluatePython, BundlesInv
  <2> QED
    BY <1>2, <2>1, <2>3 DEF EvaluatePython, BundlesInv
<1>3. CASE DecidePython
  <2>1. RuntimeInv(bundle, python', Matches(ctx))
    BY <1>3, DecidedInv DEF DecidePython, BundlesInv
  <2> QED
    BY <1>3, <2>1 DEF DecidePython, BundlesInv
<1>4. CASE LoadNode
  <2>1. RuntimeInv(bundle, node', NodeMatches(ctx))
    BY <1>4, LoadedInv DEF LoadNode, BundlesInv
  <2> QED
    BY <1>4, <2>1 DEF LoadNode, BundlesInv
<1>5. CASE EvaluateNode
  <2>1. RuntimeInv(bundle, node', NodeMatches(ctx))
    BY <1>5, AfterInv, ThrewInv DEF EvaluateNode, BundlesInv
  <2> QED
    BY <1>5, <2>1 DEF EvaluateNode, BundlesInv
<1>6. CASE DecideNode
  <2>1. RuntimeInv(bundle, node', NodeMatches(ctx))
    BY <1>6, DecidedInv DEF DecideNode, BundlesInv
  <2> QED
    BY <1>6, <2>1 DEF DecideNode, BundlesInv
<1>7. CASE UNCHANGED vars
  BY <1>7 DEF vars, BundlesInv
<1> QED
  BY <1>1, <1>2, <1>3, <1>4, <1>5, <1>6, <1>7 DEF Next

\* Whatever the bundle and the context, both runtimes have noted the decisions of
\* just those rules before the one they are at whose conditions match
\* (RulePolicy.evaluate, policyFromBundle).
THEOREM BundlesInvariance == Spec => []BundlesInv
BY InitInv, NextInv, PTL DEF Spec

-----------------------------------------------------------------------------
(* The decisions *)

\* A decision is merged from those of all rules that match, if Python accepts them.
LEMMA Noted ==
  ASSUME BundlesInv, NEW runtime, NEW value, RuntimeInv(bundle, runtime, value),
         runtime.pc = "decided", Loads(bundle)
  PROVE  /\ runtime.decision = Merge(runtime.decisions)
         /\ runtime.decisions =
              {bundle[i].decision : i \in {j \in DOMAIN bundle : value[bundle[j].when]}}
         /\ \A i \in DOMAIN bundle : /\ bundle[i].when \in Conditions /\ Accepts[bundle[i].when]
                                     /\ bundle[i].decision \in Decisions
<1>1. Len(bundle) \in Nat /\ DOMAIN bundle = 1..Len(bundle)
  BY BundleAssumption DEF BundlesInv
<1>2. runtime.rule = Len(bundle) + 1 /\ 1..runtime.rule - 1 = DOMAIN bundle
  BY <1>1 DEF RuntimeInv
<1>3. \A i \in DOMAIN bundle : DecisionOf(bundle[i]) = {bundle[i].decision}
  BY DEF Loads, DecisionOf
<1>4. runtime.decisions =
        UNION {DecisionOf(bundle[i]) : i \in {j \in DOMAIN bundle : value[bundle[j].when]}}
  BY <1>2 DEF RuntimeInv
<1>5. runtime.decisions = {bundle[i].decision : i \in {j \in DOMAIN bundle : value[bundle[j].when]}}
  BY <1>3, <1>4
<1>6. \A i \in DOMAIN bundle : /\ bundle[i].when \in Conditions /\ Accepts[bundle[i].when]
                               /\ bundle[i].decision \in Decisions
  BY BundleAssumption DEF BundlesInv, Loads
<1> QED
  BY <1>5, <1>6 DEF RuntimeInv

\* _merge_decisions gives the strictest decision, ALLOW if there is none.
LEMMA MergeStrictest ==
  ASSUME NEW S \in SUBSET Decisions
  PROVE  /\ \A d \in S : Strictness[Merge(S)] >= Strictness[d]
         /\ S # {} => Merge(S) \in S
         /\ S = {} => Merge(S) = "ALLOW"
BY DEF Merge, Decisions, Strictness

\* The rules that apply as written match, and nothing else does if no key is
\* ignored.
LEMMA DecidesAsWrittenInv == BundlesInv => DecidesAsWritten
<1> SUFFICES ASSUME BundlesInv, python.pc = "decided"
             PROVE  DecidesAsWritten
  BY DEF DecidesAsWritten
<1> DEFINE found == python.decisions
           matching == {i \in DOMAIN bundle : Matches(ctx)[bundle[i].when]}
<1>1. /\ python.decision = Merge(found) /\ found = {bundle[i].decision : i \in matching}
      /\ \A i \in DOMAIN bundle : bundle[i].when \in Conditions /\ bundle[i].decision \in Decisions
  BY Noted DEF BundlesInv
<1>2. found \in SUBSET Decisions
  BY <1>1
<1>3. Applying \subseteq matching
  BY <1>1, WrittenMatches DEF Applying
<1> HIDE DEF found
<1>4. \A i \in Applying : Strictness[python.decision] >= Strictness[bundle[i].decision]
  BY <1>1, <1>2, <1>3, MergeStrictest
<1>5. ASSUME \A i \in DOMAIN bundle : Plain[bundle[i].when]
      PROVE  IF Applying = {} THEN python.decision = "ALLOW"
             ELSE \E i \in Applying : python.decision = bundle[i].decision
  <2>1. matching = Applying
    BY <1>1, <1>3, <1>5, PlainMatches DEF Applying
  <2>2. found = {bundle[i].decision : i \in Applying}
    BY <1>1, <2>1
  <2>3. found = {} => python.decision = "ALLOW"
    BY <1>1, <1>2, MergeStrictest
  <2>4. found # {} => python.decision \in found
    BY <1>1, <1>2, MergeStrictest
  <2> QED
    BY <2>2, <2>3, <2>4
<1> QED
  BY <1>4, <1>5 DEF DecidesAsWritten

\* The same rules match in both runtimes.
LEMMA RuntimesAgreeInv == BundlesInv => RuntimesAgree
<1> SUFFICES ASSUME BundlesInv, python.pc = "decided", node.pc = "decided",
                    \A i \in DOMAIN bundle : Portable[bundle[i].when]
             PROVE  python.decision = node.decision
  BY DEF RuntimesAgree
<1> DEFINE matching(value) == {i \in DOMAIN bundle : value[bundle[i].when]}
<1>1. /\ python.decision = Merge(python.decisions)
      /\ python.decisions = {bundle[i].decision : i \in matching(Matches(ctx))}
      /\ node.decision = Merge(node.decisions)
      /\ node.decisions = {bundle[i].decision : i \in matching(NodeMatches(ctx))}
      /\ \A i \in DOMAIN bundle : bundle[i].when \in Conditions /\ Accepts[bundle[i].when]
  BY Noted DEF BundlesInv
<1>2. matching(Matches(ctx)) = matching(NodeMatches(ctx))
  BY <1>1, PortableMatches
<1> QED
  BY <1>1, <1>2

\* Python never decides more loosely than a rule that applies as written, and as
\* the strictest of them where no key is ignored (_condition_from_when).
THEOREM DecidesAsWrittenEver == Spec => []DecidesAsWritten
BY BundlesInvariance, DecidesAsWrittenInv, PTL

\* Of a bundle that Python accepts, without the keys and values that mean something
\* else in the other runtime, Python and Node.js make the same decision
\* (policyBundle.ts).
THEOREM RuntimesAgreeEver == Spec => []RuntimesAgree
BY BundlesInvariance, RuntimesAgreeInv, PTL

=============================================================================
