------------------------- MODULE PolicyEngineProofs -------------------------
(***************************************************************************)
(* Theorems about PolicyEngine, for all policies, rules, requests and      *)
(* people.                                                                 *)
(***************************************************************************)
EXTENDS PolicyEngine, FiniteSetTheorems, TLAPS

-----------------------------------------------------------------------------
(* Finite sets in a strict total order. *)

Orders(R, S) ==
  /\ \A x \in S : <<x, x>> \notin R
  /\ \A x, y \in S : x # y => <<x, y>> \in R \/ <<y, x>> \in R
  /\ \A x, y, z \in S : <<x, y>> \in R /\ <<y, z>> \in R => <<x, z>> \in R

Below(R, S, x) == {y \in S : <<y, x>> \in R}

LEMMA BelowFinite ==
  ASSUME NEW S, IsFiniteSet(S), NEW R, Orders(R, S), NEW x \in S
  PROVE  /\ IsFiniteSet(Below(R, S, x))
         /\ Cardinality(Below(R, S, x)) \in 0..(Cardinality(S) - 1)
<1>1. Below(R, S, x) \subseteq S /\ x \notin Below(R, S, x)
  BY DEF Below, Orders
<1>2. /\ IsFiniteSet(Below(R, S, x)) /\ Cardinality(Below(R, S, x)) <= Cardinality(S)
      /\ Cardinality(Below(R, S, x)) # Cardinality(S)
  BY <1>1, FS_Subset
<1>3. Cardinality(Below(R, S, x)) \in Nat /\ Cardinality(S) \in Nat
  BY <1>2, FS_CardinalityType
<1> QED
  BY <1>2, <1>3

LEMMA BelowGrows ==
  ASSUME NEW S, IsFiniteSet(S), NEW R, Orders(R, S), NEW x \in S, NEW y \in S, <<x, y>> \in R
  PROVE  Cardinality(Below(R, S, x)) < Cardinality(Below(R, S, y))
<1>1. Below(R, S, x) \cup {x} \subseteq Below(R, S, y) /\ x \notin Below(R, S, x)
  BY DEF Below, Orders
<1>2. IsFiniteSet(Below(R, S, x)) /\ IsFiniteSet(Below(R, S, y))
  BY BelowFinite
<1>3. Cardinality(Below(R, S, x) \cup {x}) = Cardinality(Below(R, S, x)) + 1
  BY <1>1, <1>2, FS_AddElement
<1>4. Cardinality(Below(R, S, x) \cup {x}) <= Cardinality(Below(R, S, y))
  BY <1>1, <1>2, FS_Subset
<1>5. Cardinality(Below(R, S, x)) \in Nat /\ Cardinality(Below(R, S, y)) \in Nat
  BY <1>2, FS_CardinalityType
<1> QED
  BY <1>3, <1>4, <1>5

(* Two elements at the same place are one.                                 *)
LEMMA PlaceIsUnique ==
  ASSUME NEW S, IsFiniteSet(S), NEW R, Orders(R, S), NEW x \in S, NEW y \in S,
         Cardinality(Below(R, S, x)) = Cardinality(Below(R, S, y))
  PROVE  x = y
<1>1. Cardinality(Below(R, S, x)) \in Int
  BY BelowFinite
<1>2. <<x, y>> \notin R /\ <<y, x>> \notin R
  BY <1>1, BelowGrows
<1> QED
  BY <1>2 DEF Orders

(* As many elements stand at as many places: none is empty.                *)
LEMMA PlacesAreFull ==
  ASSUME NEW S, IsFiniteSet(S), NEW R, Orders(R, S), NEW n \in 1..Cardinality(S)
  PROVE  \E x \in S : Cardinality(Below(R, S, x)) = n - 1
<1> DEFINE c == Cardinality(S)
           P == 0..(c - 1)
           f == [x \in S |-> Cardinality(Below(R, S, x))]
<1>1. c \in Nat
  BY FS_CardinalityType
<1>2. \A x \in S : f[x] \in P
  BY BelowFinite
<1>3. \A x, y \in S : f[x] = f[y] => x = y
  BY PlaceIsUnique
<1>4. f \in Injection(S, P)
  <2>1. f \in [S -> P]
    BY <1>2
  <2> HIDE DEF f, P
  <2> QED
    BY <1>3, <2>1 DEF Injection, IsInjective
<1>5. IsFiniteSet(P) /\ Cardinality(P) = c
  <2>1. 0 \in Int /\ c - 1 \in Int /\ (0 > c - 1 => c = 0)
    BY <1>1
  <2> QED
    BY <1>1, <2>1, FS_Interval
<1>6. f \in Surjection(S, P)
  BY <1>4, <1>5, FS_Injection
<1>7. n - 1 \in P
  BY <1>1
<1>8. \E x \in S : f[x] = n - 1
  <2> HIDE DEF f, P
  <2> QED
    BY <1>6, <1>7 DEF Surjection
<1> QED
  BY <1>8

(* InOrder lists every element once, each at its place.                    *)
LEMMA InOrderLists ==
  ASSUME NEW S, IsFiniteSet(S), NEW R, Orders(R, S)
  PROVE  LET l == InOrder(S, R)
             c == Cardinality(S)
         IN  /\ c \in Nat /\ DOMAIN l = 1..c /\ l \in Seq(S) /\ Len(l) = c
             /\ \A n \in 1..c : l[n] \in S /\ Cardinality(Below(R, S, l[n])) = n - 1
             /\ \A x \in S : \E n \in 1..c : l[n] = x
<1> DEFINE l == InOrder(S, R)
           c == Cardinality(S)
           At(x, n) == Cardinality(Below(R, S, x)) = n - 1
<1>1. c \in Nat
  BY FS_CardinalityType
<1>2. l = [n \in 1..c |-> CHOOSE x \in S : At(x, n)]
  BY DEF InOrder, Below
<1>3. ASSUME NEW n \in 1..c PROVE l[n] \in S /\ At(l[n], n)
  <2>1. \E x \in S : At(x, n)
    BY PlacesAreFull
  <2> HIDE DEF At, l
  <2> QED
    BY <1>2, <2>1
<1>4. DOMAIN l = 1..c /\ l \in Seq(S) /\ Len(l) = c
  <2> HIDE DEF l, At
  <2>1. l \in [1..c -> S]
    BY <1>2, <1>3
  <2> QED
    BY <1>1, <2>1
<1>5. ASSUME NEW x \in S PROVE \E n \in 1..c : l[n] = x
  <2> DEFINE k == Cardinality(Below(R, S, x))
  <2>1. k \in 0..(c - 1) /\ k + 1 \in 1..c
    BY <1>1, BelowFinite
  <2>2. l[k + 1] \in S /\ Cardinality(Below(R, S, l[k + 1])) = k
    BY <1>3, <2>1
  <2>3. l[k + 1] = x
    BY <2>2, PlaceIsUnique
  <2> QED
    BY <2>1, <2>3
<1> HIDE DEF l
<1> QED
  BY <1>1, <1>3, <1>4, <1>5 DEF l

-----------------------------------------------------------------------------
(* The rules that match, in their order. *)

(* Lists of policies as the model has them.                                *)
Listed(ps) == ps \in Seq(Policies)

LEMMA PlaceShape ==
  ASSUME NEW ps, Listed(ps), NEW at \in Places(ps)
  PROVE  /\ at = <<at[1], at[2]>> /\ at[1] \in DOMAIN ps /\ at[2] \in DOMAIN ps[at[1]].rules
         /\ at[1] \in Int /\ at[2] \in Int /\ ps[at[1]] \in Policies
         /\ ps[at[1]].id \in PolicyIds /\ ps[at[1]].id \in Int
         /\ RuleAt(ps, at) \in Rules /\ RuleAt(ps, at) \in Range(ps[at[1]].rules)
<1>1. PICK i \in DOMAIN ps : at \in {<<i, k>> : k \in DOMAIN ps[i].rules}
  BY DEF Places
<1>2. PICK k \in DOMAIN ps[i].rules : at = <<i, k>>
  BY <1>1
<1>3. i \in Int /\ ps[i] \in Policies
  BY DEF Listed
<1>4. ps[i].rules \in Seq(Rules) /\ ps[i].id \in PolicyIds
  BY <1>3 DEF Policies
<1>5. k \in Int /\ ps[i].rules[k] \in Rules /\ ps[i].rules[k] \in Range(ps[i].rules)
  BY <1>2, <1>4 DEF Range
<1>6. \A x \in PolicyIds : x \in Int
  BY PolicyIdsOrdered
<1> QED
  BY <1>2, <1>3, <1>4, <1>5, <1>6 DEF RuleAt

LEMMA PlacesFinite ==
  ASSUME NEW ps, Listed(ps)
  PROVE  IsFiniteSet(Places(ps))
<1> DEFINE Of(i) == {<<i, k>> : k \in DOMAIN ps[i].rules}
           D == DOMAIN ps
           all == {Of(i) : i \in D}
           f == [i \in D |-> Of(i)]
<1>1. IsFiniteSet(D)
  <2>1. D = 1..Len(ps) /\ Len(ps) \in Int
    BY DEF Listed
  <2> QED
    BY <2>1, FS_Interval
<1>2. ASSUME NEW i \in D PROVE IsFiniteSet(Of(i))
  <2>1. ps[i] \in Policies
    BY DEF Listed
  <2>2. ps[i].rules \in Seq(Rules)
    BY <2>1 DEF Policies
  <2>3. DOMAIN ps[i].rules = 1..Len(ps[i].rules) /\ Len(ps[i].rules) \in Int
    BY <2>2
  <2>4. IsFiniteSet({i}) /\ IsFiniteSet(DOMAIN ps[i].rules)
    <3>1. IsFiniteSet({i})
      BY FS_Singleton
    <3>2. IsFiniteSet(1..Len(ps[i].rules))
      BY <2>3, FS_Interval
    <3> QED
      BY <2>3, <3>1, <3>2
  <2>5. IsFiniteSet({i} \X DOMAIN ps[i].rules)
    <3> HIDE DEF D, all, f
    <3> QED
      BY <2>4, FS_Product, Zenon
  <2>6. Of(i) \subseteq {i} \X DOMAIN ps[i].rules
    OBVIOUS
  <2> QED
    BY <2>5, <2>6, FS_Subset
<1>3. IsFiniteSet(all)
  <2>1. \A i \in D : f[i] \in all /\ f[i] = Of(i)
    BY Zenon
  <2>2. \A x \in all : \E i \in D : x = Of(i)
    BY Zenon
  <2>3. f \in [D -> all]
    BY Zenon
  <2> HIDE DEF f, all, D, Of
  <2>4. f \in Surjection(D, all)
    BY <2>1, <2>2, <2>3 DEF Surjection
  <2> QED
    BY <1>1, <2>4, FS_Surjection
<1>4. \A x \in all : IsFiniteSet(x)
  BY <1>2
<1>5. Places(ps) = UNION all
  BY DEF Places, Of
<1> HIDE DEF all
<1> QED
  BY <1>3, <1>4, <1>5, FS_UNION

(* The pairs of matching places that CollectMatchingRules orders by.       *)
Ordered(req, ps) ==
  {ab \in MatchingPlaces(req, ps) \X MatchingPlaces(req, ps) : Precedes(ps, ab[1], ab[2])}

LEMMA PrecedesOrders ==
  ASSUME NEW ps, Listed(ps), NEW req
  PROVE  /\ IsFiniteSet(MatchingPlaces(req, ps))
         /\ Orders(Ordered(req, ps), MatchingPlaces(req, ps))
<1> DEFINE S == MatchingPlaces(req, ps)
           R == Ordered(req, ps)
<1>1. S \subseteq Places(ps)
  BY DEF MatchingPlaces
<1>2. IsFiniteSet(S)
  BY <1>1, PlacesFinite, FS_Subset
<1>3. \A a \in S : a = <<a[1], a[2]>> /\ a[1] \in Int /\ a[2] \in Int /\ ps[a[1]].id \in Int
  BY <1>1, PlaceShape
<1>4. \A a, b \in S : <<a, b>> \in R <=> Precedes(ps, a, b)
  BY DEF Ordered
<1> HIDE DEF S, R
<1>5. \A a \in S : ~Precedes(ps, a, a)
  BY <1>3 DEF Precedes
<1>6. ASSUME NEW a \in S, NEW b \in S, a # b PROVE Precedes(ps, a, b) \/ Precedes(ps, b, a)
  <2>1. a[1] # b[1] \/ a[2] # b[2]
    BY <1>3, <1>6
  <2> QED
    BY <1>3, <2>1 DEF Precedes
<1>7. ASSUME NEW a \in S, NEW b \in S, NEW d \in S, Precedes(ps, a, b), Precedes(ps, b, d)
      PROVE  Precedes(ps, a, d)
  BY <1>3, <1>7 DEF Precedes
<1>8. Orders(R, S)
  BY <1>4, <1>5, <1>6, <1>7 DEF Orders
<1> QED
  BY <1>2, <1>8 DEF S, R

Hit(ps, at) == [policy |-> ps[at[1]].id, rule |-> RuleAt(ps, at)]

(* collect_matching_rules yields every enabled rule that matches, once, at *)
(* the place of those before it.                                           *)
LEMMA CollectLists ==
  ASSUME NEW ps, Listed(ps), NEW req
  PROVE  LET hits == CollectMatchingRules(req, ps)
             S == MatchingPlaces(req, ps)
             R == Ordered(req, ps)
             listed == InOrder(S, R)
         IN  /\ Cardinality(S) \in Nat
             /\ DOMAIN hits = 1..Cardinality(S) /\ Len(hits) = Cardinality(S)
             /\ \A n \in DOMAIN hits : /\ listed[n] \in S /\ hits[n] = Hit(ps, listed[n])
                                       /\ Cardinality(Below(R, S, listed[n])) = n - 1
             /\ \A at \in S : \E n \in DOMAIN hits : listed[n] = at
<1> DEFINE hits == CollectMatchingRules(req, ps)
           S == MatchingPlaces(req, ps)
           R == Ordered(req, ps)
           listed == InOrder(S, R)
<1>1. hits = [n \in DOMAIN listed |-> Hit(ps, listed[n])]
  BY DEF CollectMatchingRules, Ordered, Hit
<1>2. /\ Cardinality(S) \in Nat /\ DOMAIN listed = 1..Cardinality(S)
      /\ \A n \in 1..Cardinality(S) : /\ listed[n] \in S
                                      /\ Cardinality(Below(R, S, listed[n])) = n - 1
      /\ \A x \in S : \E n \in 1..Cardinality(S) : listed[n] = x
  BY PrecedesOrders, InOrderLists
<1> HIDE DEF listed, S, R, hits
<1>3. DOMAIN hits = 1..Cardinality(S) /\ Len(hits) = Cardinality(S)
  BY <1>1, <1>2
<1> QED
  BY <1>1, <1>2, <1>3 DEF listed, S, R, hits

(* The rules it yields.                                                    *)
RulesOn(req, ps) == {RuleAt(ps, at) : at \in MatchingPlaces(req, ps)}

LEMMA CollectedRules ==
  ASSUME NEW ps, Listed(ps), NEW req
  PROVE  LET hits == CollectMatchingRules(req, ps)
         IN  {hits[k].rule : k \in DOMAIN hits} = RulesOn(req, ps)
<1> DEFINE hits == CollectMatchingRules(req, ps)
           S == MatchingPlaces(req, ps)
           listed == InOrder(S, Ordered(req, ps))
<1>1. /\ \A n \in DOMAIN hits : listed[n] \in S /\ hits[n] = Hit(ps, listed[n])
      /\ \A at \in S : \E n \in DOMAIN hits : listed[n] = at
  BY CollectLists
<1> HIDE DEF hits, listed, S
<1>2. \A n \in DOMAIN hits : hits[n].rule = RuleAt(ps, listed[n])
  BY <1>1 DEF Hit
<1>3. {hits[k].rule : k \in DOMAIN hits} = {RuleAt(ps, at) : at \in S}
  BY <1>1, <1>2
<1> QED
  BY <1>3 DEF RulesOn, hits, S

(* What is said of the rules that match.                                   *)
EffectsOf(rules) == {r.effect : r \in rules}

LEMMA EffectsOnRules ==
  ASSUME NEW req, Listed(policies)
  PROVE  EffectsOn(req) = EffectsOf(RulesOn(req, policies))
<1> DEFINE enabled == {j \in DOMAIN policies : policies[j].enabled}
           all == UNION {Range(policies[i].rules) : i \in enabled}
           RS == RulesOn(req, policies)
<1>1. ASSUME NEW q \in all, Matches(q, req) PROVE q \in RS
  <2>1. PICK i \in enabled : q \in Range(policies[i].rules)
    OBVIOUS
  <2>2. PICK k \in DOMAIN policies[i].rules : q = policies[i].rules[k]
    BY <2>1 DEF Range
  <2>3. <<i, k>> \in Places(policies)
    BY DEF Places
  <2>4. /\ <<i, k>>[1] = i /\ <<i, k>>[2] = k
        /\ RuleAt(policies, <<i, k>>) = q
    BY <2>2 DEF RuleAt
  <2>5. <<i, k>> \in MatchingPlaces(req, policies)
    BY <1>1, <2>3, <2>4 DEF MatchingPlaces
  <2> QED
    BY <2>4, <2>5 DEF RulesOn
<1>2. ASSUME NEW at \in MatchingPlaces(req, policies)
      PROVE  RuleAt(policies, at) \in all /\ Matches(RuleAt(policies, at), req)
  <2>1. at \in Places(policies) /\ policies[at[1]].enabled /\ Matches(RuleAt(policies, at), req)
    BY DEF MatchingPlaces
  <2>2. at[1] \in enabled /\ RuleAt(policies, at) \in Range(policies[at[1]].rules)
    BY <2>1, PlaceShape
  <2> QED
    BY <2>1, <2>2
<1>3. RS = {q \in all : Matches(q, req)}
  <2> HIDE DEF all, enabled
  <2> QED
    BY <1>1, <1>2 DEF RulesOn
<1> QED
  BY <1>3 DEF EffectsOn, EffectsOf

(* The decision is the strictest effect, whatever the order of the rules.  *)
LEMMA DecisionIs ==
  ASSUME NEW ps, Listed(ps), NEW req
  PROVE  LET E == EffectsOf(RulesOn(req, ps))
         IN  EvaluateAction(req, ps).decision =
               IF "deny" \in E THEN "deny"
               ELSE IF "require_approval" \in E THEN "require_approval" ELSE "allow"
<1> DEFINE hits == CollectMatchingRules(req, ps)
           effs == [k \in DOMAIN hits |-> hits[k].rule.effect]
<1>1. {hits[k].rule : k \in DOMAIN hits} = RulesOn(req, ps)
  BY CollectedRules
<1> HIDE DEF hits
<1>2. Range(effs) = EffectsOf(RulesOn(req, ps))
  BY <1>1 DEF Range, EffectsOf
<1>3. EvaluateAction(req, ps).decision = Winner(effs)
  BY DEF EvaluateAction, hits
<1> QED
  BY <1>2, <1>3 DEF Winner

-----------------------------------------------------------------------------
(* Editing keeps a list of policies with ids of their own. *)

IInv ==
  /\ Listed(policies)
  /\ \A i, j \in DOMAIN policies : policies[i].id = policies[j].id => i = j

LEMMA Inserted ==
  ASSUME NEW T, NEW s \in Seq(T), NEW e \in T, NEW at \in 1..(Len(s) + 1)
  PROVE  /\ InsertAt(s, at, e) \in Seq(T)
         /\ DOMAIN InsertAt(s, at, e) = 1..(Len(s) + 1)
         /\ \A i \in 1..(Len(s) + 1) :
              InsertAt(s, at, e)[i] = IF i < at THEN s[i] ELSE IF i = at THEN e ELSE s[i - 1]
<1> DEFINE a == SubSeq(s, 1, at - 1)
           b == SubSeq(s, at, Len(s))
<1>1. a \in Seq(T) /\ Len(a) = at - 1 /\ \A i \in 1..(at - 1) : a[i] = s[i]
  OBVIOUS
<1>2. b \in Seq(T) /\ Len(b) = Len(s) + 1 - at /\ \A i \in 1..(Len(s) + 1 - at) : b[i] = s[at + i - 1]
  OBVIOUS
<1>3. InsertAt(s, at, e) = (a \o <<e>>) \o b
  BY DEF InsertAt
<1> HIDE DEF a, b
<1> DEFINE c == a \o <<e>>
<1>4. /\ c \in Seq(T) /\ Len(c) = at /\ c[at] = e
      /\ \A i \in 1..(at - 1) : c[i] = s[i]
  BY <1>1
<1> HIDE DEF c
<1> DEFINE d == c \o b
<1>5. /\ d \in Seq(T) /\ Len(d) = Len(s) + 1 /\ DOMAIN d = 1..(Len(s) + 1)
      /\ \A i \in 1..(Len(s) + 1) : d[i] = IF i <= at THEN c[i] ELSE b[i - at]
  BY <1>2, <1>4
<1>6. \A i \in 1..(Len(s) + 1) : d[i] = IF i < at THEN s[i] ELSE IF i = at THEN e ELSE s[i - 1]
  BY <1>2, <1>4, <1>5
<1> QED
  BY <1>3, <1>5, <1>6 DEF c

(* A policy that is changed keeps its id.                                  *)
LEMMA ReplaceKeeps ==
  ASSUME IInv, NEW i \in DOMAIN policies, NEW p \in Policies, p.id = policies[i].id,
         policies' = [policies EXCEPT ![i] = p]
  PROVE  IInv' /\ DOMAIN policies' = DOMAIN policies
         /\ \A j \in DOMAIN policies : policies'[j] = IF j = i THEN p ELSE policies[j]
<1>1. policies \in Seq(Policies)
  BY DEF IInv, Listed
<1>2. policies' \in Seq(Policies) /\ DOMAIN policies' = DOMAIN policies
  BY <1>1
<1>3. \A j \in DOMAIN policies : policies'[j] = IF j = i THEN p ELSE policies[j]
  BY <1>1
<1>4. \A j \in DOMAIN policies : policies'[j].id = policies[j].id
  BY <1>3
<1> QED
  BY <1>2, <1>3, <1>4 DEF IInv, Listed

(* One policy gives way to p.                                              *)
Replaced(i, p) ==
  /\ p \in Policies /\ p.id = policies[i].id
  /\ policies' = [policies EXCEPT ![i] = p]

(* What adding a rule, enabling and disabling do to the policy at i.       *)
LEMMA AddRuleIs ==
  ASSUME IInv, NEW i \in DOMAIN policies, NEW r \in Rules, AddRule(i, r)
  PROVE  \E p : /\ Replaced(i, p) /\ p.enabled = policies[i].enabled
                /\ p.rules = Append(policies[i].rules, r)
<1>1. policies[i] \in Policies
  BY DEF IInv, Listed
<1> DEFINE p == [policies[i] EXCEPT !.rules = Append(@, r)]
<1>2. policies[i].rules \in Seq(Rules)
  BY <1>1 DEF Policies
<1>3. Append(policies[i].rules, r) \in Seq(Rules)
  BY <1>2
<1>4. /\ p \in Policies /\ p.id = policies[i].id /\ p.enabled = policies[i].enabled
      /\ p.rules = Append(policies[i].rules, r)
  BY <1>1, <1>3 DEF Policies
<1>5. policies' = [policies EXCEPT ![i] = p]
  BY DEF AddRule
<1>6. Replaced(i, p)
  BY <1>4, <1>5 DEF Replaced
<1> HIDE DEF p
<1> QED
  BY <1>4, <1>6

LEMMA SwitchIs ==
  ASSUME IInv, NEW i \in DOMAIN policies, NEW b \in BOOLEAN,
         policies' = [policies EXCEPT ![i].enabled = b]
  PROVE  \E p : Replaced(i, p) /\ p.enabled = b /\ p.rules = policies[i].rules
<1>1. policies[i] \in Policies
  BY DEF IInv, Listed
<1> DEFINE p == [policies[i] EXCEPT !.enabled = b]
<1>2. p \in Policies /\ p.id = policies[i].id /\ p.enabled = b /\ p.rules = policies[i].rules
  BY <1>1 DEF Policies
<1>3. Replaced(i, p)
  BY <1>2 DEF Replaced
<1> HIDE DEF p
<1> QED
  BY <1>2, <1>3

LEMMA ReplacedKeeps ==
  ASSUME IInv, NEW i \in DOMAIN policies, NEW p, Replaced(i, p)
  PROVE  IInv' /\ DOMAIN policies' = DOMAIN policies
         /\ \A j \in DOMAIN policies : policies'[j] = IF j = i THEN p ELSE policies[j]
BY ReplaceKeeps DEF Replaced

LEMMA AddPolicyKeeps ==
  ASSUME IInv, NEW id \in PolicyIds, AddPolicy(id)
  PROVE  IInv'
<1> DEFINE e == [id |-> id, enabled |-> TRUE, rules |-> <<>>]
<1>1. policies \in Seq(Policies) /\ Len(policies) \in Nat /\ DOMAIN policies = 1..Len(policies)
  BY DEF IInv, Listed
<1>2. PICK at \in 1..(Len(policies) + 1) : policies' = InsertAt(policies, at, e)
  BY DEF AddPolicy
<1>3. e \in Policies
  BY DEF Policies
<1>4. e.id = id
  OBVIOUS
<1> HIDE DEF e
<1>5. /\ policies' \in Seq(Policies) /\ DOMAIN policies' = 1..(Len(policies) + 1)
      /\ \A i \in 1..(Len(policies) + 1) :
           policies'[i] = IF i < at THEN policies[i] ELSE IF i = at THEN e ELSE policies[i - 1]
  <2> DEFINE new == InsertAt(policies, at, e)
  <2>1. /\ new \in Seq(Policies) /\ DOMAIN new = 1..(Len(policies) + 1)
        /\ \A i \in 1..(Len(policies) + 1) :
             new[i] = IF i < at THEN policies[i] ELSE IF i = at THEN e ELSE policies[i - 1]
    BY <1>1, <1>3, Inserted
  <2>2. policies' = new
    BY <1>2
  <2> HIDE DEF new
  <2> QED
    BY <2>1, <2>2
<1>6. \A i \in DOMAIN policies : policies[i].id # id
  BY DEF AddPolicy
<1>7. ASSUME NEW i \in 1..(Len(policies) + 1), NEW j \in 1..(Len(policies) + 1),
             policies'[i].id = policies'[j].id
      PROVE  i = j
  <2> DEFINE Was(k) == IF k < at THEN k ELSE k - 1
  <2>1. ASSUME NEW k \in 1..(Len(policies) + 1), k # at
        PROVE  Was(k) \in DOMAIN policies /\ policies'[k] = policies[Was(k)]
    BY <1>1, <1>5, <2>1
  <2>2. policies'[at].id = id
    BY <1>4, <1>5
  <2>3. CASE i = at
    <3>1. CASE j = at
      BY <2>3, <3>1
    <3>2. CASE j # at
      <4>1. Was(j) \in DOMAIN policies /\ policies'[j] = policies[Was(j)]
        BY <2>1, <3>2
      <4> HIDE DEF Was
      <4>2. policies'[j].id # id
        BY <1>6, <4>1
      <4> QED
        BY <1>7, <2>2, <2>3, <4>2
    <3> QED
      BY <3>1, <3>2
  <2>4. CASE i # at /\ j = at
    <3>1. Was(i) \in DOMAIN policies /\ policies'[i] = policies[Was(i)]
      BY <2>1, <2>4
    <3> HIDE DEF Was
    <3>2. policies'[i].id # id
      BY <1>6, <3>1
    <3> QED
      BY <1>7, <2>2, <2>4, <3>2
  <2>5. CASE i # at /\ j # at
    <3>1. /\ Was(i) \in DOMAIN policies /\ policies'[i] = policies[Was(i)]
          /\ Was(j) \in DOMAIN policies /\ policies'[j] = policies[Was(j)]
      BY <2>1, <2>5
    <3>2. Was(i) = Was(j)
      <4> HIDE DEF Was
      <4> QED
        BY <1>7, <3>1 DEF IInv
    <3> QED
      BY <2>5, <3>2
  <2> QED
    BY <2>3, <2>4, <2>5
<1> QED
  BY <1>5, <1>7 DEF IInv, Listed

LEMMA Invariance == Spec => []IInv
<1>1. Init => IInv
  BY DEF Init, IInv, Listed
<1>2. IInv /\ [Next]_policies => IInv'
  <2> SUFFICES ASSUME IInv, [Next]_policies PROVE IInv'
    OBVIOUS
  <2>1. ASSUME NEW id \in PolicyIds, AddPolicy(id) PROVE IInv'
    BY <2>1, AddPolicyKeeps
  <2>2. ASSUME NEW i \in DOMAIN policies, NEW r \in Rules, AddRule(i, r) PROVE IInv'
    <3>1. \E p : Replaced(i, p)
      BY <2>2, AddRuleIs
    <3> QED
      BY <3>1, ReplacedKeeps
  <2>3. ASSUME NEW i \in DOMAIN policies, Enable(i) PROVE IInv'
    <3>1. \E p : Replaced(i, p)
      BY <2>3, SwitchIs DEF Enable
    <3> QED
      BY <3>1, ReplacedKeeps
  <2>4. ASSUME NEW i \in DOMAIN policies, Disable(i) PROVE IInv'
    <3>1. \E p : Replaced(i, p)
      BY <2>4, SwitchIs DEF Disable
    <3> QED
      BY <3>1, ReplacedKeeps
  <2>5. CASE UNCHANGED policies
    BY <2>5 DEF IInv, Listed
  <2> QED
    BY <2>1, <2>2, <2>3, <2>4, <2>5 DEF Next
<1> QED
  BY <1>1, <1>2, PTL DEF Spec

-----------------------------------------------------------------------------
(* The strictest effect among the enabled rules that match decides, for    *)
(* every list of policies people can build: policy.py evaluate_action.     *)
THEOREM StrictestRuleAlwaysDecides == Spec => []StrictestRuleDecides
<1>1. IInv => StrictestRuleDecides
  <2> SUFFICES ASSUME IInv, NEW req \in Requests
               PROVE  LET d == EvaluateAction(req, policies).decision
                      IN  /\ d = "deny" <=> "deny" \in EffectsOn(req)
                          /\ d = "require_approval" <=> /\ "deny" \notin EffectsOn(req)
                                                        /\ "require_approval" \in EffectsOn(req)
    BY DEF StrictestRuleDecides
  <2> DEFINE E == EffectsOf(RulesOn(req, policies))
  <2>1. Listed(policies)
    BY DEF IInv
  <2>2. EffectsOn(req) = E
    BY <2>1, EffectsOnRules
  <2>3. EvaluateAction(req, policies).decision =
          IF "deny" \in E THEN "deny"
          ELSE IF "require_approval" \in E THEN "require_approval" ELSE "allow"
    BY <2>1, DecisionIs
  <2> HIDE DEF E
  <2> QED
    BY <2>2, <2>3
<1> QED
  BY <1>1, Invariance, PTL

-----------------------------------------------------------------------------
(* Lists that grow. *)

(* Everything that counts in ps counts in qs, at the same place.           *)
Grown(ps, qs) ==
  /\ Listed(ps) /\ Listed(qs) /\ DOMAIN ps \subseteq DOMAIN qs
  /\ \A i \in DOMAIN ps :
       /\ ps[i].enabled => qs[i].enabled
       /\ \A k \in DOMAIN ps[i].rules : /\ k \in DOMAIN qs[i].rules
                                        /\ qs[i].rules[k] = ps[i].rules[k]

LEMMA GrowingGrows ==
  ASSUME IInv, Growing
  PROVE  Grown(policies, policies')
<1>1. PICK i \in DOMAIN policies : Enable(i) \/ \E r \in Rules : AddRule(i, r)
  BY DEF Growing
<1>2. policies[i] \in Policies
  BY DEF IInv, Listed
<1>3. policies[i].rules \in Seq(Rules)
  BY <1>2 DEF Policies
<1>4. \E p : /\ Replaced(i, p)
             /\ policies[i].enabled => p.enabled
             /\ \A k \in DOMAIN policies[i].rules :
                  k \in DOMAIN p.rules /\ p.rules[k] = policies[i].rules[k]
  <2>1. CASE Enable(i)
    <3>1. \E p : Replaced(i, p) /\ p.enabled = TRUE /\ p.rules = policies[i].rules
      BY <2>1, SwitchIs DEF Enable
    <3> QED
      BY <3>1
  <2>2. ASSUME NEW r \in Rules, AddRule(i, r)
        PROVE  \E p : /\ Replaced(i, p)
                      /\ policies[i].enabled => p.enabled
                      /\ \A k \in DOMAIN policies[i].rules :
                           k \in DOMAIN p.rules /\ p.rules[k] = policies[i].rules[k]
    <3>1. PICK p : /\ Replaced(i, p) /\ p.enabled = policies[i].enabled
                   /\ p.rules = Append(policies[i].rules, r)
      BY <2>2, AddRuleIs
    <3>2. \A k \in DOMAIN policies[i].rules :
            k \in DOMAIN p.rules /\ p.rules[k] = policies[i].rules[k]
      BY <1>3, <3>1
    <3> QED
      BY <3>1, <3>2
  <2> QED
    BY <1>1, <2>1, <2>2
<1>5. PICK p : /\ Replaced(i, p)
               /\ policies[i].enabled => p.enabled
               /\ \A k \in DOMAIN policies[i].rules :
                    k \in DOMAIN p.rules /\ p.rules[k] = policies[i].rules[k]
  BY <1>4
<1>6. IInv' /\ DOMAIN policies' = DOMAIN policies
      /\ \A j \in DOMAIN policies : policies'[j] = IF j = i THEN p ELSE policies[j]
  BY <1>5, ReplacedKeeps
<1>7. Listed(policies) /\ Listed(policies')
  BY <1>6 DEF IInv
<1>8. ASSUME NEW j \in DOMAIN policies
      PROVE  /\ policies[j].enabled => policies'[j].enabled
             /\ \A k \in DOMAIN policies[j].rules :
                  k \in DOMAIN policies'[j].rules /\ policies'[j].rules[k] = policies[j].rules[k]
  BY <1>5, <1>6
<1> QED
  BY <1>6, <1>7, <1>8 DEF Grown

LEMMA RulesGrow ==
  ASSUME NEW ps, NEW qs, Grown(ps, qs), NEW req
  PROVE  RulesOn(req, ps) \subseteq RulesOn(req, qs)
<1> SUFFICES ASSUME NEW at \in MatchingPlaces(req, ps)
             PROVE  at \in MatchingPlaces(req, qs) /\ RuleAt(qs, at) = RuleAt(ps, at)
  BY DEF RulesOn
<1>1. Listed(ps) /\ at \in Places(ps) /\ ps[at[1]].enabled /\ Matches(RuleAt(ps, at), req)
  BY DEF MatchingPlaces, Grown
<1>2. at = <<at[1], at[2]>> /\ at[1] \in DOMAIN ps /\ at[2] \in DOMAIN ps[at[1]].rules
  BY <1>1, PlaceShape
<1>3. /\ at[1] \in DOMAIN qs /\ at[2] \in DOMAIN qs[at[1]].rules /\ qs[at[1]].enabled
      /\ RuleAt(qs, at) = RuleAt(ps, at)
  BY <1>1, <1>2 DEF Grown, RuleAt
<1>4. at \in Places(qs)
  <2> DEFINE i == at[1]
             k == at[2]
  <2>1. i \in DOMAIN qs /\ k \in DOMAIN qs[i].rules /\ at = <<i, k>>
    BY <1>2, <1>3
  <2> HIDE DEF i, k
  <2> QED
    BY <2>1 DEF Places
<1> QED
  BY <1>1, <1>3, <1>4 DEF MatchingPlaces

(* Adding a rule or enabling a policy never loosens a decision: policy.py  *)
(* evaluate_action takes the strictest effect of ever more rules.          *)
THEOREM MoreRulesNeverEverLoosen == Spec => MoreRulesNeverLoosen
<1>1. ASSUME IInv, Growing, NEW req \in Requests
      PROVE  Strictness(EvaluateAction(req, policies').decision)
               >= Strictness(EvaluateAction(req, policies).decision)
  <2> DEFINE E == EffectsOf(RulesOn(req, policies))
             F == EffectsOf(RulesOn(req, policies'))
             d == EvaluateAction(req, policies).decision
             e == EvaluateAction(req, policies').decision
  <2>1. Grown(policies, policies')
    BY <1>1, GrowingGrows
  <2>2. Listed(policies) /\ Listed(policies')
    BY <2>1 DEF Grown
  <2>3. E \subseteq F
    BY <2>1, RulesGrow DEF EffectsOf
  <2>4. d = IF "deny" \in E THEN "deny"
            ELSE IF "require_approval" \in E THEN "require_approval" ELSE "allow"
    BY <2>2, DecisionIs
  <2>5. e = IF "deny" \in F THEN "deny"
            ELSE IF "require_approval" \in F THEN "require_approval" ELSE "allow"
    BY <2>2, DecisionIs
  <2>6. Strictness("allow") = 0 /\ Strictness("require_approval") = 1 /\ Strictness("deny") = 2
    BY DEF Strictness
  <2> HIDE DEF E, F, d, e
  <2>7. Strictness(e) >= Strictness(d)
    BY <2>3, <2>4, <2>5, <2>6
  <2> QED
    BY <2>7 DEF d, e
<1>2. IInv /\ [Next]_policies =>
        [Growing => \A req \in Requests :
           Strictness(EvaluateAction(req, policies').decision)
             >= Strictness(EvaluateAction(req, policies).decision)]_policies
  BY <1>1
<1> QED
  BY <1>2, Invariance, PTL DEF Spec, MoreRulesNeverLoosen

-----------------------------------------------------------------------------
(* The approval that the rules ask for. *)

(* A finite set of numbers has its maximum: the element with all others    *)
(* below it.                                                               *)
LEMMA MaxOfNumbers ==
  ASSUME NEW S \in SUBSET Nat, IsFiniteSet(S), S # {}
  PROVE  Max(S) \in S /\ \A y \in S : Max(S) >= y
<1> DEFINE R == {xy \in S \X S : xy[1] < xy[2]}
           c == Cardinality(S)
<1>1. \A x, y \in S : <<x, y>> \in R <=> x < y
  OBVIOUS
<1>2. c \in Nat /\ c # 0
  BY FS_CardinalityType, FS_EmptySet
<1> HIDE DEF R
<1>3. Orders(R, S)
  BY <1>1 DEF Orders
<1>4. c \in 1..c
  BY <1>2
<1>5. PICK x \in S : Cardinality(Below(R, S, x)) = c - 1
  <2>1. \A n \in 1..Cardinality(S) : \E x \in S : Cardinality(Below(R, S, x)) = n - 1
    BY <1>3, PlacesAreFull
  <2> QED
    BY <1>4, <2>1
<1>6. IsFiniteSet(S \ {x}) /\ Cardinality(S \ {x}) = c - 1
  BY FS_RemoveElement
<1>7. Below(R, S, x) \subseteq S \ {x}
  BY <1>3 DEF Below, Orders
<1>8. Below(R, S, x) = S \ {x}
  BY <1>5, <1>6, <1>7, FS_Subset
<1>9. \A y \in S : x >= y
  <2> TAKE y \in S
  <2>1. CASE y = x
    BY <2>1
  <2>2. CASE y # x
    <3>1. <<y, x>> \in R
      BY <1>8, <2>2 DEF Below
    <3> QED
      BY <1>1, <3>1
  <2> QED
    BY <2>1, <2>2
<1>10. \E m \in S : \A y \in S : m >= y
  BY <1>9
<1> QED
  BY <1>10, Zenon DEF Max

LEMMA RulesOnFinite ==
  ASSUME NEW ps, Listed(ps), NEW req
  PROVE  IsFiniteSet(RulesOn(req, ps)) /\ RulesOn(req, ps) \subseteq Rules
<1> DEFINE S == MatchingPlaces(req, ps)
           T == RulesOn(req, ps)
           f == [at \in S |-> RuleAt(ps, at)]
<1>1. IsFiniteSet(S)
  BY PrecedesOrders
<1>2. \A x \in T : \E at \in S : f[at] = x
  BY DEF RulesOn
<1>3. f \in [S -> T]
  BY DEF RulesOn
<1>4. T \subseteq Rules
  <2>1. \A at \in S : at \in Places(ps)
    BY DEF MatchingPlaces
  <2> QED
    BY <2>1, PlaceShape DEF RulesOn
<1> HIDE DEF f, S, T
<1>5. f \in Surjection(S, T)
  BY <1>2, <1>3 DEF Surjection
<1> QED
  BY <1>1, <1>4, <1>5, FS_Surjection DEF T

(* The rules of a decision that ask for an approval.                       *)
HoldsOn(req, ps) == {r \in RulesOn(req, ps) : r.effect = "require_approval"}

LEMMA NeedsOf ==
  ASSUME NEW ps, Listed(ps), NEW req
  PROVE  /\ ApprovalNeeds(req, ps) = DeriveRequirements(HoldsOn(req, ps))
         /\ IsFiniteSet(HoldsOn(req, ps)) /\ HoldsOn(req, ps) \subseteq Rules
<1>1. LET hits == CollectMatchingRules(req, ps)
      IN  {hits[k].rule : k \in DOMAIN hits} = RulesOn(req, ps)
  BY CollectedRules
<1>2. HoldsOn(req, ps) \subseteq RulesOn(req, ps)
  BY DEF HoldsOn
<1>3. IsFiniteSet(HoldsOn(req, ps)) /\ HoldsOn(req, ps) \subseteq Rules
  BY <1>2, RulesOnFinite, FS_Subset
<1> QED
  BY <1>1, <1>3 DEF ApprovalNeeds, HoldsOn

LEMMA QuorumsOf ==
  ASSUME NEW rules \in SUBSET Rules, IsFiniteSet(rules)
  PROVE  /\ {1} \cup Quorums(rules) \subseteq Nat \ {0}
         /\ IsFiniteSet({1} \cup Quorums(rules))
<1> DEFINE A == Asking(rules)
           all == {r.conditions.min_distinct_approvers : r \in A}
           f == [r \in A |-> r.conditions.min_distinct_approvers]
<1>1. A \subseteq rules /\ \A r \in A : r.conditions # None
  BY DEF Asking
<1>2. IsFiniteSet(A)
  BY <1>1, FS_Subset
<1>3. f \in [A -> all] /\ \A x \in all : \E r \in A : f[r] = x
  OBVIOUS
<1>4. IsFiniteSet(all)
  <2> HIDE DEF f, all, A
  <2>1. f \in Surjection(A, all)
    BY <1>3 DEF Surjection
  <2> QED
    BY <1>2, <2>1, FS_Surjection
<1>5. Quorums(rules) = all \ {None}
  BY DEF Quorums
<1>6. Quorums(rules) \subseteq Nat \ {0}
  <2>1. \A r \in A : r.conditions.min_distinct_approvers \in (Nat \ {0}) \cup {None}
    BY <1>1, RulesOK
  <2> HIDE DEF A, f
  <2> QED
    BY <1>5, <2>1
<1> HIDE DEF all
<1>7. IsFiniteSet(Quorums(rules))
  BY <1>4, <1>5, FS_Subset
<1>8. IsFiniteSet({1})
  BY FS_Singleton
<1>9. IsFiniteSet({1} \cup Quorums(rules))
  BY <1>7, <1>8, FS_Union
<1>10. 1 \in Nat \ {0}
  OBVIOUS
<1> QED
  BY <1>6, <1>9, <1>10

(* More rules name more people and ask for no smaller a quorum.            *)
LEMMA NeedsGrow ==
  ASSUME NEW A \in SUBSET Rules, NEW B \in SUBSET Rules, IsFiniteSet(B), A \subseteq B
  PROVE  /\ Named(A) \subseteq Named(B)
         /\ Max({1} \cup Quorums(A)) \in Nat /\ Max({1} \cup Quorums(B)) \in Nat
         /\ Max({1} \cup Quorums(A)) <= Max({1} \cup Quorums(B))
<1>1. Asking(A) \subseteq Asking(B)
  BY DEF Asking
<1>2. Named(A) \subseteq Named(B)
  BY <1>1 DEF Named
<1>3. Quorums(A) \subseteq Quorums(B)
  BY <1>1 DEF Quorums
<1> DEFINE QA == {1} \cup Quorums(A)
           QB == {1} \cup Quorums(B)
<1>4. IsFiniteSet(A)
  BY FS_Subset
<1>5. /\ QA \subseteq Nat \ {0} /\ IsFiniteSet(QA)
      /\ QB \subseteq Nat \ {0} /\ IsFiniteSet(QB)
  BY <1>4, QuorumsOf
<1>6. QA \subseteq QB /\ QA # {} /\ QB # {} /\ QA \in SUBSET Nat /\ QB \in SUBSET Nat
  BY <1>3, <1>5
<1> HIDE DEF QA, QB
<1>7. Max(QA) \in QA /\ Max(QB) \in QB /\ \A y \in QB : Max(QB) >= y
  BY <1>5, <1>6, MaxOfNumbers
<1>8. Max(QA) \in Nat /\ Max(QB) \in Nat /\ Max(QA) <= Max(QB)
  <2>1. Max(QA) \in QB
    BY <1>6, <1>7
  <2>2. Max(QB) >= Max(QA)
    BY <1>7, <2>1
  <2>3. Max(QA) \in Nat /\ Max(QB) \in Nat
    BY <1>6, <1>7
  <2> HIDE DEF Max
  <2> QED
    BY <2>2, <2>3
<1> QED
  BY <1>2, <1>8 DEF QA, QB

(* While an action needs approval, more rules never make fewer sign-offs   *)
(* enough, but for the first names in place of a quorum: approvals.py      *)
(* derive_approval_requirements_from_rules.                                *)
THEOREM MoreRulesNeverEverNeedLess == Spec => MoreRulesNeverNeedLess
<1>1. ASSUME IInv, Growing, NEW req \in Requests
      PROVE  LET old == ApprovalNeeds(req, policies)
                 new == ApprovalNeeds(req, policies')
             IN  \/ old.named = {} /\ new.named # {}
                 \/ \A signers \in SUBSET People : Enough(signers, new) => Enough(signers, old)
  <2> DEFINE A == HoldsOn(req, policies)
             B == HoldsOn(req, policies')
             old == ApprovalNeeds(req, policies)
             new == ApprovalNeeds(req, policies')
  <2>1. Grown(policies, policies')
    BY <1>1, GrowingGrows
  <2>2. Listed(policies) /\ Listed(policies')
    BY <2>1 DEF Grown
  <2>3. A \subseteq B
    BY <2>1, RulesGrow DEF HoldsOn
  <2>4. /\ old = DeriveRequirements(A) /\ IsFiniteSet(A) /\ A \subseteq Rules
        /\ new = DeriveRequirements(B) /\ IsFiniteSet(B) /\ B \subseteq Rules
    BY <2>2, NeedsOf
  <2> HIDE DEF A, B, old, new
  <2> DEFINE qA == Max({1} \cup Quorums(A))
             qB == Max({1} \cup Quorums(B))
  <2>5. Named(A) \subseteq Named(B) /\ qA \in Nat /\ qB \in Nat /\ qA <= qB
    BY <2>3, <2>4, NeedsGrow
  <2> HIDE DEF qA, qB
  <2>6. /\ old.named = Named(A) /\ (Named(A) = {} => old.min = qA)
        /\ new.named = Named(B) /\ (Named(B) = {} => new.min = qB)
    BY <2>4 DEF DeriveRequirements, qA, qB
  <2>7. ASSUME NEW signers \in SUBSET People, Enough(signers, new), ~ (old.named = {} /\ new.named # {})
        PROVE  Enough(signers, old)
    <3>1. CASE old.named # {}
      BY <2>5, <2>6, <2>7, <3>1 DEF Enough
    <3>2. CASE old.named = {} /\ new.named = {}
      <4>1. IsFiniteSet(signers)
        BY PeopleFinite, FS_Subset
      <4>2. Cardinality(signers) \in Nat
        BY <4>1, FS_CardinalityType
      <4>3. Cardinality(signers) >= qB
        BY <2>6, <2>7, <3>2 DEF Enough
      <4>4. Cardinality(signers) >= qA
        BY <2>5, <4>2, <4>3
      <4> QED
        BY <2>6, <3>2, <4>4 DEF Enough
    <3> QED
      BY <2>7, <3>1, <3>2
  <2> QED
    BY <2>7 DEF old, new
<1>2. IInv /\ [Next]_policies =>
        [Growing => \A req \in Requests :
           LET old == ApprovalNeeds(req, policies)
               new == ApprovalNeeds(req, policies')
           IN  \/ old.named = {} /\ new.named # {}
               \/ \A signers \in SUBSET People : Enough(signers, new) => Enough(signers, old)]_policies
  BY <1>1
<1> QED
  BY <1>2, Invariance, PTL DEF Spec, MoreRulesNeverNeedLess

-----------------------------------------------------------------------------
(* The order in which policies are found. *)

(* Two sets that correspond with their orders are listed alike.            *)
LEMMA ListedAlike ==
  ASSUME NEW S, IsFiniteSet(S), NEW R, Orders(R, S),
         NEW T, IsFiniteSet(T), NEW Q, Orders(Q, T),
         NEW f \in Bijection(S, T),
         \A x, y \in S : <<x, y>> \in R <=> <<f[x], f[y]>> \in Q
  PROVE  /\ Cardinality(S) = Cardinality(T)
         /\ \A n \in 1..Cardinality(S) : InOrder(T, Q)[n] = f[InOrder(S, R)[n]]
<1>1. /\ f \in [S -> T] /\ \A x, y \in S : f[x] = f[y] => x = y
      /\ \A t \in T : \E x \in S : f[x] = t
  BY DEF Bijection, Injection, Surjection, IsInjective
<1>2. Cardinality(S) = Cardinality(T)
  BY FS_Bijection DEF ExistsBijection
<1>3. ASSUME NEW x \in S
      PROVE  f[x] \in T /\ Cardinality(Below(Q, T, f[x])) = Cardinality(Below(R, S, x))
  <2> DEFINE U == Below(R, S, x)
             V == Below(Q, T, f[x])
             g == [y \in U |-> f[y]]
  <2>1. f[x] \in T /\ IsFiniteSet(U)
    BY <1>1, BelowFinite
  <2>2. \A y \in U : y \in S /\ f[y] \in V
    BY <1>1 DEF Below
  <2>3. \A t \in V : \E y \in U : f[y] = t
    <3> TAKE t \in V
    <3>1. t \in T /\ <<t, f[x]>> \in Q
      BY DEF Below
    <3>2. PICK y \in S : f[y] = t
      BY <1>1, <3>1
    <3>3. y \in U
      BY <3>1, <3>2 DEF Below
    <3> QED
      BY <3>2, <3>3
  <2> HIDE DEF U, V
  <2>4. g \in [U -> V] /\ \A y \in U : g[y] = f[y]
    BY <2>2
  <2> HIDE DEF g
  <2>5. /\ \A a, b \in U : g[a] = g[b] => a = b
        /\ \A t \in V : \E y \in U : g[y] = t
    BY <1>1, <2>2, <2>3, <2>4
  <2>6. g \in Bijection(U, V)
    BY <2>4, <2>5 DEF Bijection, Injection, Surjection, IsInjective
  <2>7. Cardinality(V) = Cardinality(U)
    BY <2>1, <2>6, FS_Bijection DEF ExistsBijection
  <2> QED
    BY <2>1, <2>7 DEF U, V
<1>4. ASSUME NEW n \in 1..Cardinality(S)
      PROVE  InOrder(T, Q)[n] = f[InOrder(S, R)[n]]
  <2> DEFINE x == InOrder(S, R)[n]
             t == InOrder(T, Q)[n]
  <2>1. x \in S /\ Cardinality(Below(R, S, x)) = n - 1
    BY InOrderLists
  <2>2. t \in T /\ Cardinality(Below(Q, T, t)) = n - 1
    BY <1>2, InOrderLists
  <2> HIDE DEF x, t
  <2>3. f[x] \in T /\ Cardinality(Below(Q, T, f[x])) = n - 1
    BY <1>3, <2>1
  <2>4. t = f[x]
    BY <2>2, <2>3, PlaceIsUnique
  <2> QED
    BY <2>4 DEF x, t
<1> QED
  BY <1>2, <1>4

DistinctIds(ps) == \A i, j \in DOMAIN ps : ps[i].id = ps[j].id => i = j

(* The policy at i in ps is at f[i] in qs.                                 *)
Rearranged(ps, qs, f) ==
  /\ Listed(ps) /\ Listed(qs) /\ DistinctIds(ps)
  /\ f \in Bijection(DOMAIN ps, DOMAIN qs)
  /\ \A i \in DOMAIN ps : qs[f[i]] = ps[i]

(* Matching places correspond, with their order.                           *)
LEMMA PlacesCorrespond ==
  ASSUME NEW ps, NEW qs, NEW f, Rearranged(ps, qs, f), NEW req
  PROVE  LET S == MatchingPlaces(req, ps)
             T == MatchingPlaces(req, qs)
             g == [at \in S |-> <<f[at[1]], at[2]>>]
         IN  /\ g \in Bijection(S, T)
             /\ \A a, b \in S : <<a, b>> \in Ordered(req, ps) <=> <<g[a], g[b]>> \in Ordered(req, qs)
             /\ \A a \in S : Hit(qs, g[a]) = Hit(ps, a)
<1> DEFINE S == MatchingPlaces(req, ps)
           T == MatchingPlaces(req, qs)
           g == [at \in S |-> <<f[at[1]], at[2]>>]
<1>1. /\ Listed(ps) /\ Listed(qs) /\ \A i \in DOMAIN ps : qs[f[i]] = ps[i]
      /\ \A i, j \in DOMAIN ps : ps[i].id = ps[j].id => i = j
  BY DEF Rearranged, DistinctIds
<1>2. /\ \A i \in DOMAIN ps : f[i] \in DOMAIN qs
      /\ \A i, j \in DOMAIN ps : f[i] = f[j] => i = j
      /\ \A m \in DOMAIN qs : \E i \in DOMAIN ps : f[i] = m
  BY DEF Rearranged, Bijection, Injection, Surjection, IsInjective
<1>3. ASSUME NEW a \in S
      PROVE  /\ a = <<a[1], a[2]>> /\ a[1] \in DOMAIN ps /\ a[2] \in DOMAIN ps[a[1]].rules
             /\ a[1] \in Int /\ a[2] \in Int /\ ps[a[1]].id \in Int
             /\ ps[a[1]].enabled /\ Matches(RuleAt(ps, a), req)
  <2>1. a \in Places(ps) /\ ps[a[1]].enabled /\ Matches(RuleAt(ps, a), req)
    BY DEF MatchingPlaces
  <2> QED
    BY <1>1, <2>1, PlaceShape
<1>4. ASSUME NEW a \in S
      PROVE  /\ g[a] = <<f[a[1]], a[2]>> /\ g[a][1] = f[a[1]] /\ g[a][2] = a[2]
             /\ qs[g[a][1]] = ps[a[1]] /\ RuleAt(qs, g[a]) = RuleAt(ps, a)
             /\ g[a] \in T
  <2>1. g[a] = <<f[a[1]], a[2]>> /\ g[a][1] = f[a[1]] /\ g[a][2] = a[2]
    OBVIOUS
  <2> HIDE DEF g, S
  <2>2. qs[g[a][1]] = ps[a[1]]
    BY <1>1, <1>3, <2>1
  <2>3. RuleAt(qs, g[a]) = RuleAt(ps, a)
    BY <2>1, <2>2 DEF RuleAt
  <2>4. g[a] \in Places(qs)
    <3> DEFINE i == f[a[1]]
               k == a[2]
    <3>1. i \in DOMAIN qs /\ k \in DOMAIN qs[i].rules /\ g[a] = <<i, k>>
      BY <1>2, <1>3, <2>1, <2>2
    <3> HIDE DEF i, k
    <3> QED
      BY <3>1 DEF Places
  <2> QED
    BY <1>3, <2>1, <2>2, <2>3, <2>4 DEF MatchingPlaces
<1>5. ASSUME NEW b \in T PROVE \E a \in S : g[a] = b
  <2>1. b \in Places(qs) /\ qs[b[1]].enabled /\ Matches(RuleAt(qs, b), req)
    BY DEF MatchingPlaces
  <2>2. b = <<b[1], b[2]>> /\ b[1] \in DOMAIN qs /\ b[2] \in DOMAIN qs[b[1]].rules
    BY <1>1, <2>1, PlaceShape
  <2>3. PICK i \in DOMAIN ps : f[i] = b[1]
    BY <1>2, <2>2
  <2> DEFINE k == b[2]
             a == <<i, k>>
  <2>4. ps[i] = qs[b[1]] /\ k \in DOMAIN ps[i].rules
    BY <1>1, <2>2, <2>3
  <2>5. a[1] = i /\ a[2] = k /\ a \in Places(ps)
    <3> HIDE DEF k
    <3> QED
      BY <2>4 DEF Places
  <2>6. RuleAt(ps, a) = RuleAt(qs, b)
    BY <2>4, <2>5 DEF RuleAt
  <2>7. a \in S
    <3> HIDE DEF a, k
    <3> QED
      BY <2>1, <2>4, <2>5, <2>6 DEF MatchingPlaces
  <2>8. g[a] = b
    <3> HIDE DEF a, S
    <3> QED
      BY <2>2, <2>3, <2>5, <2>7
  <2> QED
    BY <2>7, <2>8
<1>6. ASSUME NEW a \in S, NEW b \in S PROVE Precedes(qs, g[a], g[b]) <=> Precedes(ps, a, b)
  <2> HIDE DEF g, S
  <2>1. /\ qs[g[a][1]] = ps[a[1]] /\ g[a][2] = a[2] /\ g[a][1] = f[a[1]]
        /\ qs[g[b][1]] = ps[b[1]] /\ g[b][2] = b[2] /\ g[b][1] = f[b[1]]
    BY <1>4
  <2>2. CASE a[1] = b[1]
    <3>1. g[a][1] = g[b][1] /\ g[a][1] \in Int
      <4>1. f[a[1]] \in DOMAIN qs
        BY <1>2, <1>3
      <4>2. DOMAIN qs \subseteq Int
        BY <1>1 DEF Listed
      <4> QED
        BY <2>1, <2>2, <4>1, <4>2
    <3> QED
      BY <1>3, <2>1, <2>2, <3>1 DEF Precedes
  <2>3. CASE a[1] # b[1]
    <3>1. ps[a[1]].id # ps[b[1]].id
      BY <1>1, <1>3, <2>3
    <3> QED
      BY <2>1, <3>1 DEF Precedes
  <2> QED
    BY <2>2, <2>3
<1>7. \A a, b \in S : g[a] = g[b] => a = b
  <2> HIDE DEF g, S
  <2> QED
    BY <1>2, <1>3, <1>4
<1>8. g \in Bijection(S, T)
  <2>1. g \in [S -> T]
    <3>1. g = [a \in S |-> g[a]]
      OBVIOUS
    <3> HIDE DEF g, S, T
    <3> QED
      BY <1>4, <3>1
  <2> HIDE DEF g, S, T
  <2> QED
    BY <1>5, <1>7, <2>1 DEF Bijection, Injection, Surjection, IsInjective
<1>9. \A a, b \in S : <<a, b>> \in Ordered(req, ps) <=> <<g[a], g[b]>> \in Ordered(req, qs)
  <2>1. \A a, b \in S : <<a, b>> \in Ordered(req, ps) <=> Precedes(ps, a, b)
    BY DEF Ordered
  <2>2. \A a, b \in T : <<a, b>> \in Ordered(req, qs) <=> Precedes(qs, a, b)
    BY DEF Ordered
  <2> HIDE DEF g, S, T
  <2> QED
    BY <1>4, <1>6, <2>1, <2>2
<1>10. \A a \in S : Hit(qs, g[a]) = Hit(ps, a)
  <2> HIDE DEF g, S
  <2> QED
    BY <1>4 DEF Hit
<1> QED
  BY <1>8, <1>9, <1>10

(* A decision and its trace are the same for any arrangement of policies   *)
(* with ids of their own: policy.py collect_matching_rules sorts by id.    *)
THEOREM AnyArrangementDecidesAlike ==
  ASSUME NEW ps, NEW qs, NEW f, Rearranged(ps, qs, f), NEW req
  PROVE  EvaluateAction(req, qs) = EvaluateAction(req, ps)
<1> DEFINE S == MatchingPlaces(req, ps)
           T == MatchingPlaces(req, qs)
           R == Ordered(req, ps)
           Q == Ordered(req, qs)
           g == [at \in S |-> <<f[at[1]], at[2]>>]
           l == InOrder(S, R)
           m == InOrder(T, Q)
           hits == CollectMatchingRules(req, ps)
           hitsQ == CollectMatchingRules(req, qs)
<1>1. Listed(ps) /\ Listed(qs)
  BY DEF Rearranged
<1>2. /\ g \in Bijection(S, T)
      /\ \A a, b \in S : <<a, b>> \in R <=> <<g[a], g[b]>> \in Q
      /\ \A a \in S : Hit(qs, g[a]) = Hit(ps, a)
  BY PlacesCorrespond
<1>3. IsFiniteSet(S) /\ Orders(R, S) /\ IsFiniteSet(T) /\ Orders(Q, T)
  BY <1>1, PrecedesOrders
<1>4. /\ hits = [n \in DOMAIN hits |-> hits[n]] /\ DOMAIN hits = 1..Cardinality(S)
      /\ \A n \in DOMAIN hits : l[n] \in S /\ hits[n] = Hit(ps, l[n])
  <2>1. hits = [n \in DOMAIN hits |-> hits[n]]
    BY DEF CollectMatchingRules
  <2> QED
    BY <1>1, <2>1, CollectLists
<1>5. /\ hitsQ = [n \in DOMAIN hitsQ |-> hitsQ[n]] /\ DOMAIN hitsQ = 1..Cardinality(T)
      /\ \A n \in DOMAIN hitsQ : m[n] \in T /\ hitsQ[n] = Hit(qs, m[n])
  <2>1. hitsQ = [n \in DOMAIN hitsQ |-> hitsQ[n]]
    BY DEF CollectMatchingRules
  <2> QED
    BY <1>1, <2>1, CollectLists
<1>6. /\ Cardinality(S) = Cardinality(T)
      /\ \A n \in 1..Cardinality(S) : m[n] = g[l[n]]
  <2> HIDE DEF S, T, R, Q, g
  <2> QED
    BY <1>2, <1>3, ListedAlike
<1> HIDE DEF S, T, R, Q, g, l, m, hits, hitsQ
<1>7. DOMAIN hitsQ = DOMAIN hits /\ \A n \in DOMAIN hits : hitsQ[n] = hits[n]
  BY <1>2, <1>4, <1>5, <1>6
<1>8. hitsQ = hits
  BY <1>4, <1>5, <1>7
<1> QED
  BY <1>8 DEF EvaluateAction, hits, hitsQ

(* The order in which policy files were found changes neither the decision *)
(* nor its trace.                                                          *)
THEOREM OrderIsAlwaysIrrelevant == Spec => []OrderIsIrrelevant
<1>1. ASSUME IInv, NEW req \in Requests
      PROVE  EvaluateAction(req, Reverse(policies)) = EvaluateAction(req, policies)
  <2> DEFINE n == Len(policies)
             qs == Reverse(policies)
             f == [i \in DOMAIN policies |-> n - i + 1]
  <2>1. policies \in Seq(Policies) /\ n \in Nat /\ DOMAIN policies = 1..n
    BY <1>1 DEF IInv, Listed
  <2>2. qs = [i \in 1..n |-> policies[n - i + 1]]
    BY DEF Reverse
  <2> HIDE DEF qs, n
  <2>3. ASSUME NEW i \in 1..n PROVE n - i + 1 \in 1..n /\ n - (n - i + 1) + 1 = i
    BY <2>1
  <2>4. qs \in Seq(Policies) /\ DOMAIN qs = 1..n
    <3>1. \A i \in 1..n : policies[n - i + 1] \in Policies
      BY <2>1, <2>3
    <3> QED
      BY <2>1, <2>2, <3>1
  <2>5. \A i \in 1..n : f[i] = n - i + 1 /\ f[i] \in 1..n /\ qs[f[i]] = policies[i]
    BY <2>1, <2>2, <2>3
  <2>6. f \in Bijection(1..n, 1..n)
    <3>1. f \in [1..n -> 1..n]
      BY <2>1, <2>3
    <3> HIDE DEF f
    <3>2. \A i, j \in 1..n : f[i] = f[j] => i = j
      BY <2>1, <2>5
    <3>3. \A j \in 1..n : \E i \in 1..n : f[i] = j
      <4> TAKE j \in 1..n
      <4>1. n - j + 1 \in 1..n /\ f[n - j + 1] = j
        BY <2>3, <2>5
      <4> QED
        BY <4>1
    <3> QED
      BY <3>1, <3>2, <3>3 DEF Bijection, Injection, Surjection, IsInjective
  <2> HIDE DEF f
  <2>7. Rearranged(policies, qs, f)
    BY <1>1, <2>1, <2>4, <2>5, <2>6 DEF Rearranged, IInv, Listed, DistinctIds
  <2>8. EvaluateAction(req, qs) = EvaluateAction(req, policies)
    BY <2>7, AnyArrangementDecidesAlike
  <2> QED
    BY <2>8 DEF qs
<1>2. IInv => OrderIsIrrelevant
  BY <1>1 DEF OrderIsIrrelevant
<1> QED
  BY <1>2, Invariance, PTL

-----------------------------------------------------------------------------
(* Types. *)

LEMMA FirstSeenIsOf ==
  ASSUME NEW T, NEW s \in Seq(T)
  PROVE  FirstSeen(s) \in Seq(T)
<1> DEFINE firsts == {i \in DOMAIN s : \A j \in 1..(i - 1) : s[j] # s[i]}
           R == {ij \in firsts \X firsts : ij[1] < ij[2]}
           listed == InOrder(firsts, R)
<1>1. DOMAIN s = 1..Len(s) /\ Len(s) \in Nat /\ \A i \in DOMAIN s : s[i] \in T
  OBVIOUS
<1>2. IsFiniteSet(DOMAIN s)
  BY <1>1, FS_Interval
<1>3. firsts \subseteq DOMAIN s
  OBVIOUS
<1>4. IsFiniteSet(firsts) /\ \A i \in firsts : i \in Int
  BY <1>1, <1>2, <1>3, FS_Subset
<1>5. \A i, j \in firsts : <<i, j>> \in R <=> i < j
  OBVIOUS
<1>6. Orders(R, firsts)
  <2> HIDE DEF R, firsts
  <2> QED
    BY <1>4, <1>5 DEF Orders
<1>7. /\ Cardinality(firsts) \in Nat /\ DOMAIN listed = 1..Cardinality(firsts)
      /\ \A n \in 1..Cardinality(firsts) : listed[n] \in firsts
  <2> HIDE DEF R, firsts
  <2> QED
    BY <1>4, <1>6, InOrderLists
<1>8. FirstSeen(s) = [n \in DOMAIN listed |-> s[listed[n]]]
  BY DEF FirstSeen
<1> HIDE DEF firsts, listed
<1>9. \A n \in 1..Cardinality(firsts) : s[listed[n]] \in T
  BY <1>1, <1>3, <1>7
<1> QED
  BY <1>7, <1>8, <1>9

(* The number of sign-offs asked for is at least one: approvals.py         *)
(* normalizes a quorum to one and counts the people that are named.        *)
LEMMA NeedsType ==
  ASSUME NEW ps, Listed(ps), NEW req
  PROVE  ApprovalNeeds(req, ps) \in [named : SUBSET People, min : Nat \ {0}]
<1> DEFINE A == HoldsOn(req, ps)
           q == Max({1} \cup Quorums(A))
<1>1. ApprovalNeeds(req, ps) = DeriveRequirements(A) /\ IsFiniteSet(A) /\ A \subseteq Rules
  BY NeedsOf
<1> HIDE DEF A
<1>2. Named(A) \subseteq People
  <2>1. \A r \in Asking(A) : r.conditions.required_approver_ids \subseteq People
    BY <1>1, RulesOK DEF Asking
  <2> QED
    BY <2>1 DEF Named
<1>3. Named(A) # {} => Cardinality(Named(A)) \in Nat \ {0}
  <2>1. IsFiniteSet(Named(A))
    BY <1>2, PeopleFinite, FS_Subset
  <2> QED
    BY <2>1, FS_CardinalityType, FS_EmptySet
<1>4. q \in Nat \ {0}
  <2> DEFINE Q == {1} \cup Quorums(A)
  <2>1. Q \subseteq Nat \ {0} /\ IsFiniteSet(Q)
    BY <1>1, QuorumsOf
  <2>2. Q # {}
    OBVIOUS
  <2> HIDE DEF Q
  <2>3. Q \in SUBSET Nat
    BY <2>1
  <2>4. Max(Q) \in Q
    BY <2>1, <2>2, <2>3, MaxOfNumbers
  <2> QED
    BY <2>1, <2>4 DEF Q
<1> HIDE DEF q
<1> QED
  BY <1>1, <1>2, <1>3, <1>4 DEF DeriveRequirements, q

(* Decisions, traces and approval needs have their types in every list of  *)
(* policies people can build.                                              *)
THEOREM TypeCorrect == Spec => []TypeOK
<1>1. IInv => TypeOK
  <2> SUFFICES ASSUME IInv PROVE TypeOK
    OBVIOUS
  <2>1. Listed(policies)
    BY DEF IInv
  <2>2. ASSUME NEW req \in Requests
        PROVE  LET d == EvaluateAction(req, policies)
               IN  /\ d.decision \in Effects
                   /\ d.matched_policy_ids \in Seq(PolicyIds)
                   /\ ApprovalNeeds(req, policies) \in [named : SUBSET People, min : Nat \ {0}]
    <3> DEFINE hits == CollectMatchingRules(req, policies)
               ids == [k \in DOMAIN hits |-> hits[k].policy]
               S == MatchingPlaces(req, policies)
               listed == InOrder(S, Ordered(req, policies))
    <3>1. EvaluateAction(req, policies).decision \in Effects
      BY <2>1, DecisionIs DEF Effects
    <3>2. /\ Cardinality(S) \in Nat /\ DOMAIN hits = 1..Cardinality(S)
          /\ \A n \in DOMAIN hits : listed[n] \in S /\ hits[n] = Hit(policies, listed[n])
      BY <2>1, CollectLists
    <3>3. \A at \in S : Hit(policies, at).policy \in PolicyIds
      <4>1. \A at \in S : at \in Places(policies)
        BY DEF MatchingPlaces
      <4> QED
        BY <2>1, <4>1, PlaceShape DEF Hit
    <3>4. EvaluateAction(req, policies).matched_policy_ids = FirstSeen(ids)
      BY DEF EvaluateAction
    <3> HIDE DEF S, listed, hits
    <3>5. ids \in Seq(PolicyIds)
      <4>1. \A k \in DOMAIN hits : hits[k].policy \in PolicyIds
        BY <3>2, <3>3
      <4> QED
        BY <3>2, <4>1
    <3>6. FirstSeen(ids) \in Seq(PolicyIds)
      <4> HIDE DEF ids
      <4> QED
        BY <3>5, FirstSeenIsOf
    <3> QED
      BY <2>1, <3>1, <3>4, <3>6, NeedsType
  <2> QED
    BY <2>1, <2>2 DEF TypeOK, Listed
<1> QED
  BY <1>1, Invariance, PTL

=============================================================================
