---------------------------- MODULE PolicyEngine ----------------------------
(***************************************************************************)
(* Evaluation of an action against policies, and the approval that the     *)
(* matched rules ask for.  The evaluator is a function; the state is the   *)
(* list of policies its callers hand it (files in the order they were      *)
(* found, or the list in a request body), as people edit it.               *)
(*                                                                         *)
(* Abstraction: an agent's capability, scope and risk level, which rules   *)
(* compare in the same way, are all kept; the words of reasons are not.    *)
(***************************************************************************)
EXTENDS Integers, FiniteSets, Sequences, SequencesExt

CONSTANTS Requests,     \* actions that are evaluated
          Rules,        \* rules people write
          PolicyIds,    \* policy ids, in their order
          People,       \* identities that may sign off
          MaxRules,     \* bound of the rules in all policies
          None          \* an absent field

ASSUME PolicyIdsOrdered == PolicyIds \subseteq Nat /\ MaxRules \in Nat

ASSUME PeopleFinite == IsFiniteSet(People)

(* What the fields of a rule may hold.                                     *)
ASSUME RulesOK ==
  \A r \in Rules :
    /\ r.effect \in {"deny", "require_approval", "allow"}
    /\ r.conditions # None =>
         /\ r.conditions.min_distinct_approvers \in (Nat \ {0}) \cup {None}
         /\ r.conditions.required_approver_ids \subseteq People

VARIABLE policies

Effects == {"deny", "require_approval", "allow"}

Policies == [id : PolicyIds, enabled : BOOLEAN, rules : Seq(Rules)]

-----------------------------------------------------------------------------
(* Rule.matches *)

Unless(condition, test) == condition = None \/ test

Conforms(c, req) ==
  /\ Unless(c.capability, req.capability = c.capability)
  /\ Unless(c.permission_scope, req.permission_scope = c.permission_scope)
  /\ Unless(c.risk_level, req.risk_level = c.risk_level)
  /\ Unless(c.requires_human_approval,
            req.requires_human_approval # None /\ req.requires_human_approval = c.requires_human_approval)
  /\ Unless(c.environment, req.environment # None /\ req.environment = c.environment)
  /\ Unless(c.amount_gt, req.amount # None /\ req.amount > c.amount_gt)
  /\ Unless(c.amount_lt, req.amount # None /\ req.amount < c.amount_lt)
  /\ Unless(c.production_deploy, req.production_deploy = TRUE)

Matches(rule, req) == rule.conditions = None \/ Conforms(rule.conditions, req)

-----------------------------------------------------------------------------
(* collect_matching_rules *)

(* The elements of a finite set in their order, a set of pairs: the n-th   *)
(* has n - 1 before it.                                                    *)
InOrder(S, order) ==
  [n \in 1..Cardinality(S) |->
     CHOOSE x \in S : Cardinality({y \in S : <<y, x>> \in order}) = n - 1]

(* Places of rules: the place of a policy and that of a rule in it.        *)
Places(ps) == UNION {{<<i, k>> : k \in DOMAIN ps[i].rules} : i \in DOMAIN ps}

RuleAt(ps, at) == ps[at[1]].rules[at[2]]

MatchingPlaces(req, ps) ==
  {at \in Places(ps) : ps[at[1]].enabled /\ Matches(RuleAt(ps, at), req)}

(* Mutant of Precedes: policies are taken in the order they come.          *)
Precedes_AsFound(ps, a, b) == a[1] < b[1] \/ (a[1] = b[1] /\ a[2] < b[2])

(* Policies by ascending id, equal ids in the order they came; the rules   *)
(* of a policy as they stand.                                              *)
Precedes(ps, a, b) ==
  \/ ps[a[1]].id < ps[b[1]].id
  \/ ps[a[1]].id = ps[b[1]].id /\ (a[1] < b[1] \/ (a[1] = b[1] /\ a[2] < b[2]))

CollectMatchingRules(req, ps) ==
  LET hits == MatchingPlaces(req, ps)
      listed == InOrder(hits, {ab \in hits \X hits : Precedes(ps, ab[1], ab[2])})
  IN  [n \in DOMAIN listed |-> [policy |-> ps[listed[n][1]].id, rule |-> RuleAt(ps, listed[n])]]

-----------------------------------------------------------------------------
(* evaluate_action *)

(* The elements of s without those that came before.                       *)
FirstSeen(s) ==
  LET firsts == {i \in DOMAIN s : \A j \in 1..(i - 1) : s[j] # s[i]}
      listed == InOrder(firsts, {ij \in firsts \X firsts : ij[1] < ij[2]})
  IN  [n \in DOMAIN listed |-> s[listed[n]]]

(* Mutant of Winner: the first matching rule decides.                      *)
Winner_FirstRule(effects) == IF effects = <<>> THEN "allow" ELSE effects[1]

(* Mutant of Winner: an explicit allow overrides a required approval.      *)
Winner_AllowFirst(effects) ==
  CASE "deny" \in Range(effects) -> "deny"
    [] "deny" \notin Range(effects) /\ "allow" \in Range(effects) -> "allow"
    [] Range(effects) = {"require_approval"} -> "require_approval"
    [] OTHER -> "allow"

(* deny, then require_approval, then allow; allow without any match.       *)
Winner(effects) ==
  IF "deny" \in Range(effects) THEN "deny"
  ELSE IF "require_approval" \in Range(effects) THEN "require_approval"
  ELSE "allow"

EvaluateAction(req, ps) ==
  LET hits == CollectMatchingRules(req, ps)
  IN  [decision |-> Winner([k \in DOMAIN hits |-> hits[k].rule.effect]),
       matched_policy_ids |-> FirstSeen([k \in DOMAIN hits |-> hits[k].policy]),
       matched_rule_ids |-> [k \in DOMAIN hits |-> hits[k].rule.rule_id]]

-----------------------------------------------------------------------------
(* derive_approval_requirements_from_rules *)

Asking(rules) == {r \in rules : r.effect = "require_approval" /\ r.conditions # None}

Named(rules) == UNION {r.conditions.required_approver_ids : r \in Asking(rules)}

Quorums(rules) == {r.conditions.min_distinct_approvers : r \in Asking(rules)} \ {None}

(* Mutant of DeriveRequirements: the least quorum wins over the largest.   *)
DeriveRequirements_LeastQuorum(rules) ==
  [named |-> Named(rules),
   min |-> IF Named(rules) # {} THEN Cardinality(Named(rules))
           ELSE IF Quorums(rules) = {} THEN 1 ELSE Min(Quorums(rules))]

(* Names of all rules together; without any name the largest quorum.  The  *)
(* order of the names is not kept, and so neither is that of the rules.    *)
DeriveRequirements(rules) ==
  [named |-> Named(rules),
   min |-> IF Named(rules) # {} THEN Cardinality(Named(rules)) ELSE Max({1} \cup Quorums(rules))]

(* What the gateway and the credential broker ask for, from the rules that *)
(* made the decision.                                                      *)
ApprovalNeeds(req, ps) ==
  LET hits == CollectMatchingRules(req, ps)
  IN  DeriveRequirements({r \in {hits[k].rule : k \in DOMAIN hits} : r.effect = "require_approval"})

(* is_request_fully_approved of a pending row without expiry.              *)
Enough(signers, need) ==
  IF need.named # {} THEN need.named \subseteq signers ELSE Cardinality(signers) >= need.min

-----------------------------------------------------------------------------
(* The editors of policies. *)

Init == policies = <<>>

RuleCount == FoldLeft(LAMBDA n, p : n + Len(p.rules), 0, policies)

AddPolicy(id) ==
  /\ \A i \in DOMAIN policies : policies[i].id # id
  /\ \E at \in 1..(Len(policies) + 1) :
       policies' = InsertAt(policies, at, [id |-> id, enabled |-> TRUE, rules |-> <<>>])

AddRule(i, r) ==
  /\ RuleCount < MaxRules
  /\ policies' = [policies EXCEPT ![i].rules = Append(@, r)]

Enable(i) == ~policies[i].enabled /\ policies' = [policies EXCEPT ![i].enabled = TRUE]

Disable(i) == policies[i].enabled /\ policies' = [policies EXCEPT ![i].enabled = FALSE]

Next ==
  \/ \E id \in PolicyIds : AddPolicy(id)
  \/ \E i \in DOMAIN policies :
       \/ \E r \in Rules : AddRule(i, r)
       \/ Enable(i)
       \/ Disable(i)

Spec == Init /\ [][Next]_policies

-----------------------------------------------------------------------------

TypeOK ==
  /\ policies \in Seq(Policies)
  /\ \A req \in Requests :
       LET d == EvaluateAction(req, policies)
       IN  /\ d.decision \in Effects
           /\ d.matched_policy_ids \in Seq(PolicyIds)
           /\ ApprovalNeeds(req, policies) \in [named : SUBSET People, min : Nat \ {0}]

(* The effects of the enabled rules that match, whatever their order.      *)
EffectsOn(req) ==
  {r.effect : r \in {q \in UNION {Range(policies[i].rules) : i \in {j \in DOMAIN policies : policies[j].enabled}} :
                       Matches(q, req)}}

(* The decision is the strictest effect among all enabled rules that       *)
(* match, in whatever policy and place they stand.                         *)
StrictestRuleDecides ==
  \A req \in Requests :
    LET d == EvaluateAction(req, policies).decision
    IN  /\ d = "deny" <=> "deny" \in EffectsOn(req)
        /\ d = "require_approval" <=> "deny" \notin EffectsOn(req) /\ "require_approval" \in EffectsOn(req)

(* The decision and its whole trace do not depend on the order in which    *)
(* the policies were found.                                                *)
OrderIsIrrelevant ==
  \A req \in Requests : EvaluateAction(req, Reverse(policies)) = EvaluateAction(req, policies)

Strictness(effect) == CASE effect = "allow" -> 0 [] effect = "require_approval" -> 1 [] effect = "deny" -> 2

Growing == \E i \in DOMAIN policies : Enable(i) \/ \E r \in Rules : AddRule(i, r)

(* Adding a rule or enabling a policy never lets an action through that    *)
(* was stopped or held before.                                             *)
MoreRulesNeverLoosen ==
  [][Growing => \A req \in Requests :
       Strictness(EvaluateAction(req, policies').decision)
         >= Strictness(EvaluateAction(req, policies).decision)]_policies

(* While an action needs approval, more rules never make fewer sign-offs   *)
(* enough, with one exception: the first rule that names its approvers     *)
(* takes the place of the quorum.                                          *)
MoreRulesNeverNeedLess ==
  [][Growing => \A req \in Requests :
       LET old == ApprovalNeeds(req, policies)
           new == ApprovalNeeds(req, policies')
       IN  \/ old.named = {} /\ new.named # {}
           \/ \A signers \in SUBSET People : Enough(signers, new) => Enough(signers, old)]_policies

=============================================================================
