--------------------------- MODULE MCPolicyEngine ---------------------------
(* A small instance of PolicyEngine for TLC: requests on both sides of     *)
(* every condition, rules of every effect.                                 *)
EXTENDS PolicyEngine, TLC

CONSTANTS a1, a2, a3, pay, read, prod, treasury

MCPeople == {a1, a2, a3}

Anything ==
  [capability |-> None, permission_scope |-> None, risk_level |-> None,
   requires_human_approval |-> None, environment |-> None, amount_gt |-> None,
   amount_lt |-> None, production_deploy |-> None,
   min_distinct_approvers |-> None, required_approver_ids |-> {}]

Rule(id, effect, conditions) == [rule_id |-> id, effect |-> effect, conditions |-> conditions]

MCRules ==
  {Rule(1, "allow", None),
   Rule(2, "deny", [Anything EXCEPT !.capability = pay, !.amount_gt = 1]),
   Rule(3, "deny", [Anything EXCEPT !.requires_human_approval = TRUE, !.environment = prod]),
   Rule(4, "require_approval", [Anything EXCEPT !.amount_lt = 2, !.min_distinct_approvers = 3]),
   Rule(5, "require_approval", [Anything EXCEPT !.permission_scope = treasury, !.min_distinct_approvers = 2]),
   Rule(6, "require_approval", [Anything EXCEPT !.required_approver_ids = {a1, a2}]),
   Rule(7, "require_approval", [Anything EXCEPT !.production_deploy = TRUE, !.risk_level = 1,
                                                !.required_approver_ids = {a3}])}

Small ==
  [capability |-> pay, permission_scope |-> treasury, risk_level |-> 0,
   requires_human_approval |-> None, environment |-> None, amount |-> 1, production_deploy |-> None]

MCRequests ==
  {Small,
   [Small EXCEPT !.amount = 2],
   [Small EXCEPT !.capability = read, !.amount = None, !.environment = prod],
   [Small EXCEPT !.requires_human_approval = TRUE, !.environment = prod, !.permission_scope = read],
   [Small EXCEPT !.production_deploy = TRUE, !.risk_level = 1]}

MCPolicyIds == 1..2
=============================================================================
