----------------------------- MODULE RiskLevels -----------------------------
(***************************************************************************)
(* Risk levels as both repository scanners bump them and as the evidence   *)
(* report rates an observed action by its scope or its capability.         *)
(***************************************************************************)
EXTENDS Integers

Low == 0
Medium == 1
High == 2
Critical == 3

Levels == Low .. Critical

(* bump_risk keeps the higher of two levels, so only the highest level     *)
(* that some test asks for counts.                                         *)
Bumped(critical, high, medium) ==
  IF critical THEN Critical ELSE IF high THEN High ELSE IF medium THEN Medium ELSE Low

(* names, if the test holds                                                *)
If(test, names) == IF test THEN names ELSE {}

-----------------------------------------------------------------------------
(* SCOPE_RISK and CAPABILITY_RISK of the evidence report *)

ScopesRated ==
  [critical |-> {"production.deploy", "payments.initiate", "finance.read"},
   high     |-> {"database.write", "cloud.write", "process.exec", "email.send"},
   medium   |-> {"repository.write", "ci.execute"}]

CapabilitiesRated ==
  [critical |-> {"deploy_code", "initiate_payment", "financial_data_access"},
   high     |-> {"write_database", "execute_shell", "external_communication"},
   medium   |-> {"llm_inference"}]

Rated(name, rated) == name \in rated.critical \cup rated.high \cup rated.medium

RatingOf(name, rated) == Bumped(name \in rated.critical, name \in rated.high, name \in rated.medium)

(* _event_risk: a rated scope decides, or else the capability; what is not *)
(* rated is not counted, as if it were low (a risk that the event claims   *)
(* for itself, metadata.risk_guess, is left out).                          *)
EventRisk(scope, capability) ==
  IF Rated(scope, ScopesRated) THEN RatingOf(scope, ScopesRated)
  ELSE RatingOf(capability, CapabilitiesRated)

=============================================================================
