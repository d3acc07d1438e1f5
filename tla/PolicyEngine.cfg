SPECIFICATION Spec
CONSTANTS
  a1 = a1
  a2 = a2
  a3 = a3
  pay = pay
  read = read
  prod = prod
  treasury = treasury
  None = None
  Requests <- MCRequests
  Rules <- MCRules
  People <- MCPeople
  PolicyIds <- MCPolicyIds
  MaxRules = 3
INVARIANTS
  StrictestRuleDecides
  OrderIsIrrelevant
PROPERTIES
  MoreRulesNeverLoosen
  MoreRulesNeverNeedLess
