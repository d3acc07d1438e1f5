SPECIFICATION Spec
CONSTANTS
  a1 = a1
  a2 = a2
  Procs = {p1, p2}
  Agents = {a1, a2}
  AuthoredFiles <- MCAuthoredFiles
  MaxIncidents = 2
  MaxProfiles = 4
  Damaged = Damaged
SYMMETRY MCProcSymmetry
INVARIANTS
  ProfilesAreExplained
  CurrentUnlessRaced
