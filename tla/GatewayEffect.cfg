\* One operation, two workers that may stop, and every way to lose authority.
SPECIFICATION Spec
CONSTANTS
  alice = alice  bob = bob  merge = merge  lookup = lookup
  Ops = {1}
  Tools = {merge}
  ToolOf <- MCToolOf
  ReadOnly = {}
  GitMerges = {merge}
  Pulls = {1}
  PullOf <- MCPullOf
  Workers = {w1, w2}
  Faulty = {w1, w2}
  Humans = {alice, bob}
  Delegator = alice
  Owner = alice
  InitRoles <- MCInitRoles
  RoleChoices <- MCRoleChoices
  Unsteady = {alice, bob}
  None = None
  BatchLimit = 1
  MaxVersion = 2
  MaxConfig = 2
SYMMETRY WorkerSymmetry
INVARIANTS TypeOK DecisionsPaired AuthorityThroughEffect
PROPERTY KeepsLedger
CHECK_DEADLOCK FALSE
