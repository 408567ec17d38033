\* A batch smaller than the queue, a worker that may stop, and the clock.
SPECIFICATION FairSpec
CONSTANTS
  alice = alice  bob = bob  merge = merge  lookup = lookup
  Ops = {1, 2}
  Tools = {merge, lookup}
  ToolOf <- MCToolOf
  ReadOnly = {lookup}
  GitMerges = {}
  Pulls = {1}
  PullOf <- MCPullOf
  Workers = {w1}
  Faulty = {w1}
  Humans = {alice, bob}
  Delegator = alice
  Owner = alice
  InitRoles <- MCInitRoles
  RoleChoices <- MCRoleChoices
  Unsteady = {}
  None = None
  BatchLimit = 1
  MaxVersion = 1
  MaxConfig = 1
PROPERTIES IntentsCanceled RunningSurfaces
CHECK_DEADLOCK FALSE
