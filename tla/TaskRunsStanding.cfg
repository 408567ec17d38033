\* Memberships, roles and accounts change under a Run of bob's session.
SPECIFICATION Spec
CONSTANTS
  alice = alice  bob = bob  s1 = s1  s2 = s2  codex = codex  cursor = cursor
  Tasks = {t1}
  Humans = {alice, bob}
  Sessions = {s2}
  Artifacts = {1}
  Versions = {v1}
  Agents = {cursor}
  General = cursor
  None = None
  Delegator <- MCDelegator
  AgentOf <- MCAgentOf
  InitRoles <- MCInitRoles
  RoleChoices <- MCRoleChoices
  Unsteady = {alice, bob}
  GitKinds = {TRUE, FALSE}
  MaxAttempts = 1
  LeaseTicks = 2
  ClockSkew = 1
  MaxCancelEvents = 0
PROPERTY NoWriteAfterLoss
CHECK_DEADLOCK FALSE
