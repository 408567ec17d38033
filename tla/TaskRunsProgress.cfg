\* Liveness of the reconcile worker; nothing is cancelled.
SPECIFICATION FairSpec
CONSTANTS
  alice = alice  bob = bob  s1 = s1  s2 = s2  codex = codex  cursor = cursor
  Tasks = {t1, t2}
  Humans = {alice}
  Sessions = {s1}
  Artifacts = {1}
  Versions = {v1}
  Agents = {codex}
  General = codex
  None = None
  Delegator <- MCDelegator
  AgentOf <- MCAgentOf
  InitRoles <- MCInitRoles
  RoleChoices <- MCRoleChoices
  Unsteady = {}
  GitKinds = {TRUE, FALSE}
  MaxAttempts = 1
  LeaseTicks = 1
  ClockSkew = 0
  MaxCancelEvents = 0
PROPERTIES LostRunsEnd ReadyWorkReleased
CHECK_DEADLOCK FALSE
