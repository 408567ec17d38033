\* Two tasks that may wait for each other, two artifacts that could release one.
SPECIFICATION Spec
CONSTANTS
  alice = alice  bob = bob  s1 = s1  s2 = s2  codex = codex  cursor = cursor
  Tasks = {t1, t2}
  Humans = {alice}
  Sessions = {s1}
  Artifacts = {1, 2}
  Versions = {v1}
  Agents = {codex}
  General = codex
  None = None
  Delegator <- MCDelegator
  AgentOf <- MCAgentOf
  InitRoles <- MCInitRoles
  RoleChoices <- MCRoleChoices
  Unsteady = {}
  GitKinds = {FALSE}
  MaxAttempts = 1
  LeaseTicks = 1
  ClockSkew = 0
  MaxCancelEvents = 1
INVARIANTS FrozenInputs DependenciesHold Acyclic
PROPERTY EvidenceKept
SYMMETRY TaskSymmetry
CHECK_DEADLOCK FALSE
