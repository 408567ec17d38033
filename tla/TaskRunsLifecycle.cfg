\* One task through its whole life: two humans, two sessions, two attempts, and
\* artifacts that have to be verified before they are decided (Git references).
SPECIFICATION Spec
CONSTANTS
  alice = alice  bob = bob  s1 = s1  s2 = s2  codex = codex  cursor = cursor
  Tasks = {t1}
  Humans = {alice, bob}
  Sessions = {s1, s2}
  Artifacts = {1}
  Versions = {v1}
  Agents = {codex, cursor}
  General = general
  None = None
  Delegator <- MCDelegator
  AgentOf <- MCAgentOf
  InitRoles <- MCInitRoles
  RoleChoices <- MCRoleChoices
  Unsteady = {}
  GitKinds = {TRUE}
  MaxAttempts = 2
  LeaseTicks = 1
  ClockSkew = 0
  MaxCancelEvents = 2
INVARIANTS TypeOK RunTaskAgreement HumanGrant DoneOnEvidence SettledBehind
PROPERTIES HistoryImmutable KeepsContract
CHECK_DEADLOCK FALSE
