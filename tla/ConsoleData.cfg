\* Two people, two projects, two loads under way, one form sending.
SPECIFICATION FairSpec
CONSTANTS
  alice = alice  bob = bob  p1 = p1  p2 = p2  t1 = t1  t2 = t2
  People = {alice, bob}
  Projects = {p1, p2}
  ProjectsOf <- MCProjectsOf
  Busy = {p2}
  MaxTask = 3
  Tasks = {t1, t2}
  History <- MCHistory
  MaxRest = 1
  MaxInFlight = 2
  MaxForms = 1
  None = None
INVARIANTS TypeOK ShownIsOurs NoTaskMissed
PROPERTIES NeverOlder TaskChangesShown
CHECK_DEADLOCK FALSE
