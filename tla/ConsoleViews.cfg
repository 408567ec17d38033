\* Two subjects or filters, two pages, three requests under way.
SPECIFICATION Spec
CONSTANTS
  MaxSubject = 2
  MaxAt = 2
  MaxPage = 2
  MaxLoads = 3
  None = None
INVARIANTS TypeOK SettledShowsSelected OneListing PublishedIsCompared
PROPERTY NeverOlder
CHECK_DEADLOCK FALSE
