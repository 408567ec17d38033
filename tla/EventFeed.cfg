\* Two events of a project, two consumers that may hold the same message.
SPECIFICATION Spec
CONSTANTS
  Events = {1, 2}
  ProjectOf <- MCProjectOf
  Workers = {w1, w2}
  Poison = {}
  MaxDeliver = 2
  Replayable = {1}
  MaxReplay = 1
  MaxStored = 0
  None = None
SYMMETRY WorkerSymmetry
INVARIANTS TypeOK NothingLost ProjectOrder CursorComplete
CHECK_DEADLOCK FALSE
