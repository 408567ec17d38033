\* An event the contract refuses in front of one that is replayed, a broker
\* that forgets ids, and one consumer.
SPECIFICATION FairSpec
CONSTANTS
  Events = {1, 2}
  ProjectOf <- MCProjectOf
  Workers = {w1}
  Poison = {1}
  MaxDeliver = 2
  Replayable = {2}
  MaxReplay = 1
  MaxStored = 2
  None = None
PROPERTY QueuedIsConsumed
CHECK_DEADLOCK FALSE
