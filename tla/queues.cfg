SPECIFICATION FairSpec
CONSTANTS
  Events = 2
  Consumers = {"c1", "c2"}
  Worker = "c1"
  MaxRetries = 2
  Batch = 2
  Capacity = 1
INVARIANTS
  TypeOK
  NothingForgotten
PROPERTIES
  KeepsPromise
  EveryMessageSettled
