SPECIFICATION FairSpec
CONSTANTS
  e1 = e1
  e2 = e2
  e3 = e3
  w1 = w1
  w2 = w2
  Event = {e1, e2, e3}
  Worker = {w1, w2}
  NoEvent = NoEvent
  CreatedAt <- MCCreatedAt
  MaxRetries = 2
  Batch = 2
INVARIANTS
  TypeOK
  OneWorkerPerEvent
PROPERTIES
  OnlyStopsStrand
  EachEventLives
  SettledOrStranded
CHECK_DEADLOCK FALSE
