\* Two workers: the queue of two is long enough, every call is answered.
CONSTANTS
  w1 = w1
  w2 = w2
  w3 = w3
  Workers <- TwoWorkers
  Main = Main
  Ruby = Ruby
  None = None
  MaxCalls = 2
  JoinsWorkers = TRUE
  NestedCalls = FALSE
  MayFail = TRUE
SPECIFICATION FairSpec
INVARIANTS
  TypeOK
  NothingLost
  CallsWithinLifetime
PROPERTIES
  ServiceSpec
  EveryCallAnswered
  ShutdownCompletes
