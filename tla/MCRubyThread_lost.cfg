\* Three workers: the third request linked in drops the second.
CONSTANTS
  w1 = w1
  w2 = w2
  w3 = w3
  Workers <- ThreeWorkers
  Main = Main
  Ruby = Ruby
  None = None
  MaxCalls = 1
  JoinsWorkers = TRUE
  NestedCalls = FALSE
  MayFail = FALSE
SPECIFICATION FairSpec
PROPERTIES
  EveryCallAnswered
