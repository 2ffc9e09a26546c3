\* A handler that makes mod_ruby call the interpreter again.
CONSTANTS
  w1 = w1
  w2 = w2
  w3 = w3
  Workers <- TwoWorkers
  Main = Main
  Ruby = Ruby
  None = None
  MaxCalls = 1
  JoinsWorkers = TRUE
  NestedCalls = TRUE
  MayFail = FALSE
SPECIFICATION FairSpec
PROPERTIES
  EveryCallAnswered
CHECK_DEADLOCK FALSE
