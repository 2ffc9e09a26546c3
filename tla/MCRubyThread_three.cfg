\* Three workers, which may still be calling when the child stops.
CONSTANTS
  w1 = w1
  w2 = w2
  w3 = w3
  Workers <- ThreeWorkers
  Main = Main
  Ruby = Ruby
  None = None
  MaxCalls = 1
  JoinsWorkers = FALSE
  NestedCalls = TRUE
  MayFail = TRUE
SPECIFICATION Spec
INVARIANTS
  QueueIsLive
  RunsOnlyWhileUp
SYMMETRY Symmetry
CHECK_DEADLOCK FALSE
