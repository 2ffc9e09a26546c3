\* A handler that redirects is left without its own request.
CONSTANTS
  r1 = r1
  r2 = r2
  s1 = s1
  s2 = s2
  Initials <- OneRequest
  Others <- OneMore
  None = None
  Base = Base
  Scenarios <- Redirect
  MaxHandlers = 2
SPECIFICATION Spec
INVARIANTS
  CurrentRequest
