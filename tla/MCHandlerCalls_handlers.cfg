\* Two requests whose handlers look up URIs, or one for which handlers and
\* Apache do everything.
CONSTANTS
  r1 = r1
  r2 = r2
  s1 = s1
  s2 = s2
  Initials <- TwoRequests
  Others <- TwoMore
  None = None
  Base = Base
  Scenarios <- LookupsAndAll
  MaxHandlers = 4
SPECIFICATION Spec
INVARIANTS
  TypeOK
  LookupsKeepCurrent
  NothingLeftBehind
  ObjectsGoWithRequest
PROPERTIES
  EnvLeftAsFound
  SameObject
