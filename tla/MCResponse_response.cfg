\* Handlers that ask before they send the header, timeouts, threads that
\* handlers start, and a redirect.
CONSTANTS
  MaxRequests = 2
  MaxHandlers = 2
  MaxWrites = 2
  Careful = TRUE
  RubyTimeOut = TRUE
  StartsThreads = TRUE
  None = None
SPECIFICATION ApartSpec
INVARIANTS
  TypeOK
  HeaderOnce
  InOrder
  HeaderFirst
  NoThreadSurvives
PROPERTIES
  BufferedUntilOK
  OverdueEnds
