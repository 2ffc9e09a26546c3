\* A handler that redirects is not timed out any more.
CONSTANTS
  MaxRequests = 2
  MaxHandlers = 2
  MaxWrites = 0
  Careful = TRUE
  RubyTimeOut = TRUE
  StartsThreads = TRUE
  None = None
SPECIFICATION FairSpec
PROPERTIES
  TimedOutIsTerminated
