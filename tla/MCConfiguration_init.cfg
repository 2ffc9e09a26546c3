\* Whether the init handlers of sections run.
CONSTANTS
  SectionNames <- TwoSections
  Levels = {0, 2}
  Topics <- InitTopics
  MaxLines = 3
  MaxHtaccess = 0
  MaxRequests = 2
  Lasting = {"RubyKanjiCode"}
  OneAccessFileName = TRUE
  TooLong <- LongInVhost
  NULL = NULL
SPECIFICATION Spec
INVARIANT SectionInitRuns
