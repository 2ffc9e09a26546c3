\* Every directive, in servers, sections and .htaccess files.
CONSTANTS
  SectionNames <- TwoSections
  Levels = {0, 2}
  Topics <- AllTopics
  MaxLines = 3
  MaxHtaccess = 1
  MaxRequests = 2
  Lasting = {"RubyKanjiCode"}
  OneAccessFileName = TRUE
  TooLong <- LongInVhost
  NULL = NULL
SPECIFICATION HooksSpec
INVARIANTS
  TypeOK
  SafeLevelKept
  PathsInScope
  InnermostSettings
  EnvOfScopes
  InsideOut
  InitOnce
  RestrictedHtaccess
  CleanupOfSections
  GroupsMergeAlike
