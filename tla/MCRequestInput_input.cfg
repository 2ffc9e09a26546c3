\* Requests whose handlers read and parse the body.
CONSTANTS
  Bytes <- AnyString
  NoText = NoText
  Boundary <- ABoundary
  FILLUNIT = 12
  HeaderBytes <- Headers
  Disposition <- Dispositions
  Unescaped <- Escapes6
  Lower <- LowerCase
  TableNelts = 3
  EditKeys <- Names
  EditValues <- OneOrTwo
  MaxEdits = 2
  OK = OK
  DECLINED = DECLINED
  HTTP_FORBIDDEN = HTTP_FORBIDDEN
  HTTP_LENGTH_REQUIRED = HTTP_LENGTH_REQUIRED
  HTTP_REQUEST_ENTITY_TOO_LARGE = HTTP_REQUEST_ENTITY_TOO_LARGE
  HTTP_INTERNAL_SERVER_ERROR = HTTP_INTERNAL_SERVER_ERROR
  HUGE_STRING_LEN = 16
  Sizes <- SomeSizes
  MaxReads = 3
SPECIFICATION MCSpec
INVARIANTS
  TypeOK
  FormComplete
  UploadsComplete
  QueryTellsApart
  NeverWaits
  BufferInBounds
  ReadsAreBody
  CookiesComeBack
  EachSeesEveryName
