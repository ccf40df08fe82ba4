SPECIFICATION Spec
CONSTANTS
  Threads = {t1, t2}
  Paths = {"a", "b"}
  max_cache_entry = 1
  max_entry_size = 3
  Mtime <- MCMtime
  Size <- MCSize
  Readable <- MCReadable
  Mutable = {"a"}
  Requests <- MCRequests
  Root <- MCRoot
  ErrorPages = {404}
  PageBytes = 3
  Packed <- MCPacked
  allow_index = TRUE
  allow_compression = TRUE
  PoolSize = 2
  EnvSize = 2
  kRecordSize = 2
  kTaskBufferLimit = 4
  Bodies <- MCBodies
  Answers <- MCAnswers
  MaxRequests = 3
INVARIANTS
  StaticTypeOK
  
  MapPointsIntoList
  CacheBounded
  ServedIsFresh
  FcgiTypeOK
  PolledMatchesStatus
  AnswerAsSent
  
PROPERTIES
  StaticAnswers
  
CHECK_DEADLOCK FALSE
