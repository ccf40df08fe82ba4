SPECIFICATION FairSpec
CONSTANTS
  Conns = {c1}
  NumIn = 1
  IdleTimeout = 1
  MaxRecycle = 1
  MaxTime = 2
  StreamErrors = FALSE
  Flushes = FALSE
  Prompt = TRUE
PROPERTIES ExpiredIsDisposed IdleReaderIsClosed
