SPECIFICATION Spec
CONSTANTS
  Conns = {c1}
  NumIn = 2
  IdleTimeout = 1
  MaxRecycle = 1
  MaxTime = 0
  StreamErrors = TRUE
  Flushes = TRUE
  Prompt = FALSE
INVARIANTS ExpiredOnce  WriteBackIsExclusive
