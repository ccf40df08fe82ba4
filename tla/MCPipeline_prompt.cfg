SPECIFICATION Spec
CONSTANTS
  Conns = {c1, c2}
  NumIn = 1
  IdleTimeout = 1
  MaxRecycle = 1
  MaxTime = 2
  StreamErrors = FALSE
  Flushes = FALSE
  Prompt = TRUE
SYMMETRY Symmetry
INVARIANTS TypeOK  ExpiredOnce ExpiredIsNotPolled TimerMatchesPoller WriteBackIsExclusive NotForgotten 
