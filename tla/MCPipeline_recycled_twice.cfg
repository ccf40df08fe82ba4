SPECIFICATION Spec
CONSTANTS
  Conns = {c1, c2}
  NumIn = 1
  IdleTimeout = 1
  MaxRecycle = 1
  MaxTime = 2
  StreamErrors = FALSE
  Flushes = FALSE
  Prompt = FALSE
SYMMETRY Symmetry
INVARIANTS ExpiredOnce
