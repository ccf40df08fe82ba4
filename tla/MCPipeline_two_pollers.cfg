SPECIFICATION Spec
CONSTANTS
  Conns = {c1, c2}
  NumIn = 2
  IdleTimeout = 1
  MaxRecycle = 1
  MaxTime = 0
  StreamErrors = FALSE
  Flushes = FALSE
  Prompt = TRUE
SYMMETRY Symmetry
INVARIANTS ExpiredIsNotPolled
