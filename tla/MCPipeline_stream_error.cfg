SPECIFICATION Spec
CONSTANTS
  Conns = {c1, c2}
  NumIn = 1
  IdleTimeout = 1
  MaxRecycle = 1
  MaxTime = 0
  StreamErrors = TRUE
  Flushes = FALSE
  Prompt = TRUE
SYMMETRY Symmetry
INVARIANTS NotForgotten
