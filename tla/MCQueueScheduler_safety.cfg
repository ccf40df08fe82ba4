SPECIFICATION Spec
CONSTANTS
  Conns = {c1, c2}
  Pool = {w1, w2}
  Spare = {a1}
  Clients = {t1, t2}
  NoThread = NoThread
  WriteBack = WriteBack
  Suspended = Suspended
  NoConn = NoConn
SYMMETRY Symmetry
INVARIANTS TypeOK ListMatchesNodes ExclusiveConnection NoLostWakeUp
PROPERTIES ImplementsTaskPool
