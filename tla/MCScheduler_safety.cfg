SPECIFICATION Spec
CONSTANTS
  Task = {t1, t2}
  Thread = {x1, x2}
  Cpu = {c1, c2, c3}
  Irq = {i1}
  NULL = NULL
  EarlyThreads = FALSE
  ReplaceIntd = FALSE
SYMMETRY Symmetry
INVARIANTS
  RefCountExact
  NoUseAfterFree
  OnePlace
  ReapedAlone
  NoLostIrq
  IInv
PROPERTY TasksAreRefObjects
