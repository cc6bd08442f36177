SPECIFICATION FairSpec
CONSTANTS
  Task = {t1}
  Thread = {x1, x2}
  Cpu = {c1, c2}
  Irq = {i1}
  NULL = NULL
  EarlyThreads = FALSE
  ReplaceIntd = FALSE
PROPERTIES
  KilledIsFreed
  NoStarvation
