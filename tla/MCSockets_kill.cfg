SPECIFICATION Spec
CONSTANTS
  t1 = t1
  t2 = t2
  u1 = u1
  Task = {t1, t2}
  Mortal = {t2}
  Sock = {s1}
  User = {u1, u2}
  Home <- MCHome
  Async = {k1}
  NULL = NULL
  MsgMax = 1
INVARIANT
  TaskOutlivesSockets
CHECK_DEADLOCK FALSE
