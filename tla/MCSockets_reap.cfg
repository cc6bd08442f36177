SPECIFICATION FairSpec
CONSTANTS
  t1 = t1
  t2 = t2
  u1 = u1
  Task = {t1, t2}
  Mortal = {t2}
  Sock = {s1}
  User = {u1, u2}
  Home <- MCHome
  Async = {}
  NULL = NULL
  MsgMax = 1
PROPERTY ReapingEnds
CHECK_DEADLOCK FALSE
