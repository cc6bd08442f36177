SPECIFICATION FairSpec
CONSTANTS
  t1 = t1
  t2 = t2
  u1 = u1
  Task = {t1, t2}
  Mortal = {t1}
  Sock = {s1}
  User = {u1}
  Home <- MCHome
  Async = {k1}
  NULL = NULL
  MsgMax = 1
INVARIANTS
  TypeOK
  RefsExact
  NoUseAfterFree
  FreedOnce
  ControlDelivered
  NoLostWakeup
PROPERTIES
  NothingAfterClose
  ClosedIsFreed
  DescriptorsAreRefObjects
CHECK_DEADLOCK FALSE
