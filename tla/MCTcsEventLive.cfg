CONSTANTS
  t1 = t1
  t2 = t2
  t3 = t3
  c1 = c1
  c2 = c2
  c3 = c3
  Thread = {t1, t2, t3}
  Tcs = {c1, c2, c3}
  NullTcs = NullTcs
  TcsOf <- OwnTcs3
  Event = {e1, e2}
  NoEvent = NoEvent
  MaxPermits = 3
  MaxBatch = 2
SPECIFICATION RoleSpec
CHECK_DEADLOCK FALSE
PROPERTY PermitIsTaken
PROPERTY TimedWaitEnds
