CONSTANTS
  t1 = t1
  t2 = t2
  t3 = t3
  c1 = c1
  c2 = c2
  c3 = c3
  Thread = {t1, t2}
  Tcs = {c1, c2}
  NullTcs = NullTcs
  TcsOf <- OwnTcs2
  Event = {e1, e2, e3}
  NoEvent = NoEvent
  MaxPermits = 1
  MaxBatch = 2
SYMMETRY EventSymmetry
SPECIFICATION Spec
CHECK_DEADLOCK FALSE
INVARIANT OneEventPerTcs
INVARIANT EventIsCurrent
INVARIANT NoLostWakeup
INVARIANT DebtHasDebtor
PROPERTY ImplementsPermits
