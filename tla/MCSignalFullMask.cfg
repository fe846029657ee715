CONSTANTS
  t1 = t1
  t2 = t2
  s1 = s1
  s2 = s2
  s3 = s3
  Thread = {t1, t2}
  Registrar = {t1, t2}
  Sig = {s1, s2}
  Uncatchable = {}
  Eid = {e1}
  NoEid = NoEid
  Free = Free
  SaMask <- FullMask
  MaxDepth = 2
SPECIFICATION RegisterSpec
CHECK_DEADLOCK FALSE
INVARIANT EntryHasOwner
INVARIANT NoSelfDeadlock
PROPERTY MutexIsReleased
