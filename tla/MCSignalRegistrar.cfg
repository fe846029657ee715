CONSTANTS
  t1 = t1
  t2 = t2
  s1 = s1
  s2 = s2
  s3 = s3
  Thread = {t1}
  Registrar = {t1}
  Sig = {s1, s2, s3}
  Uncatchable = {s3}
  Eid = {e1, e2}
  NoEid = NoEid
  Free = Free
  SaMask <- OpenMask
  MaxDepth = 3
SPECIFICATION Spec
CHECK_DEADLOCK FALSE
INVARIANT TypeOK
INVARIANT RegistrationUninterrupted
INVARIANT EntryHasOwner
