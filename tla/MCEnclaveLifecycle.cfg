CONSTANTS
  t1 = t1
  t2 = t2
  Thread = {t1, t2}
  Fn = {f}
  MaxNode = 2
  Id = {1, 2}
  Handle = {h1, h2}
  Defaults = {h2}
  Layouts <- MCLayouts
  AexUser <- MCAexUser
  MaxDepth = 2
SPECIFICATION Spec
INVARIANT TypeOK
INVARIANT OwnedEnclave
INVARIANT GlobalsFollowLife
INVARIANT AexListsSound
INVARIANT TcsCounted
PROPERTY GlobalsGoForward
PROPERTY DropDestroys
CHECK_DEADLOCK FALSE
