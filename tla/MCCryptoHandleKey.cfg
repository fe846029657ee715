CONSTANTS
  c1 = c1
  c2 = c2
  c3 = c3
  h1 = h1
  h2 = h2
  Handle = {h1, h2}
  Ctx = {c1, c2, c3}
  Null = Null
  Key = {k1, k2}
  NoKey = NoKey
  Size <- RsaSize
SYMMETRY CtxSymmetry
SPECIFICATION Spec
INVARIANT InitUsesKey
