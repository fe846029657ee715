CONSTANTS
  b1 = b1
  b2 = b2
  Box = {b1, b2}
  NoBox = NoBox
  Lost = Lost
  Type <- SmallTypes
  Align = {1, 8, 16, 128}
  Request <- SmallRequests
  Addr <- Heap
  MaxReqs = 2
  MaxLeaked = 4
SYMMETRY BoxSymmetry
SPECIFICATION Spec
CHECK_DEADLOCK FALSE
INVARIANT SecretsPlaced
INVARIANT PadIsLeast
INVARIANT PointerAligned
INVARIANT BoxesIndependent
INVARIANT HeapIsOwned
PROPERTY ImplementsBlocks
