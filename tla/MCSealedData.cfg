CONSTANTS
  MaxU32 = 7
  MaxI32 = 3
  Length = {0, 1, 3, 4, 7, 8, 9}
  Text <- MCText
  AddText <- MCAddText
  Header = 4
  Element = {0, 1, 2}
  BufferLen = {3, 5, 6}
  Lie = {0, 1, 2, 7}
  MaxSeal = 2
  MaxWrite = 2
SPECIFICATION Spec
INVARIANT TypeOK
INVARIANT OpensOnlySealed
INVARIANT CopyInBounds
INVARIANT SealedOpens
INVARIANT LibraryToldTruth
