SPECIFICATION ContainersSpec
CONSTANTS
  a = a
  b = b
  n1 = n1
  n2 = n2
  n3 = n3
  n4 = n4
  Values <- MCLetters
  ChunkSize = 3
  Grow = 2
  Chars <- MCLetters
  Nul = Nul
  Texts <- MCTexts
  Spare = 2
  Extra = 3
  Junk = Junk
  U32 = 14
  NULL = NULL
  Nodes <- MCNodes
  DataSizes <- MCDataSizes
  Block = 4
SYMMETRY MCSymmetry
INVARIANTS
  ArrayTypeOK
  BlockAsBelieved
  OutsideOnlyPastLimit
  StringTypeOK
  StringWhole
  TypeOK
  LinksAgree
  BlocksHold
PROPERTIES
  ImplementsStack
  OutsideOnlyIfHuge
  ImplementsBuffer
  ImplementsRegistry
