SPECIFICATION Spec
CONSTANTS
  a = a
  b = b
  Words <- MCWords
  BufSize = 32
  Files <- Texts
  HeapNodes = 20
INVARIANTS
  NoDuplicateModules
