SPECIFICATION Spec
CONSTANTS
  a = a
  b = b
  Words <- MCWords
  BufSize = 8
  Files <- TextFiles
  HeapNodes = 5
INVARIANTS
  TypeOK
  ViewBeforeNewline
  OverrunOnlySkippedSpaces
PROPERTIES
  Terminates
