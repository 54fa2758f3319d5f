SPECIFICATION SourceSpec
CONSTANTS
  a = a
  b = b
  c = c
  Words <- SourceWords
  BufSize = 32
  Files <- MCFiles
  HeapNodes = 20
  Programs <- MCPrograms
INVARIANTS
  NothingTwice
  NothingEmpty
  LinesInOrder
  PanicNamesItsLine
  NothingLostOrInvented
  StartLineKnown
PROPERTIES
  ImplementsTable
