SPECIFICATION EntitySpec
CONSTANTS
  Nodes = {n1, n2, n3, n4, n5}
  NULL = NULL
  DataSizes <- MCDataSizes
  Block = 2
  Names = {a, b}
  Objects = {o1, o2, o3}
  Unused = Unused
  Junk = Junk
  MaxFiles = 2
SYMMETRY Symmetry
INVARIANTS
  EntityTypeOK
  ListWhole
  TextsOwned
  NoTitleLost
PROPERTIES
  ImplementsTables
