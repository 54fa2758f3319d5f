SPECIFICATION MCSpec
CONSTANTS
  Lists <- MCLists
  Confs <- MCConfs
  Garbage = Garbage
INVARIANTS
  TypeOK
  PrintsEveryName
  LayoutAsConfigured
  NumbersAscend
  OneOrder
PROPERTIES
  Finishes
