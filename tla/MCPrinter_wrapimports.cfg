SPECIFICATION MCSpec
CONSTANTS
  Lists <- MCLists
  Confs <- MCConfs
  Garbage = Garbage
INVARIANTS
  WrapsOnlyFrom
