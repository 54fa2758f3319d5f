SPECIFICATION Spec
CONSTANTS
  None = None
  NoTable = NoTable
  WrongType = WrongType
  NoScript = None
  NotTable = NoTable
  Ill = WrongType
  Root <- MCRoot
  U32s <- MCU32s
  DefaultSkip <- MCDefaultSkip
  DefaultExts <- MCDefaultExts
  PathMax = 12
  FdLimit = 6
  Trees <- ListedTree
  Scripts <- ListedScripts
  Commands <- ListedCommands
INVARIANTS
  WalkAsListed
