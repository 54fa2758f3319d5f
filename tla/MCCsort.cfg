SPECIFICATION MCSpec
CONSTANTS
  None = None
  NoTable = NoTable
  WrongType = WrongType
  NoScript = None
  NotTable = NoTable
  Ill = WrongType
  Root <- MCRoot
  U32s <- MCU32s
  DefaultSkip <- MCDefaultSkip
  DefaultExts <- MCDefaultExts
  PathMax = 12
  FdLimit = 4
  Trees <- MCTrees
  Scripts <- MCScripts
  Commands <- MCCommands
INVARIANTS
  TypeOK
  VisitsExactly
  DescriptorsSuffice
  OptionsAsGiven
  ListedIsFound
  LuaReleased
