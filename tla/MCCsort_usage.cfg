SPECIFICATION Spec
CONSTANTS
  None = None
  NoTable = NoTable
  WrongType = WrongType
  NoScript = None
  NotTable = NoTable
  Ill = WrongType
  Root <- MCRoot
  U32s <- MCU32s
  DefaultSkip <- MCDefaultSkip
  DefaultExts <- MCDefaultExts
  PathMax = 12
  FdLimit = 5
  Trees <- FileTree
  Scripts <- UsageScripts
  Commands <- UsageCommands
INVARIANTS
  OptionsAsDocumented
