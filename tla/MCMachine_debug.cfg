SPECIFICATION Spec
CONSTANTS
  FuncNum = 4
  Externs <- RecExterns
  Table <- RecTable
  EndPc <- RecEnd
  FuncBase <- RecBase
  FuncLast <- RecLast
  LabTab <- RecLab
  Local <- MCLocal
  RegNum <- MCRegNum
  StackSize <- MCStackSize
  DEFAULT_STACK_SIZE = 4
  INITIAL_REG_SIZE = 3
  MaxDepth = 3
  MaxCount = 2
  Interactive = TRUE
INVARIANTS
  FpSync
  WindowsFit
  LocalsProtected
  PcInFunction
  StackRegions
  IInv
PROPERTY CallsRefined
CHECK_DEADLOCK FALSE
