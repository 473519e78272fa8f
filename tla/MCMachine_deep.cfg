SPECIFICATION Spec
CONSTANTS
  FuncNum = 4
  Externs <- RecExterns
  Table <- RecTable
  EndPc <- RecEnd
  FuncBase <- RecBase
  FuncLast <- RecLast
  LabTab <- RecLab
  Local <- MCLocal
  RegNum <- MCRegNum
  StackSize <- MCStackSize
  DEFAULT_STACK_SIZE = 2
  INITIAL_REG_SIZE = 3
  MaxDepth = 5
  MaxCount = 0
  Interactive = FALSE
INVARIANT SavedContextsKept
CHECK_DEADLOCK FALSE
