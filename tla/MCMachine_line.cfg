SPECIFICATION FairSpec
CONSTANTS
  FuncNum = 4
  Externs <- LineExterns
  Table <- LineTable
  EndPc <- LineEnd
  FuncBase <- LineBase
  FuncLast <- LineLast
  LabTab <- LineLab
  Local <- MCLocal
  RegNum <- MCRegNum
  StackSize <- MCStackSize
  DEFAULT_STACK_SIZE = 4
  INITIAL_REG_SIZE = 3
  MaxDepth = 3
  MaxCount = 0
  Interactive = FALSE
INVARIANTS
  TypeOK
  NoLeak
PROPERTY RunEnds
