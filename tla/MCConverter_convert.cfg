SPECIFICATION Spec
CONSTANTS
  V = 3
  Vars <- MCVars
  NumParams = 2
  CalleeParams <- MCCallee
  CalleeRes = "i32"
  Unusual = {}
  RET_REG_NUM = 1
  OFFSET_M_MAX = 2
  REG_FREE_MAX = 126
  REG_TEMP_MAX = 128
  Alphabets <- MCAlphabets
  Fuel = 20
  FuncRes = {"i32", "void"}
CHECK_DEADLOCK FALSE
INVARIANTS
  TypeOK
  RegistersDistinct
  NeverAborts
  CodeClosed
  RegistersInWindow
  SameBehaviour
