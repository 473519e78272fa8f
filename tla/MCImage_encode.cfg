SPECIFICATION Spec
CONSTANTS
  Names <- MCNames
  GlobalNames <- MCGlobals
  Main <- MCMain
  SysNames <- MCSys
  Decls <- MCDecls
  Objects <- MCObjects
  LabelNames <- MCLabels
  Inits = {5, 6}
  DataSizes = {9}
  DataHeader = 16
  Word = 8
  Builds = {"debug", "release"}
  MaxImports = 2
  MaxGlobals = 2
  MaxFuncs = 2
  MaxLabels = 2
  MaxInsts = 1
  MaxLinks = 1
  MaxModules = 1
  Unusual = {}
INVARIANTS
  TypeOK
  TabsFind
  IndicesAgree
  LoadedAgrees
  CallsResolve
CHECK_DEADLOCK FALSE
