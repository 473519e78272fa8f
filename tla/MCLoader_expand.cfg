SPECIFICATION FairSpec
CONSTANTS
  MaxFuncs = 3
  Modules <- MCModules
INVARIANTS
  TypeOK
  IteratorOnInstruction
  LabelsLand
  NextInstruction
  TablesFit
PROPERTY LoadEnds
