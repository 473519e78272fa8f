SPECIFICATION Spec
CONSTANTS
  Group = 5
  Word = 8
  Long = 16
  MemSize = 28
  Insts <- MCInsts
  MaxInsts = 3
  Tails = {63}
  Registers <- MCRegisters
  Rtemp = 2
  MemImage <- MCMemImage
  RegS = 2
  RegL = 4
  RegMax = 3
  ImmS = 2
  ImmM = 4
  Builds = {"default", "memcheck"}
  Unusual = {}
INVARIANTS
  TypeOK
  Agrees
CHECK_DEADLOCK FALSE
