SPECIFICATION Spec
CONSTANTS
  MaxPackets = 1
  NoVal = NoVal
  CodeSpace <- MCCodeSpace
  ArgSpace <- MCArgSpace
  CallArgSpace <- MCCallArgSpace
  TypeCodeSpace <- MCTypeCodeSpace
  RetCodeSpace <- MCRetCodeSpace
  InitLenSpace = {0, 3}
  NDimSpace = {0, 1}
  NumBytesSpace = {0, 64, 4096}
  NumBytesHighSpace = {0}
  DataSizeDelta = {0}
  DevSpace = {"kDLCPU", "kDLCUDA"}
INVARIANTS
  CleanExitOnlyBetweenPackets
