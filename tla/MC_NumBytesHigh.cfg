SPECIFICATION Spec
CONSTANTS
  MaxPackets = 2
  NoVal = NoVal
  CodeSpace <- MCReuseCodeSpace
  ArgSpace <- MCReuseArgSpace
  CallArgSpace <- MCCallArgSpace
  TypeCodeSpace <- MCTypeCodeSpace
  RetCodeSpace <- MCRetCodeSpace
  InitLenSpace = {0}
  NDimSpace = {1}
  NumBytesSpace = {0, 64}
  NumBytesHighSpace = {0, 1}
  DataSizeDelta = {0}
  DevSpace = {"kDLCPU", "kDLCUDA"}
INVARIANTS
  StagingWithinBuffer
