SPECIFICATION Spec
CONSTANTS
  MaxPackets = 2
  NoVal = NoVal
  CodeSpace <- MCReuseCodeSpace
  ArgSpace <- MCReuseArgSpace
  CallArgSpace <- MCCallArgSpace
  TypeCodeSpace <- MCTypeCodeSpace
  RetCodeSpace <- MCRetCodeSpace
  InitLenSpace = {0}
  NDimSpace <- MCNegNDimSpace
  NumBytesSpace = {0, 64}
  NumBytesHighSpace = {0}
  DataSizeDelta = {0}
  DevSpace = {"kDLCPU", "kDLCUDA"}
INVARIANTS
  StagingWithinBuffer
