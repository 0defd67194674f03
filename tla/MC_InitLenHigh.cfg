\* kInitServer requests whose len is below 2^31 or has 2^32 added.
SPECIFICATION Spec
CONSTANTS
  MaxPackets = 2
  NoVal = NoVal
  CodeSpace <- MCInitCodeSpace
  ArgSpace <- MCReuseArgSpace
  CallArgSpace <- MCCallArgSpace
  TypeCodeSpace <- MCTypeCodeSpace
  RetCodeSpace <- MCRetCodeSpace
  InitLenSpace = {0, 3}
  NDimSpace = {1}
  NumBytesSpace = {0}
  NumBytesHighSpace = {0, 1}
  DataSizeDelta = {0}
  DevSpace = {"kDLCPU"}
INVARIANTS
  StagingWithinBuffer
