SPECIFICATION Spec
CONSTANTS
  halo_width = 1
  domain_height = 2
  ElemBytes = 8
  ExtentSpace = {3, 4, 5}
  DomainSpace = {1, 2, 3}
  HeightSpace = {1, 2}
INVARIANTS
  StorageLayoutSound
