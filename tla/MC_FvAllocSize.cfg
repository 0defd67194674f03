\* Extents of a few thousand cells: 1024*2048*2048 = 2^32 and 2048^3 wrap the
\* int32_t allocSize to 0, 1024*1024*2048 wraps it to -2^31.
CONSTANTS
  halo_width = 3
  ExtentSpace = {3, 1024, 2048}
SPECIFICATION Spec
INVARIANT CopiesWithinAllocation
