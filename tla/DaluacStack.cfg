SPECIFICATION Spec
CONSTANTS
  MaxFiles = 4
  BufSize = 6
  InitCap = 2
  BlockSizes = {1, 3}
  MaxBlocks = 3
INVARIANT OnlyMessageLeft
CHECK_DEADLOCK FALSE
