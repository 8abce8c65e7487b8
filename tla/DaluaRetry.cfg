SPECIFICATION Spec
CONSTANTS
  MaxRx = 3
  MaxJobs = 2
  MaxChunks = 3
  MaxBlocks = 2
PROPERTY KeepsTrying
