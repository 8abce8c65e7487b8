SPECIFICATION Spec
CONSTANTS
  MaxFiles = 4
  BufSize = 6
  InitCap = 2
  BlockSizes = {1, 3}
  MaxBlocks = 3
INVARIANTS TemplateFits ScriptsChained ArrayHoldsDump AllOrNothing
CHECK_DEADLOCK FALSE
