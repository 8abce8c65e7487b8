SPECIFICATION Spec
CONSTANTS
  BufSize = 3
  MaxBytes = 5
INVARIANTS WindowOfStream WholeLines StatusIsALine
PROPERTY StatusDelivered
