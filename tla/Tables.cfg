SPECIFICATION Spec
CONSTANTS
  Keys <- MCKeys
  nil <- MCnil
  MAXABITS = 2
  MAXINTEGER = 7
INVARIANTS WellFormed NextKnowsKey LengthIsBorder
PROPERTIES Implements
