SPECIFICATION Spec
CONSTANTS
  Table = {t}  Ephemeron = {e}  Userdata = {u}
  WeakValue = {} AllWeak = {} Closure = {}
  Hashed = {e} Finalized = {t}
  Refs <- NoSelf
  Main = Main  Nil = Nil  Dead = Dead
  SweepMax = 2
INVARIANTS NoDangling TriColour AllWhite
PROPERTY FinalizedWhenGarbage
