SPECIFICATION Spec
CONSTANTS
  Table = {t}  Userdata = {u}
  WeakValue = {} AllWeak = {} Ephemeron = {} Closure = {}
  Hashed = {} Finalized = {t, u}
  Refs = {}
  Main = Main  Nil = Nil  Dead = Dead
  SweepMax = 1
INVARIANT AllWhite
