SPECIFICATION Spec
CONSTANTS
  WeakValue = {w} AllWeak = {a} Userdata = {}
  Table = {}  Ephemeron = {}  Closure = {}
  Hashed = {a, w} Finalized = {a}
  Refs <- All
  Main = Main  Nil = Nil  Dead = Dead
  SweepMax = 2
PROPERTIES WeakSafe GarbageCollected
