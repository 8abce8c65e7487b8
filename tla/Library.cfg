SPECIFICATION LibrarySpec
CONSTANTS
  MAXINDEXRK = 2
  MAXARG_Bx = 5
  LFIELDS_PER_FLUSH = 2
  Contents <- SomeContents
  Long = {"long"}
  MEMERRMSG = "memerr"
  luaS_hash <- SomeHash
  Address = {1, 2}
  MINSTRTABSIZE = {1, 8}
  MAXSTRTABSIZE = 8
  STRCACHE_M = 2
INVARIANTS Interned HeldIsAlive
PROPERTIES ProgramsRight PatternsRight BytesRight ListsRight NumbersRight SourcesRight StacksRight OptionsRight
CHECK_DEADLOCK FALSE
