SPECIFICATION Spec
CONSTANTS
  Main = Main
  Coroutine = {co}
  MaxDepth = 3
  MaxCCalls = 4
  Extra = 2
  Functions = {"lua", "pcall", "xpcall", "call", "dofile", "yield", "resume", "wrap", "error"}
INVARIANTS YieldableUnlessBarrier ContinuationKnown HandlersRestored UpvaluesLive CStackBounded
PROPERTIES Implements
CHECK_DEADLOCK FALSE
