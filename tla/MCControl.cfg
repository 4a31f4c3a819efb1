SPECIFICATION Spec
CONSTANTS
  Parts = {"Tags", "Signals", "Class"}
  MaxDepth = 7
  MaxEnsure = 1
  Mixes = {{"meth", "proc"}, {"meth", "cfunc", "ensure"}, {"meth", "while", "args"},
           {"meth", "rescue", "catch"}}
  Name = {"done"}
  NSIG = 4
  SIGINT = 2
  MaxSignals = 2
  MaxNesting = 5
  Cls = {Object, Single, c1}
  Module = {m1}
  Object = Object
  Single = Single
  Mid = {f, g}
  Body = {b1, b2}
  None = None
  MaxDefs = 3
  Uses = {}
INVARIANTS Restored YieldsOwn PendingNoticed CacheCurrent FrameInChain
PROPERTIES JumpsHome CallClimbs
SYMMETRY Alike
CHECK_DEADLOCK FALSE
