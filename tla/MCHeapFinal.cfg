SPECIFICATION Spec
CONSTANTS
  Slots = 1
  MaxHeaps = 3
  FreeMin = 1
  Root = {"stack", "parser"}
  Null = Null
  Junk = Junk
  Uses = {"compile", "finalizer"}
INVARIANT FreedFlag
