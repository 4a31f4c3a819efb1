SPECIFICATION Spec
CONSTANTS
  Exercised = {"Argf", "Marshal", "Glob", "Enum", "ArrayOps"}
  Name <- Files
  Content <- Contents
  Absent = {"e"}
  Stuck = {"h"}
  ArgvMax = 2
  BufLen = 2
  PrintMax = 1
  Graphs <- ObjectGraphs
  Builtin <- Builtins
  Member <- Members
  LongBytes = 4
  Base = 16
  Patterns <- GlobJobs
  Order <- Ascii
  Num = {1, 2}
  MaxItems = 3
  MaxChanges = 1
  Calls <- ArrayCalls
INVARIANTS ArgfInOrder  GlobExact CallsAgree
CHECK_DEADLOCK FALSE
