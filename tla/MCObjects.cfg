SPECIFICATION Spec
CONSTANTS
  Exercised = {"Regexp", "Str", "Array", "Process", "Globals", "Stream"}
  Pattern = {"p", "z"}
  FoldBad = {"z"}
  Kcode = {"NONE", "EUC"}
  MaxRegexp = 2
  Line = {"l"}
  Byte = {"a"}
  Up <- CaseOf
  MaxStr = 4
  MaxBuf = 3
  MaxStrLen = 1
  Element <- Elements
  DEFAULT_SIZE = 2
  Sizes = {0, 2, 12}
  MaxLen = 3
  Thr = {"t1", "t2"}
  Child = {"k1", "k2", "k3"}
  Gvar = {"g", "p"}
  Cvar = {"c"}
  Shown <- ShownAs
  ReadOnly = {}
  Value = {"1"}
  Cmd = {"k1", "k2"}
  MaxTraces = 2
  MaxNest = 2
  Io = {"i1", "i2"}
  Fd = {3, 4, 5, 6}
  Pipe = {"p1", "p2"}
  Pid = {pid1}
  MaxByte = 2
  PipeBuf = 2
INVARIANTS CompiledFor StrIntact SeqAgrees  TraceExact  
CHECK_DEADLOCK FALSE
