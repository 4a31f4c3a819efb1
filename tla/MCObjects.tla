------------------------------ MODULE MCObjects ------------------------------
(***************************************************************************)
(* Objects and variables that change while something else still relies on  *)
(* them, for TLC: strings that share a buffer, a Regexp and the settings   *)
(* it was compiled under, an array in the middle of delete_if, a global    *)
(* variable in the middle of its traces, a thread in system() beside       *)
(* others, and IO objects over pipes and descriptors.  A behaviour         *)
(* exercises one of them, and the others stay as they are.                 *)
(***************************************************************************)
EXTENDS Integers, Sequences, FiniteSets, TLC

CONSTANTS
  Exercised,                                                  \* the parts to exercise
  Pattern, FoldBad, Kcode, MaxRegexp, Line,                   \* Regexp
  Byte, Up, MaxStr, MaxBuf, MaxStrLen,                        \* Str
  Element, DEFAULT_SIZE, Sizes, MaxLen,                       \* Array
  Thr, Child,                                                 \* Process
  Gvar, Cvar, Shown, ReadOnly, Value, Cmd, MaxTraces, MaxNest,  \* Globals, and Thr
  Io, Fd, Pipe, Pid, MaxByte, PipeBuf                         \* Stream

VARIABLES
  which,
  ignorecase, reg_kcode, options, regs, reg_cache, backref, raised,
  strs, mem, val,
  ptr, len, frozen, loop, seq, upset,
  kid, thr, stopped, handler, last_status, order, crossed, result,
  entry, cvar, node, freed, stack, wild,
  ios, fdt, pipe, kids, wrote, took, lost, mixed, leak, bad

RX == INSTANCE Regexp
ST == INSTANCE Str
AY == INSTANCE Array WITH Val <- Element
PR == INSTANCE Process
GV == INSTANCE Globals
IO == INSTANCE Stream

rxvars == <<ignorecase, reg_kcode, options, regs, reg_cache, backref, raised>>
stvars == <<strs, mem, val>>
ayvars == <<ptr, len, frozen, loop, seq, upset>>
prvars == <<kid, thr, stopped, handler, last_status, order, crossed, result>>
gvvars == <<entry, cvar, node, freed, stack, wild>>
iovars == <<ios, fdt, pipe, kids, wrote, took, lost, mixed, leak, bad>>

\* No child is nobody, the nesting of traces is bounded, there is room for a string,
\* what upcase! makes of a byte is a byte, and descriptors are positive numbers.
ASSUME ObjectsAssumption ==
  /\ PR!Nobody \notin Child
  /\ MaxNest \in Nat
  /\ MaxStr \in Nat \ {0} /\ MaxBuf \in Nat \ {0}
  /\ Byte \subseteq DOMAIN Up /\ Up \in [DOMAIN Up -> DOMAIN Up] /\ "freed" \notin DOMAIN Up
  /\ Fd \subseteq Nat \ {0} /\ IsFiniteSet(Fd) /\ IsFiniteSet(Pipe)
  /\ IO!NoPid \notin Pid /\ IO!NoPipe \notin Pipe

vars == <<which, rxvars, stvars, ayvars, prvars, gvvars, iovars>>

Idle == "idle"
Init ==
  /\ which \in Exercised
  /\ IF which = "Regexp" THEN RX!Init
     ELSE /\ ignorecase = Idle /\ reg_kcode = Idle /\ options = Idle /\ regs = Idle
          /\ reg_cache = Idle /\ backref = Idle /\ raised = Idle
  /\ IF which = "Str" THEN ST!Init ELSE strs = Idle /\ mem = Idle /\ val = Idle
  /\ IF which = "Array" THEN AY!Init
     ELSE /\ ptr = Idle /\ len = Idle /\ frozen = Idle /\ loop = Idle /\ seq = Idle
          /\ upset = Idle
  /\ IF which = "Process" THEN PR!Init
     ELSE /\ kid = Idle /\ thr = Idle /\ stopped = Idle /\ handler = Idle
          /\ last_status = Idle /\ order = Idle /\ crossed = Idle /\ result = Idle
  /\ IF which = "Globals" THEN GV!Init
     ELSE /\ entry = Idle /\ cvar = Idle /\ node = Idle /\ freed = Idle
          /\ stack = Idle /\ wild = Idle
  /\ IF which = "Stream" THEN IO!Init
     ELSE /\ ios = Idle /\ fdt = Idle /\ pipe = Idle /\ kids = Idle /\ wrote = Idle
          /\ took = Idle /\ lost = Idle /\ mixed = Idle /\ leak = Idle /\ bad = Idle

Next ==
  /\ UNCHANGED which
  /\ \/ which = "Regexp" /\ RX!Next /\ UNCHANGED <<stvars, ayvars, prvars, gvvars, iovars>>
     \/ which = "Str" /\ ST!Next /\ UNCHANGED <<rxvars, ayvars, prvars, gvvars, iovars>>
     \/ which = "Array" /\ AY!Next /\ UNCHANGED <<rxvars, stvars, prvars, gvvars, iovars>>
     \/ which = "Process" /\ PR!Next /\ UNCHANGED <<rxvars, stvars, ayvars, gvvars, iovars>>
     \/ which = "Globals" /\ GV!Next /\ UNCHANGED <<rxvars, stvars, ayvars, prvars, iovars>>
     \/ which = "Stream" /\ IO!Next /\ UNCHANGED <<rxvars, stvars, ayvars, prvars, gvvars>>

Spec == Init /\ [][Next]_vars

-----------------------------------------------------------------------------
\* upcase! and downcase! of one byte
CaseOf == ("a" :> "A") @@ ("A" :> "a")
\* What the elements of arrays are: nil, and numbers to sort.
Elements == {-1, 1, 2}
\* The variable of the interpreter that a global variable shows
ShownAs == "g" :> "c"

-----------------------------------------------------------------------------
\* What must hold of each part, as its module states it.

\* A Regexp is run as compiled for the settings it is used under (re.c, Regexp).
CompiledFor == which = "Regexp" => RX!CompiledFor
\* Strings that share a buffer stay apart, and one of them frees it (string.c, Str).
StrIntact == which = "Str" => ST!StrIntact
\* An array holds the elements its operations say (array.c, Array).
SeqAgrees == which = "Array" => AY!TypeOK /\ AY!SeqAgrees
\* system() answers for the child it started (process.c, Process).
SystemOwn == which = "Process" => PR!SystemOwn
\* An assignment to a global variable runs its traces once, as they were when it was
\* made (variable.c, Globals).
TraceExact == which = "Globals" => GV!TraceExact
\* Bytes written to a pipe are read in order, whatever FILEs, forks and closes do
\* on their way (io.c, Stream).
BytesKept == which = "Stream" => IO!BytesKept
\* An IO object uses descriptors of its own, and closing it frees them (io.c, Stream).
OwnFd == which = "Stream" => IO!OwnFd /\ IO!CloseFrees

=============================================================================
