----------------------------- MODULE MCControl ------------------------------
(***************************************************************************)
(* How control moves in the interpreter, for TLC: jumps in the evaluator,  *)
(* signals with their handlers, and calls of methods that are looked up.   *)
(* A behaviour exercises one of them, and the others stay in their initial *)
(* states.                                                                 *)
(***************************************************************************)
EXTENDS Naturals, TLC

CONSTANTS
  Parts,                                \* those to exercise
  MaxDepth, MaxEnsure, Mixes, Name,     \* Tags
  NSIG, SIGINT, MaxSignals, MaxNesting, \* Signals
  Cls, Module, Object, Single, Mid, Body, None, MaxDefs, Uses  \* Class

VARIABLES
  which,
  kinds, t_stack, reg, jump, proc, stray,
  action, trap_list, trap_pending_list, trap_pending, trap_immediate,
  prohibit_interrupt, stack, state, arrived, late,
  super, incl, m_tbl, klass, cache, call, frame, adding, defs, unflushed

\* All methods of a name share a slot of the cache: every collision happens.
Slot(cell, id) == id

\* Class and its properties treat all bodies and all method ids alike.
Alike == Permutations(Body) \cup Permutations(Mid)

\* 0 is EXIT and no signal, and a program is at least one frame and one activation.
ASSUME ControlAssumption ==
  MaxDepth \in Nat \ {0} /\ NSIG \in Nat /\ SIGINT \in 1 .. NSIG - 1 /\ MaxSignals \in Nat /\ MaxNesting \in Nat \ {0}

\* Object is a class, no singleton class, and no class is a module; None is neither,
\* nor a cell of a chain, and a body is no NODE_ZSUPER.
ASSUME ClassAssumption ==
  /\ Object \in Cls /\ Single \in Cls \ {Object} /\ Cls \cap Module = {}
  /\ None \notin Cls \cup Module /\ None \notin (Cls \cup Module) \X Nat
  /\ "zsuper" \notin Body /\ MaxDefs \in Nat

T == INSTANCE Tags WITH stack <- t_stack
S == INSTANCE Signals WITH MaxDepth <- MaxNesting
C == INSTANCE Class WITH EXPR1 <- Slot

tvars == <<kinds, t_stack, reg, jump, proc, stray>>
svars == <<action, trap_list, trap_pending_list, trap_pending, trap_immediate,
           prohibit_interrupt, stack, state, arrived, late>>
cvars == <<super, incl, m_tbl, klass, cache, call, frame, adding, defs, unflushed>>
vars == <<which, tvars, svars, cvars>>

Init ==
  /\ which \in Parts
  /\ T!Init /\ S!Init /\ C!Init
  /\ which # "Tags" => kinds = CHOOSE k \in Mixes : TRUE

Next ==
  /\ UNCHANGED which
  /\ \/ which = "Tags" /\ T!Next /\ UNCHANGED <<svars, cvars>>
     \/ which = "Signals" /\ S!Next /\ UNCHANGED <<tvars, cvars>>
     \/ which = "Class" /\ C!Next /\ UNCHANGED <<tvars, svars>>

Spec == Init /\ [][Next]_vars

-----------------------------------------------------------------------------
\* What must hold of the parts, as their modules state it; a property puts together
\* what belongs together.

\* Leaving a tag restores what was current at its setjmp() (eval.c).
Restored       == which = "Tags" => T!TypeOK /\ T!Restored
YieldsOwn      == which = "Tags" => T!YieldsOwn
JumpsHome      == T!JumpsHome
\* A signal that came is noticed, and a trap runs at once only inside a call that
\* may block (signal.c).
PendingNoticed == which = "Signals" => S!TypeOK /\ S!PendingNoticed /\ S!ImmediateInCall
CacheCurrent   == which = "Class" => C!CacheCurrent
\* The class a frame names lies on the chain of its receiver (eval.c, class.c).
FrameInChain   == which = "Class" => C!TypeOK /\ C!FrameInChain
CallClimbs     == C!CallClimbs

=============================================================================
