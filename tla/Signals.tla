------------------------------ MODULE Signals -------------------------------
(***************************************************************************)
(* Signals and trap handlers: signal.c, sig.h, rb_trap_eval() and the      *)
(* deferral of interrupts in hash.c, for a program of one thread.          *)
(*                                                                         *)
(* A signal arrives at any moment.  In a blocking call (TRAP_BEG) its      *)
(* handler runs at once; elsewhere it is counted as pending, and           *)
(* rb_trap_exec() runs the handlers at the next CHECK_INTS.  Handlers are  *)
(* Ruby code: they make blocking calls, meet CHECK_INTS and raise.         *)
(***************************************************************************)
EXTENDS Naturals, Sequences

CONSTANTS
  NSIG,        \* signals are 0..NSIG-1; 0 is EXIT and never arrives
  SIGINT,
  MaxSignals,  \* bound on the signals that arrive
  MaxDepth     \* bound on the frames of the stack, and on prohibit_interrupt

VARIABLES
  action,             \* what sigaction() installed
  trap_list,          \* the command of a trap, "0" for none
  trap_pending_list, trap_pending, trap_immediate, prohibit_interrupt,
  stack,              \* see Frame; the last one runs
  state,              \* "runs", "exits", "bug"
  arrived,
  late                \* signals that arrived behind a scan of rb_trap_exec()

vars == <<action, trap_list, trap_pending_list, trap_pending, trap_immediate,
          prohibit_interrupt, stack, state, arrived, late>>

Sig == 0..(NSIG - 1)

\* A frame is Ruby code (the program, a trap handler, or the eql? and hash of
\* a key, with interrupts deferred) or a scan of rb_trap_exec().  i is the
\* signal of a scan, blocked says that Ruby code is in a blocking call, and
\* immediate that sighandle() itself called the handler.
Frame == [kind : {"ruby", "trap", "hash", "scan"}, i : 0..NSIG,
          blocked : BOOLEAN, immediate : BOOLEAN]

RubyFrame(kind, immediate) ==
  [kind |-> kind, i |-> 0, blocked |-> FALSE, immediate |-> immediate]
Scan(i) == [kind |-> "scan", i |-> i, blocked |-> FALSE, immediate |-> FALSE]

top == stack[Len(stack)]
Below == SubSeq(stack, 1, Len(stack) - 1)
Push(f) == Len(stack) < MaxDepth /\ stack' = Append(stack, f)
SetTop(f) == stack' = [stack EXCEPT ![Len(stack)] = f]

Runs == state = "runs"
Ruby == Runs /\ top.kind # "scan" /\ ~top.blocked

pendings == <<trap_pending_list, trap_pending, late>>

-----------------------------------------------------------------------------
\* An exception unwinds to Ruby code that rescues it, any of the frames below.
\* hash.c has no ensure for its ENABLE_INTS: prohibit_interrupt stays.
Unwind ==
  \E n \in 1..(Len(stack) - 1) :
    /\ stack[n].kind # "scan"
    /\ stack' = [SubSeq(stack, 1, n) EXCEPT ![n].blocked = FALSE]

\* The Interrupt of an untrapped SIGINT, rescued where the program stands or
\* further out.  rb_interrupt() is called from sighandle() or from the scan.
Interrupt ==
  \/ stack' = [stack EXCEPT ![Len(stack)].blocked = FALSE] /\ top.kind # "scan"
  \/ Unwind

-----------------------------------------------------------------------------
\* sighandle(), by what it finds.

Handled(s) == Runs /\ arrived < MaxSignals /\ arrived' = arrived + 1 /\ action[s] = "sighandle"

Traps(s) == s = SIGINT \/ trap_list[s] # "0"

BadSignal(s) ==
  /\ Handled(s)
  /\ ~Traps(s)
  /\ state' = "bug"
  /\ UNCHANGED <<action, trap_list, pendings, trap_immediate, prohibit_interrupt, stack>>

SignalPending(s) ==
  /\ Handled(s) /\ Traps(s)
  /\ ~trap_immediate
  /\ trap_pending' = trap_pending + 1
  /\ trap_pending_list' = [trap_pending_list EXCEPT ![s] = @ + 1]
  /\ late' = late \cup {x \in {s} : \E n \in 1..Len(stack) :
                                      stack[n].kind = "scan" /\ stack[n].i > s}
  /\ UNCHANGED <<action, trap_list, trap_immediate, prohibit_interrupt, stack, state>>

SignalImmediate(s) ==
  /\ Handled(s) /\ Traps(s)
  /\ trap_immediate
  /\ trap_immediate' = FALSE
  /\ IF s = SIGINT /\ trap_list[SIGINT] = "0" THEN Interrupt ELSE Push(RubyFrame("trap", TRUE))
  /\ UNCHANGED <<action, trap_list, pendings, prohibit_interrupt, state>>

\* The default action ends the process; sigexit() calls rb_exit().
SignalExits(s) ==
  /\ Runs /\ arrived < MaxSignals
  /\ arrived' = arrived + 1
  /\ action[s] \in {"SIG_DFL", "sigexit"}
  /\ state' = "exits"
  /\ UNCHANGED <<action, trap_list, pendings, trap_immediate, prohibit_interrupt, stack>>

-----------------------------------------------------------------------------
\* rb_trap_exec(), called by CHECK_INTS.

CHECK_INTS ==
  /\ Ruby
  /\ prohibit_interrupt = 0 /\ trap_pending > 0
  /\ Push(Scan(0))
  /\ UNCHANGED <<action, trap_list, pendings, trap_immediate, prohibit_interrupt, state, arrived>>

InScan == Runs /\ top.kind = "scan"

ScanSkips ==
  /\ InScan /\ top.i < NSIG
  /\ trap_pending_list[top.i] = 0
  /\ SetTop(Scan(top.i + 1))
  /\ UNCHANGED <<action, trap_list, pendings, trap_immediate, prohibit_interrupt, state, arrived>>

\* Mutant: the count is cleared when an untrapped SIGINT ends the scan early.
ScanTraps_clear ==
  /\ InScan /\ top.i < NSIG
  /\ trap_pending_list[top.i] > 0
  /\ trap_pending_list' = [trap_pending_list EXCEPT ![top.i] = 0]
  /\ late' = late \ {top.i}
  /\ IF top.i = SIGINT /\ trap_list[SIGINT] = "0"
     THEN (stack' = Below \/ Unwind) /\ trap_pending' = 0
     ELSE /\ Len(stack) < MaxDepth
          /\ stack' = Append(Append(Below, Scan(top.i + 1)), RubyFrame("trap", FALSE))
          /\ UNCHANGED trap_pending
  /\ UNCHANGED <<action, trap_list, trap_immediate, prohibit_interrupt, state, arrived>>

ScanTraps ==
  /\ InScan /\ top.i < NSIG
  /\ trap_pending_list[top.i] > 0
  /\ trap_pending_list' = [trap_pending_list EXCEPT ![top.i] = 0]
  /\ late' = late \ {top.i}
  /\ IF top.i = SIGINT /\ trap_list[SIGINT] = "0"
     THEN \/ stack' = Below
          \/ Unwind
     ELSE Len(stack) < MaxDepth /\ stack' = Append(Append(Below, Scan(top.i + 1)),
                                                   RubyFrame("trap", FALSE))
  /\ UNCHANGED <<action, trap_list, trap_pending, trap_immediate, prohibit_interrupt, state, arrived>>

ScanEnds ==
  /\ InScan /\ top.i = NSIG
  /\ trap_pending' = 0
  /\ stack' = Below
  /\ UNCHANGED <<action, trap_list, trap_pending_list, late, trap_immediate,
                 prohibit_interrupt, state, arrived>>

-----------------------------------------------------------------------------
\* rb_trap_eval(): the handler ends, or leaves by an exception.

TrapReturns ==
  /\ Ruby /\ top.kind = "trap"
  /\ trap_immediate' = (trap_immediate \/ top.immediate)
  /\ stack' = Below
  /\ UNCHANGED <<action, trap_list, pendings, prohibit_interrupt, state, arrived>>

\* Mutant: the blocking call goes on as if it were still interruptible.
TrapRaises_immediate ==
  /\ Ruby /\ top.kind = "trap"
  /\ Unwind
  /\ trap_immediate' = top.immediate
  /\ UNCHANGED <<action, trap_list, pendings, prohibit_interrupt, state, arrived>>

TrapRaises ==
  /\ Ruby /\ top.kind = "trap"
  /\ Unwind
  /\ trap_immediate' = FALSE
  /\ UNCHANGED <<action, trap_list, pendings, prohibit_interrupt, state, arrived>>

-----------------------------------------------------------------------------
\* What Ruby code does that matters here.

TRAP_BEG ==
  /\ Ruby
  /\ SetTop([top EXCEPT !.blocked = TRUE])
  /\ trap_immediate' = TRUE
  /\ UNCHANGED <<action, trap_list, pendings, prohibit_interrupt, state, arrived>>

TRAP_END ==
  /\ Runs /\ top.blocked
  /\ SetTop([top EXCEPT !.blocked = FALSE])
  /\ trap_immediate' = FALSE
  /\ UNCHANGED <<action, trap_list, pendings, prohibit_interrupt, state, arrived>>

\* A hash key's eql? or hash method, with interrupts deferred around it.
DEFER_INTS ==
  /\ Ruby
  /\ prohibit_interrupt < MaxDepth
  /\ Push(RubyFrame("hash", FALSE))
  /\ prohibit_interrupt' = prohibit_interrupt + 1
  /\ UNCHANGED <<action, trap_list, pendings, trap_immediate, state, arrived>>

ENABLE_INTS ==
  /\ Ruby /\ top.kind = "hash"
  /\ stack' = Below
  /\ prohibit_interrupt' = prohibit_interrupt - 1
  /\ UNCHANGED <<action, trap_list, pendings, trap_immediate, state, arrived>>

\* trap(s, cmd), signals blocked meanwhile: nil, "" and IGNORE, DEFAULT, EXIT,
\* FALSE (the value 0), or a command.
f_trap(s, cmd) ==
  /\ Ruby
  /\ trap_list' = [trap_list EXCEPT ![s] = IF cmd \in {"IGNORE", "DEFAULT", "FALSE"} THEN "0" ELSE cmd]
  /\ action' = [action EXCEPT ![s] =
       CASE cmd = "IGNORE" -> "SIG_IGN"
         [] cmd = "EXIT" -> "sigexit"
         [] cmd = "DEFAULT" /\ s # SIGINT -> "SIG_DFL"
         [] OTHER -> "sighandle"]
  /\ UNCHANGED <<pendings, trap_immediate, prohibit_interrupt, stack, state, arrived>>

-----------------------------------------------------------------------------
Init ==
  /\ action = [s \in Sig |-> IF s = SIGINT THEN "sighandle" ELSE "SIG_DFL"]
  /\ trap_list = [s \in Sig |-> "0"]
  /\ trap_pending_list = [s \in Sig |-> 0]
  /\ trap_pending = 0 /\ trap_immediate = FALSE /\ prohibit_interrupt = 0
  /\ stack = <<RubyFrame("ruby", FALSE)>>
  /\ state = "runs" /\ arrived = 0 /\ late = {}

Arrives(s) == BadSignal(s) \/ SignalPending(s) \/ SignalImmediate(s) \/ SignalExits(s)

Next ==
  \/ \E s \in Sig \ {0} : Arrives(s)
  \/ CHECK_INTS
  \/ ScanSkips \/ ScanTraps \/ ScanEnds
  \/ TrapReturns \/ TrapRaises
  \/ TRAP_BEG \/ TRAP_END
  \/ DEFER_INTS \/ ENABLE_INTS
  \/ \E s \in Sig \ {0}, cmd \in {"IGNORE", "DEFAULT", "EXIT", "FALSE", "proc"} : f_trap(s, cmd)

Spec == Init /\ [][Next]_vars

-----------------------------------------------------------------------------
\* Every variable keeps its type.
TypeOK ==
  /\ action \in [Sig -> {"SIG_DFL", "SIG_IGN", "sighandle", "sigexit"}]
  /\ trap_list \in [Sig -> {"0", "EXIT", "proc"}]
  /\ trap_pending_list \in [Sig -> 0..MaxSignals] /\ trap_pending \in 0..MaxSignals
  /\ trap_immediate \in BOOLEAN /\ prohibit_interrupt \in 0..MaxDepth
  /\ stack \in Seq(Frame) /\ Len(stack) \in 1..MaxDepth
  /\ state \in {"runs", "exits", "bug"} /\ late \subseteq Sig

\* A signal that waits is seen by the next CHECK_INTS, whatever scans were
\* left early or nested in each other; one that arrived behind a scan stays on the
\* list for the next one.
PendingNoticed ==
  /\ \A s \in Sig \ late :
       trap_pending_list[s] > 0 =>
         trap_pending > 0 \/ \E n \in 1..Len(stack) : stack[n].kind = "scan" /\ stack[n].i <= s
  /\ \A s \in late : trap_pending_list[s] > 0

\* Handlers run at once only while the running code is in a blocking call:
\* no exception or handler leaves trap_immediate behind.
ImmediateInCall == (Runs /\ trap_immediate) => top.blocked

\* sighandle() is installed for no signal that has no command, SIGINT apart:
\* Bug("trap_handler: Bad signal") is for what cannot happen.
SignalKnown == state # "bug"

=============================================================================
