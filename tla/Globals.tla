------------------------------- MODULE Globals -------------------------------
(***************************************************************************)
(* Global variables and trace_var (variable.c): the entries of global_tbl, *)
(* with their accessors, and the linked list of commands each calls when   *)
(* it is assigned to.  A command is evaluated in the middle of the walk    *)
(* over that list; threads switch there, and the command may itself        *)
(* assign, trace, untrace or raise.                                        *)
(***************************************************************************)
EXTENDS Integers, Sequences, SequencesExt, FiniteSetsExt

CONSTANTS
  Thr,        \* threads
  Gvar,       \* names of global variables
  Cvar,       \* variables of the interpreter that a global variable can show
  Shown,      \* function: the global variables rb_define_variable() set up
  ReadOnly,   \* those of rb_define_readonly_variable()
  Value, Cmd,
  MaxTraces,  \* bound on the traces ever set
  MaxNest     \* bound on assignments inside commands inside assignments

VARIABLES
  entry,     \* variable -> [acc, data, block_trace, trace]
  cvar,      \* what the interpreter's variables hold
  node,      \* struct trace_var: [data, next] by number; next 0 is the end
  freed,     \* the nodes that are freed
  stack,     \* thread -> its walks under way, the innermost last
  wild       \* a freed node was read: nothing can be said from here on

gvars == <<entry, cvar, node, freed, stack, wild>>

nil == "nil"
New(acc, data) == [acc |-> acc, data |-> data, block_trace |-> FALSE, trace |-> 0]

\* A thread runs code outside any walk or inside a command of its innermost one.
Top(t) == Last(stack[t])
InCommand(t) == stack[t] # <<>> /\ Top(t).inside
Free(t) == ~wild /\ (stack[t] = <<>> \/ InCommand(t))
Within(t, w) == stack' = [stack EXCEPT ![t] = Append(Front(@), w)]
Pops(t) == stack' = [stack EXCEPT ![t] = Front(@)]

\* The nodes from n on: the least set that holds n and follows the links.  A node
\* is put in front of its list, so that the numbers fall along it.
Chain(n) ==
  {x \in DOMAIN node : \A s \in SUBSET DOMAIN node :
     n \in s \cup {0} /\ (\A y \in s : node[y].next \in s \cup {0}) => x \in s}
Traces(v) == Chain(entry[v].trace)

-----------------------------------------------------------------------------
(* Accessors                                                               *)

undef_getter == nil
val_getter(data) == data
var_getter(data) == cvar[data]
rb_gvar_get(v) ==
  CASE entry[v].acc = "undef" -> undef_getter
    [] entry[v].acc = "val" -> val_getter(entry[v].data)
    [] OTHER -> var_getter(entry[v].data)

\* A value assigned may be what another variable holds.
Source == Value \cup {rb_gvar_get(v) : v \in Gvar}

\* The first assignment makes a plain variable of a name that was only mentioned;
\* a variable that can only be read has a setter that raises.
Settable(v) == entry[v].acc # "readonly"
undef_setter(v, x) == [entry[v] EXCEPT !.acc = "val", !.data = x]
val_setter(v, x) == [entry[v] EXCEPT !.data = x]
var_setter(v, x) == [cvar EXCEPT ![entry[v].data] = x]
Set(v, x) ==
  CASE entry[v].acc = "undef" -> undef_setter(v, x)
    [] entry[v].acc = "val" -> val_setter(v, x)
    [] OTHER -> entry[v]

-----------------------------------------------------------------------------
(* rb_gvar_set(): the setter, then the commands, unless a walk for this     *)
(* variable is under way, in this thread or another.                        *)

Walk(v) ==
  [var |-> v, trace |-> entry[v].trace, inside |-> FALSE,
   todo |-> Traces(v), called |-> <<>>]

rb_gvar_set(t) ==
  /\ Free(t) /\ Len(stack[t]) < MaxNest
  /\ \E v \in Gvar, x \in Source :
       /\ Settable(v)
       /\ cvar' = IF entry[v].acc = "var" THEN var_setter(v, x) ELSE cvar
       /\ entry' = [entry EXCEPT ![v] = [Set(v, x) EXCEPT !.block_trace = TRUE]]
       /\ stack' = IF entry[v].block_trace THEN stack
                   ELSE [stack EXCEPT ![t] = Append(@, Walk(v))]
  /\ UNCHANGED <<node, freed, wild>>

\* trace_ev(): the next command is called with the value assigned
trace_ev(t) ==
  /\ ~wild /\ stack[t] # <<>> /\ ~Top(t).inside /\ Top(t).trace # 0
  /\ Within(t, [Top(t) EXCEPT !.inside = TRUE, !.called = Append(@, Top(t).trace)])
  /\ UNCHANGED <<entry, cvar, node, freed, wild>>

\* and when it returns, the link is read from the node it was in.
Return(t) ==
  /\ ~wild /\ InCommand(t)
  /\ wild' = (Top(t).trace \in freed)
  /\ IF wild' THEN UNCHANGED stack
     ELSE Within(t, [Top(t) EXCEPT !.inside = FALSE, !.trace = node[@].next])
  /\ UNCHANGED <<entry, cvar, node, freed>>

\* Mutant: nothing ensures that tracing goes on after a command that raised.
trace_en_raised(t) ==
  /\ ~wild /\ stack[t] # <<>>
  /\ Top(t).inside \/ Top(t).trace = 0
  /\ entry' = IF Top(t).inside THEN entry ELSE [entry EXCEPT ![Top(t).var].block_trace = FALSE]
  /\ Pops(t)
  /\ UNCHANGED <<cvar, node, freed, wild>>

\* rb_ensure(trace_ev, ..., trace_en): the walk has ended, or a command raised
trace_en(t) ==
  /\ ~wild /\ stack[t] # <<>>
  /\ Top(t).inside \/ Top(t).trace = 0
  /\ entry' = [entry EXCEPT ![Top(t).var].block_trace = FALSE]
  /\ Pops(t)
  /\ UNCHANGED <<cvar, node, freed, wild>>

-----------------------------------------------------------------------------
(* trace_var, untrace_var, alias                                           *)

\* Only a variable with an entry can be traced.
f_trace_var(t) ==
  /\ Free(t)
  /\ \E v \in DOMAIN entry, cmd \in Cmd :
       LET n == Len(node) + 1
       IN  /\ n <= MaxTraces
           /\ node' = Append(node, [data |-> cmd, next |-> entry[v].trace])
           /\ entry' = [entry EXCEPT ![v].trace = n]
  /\ UNCHANGED <<cvar, freed, stack, wild>>

\* Without a command, and trace_var with nil: all are freed.
Untrace_all(t) ==
  /\ Free(t)
  /\ \E v \in DOMAIN entry :
       /\ entry[v].trace # 0
       /\ freed' = freed \cup Traces(v)
       /\ entry' = [entry EXCEPT ![v].trace = 0]
  /\ UNCHANGED <<cvar, node, stack, wild>>

\* The newest trace with the command is unlinked.
f_untrace_var(t) ==
  /\ Free(t)
  /\ \E v \in DOMAIN entry, cmd \in Cmd :
       LET with == {n \in Traces(v) : node[n].data = cmd}
           gone == Max(with)
           past(n) == IF n = gone THEN node[gone].next ELSE n
       IN  /\ with # {}
           /\ freed' = freed \cup {gone}
           /\ entry' = [entry EXCEPT ![v].trace = past(@)]
           /\ node' = [n \in DOMAIN node |->
                         IF n \in Traces(v) THEN [node[n] EXCEPT !.next = past(@)] ELSE node[n]]
  /\ UNCHANGED <<cvar, stack, wild>>

\* The alias takes the accessors and the data, not the traces: both names show
\* one variable of the interpreter, but a plain variable is only copied.
rb_alias_variable(t) ==
  /\ Free(t)
  /\ \E v, w \in Gvar :
       /\ v # w
       /\ entry' = [entry EXCEPT ![v].acc = entry[w].acc, ![v].data = entry[w].data]
       /\ entry' # entry
  /\ UNCHANGED <<cvar, node, freed, stack, wild>>

-----------------------------------------------------------------------------
Init ==
  /\ entry = [v \in Gvar |->
                IF v \in DOMAIN Shown
                THEN New(IF v \in ReadOnly THEN "readonly" ELSE "var", Shown[v])
                ELSE New("undef", nil)]
  /\ cvar \in [Cvar -> {CHOOSE x \in Value : TRUE}]
  /\ node = <<>> /\ freed = {}
  /\ stack = [t \in Thr |-> <<>>]
  /\ wild = FALSE

Next == \E t \in Thr :
  \/ rb_gvar_set(t) \/ trace_ev(t) \/ Return(t) \/ trace_en(t)
  \/ f_trace_var(t) \/ Untrace_all(t) \/ f_untrace_var(t) \/ rb_alias_variable(t)

Spec == Init /\ [][Next]_gvars

-----------------------------------------------------------------------------
\* The walks under way for a variable: their threads, and where on the stack.
Walks(v) ==
  {w \in Thr \X (1..MaxNest) : w[2] <= Len(stack[w[1]]) /\ stack[w[1]][w[2]].var = v}

\* Tracing of a variable is blocked exactly while one walk over its commands is
\* under way, however commands nest, raise or switch threads; and a walk that
\* ends has called, once and newest first, the commands that were set when the
\* assignment was made, but for those removed since.
TraceExact ==
  /\ \A v \in Gvar : Cardinality(Walks(v)) = IF entry[v].block_trace THEN 1 ELSE 0
  /\ \A t \in Thr : stack[t] # <<>> /\ ~Top(t).inside /\ Top(t).trace = 0 =>
       LET called == Top(t).called
       IN  /\ \A i, j \in DOMAIN called : i < j => called[i] > called[j]
           /\ ToSet(called) \subseteq Top(t).todo
           /\ Top(t).todo \ ToSet(called) \subseteq freed

=============================================================================
