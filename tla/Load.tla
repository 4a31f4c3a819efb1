-------------------------------- MODULE Load --------------------------------
(***************************************************************************)
(* require, load and autoload of eval.c and variable.c, called by several  *)
(* threads.  A file is a sequence of steps: it requires other files,       *)
(* defines constants and uses them.  The threads may be switched between   *)
(* any two of them, and in the loop of thread_loading().  An exception is  *)
(* handed from one activation to the next, and may be rescued on the way.  *)
(***************************************************************************)
EXTENDS Naturals, Sequences, FiniteSets, SequencesExt

CONSTANTS
  Thread, Main, NoThread,
  File,
  Const,
  Text,        \* Text[f] is the sequence of steps of the file f: op "require" with a
               \* file, "define" or "use" with a constant.  No file requires itself,
               \* not by way of others either: that recursion has no end.
  Home,        \* Home[c] is the file that a program gives for the constant c
  MaxCalls     \* calls that the threads make, outside of files

VARIABLES
  live,           \* the threads of the ring
  rb_features,
  loading_thread, \* NoThread is 0
  loading_nest,
  autoload_tbl,
  consts,         \* the constants that are defined
  acts,           \* acts[t]: activations of f_require(), f_load() and rb_const_get()
  jump,           \* jump[t]: an exception is on its way out of them
  evals,          \* evals[f]: evaluations of the text of f that did not fail
  calls

vars == <<live, rb_features, loading_thread, loading_nest, autoload_tbl, consts, acts, jump,
          evals, calls>>
table == <<autoload_tbl, consts>>

Runs(t) == t \in live /\ jump[t] = "none"
Outside(t) == Runs(t) /\ acts[t] = <<>>
top(t) == Last(acts[t])
Evaluates(t) == Runs(t) /\ acts[t] # <<>> /\ top(t).kind \in {"require", "load"}
step(t) == Text[top(t).file][top(t).pos]
AtStep(t, op) ==
  Evaluates(t) /\ top(t).pos <= Len(Text[top(t).file]) /\ step(t).op = op

Act(kind, file, pos) == [kind |-> kind, file |-> file, pos |-> pos]
\* A call returns: the file that made it is at its next step.
Back(s) == IF s # <<>> /\ Last(s).kind \in {"require", "load"}
           THEN [s EXCEPT ![Len(s)].pos = @ + 1] ELSE s
Raise(t) == jump' = [jump EXCEPT ![t] = "raise"]

-----------------------------------------------------------------------------
\* require

rb_provided(f) == f \in rb_features
rb_provide(f) == rb_features' = rb_features \cup {f}

\* The end of thread_loading(): t loads.
TakeOver(t, f, s) ==
  /\ loading_thread' = t /\ loading_nest' = loading_nest + 1
  /\ acts' = [acts EXCEPT ![t] = Append(s, Act("require", f, 1))]

\* thread_loading() behind its loop.
Loader(t, f, s) ==
  IF rb_provided(f)
  THEN acts' = [acts EXCEPT ![t] = Back(s)] /\ UNCHANGED <<loading_thread, loading_nest>>
  ELSE TakeOver(t, f, s)

\* thread_loading() for the activations s of t.
thread_loading(t, f, s) ==
  IF live = {t} \/ loading_thread = NoThread THEN TakeOver(t, f, s)
  ELSE IF loading_thread = t THEN Loader(t, f, s)
  ELSE /\ acts' = [acts EXCEPT ![t] = Append(s, Act("wait", f, 0))]
       /\ UNCHANGED <<loading_thread, loading_nest>>

\* Mutant: a file is provided as soon as it is asked for.
f_require_early(t, f, s) ==
  IF rb_provided(f)
  THEN /\ acts' = [acts EXCEPT ![t] = Back(s)]
       /\ UNCHANGED <<loading_thread, loading_nest, rb_features, jump>>
  ELSE thread_loading(t, f, s) /\ rb_provide(f) /\ UNCHANGED jump

\* f_require() for the activations s of t; or there is no such file.
f_require(t, f, s) ==
  /\ UNCHANGED rb_features
  /\ IF rb_provided(f)
     THEN /\ acts' = [acts EXCEPT ![t] = Back(s)]
          /\ UNCHANGED <<loading_thread, loading_nest, jump>>
     ELSE \/ thread_loading(t, f, s) /\ UNCHANGED jump
          \/ /\ Raise(t) /\ acts' = [acts EXCEPT ![t] = s]
             /\ UNCHANGED <<loading_thread, loading_nest>>

\* The loop of thread_loading(): loading_thread is still another thread, or
\* nobody.
Spins(t) ==
  /\ Runs(t) /\ acts[t] # <<>> /\ top(t).kind = "wait"
  /\ IF loading_thread = t THEN Loader(t, top(t).file, Front(acts[t]))
     ELSE UNCHANGED <<loading_thread, loading_nest, acts>>
  /\ UNCHANGED <<live, rb_features, table, jump, evals, calls>>

thread_loading_done ==
  /\ loading_nest' = loading_nest - 1
  /\ loading_thread' = IF loading_nest = 1 THEN NoThread ELSE loading_thread

\* The text is evaluated: rb_provide(), thread_loading_done(), and the caller
\* goes on.  After load() it is not provided.
Finish(t) ==
  /\ Evaluates(t) /\ top(t).pos > Len(Text[top(t).file])
  /\ evals' = [evals EXCEPT ![top(t).file] = IF top(t).kind = "require" THEN @ + 1 ELSE @]
  /\ acts' = [acts EXCEPT ![t] = Back(Front(@))]
  /\ IF top(t).kind = "require" THEN rb_provide(top(t).file) /\ thread_loading_done
     ELSE UNCHANGED <<rb_features, loading_thread, loading_nest>>
  /\ UNCHANGED <<live, table, jump, calls>>

-----------------------------------------------------------------------------
\* Steps of files and of programs

CallRequire(t) ==
  /\ Outside(t) /\ calls < MaxCalls /\ calls' = calls + 1
  /\ \E f \in File : f_require(t, f, <<>>)
  /\ UNCHANGED <<live, table, evals>>

CallLoad(t) ==
  /\ Outside(t) /\ calls < MaxCalls /\ calls' = calls + 1
  /\ \/ \E f \in File : acts' = [acts EXCEPT ![t] = <<Act("load", f, 1)>>] /\ UNCHANGED jump
     \/ Raise(t) /\ UNCHANGED acts
  /\ UNCHANGED <<live, rb_features, loading_thread, loading_nest, table, evals>>

StepRequire(t) ==
  /\ AtStep(t, "require")
  /\ f_require(t, step(t).arg, acts[t])
  /\ UNCHANGED <<live, table, evals, calls>>

Define(t) ==
  /\ AtStep(t, "define")
  /\ consts' = consts \cup {step(t).arg}
  /\ acts' = [acts EXCEPT ![t] = Back(@)]
  /\ UNCHANGED <<live, rb_features, loading_thread, loading_nest, autoload_tbl, jump, evals, calls>>

\* rb_const_get(): its second look after the file is "const" on the stack.
rb_const_get(t, c, s) ==
  IF c \in consts
  THEN /\ acts' = [acts EXCEPT ![t] = Back(s)]
       /\ UNCHANGED <<rb_features, loading_thread, loading_nest, autoload_tbl, jump>>
  ELSE IF c \in autoload_tbl
  THEN /\ autoload_tbl' = autoload_tbl \ {c}
       /\ f_require(t, Home[c], Append(s, Act("const", c, 0)))
  ELSE /\ Raise(t) /\ acts' = [acts EXCEPT ![t] = s]
       /\ UNCHANGED <<rb_features, loading_thread, loading_nest, autoload_tbl>>

StepUse(t) ==
  /\ AtStep(t, "use") /\ rb_const_get(t, step(t).arg, acts[t])
  /\ UNCHANGED <<live, consts, evals, calls>>

CallUse(t) ==
  /\ Outside(t) /\ calls < MaxCalls /\ calls' = calls + 1
  /\ \E c \in Const : rb_const_get(t, c, <<>>)
  /\ UNCHANGED <<live, consts, evals>>

LookAgain(t) ==
  /\ Runs(t) /\ acts[t] # <<>> /\ top(t).kind = "const"
  /\ rb_const_get(t, top(t).file, Front(acts[t]))
  /\ UNCHANGED <<live, consts, evals, calls>>

f_autoload(t) ==
  /\ Outside(t) /\ calls < MaxCalls /\ calls' = calls + 1
  /\ \E c \in Const : autoload_tbl' = autoload_tbl \cup {c}
  /\ UNCHANGED <<live, rb_features, loading_thread, loading_nest, consts, acts, jump, evals>>

-----------------------------------------------------------------------------
\* Exceptions and threads

\* The text of a file raises, or another thread raises in this one or kills it.
Fails(t) ==
  /\ Runs(t) /\ acts[t] # <<>> /\ calls < MaxCalls /\ calls' = calls + 1
  /\ \E j \in {"raise", "kill"} : jump' = [jump EXCEPT ![t] = j]
  /\ UNCHANGED <<live, rb_features, loading_thread, loading_nest, table, acts, evals>>

\* Mutant: only a load that succeeds is counted down.
Unwind_undone(t) ==
  /\ t \in live /\ jump[t] # "none" /\ acts[t] # <<>>
  /\ acts' = [acts EXCEPT ![t] = Front(@)]
  /\ UNCHANGED <<live, rb_features, loading_thread, loading_nest, table, jump, evals, calls>>

\* The exception leaves an activation; behind the tag of f_require() comes
\* thread_loading_done(), and the loop of thread_loading() has no tag.
Unwind(t) ==
  /\ t \in live /\ jump[t] # "none" /\ acts[t] # <<>>
  /\ acts' = [acts EXCEPT ![t] = Front(@)]
  /\ IF top(t).kind = "require" THEN thread_loading_done
     ELSE UNCHANGED <<loading_thread, loading_nest>>
  /\ UNCHANGED <<live, rb_features, table, jump, evals, calls>>

\* A file, or the program, rescues it around the step that failed.
Rescue(t) ==
  /\ t \in live /\ jump[t] = "raise"
  /\ acts[t] # <<>> =>
       top(t).kind \in {"require", "load"} /\ top(t).pos <= Len(Text[top(t).file])
  /\ jump' = [jump EXCEPT ![t] = "none"]
  /\ acts' = [acts EXCEPT ![t] = Back(@)]
  /\ UNCHANGED <<live, rb_features, loading_thread, loading_nest, table, evals, calls>>

Start(t) ==
  /\ t \notin live /\ calls < MaxCalls /\ calls' = calls + 1
  /\ live' = live \cup {t} /\ jump' = [jump EXCEPT ![t] = "none"]
  /\ UNCHANGED <<rb_features, loading_thread, loading_nest, table, acts, evals>>

Ends(t) ==
  /\ t \in live \ {Main} /\ acts[t] = <<>>
  /\ live' = live \ {t}
  /\ UNCHANGED <<rb_features, loading_thread, loading_nest, table, acts, jump, evals, calls>>

-----------------------------------------------------------------------------
Init ==
  /\ live = {Main} /\ rb_features = {} /\ loading_thread = NoThread /\ loading_nest = 0
  /\ autoload_tbl = {} /\ consts = {}
  /\ acts = [t \in Thread |-> <<>>] /\ jump = [t \in Thread |-> "none"]
  /\ evals = [f \in File |-> 0] /\ calls = 0

Goes(t) ==
  \/ Spins(t) \/ Finish(t) \/ StepRequire(t) \/ Define(t) \/ StepUse(t) \/ LookAgain(t)
  \/ Unwind(t) \/ Rescue(t)

Next ==
  \E t \in Thread :
    \/ Goes(t)
    \/ CallRequire(t) \/ CallLoad(t) \/ CallUse(t) \/ f_autoload(t)
    \/ Fails(t) \/ Start(t) \/ Ends(t)

\* The scheduler lets every thread run (RunnableRuns in Threads), and what is
\* begun goes on.
Fairness == \A t \in Thread : WF_vars(Goes(t))

Spec == Init /\ [][Next]_vars /\ Fairness

-----------------------------------------------------------------------------
Kind == {"require", "load", "wait", "const"}

\* Every variable keeps its type.
TypeOK ==
  /\ live \subseteq Thread /\ rb_features \subseteq File
  /\ loading_thread \in Thread \cup {NoThread} /\ loading_nest \in Nat
  /\ autoload_tbl \subseteq Const /\ consts \subseteq Const
  /\ \A t \in Thread : \A i \in DOMAIN acts[t] :
       acts[t][i].kind \in Kind /\ acts[t][i].file \in File \cup Const
  /\ jump \in [Thread -> {"none", "raise", "kill"}]

Loads(t) == {i \in DOMAIN acts[t] : acts[t][i].kind = "require"}

\* One thread at a time loads files that are required; it is loading_thread, and
\* loading_nest is how deep it is in them, whatever failed on the way: so the
\* lock is free when nobody loads.
OneLoader ==
  /\ \A t \in Thread : Loads(t) # {} => loading_thread = t
  /\ loading_thread = NoThread <=> loading_nest = 0
  /\ loading_thread # NoThread => loading_nest = Cardinality(Loads(loading_thread))

\* A required file is evaluated to its end once, however many ask for it, and is
\* provided from then on and not earlier.
EvaluatedOnce == \A f \in File : evals[f] = IF rb_provided(f) THEN 1 ELSE 0

\* rb_const_get() takes the autoload entry away and looks again when f_require()
\* is back: the file has been evaluated to its end by then, whoever loaded it.
LooksAfter ==
  \A t \in Thread : (Runs(t) /\ acts[t] # <<>> /\ top(t).kind = "const") => rb_provided(Home[top(t).file])

\* "no need to load": who finds another thread loading gets the file from it.
WaiterServed ==
  \A t \in Thread :
    (acts[t] # <<>> /\ top(t).kind = "wait") ~> (acts[t] = <<>> \/ top(t).kind # "wait")

=============================================================================
