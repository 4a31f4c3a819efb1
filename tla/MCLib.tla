------------------------------- MODULE MCLib --------------------------------
(***************************************************************************)
(* The synchronisers of lib/, and the lock of require, for TLC: a          *)
(* behaviour exercises one of them, and the others stay in their initial   *)
(* state.                                                                  *)
(***************************************************************************)
EXTENDS Mutex

CONSTANTS Item, Nil, MaxPush, MaxNest, Loaders, Main, MaxCalls

VARIABLES
  which,
  que, q_waiting, q_pc, shifted, q_status, disturbed, pushed, popped,
  sync_mode, sync_sh_locker, sync_ex_locker, sync_ex_count, sync_waiting,
  sync_upgrade_waiting, s_pc, want, stopped, s_wait, held,
  live, rb_features, loading_thread, loading_nest, autoload_tbl, consts, acts, jump, evals, calls

qvars == <<que, q_waiting, q_pc, shifted, q_status, disturbed, pushed, popped>>
svars == <<sync_mode, sync_sh_locker, sync_ex_locker, sync_ex_count, sync_waiting,
           sync_upgrade_waiting, s_pc, want, stopped, s_wait, held>>
lvars == <<live, rb_features, loading_thread, loading_nest, autoload_tbl, consts, acts, jump,
           evals, calls>>

\* Two files: the first requires the second and uses a constant of it, which a
\* program may also autoload.
Files == {"a", "b"}
Texts == [f \in Files |->
            IF f = "a" THEN <<[op |-> "require", arg |-> "b"], [op |-> "use", arg |-> "B"]>>
            ELSE <<[op |-> "define", arg |-> "B"]>>]

\* The main thread is one of those that load, and 0 is none of them.
ASSUME LibAssumption == Main \in Loaders /\ NoThread \notin Loaders /\ MaxNest \in Nat

Q == INSTANCE Queue WITH waiting <- q_waiting, pc <- q_pc, status <- q_status
S == INSTANCE Sync WITH pc <- s_pc, wait <- s_wait

L == INSTANCE Load WITH Thread <- Loaders, File <- Files, Const <- {"B"}, Text <- Texts,
                        Home <- [c \in {"B"} |-> "b"]

LibInit ==
  /\ which \in {"Mutex", "Queue", "Sync", "Load"}
  /\ Init /\ Q!Init /\ S!Init /\ L!Init

LibNext ==
  /\ UNCHANGED which
  /\ \/ which = "Mutex" /\ Next /\ UNCHANGED <<qvars, svars, lvars>>
     \/ which = "Queue" /\ Q!Next /\ UNCHANGED <<vars, svars, lvars>>
     \/ which = "Sync" /\ S!Next /\ UNCHANGED <<vars, qvars, lvars>>
     \/ which = "Load" /\ L!Next /\ UNCHANGED <<vars, qvars, svars>>

LibSpec ==
  LibInit /\ [][LibNext]_<<which, vars, qvars, svars, lvars>> /\ Fairness /\ Q!Fairness

\* The behaviours of Load alone, with the fairness of its threads.
LoadInit == LibInit /\ which = "Load"
LoadSpec == LoadInit /\ [][LibNext]_<<which, vars, qvars, svars, lvars>> /\ L!Fairness

-----------------------------------------------------------------------------
\* What must hold of Queue, Sync and Load, as their modules state it, and of Mutex,
\* which this module extends; a property puts together what belongs together.

\* Whoever waits for a lock is on the lists that unlock() will look at, and the
\* counts of Sync are those of its holders (lib/thread.rb, lib/sync.rb).
LocksAgree ==
  /\ TypeOK /\ WaitersKnown
  /\ S!TypeOK /\ S!CountsAgree /\ S!WaitersKnown
\* Items leave a queue in order, and none lies there while somebody waits for it
\* (Queue of lib/thread.rb).
Fifo         == Q!TypeOK /\ Q!Fifo /\ Q!ItemsClaimed
PopReturns   == Q!PopReturns
IsRWLock     == S!IsRWLock
\* One thread loads a feature, its text is evaluated once (f_require, eval.c), and
\* before the constant it is loaded for is looked up again (rb_const_get, variable.c).
OneLoader    == L!TypeOK /\ L!OneLoader /\ L!EvaluatedOnce /\ L!LooksAfter
WaiterServed == L!WaiterServed

=============================================================================
