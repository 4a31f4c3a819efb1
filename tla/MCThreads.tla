----------------------------- MODULE MCThreads -----------------------------
(***************************************************************************)
(* Threads for TLC.  The view forgets what the scheduler never reads: the  *)
(* join, fd and delay of a thread that does not wait for them, and the    *)
(* saved contexts of the current thread and of dead ones.                  *)
(***************************************************************************)
EXTENDS Threads, TLC

Symm == Permutations(Thread \ {Main})

Relevant(f, S, null) == [t \in Thread |-> IF t \in S THEN f[t] ELSE null]

View == <<list, status, wait_for, num, curr_thread, flags, pc, scheduling, env, ends,
          Relevant(join, Waiters("JOIN"), NoThread),
          Relevant(fd, Waiters("FD"), NoFd),
          Relevant(delay, Waiters("TIME"), 0),
          Relevant(saved, Linked \ {curr_thread}, "no")>>

=============================================================================
