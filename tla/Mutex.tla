------------------------------- MODULE Mutex --------------------------------
(***************************************************************************)
(* Mutex of lib/thread.rb (Mutex_m of lib/mutex_m.rb is the same           *)
(* algorithm).  What runs between Thread.critical = TRUE and FALSE is one  *)
(* step; everywhere else any ready thread may run.                         *)
(***************************************************************************)
EXTENDS Naturals, Sequences, FiniteSets

CONSTANTS
  Thread, NoThread,
  MaxWaiting    \* bound on the length of @waiting

ASSUME MutexAssumption == NoThread \notin Thread /\ MaxWaiting \in Nat

VARIABLES
  locked, waiting,   \* @locked, @waiting
  wait,              \* unlock's local wait
  pc,
  status             \* of the thread: "run", "stop" or "dead"

vars == <<locked, waiting, wait, pc, status>>

At(S) == {t \in Thread : pc[t] \in S}
In(s) == {s[i] : i \in DOMAIN s}

-----------------------------------------------------------------------------
\* A mutant: the lock is not tested again after the wait.
lock_once(t) ==
  /\ status[t] = "run" /\ pc[t] \in {"idle", "lock"}
  /\ IF locked /\ pc[t] = "idle"
     THEN /\ Len(waiting) < MaxWaiting
          /\ waiting' = Append(waiting, t)
          /\ status' = [status EXCEPT ![t] = "stop"]
          /\ pc' = [pc EXCEPT ![t] = "lock"]
          /\ UNCHANGED locked
     ELSE /\ locked' = TRUE
          /\ pc' = [pc EXCEPT ![t] = "owner"]
          /\ UNCHANGED <<waiting, status>>
  /\ UNCHANGED wait

\* lock: take the mutex, or queue up and stop; a thread that is woken tries again.
lock(t) ==
  /\ status[t] = "run" /\ pc[t] \in {"idle", "lock"}
  /\ IF locked
     THEN /\ Len(waiting) < MaxWaiting
          /\ waiting' = Append(waiting, t)
          /\ status' = [status EXCEPT ![t] = "stop"]
          /\ pc' = [pc EXCEPT ![t] = "lock"]
          /\ UNCHANGED locked
     ELSE /\ locked' = TRUE
          /\ pc' = [pc EXCEPT ![t] = "owner"]
          /\ UNCHANGED <<waiting, status>>
  /\ UNCHANGED wait

\* A mutant: @locked holds the owner.
try_lock_owner(t) ==
  /\ status[t] = "run" /\ pc[t] = "idle" /\ locked = FALSE
  /\ locked' = t
  /\ pc' = [pc EXCEPT ![t] = "owner"]
  /\ UNCHANGED <<waiting, wait, status>>

try_lock(t) ==
  /\ status[t] = "run" /\ pc[t] = "idle" /\ ~locked
  /\ locked' = TRUE
  /\ pc' = [pc EXCEPT ![t] = "owner"]
  /\ UNCHANGED <<waiting, wait, status>>

\* A mutant: only the first waiter is taken off the list.
unlock_first(t) ==
  /\ status[t] = "run" /\ pc[t] = "owner" /\ locked
  /\ wait' = [wait EXCEPT ![t] = IF waiting = <<>> THEN <<>> ELSE <<Head(waiting)>>]
  /\ waiting' = <<>>
  /\ locked' = FALSE
  /\ pc' = [pc EXCEPT ![t] = "wake"]
  /\ UNCHANGED status

\* unlock, up to the end of its critical section.
unlock(t) ==
  /\ status[t] = "run" /\ pc[t] = "owner" /\ locked
  /\ wait' = [wait EXCEPT ![t] = waiting]
  /\ waiting' = <<>>
  /\ locked' = FALSE
  /\ pc' = [pc EXCEPT ![t] = "wake"]
  /\ UNCHANGED status

\* The loop of unlock: w.run raises ThreadError, and so ends it, when w is dead.
Wake(t) ==
  /\ status[t] = "run" /\ pc[t] = "wake"
  /\ IF wait[t] = <<>> \/ status[Head(wait[t])] = "dead"
     THEN /\ pc' = [pc EXCEPT ![t] = "idle"]
          /\ wait' = [wait EXCEPT ![t] = <<>>]
          /\ UNCHANGED status
     ELSE /\ status' = [status EXCEPT ![Head(wait[t])] = "run"]
          /\ wait' = [wait EXCEPT ![t] = Tail(@)]
          /\ UNCHANGED pc
  /\ UNCHANGED <<locked, waiting>>

\* Another thread runs or kills t.
Run(t) ==
  /\ status[t] = "stop"
  /\ status' = [status EXCEPT ![t] = "run"]
  /\ UNCHANGED <<locked, waiting, wait, pc>>

Kill(t) ==
  /\ status[t] # "dead"
  /\ status' = [status EXCEPT ![t] = "dead"]
  /\ UNCHANGED <<locked, waiting, wait, pc>>

Init ==
  /\ locked = FALSE /\ waiting = <<>>
  /\ wait = [t \in Thread |-> <<>>]
  /\ pc = [t \in Thread |-> "idle"]
  /\ status = [t \in Thread |-> "run"]

Step(t) == lock(t) \/ try_lock(t) \/ unlock(t) \/ Wake(t)

Next == \E t \in Thread : Step(t) \/ Run(t) \/ Kill(t)

Spec == Init /\ [][Next]_vars

\* The scheduler runs every ready thread (RunnableRuns of Threads), and a
\* thread that holds the mutex unlocks it.
Fairness == \A t \in Thread : WF_vars(unlock(t)) /\ WF_vars(Wake(t))

LiveSpec == Spec /\ Fairness

-----------------------------------------------------------------------------
\* Every variable keeps its type.
TypeOK ==
  /\ locked \in BOOLEAN
  /\ waiting \in Seq(Thread)
  /\ wait \in [Thread -> Seq(Thread)]
  /\ pc \in [Thread -> {"idle", "lock", "owner", "wake"}]
  /\ status \in [Thread -> {"run", "stop", "dead"}]

\* No wakeup is lost, unless a thread was killed: a stopped thread is on the
\* list of a mutex that is held, or of a thread that is about to run it.
AllAlive == \A t \in Thread : status[t] # "dead"

WaitersKnown ==
  \A t \in Thread : AllAlive /\ status[t] = "stop" =>
     \/ locked /\ At({"owner"}) # {} /\ t \in In(waiting)
     \/ \E u \in At({"wake"}) : t \in In(wait[u])

\* A thread that waits for the mutex is woken again, unless a thread was killed.
WaitersWoken == \A t \in Thread : status[t] = "stop" ~> status[t] # "stop" \/ ~AllAlive

\* The mutex is a lock: it implements the abstract one, without readers.
Owner == IF At({"owner"}) = {} THEN NoThread ELSE CHOOSE t \in At({"owner"}) : TRUE

Lock == INSTANCE RWLock WITH readers <- {}, writer <- Owner

IsLock == Lock!LockSpec

=============================================================================
