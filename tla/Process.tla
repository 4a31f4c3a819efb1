------------------------------ MODULE Process ------------------------------
(***************************************************************************)
(* process.c: threads that start children with system and fork and wait    *)
(* for them.  rb_waitpid() polls and lets the other threads run between;   *)
(* wait stops the whole process.                                           *)
(***************************************************************************)
EXTENDS Integers, Sequences, SequencesExt, FiniteSets

CONSTANTS
  Thr,          \* threads
  Child         \* children that can be started

VARIABLES
  kid,          \* child -> none, run, dead or gone, and its exit status
  thr,          \* thread -> what it waits for, in which call, the handler it saved
  stopped,      \* the thread that stops the process in wait(), or Nobody
  handler,      \* what SIGINT does: "own" or "ign"
  last_status,  \* $?
  order,        \* the threads inside rb_syswait(), by when they came
  crossed,      \* one left before another that had come later, or by an error
  result        \* thread -> the child of its last system, and what that returned
pvars == <<kid, thr, stopped, handler, last_status, order, crossed, result>>

Nobody == "nobody"
Idle == [op |-> "idle", pid |-> Nobody, saved |-> "own"]
NoResult == [pid |-> Nobody, ok |-> TRUE]
Runs(t) == stopped = Nobody /\ thr[t] = Idle
Free == {k \in Child : kid[k].st = "none"}
New == CHOOSE k \in Free : TRUE

-----------------------------------------------------------------------------
f_fork ==
  /\ \E t \in Thr : Runs(t)
  /\ Free # {}
  /\ kid' = [kid EXCEPT ![New].st = "run"]
  /\ UNCHANGED <<thr, stopped, handler, last_status, order, crossed, result>>

\* f_system() up to rb_syswait(), which ignores SIGINT while it waits
f_system ==
  \E t \in Thr :
    /\ Runs(t) /\ Free # {}
    /\ kid' = [kid EXCEPT ![New].st = "run"]
    /\ thr' = [thr EXCEPT ![t] = [op |-> "system", pid |-> New, saved |-> handler]]
    /\ handler' = "ign"
    /\ order' = Append(order, t)
    /\ UNCHANGED <<stopped, last_status, crossed, result>>

\* rb_waitpid() of thread t: the child is taken, or another wait has taken it.
Reap(k) ==
  /\ kid[k].st = "dead"
  /\ kid' = [kid EXCEPT ![k].st = "gone"]
  /\ last_status' = kid[k].code
Leave(t) ==
  /\ thr' = [thr EXCEPT ![t] = Idle]
  /\ LET i == CHOOSE i \in DOMAIN order : order[i] = t IN order' = RemoveAt(order, i)

\* Mutant: the handler is not set back.
rb_syswait_ignores ==
  \E t \in Thr :
    LET k == thr[t].pid IN
    /\ stopped = Nobody /\ thr[t].op = "system"
    /\ Reap(k) /\ Leave(t)
    /\ crossed' = (crossed \/ Last(order) # t)
    /\ result' = [result EXCEPT ![t] = [pid |-> k, ok |-> last_status' = 0]]
    /\ UNCHANGED <<stopped, handler>>

rb_syswait ==
  \E t \in Thr :
    LET k == thr[t].pid IN
    /\ stopped = Nobody /\ thr[t].op = "system"
    /\ Reap(k) /\ Leave(t)
    /\ handler' = thr[t].saved
    /\ crossed' = (crossed \/ Last(order) # t)
    /\ result' = [result EXCEPT ![t] = [pid |-> k, ok |-> last_status' = 0]]
    /\ UNCHANGED stopped

\* rb_sys_fail("wait"): the handlers are not set back.
rb_syswait_fails ==
  \E t \in Thr :
    /\ stopped = Nobody /\ thr[t].op = "system" /\ kid[thr[t].pid].st = "gone"
    /\ Leave(t)
    /\ crossed' = TRUE
    /\ UNCHANGED <<kid, stopped, handler, last_status, result>>

f_waitpid ==
  \E t \in Thr, k \in Child :
    /\ Runs(t) /\ Reap(k)
    /\ UNCHANGED <<thr, stopped, handler, order, crossed, result>>

\* f_wait(): with no child nil, else the process stops until one has ended.
f_wait ==
  \E t \in Thr :
    /\ Runs(t) /\ \E k \in Child : kid[k].st \in {"run", "dead"}
    /\ stopped' = t
    /\ UNCHANGED <<kid, thr, handler, last_status, order, crossed, result>>
f_wait_returns ==
  \E k \in Child :
    /\ stopped # Nobody /\ Reap(k)
    /\ stopped' = Nobody
    /\ UNCHANGED <<thr, handler, order, crossed, result>>

kid_exit ==
  \E k \in Child, c \in 0..1 :
    /\ kid[k].st = "run"
    /\ kid' = [kid EXCEPT ![k] = [st |-> "dead", code |-> c]]
    /\ UNCHANGED <<thr, stopped, handler, last_status, order, crossed, result>>

-----------------------------------------------------------------------------
Init ==
  /\ kid = [k \in Child |-> [st |-> "none", code |-> 0]]
  /\ thr = [t \in Thr |-> Idle] /\ stopped = Nobody /\ handler = "own" /\ last_status = 0
  /\ order = <<>> /\ crossed = FALSE /\ result = [t \in Thr |-> NoResult]
Next ==
  \/ f_fork \/ f_system \/ rb_syswait \/ rb_syswait_fails \/ f_waitpid \/ f_wait
  \/ f_wait_returns \/ kid_exit
Spec == Init /\ [][Next]_pvars

-----------------------------------------------------------------------------
\* A system returns the status of its own child though $? is one variable for all
\* threads; and interrupts are ignored while a system waits and, when none does,
\* not: unless two waits crossed or one failed, after which they stay ignored.
SystemOwn ==
  /\ \A t \in Thr : result[t].pid # Nobody => (result[t].ok <=> kid[result[t].pid].code = 0)
  /\ order # <<>> /\ ~crossed => handler = "ign"
  /\ order = <<>> /\ ~crossed => handler = "own"

=============================================================================
