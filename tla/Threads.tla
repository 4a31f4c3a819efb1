------------------------------ MODULE Threads ------------------------------
(***************************************************************************)
(* The green-thread scheduler of eval.c: the circular list of threads, the *)
(* reasons a thread waits for and their counters, thread_schedule(), and   *)
(* every Thread method that changes this state.                            *)
(*                                                                         *)
(* One C thread runs everything: curr_thread is the Ruby thread whose      *)
(* stack is live.  A method that gives up the processor sets scheduling    *)
(* to TRUE: curr_thread is then inside thread_schedule(), which is the     *)
(* action Schedule and may have to wait in select() for the environment.   *)
(* The Ruby program is arbitrary: a running thread may call any method.    *)
(***************************************************************************)
EXTENDS Integers, FiniteSets

CONSTANTS
  Thread,      \* all thread structs the program may ever allocate
  Main,        \* main_thread
  NoThread,    \* the null pointer
  Fd,          \* file descriptors a thread may wait to read from
  NoFd,        \* th->fd = 0
  MaxTime,     \* bound on the clock
  Uses         \* the features the Ruby program uses, among Features

\* "stop_dead": Thread#stop on a dead thread; "exit": exit, or killing main,
\* inside a thread; "sigint": the user interrupts the program.
Features == {"kill", "stop", "stop_dead", "exit", "sleep", "wait_fd", "critical",
             "raise", "sigint"}

ASSUME ThreadAssumption ==
  /\ IsFiniteSet(Thread) /\ Main \in Thread /\ NoThread \notin Thread
  /\ NoFd \notin Fd
  /\ MaxTime \in Nat
  /\ Uses \subseteq Features

VARIABLES
  next, prev,       \* the circular doubly linked list of struct thread
  status,           \* th->status; "NONE" before thread_alloc
  wait_for,         \* th->wait_for, as a set of flags
  join, fd, delay,  \* what the flags refer to
  num,              \* num_waiting_on_fd, _timer and _join
  curr_thread,
  thread_critical, thread_pending,
  saved,            \* th->stk_ptr: "no", or where the saved context resumes
  pc,               \* what the thread's Ruby code is doing
  scheduling,       \* curr_thread is inside thread_schedule()
  now, readable,    \* environment: the clock and the readable descriptors
  proc,             \* the process: "up", "exit" or "deadlock"
  abort_on          \* the thread on whose stack thread_deadlock() aborts

list  == <<next, prev>>
waits == <<wait_for, join, fd, delay, num>>
flags == <<thread_critical, thread_pending>>
env   == <<now, readable>>
ends  == <<proc, abort_on>>
vars  == <<list, status, waits, curr_thread, flags, saved, pc, scheduling,
           env, ends>>

Wait     == {"FD", "TIME", "JOIN"}
Status   == {"NONE", "RUNNABLE", "STOPPED", "TO_KILL", "KILLED"}
\* "op": returns from the method it called; "sched": restarts thread_schedule().
Context  == {"no", "op", "sched"}
\* "ensure": unwinding after TAG_FATAL; "wait_other": at the end of ruby_run.
Control  == {"none", "run", "ensure", "wait_other", "dead"}
DELAY_INFTY == MaxTime + 1

-----------------------------------------------------------------------------
(***************************************************************************)
(* The list.                                                               *)
(***************************************************************************)

\* The threads FOREACH_THREAD visits: allocated and not unlinked.
Linked == {t \in Thread : status[t] # "NONE" /\ next[prev[t]] = t}

\* curr_thread == curr_thread->next
Alone == next[curr_thread] = curr_thread

\* The n-th thread after s.
Nth(s) == LET f[n \in 0 .. Cardinality(Thread)] ==
                IF n = 0 THEN s ELSE next[f[n - 1]]
          IN  f

\* The order FOREACH_THREAD_FROM(s, x) visits threads in: s itself is last.
Pos(s, t) == CHOOSE n \in 1 .. Cardinality(Thread) : 
               /\ Nth(s)[n] = t
               /\ \A m \in 1 .. n - 1 : Nth(s)[m] # t

IsFirst(t, s, S) == IF S = {} THEN t = NoThread
                    ELSE t \in S /\ \A u \in S : Pos(s, t) <= Pos(s, u)

IsLast(t, s, S)  == IF S = {} THEN t = NoThread
                    ELSE t \in S /\ \A u \in S : Pos(s, u) <= Pos(s, t)

thread_dead(t) == status[t] = "KILLED"

Waiters(w) == {t \in Linked : w \in wait_for[t]}

\* Mutant: the flags are not cleared.
thread_ready_keeps(t, st) ==
  /\ num' = [w \in Wait |-> num[w] - IF w \in wait_for[t] THEN 1 ELSE 0]
  /\ status' = [status EXCEPT ![t] = st]
  /\ UNCHANGED <<wait_for, join, fd, delay>>

(***************************************************************************)
(* thread_ready(): t no longer waits on anything and gets status st.       *)
(***************************************************************************)
thread_ready(t, st) ==
  /\ num' = [w \in Wait |-> num[w] - IF w \in wait_for[t] THEN 1 ELSE 0]
  /\ wait_for' = [wait_for EXCEPT ![t] = {}]
  /\ status' = [status EXCEPT ![t] = st]
  /\ UNCHANGED <<join, fd, delay>>

\* The current thread executes Ruby code.
Running == /\ proc = "up" /\ ~scheduling
           /\ pc[curr_thread] \in {"run", "ensure"}

-----------------------------------------------------------------------------
(***************************************************************************)
(* thread_schedule().                                                      *)
(***************************************************************************)

\* Mutant: every scan starts at the main thread.
ScanStart_main(s) == s = Main

\* The starting thread: a thread that has just been removed is skipped.
ScanStart(s) ==
  LET back[n \in 0 .. Cardinality(Thread)] ==
        IF n = 0 THEN curr_thread ELSE prev[back[n - 1]]
  IN  /\ ~thread_dead(s)
      /\ IF ~thread_dead(curr_thread) THEN s = curr_thread
         ELSE \E n \in 1 .. Cardinality(Thread) :
                s = back[n] /\ \A m \in 0 .. n - 1 : thread_dead(back[m])

Runnable == {t \in Linked : status[t] \notin {"STOPPED", "KILLED"}}

\* Mutant: one joiner is not worth looking for.
Joined_few == IF num["JOIN"] > 1
              THEN {t \in Waiters("JOIN") : thread_dead(join[t])} ELSE {}

\* Joiners whose thread is dead; looked for only when the counter says so.
Joined == IF num["JOIN"] # 0
          THEN {t \in Waiters("JOIN") : thread_dead(join[t])} ELSE {}

Expired == IF num["TIME"] > 0
           THEN {t \in Waiters("TIME") : delay[t] <= now} ELSE {}

\* The first waiter for each readable descriptor ("only one thread per fd").
FdReady(s) == IF num["FD"] > 0
              THEN {t \in Waiters("FD") :
                      /\ fd[t] \in readable
                      /\ \A u \in Waiters("FD") :
                           fd[u] = fd[t] => Pos(s, t) <= Pos(s, u)}
              ELSE {}

Timed == num["FD"] > 0 \/ num["TIME"] > 0

\* No thread but the current one: thread_schedule() returns at once.
ScheduleAlone ==
  /\ proc = "up" /\ scheduling /\ Alone
  /\ scheduling' = FALSE /\ thread_pending' = FALSE
  /\ UNCHANGED <<list, status, waits, curr_thread, thread_critical, saved, pc,
                 env, ends>>

(***************************************************************************)
(* The thread a pass of thread_schedule() that starts at s                 *)
(* chooses: the next runnable one, unless some delay has expired.  With *)
(* no thread to run but timed waiters, it stays in select().               *)
(***************************************************************************)
Chosen(n, s) ==
  \E n1, n2 \in Thread \cup {NoThread} :
    /\ IsFirst(n1, s, Runnable)
    /\ IF n1 # NoThread THEN n2 = n1 ELSE IsFirst(n2, s, Joined)
    /\ IF Expired # {} THEN IsLast(n, s, Expired)
       ELSE IF n2 # NoThread THEN n = n2
       ELSE IsFirst(n, s, FdReady(s))

\* Wakes the joiners J, the sleepers E and the descriptor waiters F.
Wakes(J, E, F) ==
  /\ wait_for' = [t \in Thread |->
                    wait_for[t] \ ( (IF t \in J THEN {"JOIN"} ELSE {})
                               \cup (IF t \in E THEN {"TIME"} ELSE {})
                               \cup (IF t \in F THEN {"FD"} ELSE {}))]
  /\ num' = [num EXCEPT !["JOIN"] = @ - Cardinality(J),
                        !["TIME"] = @ - Cardinality(E),
                        !["FD"]   = @ - Cardinality(F)]
  /\ status' = [t \in Thread |->
                  IF t \in J \cup E \cup F THEN "RUNNABLE" ELSE status[t]]
  /\ join'  = [t \in Thread |-> IF t \in J THEN NoThread ELSE join[t]]
  /\ fd'    = [t \in Thread |-> IF t \in F THEN NoFd ELSE fd[t]]
  /\ delay' = [t \in Thread |-> IF t \in E THEN 0 ELSE delay[t]]

(***************************************************************************)
(* thread_restore_context(n, ...) as thread_schedule() calls it: a thread  *)
(* to be killed is resumed by a jump (TAG_FATAL) to its ensure clauses,    *)
(* which leaves ruby_run if n was already there.                           *)
(***************************************************************************)
Resume(n) ==
  /\ curr_thread' = n
  /\ IF status'[n] = "TO_KILL"
     THEN /\ scheduling' = FALSE
          /\ IF pc[n] = "wait_other"
             THEN proc' = "exit" /\ UNCHANGED <<pc, abort_on>>
             ELSE pc' = [pc EXCEPT ![n] = "ensure"] /\ UNCHANGED ends
     ELSE /\ scheduling' = (saved[n] = "sched")
          /\ UNCHANGED <<pc, ends>>

Schedule ==
  /\ proc = "up" /\ scheduling /\ ~Alone
  /\ \E s \in Thread, n \in Thread :
       /\ ScanStart(s) /\ Chosen(n, s)
       /\ Wakes(Joined, Expired, FdReady(s))
       /\ IF n = curr_thread
          THEN scheduling' = FALSE /\ UNCHANGED <<curr_thread, saved, pc, ends>>
          ELSE /\ saved' = IF s = curr_thread
                           THEN [saved EXCEPT ![curr_thread] = "op"] ELSE saved
               /\ Resume(n)
  /\ thread_pending' = FALSE
  /\ UNCHANGED <<list, thread_critical, env>>

\* A signal breaks select() after the joiners and sleepers were made runnable;
\* thread_schedule() starts again ("goto select_err").
ScheduleRestart ==
  /\ proc = "up" /\ scheduling /\ ~Alone
  /\ num["FD"] > 0 /\ Joined \cup Expired # {}
  /\ Wakes(Joined, Expired, {})
  /\ thread_pending' = FALSE
  /\ UNCHANGED <<list, curr_thread, thread_critical, saved, pc, scheduling, env, ends>>

\* Mutant: sleepers and readers do not count.
ScheduleDeadlock_untimed ==
  /\ proc = "up" /\ scheduling /\ ~Alone /\ Runnable = {} /\ Joined = {}
  /\ proc' = "deadlock" /\ abort_on' = curr_thread
  /\ curr_thread' = Main
  /\ thread_pending' = FALSE
  /\ UNCHANGED <<list, status, waits, thread_critical, saved, pc, scheduling, env>>

\* Mutant: the thread to become current is read before it is set.
ScheduleDeadlock_unset ==
  /\ proc = "up" /\ scheduling /\ ~Alone /\ ~Timed
  /\ Runnable = {} /\ Joined = {}
  /\ proc' = "deadlock" /\ abort_on' = curr_thread
  /\ curr_thread' = abort_on
  /\ thread_pending' = FALSE
  /\ UNCHANGED <<list, status, waits, thread_critical, saved, pc, scheduling, env>>

\* Nobody can run and nobody waits for the environment: thread_deadlock()
\* makes main current and aborts, on the stack of the thread that was current.
ScheduleDeadlock ==
  /\ proc = "up" /\ scheduling /\ ~Alone /\ ~Timed
  /\ Runnable = {} /\ Joined = {}
  /\ proc' = "deadlock" /\ abort_on' = curr_thread
  /\ curr_thread' = Main
  /\ thread_pending' = FALSE
  /\ UNCHANGED <<list, status, waits, thread_critical, saved, pc, scheduling, env>>

-----------------------------------------------------------------------------
(***************************************************************************)
(* Thread methods, called by the current thread.                           *)
(***************************************************************************)

\* Mutant: curr_thread->next is overwritten before th->next is read from it.
thread_create_late(th) ==
  /\ Running /\ status[th] = "NONE"
  /\ status' = [status EXCEPT ![th] = "RUNNABLE"]
  /\ prev' = [prev EXCEPT ![th] = curr_thread, ![next[curr_thread]] = th]
  /\ next' = [next EXCEPT ![th] = th, ![curr_thread] = th]
  /\ saved' = [saved EXCEPT ![curr_thread] = "op", ![th] = "op"]
  /\ curr_thread' = th
  /\ pc' = [pc EXCEPT ![th] = "run"]
  /\ UNCHANGED <<waits, flags, scheduling, env, ends>>

\* Mutant: the creator's context is not saved.
thread_create_unsaved(th) ==
  /\ Running /\ status[th] = "NONE"
  /\ status' = [status EXCEPT ![th] = "RUNNABLE"]
  /\ prev' = [prev EXCEPT ![th] = curr_thread, ![next[curr_thread]] = th]
  /\ next' = [next EXCEPT ![th] = next[curr_thread], ![curr_thread] = th]
  /\ saved' = [saved EXCEPT ![th] = "op"]
  /\ curr_thread' = th
  /\ pc' = [pc EXCEPT ![th] = "run"]
  /\ UNCHANGED <<waits, flags, scheduling, env, ends>>

\* Thread.start: link th after curr_thread, save both contexts, run th.
thread_create(th) ==
  /\ Running /\ status[th] = "NONE"
  /\ status' = [status EXCEPT ![th] = "RUNNABLE"]
  /\ prev' = [prev EXCEPT ![th] = curr_thread, ![next[curr_thread]] = th]
  /\ next' = [next EXCEPT ![th] = next[curr_thread], ![curr_thread] = th]
  /\ saved' = [saved EXCEPT ![curr_thread] = "op", ![th] = "op"]
  /\ curr_thread' = th
  /\ pc' = [pc EXCEPT ![th] = "run"]
  /\ UNCHANGED <<waits, flags, scheduling, env, ends>>

\* thread_remove(): unlink the current thread and schedule.
thread_remove ==
  /\ next' = [next EXCEPT ![prev[curr_thread]] = next[curr_thread]]
  /\ prev' = [prev EXCEPT ![next[curr_thread]] = prev[curr_thread]]
  /\ pc' = [pc EXCEPT ![curr_thread] = "dead"]
  /\ scheduling' = TRUE

\* The thread's block returns, raises, throws, or was unwound by a kill.
ThreadFinish ==
  /\ Running /\ curr_thread # Main
  /\ thread_remove
  /\ thread_ready(curr_thread, "KILLED")
  /\ UNCHANGED <<curr_thread, flags, saved, env, ends>>

\* thread_cleanup(): every other thread is to be killed and waits for nothing;
\* the counters are left as they are.
Cleaned(t) == t \in Linked /\ t # curr_thread /\ ~thread_dead(t)

thread_cleanup ==
  /\ wait_for' = [t \in Thread |-> IF Cleaned(t) THEN {} ELSE wait_for[t]]
  /\ status' = [t \in Thread |-> IF Cleaned(t) THEN "TO_KILL" ELSE status[t]]
  /\ UNCHANGED <<num, join, fd, delay>>

\* exit, or a fatal error, inside a thread stops the whole script.
ThreadSystemExit ==
  /\ "exit" \in Uses
  /\ Running /\ curr_thread # Main /\ status[curr_thread] # "TO_KILL"
  /\ thread_remove
  /\ wait_for' = [t \in Thread |->
                    IF Cleaned(t) \/ t = curr_thread THEN {} ELSE wait_for[t]]
  /\ status' = [t \in Thread |-> IF t = curr_thread THEN "KILLED"
                                 ELSE IF Cleaned(t) THEN "TO_KILL" ELSE status[t]]
  /\ num' = [w \in Wait |-> num[w] - IF w \in wait_for[curr_thread] THEN 1 ELSE 0]
  /\ UNCHANGED <<join, fd, delay, curr_thread, flags, saved, env, ends>>

\* The main program ends: kill the others, then wait for them.
MainEnd ==
  /\ Running /\ curr_thread = Main
  /\ thread_cleanup
  /\ pc' = [pc EXCEPT ![Main] = "wait_other"]
  /\ UNCHANGED <<list, curr_thread, flags, saved, scheduling, env, ends>>

thread_wait_other_threads ==
  /\ proc = "up" /\ ~scheduling /\ pc[curr_thread] = "wait_other"
  /\ IF Alone THEN proc' = "exit" /\ UNCHANGED scheduling
              ELSE scheduling' = TRUE /\ UNCHANGED proc
  /\ UNCHANGED <<list, status, waits, curr_thread, flags, saved, pc, env, abort_on>>

\* Stop the current thread until w happens, and schedule.
WaitOn(w) ==
  /\ status' = [status EXCEPT ![curr_thread] = "STOPPED"]
  /\ wait_for' = [wait_for EXCEPT ![curr_thread] = @ \cup {w}]
  /\ num' = [num EXCEPT ![w] = @ + 1]
  /\ scheduling' = TRUE
  /\ UNCHANGED <<list, curr_thread, flags, saved, pc, env, ends>>

\* Thread.join and Thread#value.  Joining a thread that joins the caller raises.
thread_join(th) ==
  /\ Running /\ status[th] # "NONE" /\ ~thread_dead(th)
  /\ ~("JOIN" \in wait_for[th] /\ join[th] = curr_thread)
  /\ WaitOn("JOIN")
  /\ join' = [join EXCEPT ![curr_thread] = th]
  /\ UNCHANGED <<fd, delay>>

thread_wait_fd(f) ==
  /\ "wait_fd" \in Uses /\ Running /\ ~Alone
  /\ WaitOn("FD")
  /\ fd' = [fd EXCEPT ![curr_thread] = f]
  /\ UNCHANGED <<join, delay>>

\* sleep(d); a sleep without argument lasts DELAY_INFTY.
thread_wait_for(d) ==
  /\ "sleep" \in Uses /\ Running /\ ~Alone /\ now + d <= MaxTime
  /\ WaitOn("TIME")
  /\ delay' = [delay EXCEPT ![curr_thread] = now + d]
  /\ UNCHANGED <<join, fd>>

thread_sleep_forever ==
  /\ "sleep" \in Uses /\ Running /\ ~Alone
  /\ WaitOn("TIME")
  /\ delay' = [delay EXCEPT ![curr_thread] = DELAY_INFTY]
  /\ UNCHANGED <<join, fd>>

thread_wakeup(th) ==
  /\ Running /\ status[th] \notin {"NONE", "KILLED"}
  /\ thread_ready(th, "RUNNABLE")
  /\ UNCHANGED <<list, curr_thread, flags, saved, pc, scheduling, env, ends>>

thread_run(th) ==
  /\ Running /\ status[th] \notin {"NONE", "KILLED"}
  /\ thread_ready(th, "RUNNABLE")
  /\ scheduling' = ~thread_critical
  /\ UNCHANGED <<list, curr_thread, flags, saved, pc, env, ends>>

\* Thread#exit, Thread.kill and Thread.exit.  Killing main is an exit: see
\* ThreadSystemExit (in another thread) and MainEnd (in main).
thread_kill(th) ==
  /\ "kill" \in Uses /\ Running /\ th # Main /\ status[th] \in {"RUNNABLE", "STOPPED"}
  /\ thread_ready(th, "TO_KILL")
  /\ scheduling' = TRUE
  /\ UNCHANGED <<list, curr_thread, flags, saved, pc, env, ends>>

\* Thread.pass; also each turn of the polling loops that wait for a writable
\* descriptor, in Kernel#select, and for another thread's require.
thread_pass ==
  /\ Running
  /\ scheduling' = TRUE
  /\ UNCHANGED <<list, status, waits, curr_thread, flags, saved, pc, env, ends>>

\* Thread.stop and Thread#stop.
thread_stop_method(th) ==
  /\ Running /\ status[th] # "NONE"
  /\ IF thread_dead(th) THEN "stop_dead" \in Uses ELSE "stop" \in Uses
  /\ thread_critical' = FALSE
  /\ status' = [status EXCEPT ![th] = "STOPPED"]
  /\ scheduling' = TRUE
  /\ UNCHANGED <<list, waits, curr_thread, thread_pending, saved, pc, env, ends>>

\* Thread.critical = v
thread_set_critical(v) ==
  /\ "critical" \in Uses /\ Running /\ thread_critical # v
  /\ thread_critical' = v
  /\ UNCHANGED <<list, status, waits, curr_thread, thread_pending, saved, pc,
                 scheduling, env, ends>>

\* An exception reaches th, which becomes current: it may rescue it or end;
\* at the end of ruby_run it leaves the process.
Interrupted(th) ==
  /\ curr_thread' = th
  /\ scheduling' = FALSE
  /\ proc' = IF pc[th] = "wait_other" THEN "exit" ELSE proc
  /\ UNCHANGED <<pc, abort_on>>

\* Thread#raise on another thread.
thread_raise(th) ==
  /\ "raise" \in Uses /\ Running /\ th # curr_thread /\ status[th] \notin {"NONE", "KILLED"}
  /\ saved' = [saved EXCEPT ![curr_thread] = "op"]
  /\ thread_ready(th, "RUNNABLE")
  /\ Interrupted(th)
  /\ UNCHANGED <<list, flags, env>>

-----------------------------------------------------------------------------
(***************************************************************************)
(* Signals and the environment.                                            *)
(***************************************************************************)

\* thread_schedule() is in select(), its joiners and sleepers made runnable.
InSelect ==
  /\ proc = "up" /\ scheduling /\ ~Alone /\ Timed /\ Joined \cup Expired = {}
  /\ num["FD"] > 0 \/ Runnable = {}

\* SIGINT, taken by CHECK_INTS in a running thread or in select(): main runs
\* the Interrupt exception; the current thread resumes where it was.
thread_interrupt ==
  /\ "sigint" \in Uses
  /\ Running \/ InSelect
  /\ thread_critical' = FALSE
  /\ thread_ready(Main, "RUNNABLE")
  /\ saved' = IF curr_thread = Main THEN saved
              ELSE [saved EXCEPT ![curr_thread] =
                      IF scheduling THEN "sched" ELSE "op"]
  /\ Interrupted(Main)
  /\ UNCHANGED <<list, thread_pending, env>>

\* SIGVTALRM
catch_timer ==
  /\ proc = "up" /\ ~thread_critical /\ ~thread_pending
  /\ thread_pending' = TRUE
  /\ UNCHANGED <<list, status, waits, curr_thread, thread_critical, saved, pc,
                 scheduling, env, ends>>

\* CHECK_INTS, after every node the current thread evaluates.
CHECK_INTS ==
  /\ Running /\ thread_pending /\ ~thread_critical
  /\ scheduling' = TRUE
  /\ UNCHANGED <<list, status, waits, curr_thread, flags, saved, pc, env, ends>>

ClockTick ==
  /\ proc = "up" /\ now < MaxTime
  /\ now' = now + 1
  /\ UNCHANGED <<list, status, waits, curr_thread, flags, saved, pc, scheduling,
                 readable, ends>>

\* Data arrives on f, or is consumed.
FdChange(f) ==
  /\ proc = "up"
  /\ readable' = IF f \in readable THEN readable \ {f} ELSE readable \cup {f}
  /\ UNCHANGED <<list, status, waits, curr_thread, flags, saved, pc, scheduling,
                 now, ends>>

Terminated == proc # "up" /\ UNCHANGED vars

-----------------------------------------------------------------------------
Init ==
  /\ next = [t \in Thread |-> IF t = Main THEN Main ELSE NoThread]
  /\ prev = next
  /\ status = [t \in Thread |-> IF t = Main THEN "RUNNABLE" ELSE "NONE"]
  /\ wait_for = [t \in Thread |-> {}]
  /\ join = [t \in Thread |-> NoThread]
  /\ fd = [t \in Thread |-> NoFd]
  /\ delay = [t \in Thread |-> 0]
  /\ num = [w \in Wait |-> 0]
  /\ curr_thread = Main
  /\ thread_critical = FALSE /\ thread_pending = FALSE
  /\ saved = [t \in Thread |-> "no"]
  /\ pc = [t \in Thread |-> IF t = Main THEN "run" ELSE "none"]
  /\ scheduling = FALSE
  /\ now = 0 /\ readable = {}
  /\ proc = "up" /\ abort_on = NoThread

Method ==
  \/ ThreadFinish \/ ThreadSystemExit \/ MainEnd \/ thread_wait_other_threads
  \/ thread_sleep_forever \/ thread_pass
  \/ \E th \in Thread :
       \/ thread_create(th) \/ thread_join(th) \/ thread_wakeup(th)
       \/ thread_run(th) \/ thread_kill(th) \/ thread_stop_method(th)
       \/ thread_raise(th)
  \/ \E f \in Fd : thread_wait_fd(f)
  \/ \E d \in 0 .. MaxTime : thread_wait_for(d)
  \/ \E v \in BOOLEAN : thread_set_critical(v)

Scheduler == ScheduleAlone \/ Schedule \/ ScheduleRestart \/ ScheduleDeadlock

Signal == thread_interrupt \/ catch_timer \/ CHECK_INTS

Environment == ClockTick \/ \E f \in Fd : FdChange(f)

Next == Method \/ Scheduler \/ Signal \/ Environment \/ Terminated

Spec == Init /\ [][Next]_vars

\* thread_schedule() is C code that runs to its end, the interval timer keeps
\* ticking, and CHECK_INTS follows every node; the Ruby program is not fair.
Fairness ==
  /\ WF_vars(Scheduler) /\ WF_vars(thread_wait_other_threads)
  /\ WF_vars(catch_timer) /\ WF_vars(CHECK_INTS)

LiveSpec == Spec /\ Fairness

-----------------------------------------------------------------------------
(***************************************************************************)
(* Properties.                                                             *)
(***************************************************************************)

\* Every variable keeps its type.
TypeOK ==
  /\ next \in [Thread -> Thread \cup {NoThread}]
  /\ prev \in [Thread -> Thread \cup {NoThread}]
  /\ status \in [Thread -> Status]
  /\ wait_for \in [Thread -> SUBSET Wait]
  /\ join \in [Thread -> Thread \cup {NoThread}]
  /\ fd \in [Thread -> Fd \cup {NoFd}]
  /\ delay \in [Thread -> Nat]
  /\ num \in [Wait -> Int]
  /\ curr_thread \in Thread
  /\ thread_critical \in BOOLEAN /\ thread_pending \in BOOLEAN
  /\ saved \in [Thread -> Context]
  /\ pc \in [Thread -> Control]
  /\ scheduling \in BOOLEAN
  /\ now \in Nat /\ readable \in SUBSET Fd
  /\ proc \in {"up", "exit", "deadlock"}
  /\ abort_on \in Thread \cup {NoThread}

\* A thread is linked exactly while it is alive, and pointers are inverse.
LinkedAlive == \A t \in Thread : t \in Linked <=> status[t] \notin {"NONE", "KILLED"}
PointersInverse ==
  \A t \in Linked : next[t] \in Linked /\ prev[t] \in Linked /\ prev[next[t]] = t

\* Following next from any linked thread reaches all of them.
OneRing ==
  \A S \in SUBSET Linked :
    S # {} /\ (\A t \in S : next[t] \in S) => S = Linked

\* The FOREACH_THREAD loops of thread_schedule() and thread_cleanup() end, and
\* visit every live thread and no dead one: the list is one ring at all times.
RingInv == LinkedAlive /\ PointersInverse /\ OneRing

\* Only a live, stopped thread waits, and for one reason.
WaitsStopped ==
  \A t \in Thread : wait_for[t] # {} => t \in Linked /\ status[t] = "STOPPED"
OneReason == \A t \in Thread : \A v, w \in wait_for[t] : v = w

\* The counters num_waiting_on_* never hide a waiter from thread_schedule().
CountersCover == \A w \in Wait : num[w] >= Cardinality(Waiters(w))

\* The bookkeeping of waiting threads that thread_schedule() relies on.
WaitInv == WaitsStopped /\ OneReason /\ CountersCover

\* thread_restore_context() never meets Bug("unsaved context").
ContextSaved == \A t \in Linked : t # curr_thread => saved[t] # "no"

\* A deadlock is reported only when no thread can ever run again.
DeadlockSound ==
  proc = "deadlock" =>
    \A t \in Linked : /\ status[t] = "STOPPED"
                      /\ wait_for[t] \subseteq {"JOIN"}
                      /\ "JOIN" \in wait_for[t] => join[t] \in Linked

\* An ensure clause that has begun is not cut short.
EnsureNotCut ==
  [][\A t \in Thread : pc[t] = "ensure" /\ curr_thread # t /\ curr_thread' = t
                         => status'[t] # "TO_KILL"]_vars

\* No starvation: while nobody sleeps, raises or enters a critical section, the
\* round robin of thread_schedule() reaches every runnable thread.
RunnableRuns ==
  \A t \in Thread :
    t \in Runnable ~> (curr_thread = t \/ t \notin Runnable \/ proc # "up")

\* A join on a dead thread returns and an expired sleep ends, without a false
\* report of a deadlock, unless the process exits first.
WaitEnds ==
  \A t \in Thread :
    (\/ "JOIN" \in wait_for[t] /\ thread_dead(join[t])
     \/ "TIME" \in wait_for[t] /\ delay[t] <= now)
      ~> (wait_for[t] = {} \/ proc = "exit")

=============================================================================
