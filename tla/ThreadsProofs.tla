--------------------------- MODULE ThreadsProofs ---------------------------
(***************************************************************************)
(* Proofs about the scheduler, for any set of threads: types, the ring,    *)
(* the bookkeeping of waiting threads, saved contexts, and that a deadlock *)
(* is only reported when there is one.                                     *)
(***************************************************************************)
EXTENDS Threads, FiniteSetTheorems, TLAPS

-----------------------------------------------------------------------------
(***************************************************************************)
(* Type correctness.                                                       *)
(***************************************************************************)

\* Every set of threads has a cardinality.
LEMMA ThreadSets ==
  ASSUME NEW S \in SUBSET Thread
  PROVE  IsFiniteSet(S) /\ Cardinality(S) \in Nat
BY FS_Subset, FS_CardinalityType, ThreadAssumption

\* The sets thread_schedule() makes runnable are sets of linked threads.
LEMMA WokenSets ==
  ASSUME NEW s
  PROVE  /\ Joined \in SUBSET Linked /\ Expired \in SUBSET Linked
         /\ FdReady(s) \in SUBSET Linked
         /\ Linked \in SUBSET Thread
BY DEF Joined, Expired, FdReady, Waiters, Linked

\* The wakeups of one pass of thread_schedule() keep the types.
LEMMA WakesType ==
  ASSUME TypeOK, NEW J \in SUBSET Thread, NEW E \in SUBSET Thread,
         NEW F \in SUBSET Thread, Wakes(J, E, F)
  PROVE  /\ status' \in [Thread -> Status]
         /\ wait_for' \in [Thread -> SUBSET Wait]
         /\ join' \in [Thread -> Thread \cup {NoThread}]
         /\ fd' \in [Thread -> Fd \cup {NoFd}]
         /\ delay' \in [Thread -> Nat]
         /\ num' \in [Wait -> Int]
<1>1. /\ Cardinality(J) \in Int /\ Cardinality(E) \in Int
      /\ Cardinality(F) \in Int
  BY ThreadSets
<1>2. num' \in [Wait -> Int]
  BY <1>1 DEF TypeOK, Wakes, Wait
<1>3. status' \in [Thread -> Status]
  BY DEF TypeOK, Wakes, Status
<1>4. wait_for' \in [Thread -> SUBSET Wait]
  BY DEF TypeOK, Wakes
<1>5. /\ join' \in [Thread -> Thread \cup {NoThread}]
      /\ fd' \in [Thread -> Fd \cup {NoFd}]
      /\ delay' \in [Thread -> Nat]
  BY DEF TypeOK, Wakes
<1> QED
  BY <1>2, <1>3, <1>4, <1>5

\* thread_ready() keeps the types.
LEMMA ReadyType ==
  ASSUME TypeOK, NEW t \in Thread, NEW st \in Status, thread_ready(t, st)
  PROVE  /\ status' \in [Thread -> Status]
         /\ wait_for' \in [Thread -> SUBSET Wait]
         /\ join' \in [Thread -> Thread \cup {NoThread}]
         /\ fd' \in [Thread -> Fd \cup {NoFd}]
         /\ delay' \in [Thread -> Nat]
         /\ num' \in [Wait -> Int]
BY DEF TypeOK, thread_ready

\* Types are kept by every step.
LEMMA TypeStep ==
  ASSUME TypeOK, [Next]_vars
  PROVE  TypeOK'
<1> USE ThreadAssumption
<1> USE DEF list, waits, flags, env, ends, Context, Control
<1>1. CASE ThreadFinish
  BY <1>1, ReadyType DEF ThreadFinish, thread_remove, Running, Status, TypeOK
<1>2. CASE ThreadSystemExit
  <2>1. /\ status' \in [Thread -> Status] /\ wait_for' \in [Thread -> SUBSET Wait]
        /\ num' \in [Wait -> Int]
    BY <1>2 DEF ThreadSystemExit, Status, TypeOK
  <2>2. /\ next' \in [Thread -> Thread \cup {NoThread}]
        /\ prev' \in [Thread -> Thread \cup {NoThread}]
        /\ pc' \in [Thread -> Control] /\ scheduling' \in BOOLEAN
    BY <1>2 DEF ThreadSystemExit, thread_remove, TypeOK
  <2> QED
    BY <1>2, <2>1, <2>2 DEF ThreadSystemExit, TypeOK
<1>3. CASE MainEnd
  BY <1>3 DEF MainEnd, thread_cleanup, Status, TypeOK
<1>4. CASE thread_wait_other_threads
  BY <1>4 DEF thread_wait_other_threads, TypeOK
<1>5. CASE thread_sleep_forever
  BY <1>5 DEF thread_sleep_forever, WaitOn, DELAY_INFTY, Wait, Status, TypeOK
<1>6. CASE thread_pass
  BY <1>6 DEF thread_pass, TypeOK
<1>7. ASSUME NEW th \in Thread, thread_create(th) PROVE TypeOK'
  BY <1>7 DEF thread_create, Status, TypeOK
<1>8. ASSUME NEW th \in Thread, thread_join(th) PROVE TypeOK'
  BY <1>8 DEF thread_join, WaitOn, Wait, Status, TypeOK
<1>9. ASSUME NEW th \in Thread, thread_wakeup(th) PROVE TypeOK'
  BY <1>9, ReadyType DEF thread_wakeup, Status, TypeOK
<1>10. ASSUME NEW th \in Thread, thread_run(th) PROVE TypeOK'
  BY <1>10, ReadyType DEF thread_run, Status, TypeOK
<1>11. ASSUME NEW th \in Thread, thread_kill(th) PROVE TypeOK'
  BY <1>11, ReadyType DEF thread_kill, Status, TypeOK
<1>12. ASSUME NEW th \in Thread, thread_stop_method(th) PROVE TypeOK'
  BY <1>12 DEF thread_stop_method, Status, TypeOK
<1>13. ASSUME NEW th \in Thread, thread_raise(th) PROVE TypeOK'
  BY <1>13, ReadyType DEF thread_raise, Interrupted, Status, TypeOK
<1>14. ASSUME NEW f \in Fd, thread_wait_fd(f) PROVE TypeOK'
  BY <1>14 DEF thread_wait_fd, WaitOn, Wait, Status, TypeOK
<1>15. ASSUME NEW d \in 0 .. MaxTime, thread_wait_for(d) PROVE TypeOK'
  BY <1>15 DEF thread_wait_for, WaitOn, Wait, Status, TypeOK
<1>16. ASSUME NEW v \in BOOLEAN, thread_set_critical(v) PROVE TypeOK'
  BY <1>16 DEF thread_set_critical, TypeOK
<1>17. CASE ScheduleAlone
  BY <1>17 DEF ScheduleAlone, TypeOK
<1>18. CASE Schedule
  <2>1. PICK s \in Thread, n \in Thread :
          /\ Wakes(Joined, Expired, FdReady(s))
          /\ IF n = curr_thread
             THEN scheduling' = FALSE /\ UNCHANGED <<curr_thread, saved, pc, ends>>
             ELSE /\ saved' = IF s = curr_thread
                              THEN [saved EXCEPT ![curr_thread] = "op"] ELSE saved
                  /\ Resume(n)
    BY <1>18 DEF Schedule
  <2>2. UNCHANGED <<list, thread_critical, env>> /\ thread_pending' = FALSE
    BY <1>18 DEF Schedule
  <2>3. /\ status' \in [Thread -> Status]
        /\ wait_for' \in [Thread -> SUBSET Wait]
        /\ join' \in [Thread -> Thread \cup {NoThread}]
        /\ fd' \in [Thread -> Fd \cup {NoFd}]
        /\ delay' \in [Thread -> Nat]
        /\ num' \in [Wait -> Int]
    BY <2>1, WokenSets, WakesType
  <2>4. /\ curr_thread' \in Thread /\ saved' \in [Thread -> Context]
        /\ pc' \in [Thread -> Control] /\ scheduling' \in BOOLEAN
        /\ proc' \in {"up", "exit", "deadlock"}
        /\ abort_on' \in Thread \cup {NoThread}
    BY <2>1 DEF Resume, TypeOK
  <2> QED
    BY <2>2, <2>3, <2>4 DEF TypeOK
<1>19. CASE ScheduleRestart
  <2>1. Wakes(Joined, Expired, {})
    BY <1>19 DEF ScheduleRestart
  <2>2. /\ status' \in [Thread -> Status]
        /\ wait_for' \in [Thread -> SUBSET Wait]
        /\ join' \in [Thread -> Thread \cup {NoThread}]
        /\ fd' \in [Thread -> Fd \cup {NoFd}]
        /\ delay' \in [Thread -> Nat]
        /\ num' \in [Wait -> Int]
    BY <2>1, WokenSets, WakesType
  <2> QED
    BY <1>19, <2>2 DEF ScheduleRestart, TypeOK
<1>20. CASE ScheduleDeadlock
  BY <1>20 DEF ScheduleDeadlock, TypeOK
<1>21. CASE thread_interrupt
  BY <1>21, ReadyType DEF thread_interrupt, Interrupted, Status, TypeOK
<1>22. CASE catch_timer
  BY <1>22 DEF catch_timer, TypeOK
<1>23. CASE CHECK_INTS
  BY <1>23 DEF CHECK_INTS, TypeOK
<1>24. CASE ClockTick
  BY <1>24 DEF ClockTick, TypeOK
<1>25. ASSUME NEW f \in Fd, FdChange(f) PROVE TypeOK'
  BY <1>25 DEF FdChange, TypeOK
<1>26. CASE UNCHANGED vars
  BY <1>26 DEF vars, TypeOK
<1> QED
  BY <1>1, <1>2, <1>3, <1>4, <1>5, <1>6, <1>7, <1>8, <1>9, <1>10, <1>11, <1>12,
     <1>13, <1>14, <1>15, <1>16, <1>17, <1>18, <1>19, <1>20, <1>21, <1>22,
     <1>23, <1>24, <1>25, <1>26
  DEF Next, Method, Scheduler, Signal, Environment, Terminated

\* The initial state has the types.
LEMMA TypeInit == ASSUME Init PROVE TypeOK
<1>1. /\ next \in [Thread -> Thread \cup {NoThread}]
      /\ prev \in [Thread -> Thread \cup {NoThread}]
      /\ status \in [Thread -> Status]
  BY ThreadAssumption DEF Init, Status
<1>2. /\ wait_for \in [Thread -> SUBSET Wait]
      /\ join \in [Thread -> Thread \cup {NoThread}]
      /\ fd \in [Thread -> Fd \cup {NoFd}]
      /\ delay \in [Thread -> Nat] /\ num \in [Wait -> Int]
  BY DEF Init
<1>3. saved \in [Thread -> Context] /\ pc \in [Thread -> Control]
  BY DEF Init, Context, Control
<1> QED
  BY <1>1, <1>2, <1>3, ThreadAssumption DEF Init, TypeOK

\* The scheduler's variables keep their types in every behaviour.
THEOREM TypeCorrect == Spec => []TypeOK
BY TypeInit, TypeStep, PTL DEF Spec

-----------------------------------------------------------------------------
(***************************************************************************)
(* The inductive invariant.                                                *)
(***************************************************************************)

\* The control state of a thread agrees with its status.
PcInv ==
  \A t \in Thread : /\ status[t] = "NONE" <=> pc[t] = "none"
                    /\ status[t] = "KILLED" <=> pc[t] = "dead"

\* An allocated thread points to threads, also after it has been unlinked.
PtrInv == \A t \in Thread : status[t] # "NONE" => next[t] \in Thread /\ prev[t] \in Thread

\* The main thread never dies before the process does.
MainAlive == status[Main] \notin {"NONE", "KILLED"}

\* A thread that runs waits for nothing, unless thread_schedule() returned
\* at once because it is alone, which only a join on itself survives.
RunsFree ==
  proc = "up" => /\ ~scheduling => wait_for[curr_thread] = {} \/ Alone
                 /\ Alone => wait_for[curr_thread] \subseteq {"JOIN"}

\* A joiner joins a thread that exists.
JoinInv ==
  \A t \in Thread :
    "JOIN" \in wait_for[t] => join[t] \in Thread /\ status[join[t]] # "NONE"

\* Only main may lack a saved context, and only while it is current.
SavedInv == \A t \in Linked : t # Main \/ curr_thread # Main => saved[t] # "no"

IInv == /\ TypeOK /\ RingInv /\ WaitInv /\ PcInv /\ PtrInv /\ MainAlive
        /\ RunsFree /\ JoinInv /\ SavedInv /\ DeadlockSound

\* The step changes no thread from or to "NONE" or "KILLED".
SameLife ==
  \A t \in Thread : /\ status'[t] = "NONE" <=> status[t] = "NONE"
                    /\ status'[t] = "KILLED" <=> status[t] = "KILLED"

-----------------------------------------------------------------------------
(***************************************************************************)
(* The ring.                                                               *)
(***************************************************************************)

\* A step that keeps the pointers and kills nobody keeps the ring.
LEMMA RingSame ==
  ASSUME RingInv, PtrInv, MainAlive, UNCHANGED list, SameLife, Main \in Thread
  PROVE  RingInv' /\ PtrInv' /\ MainAlive' /\ Linked' = Linked
<1>1. Linked' = Linked
  BY DEF Linked, SameLife, list
<1>2. LinkedAlive'
  BY <1>1 DEF RingInv, LinkedAlive, SameLife
<1>3. PointersInverse' /\ OneRing'
  BY <1>1 DEF RingInv, PointersInverse, OneRing, list
<1> QED
  BY <1>1, <1>2, <1>3 DEF RingInv, PtrInv, MainAlive, SameLife, list

\* thread_create() inserts the new thread behind the current one.
LEMMA RingCreate ==
  ASSUME TypeOK, RingInv, PtrInv, curr_thread \in Linked,
         NEW th \in Thread, thread_create(th)
  PROVE  RingInv' /\ PtrInv' /\ Linked' = Linked \cup {th}
<1> DEFINE c == curr_thread
           n == next[curr_thread]
<1>1. /\ c \in Thread /\ n \in Thread /\ n \in Linked /\ prev[n] = c
      /\ th \notin Linked /\ th # n /\ th # c
      /\ status[th] = "NONE" /\ status[c] # "NONE" /\ status[n] # "NONE"
      /\ status[n] # "KILLED" /\ status[c] # "KILLED"
  BY DEF TypeOK, RingInv, PointersInverse, LinkedAlive, Linked, thread_create
<1>2. /\ prev'[th] = c /\ prev'[n] = th
      /\ \A t \in Thread \ {th, n} : prev'[t] = prev[t]
  BY <1>1 DEF TypeOK, thread_create
<1>3. /\ next'[th] = n /\ next'[c] = th
      /\ \A t \in Thread \ {th, c} : next'[t] = next[t]
  BY <1>1 DEF TypeOK, thread_create
<1>4. /\ status'[th] = "RUNNABLE"
      /\ \A t \in Thread \ {th} : status'[t] = status[t]
  BY DEF TypeOK, thread_create
<1>5. Linked' = Linked \cup {th}
  <2>1. th \in Linked'
    BY <1>2, <1>3, <1>4, <1>1 DEF Linked
  <2>2. ASSUME NEW t \in Thread, t # th
        PROVE  t \in Linked' <=> t \in Linked
    <3>1. CASE t = n
      BY <3>1, <1>1, <1>2, <1>3, <1>4 DEF Linked
    <3>2. CASE status[t] = "NONE"
      BY <3>2, <2>2, <1>4 DEF Linked
    <3>3. CASE t # n /\ status[t] # "NONE"
      <4>1. prev'[t] = prev[t] /\ prev[t] \in Thread
        BY <3>3, <2>2, <1>2 DEF PtrInv
      <4>2. CASE prev[t] = th
        BY <4>1, <4>2, <3>3, <2>2, <1>1, <1>3, <1>4
        DEF RingInv, PointersInverse, Linked
      <4>3. CASE prev[t] = c
        BY <4>1, <4>3, <3>3, <2>2, <1>1, <1>3, <1>4
        DEF RingInv, PointersInverse, Linked
      <4>4. CASE prev[t] # th /\ prev[t] # c
        BY <4>1, <4>4, <3>3, <2>2, <1>3, <1>4 DEF Linked
      <4> QED
        BY <4>2, <4>3, <4>4
    <3> QED
      BY <3>1, <3>2, <3>3
  <2> QED
    BY <2>1, <2>2 DEF Linked
<1>6. LinkedAlive'
  BY <1>5, <1>4 DEF RingInv, LinkedAlive
<1>7. PointersInverse'
  <2> SUFFICES ASSUME NEW t \in Linked'
               PROVE  next'[t] \in Linked' /\ prev'[t] \in Linked' /\ prev'[next'[t]] = t
    BY DEF PointersInverse
  <2>1. CASE t = th
    BY <2>1, <1>1, <1>2, <1>3, <1>5
  <2>2. CASE t = c
    BY <2>2, <1>1, <1>2, <1>3, <1>5 DEF RingInv, PointersInverse, Linked
  <2>3. CASE t # th /\ t # c
    <3>1. t \in Linked /\ t \in Thread /\ next[t] \in Linked /\ prev[t] \in Linked
          /\ prev[next[t]] = t /\ next[t] \in Thread
      BY <2>3, <1>5 DEF RingInv, PointersInverse, Linked
    <3>2. next[t] # n /\ next[t] # th
      BY <3>1, <2>3, <1>1
    <3>3. next'[t] = next[t] /\ prev'[next[t]] = prev[next[t]]
      BY <3>1, <3>2, <2>3, <1>2, <1>3
    <3>4. prev'[t] \in Linked'
      BY <3>1, <2>3, <1>1, <1>2, <1>5
    <3> QED
      BY <3>1, <3>3, <3>4, <1>5
  <2> QED
    BY <2>1, <2>2, <2>3
<1>8. OneRing'
  <2> SUFFICES ASSUME NEW S \in SUBSET Linked', S # {}, \A t \in S : next'[t] \in S
               PROVE  S = Linked'
    BY DEF OneRing
  <2> DEFINE R == S \ {th}
  <2>1. R \in SUBSET Linked
    BY <1>5
  <2>2. R # {}
    BY <1>1, <1>3
  <2>3. ASSUME NEW t \in R PROVE next[t] \in R
    <3>1. t \in Linked /\ t \in Thread /\ next[t] \in Linked
      BY <2>1 DEF Linked, RingInv, PointersInverse
    <3>2. CASE t = c
      BY <3>2, <1>1, <1>3
    <3>3. CASE t # c
      BY <3>1, <3>3, <1>1, <1>3
    <3> QED
      BY <3>2, <3>3
  <2>4. R = Linked
    BY <2>1, <2>2, <2>3 DEF RingInv, OneRing
  <2>5. th \in S
    BY <2>4, <1>3
  <2> QED
    BY <2>4, <2>5, <1>5
<1>9. PtrInv'
  BY <1>1, <1>2, <1>3, <1>4 DEF PtrInv
<1> QED
  BY <1>5, <1>6, <1>7, <1>8, <1>9 DEF RingInv

\* thread_remove() unlinks the current thread, which is not the last one.
LEMMA RingRemove ==
  ASSUME TypeOK, RingInv, PtrInv, MainAlive, Main \in Thread,
         curr_thread \in Linked, curr_thread # Main, thread_remove,
         status'[curr_thread] = "KILLED",
         \A t \in Thread \ {curr_thread} :
           /\ status'[t] = "NONE" <=> status[t] = "NONE"
           /\ status'[t] = "KILLED" <=> status[t] = "KILLED"
  PROVE  RingInv' /\ PtrInv' /\ MainAlive' /\ Linked' = Linked \ {curr_thread}
<1> DEFINE c == curr_thread
           n == next[curr_thread]
           p == prev[curr_thread]
<1>1. /\ c \in Thread /\ n \in Thread /\ p \in Thread
      /\ n \in Linked /\ p \in Linked
      /\ prev[n] = c /\ next[p] = c /\ status[c] # "NONE"
  BY DEF TypeOK, RingInv, PointersInverse, LinkedAlive, Linked
<1>2. n # c
  <2> SUFFICES ASSUME n = c PROVE FALSE
    OBVIOUS
  <2>1. {c} = Linked
    BY DEF RingInv, OneRing
  <2> QED
    BY <2>1 DEF MainAlive, RingInv, LinkedAlive
<1>3. p # c
  BY <1>1, <1>2
<1>4. next'[p] = n /\ \A t \in Thread \ {p} : next'[t] = next[t]
  BY <1>1 DEF TypeOK, thread_remove
<1>5. prev'[n] = p /\ \A t \in Thread \ {n} : prev'[t] = prev[t]
  BY <1>1 DEF TypeOK, thread_remove
<1>6. Linked' = Linked \ {c}
  <2>1. c \notin Linked'
    BY <1>1, <1>2, <1>4, <1>5 DEF Linked
  <2>2. ASSUME NEW t \in Thread, t # c
        PROVE  t \in Linked' <=> t \in Linked
    <3>1. CASE t = n
      BY <3>1, <2>2, <1>1, <1>4, <1>5 DEF Linked
    <3>2. CASE status[t] = "NONE"
      BY <3>2, <2>2 DEF Linked
    <3>3. CASE t # n /\ status[t] # "NONE"
      <4>1. prev'[t] = prev[t] /\ prev[t] \in Thread
        BY <3>3, <1>5 DEF PtrInv
      <4>2. CASE prev[t] = p
        BY <4>1, <4>2, <3>3, <2>2, <1>1, <1>4 DEF Linked
      <4>3. CASE prev[t] # p
        BY <4>1, <4>3, <3>3, <2>2, <1>4 DEF Linked
      <4> QED
        BY <4>2, <4>3
    <3> QED
      BY <3>1, <3>2, <3>3
  <2> QED
    BY <2>1, <2>2 DEF Linked
<1>7. LinkedAlive'
  BY <1>6, <1>1 DEF RingInv, LinkedAlive
<1>8. PointersInverse'
  <2> SUFFICES ASSUME NEW t \in Linked'
               PROVE  next'[t] \in Linked' /\ prev'[t] \in Linked' /\ prev'[next'[t]] = t
    BY DEF PointersInverse
  <2>1. t \in Linked /\ t \in Thread /\ t # c /\ next[t] \in Linked
        /\ prev[t] \in Linked /\ prev[next[t]] = t /\ next[t] \in Thread
        /\ next[prev[t]] = t
    BY <1>6 DEF RingInv, PointersInverse, Linked
  <2>2. next'[t] \in Linked'
    BY <2>1, <1>1, <1>2, <1>4, <1>6
  <2>3. prev'[t] \in Linked'
    BY <2>1, <1>1, <1>3, <1>5, <1>6
  <2>4. prev'[next'[t]] = t
    BY <2>1, <1>1, <1>4, <1>5
  <2> QED
    BY <2>2, <2>3, <2>4
<1>9. OneRing'
  <2> SUFFICES ASSUME NEW S \in SUBSET Linked', S # {}, \A t \in S : next'[t] \in S
               PROVE  S = Linked'
    BY DEF OneRing
  <2> DEFINE R == IF p \in S THEN S \cup {c} ELSE S
  <2>1. R \in SUBSET Linked /\ R # {}
    BY <1>6
  <2>2. ASSUME NEW t \in R PROVE next[t] \in R
    <3>1. t \in Thread
      BY <2>1 DEF Linked
    <3>2. CASE t = c
      BY <3>2, <1>4, <1>6
    <3>3. CASE t = p
      BY <3>3, <1>1, <1>3
    <3>4. CASE t # c /\ t # p
      BY <3>1, <3>4, <1>4
    <3> QED
      BY <3>2, <3>3, <3>4
  <2>3. R = Linked
    BY <2>1, <2>2 DEF RingInv, OneRing
  <2> QED
    BY <2>3, <1>6
<1>10. PtrInv'
  BY <1>1, <1>4, <1>5 DEF PtrInv
<1> QED
  BY <1>6, <1>7, <1>8, <1>9, <1>10 DEF RingInv, MainAlive

-----------------------------------------------------------------------------
(***************************************************************************)
(* The waiting threads and their counters.                                 *)
(***************************************************************************)

\* The threads whose wait_for holds w, linked or not.
Flagged(w) == {t \in Thread : w \in wait_for[t]}

\* Only linked threads are flagged, so the counters cover the flagged threads.
LEMMA CoverFlagged ==
  ASSUME WaitInv
  PROVE  \A w \in Wait : Flagged(w) = Waiters(w) /\ num[w] >= Cardinality(Flagged(w))
<1>1. \A w \in Wait : Flagged(w) = Waiters(w)
  BY DEF WaitInv, WaitsStopped, Flagged, Waiters, Linked
<1> QED
  BY <1>1 DEF WaitInv, CountersCover

\* Counters that cover the flagged threads cover the waiters.
LEMMA CoverNext ==
  ASSUME WaitsStopped', OneReason', \A w \in Wait : num'[w] >= Cardinality(Flagged(w)')
  PROVE  WaitInv'
<1>1. \A w \in Wait : Flagged(w)' = Waiters(w)'
  BY DEF WaitsStopped, Flagged, Waiters, Linked
<1> QED
  BY <1>1 DEF WaitInv, CountersCover

\* The counters drop for a thread that leaves all sets of flagged threads.
LEMMA CoverRemove ==
  ASSUME TypeOK, WaitInv, NEW t \in Thread,
         num' = [w \in Wait |-> num[w] - IF w \in wait_for[t] THEN 1 ELSE 0],
         \A w \in Wait : Flagged(w)' \subseteq Flagged(w) \ {t}
  PROVE  \A w \in Wait : num'[w] >= Cardinality(Flagged(w)')
<1> SUFFICES ASSUME NEW w \in Wait PROVE num'[w] >= Cardinality(Flagged(w)')
  OBVIOUS
<1> DEFINE W == Flagged(w)
<1>1. W \in SUBSET Thread /\ IsFiniteSet(W) /\ Cardinality(W) \in Nat
  BY ThreadSets DEF Flagged
<1>2. /\ IsFiniteSet(W \ {t})
      /\ Cardinality(W \ {t}) = IF t \in W THEN Cardinality(W) - 1 ELSE Cardinality(W)
  BY <1>1, FS_RemoveElement
<1>3. Cardinality(Flagged(w)') <= Cardinality(W \ {t}) /\ Cardinality(Flagged(w)') \in Nat
  BY <1>2, FS_Subset, FS_CardinalityType
<1>4. num[w] \in Int /\ num[w] >= Cardinality(W)
  BY CoverFlagged DEF TypeOK
<1>5. num'[w] = num[w] - IF t \in W THEN 1 ELSE 0
  BY DEF Flagged
<1>6. Cardinality(W \ {t}) \in Nat
  BY <1>2, FS_CardinalityType
<1> QED
  BY <1>1, <1>2, <1>3, <1>4, <1>5, <1>6

\* The counters stay right when threads are taken out without being counted.
LEMMA CoverShrink ==
  ASSUME TypeOK, WaitInv, num' = num,
         \A w \in Wait : Flagged(w)' \subseteq Flagged(w)
  PROVE  \A w \in Wait : num'[w] >= Cardinality(Flagged(w)')
<1> SUFFICES ASSUME NEW w \in Wait PROVE num'[w] >= Cardinality(Flagged(w)')
  OBVIOUS
<1>1. Flagged(w) \in SUBSET Thread /\ IsFiniteSet(Flagged(w)) /\ Cardinality(Flagged(w)) \in Nat
  BY ThreadSets DEF Flagged
<1>2. Cardinality(Flagged(w)') <= Cardinality(Flagged(w)) /\ Cardinality(Flagged(w)') \in Nat
  BY <1>1, FS_Subset, FS_CardinalityType
<1> QED
  BY <1>1, <1>2, CoverFlagged DEF TypeOK

\* The step makes exactly the threads of S runnable, and they wait for nothing.
Woken(S) ==
  /\ \A t \in S : wait_for'[t] = {} /\ status'[t] = "RUNNABLE"
  /\ \A t \in Thread \ S : wait_for'[t] = wait_for[t] /\ status'[t] = status[t]

\* A waiter that thread_schedule() wakes waited for nothing else.
LEMMA WokenFree ==
  ASSUME TypeOK, WaitInv, NEW J \in SUBSET Waiters("JOIN"),
         NEW E \in SUBSET Waiters("TIME"), NEW F \in SUBSET Waiters("FD"),
         Wakes(J, E, F)
  PROVE  Woken(J \cup E \cup F)
<1>0. J \subseteq Thread /\ E \subseteq Thread /\ F \subseteq Thread
  BY DEF Waiters, Linked
<1>1. ASSUME NEW t \in J PROVE wait_for[t] = {"JOIN"}
  BY <1>1 DEF WaitInv, OneReason, Waiters, Linked
<1>2. ASSUME NEW t \in E PROVE wait_for[t] = {"TIME"}
  BY <1>2 DEF WaitInv, OneReason, Waiters, Linked
<1>3. ASSUME NEW t \in F PROVE wait_for[t] = {"FD"}
  BY <1>3 DEF WaitInv, OneReason, Waiters, Linked
<1>4. \A t \in J \cup E \cup F : wait_for'[t] = {}
  BY <1>0, <1>1, <1>2, <1>3 DEF Wakes
<1> QED
  BY <1>0, <1>4 DEF Wakes, Woken

\* The flags and the counters are lowered together.
LEMMA CoverWakes ==
  ASSUME TypeOK, WaitInv, NEW J \in SUBSET Waiters("JOIN"),
         NEW E \in SUBSET Waiters("TIME"), NEW F \in SUBSET Waiters("FD"),
         Wakes(J, E, F)
  PROVE  \A w \in Wait : num'[w] >= Cardinality(Flagged(w)')
<1> DEFINE Gone(w) == IF w = "JOIN" THEN J ELSE IF w = "TIME" THEN E ELSE F
<1> SUFFICES ASSUME NEW w \in Wait PROVE num'[w] >= Cardinality(Flagged(w)')
  OBVIOUS
<1>1. Waiters(w) = Flagged(w) /\ num[w] >= Cardinality(Flagged(w)) /\ num[w] \in Int
  BY CoverFlagged DEF TypeOK
<1>2. Gone(w) \in SUBSET Flagged(w)
  BY <1>1 DEF Wait
<1>3. Flagged(w)' \subseteq Flagged(w) \ Gone(w)
  BY DEF Flagged, Wakes, Waiters, Linked, Wait
<1>4. Flagged(w) \in SUBSET Thread /\ IsFiniteSet(Flagged(w)) /\ Cardinality(Flagged(w)) \in Nat
  BY ThreadSets DEF Flagged
<1>5. IsFiniteSet(Gone(w)) /\ Cardinality(Gone(w)) \in Nat
  BY <1>2, <1>4, FS_Subset, FS_CardinalityType
<1>6. num'[w] = num[w] - Cardinality(Gone(w))
  BY DEF Wakes, TypeOK, Wait
<1>7. /\ IsFiniteSet(Flagged(w) \ Gone(w))
      /\ Cardinality(Flagged(w) \ Gone(w)) \in Nat
      /\ Cardinality(Flagged(w) \ Gone(w)) = Cardinality(Flagged(w)) - Cardinality(Gone(w))
  <2>1. Flagged(w) \cap Gone(w) = Gone(w)
    BY <1>2
  <2> HIDE DEF Gone
  <2>2. /\ IsFiniteSet(Flagged(w) \ Gone(w))
        /\ Cardinality(Flagged(w) \ Gone(w))
             = Cardinality(Flagged(w)) - Cardinality(Flagged(w) \cap Gone(w))
    BY <1>4, FS_Difference
  <2> QED
    BY <2>1, <2>2, FS_CardinalityType
<1>8. /\ Cardinality(Flagged(w)') <= Cardinality(Flagged(w) \ Gone(w))
      /\ Cardinality(Flagged(w)') \in Nat
  BY <1>3, <1>7, FS_Subset, FS_CardinalityType
<1> QED
  BY <1>1, <1>4, <1>5, <1>6, <1>7, <1>8

-----------------------------------------------------------------------------
(***************************************************************************)
(* Steps.                                                                  *)
(***************************************************************************)

\* A running thread is linked.
LEMMA RunningLinked ==
  ASSUME IInv, Running
  PROVE  curr_thread \in Linked /\ curr_thread \in Thread /\ proc = "up" /\ ~scheduling
BY DEF IInv, Running, PcInv, RingInv, LinkedAlive, TypeOK

\* Steps that only touch flags, the environment, or start thread_schedule().
LEMMA QuietStep ==
  ASSUME IInv, TypeOK',
         UNCHANGED <<list, status, wait_for, join, num, curr_thread, saved, pc>>,
         proc' = proc \/ proc' = "exit",
         proc' = "up" /\ ~scheduling' => ~scheduling \/ Alone
  PROVE  IInv'
<1>1. RingInv' /\ PtrInv' /\ MainAlive' /\ Linked' = Linked
  BY RingSame, ThreadAssumption DEF IInv, SameLife
<1>2. WaitInv'
  BY <1>1 DEF IInv, WaitInv, WaitsStopped, OneReason, CountersCover, Waiters
<1>3. PcInv' /\ JoinInv' /\ SavedInv'
  BY <1>1 DEF IInv, PcInv, JoinInv, SavedInv
<1>4. RunsFree'
  BY DEF IInv, RunsFree, Alone, list
<1>5. DeadlockSound'
  BY <1>1 DEF IInv, DeadlockSound
<1> QED
  BY <1>1, <1>2, <1>3, <1>4, <1>5 DEF IInv

\* Steps that end the waiting of one thread and may make it current.
LEMMA ReadyStep ==
  ASSUME IInv, TypeOK', NEW t \in Thread, status[t] \notin {"NONE", "KILLED"},
         NEW st \in {"RUNNABLE", "TO_KILL"}, thread_ready(t, st),
         UNCHANGED <<list, pc>>, proc = "up", proc' \in {"up", "exit"},
         curr_thread' \in {curr_thread, t},
         curr_thread' # t /\ ~scheduling' => ~scheduling,
         \A u \in Thread : saved[u] # "no" => saved'[u] # "no",
         curr_thread' # curr_thread => saved'[curr_thread] # "no"
  PROVE  IInv'
<1>1. /\ status'[t] = st /\ wait_for'[t] = {} /\ join' = join
      /\ \A u \in Thread \ {t} : status'[u] = status[u] /\ wait_for'[u] = wait_for[u]
  BY DEF IInv, TypeOK, thread_ready
<1>2. SameLife
  BY <1>1 DEF SameLife
<1>3. RingInv' /\ PtrInv' /\ MainAlive' /\ Linked' = Linked
  BY <1>2, RingSame, ThreadAssumption DEF IInv
<1>4. WaitInv'
  <2>1. WaitsStopped'
    BY <1>1, <1>3 DEF IInv, WaitInv, WaitsStopped
  <2>2. OneReason'
    BY <1>1 DEF IInv, WaitInv, OneReason
  <2>3. \A w \in Wait : Flagged(w)' \subseteq Flagged(w) \ {t}
    BY <1>1 DEF Flagged
  <2> QED
    BY <2>1, <2>2, <2>3, CoverRemove, CoverNext DEF IInv, thread_ready
<1>5. PcInv'
  BY <1>2 DEF IInv, PcInv, SameLife
<1>6. JoinInv'
  BY <1>1, <1>2 DEF IInv, JoinInv, SameLife
<1>7. RunsFree'
  BY <1>1 DEF IInv, RunsFree, Alone, list, TypeOK
<1>8. SavedInv'
  BY <1>3, ThreadAssumption DEF IInv, SavedInv, TypeOK, Linked
<1>9. DeadlockSound'
  BY DEF DeadlockSound
<1> QED
  BY <1>3, <1>4, <1>5, <1>6, <1>7, <1>8, <1>9 DEF IInv

\* Steps in which the current thread begins to wait.
LEMMA WaitStep ==
  ASSUME IInv, TypeOK', Running, NEW w \in Wait, WaitOn(w),
         w # "JOIN" => ~Alone /\ join' = join,
         w = "JOIN" => /\ join'[curr_thread] \in Thread
                       /\ status[join'[curr_thread]] # "NONE",
         \A u \in Thread \ {curr_thread} : join'[u] = join[u]
  PROVE  IInv'
<1> DEFINE c == curr_thread
<1>1. c \in Linked /\ c \in Thread /\ proc = "up" /\ ~scheduling /\ status[c] \notin {"NONE", "KILLED"}
  BY RunningLinked DEF IInv, RingInv, LinkedAlive
<1>2. /\ status'[c] = "STOPPED" /\ wait_for'[c] = wait_for[c] \cup {w}
      /\ \A u \in Thread \ {c} : status'[u] = status[u] /\ wait_for'[u] = wait_for[u]
      /\ curr_thread' = c /\ scheduling' = TRUE /\ proc' = "up"
      /\ UNCHANGED <<list, pc, saved>>
  BY <1>1 DEF IInv, TypeOK, WaitOn, ends
<1>3. SameLife
  BY <1>1, <1>2 DEF SameLife
<1>4. RingInv' /\ PtrInv' /\ MainAlive' /\ Linked' = Linked
  BY <1>2, <1>3, RingSame, ThreadAssumption DEF IInv
<1>5. wait_for[c] \subseteq {w}
  BY <1>1 DEF IInv, RunsFree
<1>6. WaitInv'
  <2>1. WaitsStopped'
    BY <1>1, <1>2, <1>4 DEF IInv, WaitInv, WaitsStopped
  <2>2. OneReason'
    BY <1>2, <1>5 DEF IInv, WaitInv, OneReason
  <2>3. ASSUME NEW v \in Wait PROVE num'[v] >= Cardinality(Flagged(v)')
    <3>1. /\ Flagged(v) \in SUBSET Thread /\ IsFiniteSet(Flagged(v))
          /\ Cardinality(Flagged(v)) \in Nat
      BY ThreadSets DEF Flagged
    <3>2. num[v] \in Int /\ num[v] >= Cardinality(Flagged(v))
      BY CoverFlagged DEF IInv, TypeOK
    <3>3. CASE v = w
      <4>1. Flagged(v)' = Flagged(v) \cup {c}
        BY <3>3, <1>1, <1>2 DEF Flagged
      <4>2. Cardinality(Flagged(v) \cup {c})
              = IF c \in Flagged(v) THEN Cardinality(Flagged(v))
                ELSE Cardinality(Flagged(v)) + 1
        BY <3>1, FS_AddElement
      <4>3. num'[v] = num[v] + 1
        BY <3>3 DEF WaitOn, IInv, TypeOK
      <4> QED
        BY <3>1, <3>2, <4>1, <4>2, <4>3
    <3>4. CASE v # w
      <4>1. Flagged(v)' = Flagged(v)
        BY <3>4, <1>1, <1>2 DEF Flagged
      <4>2. num'[v] = num[v]
        BY <3>4 DEF WaitOn, IInv, TypeOK
      <4> QED
        BY <3>2, <4>1, <4>2
    <3> QED
      BY <3>3, <3>4
  <2> QED
    BY <2>1, <2>2, <2>3, CoverNext
<1>7. PcInv'
  BY <1>2, <1>3 DEF IInv, PcInv, SameLife
<1>8. JoinInv'
  <2> SUFFICES ASSUME NEW t \in Thread, "JOIN" \in wait_for'[t]
               PROVE  join'[t] \in Thread /\ status'[join'[t]] # "NONE"
    BY DEF JoinInv
  <2>1. CASE t = c /\ w = "JOIN"
    BY <2>1, <1>3 DEF SameLife
  <2>2. CASE t # c \/ w # "JOIN"
    <3>1. "JOIN" \in wait_for[t] /\ join'[t] = join[t]
      BY <2>2, <1>2
    <3> QED
      BY <3>1, <1>3 DEF IInv, JoinInv, SameLife
  <2> QED
    BY <2>1, <2>2
<1>9. RunsFree'
  BY <1>2, <1>5 DEF RunsFree, Alone, list
<1>10. SavedInv'
  BY <1>2, <1>4 DEF IInv, SavedInv
<1>11. DeadlockSound'
  BY <1>2 DEF DeadlockSound
<1> QED
  BY <1>4, <1>6, <1>7, <1>8, <1>9, <1>10, <1>11 DEF IInv

\* What a pass of thread_schedule() that makes waiters runnable keeps.
LEMMA WakeStep ==
  ASSUME IInv, UNCHANGED list, NEW J \in SUBSET Waiters("JOIN"),
         NEW E \in SUBSET Waiters("TIME"), NEW F \in SUBSET Waiters("FD"),
         Wakes(J, E, F)
  PROVE  /\ RingInv' /\ PtrInv' /\ MainAlive' /\ Linked' = Linked /\ SameLife
         /\ WaitInv' /\ JoinInv'
<1>1. J \cup E \cup F \subseteq Linked /\ Linked \subseteq Thread
  BY DEF Waiters, Linked
<1>2. Woken(J \cup E \cup F)
  <2>1. TypeOK /\ WaitInv
    BY DEF IInv
  <2> QED
    BY <2>1, WokenFree
<1>3. SameLife
  BY <1>1, <1>2 DEF IInv, RingInv, LinkedAlive, SameLife, Woken
<1>4. RingInv' /\ PtrInv' /\ MainAlive' /\ Linked' = Linked
  BY <1>3, RingSame, ThreadAssumption DEF IInv
<1>5. WaitInv'
  <2>1. WaitsStopped'
    BY <1>1, <1>2, <1>4 DEF IInv, WaitInv, WaitsStopped, Woken
  <2>2. OneReason'
    BY <1>1, <1>2 DEF IInv, WaitInv, OneReason, Woken
  <2> QED
    BY <2>1, <2>2, CoverWakes, CoverNext DEF IInv
<1>6. JoinInv'
  <2> SUFFICES ASSUME NEW t \in Thread, "JOIN" \in wait_for'[t]
               PROVE  join'[t] \in Thread /\ status'[join'[t]] # "NONE"
    BY DEF JoinInv
  <2>1. t \notin J \cup E \cup F /\ "JOIN" \in wait_for[t]
    BY <1>2 DEF Woken
  <2>2. join'[t] = join[t]
    BY <2>1 DEF Wakes
  <2> QED
    BY <2>1, <2>2, <1>3 DEF IInv, JoinInv, SameLife
<1> QED
  BY <1>3, <1>4, <1>5, <1>6

\* The thread thread_schedule() chooses is runnable or is made runnable.
LEMMA ChosenWoken ==
  ASSUME NEW s \in Thread, NEW n \in Thread, Chosen(n, s)
  PROVE  n \in Runnable \cup Joined \cup Expired \cup FdReady(s)
BY ThreadAssumption DEF Chosen, IsFirst, IsLast

\* The sets of waiters thread_schedule() wakes.
LEMMA WokenWait ==
  ASSUME NEW s
  PROVE  /\ Joined \in SUBSET Waiters("JOIN") /\ Expired \in SUBSET Waiters("TIME")
         /\ FdReady(s) \in SUBSET Waiters("FD")
BY DEF Joined, Expired, FdReady

\* A pass that switches to another thread keeps the invariant.
LEMMA ScheduleStep ==
  ASSUME IInv, TypeOK', Schedule
  PROVE  IInv'
<1>1. PICK s \in Thread, n \in Thread :
        /\ ScanStart(s) /\ Chosen(n, s)
        /\ Wakes(Joined, Expired, FdReady(s))
        /\ IF n = curr_thread
           THEN scheduling' = FALSE /\ UNCHANGED <<curr_thread, saved, pc, ends>>
           ELSE /\ saved' = IF s = curr_thread
                            THEN [saved EXCEPT ![curr_thread] = "op"] ELSE saved
                /\ Resume(n)
  BY DEF Schedule
<1>2. UNCHANGED list /\ proc = "up"
  BY DEF Schedule
<1>3. /\ RingInv' /\ PtrInv' /\ MainAlive' /\ Linked' = Linked /\ SameLife
      /\ WaitInv' /\ JoinInv'
  BY <1>1, <1>2, WokenWait, WakeStep
<1>4. n \in Linked /\ wait_for'[n] = {} /\ curr_thread' = n
  <2>1. n \in Linked
    BY <1>1, ChosenWoken, WokenSets DEF Runnable
  <2>2. wait_for'[n] = {}
    <3>0. Woken(Joined \cup Expired \cup FdReady(s))
      <4>1. TypeOK /\ WaitInv
        BY DEF IInv
      <4> QED
        BY <4>1, <1>1, WokenWait, WokenFree
    <3>1. CASE n \in Joined \cup Expired \cup FdReady(s)
      BY <3>0, <3>1 DEF Woken
    <3>2. CASE n \notin Joined \cup Expired \cup FdReady(s)
      <4>1. n \in Runnable /\ wait_for'[n] = wait_for[n]
        BY <3>0, <3>2, <1>1, ChosenWoken DEF Woken
      <4> QED
        BY <4>1 DEF IInv, WaitInv, WaitsStopped, Runnable
    <3> QED
      BY <3>1, <3>2
  <2>3. curr_thread' = n
    BY <1>1 DEF Resume
  <2> QED
    BY <2>1, <2>2, <2>3
<1>5. PcInv'
  <2>1. \A t \in Thread : \/ pc'[t] = pc[t]
                          \/ t = n /\ pc'[t] = "ensure" /\ status'[t] = "TO_KILL"
    BY <1>1 DEF Resume, IInv, TypeOK
  <2>2. pc[n] \notin {"none", "dead"}
    BY <1>4 DEF IInv, PcInv, RingInv, LinkedAlive
  <2> QED
    BY <2>1, <2>2, <1>3 DEF IInv, PcInv, SameLife
<1>6. RunsFree'
  BY <1>4 DEF RunsFree
<1>7. SavedInv'
  <2>1. \A t \in Thread : saved[t] # "no" => saved'[t] # "no"
    BY <1>1 DEF IInv, TypeOK
  <2>2. curr_thread \in Linked /\ n # curr_thread => saved'[curr_thread] # "no"
    <3>1. ASSUME curr_thread \in Linked PROVE s = curr_thread
      BY <3>1, <1>1 DEF ScanStart, thread_dead, IInv, RingInv, LinkedAlive, Linked
    <3> QED
      BY <3>1, <1>1 DEF IInv, TypeOK
  <2> QED
    BY <2>1, <2>2, <1>3, <1>4 DEF IInv, SavedInv, Linked, TypeOK
<1>8. DeadlockSound'
  BY <1>1, <1>2 DEF Resume, DeadlockSound, ends
<1> QED
  BY <1>3, <1>5, <1>6, <1>7, <1>8 DEF IInv

\* thread_deadlock() is reached only when every linked thread is stopped, and
\* waits, if at all, for another linked thread.
LEMMA DeadlockStep ==
  ASSUME IInv, TypeOK', ScheduleDeadlock
  PROVE  IInv'
<1>1. /\ UNCHANGED <<list, status, waits, saved, pc>> /\ proc' = "deadlock"
      /\ curr_thread' = Main /\ ~Timed /\ Runnable = {} /\ Joined = {}
  BY DEF ScheduleDeadlock
<1>2. RingInv' /\ PtrInv' /\ MainAlive' /\ Linked' = Linked
  BY <1>1, RingSame, ThreadAssumption DEF IInv, SameLife
<1>3. WaitInv' /\ PcInv' /\ JoinInv'
  BY <1>1, <1>2 DEF IInv, WaitInv, WaitsStopped, OneReason, CountersCover, Waiters,
                    PcInv, JoinInv, waits
<1>4. SavedInv'
  BY <1>1, <1>2 DEF IInv, SavedInv
<1>5. DeadlockSound'
  <2>1. ASSUME NEW w \in Wait, ~(num[w] > 0) PROVE Waiters(w) = {}
    <3>1. Waiters(w) \in SUBSET Thread
      BY DEF Waiters, Linked
    <3>2. Cardinality(Waiters(w)) \in Nat /\ IsFiniteSet(Waiters(w))
      BY <3>1, ThreadSets
    <3>3. num[w] >= Cardinality(Waiters(w)) /\ num[w] \in Int
      BY DEF IInv, WaitInv, CountersCover, TypeOK
    <3>4. Cardinality(Waiters(w)) = 0
      BY <2>1, <3>2, <3>3
    <3> QED
      BY <3>2, <3>4, FS_EmptySet
  <2>2. Waiters("FD") = {} /\ Waiters("TIME") = {}
    BY <1>1, <2>1 DEF Timed, Wait
  <2>3. \A t \in Linked : status[t] = "STOPPED"
    BY <1>1 DEF Runnable, IInv, RingInv, LinkedAlive, Linked
  <2>4. \A t \in Linked : wait_for[t] \subseteq {"JOIN"}
    BY <2>2 DEF Waiters, IInv, TypeOK, Wait, Linked
  <2>5. ASSUME NEW t \in Linked, "JOIN" \in wait_for[t] PROVE join[t] \in Linked
    <3>1. t \in Waiters("JOIN") /\ t \in Thread
      BY <2>5 DEF Waiters, Linked
    <3>2. num["JOIN"] # 0
      BY <3>1, <2>1 DEF Wait
    <3>3. ~thread_dead(join[t])
      BY <3>1, <3>2, <1>1 DEF Joined
    <3>4. join[t] \in Thread /\ status[join[t]] # "NONE"
      BY <3>1, <2>5 DEF IInv, JoinInv
    <3> QED
      BY <3>3, <3>4 DEF thread_dead, IInv, RingInv, LinkedAlive
  <2> QED
    BY <1>1, <1>2, <2>3, <2>4, <2>5 DEF DeadlockSound, waits
<1>6. RunsFree'
  BY <1>1 DEF RunsFree
<1> QED
  BY <1>2, <1>3, <1>4, <1>5, <1>6 DEF IInv

\* A thread that ends, alone or with the whole script.
LEMMA RemoveStep ==
  ASSUME IInv, TypeOK', ThreadFinish \/ ThreadSystemExit
  PROVE  IInv'
<1> DEFINE c == curr_thread
<1>1. /\ c \in Linked /\ c \in Thread /\ c # Main /\ proc = "up" /\ ~scheduling
      /\ status[c] \notin {"NONE", "KILLED"}
  BY RunningLinked DEF ThreadFinish, ThreadSystemExit, IInv, RingInv, LinkedAlive
<1>2. /\ thread_remove /\ curr_thread' = c /\ proc' = "up" /\ join' = join
      /\ saved' = saved
  BY <1>1 DEF ThreadFinish, ThreadSystemExit, thread_ready, ends
<1>3. /\ status'[c] = "KILLED" /\ wait_for'[c] = {}
      /\ \A t \in Thread \ {c} :
           \/ status'[t] = status[t] /\ wait_for'[t] = wait_for[t]
           \/ t \in Linked /\ status'[t] = "TO_KILL" /\ wait_for'[t] = {}
  BY <1>1 DEF ThreadFinish, ThreadSystemExit, thread_ready, Cleaned, IInv, TypeOK
<1>4. \A t \in Thread \ {c} :
        /\ status'[t] = "NONE" <=> status[t] = "NONE"
        /\ status'[t] = "KILLED" <=> status[t] = "KILLED"
  BY <1>3 DEF IInv, RingInv, LinkedAlive
<1>5. RingInv' /\ PtrInv' /\ MainAlive' /\ Linked' = Linked \ {c}
  BY <1>1, <1>2, <1>3, <1>4, RingRemove, ThreadAssumption DEF IInv
<1>6. WaitInv'
  <2>1. WaitsStopped'
    BY <1>3, <1>5 DEF IInv, WaitInv, WaitsStopped
  <2>2. OneReason'
    BY <1>3 DEF IInv, WaitInv, OneReason
  <2>3. \A w \in Wait : Flagged(w)' \subseteq Flagged(w) \ {c}
    BY <1>3 DEF Flagged
  <2>4. num' = [w \in Wait |-> num[w] - IF w \in wait_for[c] THEN 1 ELSE 0]
    BY DEF ThreadFinish, ThreadSystemExit, thread_ready
  <2> QED
    BY <1>1, <2>1, <2>2, <2>3, <2>4, CoverRemove, CoverNext DEF IInv
<1>7. PcInv'
  <2>1. pc'[c] = "dead" /\ \A t \in Thread \ {c} : pc'[t] = pc[t]
    BY <1>1, <1>2 DEF thread_remove, IInv, TypeOK
  <2> QED
    BY <2>1, <1>3, <1>4 DEF IInv, PcInv
<1>8. JoinInv'
  BY <1>1, <1>2, <1>3, <1>4 DEF IInv, JoinInv
<1>9. RunsFree'
  BY <1>2, <1>3 DEF RunsFree, thread_remove
<1>10. SavedInv' /\ DeadlockSound'
  BY <1>2, <1>5 DEF IInv, SavedInv, DeadlockSound
<1> QED
  BY <1>5, <1>6, <1>7, <1>8, <1>9, <1>10 DEF IInv

\* thread_create() keeps the invariant.
LEMMA CreateStep ==
  ASSUME IInv, TypeOK', NEW th \in Thread, thread_create(th)
  PROVE  IInv'
<1>1. /\ curr_thread \in Linked /\ curr_thread \in Thread /\ proc = "up"
      /\ ~scheduling /\ status[th] = "NONE"
  BY RunningLinked DEF thread_create
<1>2. RingInv' /\ PtrInv' /\ Linked' = Linked \cup {th}
  BY <1>1, RingCreate DEF IInv
<1>3. /\ UNCHANGED waits /\ curr_thread' = th /\ proc' = "up" /\ scheduling' = FALSE
      /\ status'[th] = "RUNNABLE" /\ pc'[th] = "run"
      /\ \A t \in Thread \ {th} : status'[t] = status[t] /\ pc'[t] = pc[t]
      /\ saved'[th] = "op" /\ saved'[curr_thread] = "op"
      /\ \A t \in Thread \ {th, curr_thread} : saved'[t] = saved[t]
  BY <1>1 DEF thread_create, IInv, TypeOK, ends
<1>4. th \notin Linked /\ wait_for[th] = {}
  BY <1>1 DEF IInv, WaitInv, WaitsStopped, Linked
<1>5. WaitInv'
  <2>1. WaitsStopped'
    BY <1>2, <1>3, <1>4 DEF IInv, WaitInv, WaitsStopped, waits
  <2>2. OneReason'
    BY <1>3 DEF IInv, WaitInv, OneReason, waits
  <2>3. num' = num /\ \A w \in Wait : Flagged(w)' \subseteq Flagged(w)
    BY <1>3 DEF Flagged, waits
  <2> QED
    BY <2>1, <2>2, <2>3, CoverShrink, CoverNext DEF IInv
<1>6. PcInv' /\ JoinInv' /\ MainAlive'
  BY <1>1, <1>3, ThreadAssumption DEF IInv, PcInv, JoinInv, MainAlive, waits
<1>7. RunsFree' /\ DeadlockSound'
  BY <1>3, <1>4 DEF RunsFree, DeadlockSound, waits
<1>8. SavedInv'
  BY <1>2, <1>3 DEF IInv, SavedInv, Linked
<1> QED
  BY <1>2, <1>5, <1>6, <1>7, <1>8 DEF IInv

\* The end of the main program keeps the invariant.
LEMMA MainEndStep ==
  ASSUME IInv, TypeOK', MainEnd
  PROVE  IInv'
<1>1. /\ curr_thread = Main /\ Main \in Linked /\ Main \in Thread
      /\ proc = "up" /\ ~scheduling
  BY RunningLinked DEF MainEnd
<1>2. /\ UNCHANGED <<list, curr_thread, saved, scheduling, proc>>
      /\ num' = num /\ join' = join
      /\ pc'[Main] = "wait_other" /\ \A t \in Thread \ {Main} : pc'[t] = pc[t]
  BY <1>1 DEF MainEnd, thread_cleanup, IInv, TypeOK, ends
<1>3. /\ status'[Main] = status[Main] /\ wait_for'[Main] = wait_for[Main]
      /\ \A t \in Thread :
           \/ status'[t] = status[t] /\ wait_for'[t] = wait_for[t]
           \/ t \in Linked /\ status'[t] = "TO_KILL" /\ wait_for'[t] = {}
  BY <1>1 DEF MainEnd, thread_cleanup, Cleaned, IInv, TypeOK
<1>4. SameLife
  BY <1>3 DEF SameLife, IInv, RingInv, LinkedAlive
<1>5. RingInv' /\ PtrInv' /\ MainAlive' /\ Linked' = Linked
  BY <1>1, <1>2, <1>4, RingSame DEF IInv
<1>6. WaitInv'
  <2>1. WaitsStopped'
    BY <1>3, <1>5 DEF IInv, WaitInv, WaitsStopped
  <2>2. OneReason'
    BY <1>3 DEF IInv, WaitInv, OneReason
  <2>3. \A w \in Wait : Flagged(w)' \subseteq Flagged(w)
    BY <1>3 DEF Flagged
  <2> QED
    BY <1>2, <2>1, <2>2, <2>3, CoverShrink, CoverNext DEF IInv
<1>7. PcInv'
  BY <1>1, <1>2, <1>4 DEF IInv, PcInv, SameLife, MainAlive
<1>8. JoinInv'
  BY <1>2, <1>3, <1>4 DEF IInv, JoinInv, SameLife
<1>9. RunsFree' /\ SavedInv' /\ DeadlockSound'
  BY <1>1, <1>2, <1>3, <1>5 DEF IInv, RunsFree, Alone, SavedInv, DeadlockSound, list
<1> QED
  BY <1>5, <1>6, <1>7, <1>8, <1>9 DEF IInv

\* Thread.stop and Thread#stop, on a live thread.
LEMMA StopStep ==
  ASSUME IInv, TypeOK', NEW th \in Thread, thread_stop_method(th), "stop_dead" \notin Uses
  PROVE  IInv'
<1>1. /\ UNCHANGED <<list, waits, curr_thread, saved, pc>> /\ proc' = proc
      /\ proc = "up" /\ scheduling' = TRUE /\ status[th] \notin {"NONE", "KILLED"}
      /\ status'[th] = "STOPPED" /\ \A t \in Thread \ {th} : status'[t] = status[t]
  BY DEF thread_stop_method, thread_dead, Running, IInv, TypeOK, ends
<1>2. SameLife
  BY <1>1 DEF SameLife
<1>3. RingInv' /\ PtrInv' /\ MainAlive' /\ Linked' = Linked
  BY <1>1, <1>2, RingSame, ThreadAssumption DEF IInv
<1>4. WaitInv'
  BY <1>1, <1>3 DEF IInv, WaitInv, WaitsStopped, OneReason, CountersCover, Waiters, waits
<1>5. PcInv' /\ JoinInv'
  BY <1>1, <1>2 DEF IInv, PcInv, JoinInv, SameLife, waits
<1>6. RunsFree' /\ SavedInv' /\ DeadlockSound'
  BY <1>1, <1>3 DEF IInv, RunsFree, Alone, SavedInv, DeadlockSound, list, waits
<1> QED
  BY <1>3, <1>4, <1>5, <1>6 DEF IInv

\* A signal broke select(): thread_schedule() starts again.
LEMMA RestartStep ==
  ASSUME IInv, TypeOK', ScheduleRestart
  PROVE  IInv'
<1>1. /\ UNCHANGED <<list, curr_thread, saved, pc, scheduling>> /\ proc' = proc
      /\ proc = "up" /\ scheduling /\ ~Alone /\ Wakes(Joined, Expired, {})
  BY DEF ScheduleRestart, ends
<1>2. /\ RingInv' /\ PtrInv' /\ MainAlive' /\ Linked' = Linked /\ SameLife
      /\ WaitInv' /\ JoinInv'
  <2>1. {} \in SUBSET Waiters("FD")
    OBVIOUS
  <2>2. UNCHANGED list
    BY <1>1
  <2> QED
    BY <1>1, <2>1, <2>2, WokenWait, WakeStep
<1>3. PcInv'
  BY <1>1, <1>2 DEF IInv, PcInv, SameLife
<1>4. RunsFree' /\ SavedInv' /\ DeadlockSound'
  BY <1>1, <1>2 DEF IInv, RunsFree, Alone, SavedInv, DeadlockSound, list
<1> QED
  BY <1>2, <1>3, <1>4 DEF IInv

\* Every step of the scheduler and of the methods keeps the invariant.
LEMMA Step ==
  ASSUME IInv, [Next]_vars, "stop_dead" \notin Uses
  PROVE  IInv'
<1>0. TypeOK'
  BY TypeStep DEF IInv
<1> USE DEF list, waits, flags, env, ends
<1>1. CASE ThreadFinish \/ ThreadSystemExit
  BY <1>0, <1>1, RemoveStep
<1>2. CASE MainEnd
  BY <1>0, <1>2, MainEndStep
<1>3. CASE thread_wait_other_threads
  BY <1>0, <1>3, QuietStep DEF thread_wait_other_threads
<1>4. CASE thread_sleep_forever
  <2>1. "TIME" \in Wait
    BY DEF Wait
  <2> QED
    BY <1>0, <1>4, <2>1, WaitStep DEF thread_sleep_forever
<1>5. CASE thread_pass
  BY <1>0, <1>5, QuietStep DEF thread_pass
<1>6. ASSUME NEW th \in Thread, thread_create(th) PROVE IInv'
  BY <1>0, <1>6, CreateStep
<1>7. ASSUME NEW th \in Thread, thread_join(th) PROVE IInv'
  <2>1. /\ Running /\ WaitOn("JOIN") /\ "JOIN" \in Wait
        /\ join'[curr_thread] = th /\ status[th] # "NONE"
        /\ \A u \in Thread \ {curr_thread} : join'[u] = join[u]
    BY <1>7 DEF thread_join, IInv, TypeOK, Wait
  <2> QED
    BY <1>0, <2>1, WaitStep
<1>8. ASSUME NEW th \in Thread, thread_wakeup(th) PROVE IInv'
  BY <1>0, <1>8, ReadyStep DEF thread_wakeup, Running
<1>9. ASSUME NEW th \in Thread, thread_run(th) PROVE IInv'
  BY <1>0, <1>9, ReadyStep DEF thread_run, Running
<1>10. ASSUME NEW th \in Thread, thread_kill(th) PROVE IInv'
  BY <1>0, <1>10, ReadyStep DEF thread_kill, Running
<1>11. ASSUME NEW th \in Thread, thread_stop_method(th) PROVE IInv'
  BY <1>0, <1>11, StopStep
<1>12. ASSUME NEW th \in Thread, thread_raise(th) PROVE IInv'
  <2>1. /\ thread_ready(th, "RUNNABLE") /\ status[th] \notin {"NONE", "KILLED"}
        /\ curr_thread' = th /\ proc = "up" /\ proc' \in {"up", "exit"}
        /\ UNCHANGED <<list, pc>>
    BY <1>12 DEF thread_raise, Interrupted, Running
  <2>2. /\ \A u \in Thread : saved[u] # "no" => saved'[u] # "no"
        /\ saved'[curr_thread] # "no"
    BY <1>12 DEF thread_raise, IInv, TypeOK
  <2> QED
    BY <1>0, <2>1, <2>2, ReadyStep
<1>13. ASSUME NEW f \in Fd, thread_wait_fd(f) PROVE IInv'
  <2>1. "FD" \in Wait
    BY DEF Wait
  <2> QED
    BY <1>0, <1>13, <2>1, WaitStep DEF thread_wait_fd
<1>14. ASSUME NEW d \in 0 .. MaxTime, thread_wait_for(d) PROVE IInv'
  <2>1. "TIME" \in Wait
    BY DEF Wait
  <2> QED
    BY <1>0, <1>14, <2>1, WaitStep DEF thread_wait_for
<1>15. ASSUME NEW v \in BOOLEAN, thread_set_critical(v) PROVE IInv'
  BY <1>0, <1>15, QuietStep DEF thread_set_critical
<1>16. CASE ScheduleAlone
  BY <1>0, <1>16, QuietStep DEF ScheduleAlone
<1>17. CASE Schedule
  BY <1>0, <1>17, ScheduleStep
<1>18. CASE ScheduleRestart
  BY <1>0, <1>18, RestartStep
<1>19. CASE ScheduleDeadlock
  BY <1>0, <1>19, DeadlockStep
<1>20. CASE thread_interrupt
  <2>1. /\ thread_ready(Main, "RUNNABLE") /\ status[Main] \notin {"NONE", "KILLED"}
        /\ curr_thread' = Main /\ proc = "up" /\ proc' \in {"up", "exit"}
        /\ UNCHANGED <<list, pc>> /\ Main \in Thread
    BY <1>20, ThreadAssumption
    DEF thread_interrupt, Interrupted, Running, InSelect, IInv, MainAlive
  <2>2. /\ \A u \in Thread : saved[u] # "no" => saved'[u] # "no"
        /\ curr_thread' # curr_thread => saved'[curr_thread] # "no"
    BY <1>20, <2>1 DEF thread_interrupt, IInv, TypeOK
  <2> QED
    BY <1>0, <2>1, <2>2, ReadyStep
<1>21. CASE catch_timer
  BY <1>0, <1>21, QuietStep DEF catch_timer
<1>22. CASE CHECK_INTS
  BY <1>0, <1>22, QuietStep DEF CHECK_INTS
<1>23. CASE ClockTick
  BY <1>0, <1>23, QuietStep DEF ClockTick
<1>24. ASSUME NEW f \in Fd, FdChange(f) PROVE IInv'
  BY <1>0, <1>24, QuietStep DEF FdChange
<1>25. CASE UNCHANGED vars
  BY <1>0, <1>25, QuietStep DEF vars
<1> QED
  BY <1>1, <1>2, <1>3, <1>4, <1>5, <1>6, <1>7, <1>8, <1>9, <1>10, <1>11, <1>12,
     <1>13, <1>14, <1>15, <1>16, <1>17, <1>18, <1>19, <1>20, <1>21, <1>22,
     <1>23, <1>24, <1>25
  DEF Next, Method, Scheduler, Signal, Environment, Terminated

\* The invariant holds when the interpreter starts.
LEMMA InitInv == ASSUME Init PROVE IInv
<1> USE ThreadAssumption
<1>1. TypeOK
  BY TypeInit
<1>2. Linked = {Main}
  BY DEF Init, Linked
<1>3. RingInv
  BY <1>2 DEF Init, RingInv, LinkedAlive, PointersInverse, OneRing
<1>4. \A w \in Wait : Waiters(w) = {}
  BY <1>2 DEF Init, Waiters
<1>5. WaitInv
  BY <1>4, FS_EmptySet DEF Init, WaitInv, WaitsStopped, OneReason, CountersCover
<1>6. PcInv /\ PtrInv /\ MainAlive /\ JoinInv /\ DeadlockSound
  BY DEF Init, PcInv, PtrInv, MainAlive, JoinInv, DeadlockSound
<1>7. RunsFree /\ SavedInv
  BY <1>2 DEF Init, RunsFree, Alone, SavedInv
<1> QED
  BY <1>1, <1>3, <1>5, <1>6, <1>7 DEF IInv

-----------------------------------------------------------------------------
(***************************************************************************)
(* The theorems, for programs that do not call Thread#stop on a dead       *)
(* thread (with which they are false: see DeadStaysDead).                  *)
(***************************************************************************)

\* The inductive invariant holds in every state.
LEMMA Inductive == ASSUME "stop_dead" \notin Uses PROVE Spec => []IInv
BY InitInv, Step, PTL DEF Spec

\* The thread list is one ring of exactly the live threads.
THEOREM RingCorrect == ASSUME "stop_dead" \notin Uses PROVE Spec => []RingInv
<1>1. IInv => RingInv
  BY DEF IInv
<1> QED
  BY <1>1, Inductive, PTL

\* The flags and counters of waiting threads never hide a waiter.
THEOREM WaitCorrect == ASSUME "stop_dead" \notin Uses PROVE Spec => []WaitInv
<1>1. IInv => WaitInv
  BY DEF IInv
<1> QED
  BY <1>1, Inductive, PTL

\* thread_restore_context() never runs into Bug("unsaved context").
THEOREM ContextCorrect == ASSUME "stop_dead" \notin Uses PROVE Spec => []ContextSaved
<1>1. IInv => ContextSaved
  BY DEF IInv, SavedInv, ContextSaved
<1> QED
  BY <1>1, Inductive, PTL

\* "Thread: deadlock" is reported only when no thread can ever run again.
THEOREM DeadlockCorrect == ASSUME "stop_dead" \notin Uses PROVE Spec => []DeadlockSound
<1>1. IInv => DeadlockSound
  BY DEF IInv
<1> QED
  BY <1>1, Inductive, PTL

=============================================================================
