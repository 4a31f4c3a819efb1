------------------------------- MODULE Queue --------------------------------
(***************************************************************************)
(* Queue of lib/thread.rb.  What runs between Thread.critical = TRUE and   *)
(* FALSE is one step; everywhere else any ready thread may run.            *)
(***************************************************************************)
EXTENDS Naturals, Sequences, FiniteSets, SequencesExt

CONSTANTS
  Thread, NoThread,
  Item, Nil,      \* what is pushed; Nil is pushed too
  MaxPush,        \* bound on the number of push calls
  MaxWaiting      \* bound on the length of @waiting

VARIABLES
  que, waiting,    \* @que, @waiting
  pc,              \* "idle", "pop", "run" (in push, about to run shifted[t])
  shifted,         \* push's local t
  status,          \* "run", "stop" or "dead"
  disturbed,       \* a thread was killed, or a popper run by another thread
  pushed, popped   \* the items pushed and the items pop returned, in order

vars == <<que, waiting, pc, shifted, status, disturbed, pushed, popped>>

Ready(t, p) == status[t] = "run" /\ pc[t] \in p

Truthy(i) == i # Nil
\* The place of the first true item in the queue; 0 if none is
FirstTrue == SelectInSeq(que, Truthy)

-----------------------------------------------------------------------------
\* A mutant: a popper is only run when the queue was empty.
push_first(t, i) ==
  /\ Ready(t, {"idle"}) /\ Len(pushed) < MaxPush
  /\ que' = Append(que, i)
  /\ pushed' = Append(pushed, i)
  /\ IF waiting = <<>> \/ que # <<>>
     THEN UNCHANGED <<waiting, shifted, pc>>
     ELSE /\ shifted' = [shifted EXCEPT ![t] = Head(waiting)]
          /\ waiting' = Tail(waiting)
          /\ pc' = [pc EXCEPT ![t] = "run"]
  /\ UNCHANGED <<status, disturbed, popped>>

\* push, up to the end of its critical section.
push(t, i) ==
  /\ Ready(t, {"idle"}) /\ Len(pushed) < MaxPush
  /\ que' = Append(que, i)
  /\ pushed' = Append(pushed, i)
  /\ IF waiting = <<>>
     THEN UNCHANGED <<waiting, shifted, pc>>
     ELSE /\ shifted' = [shifted EXCEPT ![t] = Head(waiting)]
          /\ waiting' = Tail(waiting)
          /\ pc' = [pc EXCEPT ![t] = "run"]
  /\ UNCHANGED <<status, disturbed, popped>>

\* t.run, which raises ThreadError when the thread is dead.
PushRuns(t) ==
  /\ Ready(t, {"run"})
  /\ status' = [status EXCEPT ![shifted[t]] = IF @ = "dead" THEN @ ELSE "run"]
  /\ shifted' = [shifted EXCEPT ![t] = NoThread]
  /\ pc' = [pc EXCEPT ![t] = "idle"]
  /\ UNCHANGED <<que, waiting, disturbed, pushed, popped>>

\* Mutant: pop takes the last item.
pop_last(t) ==
  /\ Ready(t, {"idle", "pop"}) /\ que # <<>> /\ Truthy(Last(que))
  /\ que' = Front(que)
  /\ popped' = Append(popped, Last(que))
  /\ pc' = [pc EXCEPT ![t] = "idle"]
  /\ UNCHANGED <<waiting, shifted, status, disturbed, pushed>>

\* pop: the loop discards items until one is true, and starts again when the
\* thread was stopped and is run.
pop(t) ==
  /\ Ready(t, {"idle", "pop"})
  /\ LET first == FirstTrue
     IN IF first = 0
        THEN /\ Len(waiting) < MaxWaiting
             /\ que' = <<>>
             /\ waiting' = Append(waiting, t)
             /\ status' = [status EXCEPT ![t] = "stop"]
             /\ pc' = [pc EXCEPT ![t] = "pop"]
             /\ UNCHANGED popped
        ELSE /\ que' = SubSeq(que, first + 1, Len(que))
             /\ popped' = Append(popped, que[first])
             /\ pc' = [pc EXCEPT ![t] = "idle"]
             /\ UNCHANGED <<waiting, status>>
  /\ UNCHANGED <<shifted, disturbed, pushed>>

\* pop(TRUE) on an empty queue raises ThreadError; items that are not true are
\* discarded all the same.
PopNonBlock(t) ==
  /\ Ready(t, {"idle"}) /\ FirstTrue = 0
  /\ que # <<>> /\ que' = <<>>
  /\ UNCHANGED <<waiting, pc, shifted, status, disturbed, pushed, popped>>

\* Another thread runs or kills t.
Run(t) ==
  /\ disturbed' = TRUE /\ status[t] = "stop"
  /\ status' = [status EXCEPT ![t] = "run"]
  /\ UNCHANGED <<que, waiting, pc, shifted, pushed, popped>>

Kill(t) ==
  /\ disturbed' = TRUE /\ status[t] # "dead"
  /\ status' = [status EXCEPT ![t] = "dead"]
  /\ UNCHANGED <<que, waiting, pc, shifted, pushed, popped>>

Init ==
  /\ que = <<>> /\ waiting = <<>>
  /\ pc = [t \in Thread |-> "idle"]
  /\ shifted = [t \in Thread |-> NoThread]
  /\ status = [t \in Thread |-> "run"]
  /\ disturbed = FALSE /\ pushed = <<>> /\ popped = <<>>

Step(t) == (\E i \in Item \cup {Nil} : push(t, i)) \/ PushRuns(t) \/ pop(t) \/ PopNonBlock(t)

Next == \E t \in Thread : Step(t) \/ Run(t) \/ Kill(t)

Spec == Init /\ [][Next]_vars

\* The scheduler runs every ready thread that is inside push or pop.
Fairness ==
  \A t \in Thread : WF_vars(PushRuns(t)) /\ WF_vars(pc[t] = "pop" /\ pop(t))

LiveSpec == Spec /\ Fairness

-----------------------------------------------------------------------------
\* Every variable keeps its type.
TypeOK ==
  /\ que \in Seq(Item \cup {Nil}) /\ waiting \in Seq(Thread)
  /\ pc \in [Thread -> {"idle", "pop", "run"}]
  /\ shifted \in [Thread -> Thread \cup {NoThread}]
  /\ status \in [Thread -> {"run", "stop", "dead"}] /\ disturbed \in BOOLEAN
  /\ pushed \in Seq(Item \cup {Nil}) /\ popped \in Seq(Item)

\* The items of s that are true, in their order
Trues(s) ==
  LET trues[i \in 0 .. Len(s)] ==
        IF i = 0 THEN <<>>
        ELSE IF Truthy(s[i]) THEN Append(trues[i - 1], s[i]) ELSE trues[i - 1]
  IN  trues[Len(s)]

\* First in, first out, each item once: whoever is killed or run meanwhile, the
\* items popped and the items queued are the items pushed, in their order.
Fifo == popped \o Trues(que) = Trues(pushed)

\* No wakeup is lost, unless poppers are killed or run by others: while a thread
\* waits, there is a popper on its way for every item in the queue.
Poppers == {t \in Thread : Ready(t, {"pop"})} \cup {t \in Thread : pc[t] = "run"}

ItemsClaimed == ~disturbed /\ waiting # <<>> => Len(que) <= Cardinality(Poppers)

\* A thread that pops while there are items gets one, or others take them all
\* (with the same proviso).
PopReturns ==
  \A t \in Thread : pc[t] = "pop" /\ Trues(que) # <<>>
                      ~> pc[t] # "pop" \/ que = <<>> \/ disturbed

=============================================================================
