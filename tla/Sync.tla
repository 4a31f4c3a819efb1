-------------------------------- MODULE Sync --------------------------------
(***************************************************************************)
(* Sync_m of lib/sync.rb: a counted lock with a shared (SH) and an         *)
(* exclusive (EX) mode.  What runs between Thread.critical = TRUE and      *)
(* FALSE is one step.  A program locks and unlocks in nested fashion, the  *)
(* way sync_synchronize does.                                              *)
(***************************************************************************)
EXTENDS Naturals, Sequences, FiniteSets, SequencesExt

CONSTANTS
  Thread, NoThread,
  MaxNest     \* bound on the locks a thread holds at a time

VARIABLES
  sync_mode,             \* "UN", "SH" or "EX"
  sync_sh_locker,        \* counts of the SH lockers, 0 for a thread without entry
  sync_ex_locker, sync_ex_count,
  sync_waiting,
  sync_upgrade_waiting,  \* sequence of [who, count]
  pc,                    \* "run", "lock", "wake" or "error" (UnknownLocker raised)
  want,                  \* the mode a thread in "lock" asks for
  stopped,               \* the threads in Thread.stop
  wait,                  \* sync_unlock's local wait
  held                   \* the modes a thread has been granted, last one last

lock_state == <<sync_mode, sync_sh_locker, sync_ex_locker, sync_ex_count>>
queues == <<sync_waiting, sync_upgrade_waiting>>
vars == <<lock_state, queues, pc, want, stopped, wait, held>>

Lockers == {t \in Thread : sync_sh_locker[t] > 0}
Who(s) == [i \in DOMAIN s |-> s[i].who]

-----------------------------------------------------------------------------
\* A mutant: any SH locker may upgrade.
Granted_any(t, m) ==
  \/ sync_mode = "UN"
  \/ sync_mode = "SH" /\ (m = "SH" \/ t \in Lockers)
  \/ sync_mode = "EX" /\ sync_ex_locker = t

(***************************************************************************)
(* sync_try_lock_sub(m): when it returns TRUE, and what it changes then.   *)
(***************************************************************************)
Granted(t, m) ==
  \/ sync_mode = "UN"
  \/ sync_mode = "SH" /\ (m = "SH" \/ Lockers = {t})
  \/ sync_mode = "EX" /\ sync_ex_locker = t

\* A mutant: an EX lock taken again is counted twice.
Grant_twice(t, m) ==
  \/ /\ sync_mode = "EX"
     /\ sync_ex_count' = sync_ex_count + 2
     /\ UNCHANGED <<sync_mode, sync_sh_locker, sync_ex_locker>>
  \/ /\ sync_mode # "EX" /\ m = "EX"
     /\ sync_mode' = m /\ sync_ex_locker' = t /\ sync_ex_count' = 1
     /\ UNCHANGED sync_sh_locker
  \/ /\ sync_mode # "EX" /\ m = "SH"
     /\ sync_mode' = m
     /\ sync_sh_locker' = [sync_sh_locker EXCEPT ![t] =
                             IF sync_mode = "UN" THEN 1 ELSE @ + 1]
     /\ UNCHANGED <<sync_ex_locker, sync_ex_count>>

Grant(t, m) ==
  \/ /\ sync_mode = "EX"
     /\ sync_ex_count' = sync_ex_count + 1
     /\ UNCHANGED <<sync_mode, sync_sh_locker, sync_ex_locker>>
  \/ /\ sync_mode # "EX" /\ m = "EX"
     /\ sync_mode' = m /\ sync_ex_locker' = t /\ sync_ex_count' = 1
     /\ UNCHANGED sync_sh_locker
  \/ /\ sync_mode # "EX" /\ m = "SH"
     /\ sync_mode' = m
     /\ sync_sh_locker' = [sync_sh_locker EXCEPT ![t] =
                             IF sync_mode = "UN" THEN 1 ELSE @ + 1]
     /\ UNCHANGED <<sync_ex_locker, sync_ex_count>>

\* sync_lock granted, at the first attempt or after a wait.
Locks(t, m) ==
  /\ t \notin stopped
  /\ \/ pc[t] = "run" /\ Len(held[t]) < MaxNest
     \/ pc[t] = "lock" /\ want[t] = m
  /\ Granted(t, m) /\ Grant(t, m)
  /\ held' = [held EXCEPT ![t] = Append(@, m)]
  /\ pc' = [pc EXCEPT ![t] = "run"]
  /\ UNCHANGED <<queues, want, stopped, wait>>

\* sync_lock refused: a SH locker gives its lock up while it waits.
Waits(t, m) ==
  /\ t \notin stopped
  /\ \/ pc[t] = "run" /\ Len(held[t]) < MaxNest
     \/ pc[t] = "lock" /\ want[t] = m
  /\ ~Granted(t, m)
  /\ IF t \in Lockers
     THEN /\ sync_upgrade_waiting' =
               Append(sync_upgrade_waiting, [who |-> t, count |-> sync_sh_locker[t]])
          /\ sync_sh_locker' = [sync_sh_locker EXCEPT ![t] = 0]
          /\ UNCHANGED sync_waiting
     ELSE /\ sync_waiting' = Append(sync_waiting, t)
          /\ UNCHANGED <<sync_upgrade_waiting, sync_sh_locker>>
  /\ stopped' = stopped \cup {t}
  /\ pc' = [pc EXCEPT ![t] = "lock"] /\ want' = [want EXCEPT ![t] = m]
  /\ UNCHANGED <<sync_mode, sync_ex_locker, sync_ex_count, wait, held>>

\* A mutant: the threads that wait to upgrade are not made SH lockers again.
Wakeup_dropped(t, lockers) ==
  /\ sync_sh_locker' = lockers
  /\ IF sync_upgrade_waiting # <<>>
     THEN /\ wait' = [wait EXCEPT ![t] = Who(sync_upgrade_waiting)]
          /\ sync_upgrade_waiting' = <<>>
          /\ UNCHANGED sync_waiting
     ELSE /\ wait' = [wait EXCEPT ![t] = sync_waiting]
          /\ sync_waiting' = <<>>
          /\ UNCHANGED sync_upgrade_waiting

\* The end of sync_unlock, given the SH lockers it leaves: wake the threads that
\* wait to upgrade, who are SH lockers again, or else all others.
Wakeup(t, lockers) ==
  IF sync_upgrade_waiting # <<>>
  THEN /\ sync_sh_locker' = [u \in Thread |->
            IF \E i \in DOMAIN sync_upgrade_waiting : sync_upgrade_waiting[i].who = u
            THEN (CHOOSE e \in ToSet(sync_upgrade_waiting) : e.who = u).count
            ELSE lockers[u]]
       /\ wait' = [wait EXCEPT ![t] = Who(sync_upgrade_waiting)]
       /\ sync_upgrade_waiting' = <<>>
       /\ UNCHANGED sync_waiting
  ELSE /\ sync_sh_locker' = lockers
       /\ wait' = [wait EXCEPT ![t] = sync_waiting]
       /\ sync_waiting' = <<>>
       /\ UNCHANGED sync_upgrade_waiting

\* sync_unlock of an EX lock
UnlockEX(t) ==
  /\ sync_mode = "EX" /\ sync_ex_locker = t
  /\ sync_ex_count' = sync_ex_count - 1
  /\ IF sync_ex_count = 1
     THEN /\ sync_ex_locker' = NoThread
          /\ sync_mode' = IF t \in Lockers THEN "SH" ELSE "UN"
          /\ Wakeup(t, sync_sh_locker)
          /\ pc' = [pc EXCEPT ![t] = "wake"]
     ELSE UNCHANGED <<sync_ex_locker, sync_mode, sync_sh_locker, queues, wait, pc>>

\* sync_unlock of a SH lock
UnlockSH(t) ==
  LET lockers == [sync_sh_locker EXCEPT ![t] = @ - 1]
  IN /\ sync_mode = "SH" /\ t \in Lockers
     /\ IF (\A u \in Thread : lockers[u] = 0) /\ sync_ex_count = 0
        THEN /\ sync_mode' = "UN"
             /\ Wakeup(t, lockers)
             /\ pc' = [pc EXCEPT ![t] = "wake"]
        ELSE /\ sync_sh_locker' = lockers
             /\ UNCHANGED <<sync_mode, queues, wait, pc>>
     /\ UNCHANGED <<sync_ex_locker, sync_ex_count>>

\* sync_unlock raises UnknownLocker.
UnlockFails(t) ==
  /\ ~(sync_mode = "EX" /\ sync_ex_locker = t) /\ ~(sync_mode = "SH" /\ t \in Lockers)
  /\ pc' = [pc EXCEPT ![t] = "error"]
  /\ UNCHANGED <<lock_state, queues, wait>>

\* sync_unlock: m is EX by default, and SH instead when that is the mode.
sync_unlock(t) ==
  /\ t \notin stopped /\ pc[t] = "run" /\ held[t] # <<>>
  /\ UnlockEX(t) \/ UnlockSH(t) \/ UnlockFails(t)
  /\ held' = [held EXCEPT ![t] = Front(@)]
  /\ UNCHANGED <<want, stopped>>

\* A mutant: only the first is run.
Wake_one(t) ==
  /\ t \notin stopped /\ pc[t] = "wake"
  /\ stopped' = IF wait[t] = <<>> THEN stopped ELSE stopped \ {Head(wait[t])}
  /\ wait' = [wait EXCEPT ![t] = <<>>]
  /\ pc' = [pc EXCEPT ![t] = "run"]
  /\ UNCHANGED <<lock_state, queues, want, held>>

\* The loops over wait.
Wake(t) ==
  /\ t \notin stopped /\ pc[t] = "wake"
  /\ IF wait[t] = <<>>
     THEN pc' = [pc EXCEPT ![t] = "run"] /\ UNCHANGED <<stopped, wait>>
     ELSE /\ stopped' = stopped \ {Head(wait[t])}
          /\ wait' = [wait EXCEPT ![t] = Tail(@)]
          /\ UNCHANGED pc
  /\ UNCHANGED <<lock_state, queues, want, held>>

\* sync_try_lock(m): it passes sync_mode on in place of m.  When the lock is free
\* it calls unlock, which raises UnknownLocker and changes nothing.
sync_try_lock(t, m) ==
  /\ t \notin stopped /\ pc[t] = "run" /\ Len(held[t]) < MaxNest
  /\ sync_mode # "UN"
  /\ Granted(t, sync_mode) /\ Grant(t, sync_mode)
  /\ held' = [held EXCEPT ![t] = Append(@, m)]
  /\ UNCHANGED <<queues, pc, want, stopped, wait>>

Init ==
  /\ sync_mode = "UN" /\ sync_ex_locker = NoThread /\ sync_ex_count = 0
  /\ sync_sh_locker = [t \in Thread |-> 0]
  /\ sync_waiting = <<>> /\ sync_upgrade_waiting = <<>>
  /\ pc = [t \in Thread |-> "run"] /\ want = [t \in Thread |-> "UN"]
  /\ stopped = {}
  /\ wait = [t \in Thread |-> <<>>] /\ held = [t \in Thread |-> <<>>]

Next ==
  \E t \in Thread :
    \/ \E m \in {"SH", "EX"} : Locks(t, m) \/ Waits(t, m) \/ sync_try_lock(t, m)
    \/ sync_unlock(t) \/ Wake(t)

Spec == Init /\ [][Next]_vars

-----------------------------------------------------------------------------
\* Every variable keeps its type.
TypeOK ==
  /\ sync_mode \in {"UN", "SH", "EX"}
  /\ sync_sh_locker \in [Thread -> 0 .. MaxNest]
  /\ sync_ex_locker \in Thread \cup {NoThread} /\ sync_ex_count \in 0 .. MaxNest
  /\ sync_waiting \in Seq(Thread)
  /\ sync_upgrade_waiting \in Seq([who : Thread, count : 1 .. MaxNest])
  /\ pc \in [Thread -> {"run", "lock", "wake", "error"}]
  /\ want \in [Thread -> {"UN", "SH", "EX"}]
  /\ stopped \subseteq Thread
  /\ wait \in [Thread -> Seq(Thread)]
  /\ held \in [Thread -> Seq({"SH", "EX"})]

\* The counts agree with what the threads were granted: an EX lock is counted
\* with every lock taken under it, and SH locks are remembered while their
\* owner waits to upgrade.  So a thread that unlocks what it locked is never told
\* "Thread not locked".
CountsAgree ==
  /\ \A t \in Thread : pc[t] # "error"
  /\ sync_mode = "EX" <=> sync_ex_count > 0
  /\ \A t \in Thread :
       Len(held[t]) = (IF sync_ex_locker = t THEN sync_ex_count ELSE 0)
                        + sync_sh_locker[t]
                        + (IF \E e \in ToSet(sync_upgrade_waiting) : e.who = t
                           THEN (CHOOSE e \in ToSet(sync_upgrade_waiting) : e.who = t).count
                           ELSE 0)

\* No wakeup is lost: a stopped thread is about to be run by another, or it is
\* on a list of the lock and a thread that has still to unlock runs or is about to.
Woken == UNION {ToSet(wait[u]) : u \in {v \in Thread : pc[v] = "wake"}}

WaitersKnown ==
  \A t \in stopped \ Woken :
    /\ t \in ToSet(sync_waiting) \cup ToSet(Who(sync_upgrade_waiting))
    /\ \E u \in Thread : held[u] # <<>> /\ u \notin stopped \ Woken

\* Sync_m is a readers-writer lock: a thread that was granted EX is alone but
\* for threads that wait to upgrade.
Readers == {t \in Thread : held[t] # <<>> /\ pc[t] # "lock" /\ sync_ex_locker # t}
Writer  == IF sync_mode = "EX" THEN sync_ex_locker ELSE NoThread

RW == INSTANCE RWLock WITH readers <- Readers, writer <- Writer

IsRWLock == RW!LockSpec

\* "Sync#try_lock(mode) -- mode = :EX, :SH, :UN": a thread whose try_lock(EX)
\* succeeded has the EX lock.
TryLockMode ==
  \A t \in Thread : held[t] # <<>> /\ Last(held[t]) = "EX" /\ pc[t] = "run" =>
     sync_mode = "EX" /\ sync_ex_locker = t

=============================================================================
