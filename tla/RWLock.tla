------------------------------- MODULE RWLock -------------------------------
(***************************************************************************)
(* What the locks of lib/ promise: one writer, or any number of readers.   *)
(* A reader that wants to write gives its lock up, or is the only one.     *)
(***************************************************************************)
EXTENDS FiniteSets

CONSTANTS Thread, NoThread

VARIABLES readers, writer

lockvars == <<readers, writer>>

LockInit == readers = {} /\ writer = NoThread

Read(t) ==
  /\ writer = NoThread
  /\ readers' = readers \cup {t}
  /\ UNCHANGED writer

Write(t) ==
  /\ writer = NoThread /\ readers \subseteq {t}
  /\ writer' = t /\ readers' = {}

\* A writer stops writing, and may go on reading.
EndWrite(t) ==
  /\ writer = t
  /\ writer' = NoThread /\ readers' \in {{}, {t}}

EndRead(t) ==
  /\ readers' = readers \ {t}
  /\ UNCHANGED writer

LockNext == \E t \in Thread : Read(t) \/ Write(t) \/ EndWrite(t) \/ EndRead(t)

LockSpec == LockInit /\ [][LockNext]_lockvars

=============================================================================
