---------------------------- MODULE ControlProofs ----------------------------
(***************************************************************************)
(* Proofs about how control moves in the interpreter: signals and trap     *)
(* handlers (signal.c, sig.h, eval.c), for any number of signals, of       *)
(* nested handlers and of scans left early; and method lookup (class.c,    *)
(* eval.c), for any classes, modules, names and bodies.                    *)
(***************************************************************************)
EXTENDS MCControl, Sequences, FiniteSetTheorems, SequenceTheorems,
        WellFoundedInduction, TLAPS

-----------------------------------------------------------------------------
(***************************************************************************)
(* The inductive invariant of Signals.                                     *)
(***************************************************************************)

\* The program is at the bottom, a handler that sighandle() called stands on the
\* blocking call that it interrupted, and a scan is no such call.
Frames(s) ==
  /\ s \in Seq(S!Frame) /\ Len(s) \in 1 .. MaxNesting
  /\ s[1].kind = "ruby"
  /\ \A n \in 2 .. Len(s) : s[n].immediate => s[n - 1].blocked
  /\ \A n \in 1 .. Len(s) : s[n].kind = "scan" => ~s[n].blocked

Hashes(s) == {n \in 1 .. Len(s) : s[n].kind = "hash"}

\* A scan has left nothing pending behind it but what came late.
Scanned(s, list, past) ==
  \A n \in 1 .. Len(s) : s[n].kind = "scan" =>
    \A x \in S!Sig : x < s[n].i /\ list[x] > 0 => x \in past

Counts ==
  /\ arrived \in 0 .. MaxSignals
  /\ trap_pending \in Nat /\ trap_pending <= arrived
  /\ trap_pending_list \in [S!Sig -> Nat]
  /\ \A x \in S!Sig : trap_pending_list[x] <= arrived
  /\ late \subseteq S!Sig /\ \A x \in late : trap_pending_list[x] > 0
  /\ trap_pending = 0 => \A x \in S!Sig : trap_pending_list[x] > 0 => x \in late

SigInv ==
  /\ action \in [S!Sig -> {"SIG_DFL", "SIG_IGN", "sighandle", "sigexit"}]
  /\ trap_list \in [S!Sig -> {"0", "EXIT", "proc"}]
  /\ trap_immediate \in BOOLEAN /\ state \in {"runs", "exits", "bug"}
  /\ Frames(stack)
  /\ prohibit_interrupt \in 0 .. MaxNesting
  /\ Cardinality(Hashes(stack)) <= prohibit_interrupt
  /\ Counts
  /\ Scanned(stack, trap_pending_list, late)
  /\ S!ImmediateInCall

-----------------------------------------------------------------------------
(***************************************************************************)
(* Stacks of frames.                                                       *)
(***************************************************************************)

\* A stack has a frame, and no more than are allowed.
LEMMA FramesLen ==
  ASSUME NEW s, Frames(s)
  PROVE  /\ s \in Seq(S!Frame) /\ Len(s) \in Nat /\ Len(s) > 0 /\ Len(s) <= MaxNesting
         /\ Len(s) \in 1 .. Len(s) /\ DOMAIN s = 1 .. Len(s)
         /\ \A n \in 1 .. Len(s) : s[n] \in S!Frame
<1>1. s \in Seq(S!Frame) /\ Len(s) \in 1 .. MaxNesting
  BY DEF Frames
<1>2. Len(s) \in Nat /\ DOMAIN s = 1 .. Len(s)
  BY <1>1, LenProperties
<1>3. \A n \in 1 .. Len(s) : s[n] \in S!Frame
  BY <1>1, ElementOfSeq
<1> QED
  BY <1>1, <1>2, <1>3, ControlAssumption

\* What a frame is made of.
LEMMA FrameIs ==
  ASSUME NEW f \in S!Frame
  PROVE  /\ f.kind \in {"ruby", "trap", "hash", "scan"} /\ f.i \in 0 .. NSIG
         /\ f.blocked \in BOOLEAN /\ f.immediate \in BOOLEAN
         /\ f = [kind |-> f.kind, i |-> f.i, blocked |-> f.blocked, immediate |-> f.immediate]
BY DEF S!Frame

\* The first n frames of s are left, and the last of them changed no more than its i
\* and whether it is blocked.
Cut(r, s, n) ==
  /\ r \in Seq(S!Frame) /\ n \in 1 .. Len(s) /\ Len(r) = n
  /\ \A i \in 1 .. n - 1 : r[i] = s[i]
  /\ r[n].kind = s[n].kind /\ (r[n].immediate => s[n].immediate)
  /\ r[n].kind = "scan" => ~r[n].blocked

\* A stack cut at n stays well formed, and scans no more than before.
LEMMA CutFrames ==
  ASSUME NEW s, Frames(s), NEW n, NEW r, Cut(r, s, n)
  PROVE  /\ Frames(r) /\ Hashes(r) \subseteq Hashes(s)
         /\ n < Len(s) => Hashes(r) \subseteq Hashes(s) \ {Len(s)}
<1>1. Len(s) \in Nat /\ Len(s) > 0 /\ Len(s) <= MaxNesting /\ n \in 1 .. Len(s)
  BY FramesLen DEF Cut
<1>2. /\ r \in Seq(S!Frame) /\ Len(r) = n /\ \A i \in 1 .. n - 1 : r[i] = s[i]
      /\ r[n].kind = s[n].kind /\ (r[n].immediate => s[n].immediate)
  BY DEF Cut
<1>3. \A i \in 1 .. n : r[i].kind = s[i].kind /\ (r[i].immediate => s[i].immediate)
  <2> TAKE i \in 1 .. n
  <2>1. i = n \/ i \in 1 .. n - 1
    BY <1>1
  <2> QED
    BY <1>2, <2>1
<1>4. \A i \in 2 .. n : r[i].immediate => r[i - 1].blocked
  <2> TAKE i \in 2 .. n
  <2>1. i \in 1 .. n /\ i \in 2 .. Len(s) /\ i - 1 \in 1 .. n - 1
    BY <1>1
  <2> QED
    BY <1>2, <1>3, <2>1 DEF Frames
<1>5. r[1].kind = "ruby"
  BY <1>1, <1>3 DEF Frames
<1>6. \A i \in 1 .. n : r[i].kind = "scan" => ~r[i].blocked
  <2> TAKE i \in 1 .. n
  <2>1. i = n \/ i \in 1 .. n - 1
    BY <1>1
  <2>2. CASE i = n
    BY <2>2 DEF Cut
  <2>3. CASE i \in 1 .. n - 1
    <3>1. i \in 1 .. Len(s) /\ r[i] = s[i]
      BY <1>1, <1>2, <2>3
    <3> QED
      BY <3>1 DEF Frames
  <2> QED
    BY <2>1, <2>2, <2>3
<1>7. Frames(r)
  BY <1>1, <1>2, <1>4, <1>5, <1>6, ControlAssumption DEF Frames
<1>8. Hashes(r) \subseteq Hashes(s) /\ (n < Len(s) => Hashes(r) \subseteq Hashes(s) \ {Len(s)})
  BY <1>1, <1>2, <1>3 DEF Hashes
<1> QED
  BY <1>7, <1>8

\* A list of handlers that loses those only that are past stays scanned.
LEMMA CutScanned ==
  ASSUME NEW s, Frames(s), NEW n, NEW r, Cut(r, s, n), NEW list, NEW past, NEW list1, NEW past1,
         Scanned(s, list, past),
         \A x \in S!Sig : list1[x] > 0 /\ (list[x] > 0 => x \in past) => x \in past1,
         r[n].i = s[n].i \/ (r[n].kind = "scan" =>
                               \A x \in S!Sig : x < r[n].i /\ list1[x] > 0 => x \in past1)
  PROVE  Scanned(r, list1, past1)
<1>1. Len(s) \in Nat /\ n \in 1 .. Len(s)
  BY FramesLen DEF Cut
<1> SUFFICES ASSUME NEW i \in 1 .. n, r[i].kind = "scan", NEW x \in S!Sig, x < r[i].i, list1[x] > 0
             PROVE  x \in past1
  BY DEF Scanned, Cut
<1>2. CASE r[i].i = s[i].i /\ r[i].kind = s[i].kind
  <2>1. i \in 1 .. Len(s)
    BY <1>1
  <2>2. list[x] > 0 => x \in past
    BY <1>2, <2>1 DEF Scanned
  <2> QED
    BY <2>2
<1>3. CASE ~(r[i].i = s[i].i /\ r[i].kind = s[i].kind)
  <2>1. i = n
    BY <1>1, <1>3 DEF Cut
  <2> QED
    BY <1>3, <2>1 DEF Cut
<1> QED
  BY <1>2, <1>3

\* The ways to cut a stack.
LEMMA SubCut ==
  ASSUME NEW s, Frames(s), NEW n \in 1 .. Len(s)
  PROVE  Cut(SubSeq(s, 1, n), s, n) /\ SubSeq(s, 1, n)[n] = s[n]
<1>1. s \in Seq(S!Frame) /\ Len(s) \in Nat /\ \A i \in 1 .. Len(s) : s[i] \in S!Frame
  BY FramesLen
<1> DEFINE u == SubSeq(s, 1, n)
<1>2. /\ u \in Seq(S!Frame) /\ Len(u) = IF 1 <= n THEN n - 1 + 1 ELSE 0
      /\ \A i \in 1 .. n - 1 + 1 : u[i] = s[1 + i - 1]
  <2>1. n \in Int /\ \A i \in 1 .. n : s[i] \in S!Frame
    BY <1>1
  <2> QED
    BY <2>1, SubSeqProperties
<1> HIDE DEF u
<1>3. Len(u) = n
  BY <1>1, <1>2
<1>4. \A i \in 1 .. n : u[i] = s[i]
  <2> TAKE i \in 1 .. n
  <2>1. i \in 1 .. n - 1 + 1 /\ 1 + i - 1 = i
    BY <1>1
  <2> QED
    BY <1>2, <2>1
<1>5. n \in 1 .. n /\ \A i \in 1 .. n - 1 : i \in 1 .. n
  BY <1>1
<1> QED
  BY <1>2, <1>3, <1>4, <1>5 DEF Cut, u, Frames

\* A change of the innermost frame is such a cut.
LEMMA SetCut ==
  ASSUME NEW s, Frames(s), NEW e \in S!Frame, e.kind = s[Len(s)].kind,
         e.immediate => s[Len(s)].immediate, e.kind = "scan" => ~e.blocked
  PROVE  Cut([s EXCEPT ![Len(s)] = e], s, Len(s)) /\ [s EXCEPT ![Len(s)] = e][Len(s)] = e
<1>1. s \in Seq(S!Frame) /\ Len(s) \in Nat /\ Len(s) \in 1 .. Len(s)
  BY FramesLen
<1> DEFINE u == [s EXCEPT ![Len(s)] = e]
<1>2. u \in Seq(S!Frame) /\ Len(u) = Len(s) /\ \A i \in 1 .. Len(s) : u[i] = IF i = Len(s) THEN e ELSE s[i]
  BY <1>1, ExceptSeq
<1> HIDE DEF u
<1>3. \A i \in 1 .. Len(s) - 1 : i \in 1 .. Len(s) /\ i # Len(s)
  BY <1>1
<1> QED
  BY <1>1, <1>2, <1>3 DEF Cut, u

\* A cut of a cut is a cut.
LEMMA CutCut ==
  ASSUME NEW s, NEW r, NEW n, NEW u, Frames(s), Cut(r, s, n), Cut(u, r, n)
  PROVE  Cut(u, s, n)
<1>1. Len(s) \in Nat
  BY FramesLen
<1> QED
  BY <1>1 DEF Cut

\* r is s with the frame f on top.
Grown(r, s, f) ==
  /\ r \in Seq(S!Frame) /\ Len(r) = Len(s) + 1
  /\ r[Len(s) + 1] = f
  /\ \A i \in 1 .. Len(s) : r[i] = s[i]

\* Append() pushes a frame.
LEMMA AppendGrows ==
  ASSUME NEW s, Frames(s), NEW f \in S!Frame
  PROVE  Grown(Append(s, f), s, f)
<1>1. s \in Seq(S!Frame)
  BY DEF Frames
<1> QED
  BY <1>1, AppendProperties DEF Grown

\* A frame on top keeps a stack well formed: a trap comes where its caller is blocked.
LEMMA PushFrames ==
  ASSUME NEW s, Frames(s), Len(s) < MaxNesting, NEW f \in S!Frame,
         f.immediate => s[Len(s)].blocked, f.kind = "scan" => ~f.blocked,
         NEW r, Grown(r, s, f)
  PROVE  /\ Frames(r) /\ Len(r) = Len(s) + 1 /\ r[Len(r)] = f
         /\ Hashes(r) \subseteq Hashes(s) \cup (IF f.kind = "hash" THEN {Len(r)} ELSE {})
         /\ \A list, past : Scanned(s, list, past) /\ (f.kind = "scan" => f.i = 0) => Scanned(r, list, past)
<1>1. Len(s) \in Nat /\ Len(s) > 0 /\ \A i \in 1 .. Len(s) + 1 : i = Len(s) + 1 \/ i \in 1 .. Len(s)
  BY FramesLen
<1>2. /\ r \in Seq(S!Frame) /\ Len(r) = Len(s) + 1 /\ r[Len(s) + 1] = f
      /\ \A i \in 1 .. Len(s) : r[i] = s[i]
  BY DEF Grown
<1>3. r[1].kind = "ruby"
  BY <1>1, <1>2 DEF Frames
<1>4. \A i \in 2 .. Len(s) + 1 : r[i].immediate => r[i - 1].blocked
  <2> TAKE i \in 2 .. Len(s) + 1
  <2>1. CASE i = Len(s) + 1
    BY <1>1, <1>2, <2>1
  <2>2. CASE i \in 2 .. Len(s)
    <3>1. i \in 1 .. Len(s) /\ i - 1 \in 1 .. Len(s)
      BY <1>1, <2>2
    <3> QED
      BY <1>2, <2>2, <3>1 DEF Frames
  <2> QED
    BY <1>1, <2>1, <2>2
<1>5. \A i \in 1 .. Len(s) + 1 : r[i].kind = "scan" => ~r[i].blocked
  BY <1>1, <1>2 DEF Frames
<1>6. Frames(r)
  BY <1>1, <1>2, <1>3, <1>4, <1>5, ControlAssumption DEF Frames
<1>7. Hashes(r) \subseteq Hashes(s) \cup (IF f.kind = "hash" THEN {Len(r)} ELSE {})
  BY <1>1, <1>2 DEF Hashes
<1>8. ASSUME NEW list, NEW past, Scanned(s, list, past), f.kind = "scan" => f.i = 0
      PROVE  Scanned(r, list, past)
  <2> SUFFICES ASSUME NEW i \in 1 .. Len(s) + 1, r[i].kind = "scan", NEW x \in S!Sig, x < r[i].i, list[x] > 0
               PROVE  x \in past
    BY <1>2 DEF Scanned
  <2>1. CASE i = Len(s) + 1
    BY <1>2, <1>8, <2>1 DEF S!Sig
  <2>2. CASE i \in 1 .. Len(s)
    BY <1>2, <1>8, <2>2 DEF Scanned
  <2> QED
    BY <1>1, <2>1, <2>2
<1> QED
  BY <1>2, <1>6, <1>7, <1>8

\* The scans of a stack can be counted.
LEMMA HashesFinite ==
  ASSUME NEW s, Frames(s)
  PROVE  IsFiniteSet(Hashes(s)) /\ Hashes(s) \subseteq 1 .. Len(s) /\ Cardinality(Hashes(s)) \in Nat
<1>1. IsFiniteSet(1 .. Len(s)) /\ Hashes(s) \subseteq 1 .. Len(s)
  <2>1. Len(s) \in Int
    BY FramesLen
  <2>2. IsFiniteSet(1 .. Len(s))
    BY <2>1, FS_Interval
  <2> QED
    BY <2>2 DEF Hashes
<1>2. IsFiniteSet(Hashes(s))
  BY <1>1, FS_Subset
<1> QED
  BY <1>1, <1>2, FS_CardinalityType

\* A stack with fewer keys, or with one more.
LEMMA FewerHashes ==
  ASSUME NEW s, Frames(s), NEW r, Hashes(r) \subseteq Hashes(s)
  PROVE  /\ Cardinality(Hashes(r)) <= Cardinality(Hashes(s))
         /\ s[Len(s)].kind = "hash" /\ Hashes(r) \subseteq Hashes(s) \ {Len(s)}
              => Cardinality(Hashes(r)) <= Cardinality(Hashes(s)) - 1
<1>1. IsFiniteSet(Hashes(s)) /\ Cardinality(Hashes(s)) \in Nat /\ Len(s) \in 1 .. Len(s)
  BY HashesFinite, FramesLen
<1>2. Cardinality(Hashes(r)) <= Cardinality(Hashes(s))
  BY <1>1, FS_Subset
<1>3. ASSUME s[Len(s)].kind = "hash", Hashes(r) \subseteq Hashes(s) \ {Len(s)}
      PROVE  Cardinality(Hashes(r)) <= Cardinality(Hashes(s)) - 1
  <2>1. Len(s) \in Hashes(s)
    BY <1>1, <1>3 DEF Hashes
  <2>2. /\ IsFiniteSet(Hashes(s) \ {Len(s)})
        /\ Cardinality(Hashes(s) \ {Len(s)}) = Cardinality(Hashes(s)) - 1
    BY <1>1, <2>1, FS_RemoveElement
  <2> QED
    BY <1>3, <2>2, FS_Subset
<1> QED
  BY <1>2, <1>3

\* One more frame is one more scan at most.
LEMMA MoreHashes ==
  ASSUME NEW s, Frames(s), NEW r, Frames(r), NEW x, Hashes(r) \subseteq Hashes(s) \cup {x}
  PROVE  Cardinality(Hashes(r)) <= Cardinality(Hashes(s)) + 1
<1>1. IsFiniteSet(Hashes(s)) /\ Cardinality(Hashes(s)) \in Nat
  BY HashesFinite
<1>2. /\ IsFiniteSet(Hashes(s) \cup {x}) /\ Cardinality(Hashes(s) \cup {x}) \in Nat
      /\ Cardinality(Hashes(s) \cup {x}) <= Cardinality(Hashes(s)) + 1
  BY <1>1, FS_AddElement, FS_CardinalityType
<1>3. Cardinality(Hashes(r)) <= Cardinality(Hashes(s) \cup {x}) /\ Cardinality(Hashes(r)) \in Nat
  BY <1>2, FS_Subset, HashesFinite
<1> QED
  BY <1>1, <1>2, <1>3

-----------------------------------------------------------------------------
(***************************************************************************)
(* The steps of Signals.                                                   *)
(***************************************************************************)

\* What the invariant says of the frame that runs.
LEMMA TopIs ==
  ASSUME SigInv
  PROVE  /\ Frames(stack) /\ S!top = stack[Len(stack)] /\ S!top \in S!Frame
         /\ S!top.kind = "scan" => ~S!top.blocked
         /\ S!Runs /\ ~S!top.blocked => trap_immediate = FALSE
         /\ S!top.kind \in {"trap", "scan", "hash"} => Len(stack) - 1 \in 1 .. Len(stack)
<1>1. Frames(stack)
  BY DEF SigInv
<1>2. /\ Len(stack) \in Nat /\ Len(stack) > 0 /\ Len(stack) \in 1 .. Len(stack)
      /\ stack[Len(stack)] \in S!Frame
  BY <1>1, FramesLen
<1>3. stack[Len(stack)].kind # "ruby" => Len(stack) # 1
  BY <1>1 DEF Frames
<1>4. stack[Len(stack)].kind = "scan" => ~stack[Len(stack)].blocked
  BY <1>1, <1>2 DEF Frames
<1>5. S!Runs /\ ~S!top.blocked => trap_immediate = FALSE
  <2>1. trap_immediate \in BOOLEAN /\ S!ImmediateInCall
    BY DEF SigInv
  <2> QED
    BY <2>1 DEF S!ImmediateInCall
<1>6. S!top = stack[Len(stack)]
  BY DEF S!top
<1>7. S!top.kind \in {"trap", "scan", "hash"} => Len(stack) - 1 \in 1 .. Len(stack)
  <2> SUFFICES ASSUME S!top.kind \in {"trap", "scan", "hash"}
               PROVE  Len(stack) - 1 \in 1 .. Len(stack)
    OBVIOUS
  <2>1. Len(stack) # 1
    BY <1>3, <1>6
  <2>2. \A k \in Nat : k > 0 /\ k # 1 => k - 1 \in 1 .. k
    OBVIOUS
  <2>3. Len(stack) \in Nat /\ Len(stack) > 0
    BY <1>2
  <2> QED
    BY <2>1, <2>2, <2>3, Zenon
<1> QED
  BY <1>1, <1>2, <1>4, <1>5, <1>6, <1>7

\* What TRAP_END and TRAP_BEG change of a frame.
LEMMA Unblocked ==
  ASSUME NEW f \in S!Frame, NEW b \in BOOLEAN
  PROVE  /\ [f EXCEPT !.blocked = b] \in S!Frame
         /\ [f EXCEPT !.blocked = b] = [kind |-> f.kind, i |-> f.i, blocked |-> b, immediate |-> f.immediate]
         /\ [f EXCEPT !.blocked = b].kind = f.kind /\ [f EXCEPT !.blocked = b].i = f.i
         /\ [f EXCEPT !.blocked = b].immediate = f.immediate /\ [f EXCEPT !.blocked = b].blocked = b
BY DEF S!Frame

\* An exception, to any frame that rescues it.
LEMMA UnwindCuts ==
  ASSUME Frames(stack), S!Unwind
  PROVE  \E n \in 1 .. Len(stack) : Cut(stack', stack, n) /\ stack'[n].i = stack[n].i
<1>1. PICK n \in 1 .. (Len(stack) - 1) :
        /\ stack[n].kind # "scan"
        /\ stack' = [SubSeq(stack, 1, n) EXCEPT ![n].blocked = FALSE]
  BY DEF S!Unwind
<1> DEFINE u == SubSeq(stack, 1, n)
           e == [u[n] EXCEPT !.blocked = FALSE]
<1>2. n \in 1 .. Len(stack)
  BY FramesLen
<1>3. Cut(u, stack, n) /\ u[n] = stack[n] /\ u[n] \in S!Frame
  BY <1>2, SubCut, FramesLen
<1>4. Frames(u) /\ Len(u) = n
  BY <1>3, CutFrames DEF Cut
<1>5. e = [kind |-> u[n].kind, i |-> u[n].i, blocked |-> FALSE, immediate |-> u[n].immediate]
  BY <1>3, Unblocked
<1>6. e \in S!Frame /\ e.kind = u[n].kind /\ e.i = u[n].i /\ e.immediate = u[n].immediate /\ ~e.blocked
  BY <1>3, <1>5, FrameIs DEF S!Frame
<1>7. stack' = [u EXCEPT ![n] = e]
  BY <1>1
<1> HIDE DEF u, e
<1>8. Cut(stack', u, n) /\ stack'[n] = e
  BY <1>4, <1>6, <1>7, SetCut
<1>9. Cut(stack', stack, n)
  BY <1>3, <1>8, CutCut
<1> QED
  BY <1>2, <1>3, <1>6, <1>8, <1>9

\* The frame that runs is changed, but for what it is.
LEMMA TopCuts ==
  ASSUME Frames(stack), NEW e \in S!Frame, e.kind = S!top.kind, e.i = S!top.i,
         e.immediate => S!top.immediate, e.kind = "scan" => ~e.blocked,
         stack' = [stack EXCEPT ![Len(stack)] = e]
  PROVE  /\ \E n \in 1 .. Len(stack) : Cut(stack', stack, n) /\ stack'[n].i = stack[n].i
         /\ Len(stack') = Len(stack) /\ stack'[Len(stack)] = e
<1>1. Cut(stack', stack, Len(stack)) /\ stack'[Len(stack)] = e /\ Len(stack) \in 1 .. Len(stack)
  BY SetCut, FramesLen DEF S!top
<1> QED
  BY <1>1 DEF Cut, S!top

\* The frame that runs ends.
LEMMA BelowCuts ==
  ASSUME Frames(stack), Len(stack) - 1 \in 1 .. Len(stack), stack' = S!Below
  PROVE  /\ \E n \in 1 .. Len(stack) : Cut(stack', stack, n) /\ stack'[n].i = stack[n].i
         /\ Cut(stack', stack, Len(stack) - 1)
         /\ Len(stack') = Len(stack) - 1 /\ stack'[Len(stack')] = stack[Len(stack) - 1]
<1> DEFINE n == Len(stack) - 1
<1>1. Cut(stack', stack, n) /\ stack'[n] = stack[n]
  BY SubCut DEF S!Below
<1> QED
  BY <1>1 DEF Cut

\* What is left of the invariant when the stack was cut.
LEMMA Left ==
  ASSUME SigInv, NEW n \in 1 .. Len(stack), Cut(stack', stack, n), stack'[n].i = stack[n].i
  PROVE  /\ Frames(stack') /\ Cardinality(Hashes(stack')) <= prohibit_interrupt
         /\ \A list, past :
              (\A x \in S!Sig : list[x] > 0 /\ (trap_pending_list[x] > 0 => x \in late) => x \in past)
                => Scanned(stack', list, past)
<1>1. Frames(stack) /\ Scanned(stack, trap_pending_list, late)
  BY DEF SigInv
<1>2. Frames(stack') /\ Hashes(stack') \subseteq Hashes(stack)
  BY <1>1, CutFrames
<1>3. Cardinality(Hashes(stack')) <= prohibit_interrupt
  <2>1. /\ Cardinality(Hashes(stack')) <= Cardinality(Hashes(stack))
        /\ Cardinality(Hashes(stack')) \in Nat /\ Cardinality(Hashes(stack)) \in Nat
    BY <1>1, <1>2, FewerHashes, HashesFinite
  <2>2. Cardinality(Hashes(stack)) <= prohibit_interrupt /\ prohibit_interrupt \in 0 .. MaxNesting
    BY DEF SigInv
  <2> QED
    BY <2>1, <2>2, ControlAssumption
<1>4. ASSUME NEW list, NEW past,
             \A x \in S!Sig : list[x] > 0 /\ (trap_pending_list[x] > 0 => x \in late) => x \in past
      PROVE  Scanned(stack', list, past)
  BY <1>1, <1>4, CutScanned
<1> QED
  BY <1>2, <1>3, <1>4

\* A signal arrives: it ends the process, is pending, or has its handler run.
LEMMA ArrivesInv == ASSUME SigInv, NEW s \in S!Sig, S!Arrives(s) PROVE SigInv'
<1>0. /\ Frames(stack) /\ prohibit_interrupt \in 0 .. MaxNesting
      /\ Cardinality(Hashes(stack)) <= prohibit_interrupt
      /\ Counts /\ Scanned(stack, trap_pending_list, late)
      /\ arrived \in 0 .. MaxSignals /\ arrived \in Nat
  BY ControlAssumption DEF SigInv, Counts
<1>1. CASE S!BadSignal(s) \/ S!SignalExits(s)
  <2>1. /\ UNCHANGED <<action, trap_list, trap_pending_list, trap_pending, late, trap_immediate,
                       prohibit_interrupt, stack>>
        /\ arrived < MaxSignals /\ arrived' = arrived + 1 /\ state' \in {"bug", "exits"}
    BY <1>1 DEF S!BadSignal, S!SignalExits, S!Handled, S!pendings
  <2>2. Counts'
    BY <1>0, <2>1, ControlAssumption DEF Counts
  <2>3. S!ImmediateInCall'
    BY <2>1 DEF S!ImmediateInCall, S!Runs
  <2> QED
    BY <1>0, <2>1, <2>2, <2>3 DEF SigInv
<1>2. CASE S!SignalPending(s)
  <2>1. /\ UNCHANGED <<action, trap_list, trap_immediate, prohibit_interrupt, stack, state>>
        /\ arrived < MaxSignals /\ arrived' = arrived + 1
        /\ trap_pending' = trap_pending + 1
        /\ trap_pending_list' = [trap_pending_list EXCEPT ![s] = @ + 1]
        /\ late' = late \cup {x \in {s} : \E n \in 1..Len(stack) :
                                            stack[n].kind = "scan" /\ stack[n].i > s}
    BY <1>2 DEF S!SignalPending, S!Handled
  <2>2. Counts'
    <3>1. arrived' \in 0 .. MaxSignals /\ arrived' \in Nat
      BY <1>0, <2>1, ControlAssumption
    <3>2. trap_pending' \in Nat /\ trap_pending' <= arrived' /\ trap_pending' # 0
      BY <1>0, <2>1 DEF Counts
    <3>3. /\ trap_pending_list' \in [S!Sig -> Nat]
          /\ \A x \in S!Sig : trap_pending_list'[x] = IF x = s THEN trap_pending_list[x] + 1
                                                       ELSE trap_pending_list[x]
      BY <1>0, <2>1 DEF Counts
    <3>4. \A x \in S!Sig : trap_pending_list'[x] <= arrived'
      BY <1>0, <2>1, <3>3 DEF Counts
    <3>5. late' \subseteq S!Sig /\ \A x \in late' : trap_pending_list'[x] > 0
      BY <1>0, <2>1, <3>3 DEF Counts
    <3> QED
      BY <3>1, <3>2, <3>3, <3>4, <3>5 DEF Counts
  <2>3. Scanned(stack, trap_pending_list', late')
    <3> SUFFICES ASSUME NEW n \in 1 .. Len(stack), stack[n].kind = "scan",
                        NEW x \in S!Sig, x < stack[n].i, trap_pending_list'[x] > 0
                 PROVE  x \in late'
      BY DEF Scanned
    <3>1. CASE x = s
      <4>1. stack[n].i \in 0 .. NSIG /\ s \in Int
        BY <1>0, FramesLen, FrameIs, ControlAssumption DEF S!Sig
      <4> QED
        BY <2>1, <3>1, <4>1, ControlAssumption
    <3>2. CASE x # s
      BY <1>0, <2>1, <3>2 DEF Scanned, Counts
    <3> QED
      BY <3>1, <3>2
  <2>4. S!ImmediateInCall'
    BY <2>1 DEF S!ImmediateInCall, S!Runs, S!top, SigInv
  <2> QED
    BY <1>0, <2>1, <2>2, <2>3, <2>4 DEF SigInv
<1>3. CASE S!SignalImmediate(s)
  <2>1. /\ UNCHANGED <<action, trap_list, trap_pending_list, trap_pending, late,
                       prohibit_interrupt, state>>
        /\ arrived < MaxSignals /\ arrived' = arrived + 1 /\ trap_immediate /\ ~trap_immediate' /\ S!Runs
        /\ trap_immediate' = FALSE
        /\ S!Interrupt \/ S!Push(S!RubyFrame("trap", TRUE))
    BY <1>3 DEF S!SignalImmediate, S!Handled, S!pendings
  <2>2. Counts'
    BY <1>0, <2>1, ControlAssumption DEF Counts
  <2>3. S!ImmediateInCall'
    BY <2>1 DEF S!ImmediateInCall
  <2>4. /\ Frames(stack') /\ Cardinality(Hashes(stack')) <= prohibit_interrupt
        /\ Scanned(stack', trap_pending_list, late)
    <3>1. CASE \E n \in 1 .. Len(stack) : Cut(stack', stack, n) /\ stack'[n].i = stack[n].i
      BY <3>1, Left
    <3>2. CASE S!Interrupt
      <4>1. CASE S!Unwind
        BY <1>0, <3>1, <4>1, UnwindCuts
      <4>2. CASE stack' = [stack EXCEPT ![Len(stack)].blocked = FALSE] /\ S!top.kind # "scan"
        <5> DEFINE e == [S!top EXCEPT !.blocked = FALSE]
        <5>1. stack' = [stack EXCEPT ![Len(stack)] = e]
          BY <4>2 DEF S!top
        <5>2. e \in S!Frame /\ e.kind = S!top.kind /\ e.i = S!top.i /\ e.immediate = S!top.immediate
          <6>1. S!top \in S!Frame /\ FALSE \in BOOLEAN
            BY TopIs
          <6> QED
            BY <6>1, Unblocked
        <5> HIDE DEF e
        <5>3. e.kind # "scan"
          BY <4>2, <5>2
        <5> QED
          BY <1>0, <3>1, <5>1, <5>2, <5>3, TopCuts
      <4> QED
        BY <3>2, <4>1, <4>2 DEF S!Interrupt
    <3>3. CASE S!Push(S!RubyFrame("trap", TRUE))
      <4> DEFINE f == S!RubyFrame("trap", TRUE)
      <4>1. /\ f \in S!Frame /\ f.kind = "trap" /\ f.immediate
            /\ Len(stack) < MaxNesting /\ stack' = Append(stack, f)
        BY <3>3, ControlAssumption DEF S!Push, S!RubyFrame, S!Frame
      <4>2. stack[Len(stack)].blocked
        BY <2>1 DEF SigInv, S!ImmediateInCall, S!top
      <4> HIDE DEF f
      <4>3. Grown(stack', stack, f)
        BY <1>0, <4>1, AppendGrows
      <4>4. /\ Frames(stack') /\ Hashes(stack') \subseteq Hashes(stack)
            /\ Scanned(stack', trap_pending_list, late)
        BY <1>0, <4>1, <4>2, <4>3, PushFrames
      <4>5. /\ Cardinality(Hashes(stack')) <= Cardinality(Hashes(stack))
            /\ Cardinality(Hashes(stack')) \in Nat /\ Cardinality(Hashes(stack)) \in Nat
        BY <1>0, <4>4, FewerHashes, HashesFinite
      <4> QED
        BY <1>0, <4>4, <4>5
    <3> QED
      BY <2>1, <3>2, <3>3
  <2> QED
    BY <1>0, <2>1, <2>2, <2>3, <2>4 DEF SigInv
<1> QED
  BY <1>1, <1>2, <1>3 DEF S!Arrives

\* A step that leaves the pending signals alone, and cuts the stack.
LEMMA CutInv ==
  ASSUME SigInv,
         UNCHANGED <<action, trap_list, trap_pending_list, trap_pending, late, prohibit_interrupt, state, arrived>>,
         \E n \in 1 .. Len(stack) : Cut(stack', stack, n) /\ stack'[n].i = stack[n].i,
         trap_immediate' \in BOOLEAN, trap_immediate' => S!top'.blocked
  PROVE  SigInv'
<1>1. /\ Frames(stack') /\ Cardinality(Hashes(stack')) <= prohibit_interrupt
      /\ Scanned(stack', trap_pending_list, late)
  BY Left
<1>2. Counts'
  BY DEF SigInv, Counts
<1>3. S!ImmediateInCall'
  BY DEF S!ImmediateInCall
<1> QED
  BY <1>1, <1>2, <1>3 DEF SigInv

\* A step that puts f on the stack, and defers interrupts for a key.
LEMMA PushInv ==
  ASSUME SigInv, Len(stack) < MaxNesting, NEW f \in S!Frame, stack' = Append(stack, f),
         ~f.immediate, ~f.blocked, f.i = 0, ~trap_immediate, ~trap_immediate',
         UNCHANGED <<action, trap_list, trap_pending_list, trap_pending, late, trap_immediate, state, arrived>>,
         prohibit_interrupt' = prohibit_interrupt + IF f.kind = "hash" THEN 1 ELSE 0,
         prohibit_interrupt' <= MaxNesting
  PROVE  SigInv'
<1>1. /\ Frames(stack) /\ prohibit_interrupt \in 0 .. MaxNesting /\ MaxNesting \in Nat
      /\ Cardinality(Hashes(stack)) <= prohibit_interrupt
      /\ Scanned(stack, trap_pending_list, late)
  BY ControlAssumption DEF SigInv
<1>2. Grown(stack', stack, f)
  BY <1>1, AppendGrows
<1>3. /\ Frames(stack') /\ Scanned(stack', trap_pending_list, late)
      /\ Hashes(stack') \subseteq Hashes(stack) \cup (IF f.kind = "hash" THEN {Len(stack')} ELSE {})
  BY <1>1, <1>2, PushFrames
<1>4. Cardinality(Hashes(stack)) \in Nat /\ Cardinality(Hashes(stack')) \in Nat
  BY <1>1, <1>3, HashesFinite
<1>5. Cardinality(Hashes(stack')) <= prohibit_interrupt' /\ prohibit_interrupt' \in 0 .. MaxNesting
  <2>1. CASE f.kind = "hash"
    <3>1. Cardinality(Hashes(stack')) <= Cardinality(Hashes(stack)) + 1
      BY <1>1, <1>3, <2>1, MoreHashes
    <3> QED
      BY <1>1, <1>4, <2>1, <3>1
  <2>2. CASE f.kind # "hash"
    <3>1. Cardinality(Hashes(stack')) <= Cardinality(Hashes(stack))
      BY <1>1, <1>3, <2>2, FewerHashes
    <3> QED
      BY <1>1, <1>4, <2>2, <3>1
  <2> QED
    BY <2>1, <2>2
<1>6. Counts'
  BY DEF SigInv, Counts
<1>7. S!ImmediateInCall'
  BY DEF S!ImmediateInCall
<1> QED
  BY <1>1, <1>3, <1>5, <1>6, <1>7 DEF SigInv

\* CHECK_INTS and DEFER_INTS keep the invariant.
LEMMA PushesInv == ASSUME SigInv, S!CHECK_INTS \/ S!DEFER_INTS PROVE SigInv'
<1>1. S!Ruby /\ Frames(stack)
  BY DEF S!CHECK_INTS, S!DEFER_INTS, SigInv
<1>2. trap_immediate = FALSE
  BY <1>1, TopIs DEF S!Ruby
<1>3. prohibit_interrupt \in Nat /\ prohibit_interrupt <= MaxNesting /\ MaxNesting \in Nat /\ NSIG \in Nat
  BY ControlAssumption DEF SigInv
<1>4. CASE S!CHECK_INTS
  <2> DEFINE f == S!Scan(0)
  <2>1. /\ f \in S!Frame /\ f.kind = "scan" /\ ~f.immediate /\ ~f.blocked /\ f.i = 0
    BY <1>3 DEF S!Scan, S!Frame
  <2>2. /\ Len(stack) < MaxNesting /\ stack' = Append(stack, f)
        /\ UNCHANGED <<action, trap_list, trap_pending_list, trap_pending, late, trap_immediate,
                       prohibit_interrupt, state, arrived>>
    BY <1>4 DEF S!CHECK_INTS, S!Push, S!pendings
  <2> HIDE DEF f
  <2> QED
    BY <1>2, <1>3, <2>1, <2>2, PushInv
<1>5. CASE S!DEFER_INTS
  <2> DEFINE f == S!RubyFrame("hash", FALSE)
  <2>1. /\ f \in S!Frame /\ f.kind = "hash" /\ ~f.immediate /\ ~f.blocked /\ f.i = 0
    BY <1>3 DEF S!RubyFrame, S!Frame
  <2>2. /\ Len(stack) < MaxNesting /\ stack' = Append(stack, f)
        /\ prohibit_interrupt < MaxNesting /\ prohibit_interrupt' = prohibit_interrupt + 1
        /\ UNCHANGED <<action, trap_list, trap_pending_list, trap_pending, late, trap_immediate,
                       state, arrived>>
    BY <1>5 DEF S!DEFER_INTS, S!Push, S!pendings
  <2> HIDE DEF f
  <2> QED
    BY <1>2, <1>3, <2>1, <2>2, PushInv
<1> QED
  BY <1>4, <1>5

\* A handler ends, or leaves by an exception.
LEMMA TrapsInv == ASSUME SigInv, S!TrapReturns \/ S!TrapRaises PROVE SigInv'
<1>1. /\ Frames(stack) /\ S!Ruby /\ S!top.kind = "trap"
      /\ UNCHANGED <<action, trap_list, trap_pending_list, trap_pending, late, prohibit_interrupt, state, arrived>>
  BY DEF SigInv, S!TrapReturns, S!TrapRaises, S!pendings
<1>2. trap_immediate = FALSE /\ Len(stack) - 1 \in 1 .. Len(stack) /\ S!top \in S!Frame
  BY <1>1, TopIs DEF S!Ruby
<1>3. CASE S!TrapReturns
  <2>1. stack' = S!Below /\ (trap_immediate' <=> trap_immediate \/ S!top.immediate)
        /\ trap_immediate' \in BOOLEAN
    BY <1>3 DEF S!TrapReturns
  <2>2. /\ \E n \in 1 .. Len(stack) : Cut(stack', stack, n) /\ stack'[n].i = stack[n].i
        /\ Len(stack') = Len(stack) - 1 /\ stack'[Len(stack')] = stack[Len(stack) - 1]
    BY <1>1, <1>2, <2>1, BelowCuts
  <2>3. S!top.immediate => stack[Len(stack) - 1].blocked
    <3>1. Len(stack) \in 2 .. Len(stack)
      BY <1>1, <1>2, FramesLen
    <3> QED
      BY <1>1, <3>1 DEF S!top, Frames
  <2>4. S!top' = stack'[Len(stack')]
    BY DEF S!top
  <2> QED
    BY <1>1, <1>2, <2>1, <2>2, <2>3, <2>4, CutInv
<1>4. CASE S!TrapRaises
  <2>1. S!Unwind /\ trap_immediate' = FALSE
    BY <1>4 DEF S!TrapRaises
  <2> QED
    BY <1>1, <2>1, UnwindCuts, CutInv
<1> QED
  BY <1>3, <1>4

\* A call that may block begins and ends.
LEMMA CallsInv == ASSUME SigInv, S!TRAP_BEG \/ S!TRAP_END PROVE SigInv'
<1>1. /\ Frames(stack)
      /\ UNCHANGED <<action, trap_list, trap_pending_list, trap_pending, late, prohibit_interrupt, state, arrived>>
  BY DEF SigInv, S!TRAP_BEG, S!TRAP_END, S!pendings
<1>2. PICK b \in BOOLEAN : /\ stack' = [stack EXCEPT ![Len(stack)] = [S!top EXCEPT !.blocked = b]]
                           /\ trap_immediate' = b /\ (b => S!top.kind # "scan")
  BY DEF S!TRAP_BEG, S!TRAP_END, S!SetTop, S!Ruby
<1> DEFINE e == [S!top EXCEPT !.blocked = b]
<1>3. /\ e \in S!Frame /\ e.kind = S!top.kind /\ e.i = S!top.i /\ e.immediate = S!top.immediate
      /\ e.blocked = b
  <2>1. S!top \in S!Frame
    BY TopIs
  <2> QED
    BY <2>1, Unblocked
<1>4. stack' = [stack EXCEPT ![Len(stack)] = e] /\ (e.kind = "scan" => ~e.blocked)
  BY <1>2, <1>3
<1> HIDE DEF e
<1>5. /\ \E n \in 1 .. Len(stack) : Cut(stack', stack, n) /\ stack'[n].i = stack[n].i
      /\ Len(stack') = Len(stack) /\ stack'[Len(stack)] = e
  BY <1>1, <1>3, <1>4, TopCuts
<1>6. S!top' = e
  BY <1>5 DEF S!top
<1> QED
  BY <1>1, <1>2, <1>3, <1>5, <1>6, CutInv

\* The eql? or hash of a key ends.
LEMMA EnableInv == ASSUME SigInv, S!ENABLE_INTS PROVE SigInv'
<1>1. /\ Frames(stack) /\ S!Ruby /\ S!top.kind = "hash" /\ S!top = stack[Len(stack)]
      /\ UNCHANGED <<action, trap_list, trap_pending_list, trap_pending, late, trap_immediate, state, arrived>>
      /\ prohibit_interrupt' = prohibit_interrupt - 1 /\ stack' = S!Below
      /\ prohibit_interrupt \in 0 .. MaxNesting /\ Cardinality(Hashes(stack)) <= prohibit_interrupt
      /\ Scanned(stack, trap_pending_list, late)
  BY DEF SigInv, S!ENABLE_INTS, S!pendings, S!top
<1>2. trap_immediate = FALSE /\ Len(stack) - 1 \in 1 .. Len(stack) /\ Len(stack) \in Nat
  BY <1>1, TopIs, FramesLen DEF S!Ruby
<1>3. /\ Cut(stack', stack, Len(stack) - 1)
      /\ \E n \in 1 .. Len(stack) : Cut(stack', stack, n) /\ stack'[n].i = stack[n].i
  BY <1>1, <1>2, BelowCuts
<1>4. Frames(stack') /\ Scanned(stack', trap_pending_list, late)
  BY <1>3, Left
<1>5. Hashes(stack') \subseteq Hashes(stack) \ {Len(stack)}
  <2>1. Len(stack) - 1 < Len(stack)
    BY <1>2
  <2> QED
    BY <1>1, <1>3, <2>1, CutFrames
<1>6. /\ Cardinality(Hashes(stack')) <= Cardinality(Hashes(stack)) - 1
      /\ Cardinality(Hashes(stack)) \in Nat /\ Cardinality(Hashes(stack')) \in Nat
  BY <1>1, <1>4, <1>5, FewerHashes, HashesFinite
<1>7. prohibit_interrupt' \in 0 .. MaxNesting /\ Cardinality(Hashes(stack')) <= prohibit_interrupt'
  BY <1>1, <1>6, ControlAssumption
<1>8. Counts'
  BY <1>1 DEF SigInv, Counts
<1>9. S!ImmediateInCall'
  BY <1>1, <1>2 DEF S!ImmediateInCall
<1> QED
  BY <1>1, <1>4, <1>7, <1>8, <1>9 DEF SigInv

\* rb_trap_exec() goes on to the next signal, with nothing pending where it was.
LEMMA ScanMoves ==
  ASSUME SigInv, S!top.kind = "scan", NEW r, Cut(r, stack, Len(stack)), r[Len(stack)] = S!Scan(S!top.i + 1),
         NEW list, NEW past,
         \A x \in S!Sig : list[x] > 0 => /\ x # S!top.i /\ trap_pending_list[x] > 0
                                         /\ x \in late => x \in past
  PROVE  /\ Frames(r) /\ Len(r) = Len(stack) /\ Scanned(r, list, past)
         /\ Cardinality(Hashes(r)) <= prohibit_interrupt
<1>1. /\ Frames(stack) /\ Scanned(stack, trap_pending_list, late) /\ Len(stack) \in 1 .. Len(stack)
      /\ S!top = stack[Len(stack)] /\ S!top \in S!Frame
      /\ prohibit_interrupt \in Nat /\ Cardinality(Hashes(stack)) <= prohibit_interrupt
  <2>1. prohibit_interrupt \in Nat /\ Frames(stack)
    BY ControlAssumption DEF SigInv
  <2> QED
    BY <2>1, TopIs, FramesLen DEF SigInv
<1>2. Frames(r) /\ Hashes(r) \subseteq Hashes(stack) /\ Len(r) = Len(stack)
  BY <1>1, CutFrames DEF Cut
<1>3. /\ Cardinality(Hashes(r)) <= Cardinality(Hashes(stack))
      /\ Cardinality(Hashes(r)) \in Nat /\ Cardinality(Hashes(stack)) \in Nat
  BY <1>1, <1>2, FewerHashes, HashesFinite
<1>4. \A x \in S!Sig : x < r[Len(stack)].i /\ list[x] > 0 => x \in past
  <2> TAKE x \in S!Sig
  <2> HAVE x < r[Len(stack)].i /\ list[x] > 0
  <2>1. r[Len(stack)].i = S!top.i + 1
    BY DEF S!Scan
  <2>2. x # S!top.i /\ trap_pending_list[x] > 0
    OBVIOUS
  <2>3. x < S!top.i
    <3>1. S!top.i \in Int /\ x \in Int
      BY <1>1, FrameIs, ControlAssumption DEF S!Sig
    <3> QED
      BY <2>1, <2>2, <3>1
  <2>4. x \in late
    BY <1>1, <2>2, <2>3 DEF Scanned
  <2> QED
    BY <2>4
<1>5. Scanned(r, list, past)
  BY <1>1, <1>4, CutScanned
<1> QED
  BY <1>1, <1>2, <1>3, <1>5

\* The scan is replaced, below the handler that it calls.
LEMMA BelowSet ==
  ASSUME NEW s, Frames(s), Len(s) - 1 \in 1 .. Len(s), NEW e \in S!Frame, e.kind = s[Len(s)].kind,
         ~e.immediate, ~e.blocked
  PROVE  /\ Cut(Append(SubSeq(s, 1, Len(s) - 1), e), s, Len(s))
         /\ Append(SubSeq(s, 1, Len(s) - 1), e)[Len(s)] = e
<1> DEFINE u == SubSeq(s, 1, Len(s) - 1)
           r == Append(u, e)
<1>1. Cut(u, s, Len(s) - 1) /\ u[Len(s) - 1] = s[Len(s) - 1]
  BY SubCut
<1>2. Frames(u)
  BY <1>1, CutFrames
<1> HIDE DEF u
<1>3. Grown(r, u, e)
  BY <1>2, AppendGrows
<1> HIDE DEF r
<1>4. Len(s) \in Nat /\ Len(s) \in 1 .. Len(s)
  BY FramesLen
<1>5. Len(u) = Len(s) - 1 /\ Len(r) = Len(s) /\ r[Len(s)] = e /\ r \in Seq(S!Frame)
  BY <1>1, <1>3, <1>4 DEF Cut, Grown
<1>6. \A i \in 1 .. Len(s) - 1 : r[i] = s[i]
  <2> TAKE i \in 1 .. Len(s) - 1
  <2>1. i = Len(s) - 1 \/ i \in 1 .. Len(s) - 1 - 1
    BY <1>4
  <2> QED
    BY <1>1, <1>3, <1>5, <2>1 DEF Cut, Grown
<1>7. Cut(r, s, Len(s))
  BY <1>4, <1>5, <1>6 DEF Cut
<1> QED
  BY <1>5, <1>7 DEF r, u

\* So do the steps of rb_trap_exec().
LEMMA ScansInv == ASSUME SigInv, S!ScanSkips \/ S!ScanTraps \/ S!ScanEnds PROVE SigInv'
<1>1. /\ Frames(stack) /\ S!InScan /\ S!Runs /\ S!top.kind = "scan"
      /\ UNCHANGED <<action, trap_list, trap_immediate, prohibit_interrupt, state, arrived>>
      /\ S!top = stack[Len(stack)] /\ S!top \in S!Frame /\ trap_immediate = FALSE
      /\ Len(stack) - 1 \in 1 .. Len(stack)
  <2>1. /\ S!InScan /\ S!Runs /\ S!top.kind = "scan"
        /\ UNCHANGED <<action, trap_list, trap_immediate, prohibit_interrupt, state, arrived>>
    BY DEF S!ScanSkips, S!ScanTraps, S!ScanEnds, S!InScan
  <2> QED
    BY <2>1, TopIs
<1>2. S!top.i \in 0 .. NSIG /\ Len(stack) \in 1 .. Len(stack) /\ Len(stack) \in Nat
  BY <1>1, FrameIs, FramesLen
<1>3. /\ Counts /\ trap_pending_list \in [S!Sig -> Nat] /\ NSIG \in Nat /\ MaxNesting \in Nat
      /\ arrived \in Nat /\ prohibit_interrupt \in Nat /\ Scanned(stack, trap_pending_list, late)
      /\ trap_pending \in Nat
  <2>1. Counts
    BY DEF SigInv
  <2> QED
    BY <2>1, ControlAssumption DEF SigInv, Counts
<1>4. S!ImmediateInCall'
  BY <1>1 DEF S!ImmediateInCall
<1>5. S!top.i < NSIG =>
        S!Scan(S!top.i + 1) \in S!Frame /\ S!Scan(S!top.i + 1).kind = "scan"
        /\ ~S!Scan(S!top.i + 1).immediate /\ ~S!Scan(S!top.i + 1).blocked /\ S!top.i \in S!Sig
  BY <1>2, <1>3 DEF S!Scan, S!Frame, S!Sig
<1>6. CASE S!ScanSkips
  <2>1. /\ S!top.i < NSIG /\ trap_pending_list[S!top.i] = 0
        /\ stack' = [stack EXCEPT ![Len(stack)] = S!Scan(S!top.i + 1)]
        /\ UNCHANGED <<trap_pending_list, trap_pending, late>>
    BY <1>6 DEF S!ScanSkips, S!SetTop, S!pendings
  <2>2. Cut(stack', stack, Len(stack)) /\ stack'[Len(stack)] = S!Scan(S!top.i + 1)
    <3>1. PICK e : e = S!Scan(S!top.i + 1)
      OBVIOUS
    <3>2. e \in S!Frame /\ e.kind = stack[Len(stack)].kind /\ ~e.immediate /\ ~e.blocked
      BY <1>1, <1>5, <2>1, <3>1
    <3>3. Cut([stack EXCEPT ![Len(stack)] = e], stack, Len(stack)) /\ [stack EXCEPT ![Len(stack)] = e][Len(stack)] = e
      BY <1>1, <3>2, SetCut
    <3> QED
      BY <2>1, <3>1, <3>3
  <2>3. /\ Frames(stack') /\ Scanned(stack', trap_pending_list, late)
        /\ Cardinality(Hashes(stack')) <= prohibit_interrupt
    <3>1. \A x \in S!Sig : trap_pending_list[x] > 0 =>
            x # S!top.i /\ trap_pending_list[x] > 0 /\ (x \in late => x \in late)
      BY <2>1
    <3> QED
      BY <1>1, <2>2, <3>1, ScanMoves
  <2>4. Counts'
    BY <1>1, <1>3, <2>1 DEF Counts
  <2> QED
    BY <1>1, <1>4, <2>1, <2>3, <2>4 DEF SigInv
<1>7. CASE S!ScanTraps
  <2>1. /\ S!top.i < NSIG /\ trap_pending_list[S!top.i] > 0
        /\ trap_pending_list' = [trap_pending_list EXCEPT ![S!top.i] = 0]
        /\ late' = late \ {S!top.i} /\ UNCHANGED trap_pending
        /\ \/ stack' = S!Below
           \/ S!Unwind
           \/ /\ Len(stack) < MaxNesting
              /\ stack' = Append(Append(S!Below, S!Scan(S!top.i + 1)), S!RubyFrame("trap", FALSE))
    BY <1>7 DEF S!ScanTraps
  <2>2. /\ trap_pending_list' \in [S!Sig -> Nat]
        /\ \A x \in S!Sig : trap_pending_list'[x] = IF x = S!top.i THEN 0 ELSE trap_pending_list[x]
    BY <1>3, <2>1
  <2>3. Counts'
    BY <1>1, <1>3, <2>1, <2>2 DEF Counts
  <2>4. \A x \in S!Sig : trap_pending_list'[x] > 0 =>
          x # S!top.i /\ trap_pending_list[x] > 0 /\ (x \in late => x \in late')
    BY <2>1, <2>2
  <2>5. /\ Frames(stack') /\ Scanned(stack', trap_pending_list', late')
        /\ Cardinality(Hashes(stack')) <= prohibit_interrupt
    <3>1. CASE \E n \in 1 .. Len(stack) : Cut(stack', stack, n) /\ stack'[n].i = stack[n].i
      <4>1. \A x \in S!Sig : trap_pending_list'[x] > 0 /\ (trap_pending_list[x] > 0 => x \in late) => x \in late'
        BY <2>4
      <4> QED
        BY <3>1, <4>1, Left
    <3>2. CASE stack' = S!Below
      BY <1>1, <3>1, <3>2, BelowCuts
    <3>3. CASE S!Unwind
      BY <1>1, <3>1, <3>3, UnwindCuts
    <3>4. CASE /\ Len(stack) < MaxNesting
               /\ stack' = Append(Append(S!Below, S!Scan(S!top.i + 1)), S!RubyFrame("trap", FALSE))
      <4> DEFINE r == Append(S!Below, S!Scan(S!top.i + 1))
                 f == S!RubyFrame("trap", FALSE)
      <4>1. Cut(r, stack, Len(stack)) /\ r[Len(stack)] = S!Scan(S!top.i + 1)
        BY <1>1, <1>5, <2>1, BelowSet DEF S!Below
      <4>2. f \in S!Frame /\ f.kind = "trap" /\ ~f.immediate
        BY <1>3 DEF S!RubyFrame, S!Frame
      <4>3. stack' = Append(r, f)
        BY <3>4
      <4> HIDE DEF r, f
      <4>4. /\ Frames(r) /\ Len(r) = Len(stack) /\ Scanned(r, trap_pending_list', late')
            /\ Cardinality(Hashes(r)) <= prohibit_interrupt
        BY <1>1, <2>4, <4>1, ScanMoves
      <4>5. Grown(stack', r, f)
        BY <4>2, <4>3, <4>4, AppendGrows
      <4>6. /\ Frames(stack') /\ Hashes(stack') \subseteq Hashes(r)
            /\ Scanned(stack', trap_pending_list', late')
        <5>1. /\ (f.immediate => r[Len(r)].blocked) /\ (f.kind = "scan" => ~f.blocked) /\ Len(r) < MaxNesting
              /\ (f.kind = "scan" => f.i = 0) /\ f.kind # "hash"
          BY <3>4, <4>2, <4>4
        <5>2. /\ Frames(stack')
              /\ Hashes(stack') \subseteq Hashes(r) \cup (IF f.kind = "hash" THEN {Len(stack')} ELSE {})
              /\ \A list, past : Scanned(r, list, past) /\ (f.kind = "scan" => f.i = 0) => Scanned(stack', list, past)
          BY <4>2, <4>4, <4>5, <5>1, PushFrames
        <5>3. Scanned(stack', trap_pending_list', late')
          BY <4>4, <5>1, <5>2
        <5> QED
          BY <5>1, <5>2, <5>3
      <4>7. /\ Cardinality(Hashes(stack')) <= Cardinality(Hashes(r))
            /\ Cardinality(Hashes(stack')) \in Nat /\ Cardinality(Hashes(r)) \in Nat
        BY <4>4, <4>6, FewerHashes, HashesFinite
      <4> QED
        BY <1>3, <4>4, <4>6, <4>7
    <3> QED
      BY <2>1, <3>2, <3>3, <3>4
  <2> QED
    BY <1>1, <1>4, <2>3, <2>5 DEF SigInv
<1>8. CASE S!ScanEnds
  <2>1. /\ S!top.i = NSIG /\ trap_pending' = 0 /\ stack' = S!Below
        /\ UNCHANGED <<trap_pending_list, late>>
    BY <1>8 DEF S!ScanEnds
  <2>2. \A x \in S!Sig : trap_pending_list[x] > 0 => x \in late
    <3>1. \A x \in S!Sig : x < NSIG
      BY <1>3 DEF S!Sig
    <3> QED
      BY <1>1, <1>2, <1>3, <2>1, <3>1 DEF Scanned
  <2>3. Counts'
    BY <1>1, <1>3, <2>1, <2>2 DEF Counts
  <2>4. /\ Frames(stack') /\ Scanned(stack', trap_pending_list, late)
        /\ Cardinality(Hashes(stack')) <= prohibit_interrupt
    BY <1>1, <2>1, BelowCuts, Left
  <2> QED
    BY <1>1, <1>4, <2>1, <2>3, <2>4 DEF SigInv
<1> QED
  BY <1>6, <1>7, <1>8

\* trap().
LEMMA TrapInv ==
  ASSUME SigInv, NEW s \in S!Sig, NEW cmd \in {"IGNORE", "DEFAULT", "EXIT", "FALSE", "proc"}, S!f_trap(s, cmd)
  PROVE  SigInv'
<1>1. /\ UNCHANGED <<trap_pending_list, trap_pending, late, trap_immediate, prohibit_interrupt, stack, state, arrived>>
      /\ trap_list' \in [S!Sig -> {"0", "EXIT", "proc"}]
      /\ action' \in [S!Sig -> {"SIG_DFL", "SIG_IGN", "sighandle", "sigexit"}]
  BY DEF SigInv, S!f_trap, S!pendings
<1>2. Counts' /\ S!ImmediateInCall'
  BY <1>1 DEF SigInv, Counts, S!ImmediateInCall, S!Runs, S!top
<1> QED
  BY <1>1, <1>2 DEF SigInv

\* The invariant holds at first.
LEMMA SigInit == S!Init => SigInv
<1> SUFFICES ASSUME S!Init PROVE SigInv
  OBVIOUS
<1> DEFINE f == S!RubyFrame("ruby", FALSE)
<1>1. /\ f \in S!Frame /\ f.kind = "ruby" /\ NSIG \in Nat /\ MaxSignals \in Nat /\ MaxNesting \in Nat
      /\ MaxNesting > 0
  BY ControlAssumption DEF S!RubyFrame, S!Frame
<1>2. stack = <<f>>
  BY DEF S!Init
<1> HIDE DEF f
<1>3. Frames(stack)
  <2>1. stack \in Seq(S!Frame) /\ Len(stack) = 1 /\ stack[1] = f
    BY <1>1, <1>2
  <2> QED
    BY <1>1, <2>1 DEF Frames
<1>4. Hashes(stack) = {}
  BY <1>1, <1>2 DEF Hashes
<1>5. Cardinality(Hashes(stack)) = 0
  BY <1>4, FS_EmptySet
<1>6. Counts /\ Scanned(stack, trap_pending_list, late)
  BY <1>1, <1>2 DEF S!Init, Counts, Scanned
<1>7. S!ImmediateInCall
  BY DEF S!Init, S!ImmediateInCall
<1>8. /\ action \in [S!Sig -> {"SIG_DFL", "SIG_IGN", "sighandle", "sigexit"}]
      /\ trap_list \in [S!Sig -> {"0", "EXIT", "proc"}]
  BY DEF S!Init
<1>9. trap_immediate = FALSE /\ state = "runs" /\ prohibit_interrupt = 0
  BY DEF S!Init
<1>10. prohibit_interrupt \in 0 .. MaxNesting /\ Cardinality(Hashes(stack)) <= prohibit_interrupt
  BY <1>1, <1>5, <1>9
<1>11. trap_immediate \in BOOLEAN /\ state \in {"runs", "exits", "bug"}
  BY <1>9
<1> QED
  BY <1>3, <1>6, <1>7, <1>8, <1>10, <1>11, Zenon DEF SigInv

\* Every step keeps it.
LEMMA SigStep == SigInv /\ [S!Next]_svars => SigInv'
<1> SUFFICES ASSUME SigInv, [S!Next]_svars PROVE SigInv'
  OBVIOUS
<1>1. CASE \E s \in S!Sig \ {0} : S!Arrives(s)
  BY <1>1, ArrivesInv
<1>2. CASE S!CHECK_INTS \/ S!DEFER_INTS
  BY <1>2, PushesInv
<1>3. CASE S!ScanSkips \/ S!ScanTraps \/ S!ScanEnds
  BY <1>3, ScansInv
<1>4. CASE S!TrapReturns \/ S!TrapRaises
  BY <1>4, TrapsInv
<1>5. CASE S!TRAP_BEG \/ S!TRAP_END
  BY <1>5, CallsInv
<1>6. CASE S!ENABLE_INTS
  BY <1>6, EnableInv
<1>7. CASE \E s \in S!Sig \ {0}, cmd \in {"IGNORE", "DEFAULT", "EXIT", "FALSE", "proc"} : S!f_trap(s, cmd)
  BY <1>7, TrapInv
<1>8. CASE UNCHANGED svars
  BY <1>8 DEF svars, SigInv, Counts, S!ImmediateInCall, S!Runs, S!top
<1> QED
  BY <1>1, <1>2, <1>3, <1>4, <1>5, <1>6, <1>7, <1>8 DEF S!Next

\* What the run checks of the signals.
LEMMA SigSafe == SigInv => S!TypeOK /\ S!PendingNoticed /\ S!ImmediateInCall
<1> SUFFICES ASSUME SigInv PROVE S!TypeOK /\ S!PendingNoticed
  BY DEF SigInv
<1>1. /\ Counts /\ Frames(stack) /\ Scanned(stack, trap_pending_list, late)
      /\ MaxSignals \in Nat /\ arrived \in 0 .. MaxSignals
  BY ControlAssumption DEF SigInv, Counts
<1>2. trap_pending_list \in [S!Sig -> 0 .. MaxSignals] /\ trap_pending \in 0 .. MaxSignals
  <2>1. \A x \in S!Sig : trap_pending_list[x] \in 0 .. MaxSignals
    BY <1>1 DEF Counts
  <2> QED
    BY <1>1, <2>1 DEF Counts
<1>3. S!TypeOK
  BY <1>1, <1>2 DEF SigInv, S!TypeOK, Frames, Counts
<1>4. S!PendingNoticed
  <2>1. trap_pending # 0 => trap_pending > 0
    BY <1>1 DEF Counts
  <2> QED
    BY <1>1, <2>1 DEF S!PendingNoticed, Counts
<1> QED
  BY <1>3, <1>4

-----------------------------------------------------------------------------
\* A signal that arrives is noticed, whatever scans of rb_trap_exec() are nested or
\* left by an exception (signal.c: rb_trap_exec; eval.c: rb_trap_eval), and no
\* handler leaves trap_immediate set outside a call that may block: for any number of
\* signals, of deferrals and of nested handlers.
THEOREM ControlPending == Spec => []PendingNoticed
<1>1. Init => SigInv
  BY SigInit DEF Init
<1>2. SigInv /\ [Next]_vars => SigInv'
  <2> SUFFICES ASSUME SigInv, [Next]_vars PROVE SigInv'
    OBVIOUS
  <2>1. [S!Next]_svars
    BY DEF Next, vars
  <2> QED
    BY <2>1, SigStep
<1>3. SigInv => PendingNoticed
  BY SigSafe DEF PendingNoticed
<1> QED
  BY <1>1, <1>2, <1>3, PTL DEF Spec

-----------------------------------------------------------------------------
(***************************************************************************)
(* Method lookup.  A class is followed by its chain, a sequence of cells,  *)
(* and chains only grow: new modules go in right behind their class, a     *)
(* singleton class in front, so the distance of a cell from the end (its   *)
(* Height) orders the cells of every chain that it is on.                  *)
(***************************************************************************)

\* What has methods.
Owner == Cls \cup Module

\* The cells of c, front first.
Segment(inc, c) ==
  <<<<c, 0>>>> \o [i \in 1 .. Len(inc[c]) |-> <<c, Len(inc[c]) + 1 - i>>]

\* The equation that Chain() solves, for all classes at once (class.c, RCLASS(c)->super).
Climbs(sup, inc, up) ==
  up = [d \in Owner |-> IF sup[d] = None THEN Segment(inc, d) ELSE Segment(inc, d) \o up[sup[d]]]

\* The chains of all classes.
Up(sup, inc) == CHOOSE up : Climbs(sup, inc, up)

\* The cells that there are, and where they are in the chain of their class.
Cell(inc) == {x \in Owner \X Nat : x[2] <= Len(inc[x[1]])}
Pos(inc, x) == IF x[2] = 0 THEN 1 ELSE Len(inc[x[1]]) + 2 - x[2]

\* No class is above itself: of any set of classes, one has its superclass outside.
Founded(sup) == \A Z \in SUBSET Owner : Z # {} => \E d \in Z : sup[d] \notin Z

\* The equation that defines the chains has a solution.
Climbable(sup) ==
  \A seg : \E up : up = [d \in Owner |-> IF sup[d] = None THEN seg[d] ELSE seg[d] \o up[sup[d]]]

\* The superclasses and inclusions, such that every class has a chain.
World(sup, inc) ==
  /\ sup \in [Owner -> Cls \cup {None}] /\ inc \in [Owner -> Seq(Module)]
  /\ Founded(sup) /\ Climbable(sup)

\* Chain() is that chain.
LEMMA ChainIs == ASSUME NEW c PROVE C!Chain(c) = Up(super, incl)[c]
BY DEF C!Chain, C!Segment, C!Owner, Owner, Segment, Climbs, Up

\* After the step it is the chain of what the step makes.
LEMMA ChainIsNext == ASSUME NEW c PROVE C!Chain(c)' = Up(super', incl')[c]
BY DEF C!Chain, C!Segment, C!Owner, Owner, Segment, Climbs, Up

\* The chains satisfy their equation.
LEMMA UpIs ==
  ASSUME NEW sup, NEW inc, World(sup, inc), NEW d \in Owner
  PROVE  Up(sup, inc)[d] = IF sup[d] = None THEN Segment(inc, d) ELSE Segment(inc, d) \o Up(sup, inc)[sup[d]]
<1> DEFINE seg == [e \in Owner |-> Segment(inc, e)]
<1>1. PICK up : up = [e \in Owner |-> IF sup[e] = None THEN seg[e] ELSE seg[e] \o up[sup[e]]]
  BY DEF World, Climbable
<1>2. Climbs(sup, inc, up)
  BY <1>1 DEF Climbs
<1>3. Climbs(sup, inc, Up(sup, inc))
  BY <1>2 DEF Up
<1> QED
  BY <1>3 DEF Climbs

\* The cells of one class.
LEMMA SegmentIs ==
  ASSUME NEW inc \in [Owner -> Seq(Module)], NEW c \in Owner
  PROVE  /\ Segment(inc, c) \in Seq(Owner \X Nat)
         /\ Len(inc[c]) \in Nat /\ Len(Segment(inc, c)) = Len(inc[c]) + 1
         /\ \A i \in 1 .. Len(inc[c]) + 1 :
              Segment(inc, c)[i] = <<c, IF i = 1 THEN 0 ELSE Len(inc[c]) + 2 - i>>
<1> DEFINE n == Len(inc[c])
           t == [i \in 1 .. n |-> <<c, n + 1 - i>>]
<1>1. n \in Nat
  BY LenProperties
<1>2. \A i \in 1 .. n : t[i] \in Owner \X Nat
  BY <1>1
<1>3. t \in Seq(Owner \X Nat) /\ Len(t) = n
  BY <1>1, <1>2
<1>4. <<<<c, 0>>>> \in Seq(Owner \X Nat) /\ Len(<<<<c, 0>>>>) = 1 /\ <<<<c, 0>>>>[1] = <<c, 0>>
  OBVIOUS
<1>5. Segment(inc, c) = <<<<c, 0>>>> \o t
  BY DEF Segment
<1> HIDE DEF t, n
<1>6. /\ Segment(inc, c) \in Seq(Owner \X Nat) /\ Len(Segment(inc, c)) = n + 1
      /\ \A i \in 1 .. n + 1 : Segment(inc, c)[i] = IF i <= 1 THEN <<<<c, 0>>>>[i] ELSE t[i - 1]
  BY <1>1, <1>3, <1>4, <1>5, ConcatProperties
<1>7. \A i \in 2 .. n + 1 : t[i - 1] = <<c, n + 2 - i>>
  BY <1>1 DEF t
<1>8. \A i \in 1 .. n + 1 : Segment(inc, c)[i] = <<c, IF i = 1 THEN 0 ELSE n + 2 - i>>
  <2> TAKE i \in 1 .. n + 1
  <2>1. CASE i = 1
    BY <1>1, <1>4, <1>6, <2>1
  <2>2. CASE i # 1
    <3>1. i \in 2 .. n + 1 /\ ~(i <= 1)
      BY <1>1, <2>2
    <3>2. Segment(inc, c)[i] = t[i - 1]
      BY <1>6, <3>1
    <3> QED
      BY <1>7, <2>2, <3>1, <3>2
  <2> QED
    BY <2>1, <2>2
<1> QED
  BY <1>1, <1>6, <1>8 DEF n

\* A chain is a sequence of cells.
LEMMA UpSeq ==
  ASSUME NEW sup, NEW inc, World(sup, inc)
  PROVE  \A d \in Owner : Up(sup, inc)[d] \in Seq(Owner \X Nat)
<1> DEFINE U == Up(sup, inc)
           Z == {d \in Owner : U[d] \notin Seq(Owner \X Nat)}
<1> SUFFICES ASSUME Z # {} PROVE FALSE
  OBVIOUS
<1>1. PICK d \in Z : sup[d] \notin Z
  BY DEF World, Founded
<1>2. U[d] = IF sup[d] = None THEN Segment(inc, d) ELSE Segment(inc, d) \o U[sup[d]]
  BY UpIs
<1>3. Segment(inc, d) \in Seq(Owner \X Nat)
  BY SegmentIs DEF World
<1>4. sup[d] # None => sup[d] \in Owner
  BY DEF World, Owner
<1>5. sup[d] # None => U[sup[d]] \in Seq(Owner \X Nat)
  BY <1>1, <1>4
<1> HIDE DEF U
<1>6. U[d] \in Seq(Owner \X Nat)
  BY <1>2, <1>3, <1>5, ConcatProperties
<1> QED
  BY <1>1, <1>6

\* The chain of d is its own cells, and the chain of its superclass.
Above(sup, inc, d, n) ==
  LET U == Up(sup, inc) IN
  /\ U[d] \in Seq(Owner \X Nat) /\ Len(U[d]) \in Nat /\ n \in Nat \ {0} /\ n <= Len(U[d])
  /\ \A i \in 1 .. n : U[d][i] = <<d, IF i = 1 THEN 0 ELSE n + 1 - i>>
  /\ sup[d] = None => Len(U[d]) = n
  /\ sup[d] # None => /\ sup[d] \in Owner /\ Len(U[sup[d]]) \in Nat
                      /\ Len(U[d]) = n + Len(U[sup[d]])
                      /\ \A j \in 1 .. Len(U[sup[d]]) : U[d][n + j] = U[sup[d]][j]

\* Every chain starts with the cells of its class.
LEMMA UpAt ==
  ASSUME NEW sup, NEW inc, World(sup, inc), NEW d \in Owner
  PROVE  Above(sup, inc, d, Len(inc[d]) + 1)
<1> DEFINE U == Up(sup, inc)
           u == U[d]
           v == U[sup[d]]
           s == Segment(inc, d)
<1>0. PICK n : n = Len(inc[d]) + 1
  OBVIOUS
<1>1. /\ s \in Seq(Owner \X Nat) /\ Len(s) = n /\ n \in Nat \ {0}
      /\ \A i \in 1 .. n : s[i] = <<d, IF i = 1 THEN 0 ELSE n + 1 - i>>
  <2>1. Len(inc[d]) \in Nat /\ n - 1 = Len(inc[d]) /\ \A i \in 1 .. n : n + 1 - i = Len(inc[d]) + 2 - i
    BY <1>0, SegmentIs DEF World
  <2>2. /\ s \in Seq(Owner \X Nat) /\ Len(s) = n
        /\ \A i \in 1 .. n : s[i] = <<d, IF i = 1 THEN 0 ELSE Len(inc[d]) + 2 - i>>
    BY <1>0, SegmentIs DEF World
  <2> HIDE DEF s
  <2>3. \A i \in 1 .. n : s[i] = <<d, IF i = 1 THEN 0 ELSE n + 1 - i>>
    BY <2>1, <2>2
  <2> QED
    BY <2>1, <2>2, <2>3
<1>2. u = IF sup[d] = None THEN s ELSE s \o v
  BY UpIs
<1>3. u \in Seq(Owner \X Nat) /\ Len(u) \in Nat
  BY UpSeq, LenProperties
<1>4. sup[d] # None => sup[d] \in Owner /\ v \in Seq(Owner \X Nat) /\ Len(v) \in Nat
  BY UpSeq, LenProperties DEF World, Owner
<1> HIDE DEF u, v, s
<1>5. CASE sup[d] = None
  <2>1. n <= Len(u) /\ Len(u) = n /\ \A i \in 1 .. n : u[i] = s[i]
    BY <1>1, <1>2, <1>5
  <2> QED
    BY <1>0, <1>1, <1>3, <1>5, <2>1 DEF u, Above
<1>6. CASE sup[d] # None
  <2>0. u = s \o v
    BY <1>2, <1>6
  <2>1. /\ Len(u) = n + Len(v)
        /\ \A i \in 1 .. n + Len(v) : u[i] = IF i <= n THEN s[i] ELSE v[i - n]
    <3>1. s \in Seq(Owner \X Nat) /\ v \in Seq(Owner \X Nat) /\ Len(s) = n
      BY <1>1, <1>4, <1>6
    <3>2. /\ Len(s \o v) = Len(s) + Len(v)
          /\ \A i \in 1 .. Len(s) + Len(v) : (s \o v)[i] = IF i <= Len(s) THEN s[i] ELSE v[i - Len(s)]
      BY <3>1, ConcatProperties
    <3> QED
      BY <2>0, <3>1, <3>2
  <2>2. \A j \in 1 .. Len(v) : u[n + j] = v[j]
    <3> TAKE j \in 1 .. Len(v)
    <3>1. PICK k : k = n + j
      OBVIOUS
    <3>2. k \in 1 .. n + Len(v) /\ ~(k <= n) /\ k - n = j
      BY <1>1, <1>4, <1>6, <3>1
    <3>3. u[k] = v[k - n]
      BY <2>1, <3>2
    <3>4. u[k] = v[j]
      BY <3>2, <3>3, Zenon
    <3> QED
      BY <3>1, <3>4, Zenon
  <2>3. n <= Len(u) /\ \A i \in 1 .. n : u[i] = s[i]
    BY <1>1, <1>4, <1>6, <2>1
  <2> QED
    BY <1>0, <1>1, <1>3, <1>4, <1>6, <2>1, <2>2, <2>3 DEF u, v, Above
<1> QED
  BY <1>5, <1>6

\* The i-th cell of the chain of c is where its own class says, and what follows is the
\* rest of the chain of that class.
Spotted(sup, inc, c, i, s) ==
  LET U == Up(sup, inc)
      x == U[c][i]
  IN  /\ x \in Cell(inc) /\ s \in Nat
      /\ Len(U[x[1]]) \in Nat /\ Len(U[c]) = s + Len(U[x[1]])
      /\ i = s + Pos(inc, x)
      /\ \A j \in 1 .. Len(U[x[1]]) : U[c][s + j] = U[x[1]][j]

\* Every cell of a chain is where Spotted says.
LEMMA Spot ==
  ASSUME NEW sup, NEW inc, World(sup, inc), NEW c \in Owner, NEW i \in 1 .. Len(Up(sup, inc)[c])
  PROVE  \E s : Spotted(sup, inc, c, i, s)
<1> DEFINE U == Up(sup, inc)
           Bad(d) == \E k \in 1 .. Len(U[d]) : \A s : ~Spotted(sup, inc, d, k, s)
           Z == {d \in Owner : Bad(d)}
<1> SUFFICES ASSUME Z # {} PROVE FALSE
  OBVIOUS
<1>1. PICK d \in Z : sup[d] \notin Z
  BY DEF World, Founded
<1>2. PICK k \in 1 .. Len(U[d]) : \A s : ~Spotted(sup, inc, d, k, s)
  OBVIOUS
<1>3. PICK n : n = Len(inc[d]) + 1
  OBVIOUS
<1>4. Above(sup, inc, d, n)
  BY <1>3, UpAt
<1> HIDE DEF Z
<1>5. d \in Owner
  BY <1>1 DEF Z
<1>6. Len(inc[d]) \in Nat /\ Len(inc[d]) = n - 1
  BY <1>3, <1>5, SegmentIs DEF World
<1>7. n \in Nat /\ k \in Nat /\ k > 0 /\ k <= Len(U[d]) /\ Len(U[d]) \in Nat
  BY <1>2, <1>4 DEF Above
<1>8. CASE k <= n
  <2>1. PICK p : p = IF k = 1 THEN 0 ELSE n + 1 - k
    OBVIOUS
  <2>2. U[d][k] = <<d, p>>
    BY <1>4, <1>7, <1>8, <2>1 DEF Above
  <2>3. p \in Nat /\ p <= Len(inc[d])
    BY <1>6, <1>7, <1>8, <2>1
  <2>4. <<d, p>> \in Cell(inc)
    BY <1>5, <2>3 DEF Cell
  <2>5. Pos(inc, <<d, p>>) = k
    <3>1. Pos(inc, <<d, p>>) = IF p = 0 THEN 1 ELSE Len(inc[d]) + 2 - p
      BY DEF Pos
    <3> QED
      BY <1>6, <1>7, <1>8, <2>1, <3>1
  <2>6. PICK m : m = Len(U[d])
    OBVIOUS
  <2>7. m \in Nat /\ m = 0 + m /\ k = 0 + k /\ \A j \in 1 .. m : U[d][0 + j] = U[d][j]
    BY <1>7, <2>6
  <2>8. <<d, p>>[1] = d
    OBVIOUS
  <2>9. Spotted(sup, inc, d, k, 0)
    BY <2>2, <2>4, <2>5, <2>6, <2>7, <2>8 DEF Spotted
  <2> QED
    BY <1>2, <2>9
<1>9. CASE k > n
  <2>1. PICK e : e = sup[d]
    OBVIOUS
  <2>2. PICK j : j = k - n
    OBVIOUS
  <2>3. /\ sup[d] # None /\ e \in Owner /\ Len(U[e]) \in Nat /\ Len(U[d]) = n + Len(U[e])
        /\ \A h \in 1 .. Len(U[e]) : U[d][n + h] = U[e][h]
    BY <1>4, <1>7, <1>9, <2>1 DEF Above
  <2>4. j \in 1 .. Len(U[e]) /\ k = n + j
    BY <1>7, <1>9, <2>2, <2>3
  <2>5. PICK s : Spotted(sup, inc, e, j, s)
    BY <1>1, <2>1, <2>3, <2>4 DEF Z
  <2>6. PICK x : x = U[e][j]
    OBVIOUS
  <2>7. U[d][k] = x
    BY <2>3, <2>4, <2>6
  <2>8. PICK m : m = Len(U[x[1]])
    OBVIOUS
  <2>9. /\ x \in Cell(inc) /\ s \in Nat /\ m \in Nat /\ Len(U[e]) = s + m
        /\ j = s + Pos(inc, x) 
        /\ \A h \in 1 .. m : U[e][s + h] = U[x[1]][h]
    BY <2>5, <2>6, <2>8 DEF Spotted
  <2>10. Pos(inc, x) \in Int
    BY <2>9, SegmentIs DEF Pos, Cell, World
  <2>11. PICK r : r = s + n
    OBVIOUS
  <2>12. r \in Nat /\ Len(U[d]) = r + m /\ k = r + Pos(inc, x)
    BY <1>7, <2>3, <2>4, <2>9, <2>10, <2>11
  <2>13. \A h \in 1 .. m : U[d][r + h] = U[x[1]][h]
    <3> TAKE h \in 1 .. m
    <3>1. PICK g : g = s + h
      OBVIOUS
    <3>2. g \in 1 .. Len(U[e]) /\ r + h = n + g
      <4>1. n \in Nat /\ s \in Nat /\ m \in Nat /\ Len(U[e]) = s + m
        BY <1>7, <2>9
      <4>2. PICK q : q = Len(U[e])
        OBVIOUS
      <4>3. q = s + m
        BY <4>1, <4>2
      <4>4. g \in 1 .. q /\ r + h = n + g
        BY <2>11, <3>1, <4>1, <4>3
      <4> QED
        BY <4>2, <4>4
    <3>3. U[d][n + g] = U[e][g] /\ U[e][g] = U[x[1]][h]
      BY <2>3, <2>9, <3>1, <3>2
    <3> QED
      BY <3>2, <3>3, Zenon
  <2>14. Spotted(sup, inc, d, k, r)
    BY <2>7, <2>8, <2>9, <2>12, <2>13 DEF Spotted
  <2> QED
    BY <1>2, <2>14
<1> QED
  BY <1>7, <1>8, <1>9

\* x is in the chain of c, and how many cells are above it.
On(sup, inc, x, c) == \E i \in 1 .. Len(Up(sup, inc)[c]) : Up(sup, inc)[c][i] = x
Height(sup, inc, x) == Len(Up(sup, inc)[x[1]]) - Pos(inc, x)

\* A cell is in the chain of its own class, where Pos says.
LEMMA OwnSpot ==
  ASSUME NEW sup, NEW inc, World(sup, inc), NEW x \in Cell(inc)
  PROVE  /\ x[1] \in Owner /\ Pos(inc, x) \in 1 .. Len(Up(sup, inc)[x[1]])
         /\ Pos(inc, x) <= Len(inc[x[1]]) + 1
         /\ Up(sup, inc)[x[1]][Pos(inc, x)] = x
         /\ On(sup, inc, x, x[1])
         /\ Len(Up(sup, inc)[x[1]]) \in Nat /\ Height(sup, inc, x) \in Nat
<1> DEFINE d == x[1]
           p == x[2]
           U == Up(sup, inc)
<1>1. d \in Owner /\ p \in Nat /\ p <= Len(inc[d]) /\ x = <<d, p>>
  BY DEF Cell
<1>2. PICK n : n = Len(inc[d]) + 1
  OBVIOUS
<1>3. Above(sup, inc, d, n)
  BY <1>1, <1>2, UpAt
<1>4. Len(inc[d]) \in Nat /\ Len(inc[d]) = n - 1 /\ n \in Nat
  BY <1>1, <1>2, SegmentIs DEF World
<1>5. PICK i : i = Pos(inc, x)
  OBVIOUS
<1>6. i = IF p = 0 THEN 1 ELSE Len(inc[d]) + 2 - p
  BY <1>5 DEF Pos
<1> HIDE DEF d, p
<1>7. i \in 1 .. n /\ p = (IF i = 1 THEN 0 ELSE n + 1 - i)
  BY <1>1, <1>4, <1>6
<1>8. U[d][i] = <<d, p>> /\ Len(U[d]) \in Nat /\ n <= Len(U[d]) /\ n \in Nat
  BY <1>3, <1>7 DEF Above
<1>9. i \in 1 .. Len(U[d]) /\ Len(U[d]) - i \in Nat
  BY <1>7, <1>8
<1>10. U[d][i] = x
  BY <1>1, <1>8
<1>11. On(sup, inc, x, d)
  BY <1>9, <1>10 DEF On
<1> QED
  BY <1>1, <1>2, <1>5, <1>7, <1>8, <1>9, <1>10, <1>11 DEF d, Height

\* The i-th cell of a chain.
LEMMA SpotIs ==
  ASSUME NEW sup, NEW inc, World(sup, inc), NEW c \in Owner, NEW x, On(sup, inc, x, c)
  PROVE  /\ x \in Cell(inc)
         /\ Len(Up(sup, inc)[c]) - Height(sup, inc, x) \in 1 .. Len(Up(sup, inc)[c])
         /\ Up(sup, inc)[c][Len(Up(sup, inc)[c]) - Height(sup, inc, x)] = x
         /\ \A i \in 1 .. Len(Up(sup, inc)[c]) :
              Up(sup, inc)[c][i] = x => i = Len(Up(sup, inc)[c]) - Height(sup, inc, x)
<1> DEFINE U == Up(sup, inc)
           m == Len(U[c])
           l == Len(U[x[1]])
           h == Height(sup, inc, x)
<1>1. PICK i \in 1 .. m : U[c][i] = x
  BY DEF On
<1>2. Len(U[c]) \in Nat
  BY UpAt DEF Above
<1>3. PICK s : Spotted(sup, inc, c, i, s)
  BY <1>1, Spot
<1>4. x \in Cell(inc) /\ s \in Nat /\ l \in Nat /\ m = s + l
  BY <1>1, <1>3 DEF Spotted
<1>5. h \in Nat /\ Pos(inc, x) \in Nat /\ h = l - Pos(inc, x)
  BY <1>4, OwnSpot DEF Height
<1>6. \A k \in 1 .. m : U[c][k] = x => k = m - h
  <2> SUFFICES ASSUME NEW k \in 1 .. m, U[c][k] = x PROVE k = m - h
    OBVIOUS
  <2>1. PICK t : Spotted(sup, inc, c, k, t)
    BY Spot
  <2>2. t \in Nat /\ m = t + l /\ k = t + Pos(inc, x)
    BY <2>1 DEF Spotted
  <2> HIDE DEF m, l, h
  <2> QED
    BY <1>4, <1>5, <2>2
<1>7. i = m - h
  BY <1>1, <1>6
<1> QED
  BY <1>1, <1>4, <1>6, <1>7

\* The chain of c holds the chains of all its cells, and no more follows a cell.
LEMMA OnTrans ==
  ASSUME NEW sup, NEW inc, World(sup, inc), NEW c \in Owner, NEW x, On(sup, inc, x, c), NEW y
  PROVE  /\ On(sup, inc, y, x[1]) => On(sup, inc, y, c)
         /\ On(sup, inc, y, c) /\ Height(sup, inc, y) <= Height(sup, inc, x) => On(sup, inc, y, x[1])
<1> DEFINE U == Up(sup, inc)
           m == Len(U[c])
           l == Len(U[x[1]])
<1>1. PICK i \in 1 .. m : U[c][i] = x
  BY DEF On
<1>2. PICK s : Spotted(sup, inc, c, i, s)
  BY <1>1, Spot
<1>3. /\ x \in Cell(inc) /\ s \in Nat /\ l \in Nat /\ m = s + l
      /\ \A j \in 1 .. l : U[c][s + j] = U[x[1]][j]
  BY <1>1, <1>2 DEF Spotted
<1>4. Height(sup, inc, x) < l /\ Height(sup, inc, x) \in Nat
  <2>1. Height(sup, inc, x) = l - Pos(inc, x) /\ Pos(inc, x) \in 1 .. l
    BY <1>3, OwnSpot DEF Height
  <2> HIDE DEF l
  <2> QED
    BY <1>3, <2>1
<1>5. ASSUME On(sup, inc, y, x[1]) PROVE On(sup, inc, y, c)
  <2>1. PICK j \in 1 .. l : U[x[1]][j] = y
    BY <1>5 DEF On
  <2>2. U[c][s + j] = y
    BY <1>3, <2>1
  <2> HIDE DEF m, l
  <2>3. s + j \in 1 .. m
    BY <1>3, <2>1
  <2>4. \E k \in 1 .. m : U[c][k] = y
    BY <2>2, <2>3
  <2> QED
    BY <2>4 DEF m, On
<1>6. ASSUME On(sup, inc, y, c), Height(sup, inc, y) <= Height(sup, inc, x) PROVE On(sup, inc, y, x[1])
  <2> DEFINE h == Height(sup, inc, y)
  <2>1. y \in Cell(inc) /\ m - h \in 1 .. m /\ U[c][m - h] = y
    BY <1>6, SpotIs
  <2>2. h \in Nat
    BY <2>1, OwnSpot
  <2> HIDE DEF m, l, h
  <2>3. PICK j : j = l - h
    OBVIOUS
  <2>4. j \in 1 .. l
    BY <1>3, <1>4, <1>6, <2>2, <2>3 DEF h
  <2>5. s + j = m - h
    BY <1>3, <2>2, <2>3
  <2>6. U[c][s + j] = y
    BY <2>1, <2>5, Zenon
  <2>7. U[x[1]][j] = y
    BY <1>3, <2>4, <2>6, Zenon
  <2> QED
    BY <2>4, <2>7 DEF l, On
<1> QED
  BY <1>5, <1>6

\* The least element of a set of naturals, from the well-founded order of the library.
Smaller == {p \in Nat \X Nat : p[1] < p[2]}

\* Every set of naturals has a least element.
LEMMA LeastOf ==
  ASSUME NEW A \in SUBSET Nat, A # {}
  PROVE  \E x \in A : \A y \in A : x <= y
<1>1. IsWellFoundedOn(Smaller, Nat)
  BY NatLessThanWellFounded DEF OpToRel, Smaller
<1>2. PICK x \in A : \A y \in A : ~ (<<y, x>> \in Smaller)
  BY <1>1, WFMin
<1>3. ASSUME NEW y \in A, ~(x <= y) PROVE FALSE
  <2>1. x \in Nat /\ y \in Nat /\ y < x
    BY <1>3
  <2>2. <<y, x>> \in Smaller
    BY <2>1 DEF Smaller
  <2> QED
    BY <2>2, <1>2
<1> QED
  BY <1>3

\* The least of some natural numbers, and what SelectInSeq() finds.
LEMMA MinOf ==
  ASSUME NEW Z \in SUBSET Nat, Z # {}
  PROVE  C!Min(Z) \in Z /\ \A n \in Z : C!Min(Z) <= n
<1>1. PICK n \in Z : \A m \in Z : n <= m
  BY LeastOf
<1> QED
  BY <1>1 DEF C!Min

\* Min() is the least.
LEMMA MinIsLeast ==
  ASSUME NEW Z \in SUBSET Nat, NEW n \in Z, \A m \in Z : n <= m
  PROVE  C!Min(Z) = n
<1>1. Z # {} /\ n \in Nat
  OBVIOUS
<1>2. C!Min(Z) \in Z /\ C!Min(Z) <= n
  BY <1>1, MinOf
<1>3. C!Min(Z) \in Nat /\ n <= C!Min(Z)
  BY <1>2
<1> QED
  BY <1>1, <1>2, <1>3

\* Place() is the distance from the end.
LEMMA PlaceIs ==
  ASSUME NEW sup, NEW inc, World(sup, inc), NEW c \in Owner, NEW x
  PROVE  /\ On(sup, inc, x, c) => 
              /\ C!Place(x, Up(sup, inc)[c]) = Len(Up(sup, inc)[c]) - Height(sup, inc, x)
              /\ C!Place(x, Up(sup, inc)[c]) \in 1 .. Len(Up(sup, inc)[c])
              /\ Up(sup, inc)[c][C!Place(x, Up(sup, inc)[c])] = x
         /\ ~On(sup, inc, x, c) => C!Place(x, Up(sup, inc)[c]) = 0
<1> DEFINE u == Up(sup, inc)[c]
           I == {i \in 1 .. Len(u) : u[i] = x}
<1>1. C!Place(x, u) = IF I # {} THEN C!Min(I) ELSE 0
  BY DEF C!Place, C!SelectInSeq
<1>2. CASE On(sup, inc, x, c)
  <2> DEFINE p == Len(u) - Height(sup, inc, x)
  <2>2. p \in 1 .. Len(u) /\ u[p] = x /\ \A i \in 1 .. Len(u) : u[i] = x => i = p
    BY <1>2, SpotIs
  <2> HIDE DEF p
  <2>3. p \in Nat /\ I = {p}
    BY <2>2
  <2>4. C!Min(I) = p
    BY <2>3, MinIsLeast
  <2> QED
    BY <1>1, <1>2, <2>2, <2>3, <2>4 DEF p
<1>3. CASE ~On(sup, inc, x, c)
  <2>1. I = {}
    BY <1>3 DEF On
  <2> QED
    BY <1>1, <1>3, <2>1
<1> QED
  BY <1>2, <1>3

\* The cell above one; there is none above a cell of height 0.
Upper(sup, inc, x) ==
  LET u == Up(sup, inc)[x[1]]
      n == C!Place(x, u) + 1
  IN  IF n > Len(u) THEN None ELSE u[n]

\* What is above a cell is on its chain, one higher.
LEMMA UpperIs ==
  ASSUME NEW sup, NEW inc, World(sup, inc), NEW x \in Cell(inc)
  PROVE  /\ Height(sup, inc, x) = 0 => Upper(sup, inc, x) = None
         /\ Height(sup, inc, x) # 0 =>
              /\ Upper(sup, inc, x) # None /\ Upper(sup, inc, x) \in Cell(inc)
              /\ On(sup, inc, Upper(sup, inc, x), x[1])
              /\ Height(sup, inc, Upper(sup, inc, x)) = Height(sup, inc, x) - 1
<1> DEFINE u == Up(sup, inc)[x[1]]
           h == Height(sup, inc, x)
<1>1. PICK n : n = C!Place(x, u) + 1
  OBVIOUS
<1>2. On(sup, inc, x, x[1]) /\ x[1] \in Owner /\ h \in Nat /\ Len(u) \in Nat
  BY OwnSpot
<1>3. n = Len(u) - h + 1 /\ n - 1 \in 1 .. Len(u)
  <2>1. C!Place(x, u) = Len(u) - h /\ C!Place(x, u) \in 1 .. Len(u)
    BY <1>2, PlaceIs
  <2> QED
    BY <1>1, <1>2, <2>1
<1>4. Upper(sup, inc, x) = IF n > Len(u) THEN None ELSE u[n]
  BY <1>1 DEF Upper
<1>5. h = 0 => n > Len(u)
  BY <1>2, <1>3
<1>6. ASSUME h # 0 PROVE /\ Upper(sup, inc, x) # None /\ Upper(sup, inc, x) \in Cell(inc)
                         /\ On(sup, inc, Upper(sup, inc, x), x[1])
                         /\ Height(sup, inc, Upper(sup, inc, x)) = h - 1
  <2>1. n \in 1 .. Len(u) /\ ~(n > Len(u))
    BY <1>2, <1>3, <1>6
  <2>2. PICK y : y = u[n]
    OBVIOUS
  <2>3. On(sup, inc, y, x[1])
    BY <2>1, <2>2 DEF On
  <2>4. y \in Cell(inc) /\ \A i \in 1 .. Len(u) : u[i] = y => i = Len(u) - Height(sup, inc, y)
    BY <1>2, <2>3, SpotIs
  <2>5. Height(sup, inc, y) \in Nat
    BY <2>4, OwnSpot
  <2>6. Height(sup, inc, y) = h - 1
    <3>1. n = Len(u) - Height(sup, inc, y)
      BY <2>1, <2>2, <2>4
    <3>2. Len(u) \in Nat /\ h \in Nat /\ n = Len(u) - h + 1
      BY <1>2, <1>3
    <3> HIDE DEF u, h
    <3> QED
      BY <2>5, <3>1, <3>2
  <2>7. y # None
    BY <2>4, ClassAssumption DEF Cell, Owner
  <2>8. Upper(sup, inc, x) = y
    BY <1>4, <2>1, <2>2
  <2> QED
    BY <2>3, <2>4, <2>6, <2>7, <2>8
<1> QED
  BY <1>4, <1>5, <1>6

\* Super() is the cell above.
LEMMA SuperIs == ASSUME NEW x PROVE C!Super(x) = Upper(super, incl, x)
BY ChainIs DEF C!Super, Upper

\* A cell in the chain of d is one of d, or in the chain of its superclass.
LEMMA OnSplit ==
  ASSUME NEW sup, NEW inc, World(sup, inc), NEW d \in Owner, NEW x
  PROVE  On(sup, inc, x, d) <=> \/ x \in Cell(inc) /\ x[1] = d
                                \/ sup[d] # None /\ sup[d] \in Owner /\ On(sup, inc, x, sup[d])
<1> DEFINE U == Up(sup, inc)
           e == sup[d]
           m == Len(U[d])
           l == Len(U[e])
<1>0. PICK n : n = Len(inc[d]) + 1
  OBVIOUS
<1>1. Above(sup, inc, d, n)
  BY <1>0, UpAt
<1>2. m \in Nat /\ n \in Nat \ {0} /\ n <= m /\ (sup[d] = None => m = n)
  BY <1>1 DEF Above
<1>3. sup[d] # None => e \in Owner /\ l \in Nat /\ m = n + l /\ \A j \in 1 .. l : U[d][n + j] = U[e][j]
  BY <1>1 DEF Above
<1>4. \A i \in 1 .. n : U[d][i][1] = d
  BY <1>1 DEF Above
<1> HIDE DEF m, l, e, U
<1>5. ASSUME On(sup, inc, x, d), ~(x \in Cell(inc) /\ x[1] = d)
      PROVE  sup[d] # None /\ sup[d] \in Owner /\ On(sup, inc, x, sup[d])
  <2>1. PICK i \in 1 .. m : U[d][i] = x
    BY <1>5 DEF On, m, U
  <2>2. x \in Cell(inc)
    BY <1>5, SpotIs
  <2>3. ~(i <= n)
    BY <1>2, <1>4, <1>5, <2>1, <2>2
  <2>4. sup[d] # None
    BY <1>2, <2>1, <2>3
  <2>5. PICK j : j = i - n
    OBVIOUS
  <2>6. j \in 1 .. l /\ i = n + j
    BY <1>2, <1>3, <2>1, <2>3, <2>4, <2>5
  <2>7. U[e][j] = x
    BY <1>3, <2>1, <2>4, <2>6, Zenon
  <2> QED
    BY <1>3, <2>4, <2>6, <2>7 DEF On, l, e, U
<1>6. ASSUME sup[d] # None, On(sup, inc, x, sup[d]) PROVE On(sup, inc, x, d)
  <2>1. PICK j \in 1 .. l : U[e][j] = x
    BY <1>6 DEF On, l, e, U
  <2>2. U[d][n + j] = x
    BY <1>3, <1>6, <2>1
  <2>3. n + j \in 1 .. m
    BY <1>2, <1>3, <1>6, <2>1
  <2>4. \E i \in 1 .. m : U[d][i] = x
    BY <2>2, <2>3
  <2> QED
    BY <2>4 DEF On, m, U
<1>7. ASSUME x \in Cell(inc), x[1] = d PROVE On(sup, inc, x, d)
  BY <1>7, OwnSpot
<1> QED
  BY <1>5, <1>6, <1>7

\* In one chain, cells of the same height are the same, and lower than it is long.
LEMMA SameHeight ==
  ASSUME NEW sup, NEW inc, World(sup, inc), NEW c \in Owner, NEW x, On(sup, inc, x, c)
  PROVE  /\ Height(sup, inc, x) \in Nat /\ Height(sup, inc, x) < Len(Up(sup, inc)[c])
         /\ \A y : On(sup, inc, y, c) /\ Height(sup, inc, y) = Height(sup, inc, x) => y = x
<1> DEFINE m == Len(Up(sup, inc)[c])
           h == Height(sup, inc, x)
<1>1. x \in Cell(inc) /\ m - h \in 1 .. m /\ Up(sup, inc)[c][m - h] = x
  BY SpotIs
<1>2. h \in Nat /\ m \in Nat
  BY <1>1, OwnSpot, UpAt DEF Above
<1>3. \A y : On(sup, inc, y, c) /\ Height(sup, inc, y) = h => y = x
  <2> SUFFICES ASSUME NEW y, On(sup, inc, y, c), Height(sup, inc, y) = h PROVE y = x
    OBVIOUS
  <2>1. Up(sup, inc)[c][m - Height(sup, inc, y)] = y
    BY SpotIs
  <2> QED
    BY <1>1, <2>1
<1>4. h < m
  <2> HIDE DEF m, h
  <2> QED
    BY <1>1, <1>2
<1> QED
  BY <1>2, <1>3, <1>4

-----------------------------------------------------------------------------
\* How the chains change: they only grow.
Wider(sup, inc, sup2, inc2) ==
  \A d \in Owner : (sup[d] # None => sup2[d] = sup[d]) /\ Len(inc[d]) <= Len(inc2[d])

\* No cell goes away.
LEMMA GrowCell ==
  ASSUME NEW sup, NEW inc, World(sup, inc), NEW sup2, NEW inc2, World(sup2, inc2),
         Wider(sup, inc, sup2, inc2), NEW x \in Cell(inc)
  PROVE  x \in Cell(inc2)
BY SegmentIs DEF Cell, World, Wider

\* A cell stays in the chains it is in.
LEMMA GrowOn ==
  ASSUME NEW sup, NEW inc, World(sup, inc), NEW sup2, NEW inc2, World(sup2, inc2),
         Wider(sup, inc, sup2, inc2), NEW c \in Owner, NEW x, On(sup, inc, x, c)
  PROVE  On(sup2, inc2, x, c)
<1> DEFINE Z == {d \in Owner : On(sup, inc, x, d) /\ ~On(sup2, inc2, x, d)}
<1> SUFFICES ASSUME Z # {} PROVE FALSE
  OBVIOUS
<1>1. PICK d \in Z : sup[d] \notin Z
  BY DEF World, Founded
<1>2. CASE x \in Cell(inc) /\ x[1] = d
  <2>1. x \in Cell(inc2)
    BY <1>2, GrowCell
  <2> QED
    BY <1>1, <1>2, <2>1, OnSplit
<1>3. CASE sup[d] # None /\ sup[d] \in Owner /\ On(sup, inc, x, sup[d])
  <2>1. sup2[d] = sup[d] /\ On(sup2, inc2, x, sup[d])
    BY <1>1, <1>3 DEF Wider
  <2> QED
    BY <1>1, <1>3, <2>1, OnSplit
<1> QED
  BY <1>1, <1>2, <1>3, OnSplit

\* Cells of a chain keep their order.
LEMMA GrowOrder ==
  ASSUME NEW sup, NEW inc, World(sup, inc), NEW sup2, NEW inc2, World(sup2, inc2),
         Wider(sup, inc, sup2, inc2), NEW c \in Owner, NEW x, On(sup, inc, x, c),
         NEW y, On(sup, inc, y, c), Height(sup, inc, y) <= Height(sup, inc, x)
  PROVE  Height(sup2, inc2, y) <= Height(sup2, inc2, x)
<1> DEFINE d == x[1]
<1>1. x \in Cell(inc) /\ y \in Cell(inc) /\ x \in Cell(inc2) /\ y \in Cell(inc2)
  BY SpotIs, GrowCell
<1>2. d \in Owner /\ On(sup, inc, y, d)
  BY <1>1, OwnSpot, OnTrans
<1>3. CASE y[1] = d
  <2>1. /\ x[2] \in Nat /\ y[2] \in Nat /\ x[2] <= Len(inc[d]) /\ y[2] <= Len(inc[d])
        /\ x[2] <= Len(inc2[d]) /\ y[2] <= Len(inc2[d])
    BY <1>1, <1>3 DEF Cell
  <2>2. Len(inc[d]) \in Nat /\ Len(inc2[d]) \in Nat /\ Len(Up(sup, inc)[d]) \in Nat /\ Len(Up(sup2, inc2)[d]) \in Nat
    BY <1>1, <1>2, OwnSpot, SegmentIs DEF World
  <2>3. Pos(inc, x) <= Pos(inc, y)
    <3>1. /\ Height(sup, inc, x) = Len(Up(sup, inc)[d]) - Pos(inc, x)
          /\ Height(sup, inc, y) = Len(Up(sup, inc)[d]) - Pos(inc, y)
      BY <1>3 DEF Height
    <3>2. Pos(inc, x) \in Nat /\ Pos(inc, y) \in Nat
      BY <1>1, OwnSpot
    <3> QED
      BY <2>2, <3>1, <3>2
  <2>4. Pos(inc2, x) <= Pos(inc2, y)
    <3>1. PICK l, l2, i, j : l = Len(inc[d]) /\ l2 = Len(inc2[d]) /\ i = x[2] /\ j = y[2]
      OBVIOUS
    <3>2. /\ Pos(inc, x) = (IF i = 0 THEN 1 ELSE l + 2 - i) /\ Pos(inc, y) = (IF j = 0 THEN 1 ELSE l + 2 - j)
          /\ Pos(inc2, x) = (IF i = 0 THEN 1 ELSE l2 + 2 - i) /\ Pos(inc2, y) = (IF j = 0 THEN 1 ELSE l2 + 2 - j)
      BY <1>3, <3>1 DEF Pos
    <3>3. l \in Nat /\ l2 \in Nat /\ i \in Nat /\ j \in Nat /\ i <= l /\ j <= l /\ i <= l2 /\ j <= l2
      BY <2>1, <2>2, <3>1
    <3> QED
      BY <2>3, <3>2, <3>3
  <2>5. /\ Height(sup2, inc2, x) = Len(Up(sup2, inc2)[d]) - Pos(inc2, x)
        /\ Height(sup2, inc2, y) = Len(Up(sup2, inc2)[d]) - Pos(inc2, y)
    BY <1>3 DEF Height
  <2>6. Pos(inc2, x) \in Nat /\ Pos(inc2, y) \in Nat
    BY <1>1, OwnSpot
  <2> QED
    BY <2>2, <2>4, <2>5, <2>6
<1>4. CASE y[1] # d
  <2>1. sup[d] # None /\ sup[d] \in Owner /\ On(sup, inc, y, sup[d]) /\ sup2[d] = sup[d]
    BY <1>2, <1>4, OnSplit DEF Wider
  <2>2. On(sup2, inc2, y, sup[d])
    BY <2>1, GrowOn
  <2>3. Height(sup2, inc2, y) \in Nat /\ Height(sup2, inc2, y) < Len(Up(sup2, inc2)[sup[d]])
    BY <2>1, <2>2, SameHeight
  <2>4. PICK n : n = Len(inc2[d]) + 1
    OBVIOUS
  <2>5. Above(sup2, inc2, d, n)
    BY <1>2, <2>4, UpAt
  <2>6. n \in Nat /\ Len(Up(sup2, inc2)[sup[d]]) \in Nat /\ Len(Up(sup2, inc2)[d]) = n + Len(Up(sup2, inc2)[sup[d]])
    BY <2>1, <2>5 DEF Above
  <2>7. Pos(inc2, x) \in Nat /\ Pos(inc2, x) <= n /\ Height(sup2, inc2, x) = Len(Up(sup2, inc2)[d]) - Pos(inc2, x)
    BY <1>1, <2>4, OwnSpot DEF Height
  <2> QED
    BY <2>3, <2>6, <2>7
<1> QED
  BY <1>3, <1>4

\* What has a cell above it keeps one.
LEMMA GrowAbove ==
  ASSUME NEW sup, NEW inc, World(sup, inc), NEW sup2, NEW inc2, World(sup2, inc2),
         Wider(sup, inc, sup2, inc2), NEW x \in Cell(inc), Height(sup, inc, x) # 0
  PROVE  Height(sup2, inc2, x) # 0
<1> DEFINE y == Upper(sup, inc, x)
<1>1. x[1] \in Owner /\ On(sup, inc, x, x[1]) /\ Height(sup, inc, x) \in Nat
  BY OwnSpot
<1>2. On(sup, inc, y, x[1]) /\ Height(sup, inc, y) = Height(sup, inc, x) - 1
  BY UpperIs
<1> HIDE DEF y
<1>3. Height(sup2, inc2, y) <= Height(sup2, inc2, x)
  BY <1>1, <1>2, GrowOrder
<1>4. On(sup2, inc2, x, x[1]) /\ On(sup2, inc2, y, x[1])
  BY <1>1, <1>2, GrowOn
<1>5. Height(sup2, inc2, x) \in Nat /\ Height(sup2, inc2, y) \in Nat
  BY <1>1, <1>4, SameHeight
<1>6. y # x
  BY <1>1, <1>2
<1>7. Height(sup2, inc2, x) # Height(sup2, inc2, y)
  BY <1>1, <1>4, <1>6, SameHeight
<1> QED
  BY <1>3, <1>5, <1>7

\* At first no class has a superclass.
LEMMA WorldFirst ==
  ASSUME NEW sup, sup = [c \in Owner |-> None], NEW inc, inc = [c \in Owner |-> <<>>]
  PROVE  World(sup, inc)
<1>1. sup \in [Owner -> Cls \cup {None}] /\ inc \in [Owner -> Seq(Module)]
  OBVIOUS
<1>2. None \notin Owner
  BY ClassAssumption DEF Owner
<1>3. Founded(sup)
  BY <1>2 DEF Founded
<1>4. Climbable(sup)
  <2> SUFFICES ASSUME NEW seg
               PROVE  \E up : up = [d \in Owner |-> IF sup[d] = None THEN seg[d] ELSE seg[d] \o up[sup[d]]]
    BY DEF Climbable
  <2>1. [d \in Owner |-> seg[d]] =
          [d \in Owner |-> IF sup[d] = None THEN seg[d] ELSE seg[d] \o [e \in Owner |-> seg[e]][sup[d]]]
    OBVIOUS
  <2> QED
    BY <2>1
<1> QED
  BY <1>1, <1>3, <1>4 DEF World

\* A class that is nobody's superclass gets one.
LEMMA WorldDefine ==
  ASSUME NEW sup, NEW inc, World(sup, inc), NEW c \in Cls, NEW p \in Cls, p # c,
         sup[c] = None, \A d \in Owner : sup[d] # c
  PROVE  World([sup EXCEPT ![c] = p], inc)
<1> DEFINE sup2 == [sup EXCEPT ![c] = p]
<1>1. /\ sup2 \in [Owner -> Cls \cup {None}] /\ inc \in [Owner -> Seq(Module)]
      /\ c \in Owner /\ p \in Owner /\ sup2[c] = p /\ p # None
      /\ \A d \in Owner \ {c} : sup2[d] = sup[d]
  BY ClassAssumption DEF World, Owner
<1> HIDE DEF sup2
<1>2. Founded(sup2)
  <2> SUFFICES ASSUME NEW Z \in SUBSET Owner, Z # {} PROVE \E d \in Z : sup2[d] \notin Z
    BY DEF Founded
  <2>1. CASE c \notin Z
    BY <1>1, <2>1 DEF World, Founded
  <2>2. CASE c \in Z /\ p \notin Z
    BY <1>1, <2>2
  <2>3. CASE c \in Z /\ p \in Z
    <3>1. Z \ {c} \in SUBSET Owner /\ Z \ {c} # {}
      BY <2>3
    <3>2. PICK d \in Z \ {c} : sup[d] \notin Z \ {c}
      BY <3>1 DEF World, Founded
    <3>3. sup[d] # c
      OBVIOUS
    <3> QED
      BY <1>1, <3>2, <3>3
  <2> QED
    BY <2>1, <2>2, <2>3
<1>3. Climbable(sup2)
  <2> SUFFICES ASSUME NEW seg
               PROVE  \E up : up = [d \in Owner |-> IF sup2[d] = None THEN seg[d] ELSE seg[d] \o up[sup2[d]]]
    BY DEF Climbable
  <2>1. PICK old : old = [d \in Owner |-> IF sup[d] = None THEN seg[d] ELSE seg[d] \o old[sup[d]]]
    BY DEF World, Climbable
  <2> DEFINE new == [d \in Owner |-> IF d = c THEN seg[c] \o old[p] ELSE old[d]]
  <2>2. new[p] = old[p]
    BY <1>1
  <2>3. ASSUME NEW d \in Owner
        PROVE  new[d] = IF sup2[d] = None THEN seg[d] ELSE seg[d] \o new[sup2[d]]
    <3>1. CASE d = c
      BY <1>1, <2>2, <3>1
    <3>2. CASE d # c
      <4>1. new[d] = old[d] /\ sup2[d] = sup[d]
        BY <1>1, <3>2
      <4>2. old[d] = IF sup[d] = None THEN seg[d] ELSE seg[d] \o old[sup[d]]
        BY <2>1
      <4>3. sup[d] # None => sup[d] \in Owner /\ sup[d] # c
        BY DEF World, Owner
      <4>4. sup[d] # None => new[sup[d]] = old[sup[d]]
        BY <4>3
      <4> QED
        BY <4>1, <4>2, <4>4
    <3> QED
      BY <3>1, <3>2
  <2>4. new = [d \in Owner |-> IF sup2[d] = None THEN seg[d] ELSE seg[d] \o new[sup2[d]]]
    <3>1. new = [d \in Owner |-> new[d]]
      OBVIOUS
    <3> HIDE DEF new
    <3> QED
      BY <2>3, <3>1
  <2> QED
    BY <2>4
<1> QED
  BY <1>1, <1>2, <1>3 DEF World, sup2

\* That class apart, the chains stay what they are.
LEMMA SameUp ==
  ASSUME NEW sup, NEW inc, World(sup, inc), NEW sup2, World(sup2, inc), NEW c \in Owner,
         \A d \in Owner : sup[d] # c, \A d \in Owner \ {c} : sup2[d] = sup[d]
  PROVE  \A d \in Owner \ {c} : Up(sup2, inc)[d] = Up(sup, inc)[d]
<1> DEFINE Z == {d \in Owner \ {c} : Up(sup2, inc)[d] # Up(sup, inc)[d]}
<1> SUFFICES ASSUME Z # {} PROVE FALSE
  OBVIOUS
<1>1. PICK d \in Z : sup[d] \notin Z
  BY DEF World, Founded
<1>2. /\ Up(sup, inc)[d] = IF sup[d] = None THEN Segment(inc, d) ELSE Segment(inc, d) \o Up(sup, inc)[sup[d]]
      /\ Up(sup2, inc)[d] = IF sup2[d] = None THEN Segment(inc, d) ELSE Segment(inc, d) \o Up(sup2, inc)[sup2[d]]
  BY UpIs
<1>3. sup2[d] = sup[d] /\ (sup[d] # None => sup[d] \in Owner \ {c})
  BY DEF World, Owner
<1>4. sup[d] # None => Up(sup2, inc)[sup[d]] = Up(sup, inc)[sup[d]]
  BY <1>1, <1>3
<1>5. Up(sup2, inc)[d] = Up(sup, inc)[d]
  BY <1>2, <1>3, <1>4
<1> QED
  BY <1>1, <1>5

\* The classes in the chain of a class that is made are made.
IsMade(sup, c) == c \in Module \cup {Object} \/ sup[c] # None

\* Only what is made is on the chain of what is made.
LEMMA MadeOn ==
  ASSUME NEW sup, NEW inc, World(sup, inc), \A d \in Owner : sup[d] # None => IsMade(sup, sup[d]),
         NEW c \in Owner, IsMade(sup, c), NEW x, On(sup, inc, x, c)
  PROVE  IsMade(sup, x[1])
<1> DEFINE Z == {d \in Owner : IsMade(sup, d) /\ On(sup, inc, x, d)}
<1> SUFFICES ASSUME ~IsMade(sup, x[1]) PROVE FALSE
  OBVIOUS
<1>1. PICK d \in Z : sup[d] \notin Z
  BY DEF World, Founded
<1>2. x[1] # d
  BY <1>1
<1>3. sup[d] # None /\ sup[d] \in Owner /\ On(sup, inc, x, sup[d])
  BY <1>1, <1>2, OnSplit
<1> QED
  BY <1>1, <1>3

-----------------------------------------------------------------------------
\* The method table of a cell, and the search through the tables tbl.
TableOf(inc, x) == IF x[2] = 0 THEN x[1] ELSE inc[x[1]][x[2]]

\* What search_method() finds in these tables.
Search(sup, inc, tbl, x, id) ==
  LET chain == Up(sup, inc)[x[1]]
      first == C!Place(x, chain)
      hits == {i \in first .. Len(chain) : tbl[TableOf(inc, chain[i])][id] # None}
  IN  IF hits = {} THEN None ELSE chain[C!Min(hits)]

\* Search() is search_method().
LEMMA SearchIsC ==
  ASSUME NEW x, NEW id
  PROVE  C!search_method(x, id) = Search(super, incl, m_tbl, x, id)
BY ChainIs DEF C!search_method, C!Table, Search, TableOf

\* After the step it searches what the step makes.
LEMMA SearchIsCNext ==
  ASSUME NEW x, NEW id
  PROVE  C!search_method(x, id)' = Search(super', incl', m_tbl', x, id)
BY ChainIsNext DEF C!search_method, C!Table, Search, TableOf

\* z is in the chain at or above x, and has an entry for id.
Has(sup, inc, tbl, x, id, z) ==
  /\ On(sup, inc, z, x[1]) /\ Height(sup, inc, z) <= Height(sup, inc, x)
  /\ tbl[TableOf(inc, z)][id] # None

\* The search finds the first of them.
LEMMA SearchIs ==
  ASSUME NEW sup, NEW inc, World(sup, inc), NEW tbl, NEW id, NEW x \in Cell(inc)
  PROVE  LET y == Search(sup, inc, tbl, x, id) IN
         /\ y # None => y \in Cell(inc) /\ Has(sup, inc, tbl, x, id, y)
         /\ \A z : Has(sup, inc, tbl, x, id, z) => y # None /\ Height(sup, inc, z) <= Height(sup, inc, y)
<1> DEFINE u == Up(sup, inc)[x[1]]
           m == Len(u)
           p == m - Height(sup, inc, x)
           y == Search(sup, inc, tbl, x, id)
           hits == {i \in p .. m : tbl[TableOf(inc, u[i])][id] # None}
<1>1. x[1] \in Owner /\ On(sup, inc, x, x[1]) /\ m \in Nat /\ Height(sup, inc, x) \in Nat
  BY OwnSpot
<1>2. C!Place(x, u) = p /\ p \in 1 .. m
  BY <1>1, PlaceIs, SpotIs
<1>3. y = IF hits = {} THEN None ELSE u[C!Min(hits)]
  BY <1>2 DEF Search
<1>4. ASSUME NEW z, Has(sup, inc, tbl, x, id, z)
      PROVE  /\ m - Height(sup, inc, z) \in hits /\ Height(sup, inc, z) \in Nat
             /\ u[m - Height(sup, inc, z)] = z
  <2> DEFINE q == m - Height(sup, inc, z)
  <2>1. q \in 1 .. m /\ u[q] = z /\ Height(sup, inc, z) \in Nat
    BY <1>1, <1>4, SpotIs, SameHeight DEF Has
  <2>2. p <= q
    <3>1. Height(sup, inc, z) <= Height(sup, inc, x)
      BY <1>4 DEF Has
    <3> HIDE DEF m
    <3> QED
      BY <1>1, <2>1, <3>1
  <2> HIDE DEF q, p, m
  <2>3. q \in p .. m
    BY <1>2, <2>1, <2>2
  <2>4. tbl[TableOf(inc, u[q])][id] # None
    BY <1>4, <2>1 DEF Has
  <2> QED
    BY <2>1, <2>3, <2>4 DEF q
<1>5. ASSUME hits # {}
      PROVE  /\ y \in Cell(inc) /\ y # None /\ Has(sup, inc, tbl, x, id, y)
             /\ \A i \in hits : m - Height(sup, inc, y) <= i
             /\ Height(sup, inc, y) \in Nat
  <2> DEFINE k == C!Min(hits)
  <2> HIDE DEF m, p
  <2>1. hits \in SUBSET Nat
    BY <1>2
  <2>2. k \in hits /\ \A i \in hits : k <= i
    BY <1>5, <2>1, MinOf
  <2> HIDE DEF k
  <2>3. k \in 1 .. m /\ p <= k /\ y = u[k] /\ tbl[TableOf(inc, u[k])][id] # None
    <3>1. k \in p .. m /\ tbl[TableOf(inc, u[k])][id] # None
      BY <2>2
    <3>2. y = u[k]
      BY <1>3, <1>5 DEF k
    <3> QED
      BY <1>1, <1>2, <3>1, <3>2 DEF m
  <2>4. On(sup, inc, y, x[1])
    BY <2>3 DEF On, m
  <2>5. y \in Cell(inc) /\ k = m - Height(sup, inc, y)
    BY <1>1, <2>3, <2>4, SpotIs DEF m
  <2>6. Height(sup, inc, y) \in Nat /\ y # None
    BY <2>5, OwnSpot, ClassAssumption DEF Cell, Owner
  <2>7. Height(sup, inc, y) <= Height(sup, inc, x)
    BY <1>1, <2>3, <2>5, <2>6 DEF p
  <2> HIDE DEF y
  <2>8. Has(sup, inc, tbl, x, id, y)
    BY <2>3, <2>4, <2>7 DEF Has
  <2> QED
    BY <2>2, <2>5, <2>6, <2>8
<1> HIDE DEF y, hits
<1>6. y # None => y \in Cell(inc) /\ Has(sup, inc, tbl, x, id, y)
  BY <1>3, <1>5
<1>7. ASSUME NEW z, Has(sup, inc, tbl, x, id, z) PROVE y # None /\ Height(sup, inc, z) <= Height(sup, inc, y)
  <2>1. m - Height(sup, inc, z) \in hits /\ Height(sup, inc, z) \in Nat
    BY <1>4, <1>7
  <2>2. m - Height(sup, inc, y) <= m - Height(sup, inc, z) /\ Height(sup, inc, y) \in Nat /\ y # None
    BY <1>5, <2>1
  <2> HIDE DEF m
  <2> QED
    BY <1>1, <2>1, <2>2
<1> QED
  BY <1>6, <1>7 DEF y

\* There is one first.
LEMMA SearchOne ==
  ASSUME NEW sup, NEW inc, World(sup, inc), NEW tbl, NEW id, NEW x \in Cell(inc), NEW y,
         Has(sup, inc, tbl, x, id, y),
         \A z : Has(sup, inc, tbl, x, id, z) => Height(sup, inc, z) <= Height(sup, inc, y)
  PROVE  Search(sup, inc, tbl, x, id) = y
<1> DEFINE s == Search(sup, inc, tbl, x, id)
<1>1. s # None /\ Height(sup, inc, y) <= Height(sup, inc, s) /\ Has(sup, inc, tbl, x, id, s)
  BY SearchIs
<1>2. Height(sup, inc, s) <= Height(sup, inc, y)
  BY <1>1
<1>3. x[1] \in Owner
  BY OwnSpot
<1>4. On(sup, inc, y, x[1]) /\ On(sup, inc, s, x[1])
  BY <1>1 DEF Has
<1>5. Height(sup, inc, s) \in Nat /\ Height(sup, inc, y) \in Nat
  BY <1>3, <1>4, SameHeight
<1>6. Height(sup, inc, s) = Height(sup, inc, y)
  BY <1>1, <1>2, <1>5
<1> QED
  BY <1>3, <1>4, <1>6, SameHeight

\* What the tables, the cache, the call and the frame hold: cells that there are, of classes
\* that are made.
Real(sup, inc) == {x \in Cell(inc) : IsMade(sup, x[1])}

\* The entries of method tables, of the cache, of calls and of frames.
Entries(sup, inc) ==
  {e \in [node : Body \cup {"undef", "zsuper"}, noex : {"public", "private"},
          orig : Real(sup, inc) \cup {None}, mid : Mid \cup {None}] : e.orig # None => e.mid \in Mid}

Kept(sup, inc) ==
  [class : Real(sup, inc), mid : Mid, node : Body \cup {"undef", "zsuper"}, noex : {"public", "private"},
   origin : Real(sup, inc), mid0 : Mid]

Called(sup, inc) == [cell : Real(sup, inc) \cup {None}, mid : Mid, scope : {"recv", "self"}]

Entered(sup, inc) ==
  [last_class : Real(sup, inc), last_func : Mid, node : Body \cup {"undef", "zsuper"}, from : Real(sup, inc)]

\* The classes: whose superclass is set, which includes Single only when it is the class of
\* the object; only what is made is a superclass, and Single never.
Classes(sup, inc, k) ==
  /\ World(sup, inc)
  /\ k \in Cls \cup {None} /\ (k # None => IsMade(sup, k))
  /\ k # Single => sup[Single] = None
  /\ \A d \in Owner : sup[d] # None => IsMade(sup, sup[d]) /\ sup[d] # Single
  /\ \A d \in Module \cup {Object} : sup[d] = None

\* Tables, cache, call and frame hold such entries.
Tables(sup, inc, tbl) == tbl \in [Owner -> [Mid -> Entries(sup, inc) \cup {None}]]
Caches(sup, inc, c) == c \in [Mid -> Kept(sup, inc) \cup {None}]
Calling(sup, inc, k, c) == c # None => k # None /\ c \in Called(sup, inc)
Framed(sup, inc, k, f) == f # None => k # None /\ f \in Entered(sup, inc)

\* The first part of the invariant: all that is noted is a cell of a class that is made.
ClassInv ==
  /\ Classes(super, incl, klass) /\ Tables(super, incl, m_tbl) /\ Caches(super, incl, cache)
  /\ Calling(super, incl, klass, call) /\ Framed(super, incl, klass, frame)
  /\ defs \in 0 .. MaxDefs /\ unflushed \subseteq Mid /\ (adding # None => adding \in Mid \X Body)

\* All that stays true as the chains grow.
LEMMA RealGrows ==
  ASSUME NEW sup, NEW inc, World(sup, inc), NEW sup2, NEW inc2, World(sup2, inc2),
         Wider(sup, inc, sup2, inc2)
  PROVE  Real(sup, inc) \subseteq Real(sup2, inc2)
<1> SUFFICES ASSUME NEW x \in Real(sup, inc) PROVE x \in Real(sup2, inc2)
  OBVIOUS
<1>1. x \in Cell(inc) /\ x \in Cell(inc2) /\ IsMade(sup, x[1]) /\ x[1] \in Owner
  BY GrowCell DEF Real, Cell
<1>2. IsMade(sup2, x[1])
  BY <1>1 DEF IsMade, Wider
<1> QED
  BY <1>1, <1>2 DEF Real

\* What is noted stays good when classes are added.
LEMMA DataGrows ==
  ASSUME NEW sup, NEW inc, NEW sup2, NEW inc2, Real(sup, inc) \subseteq Real(sup2, inc2)
  PROVE  /\ Entries(sup, inc) \subseteq Entries(sup2, inc2)
         /\ Kept(sup, inc) \subseteq Kept(sup2, inc2)
         /\ Called(sup, inc) \subseteq Called(sup2, inc2)
         /\ Entered(sup, inc) \subseteq Entered(sup2, inc2)
         /\ \A tbl : Tables(sup, inc, tbl) => Tables(sup2, inc2, tbl)
         /\ \A c : Caches(sup, inc, c) => Caches(sup2, inc2, c)
         /\ \A k, c : Calling(sup, inc, k, c) => Calling(sup2, inc2, k, c)
         /\ \A k, f : Framed(sup, inc, k, f) => Framed(sup2, inc2, k, f)
<1>1. Entries(sup, inc) \subseteq Entries(sup2, inc2)
  BY DEF Entries
<1>2. Kept(sup, inc) \subseteq Kept(sup2, inc2)
  BY DEF Kept
<1>3. Called(sup, inc) \subseteq Called(sup2, inc2)
  BY DEF Called
<1>4. Entered(sup, inc) \subseteq Entered(sup2, inc2)
  BY DEF Entered
<1>5. \A tbl : Tables(sup, inc, tbl) => Tables(sup2, inc2, tbl)
  <2> SUFFICES ASSUME NEW tbl, Tables(sup, inc, tbl) PROVE Tables(sup2, inc2, tbl)
    OBVIOUS
  <2>1. \A t \in Owner : tbl[t] \in [Mid -> Entries(sup2, inc2) \cup {None}]
    <3> TAKE t \in Owner
    <3>1. tbl[t] \in [Mid -> Entries(sup, inc) \cup {None}]
      BY DEF Tables
    <3> QED
      BY <1>1, <3>1
  <2> QED
    BY <2>1 DEF Tables
<1>6. \A c : Caches(sup, inc, c) => Caches(sup2, inc2, c)
  BY <1>2 DEF Caches
<1>7. \A k, c : Calling(sup, inc, k, c) => Calling(sup2, inc2, k, c)
  BY <1>3 DEF Calling
<1>8. \A k, f : Framed(sup, inc, k, f) => Framed(sup2, inc2, k, f)
  BY <1>4 DEF Framed
<1> QED
  BY <1>1, <1>2, <1>3, <1>4, <1>5, <1>6, <1>7, <1>8

\* The names of Class for what is defined here.
LEMMA MadeIs == ASSUME NEW c PROVE C!Made(c) <=> IsMade(super, c)
BY DEF C!Made, IsMade

\* Table() is TableOf().
LEMMA TableIs == ASSUME NEW x PROVE C!Table(x) = TableOf(incl, x)
BY DEF C!Table, TableOf

\* A cell has a table.
LEMMA TableOwner ==
  ASSUME NEW sup, NEW inc, World(sup, inc), NEW x \in Cell(inc)
  PROVE  /\ TableOf(inc, x) \in Owner
         /\ TableOf(inc, x) \in Cls => x = <<TableOf(inc, x), 0>>
<1>1. x[1] \in Owner /\ x[2] \in Nat /\ x[2] <= Len(inc[x[1]]) /\ x = <<x[1], x[2]>>
  BY DEF Cell
<1>2. CASE x[2] = 0
  BY <1>1, <1>2 DEF TableOf
<1>3. CASE x[2] # 0
  <2>1. inc[x[1]] \in Seq(Module) /\ x[2] \in 1 .. Len(inc[x[1]])
    BY <1>1, <1>3, LenProperties DEF World
  <2>2. TableOf(inc, x) \in Module
    BY <1>3, <2>1 DEF TableOf
  <2> QED
    BY <2>2, ClassAssumption DEF Owner
<1> QED
  BY <1>2, <1>3

\* What search_method() finds is the entry of a cell at or above the one it starts from.
LEMMA SearchReal ==
  ASSUME ClassInv, NEW x \in Real(super, incl), NEW id \in Mid, C!search_method(x, id) # None
  PROVE  LET y == C!search_method(x, id) IN
         /\ y \in Real(super, incl) /\ Has(super, incl, m_tbl, x, id, y)
         /\ TableOf(incl, y) \in Owner /\ m_tbl[TableOf(incl, y)][id] \in Entries(super, incl)
<1> DEFINE y == C!search_method(x, id)
<1>1. World(super, incl) /\ x \in Cell(incl) /\ x[1] \in Owner /\ IsMade(super, x[1])
  BY DEF ClassInv, Classes, Real, Cell
<1>2. y \in Cell(incl) /\ Has(super, incl, m_tbl, x, id, y)
  BY <1>1, SearchIs, SearchIsC
<1>3. IsMade(super, y[1])
  BY <1>1, <1>2, MadeOn DEF Has, ClassInv, Classes
<1>4. y \in Real(super, incl) /\ TableOf(incl, y) \in Owner
  BY <1>1, <1>2, <1>3, TableOwner DEF Real
<1>5. m_tbl[TableOf(incl, y)] \in [Mid -> Entries(super, incl) \cup {None}]
  BY <1>4 DEF ClassInv, Tables
<1>6. m_tbl[TableOf(incl, y)][id] # None
  BY <1>2 DEF Has
<1> QED
  BY <1>2, <1>4, <1>5, <1>6

\* A method that is found, as the cache keeps it.
LEMMA FoundIs ==
  ASSUME ClassInv, NEW x \in Real(super, incl), NEW id \in Mid, C!Found(x, id)
  PROVE  LET y == C!search_method(x, id)
             e == m_tbl[TableOf(incl, y)][id] IN
         /\ y # None
         /\ C!Fill(x, id) \in Kept(super, incl)
         /\ C!Fill(x, id).class = x /\ C!Fill(x, id).mid = id
         /\ C!Fill(x, id).node = e.node
         /\ C!Fill(x, id).origin = IF e.orig = None THEN y ELSE e.orig
<1> DEFINE y == C!search_method(x, id)
           e == m_tbl[TableOf(incl, y)][id]
<1>1. y # None
  BY DEF C!Found
<1>2. y \in Real(super, incl) /\ e \in Entries(super, incl)
  BY <1>1, SearchReal
<1>3. C!Fill(x, id) = [class |-> x, mid |-> id, node |-> e.node, noex |-> e.noex,
                      origin |-> IF e.orig = None THEN y ELSE e.orig,
                      mid0 |-> IF e.orig = None THEN id ELSE e.mid]
  BY TableIs DEF C!Fill
<1> HIDE DEF y, e
<1>4. /\ e.node \in Body \cup {"undef", "zsuper"} /\ e.noex \in {"public", "private"}
      /\ e.orig \in Real(super, incl) \cup {None} /\ (e.orig # None => e.mid \in Mid)
  BY <1>2 DEF Entries
<1>5. C!Fill(x, id) \in Kept(super, incl)
  BY <1>2, <1>3, <1>4 DEF Kept
<1> QED
  BY <1>1, <1>3, <1>5 DEF y, e

\* What rb_call() finds, in the cache or in the tables.
LEMMA EntryIs ==
  ASSUME ClassInv, NEW x \in Real(super, incl), NEW id \in Mid, C!Cached(x, id) \/ C!Found(x, id)
  PROVE  /\ C!Entry(x, id) \in Kept(super, incl)
         /\ C!Entry(x, id).class = x /\ C!Entry(x, id).mid = id
         /\ C!Cached(x, id) => C!Entry(x, id) = cache[id] /\ cache[id] # None
         /\ ~C!Cached(x, id) => C!Found(x, id) /\ C!Entry(x, id) = C!Fill(x, id)
         /\ (C!Store(C!Entry(x, id)) <=> cache' = [cache EXCEPT ![id] = C!Entry(x, id)])
<1>1. CASE C!Cached(x, id)
  <2>1. cache[id] # None /\ cache[id].class = x /\ cache[id].mid = id /\ C!Entry(x, id) = cache[id]
    BY <1>1 DEF C!Cached, C!Entry, Slot
  <2>2. cache[id] \in Kept(super, incl)
    BY <2>1 DEF ClassInv, Caches
  <2> QED
    BY <1>1, <2>1, <2>2 DEF C!Store, Slot
<1>2. CASE ~C!Cached(x, id)
  <2>1. C!Entry(x, id) = C!Fill(x, id) /\ C!Found(x, id)
    BY <1>2 DEF C!Entry
  <2> QED
    BY <1>2, <2>1, FoundIs DEF C!Store, Slot
<1> QED
  BY <1>1, <1>2

\* The cell above a real one is real, or there is none.
LEMMA SuperReal ==
  ASSUME ClassInv, NEW x \in Real(super, incl)
  PROVE  C!Super(x) \in Real(super, incl) \cup {None}
<1>1. World(super, incl) /\ x \in Cell(incl) /\ x[1] \in Owner /\ IsMade(super, x[1]) /\ Height(super, incl, x) \in Nat
  BY OwnSpot DEF ClassInv, Classes, Real
<1>2. CASE Height(super, incl, x) = 0
  BY <1>1, <1>2, UpperIs, SuperIs
<1>3. CASE Height(super, incl, x) # 0
  <2>1. C!Super(x) \in Cell(incl) /\ On(super, incl, C!Super(x), x[1])
    BY <1>1, <1>3, UpperIs, SuperIs
  <2>2. IsMade(super, C!Super(x)[1])
    BY <1>1, <2>1, MadeOn DEF ClassInv, Classes
  <2> QED
    BY <2>1, <2>2 DEF Real
<1> QED
  BY <1>2, <1>3

\* At first there is nothing but Object and modules.
LEMMA ClassInit == C!Init => ClassInv
<1> SUFFICES ASSUME C!Init PROVE ClassInv
  OBVIOUS
<1>1. super = [c \in Owner |-> None] /\ incl = [c \in Owner |-> <<>>]
  BY DEF C!Init, C!Owner, Owner
<1>2. World(super, incl)
  BY <1>1, WorldFirst
<1>3. Classes(super, incl, klass)
  BY <1>1, <1>2, ClassAssumption DEF C!Init, Classes, Owner
<1>4. Tables(super, incl, m_tbl)
  BY DEF C!Init, C!Owner, Owner, Tables
<1>5. Caches(super, incl, cache)
  <2>1. cache = [s \in {Slot(<<c, 0>>, id) : c \in Owner, id \in Mid} |-> None]
    BY DEF C!Init, C!Owner, Owner
  <2>2. {Slot(<<c, 0>>, id) : c \in Owner, id \in Mid} = Mid
    BY ClassAssumption DEF Slot, Owner
  <2> QED
    BY <2>1, <2>2 DEF Caches
<1>6. Calling(super, incl, klass, call) /\ Framed(super, incl, klass, frame)
  BY DEF C!Init, Calling, Framed
<1>7. defs \in 0 .. MaxDefs /\ unflushed \subseteq Mid /\ (adding # None => adding \in Mid \X Body)
  BY ClassAssumption DEF C!Init
<1> QED
  BY <1>3, <1>4, <1>5, <1>6, <1>7 DEF ClassInv

\* More modules in front of the others of a class.
LEMMA IncludesWorld ==
  ASSUME NEW sup, NEW inc, World(sup, inc), NEW c \in Owner, NEW t \in Seq(Module),
         NEW inc2, inc2 = [inc EXCEPT ![c] = @ \o t]
  PROVE  World(sup, inc2) /\ Wider(sup, inc, sup, inc2)
<1>1. inc \in [Owner -> Seq(Module)]
  BY DEF World
<1>2. inc[c] \o t \in Seq(Module) /\ Len(inc[c] \o t) = Len(inc[c]) + Len(t) /\ Len(t) \in Nat /\ Len(inc[c]) \in Nat
  BY <1>1, ConcatProperties, LenProperties
<1>3. inc2 \in [Owner -> Seq(Module)] /\ inc2[c] = inc[c] \o t /\ \A d \in Owner \ {c} : inc2[d] = inc[d]
  BY <1>1, <1>2
<1>4. World(sup, inc2)
  BY <1>3 DEF World
<1>5. ASSUME NEW d \in Owner PROVE Len(inc[d]) <= Len(inc2[d])
  BY <1>1, <1>2, <1>3, LenProperties
<1> QED
  BY <1>4, <1>5 DEF Wider

\* rb_include_module() includes modules.
LEMMA MissingModules ==
  ASSUME ClassInv, NEW m \in Module, NEW chain
  PROVE  C!Reverse(C!Missing(m, chain)) \in Seq(Module)
<1> DEFINE u == Up(super, incl)[m]
           own == [i \in 1 .. Len(u) |-> TableOf(incl, u[i])]
           s == C!Missing(m, chain)
<1>1. World(super, incl) /\ m \in Owner /\ super[m] = None
  BY DEF ClassInv, Classes, Owner
<1>2. Len(u) \in Nat
  BY <1>1, UpAt DEF Above
<1>3. ASSUME NEW i \in 1 .. Len(u) PROVE TableOf(incl, u[i]) \in Module
  <2> DEFINE x == u[i]
  <2>1. On(super, incl, x, m)
    BY DEF On
  <2> HIDE DEF x
  <2>2. x \in Cell(incl) /\ x[1] = m
    BY <1>1, <2>1, OnSplit
  <2>3. TableOf(incl, x) \in Owner /\ (TableOf(incl, x) \in Cls => x = <<TableOf(incl, x), 0>>)
    BY <1>1, <2>2, TableOwner
  <2>4. TableOf(incl, x) \notin Cls
    BY <2>2, <2>3, ClassAssumption
  <2> QED
    BY <2>3, <2>4 DEF Owner, x
<1>4. own \in Seq(Module) /\ Len(own) = Len(u)
  BY <1>2, <1>3
<1>5. \E n \in 0 .. Len(own) : s = IF n = 0 THEN own ELSE SubSeq(own, 1, n - 1)
  <2> DEFINE had == {C!Table(x) : x \in {y \in C!Range(chain) : y[2] > 0}}
             I == {i \in 1 .. Len(own) : own[i] \in had}
             n == IF I # {} THEN C!Min(I) ELSE 0
  <2>1. own = [i \in 1 .. Len(C!Chain(m)) |-> C!Table(C!Chain(m)[i])]
    BY ChainIs, TableIs
  <2>2. s = IF n = 0 THEN own ELSE SubSeq(own, 1, n - 1)
    BY <2>1 DEF C!Missing, C!SelectInSeq
  <2>3. n \in 0 .. Len(own)
    <3> HIDE DEF own, had
    <3>1. Len(own) \in Nat
      BY <1>4, LenProperties
    <3>2. I \in SUBSET Nat
      BY <3>1
    <3> HIDE DEF I
    <3>3. I # {} => C!Min(I) \in I
      BY <3>2, MinOf
    <3>4. I # {} => C!Min(I) \in 1 .. Len(own)
      BY <3>3 DEF I
    <3> QED
      BY <3>1, <3>4
  <2> HIDE DEF n
  <2> QED
    BY <2>2, <2>3
<1> HIDE DEF own, s
<1>6. s \in Seq(Module)
  <2>1. PICK n \in 0 .. Len(own) : s = IF n = 0 THEN own ELSE SubSeq(own, 1, n - 1)
    BY <1>5
  <2>2. CASE n = 0
    BY <1>4, <2>1, <2>2
  <2>3. CASE n # 0
    <3>1. n - 1 \in 0 .. Len(own) /\ Len(own) \in Nat
      BY <1>4, <2>3, LenProperties
    <3>2. \A i \in 1 .. n - 1 : own[i] \in Module
      BY <1>4, <3>1, ElementOfSeq
    <3>3. SubSeq(own, 1, n - 1) \in Seq(Module)
      BY <1>4, <3>1, <3>2
    <3> QED
      BY <2>1, <2>3, <3>3
  <2> QED
    BY <2>2, <2>3
<1>7. Len(s) \in Nat /\ \A i \in 1 .. Len(s) : s[Len(s) - i + 1] \in Module
  <2>1. Len(s) \in Nat
    BY <1>6, LenProperties
  <2>2. \A i \in 1 .. Len(s) : Len(s) - i + 1 \in 1 .. Len(s)
    BY <2>1
  <2> QED
    BY <1>6, <2>1, <2>2, ElementOfSeq
<1>8. [i \in 1 .. Len(s) |-> s[(Len(s) - i) + 1]] \in Seq(Module)
  BY <1>7
<1> QED
  BY <1>8 DEF C!Reverse, s

\* A class that is nobody's superclass and not Single gets a superclass that is made, or the
\* singleton class gets that of the object.
LEMMA Defines ==
  ASSUME NEW sup, NEW inc, NEW k, Classes(sup, inc, k), NEW c \in Cls, NEW p \in Cls, ~IsMade(sup, c),
         p # Single, IsMade(sup, p), NEW sup2, sup2 = [sup EXCEPT ![c] = p],
         NEW k2, k2 = (IF c = Single THEN Single ELSE k)
  PROVE  Classes(sup2, inc, k2) /\ Wider(sup, inc, sup2, inc) /\ World(sup2, inc)
<1>1. c \in Owner /\ p \in Owner /\ sup[c] = None /\ c # p /\ c # Object /\ c \notin Module /\ p # None
  BY ClassAssumption DEF IsMade, Owner
<1>2. \A d \in Owner : sup[d] # c
  BY <1>1, ClassAssumption DEF Classes, IsMade
<1>3. World(sup2, inc)
  BY <1>1, <1>2, WorldDefine DEF Classes
<1>4. sup2[c] = p /\ \A d \in Owner \ {c} : sup2[d] = sup[d]
  BY <1>1 DEF Classes, World
<1>5. \A d \in Owner : IsMade(sup, d) => IsMade(sup2, d)
  BY <1>1, <1>4 DEF IsMade
<1>6. Wider(sup, inc, sup2, inc)
  <2>1. \A d \in Owner : Len(inc[d]) <= Len(inc[d])
    BY SegmentIs DEF Classes, World
  <2> QED
    BY <1>1, <1>4, <2>1 DEF Wider
<1>7. \A d \in Owner : sup2[d] # None => IsMade(sup2, sup2[d]) /\ sup2[d] # Single
  <2> SUFFICES ASSUME NEW d \in Owner, sup2[d] # None PROVE IsMade(sup2, sup2[d]) /\ sup2[d] # Single
    OBVIOUS
  <2>1. CASE d = c
    BY <1>1, <1>4, <1>5, <2>1
  <2>2. CASE d # c
    <3>1. sup2[d] = sup[d] /\ sup[d] \in Owner /\ IsMade(sup, sup[d]) /\ sup[d] # Single
      BY <1>4, <2>2 DEF Classes, World, Owner
    <3> QED
      BY <1>5, <3>1
  <2> QED
    BY <2>1, <2>2
<1>8. \A d \in Module \cup {Object} : sup2[d] = None
  <2>1. Module \cup {Object} \subseteq Owner \ {c}
    BY <1>1, ClassAssumption DEF Owner
  <2> QED
    BY <1>4, <2>1 DEF Classes
<1>9. /\ k2 \in Cls \cup {None} /\ (k2 # None => IsMade(sup2, k2))
      /\ (k2 # Single => sup2[Single] = None)
  <2>1. CASE c = Single
    BY <1>1, <1>4, <2>1, ClassAssumption DEF IsMade
  <2>2. CASE c # Single
    <3>1. k2 = k /\ sup2[Single] = sup[Single]
      BY <1>4, <2>2, ClassAssumption DEF Owner
    <3>2. k # None => k \in Owner /\ IsMade(sup, k)
      BY DEF Classes, Owner
    <3> QED
      BY <1>5, <3>1, <3>2 DEF Classes
  <2> QED
    BY <2>1, <2>2
<1> QED
  BY <1>3, <1>6, <1>7, <1>8, <1>9 DEF Classes

\* A step that enters a method.
LEMMA EntersInv ==
  ASSUME ClassInv, UNCHANGED <<super, incl, klass, call, frame>>,
         NEW c \in Owner, NEW id \in Mid, NEW e \in Entries(super, incl), C!rb_add_method(c, id, e),
         cache' \in {cache, C!Cleared}, defs' \in 0 .. MaxDefs, unflushed' \subseteq Mid,
         adding' \in {adding, None}
  PROVE  ClassInv'
<1>1. m_tbl' = [m_tbl EXCEPT ![c][id] = e]
  BY DEF C!rb_add_method
<1>2. m_tbl[c] \in [Mid -> Entries(super, incl) \cup {None}]
  BY DEF ClassInv, Tables
<1>3. Tables(super, incl, m_tbl')
  BY <1>1, <1>2 DEF ClassInv, Tables
<1>4. Caches(super, incl, cache')
  BY DEF ClassInv, Caches, C!Cleared
<1>5. adding' # None => adding' \in Mid \X Body
  BY DEF ClassInv
<1> QED
  BY <1>3, <1>4, <1>5 DEF ClassInv

\* A step that changes the chains: they grow.
LEMMA ChainsInv ==
  ASSUME ClassInv, Classes(super', incl', klass'), World(super', incl'), Wider(super, incl, super', incl'),
         UNCHANGED <<m_tbl, call, frame>>, klass # None => klass' # None,
         cache' \in {cache, C!Cleared}, defs' \in 0 .. MaxDefs, unflushed' \subseteq Mid,
         adding' # None => adding' \in Mid \X Body
  PROVE  ClassInv'
<1>1. World(super, incl)
  BY DEF ClassInv, Classes
<1>2. Real(super, incl) \subseteq Real(super', incl')
  BY <1>1, RealGrows
<1>3. Caches(super, incl, cache')
  BY DEF ClassInv, Caches, C!Cleared
<1>4. Tables(super', incl', m_tbl')
  BY <1>2, DataGrows DEF ClassInv
<1>5. Caches(super', incl', cache')
  BY <1>2, <1>3, DataGrows
<1>6. Calling(super', incl', klass', call')
  <2>1. Calling(super', incl', klass, call)
    BY <1>2, DataGrows DEF ClassInv
  <2> QED
    BY <2>1 DEF Calling
<1>7. Framed(super', incl', klass', frame')
  <2>1. Framed(super', incl', klass, frame)
    BY <1>2, DataGrows DEF ClassInv
  <2> QED
    BY <2>1 DEF Framed
<1> QED
  BY <1>4, <1>5, <1>6, <1>7 DEF ClassInv

\* A step of a call.
LEMMA CallingInv ==
  ASSUME ClassInv, UNCHANGED <<super, incl, m_tbl, klass, defs, unflushed, adding>>,
         Caches(super, incl, cache'), Calling(super, incl, klass, call'), Framed(super, incl, klass, frame')
  PROVE  ClassInv'
BY DEF ClassInv

\* Chains that do not change have grown.
LEMMA WiderSame ==
  ASSUME NEW sup, NEW inc, World(sup, inc)
  PROVE  Wider(sup, inc, sup, inc)
<1>1. \A d \in Owner : Len(inc[d]) \in Nat
  BY SegmentIs DEF World
<1> QED
  BY <1>1 DEF Wider

\* A definition is counted.
LEMMA Defined ==
  ASSUME ClassInv, C!Defining PROVE defs' \in 0 .. MaxDefs /\ call = None
BY ClassAssumption DEF ClassInv, C!Defining

\* The class itself is in the chain.
LEMMA SelfReal ==
  ASSUME ClassInv, NEW c \in Owner, C!Made(c)
  PROVE  <<c, 0>> \in Real(super, incl) /\ <<c, 0>>[1] = c /\ <<c, 0>> \in Cell(incl)
<1>1. Len(incl[c]) \in Nat
  BY SegmentIs DEF ClassInv, Classes, World
<1> QED
  BY <1>1, MadeIs DEF Real, Cell

\* What the cache flushes, and what it spares.
LEMMA Flushes ==
  ASSUME ClassInv
  PROVE  /\ C!rb_clear_cache => cache' = C!Cleared /\ unflushed' = {} /\ unflushed' \subseteq Mid
         /\ \A passed : \A id \in Mid : C!Spares(id, passed) => cache' = cache /\ unflushed' \subseteq Mid
BY DEF ClassInv, C!rb_clear_cache, C!Spares

\* NODE_CLASS keeps the invariant.
LEMMA DefineClassInv ==
  ASSUME ClassInv, NEW c \in Cls, NEW p \in Cls, C!DefineClass(c, p) PROVE ClassInv'
<1>1. /\ ~IsMade(super, c) /\ c # Single /\ IsMade(super, p) /\ p # Single
      /\ super' = [super EXCEPT ![c] = p] /\ UNCHANGED <<incl, m_tbl, klass, cache, call, frame, adding, unflushed>>
      /\ defs' \in 0 .. MaxDefs
  BY MadeIs, Defined DEF C!DefineClass
<1>2. Classes(super', incl, klass) /\ Wider(super, incl, super', incl) /\ World(super', incl)
  BY <1>1, Defines DEF ClassInv
<1> QED
  BY <1>1, <1>2, ChainsInv DEF ClassInv

\* So does opening a class again.
LEMMA ReopenClassInv == ASSUME ClassInv, C!ReopenClass PROVE ClassInv'
<1>1. World(super, incl) /\ Classes(super, incl, klass)
  BY DEF ClassInv, Classes
<1> QED
  BY <1>1, WiderSame, ChainsInv, Flushes DEF ClassInv, C!ReopenClass

\* def keeps the invariant.
LEMMA NODE_DEFNInv ==
  ASSUME ClassInv, NEW c \in Owner, NEW id \in Mid, NEW b \in Body, NEW n \in C!Noex, C!NODE_DEFN(c, id, b, n)
  PROVE  ClassInv'
<1> DEFINE old == C!search_method(<<c, 0>>, id)
           e == C!Method(b, IF old = None THEN n ELSE m_tbl[C!Table(old)][id].noex)
<1>1. /\ C!Made(c) /\ C!rb_add_method(c, id, e) /\ UNCHANGED <<super, incl, klass, call, frame, adding>>
      /\ defs' \in 0 .. MaxDefs /\ cache' \in {cache, C!Cleared} /\ unflushed' \subseteq Mid
  BY Defined, Flushes DEF C!NODE_DEFN
<1>2. e \in Entries(super, incl)
  <2>1. old # None => m_tbl[C!Table(old)][id] \in Entries(super, incl)
    BY <1>1, SelfReal, SearchReal, TableIs
  <2>2. old # None => m_tbl[C!Table(old)][id].noex \in {"public", "private"}
    BY <2>1 DEF Entries
  <2> QED
    BY <2>2 DEF C!Method, C!Noex, Entries
<1> QED
  BY <1>1, <1>2, EntersInv

\* undef keeps the invariant.
LEMMA NODE_UNDEFInv ==
  ASSUME ClassInv, NEW c \in Owner, NEW id \in Mid, C!NODE_UNDEF(c, id) PROVE ClassInv'
<1>1. C!Method("undef", "public") \in Entries(super, incl)
  BY DEF C!Method, Entries
<1>2. /\ C!rb_add_method(c, id, C!Method("undef", "public")) /\ UNCHANGED <<super, incl, klass, call, frame, adding>>
      /\ defs' \in 0 .. MaxDefs /\ cache' \in {cache, C!Cleared} /\ unflushed' \subseteq Mid
  BY Defined, Flushes DEF C!NODE_UNDEF
<1> QED
  BY <1>1, <1>2, EntersInv

\* Where aliases and visibilities are looked for is a class that is made.
LEMMA VisibleReal ==
  ASSUME ClassInv, NEW c \in Owner, C!Made(c), NEW id \in Mid, NEW ok, C!Visible(c, id, ok) # None
  PROVE  LET y == C!Visible(c, id, ok) IN
         y \in Real(super, incl) /\ TableOf(incl, y) \in Owner /\ m_tbl[TableOf(incl, y)][id] \in Entries(super, incl)
<1>1. Object \in Owner /\ C!Made(Object)
  BY ClassAssumption DEF Owner, C!Made
<1>2. CASE ~ok /\ c \in Module
  BY <1>1, <1>2, SelfReal, SearchReal DEF C!Visible
<1>3. CASE ~(~ok /\ c \in Module)
  BY <1>3, SelfReal, SearchReal DEF C!Visible
<1> QED
  BY <1>2, <1>3

\* alias keeps the invariant, but of an alias.
LEMMA AliasInv ==
  ASSUME ClassInv, "alias_alias" \notin Uses, NEW c \in Owner, NEW name \in Mid, NEW def \in Mid,
         C!rb_alias(c, name, def)
  PROVE  ClassInv'
<1> DEFINE y == C!Visible(c, def, C!Found(<<c, 0>>, def))
           o == m_tbl[C!Table(y)][def]
           e == C!Fbody(o.node, o.noex, def, y)
<1>1. /\ C!Made(c) /\ C!rb_add_method(c, name, e) /\ UNCHANGED <<super, incl, klass, call, frame, adding>>
      /\ defs' \in 0 .. MaxDefs /\ cache' \in {cache, C!Cleared} /\ unflushed' \subseteq Mid /\ y # None
  BY Defined, Flushes DEF C!rb_alias
<1>2. y \in Real(super, incl) /\ o \in Entries(super, incl)
  BY <1>1, VisibleReal, TableIs
<1> HIDE DEF y, o
<1>3. e \in Entries(super, incl)
  BY <1>2 DEF C!Fbody, Entries
<1> QED
  BY <1>1, <1>3, EntersInv

\* public and private keep the invariant.
LEMMA ExportInv ==
  ASSUME ClassInv, NEW c \in Owner, NEW name \in Mid, NEW n \in C!Noex, C!rb_export_method(c, name, n)
  PROVE  ClassInv'
<1> DEFINE y == C!Visible(c, name, C!search_method(<<c, 0>>, name) # None)
           e == [m_tbl[c][name] EXCEPT !.noex = n]
           z == C!Method("zsuper", n)
<1>1. /\ C!Made(c) /\ UNCHANGED <<super, incl, klass, call, frame, adding>>
      /\ defs' \in 0 .. MaxDefs /\ cache' \in {cache, C!Cleared} /\ unflushed' \subseteq Mid /\ y # None
      /\ IF y = <<c, 0>> THEN C!rb_add_method(c, name, e) ELSE C!rb_add_method(c, name, z)
  BY Defined, Flushes DEF C!rb_export_method
<1>2. CASE y = <<c, 0>>
  <2>1. TableOf(incl, y) = c
    BY <1>2 DEF TableOf
  <2>2. m_tbl[c][name] \in Entries(super, incl)
    BY <1>1, <2>1, VisibleReal
  <2>3. e \in Entries(super, incl)
    BY <2>2 DEF Entries, C!Noex
  <2> QED
    BY <1>1, <1>2, <2>3, EntersInv
<1>3. CASE y # <<c, 0>>
  <2>1. z \in Entries(super, incl)
    BY DEF C!Method, Entries, C!Noex
  <2> QED
    BY <1>1, <1>3, <2>1, EntersInv
<1> QED
  BY <1>2, <1>3

\* include keeps the invariant.
LEMMA IncludeInv ==
  ASSUME ClassInv, NEW c \in Owner, NEW m \in Module, C!rb_include_module(c, m) PROVE ClassInv'
<1> DEFINE t == C!Reverse(C!Missing(m, C!Chain(c)))
<1>1. /\ incl' = [incl EXCEPT ![c] = @ \o t] /\ UNCHANGED <<super, m_tbl, klass, call, frame, adding>>
      /\ defs' \in 0 .. MaxDefs /\ cache' = C!Cleared /\ unflushed' \subseteq Mid
  BY Defined, Flushes DEF C!rb_include_module
<1>2. t \in Seq(Module) /\ World(super, incl)
  BY MissingModules DEF ClassInv, Classes
<1>3. World(super, incl') /\ Wider(super, incl, super, incl')
  BY <1>1, <1>2, IncludesWorld
<1>4. Classes(super, incl', klass)
  BY <1>3 DEF ClassInv, Classes
<1> QED
  BY <1>1, <1>3, <1>4, ChainsInv DEF ClassInv

\* Creating the object keeps the invariant.
LEMMA NewInstanceInv == ASSUME ClassInv, NEW c \in Cls, C!class_new_instance(c) PROVE ClassInv'
<1>1. /\ klass = None /\ klass' = c /\ IsMade(super, c) /\ c # Single
      /\ UNCHANGED <<super, incl, m_tbl, cache, call, frame, adding, defs, unflushed>>
  BY MadeIs DEF C!class_new_instance
<1>2. World(super, incl) /\ super[Single] = None
  BY <1>1, ClassAssumption DEF ClassInv, Classes
<1>3. Classes(super, incl, c)
  BY <1>1, <1>2 DEF ClassInv, Classes
<1> QED
  BY <1>1, <1>2, <1>3, WiderSame, ChainsInv DEF ClassInv

\* The singleton class is put in front of the class of the object.
LEMMA Singleton ==
  ASSUME ClassInv, C!rb_singleton_class
  PROVE  /\ klass # None /\ klass' = Single
         /\ Classes(super', incl, klass') /\ Wider(super, incl, super', incl) /\ World(super', incl)
         /\ klass = Single => super' = super
         /\ klass # Single => ~IsMade(super, Single) /\ super' = [super EXCEPT ![Single] = klass]
<1>1. /\ klass # None /\ klass' = Single /\ Classes(super, incl, klass) /\ World(super, incl)
      /\ super' = IF klass = Single THEN super ELSE [super EXCEPT ![Single] = klass]
  BY DEF C!rb_singleton_class, ClassInv, Classes
<1>2. CASE klass = Single
  BY <1>1, <1>2, WiderSame
<1>3. CASE klass # Single
  <2>1. Single \in Cls /\ klass \in Cls /\ IsMade(super, klass) /\ ~IsMade(super, Single)
    BY <1>1, <1>3, ClassAssumption DEF Classes, IsMade
  <2> QED
    BY <1>1, <1>3, <2>1, Defines
<1> QED
  BY <1>2, <1>3

\* class << obj keeps the invariant.
LEMMA SclassInv == ASSUME ClassInv, C!NODE_SCLASS PROVE ClassInv'
<1>1. /\ C!rb_singleton_class /\ UNCHANGED <<incl, m_tbl, call, frame, adding, defs>>
      /\ cache' \in {cache, C!Cleared} /\ unflushed' \subseteq Mid
  BY Flushes DEF C!NODE_SCLASS, ClassInv
<1>2. /\ klass # None /\ klass' = Single
      /\ Classes(super', incl, klass') /\ Wider(super, incl, super', incl) /\ World(super', incl)
  BY <1>1, Singleton
<1>3. klass' # None
  BY <1>2, ClassAssumption
<1> QED
  BY <1>1, <1>2, <1>3, ChainsInv DEF ClassInv

\* def obj.name keeps the invariant, up to singleton_method_added.
LEMMA DefsBeginInv ==
  ASSUME ClassInv, NEW id \in Mid, NEW b \in Body, C!DefsBegin(id, b) PROVE ClassInv'
<1>1. /\ C!rb_singleton_class /\ UNCHANGED <<incl, m_tbl, call, frame>>
      /\ cache' \in {cache, C!Cleared} /\ unflushed' \subseteq Mid /\ defs' \in 0 .. MaxDefs
      /\ adding' \in Mid \X Body
  BY Flushes, Defined DEF C!DefsBegin
<1>2. /\ klass # None /\ klass' = Single
      /\ Classes(super', incl, klass') /\ Wider(super, incl, super', incl) /\ World(super', incl)
  BY <1>1, Singleton
<1>3. klass' # None
  BY <1>2, ClassAssumption
<1> QED
  BY <1>1, <1>2, <1>3, ChainsInv

\* So does the method that it enters then.
LEMMA DefsEndInv == ASSUME ClassInv, C!DefsEnd PROVE ClassInv'
<1>1. /\ adding # None /\ C!rb_add_method(Single, adding[1], C!Method(adding[2], "public"))
      /\ cache' = cache /\ adding' = None
      /\ UNCHANGED <<super, incl, klass, call, frame, defs>>
      /\ adding[1] \in Mid /\ adding[2] \in Body /\ Single \in Owner /\ defs \in 0 .. MaxDefs
  BY ClassAssumption DEF C!DefsEnd, C!Spares, ClassInv, Owner
<1>2. unflushed' \subseteq Mid
  BY <1>1, Flushes DEF C!DefsEnd
<1>3. C!Method(adding[2], "public") \in Entries(super, incl)
  BY <1>1 DEF C!Method, Entries
<1> QED
  BY <1>1, <1>2, <1>3, EntersInv

\* extend keeps the invariant.
LEMMA ExtendInv == ASSUME ClassInv, NEW m \in Module, C!rb_extend_object(m) PROVE ClassInv'
<1> DEFINE t == C!Reverse(C!Missing(m, C!Chain(klass)))
<1>1. /\ C!rb_singleton_class /\ incl' = [incl EXCEPT ![Single] = @ \o t] /\ UNCHANGED <<m_tbl, call, frame, adding>>
      /\ cache' = C!Cleared /\ unflushed' \subseteq Mid /\ defs' \in 0 .. MaxDefs
  BY Flushes, Defined DEF C!rb_extend_object
<1>2. /\ klass # None /\ klass' = Single
      /\ Classes(super', incl, klass') /\ Wider(super, incl, super', incl) /\ World(super', incl)
  BY <1>1, Singleton
<1>3. t \in Seq(Module) /\ Single \in Owner
  BY MissingModules, ClassAssumption DEF Owner
<1>4. World(super', incl') /\ Wider(super', incl, super', incl')
  BY <1>1, <1>2, <1>3, IncludesWorld
<1>5. Wider(super, incl, super', incl')
  <2>1. \A d \in Owner : Len(incl[d]) <= Len(incl'[d])
    BY <1>4 DEF Wider
  <2> QED
    BY <1>2, <2>1 DEF Wider
<1>6. Classes(super', incl', klass')
  BY <1>2, <1>4 DEF Classes
<1>7. klass' # None
  BY <1>2, ClassAssumption
<1> QED
  BY <1>1, <1>4, <1>5, <1>6, <1>7, ChainsInv DEF ClassInv

\* A call starts at the class of the object.
LEMMA CallInv ==
  ASSUME ClassInv, NEW id \in Mid, NEW s \in {"recv", "self"}, C!Call(id, s) PROVE ClassInv'
<1>1. /\ klass # None /\ call' = [cell |-> <<klass, 0>>, mid |-> id, scope |-> s]
      /\ UNCHANGED <<super, incl, m_tbl, klass, defs, unflushed, adding, cache, frame>>
  BY DEF C!Call, C!Calls, C!tables
<1>2. <<klass, 0>> \in Real(super, incl)
  BY <1>1, SelfReal, MadeIs DEF ClassInv, Classes, Owner
<1>3. Calling(super, incl, klass, call')
  BY <1>1, <1>2 DEF Calling, Called
<1> QED
  BY <1>1, <1>3, CallingInv DEF ClassInv

\* super starts above the class of the frame.
LEMMA SuperCallInv == ASSUME ClassInv, C!SuperCall PROVE ClassInv'
<1>1. /\ frame # None /\ call' = [cell |-> C!Super(frame.last_class), mid |-> frame.last_func, scope |-> "self"]
      /\ UNCHANGED <<super, incl, m_tbl, klass, defs, unflushed, adding, cache, frame>>
  BY DEF C!SuperCall, C!Calls, C!tables
<1>2. klass # None /\ frame.last_class \in Real(super, incl) /\ frame.last_func \in Mid
  BY <1>1 DEF ClassInv, Framed, Entered
<1>3. C!Super(frame.last_class) \in Real(super, incl) \cup {None}
  BY <1>2, SuperReal
<1>4. Calling(super, incl, klass, call')
  BY <1>1, <1>2, <1>3 DEF Calling, Called
<1> QED
  BY <1>1, <1>4, CallingInv DEF ClassInv

\* A return forgets the frame.
LEMMA ReturnInv == ASSUME ClassInv, C!Return PROVE ClassInv'
<1>1. Framed(super, incl, klass, None) /\ Calling(super, incl, klass, None)
  BY DEF Framed, Calling
<1> QED
  BY <1>1, CallingInv DEF C!Return, C!tables, ClassInv

\* A call of an undefined method ends.
LEMMA UndefinedInv == ASSUME ClassInv, C!CallUndefined PROVE ClassInv'
<1>1. Calling(super, incl, klass, None)
  BY DEF Calling
<1> QED
  BY <1>1, CallingInv DEF C!CallUndefined, C!tables, ClassInv

\* A call that finds its method keeps it in the cache.
LEMMA CallFoundIs ==
  ASSUME ClassInv, C!CallFound
  PROVE  LET e == C!Entry(call.cell, call.mid) IN
         /\ call # None /\ klass # None /\ call.cell \in Real(super, incl) /\ call.mid \in Mid
         /\ C!Cached(call.cell, call.mid) \/ C!Found(call.cell, call.mid)
         /\ e \in Kept(super, incl) /\ e.class = call.cell /\ e.mid = call.mid
         /\ cache' = [cache EXCEPT ![call.mid] = e] /\ Caches(super, incl, cache')
         /\ UNCHANGED <<super, incl, m_tbl, klass, defs, unflushed, adding>>
<1> DEFINE e == C!Entry(call.cell, call.mid)
<1>1. /\ call # None /\ call.cell # None /\ C!Store(e)
      /\ UNCHANGED <<super, incl, m_tbl, klass, defs, unflushed, adding>>
      /\ C!Cached(call.cell, call.mid) \/ C!Found(call.cell, call.mid)
  BY DEF C!CallFound, C!tables
<1>2. klass # None /\ call.cell \in Real(super, incl) /\ call.mid \in Mid
  BY <1>1 DEF ClassInv, Calling, Called
<1>3. e \in Kept(super, incl) /\ e.class = call.cell /\ e.mid = call.mid /\ cache' = [cache EXCEPT ![call.mid] = e]
  BY <1>1, <1>2, EntryIs
<1>4. Caches(super, incl, cache')
  BY <1>2, <1>3 DEF ClassInv, Caches
<1> QED
  BY <1>1, <1>2, <1>3, <1>4

\* So does one of a private method.
LEMMA PrivateInv == ASSUME ClassInv, C!CallPrivate PROVE ClassInv'
<1>1. Calling(super, incl, klass, None)
  BY DEF Calling
<1> QED
  BY <1>1, CallingInv, CallFoundIs DEF C!CallPrivate, ClassInv

\* A call that meets a NODE_ZSUPER goes on at a class that is made.
LEMMA ZsuperInv == ASSUME ClassInv, C!CallZsuper PROVE ClassInv'
<1> DEFINE e == C!Entry(call.cell, call.mid)
           u == C!Chain(klass)
           own == C!SelectInSeq(u, LAMBDA x : C!Table(x) = C!Table(e.origin))
           to == IF C!Super(e.origin) # None THEN C!Super(e.origin) ELSE IF own = 0 THEN None ELSE u[own]
<1>1. C!CallFound /\ frame' = frame /\ call' = [cell |-> to, mid |-> e.mid0, scope |-> "self"]
  BY DEF C!CallZsuper, C!Calls
<1>2. /\ klass # None /\ e \in Kept(super, incl) /\ Caches(super, incl, cache')
      /\ UNCHANGED <<super, incl, m_tbl, klass, defs, unflushed, adding>>
  BY <1>1, CallFoundIs
<1>3. e.origin \in Real(super, incl) /\ e.mid0 \in Mid
  BY <1>2 DEF Kept
<1>4. C!Super(e.origin) \in Real(super, incl) \cup {None}
  BY <1>3, SuperReal
<1>5. own # 0 => u[own] \in Real(super, incl)
  <2> SUFFICES ASSUME own # 0 PROVE u[own] \in Real(super, incl)
    OBVIOUS
  <2> DEFINE I == {i \in 1 .. Len(u) : C!Table(u[i]) = C!Table(e.origin)}
  <2>1. own = IF I # {} THEN C!Min(I) ELSE 0
    BY DEF C!SelectInSeq
  <2>2. klass \in Owner /\ IsMade(super, klass) /\ World(super, incl)
    BY <1>2 DEF ClassInv, Classes, Owner
  <2>3. u = Up(super, incl)[klass] /\ Len(u) \in Nat
    BY <2>2, ChainIs, UpAt DEF Above
  <2> HIDE DEF u, own
  <2>4. I \in SUBSET Nat /\ I # {}
    BY <2>1, <2>3
  <2> HIDE DEF I
  <2>5. own \in I
    BY <2>1, <2>4, MinOf
  <2>6. own \in 1 .. Len(u)
    BY <2>5 DEF I
  <2>7. On(super, incl, u[own], klass)
    BY <2>3, <2>6 DEF On
  <2> QED
    BY <2>2, <2>7, SpotIs, MadeOn DEF Real, ClassInv, Classes
<1> HIDE DEF own, u, e
<1>6. to \in Real(super, incl) \cup {None}
  BY <1>4, <1>5
<1> HIDE DEF to
<1>7. Calling(super, incl, klass, call')
  BY <1>1, <1>2, <1>3, <1>6 DEF Calling, Called
<1> QED
  BY <1>1, <1>2, <1>7, CallingInv DEF ClassInv

\* A call that enters a method notes cells of classes that are made.
LEMMA EntersCallInv == ASSUME ClassInv, C!CallEnters PROVE ClassInv'
<1> DEFINE e == C!Entry(call.cell, call.mid)
<1>1. /\ C!CallFound /\ call' = None
      /\ frame' = [last_class |-> e.origin, last_func |-> e.mid0, node |-> e.node, from |-> call.cell]
  BY DEF C!CallEnters
<1>2. /\ klass # None /\ e \in Kept(super, incl) /\ Caches(super, incl, cache') /\ call.cell \in Real(super, incl)
      /\ UNCHANGED <<super, incl, m_tbl, klass, defs, unflushed, adding>>
  BY <1>1, CallFoundIs
<1> HIDE DEF e
<1>3. Framed(super, incl, klass, frame') /\ Calling(super, incl, klass, call')
  BY <1>1, <1>2 DEF Framed, Entered, Kept, Calling
<1> QED
  BY <1>1, <1>2, <1>3, CallingInv

\* respond_to? and the like keep the invariant, and what they find.
LEMMA BoundpInv ==
  ASSUME ClassInv, NEW c \in Owner, NEW id \in Mid, C!method_boundp(c, id)
  PROVE  /\ ClassInv' /\ cache' = [cache EXCEPT ![id] = C!Fill(<<c, 0>>, id)]
         /\ <<c, 0>> \in Real(super, incl) /\ C!Found(<<c, 0>>, id)
         /\ UNCHANGED <<super, incl, m_tbl, klass, defs, unflushed, adding, call, frame>>
<1>1. /\ C!Made(c) /\ C!Found(<<c, 0>>, id) /\ C!Store(C!Fill(<<c, 0>>, id))
      /\ UNCHANGED <<super, incl, m_tbl, klass, defs, unflushed, adding, call, frame>>
  BY DEF C!method_boundp, C!tables
<1>2. <<c, 0>> \in Real(super, incl)
  BY <1>1, SelfReal
<1>3. C!Fill(<<c, 0>>, id) \in Kept(super, incl) /\ C!Fill(<<c, 0>>, id).mid = id
  BY <1>1, <1>2, FoundIs
<1>4. cache' = [cache EXCEPT ![id] = C!Fill(<<c, 0>>, id)]
  BY <1>1, <1>3 DEF C!Store, Slot
<1>5. Caches(super, incl, cache')
  BY <1>3, <1>4 DEF ClassInv, Caches
<1> QED
  BY <1>1, <1>2, <1>4, <1>5, CallingInv DEF ClassInv

\* What Found(), Fill() and CacheCurrent say of these tables.
FoundIn(sup, inc, tbl, x, id) ==
  LET y == Search(sup, inc, tbl, x, id) IN y # None /\ tbl[TableOf(inc, y)][id].node # "undef"

FillIn(sup, inc, tbl, x, id) ==
  LET y == Search(sup, inc, tbl, x, id)
      e == tbl[TableOf(inc, y)][id]
  IN  [class |-> x, mid |-> id, node |-> e.node, noex |-> e.noex,
       origin |-> IF e.orig = None THEN y ELSE e.orig,
       mid0 |-> IF e.orig = None THEN id ELSE e.mid]

\* CacheCurrent of given tables.
Current(sup, inc, tbl, c, un) ==
  \A s \in DOMAIN c : c[s] # None /\ c[s].mid \notin un =>
    /\ FoundIn(sup, inc, tbl, c[s].class, c[s].mid)
    /\ c[s] = FillIn(sup, inc, tbl, c[s].class, c[s].mid)

\* Found() and Fill() are FoundIn() and FillIn().
LEMMA FillIs ==
  ASSUME NEW x, NEW id
  PROVE  /\ C!Found(x, id) <=> FoundIn(super, incl, m_tbl, x, id)
         /\ C!Fill(x, id) = FillIn(super, incl, m_tbl, x, id)
BY SearchIsC, TableIs DEF C!Found, C!Fill, FoundIn, FillIn

\* CacheCurrent says Current of the state.
LEMMA CurrentIs == C!CacheCurrent <=> Current(super, incl, m_tbl, cache, unflushed)
BY FillIs DEF C!CacheCurrent, Current

\* The search finds the same entry.
LEMMA SameFill ==
  ASSUME NEW sup, NEW inc, NEW tbl, NEW sup2, NEW inc2, NEW tbl2, NEW x, NEW id,
         Search(sup2, inc2, tbl2, x, id) = Search(sup, inc, tbl, x, id),
         LET y == Search(sup, inc, tbl, x, id) IN
           y # None => tbl2[TableOf(inc2, y)][id] = tbl[TableOf(inc, y)][id]
  PROVE  FoundIn(sup, inc, tbl, x, id) =>
           /\ FoundIn(sup2, inc2, tbl2, x, id)
           /\ FillIn(sup2, inc2, tbl2, x, id) = FillIn(sup, inc, tbl, x, id)
BY DEF FoundIn, FillIn

\* A new entry that no search passes, for the class where it is found nowhere.
LEMMA AddedSpares ==
  ASSUME NEW sup, NEW inc, World(sup, inc), NEW tbl, NEW tbl2, NEW c \in Cls, NEW id,
         Search(sup, inc, tbl, <<c, 0>>, id) = None,
         \A t \in Owner \ {c} : tbl2[t][id] = tbl[t][id],
         NEW x \in Cell(inc), Search(sup, inc, tbl, x, id) # None
  PROVE  LET y == Search(sup, inc, tbl, x, id) IN
         /\ Search(sup, inc, tbl2, x, id) = y
         /\ tbl2[TableOf(inc, y)][id] = tbl[TableOf(inc, y)][id]
<1> DEFINE y == Search(sup, inc, tbl, x, id)
           z0 == <<c, 0>>
<1>1. y \in Cell(inc) /\ Has(sup, inc, tbl, x, id, y)
  BY SearchIs
<1>2. \A z : Has(sup, inc, tbl, x, id, z) => Height(sup, inc, z) <= Height(sup, inc, y)
  BY SearchIs
<1>3. c \in Owner /\ z0[1] = c /\ z0 \in Cell(inc) /\ x[1] \in Owner
  <2>1. Len(inc[c]) \in Nat
    BY SegmentIs DEF World, Owner
  <2> QED
    BY <2>1 DEF Cell, Owner
<1>4. \A z : ~Has(sup, inc, tbl, z0, id, z)
  BY <1>3, SearchIs
<1> HIDE DEF y, z0
<1>5. ASSUME NEW z, On(sup, inc, z, x[1]), TableOf(inc, z) = c PROVE z = z0
  BY <1>3, <1>5, SpotIs, TableOwner DEF z0
<1>6. On(sup, inc, y, x[1]) /\ Height(sup, inc, y) \in Nat
  BY <1>1, <1>3, SameHeight DEF Has
<1>7. ASSUME On(sup, inc, z0, x[1]), Height(sup, inc, y) <= Height(sup, inc, z0) PROVE FALSE
  <2>1. On(sup, inc, y, c)
    BY <1>3, <1>6, <1>7, OnTrans
  <2>2. Has(sup, inc, tbl, z0, id, y)
    BY <1>1, <1>3, <1>7, <2>1 DEF Has
  <2> QED
    BY <1>4, <2>2
<1>8. TableOf(inc, y) \in Owner \ {c}
  <2>1. TableOf(inc, y) \in Owner
    BY <1>1, TableOwner
  <2>2. TableOf(inc, y) # c
    <3> SUFFICES ASSUME TableOf(inc, y) = c PROVE FALSE
      OBVIOUS
    <3>1. y = z0
      BY <1>5, <1>6
    <3> QED
      BY <1>6, <1>7, <3>1
  <2> QED
    BY <2>1, <2>2
<1>9. Has(sup, inc, tbl2, x, id, y)
  BY <1>1, <1>8 DEF Has
<1>10. ASSUME NEW z, Has(sup, inc, tbl2, x, id, z) PROVE Height(sup, inc, z) <= Height(sup, inc, y)
  <2>1. On(sup, inc, z, x[1]) /\ Height(sup, inc, z) <= Height(sup, inc, x) /\ tbl2[TableOf(inc, z)][id] # None
    BY <1>10 DEF Has
  <2>2. z \in Cell(inc) /\ Height(sup, inc, z) \in Nat
    BY <1>3, <2>1, SpotIs, SameHeight
  <2>3. TableOf(inc, z) \in Owner
    BY <2>2, TableOwner
  <2>4. CASE TableOf(inc, z) = c
    <3>1. z = z0
      BY <1>5, <2>1, <2>4
    <3>2. ~(Height(sup, inc, y) <= Height(sup, inc, z0))
      BY <1>7, <2>1, <3>1
    <3> QED
      BY <1>6, <2>2, <3>1, <3>2
  <2>5. CASE TableOf(inc, z) # c
    <3>1. Has(sup, inc, tbl, x, id, z)
      BY <2>1, <2>3, <2>5 DEF Has
    <3> QED
      BY <1>2, <3>1
  <2> QED
    BY <2>4, <2>5
<1>11. Search(sup, inc, tbl2, x, id) = y
  BY <1>9, <1>10, SearchOne
<1> QED
  BY <1>8, <1>11 DEF y

\* Entries for other names do not matter.
LEMMA OthersSpare ==
  ASSUME NEW sup, NEW inc, World(sup, inc), NEW tbl, NEW tbl2, NEW id,
         \A t \in Owner : tbl2[t][id] = tbl[t][id],
         NEW x \in Cell(inc), Search(sup, inc, tbl, x, id) # None
  PROVE  LET y == Search(sup, inc, tbl, x, id) IN
         /\ Search(sup, inc, tbl2, x, id) = y
         /\ tbl2[TableOf(inc, y)][id] = tbl[TableOf(inc, y)][id]
<1> DEFINE y == Search(sup, inc, tbl, x, id)
<1>1. y \in Cell(inc) /\ Has(sup, inc, tbl, x, id, y) /\ x[1] \in Owner
  BY SearchIs, OwnSpot
<1>2. \A z : Has(sup, inc, tbl, x, id, z) => Height(sup, inc, z) <= Height(sup, inc, y)
  BY SearchIs
<1> HIDE DEF y
<1>3. \A z \in Cell(inc) : tbl2[TableOf(inc, z)][id] = tbl[TableOf(inc, z)][id]
  BY TableOwner
<1>4. Has(sup, inc, tbl2, x, id, y)
  BY <1>1, <1>3 DEF Has
<1>5. ASSUME NEW z, Has(sup, inc, tbl2, x, id, z) PROVE Height(sup, inc, z) <= Height(sup, inc, y)
  <2>1. z \in Cell(inc)
    BY <1>1, <1>5, SpotIs DEF Has
  <2>2. Has(sup, inc, tbl, x, id, z)
    BY <1>3, <1>5, <2>1 DEF Has
  <2> QED
    BY <1>2, <2>2
<1>6. Search(sup, inc, tbl2, x, id) = y
  BY <1>4, <1>5, SearchOne
<1> QED
  BY <1>1, <1>3, <1>6 DEF y

-----------------------------------------------------------------------------
\* An empty cache is current.
LEMMA ClearedCurrent ==
  ASSUME NEW sup, NEW inc, NEW tbl, NEW un PROVE Current(sup, inc, tbl, C!Cleared, un)
BY DEF Current, C!Cleared

\* A method that is entered, for a name that is unflushed then or found nowhere.
LEMMA EntersCurrent ==
  ASSUME NEW sup, NEW inc, World(sup, inc), NEW tbl, Tables(sup, inc, tbl), NEW k, Caches(sup, inc, k),
         NEW un, NEW un2, un \subseteq un2, Current(sup, inc, tbl, k, un),
         NEW c \in Owner, NEW id \in Mid, NEW e,
         id \in un2 \/ (c \in Cls /\ Search(sup, inc, tbl, <<c, 0>>, id) = None)
  PROVE  Current(sup, inc, [tbl EXCEPT ![c][id] = e], k, un2)
<1> DEFINE tbl2 == [tbl EXCEPT ![c][id] = e]
<1>1. \A t \in Owner, i \in Mid : (t # c \/ i # id) => tbl2[t][i] = tbl[t][i]
  BY DEF Tables
<1> HIDE DEF tbl2
<1> SUFFICES ASSUME NEW s \in DOMAIN k, k[s] # None, k[s].mid \notin un2
             PROVE  /\ FoundIn(sup, inc, tbl2, k[s].class, k[s].mid)
                    /\ k[s] = FillIn(sup, inc, tbl2, k[s].class, k[s].mid)
  BY DEF Current, tbl2
<1> DEFINE x == k[s].class
           i == k[s].mid
<1>2. k[s] \in Kept(sup, inc)
  BY DEF Caches
<1>3. x \in Cell(inc) /\ i \in Mid /\ i \notin un
  BY <1>2 DEF Kept, Real
<1>4. FoundIn(sup, inc, tbl, x, i) /\ k[s] = FillIn(sup, inc, tbl, x, i)
  BY <1>3 DEF Current
<1> HIDE DEF x, i
<1> DEFINE y == Search(sup, inc, tbl, x, i)
<1>5. y # None
  BY <1>4 DEF FoundIn
<1>6. Search(sup, inc, tbl2, x, i) = y /\ tbl2[TableOf(inc, y)][i] = tbl[TableOf(inc, y)][i]
  <2>1. CASE i = id
    <3>1. c \in Cls /\ Search(sup, inc, tbl, <<c, 0>>, i) = None
      BY <1>3, <2>1 DEF i
    <3>2. \A t \in Owner \ {c} : tbl2[t][i] = tbl[t][i]
      BY <1>1, <1>3
    <3> QED
      BY <1>3, <1>5, <3>1, <3>2, AddedSpares
  <2>2. CASE i # id
    <3>1. \A t \in Owner : tbl2[t][i] = tbl[t][i]
      BY <1>1, <1>3, <2>2
    <3> QED
      BY <1>3, <1>5, <3>1, OthersSpare
  <2> QED
    BY <2>1, <2>2
<1>7. FoundIn(sup, inc, tbl2, x, i) /\ FillIn(sup, inc, tbl2, x, i) = FillIn(sup, inc, tbl, x, i)
  BY <1>4, <1>6, SameFill
<1> QED
  BY <1>4, <1>7 DEF x, i

\* A class that is made: no entry of the cache is of it.
LEMMA DefinesCurrent ==
  ASSUME NEW sup, NEW inc, NEW cl, Classes(sup, inc, cl), NEW tbl, NEW k, Caches(sup, inc, k),
         NEW un, Current(sup, inc, tbl, k, un),
         NEW c \in Cls, ~IsMade(sup, c), NEW sup2, World(sup2, inc), \A d \in Owner \ {c} : sup2[d] = sup[d]
  PROVE  Current(sup2, inc, tbl, k, un)
<1>1. /\ World(sup, inc) /\ c \in Owner
      /\ \A d \in Owner : sup[d] # c
  BY ClassAssumption DEF Classes, World, Owner, IsMade
<1> SUFFICES ASSUME NEW s \in DOMAIN k, k[s] # None, k[s].mid \notin un
             PROVE  /\ FoundIn(sup2, inc, tbl, k[s].class, k[s].mid)
                    /\ k[s] = FillIn(sup2, inc, tbl, k[s].class, k[s].mid)
  BY DEF Current
<1> DEFINE x == k[s].class
           i == k[s].mid
<1>2. k[s] \in Kept(sup, inc)
  BY DEF Caches
<1>3. x[1] \in Owner /\ IsMade(sup, x[1])
  BY <1>2 DEF Kept, Real, Cell
<1>4. FoundIn(sup, inc, tbl, x, i) /\ k[s] = FillIn(sup, inc, tbl, x, i)
  BY DEF Current
<1> HIDE DEF x, i
<1>5. x[1] # c
  BY <1>3
<1>6. Up(sup2, inc)[x[1]] = Up(sup, inc)[x[1]]
  BY <1>1, <1>3, <1>5, SameUp
<1>7. Search(sup2, inc, tbl, x, i) = Search(sup, inc, tbl, x, i)
  BY <1>6 DEF Search
<1>8. FoundIn(sup2, inc, tbl, x, i) /\ FillIn(sup2, inc, tbl, x, i) = FillIn(sup, inc, tbl, x, i)
  BY <1>4, <1>7, SameFill
<1> QED
  BY <1>4, <1>8 DEF x, i

\* An entry that the cache has, or that the tables yield.
LEMMA StoresCurrent ==
  ASSUME NEW sup, NEW inc, NEW tbl, NEW k, NEW un, Current(sup, inc, tbl, k, un), NEW id, NEW e,
         NEW k2, DOMAIN k2 = DOMAIN k, \A s \in DOMAIN k : k2[s] = IF s = id THEN e ELSE k[s],
         \/ id \in DOMAIN k /\ e = k[id]
         \/ FoundIn(sup, inc, tbl, e.class, e.mid) /\ e = FillIn(sup, inc, tbl, e.class, e.mid)
  PROVE  Current(sup, inc, tbl, k2, un)
BY DEF Current

\* What the invariant says of the state, and CacheCurrent of the tables.
LEMMA CurrentNow ==
  ASSUME ClassInv, C!CacheCurrent
  PROVE  /\ World(super, incl) /\ Classes(super, incl, klass) /\ Tables(super, incl, m_tbl)
         /\ Caches(super, incl, cache) /\ Current(super, incl, m_tbl, cache, unflushed)
BY CurrentIs DEF ClassInv, Classes

\* After the step, the same of what it makes of them.
LEMMA CurrentNext == C!CacheCurrent' <=> Current(super', incl', m_tbl', cache', unflushed')
BY ZenonT(30) DEF C!CacheCurrent, C!Found, C!Fill, C!search_method, C!Table, C!Chain, C!Segment, C!Owner, Owner,
       Current, FoundIn, FillIn, Search, TableOf, Segment, Climbs, Up

\* A step that clears the cache.
LEMMA ClearsCurrent == ASSUME cache' = C!Cleared PROVE C!CacheCurrent'
BY CurrentNext, ClearedCurrent

\* A step that changes neither chains, tables nor the cache.
LEMMA KeepsCurrent ==
  ASSUME ClassInv, C!CacheCurrent, UNCHANGED <<super, incl, m_tbl, cache>>, unflushed \subseteq unflushed'
  PROVE  C!CacheCurrent'
<1>1. Current(super, incl, m_tbl, cache, unflushed')
  BY CurrentNow DEF Current
<1> QED
  BY <1>1, CurrentNext

\* A step that enters a method and spares the cache.
LEMMA SparesCurrent ==
  ASSUME ClassInv, C!CacheCurrent, UNCHANGED <<super, incl>>, NEW c \in Owner, NEW id \in Mid, NEW e,
         C!rb_add_method(c, id, e), NEW passed, C!Spares(id, passed),
         ~passed => c \in Cls /\ C!search_method(<<c, 0>>, id) = None
  PROVE  C!CacheCurrent'
<1>1. /\ m_tbl' = [m_tbl EXCEPT ![c][id] = e] /\ cache' = cache /\ unflushed \subseteq unflushed'
      /\ passed => id \in unflushed'
  BY DEF C!rb_add_method, C!Spares
<1>2. id \in unflushed' \/ (c \in Cls /\ Search(super, incl, m_tbl, <<c, 0>>, id) = None)
  BY <1>1, SearchIsC
<1>3. Current(super, incl, [m_tbl EXCEPT ![c][id] = e], cache, unflushed')
  BY <1>1, <1>2, CurrentNow, EntersCurrent
<1> QED
  BY <1>1, <1>3, CurrentNext

\* A step that makes a class, or the singleton class.
LEMMA MakesCurrent ==
  ASSUME ClassInv, C!CacheCurrent, NEW c \in Cls, ~IsMade(super, c), NEW p,
         super' = [super EXCEPT ![c] = p], World(super', incl),
         UNCHANGED <<incl, m_tbl, cache>>, unflushed' = unflushed
  PROVE  C!CacheCurrent'
<1>1. \A d \in Owner \ {c} : super'[d] = super[d]
  BY CurrentNow DEF World
<1>2. Current(super', incl, m_tbl, cache, unflushed)
  BY <1>1, CurrentNow, DefinesCurrent
<1> QED
  BY <1>2, CurrentNext

\* Every definition leaves the cache current, or clears it.
LEMMA DefineCurrent == ClassInv /\ C!CacheCurrent /\ C!Define => C!CacheCurrent'
<1> SUFFICES ASSUME ClassInv, C!CacheCurrent, C!Define PROVE C!CacheCurrent'
  OBVIOUS
<1>1. ASSUME NEW c \in Cls, NEW p \in Cls, C!DefineClass(c, p) PROVE C!CacheCurrent'
  <2>1. /\ ~IsMade(super, c) /\ c # Single /\ IsMade(super, p) /\ p # Single
        /\ super' = [super EXCEPT ![c] = p] /\ UNCHANGED <<incl, m_tbl, cache, unflushed>>
    BY <1>1, MadeIs DEF C!DefineClass
  <2>2. World(super', incl)
    BY <2>1, Defines DEF ClassInv
  <2> QED
    BY <2>1, <2>2, MakesCurrent
<1>2. ASSUME NEW c \in Owner, NEW id \in Mid, NEW b \in Body, NEW n \in C!Noex, C!NODE_DEFN(c, id, b, n)
      PROVE  C!CacheCurrent'
  <2> DEFINE old == C!search_method(<<c, 0>>, id)
             e == C!Method(b, IF old = None THEN n ELSE m_tbl[C!Table(old)][id].noex)
  <2>1. /\ C!rb_add_method(c, id, e) /\ UNCHANGED <<super, incl>>
        /\ IF old # None THEN C!rb_clear_cache ELSE C!Spares(id, c \in Module)
    BY <1>2 DEF C!NODE_DEFN
  <2>2. CASE old # None
    BY <2>1, <2>2, ClearsCurrent DEF C!rb_clear_cache
  <2>3. CASE old = None
    <3>1. c \notin Module => c \in Cls
      BY DEF Owner
    <3> HIDE DEF e
    <3> QED
      BY <2>1, <2>3, <3>1, SparesCurrent
  <2> QED
    BY <2>2, <2>3
<1>3. ASSUME NEW c \in Owner, NEW id \in Mid, C!NODE_UNDEF(c, id) PROVE C!CacheCurrent'
  BY <1>3, ClearsCurrent DEF C!NODE_UNDEF, C!rb_clear_cache
<1>4. ASSUME NEW c \in Owner, NEW name \in Mid, NEW def \in Mid, C!rb_alias(c, name, def) PROVE C!CacheCurrent'
  <2> DEFINE y == C!Visible(c, def, C!Found(<<c, 0>>, def))
             o == m_tbl[C!Table(y)][def]
             e == IF o.orig = None THEN C!Fbody(o.node, o.noex, def, y)
                  ELSE C!Fbody(o.node, o.noex, def, C!Garbage)
             passed == c \in Module \/ C!search_method(<<c, 0>>, name) # None
  <2>1. /\ C!rb_add_method(c, name, e) /\ UNCHANGED <<super, incl>> /\ C!Spares(name, passed)
    BY <1>4 DEF C!rb_alias
  <2>2. ~passed => c \in Cls /\ C!search_method(<<c, 0>>, name) = None
    BY DEF Owner
  <2> HIDE DEF e, passed
  <2> QED
    BY <2>1, <2>2, SparesCurrent
<1>5. ASSUME NEW c \in Owner, NEW name \in Mid, NEW n \in C!Noex, C!rb_export_method(c, name, n) PROVE C!CacheCurrent'
  <2> DEFINE y == C!Visible(c, name, C!search_method(<<c, 0>>, name) # None)
             e == [m_tbl[c][name] EXCEPT !.noex = n]
  <2>1. /\ UNCHANGED <<super, incl>>
        /\ IF y = <<c, 0>> THEN C!rb_add_method(c, name, e) /\ C!Spares(name, TRUE) ELSE C!rb_clear_cache
    BY <1>5 DEF C!rb_export_method
  <2>2. CASE y = <<c, 0>>
    <3> HIDE DEF e
    <3> QED
      BY <2>1, <2>2, SparesCurrent
  <2>3. CASE y # <<c, 0>>
    BY <2>1, <2>3, ClearsCurrent DEF C!rb_clear_cache
  <2> QED
    BY <2>2, <2>3
<1>6. ASSUME NEW c \in Owner, NEW m \in Module, C!rb_include_module(c, m) PROVE C!CacheCurrent'
  BY <1>6, ClearsCurrent DEF C!rb_include_module, C!rb_clear_cache
<1>7. ASSUME NEW id \in Mid, NEW b \in Body, C!DefsBegin(id, b) PROVE C!CacheCurrent'
  BY <1>7, ClearsCurrent DEF C!DefsBegin, C!rb_clear_cache
<1>8. ASSUME NEW m \in Module, C!rb_extend_object(m) PROVE C!CacheCurrent'
  BY <1>8, ClearsCurrent DEF C!rb_extend_object, C!rb_clear_cache
<1> QED
  BY <1>1, <1>2, <1>3, <1>4, <1>5, <1>6, <1>7, <1>8 DEF C!Define, C!Owner, Owner

\* A call keeps in the cache what it had, or what the tables say.
LEMMA CallFoundCurrent == ASSUME ClassInv, C!CacheCurrent, C!CallFound PROVE C!CacheCurrent'
<1> DEFINE x == call.cell
           id == call.mid
           e == C!Entry(x, id)
<1>1. /\ x \in Real(super, incl) /\ id \in Mid
      /\ C!Cached(x, id) \/ C!Found(x, id)
      /\ e.class = x /\ e.mid = id /\ cache' = [cache EXCEPT ![id] = e]
      /\ UNCHANGED <<super, incl, m_tbl, klass, defs, unflushed, adding>>
  BY CallFoundIs
<1>2. id \in DOMAIN cache
  BY <1>1 DEF ClassInv, Caches
<1>3. C!Cached(x, id) => e = cache[id]
  BY <1>1, EntryIs
<1>4. ~C!Cached(x, id) => C!Found(x, id) /\ e = C!Fill(x, id)
  BY <1>1, EntryIs
<1> HIDE DEF e, x, id
<1>5. C!Found(x, id) /\ e = C!Fill(x, id) =>
        FoundIn(super, incl, m_tbl, e.class, e.mid) /\ e = FillIn(super, incl, m_tbl, e.class, e.mid)
  BY <1>1, FillIs
<1>6. DOMAIN cache' = DOMAIN cache /\ \A s \in DOMAIN cache : cache'[s] = IF s = id THEN e ELSE cache[s]
  BY <1>1
<1>7. Current(super, incl, m_tbl, cache', unflushed)
  <2>1. Current(super, incl, m_tbl, cache, unflushed)
    BY CurrentNow
  <2>2. CASE C!Cached(x, id)
    <3>1. id \in DOMAIN cache /\ e = cache[id]
      BY <1>2, <1>3, <2>2
    <3> QED
      BY <1>6, <2>1, <3>1, StoresCurrent
  <2>3. CASE ~C!Cached(x, id)
    <3>1. FoundIn(super, incl, m_tbl, e.class, e.mid) /\ e = FillIn(super, incl, m_tbl, e.class, e.mid)
      BY <1>4, <1>5, <2>3
    <3> QED
      BY <1>6, <2>1, <3>1, StoresCurrent
  <2> QED
    BY <2>2, <2>3
<1> QED
  BY <1>1, <1>7, CurrentNext

\* So does every step.
LEMMA CurrentStep == ClassInv /\ C!CacheCurrent /\ [C!Next]_cvars => C!CacheCurrent'
<1> SUFFICES ASSUME ClassInv, C!CacheCurrent, [C!Next]_cvars PROVE C!CacheCurrent'
  OBVIOUS
<1>1. CASE C!Define
  BY <1>1, DefineCurrent
<1>2. CASE C!ReopenClass
  BY <1>2, ClearsCurrent DEF C!ReopenClass, C!rb_clear_cache
<1>3. CASE C!NODE_SCLASS
  <2>1. /\ C!rb_singleton_class /\ UNCHANGED <<incl, m_tbl>>
        /\ IF klass = Single THEN C!rb_clear_cache ELSE UNCHANGED <<cache, unflushed>>
    BY <1>3 DEF C!NODE_SCLASS
  <2>2. CASE klass = Single
    BY <2>1, <2>2, ClearsCurrent DEF C!rb_clear_cache
  <2>3. CASE klass # Single
    <3>1. ~IsMade(super, Single) /\ super' = [super EXCEPT ![Single] = klass] /\ World(super', incl)
      BY <2>1, <2>3, Singleton
    <3> QED
      BY <2>1, <2>3, <3>1, MakesCurrent, ClassAssumption
  <2> QED
    BY <2>2, <2>3
<1>4. CASE C!DefsEnd
  <2> DEFINE e == C!Method(adding[2], "public")
             id == adding[1]
  <2>1. adding # None /\ C!rb_add_method(Single, id, e) /\ C!Spares(id, TRUE) /\ UNCHANGED <<super, incl>>
    BY <1>4 DEF C!DefsEnd
  <2>2. id \in Mid /\ Single \in Owner
    BY <2>1, ClassAssumption DEF ClassInv, Owner
  <2> HIDE DEF e, id
  <2> QED
    BY <2>1, <2>2, SparesCurrent
<1>5. ASSUME NEW c \in Cls, C!class_new_instance(c) PROVE C!CacheCurrent'
  BY <1>5, KeepsCurrent DEF C!class_new_instance
<1>6. ASSUME NEW id \in Mid, NEW s \in {"recv", "self"}, C!Call(id, s) PROVE C!CacheCurrent'
  BY <1>6, KeepsCurrent DEF C!Call, C!tables
<1>7. CASE C!SuperCall \/ C!Return \/ C!CallUndefined
  BY <1>7, KeepsCurrent DEF C!SuperCall, C!Return, C!CallUndefined, C!tables
<1>8. CASE C!CallPrivate \/ C!CallZsuper \/ C!CallEnters
  BY <1>8, CallFoundCurrent DEF C!CallPrivate, C!CallZsuper, C!CallEnters
<1>9. ASSUME NEW c \in Owner, NEW id \in Mid, C!method_boundp(c, id) PROVE C!CacheCurrent'
  <2> DEFINE x == <<c, 0>>
             e == C!Fill(x, id)
  <2>1. /\ cache' = [cache EXCEPT ![id] = e] /\ x \in Real(super, incl) /\ C!Found(x, id)
        /\ UNCHANGED <<super, incl, m_tbl, klass, defs, unflushed, adding, call, frame>>
    BY <1>9, BoundpInv
  <2>2. e.class = x /\ e.mid = id
    BY <2>1, FoundIs
  <2>3. FoundIn(super, incl, m_tbl, e.class, e.mid) /\ e = FillIn(super, incl, m_tbl, e.class, e.mid)
    BY <2>1, <2>2, FillIs
  <2> HIDE DEF e, x
  <2>4. DOMAIN cache' = DOMAIN cache /\ \A s \in DOMAIN cache : cache'[s] = IF s = id THEN e ELSE cache[s]
    BY <2>1
  <2>5. Current(super, incl, m_tbl, cache', unflushed)
    BY <2>3, <2>4, CurrentNow, StoresCurrent
  <2> QED
    BY <2>1, <2>5, CurrentNext
<1>10. CASE UNCHANGED cvars
  BY <1>10, KeepsCurrent DEF cvars
<1> QED
  BY <1>1, <1>2, <1>3, <1>4, <1>5, <1>6, <1>7, <1>8, <1>9, <1>10 DEF C!Next, C!Dispatch, C!Owner, Owner

\* The invariant is inductive.
LEMMA ClassStep ==
  ASSUME "alias_alias" \notin Uses PROVE ClassInv /\ [C!Next]_cvars => ClassInv'
<1> SUFFICES ASSUME ClassInv, [C!Next]_cvars PROVE ClassInv'
  OBVIOUS
<1>1. CASE C!Define
  BY <1>1, DefineClassInv, NODE_DEFNInv, NODE_UNDEFInv, AliasInv, ExportInv, IncludeInv, DefsBeginInv, ExtendInv
     DEF C!Define, C!Owner, Owner
<1>2. CASE C!ReopenClass \/ C!NODE_SCLASS \/ C!DefsEnd \/ C!SuperCall \/ C!Return
  BY <1>2, ReopenClassInv, SclassInv, DefsEndInv, SuperCallInv, ReturnInv
<1>3. CASE C!Dispatch
  BY <1>3, UndefinedInv, PrivateInv, ZsuperInv, EntersCallInv DEF C!Dispatch
<1>4. CASE \/ \E c \in Cls : C!class_new_instance(c)
           \/ \E id \in Mid, s \in {"recv", "self"} : C!Call(id, s)
           \/ \E c \in Owner, id \in Mid : C!method_boundp(c, id)
  BY <1>4, NewInstanceInv, CallInv, BoundpInv
<1>5. CASE UNCHANGED cvars
  BY <1>5 DEF cvars, ClassInv
<1> QED
  BY <1>1, <1>2, <1>3, <1>4, <1>5 DEF C!Next, C!Owner, Owner

\* At first the cache is empty.
LEMMA EmptyFirst == C!Init => \A s \in DOMAIN cache : cache[s] = None
<1> SUFFICES ASSUME C!Init PROVE \A s \in DOMAIN cache : cache[s] = None
  OBVIOUS
<1> DEFINE Z == {Slot(<<c, 0>>, id) : c \in Owner, id \in Mid}
<1>1. cache = [s \in Z |-> None]
  BY DEF C!Init, C!Owner, Owner
<1> HIDE DEF Z
<1> QED
  BY <1>1

\* So it is current.
LEMMA CurrentInit == C!Init => C!CacheCurrent
BY EmptyFirst DEF C!CacheCurrent

\* An entry of the method cache is what the tables say, for every name but those that an
\* alias, a visibility, a definition in an included module or a singleton method changed
\* since the cache was cleared (eval.c: rb_get_method_body, rb_clear_cache and those that
\* call it or do not), for any classes, modules, names and bodies.
THEOREM ControlCache == ASSUME "alias_alias" \notin Uses PROVE Spec => []CacheCurrent
<1> DEFINE Inv == ClassInv /\ C!CacheCurrent
<1>1. Init => Inv
  BY ClassInit, CurrentInit DEF Init
<1>2. Inv /\ [Next]_vars => Inv'
  <2> SUFFICES ASSUME Inv, [Next]_vars PROVE Inv'
    OBVIOUS
  <2>1. [C!Next]_cvars
    BY DEF Next, vars
  <2> QED
    BY <2>1, ClassStep, CurrentStep
<1>3. Inv => CacheCurrent
  BY DEF CacheCurrent
<1> QED
  BY <1>1, <1>2, <1>3, PTL DEF Spec

(***************************************************************************)
(* Cells that are noted lie on the chain they were found on, and a method  *)
(* that only changes the visibility has a cell above it.                   *)
(***************************************************************************)

\* A module has methods of its own only; an alias in a class notes where it was found.
Upward(sup, inc, t, e) ==
  /\ t \in Module => e.orig = None /\ e.node # "zsuper"
  /\ e.orig # None => On(sup, inc, e.orig, t)
  /\ e.node = "zsuper" => Height(sup, inc, IF e.orig = None THEN <<t, 0>> ELSE e.orig) # 0

\* What the cache keeps was found on the chain of the class it was called for.
KeptUp(sup, inc, e) ==
  /\ On(sup, inc, e.origin, e.class[1])
  /\ Height(sup, inc, e.origin) <= Height(sup, inc, e.class)
  /\ e.node = "zsuper" => Height(sup, inc, e.origin) # 0

\* Tables, cache, call and frame are such: a call and a frame go up the receiver's chain.
TablesUp(sup, inc, tbl) == \A t \in Owner, id \in Mid : tbl[t][id] # None => Upward(sup, inc, t, tbl[t][id])
CachesUp(sup, inc, c) == \A id \in Mid : c[id] # None => KeptUp(sup, inc, c[id])
CallUp(sup, inc, k, c) == c # None /\ c.cell # None => On(sup, inc, c.cell, k)
FrameUp(sup, inc, k, f) ==
  f # None => /\ On(sup, inc, f.from, k) /\ On(sup, inc, f.last_class, k)
              /\ Height(sup, inc, f.last_class) <= Height(sup, inc, f.from)

\* The second part of the invariant, which keeps calls on the chain of the receiver.
UpInv ==
  /\ TablesUp(super, incl, m_tbl) /\ CachesUp(super, incl, cache)
  /\ CallUp(super, incl, klass, call) /\ FrameUp(super, incl, klass, frame)

\* The class itself is the first cell of its chain.
LEMMA FirstCell ==
  ASSUME NEW sup, NEW inc, World(sup, inc), NEW c \in Owner
  PROVE  /\ <<c, 0>> \in Cell(inc) /\ On(sup, inc, <<c, 0>>, c) /\ Height(sup, inc, <<c, 0>>) \in Nat
         /\ \A y : On(sup, inc, y, c) => Height(sup, inc, y) <= Height(sup, inc, <<c, 0>>)
         /\ \A y : On(sup, inc, y, c) /\ Height(sup, inc, <<c, 0>>) = 0 => y = <<c, 0>>
<1> DEFINE x == <<c, 0>>
<1>1. x \in Cell(inc) /\ x[1] = c /\ x[2] = 0
  <2>1. Len(inc[c]) \in Nat
    BY SegmentIs DEF World
  <2> QED
    BY <2>1 DEF Cell
<1>2. On(sup, inc, x, c) /\ Height(sup, inc, x) \in Nat /\ Len(Up(sup, inc)[c]) \in Nat
  BY <1>1, OwnSpot
<1>3. Height(sup, inc, x) = Len(Up(sup, inc)[c]) - 1
  BY <1>1 DEF Height, Pos
<1> HIDE DEF x
<1>4. ASSUME NEW y, On(sup, inc, y, c)
      PROVE  Height(sup, inc, y) <= Height(sup, inc, x) /\ (Height(sup, inc, x) = 0 => y = x)
  <2>1. Height(sup, inc, y) \in Nat /\ Height(sup, inc, y) < Len(Up(sup, inc)[c])
    BY <1>4, SameHeight
  <2>2. Height(sup, inc, y) <= Height(sup, inc, x)
    BY <1>2, <1>3, <2>1
  <2>3. Height(sup, inc, x) = 0 => Height(sup, inc, y) = Height(sup, inc, x)
    BY <2>1, <2>2
  <2> QED
    BY <1>2, <1>4, <2>2, <2>3, SameHeight
<1> QED
  BY <1>1, <1>2, <1>4 DEF x

-----------------------------------------------------------------------------
\* Growing chains keep what was noted.
LEMMA UpGrows ==
  ASSUME NEW sup, NEW inc, World(sup, inc), NEW sup2, NEW inc2, World(sup2, inc2),
         Wider(sup, inc, sup2, inc2)
  PROVE  /\ \A t \in Owner, e \in Entries(sup, inc) : Upward(sup, inc, t, e) => Upward(sup2, inc2, t, e)
         /\ \A e \in Kept(sup, inc) : KeptUp(sup, inc, e) => KeptUp(sup2, inc2, e)
<1>1. ASSUME NEW t \in Owner, NEW e \in Entries(sup, inc), Upward(sup, inc, t, e) PROVE Upward(sup2, inc2, t, e)
  <2>1. e.orig # None => On(sup2, inc2, e.orig, t)
    BY <1>1, GrowOn DEF Upward
  <2>2. e.node = "zsuper" => Height(sup2, inc2, IF e.orig = None THEN <<t, 0>> ELSE e.orig) # 0
    <3>1. e.orig \in Cell(inc) \cup {None} /\ <<t, 0>> \in Cell(inc)
      BY FirstCell DEF Entries, Real
    <3> QED
      BY <1>1, <3>1, GrowAbove DEF Upward
  <2> QED
    BY <1>1, <2>1, <2>2 DEF Upward
<1>2. ASSUME NEW e \in Kept(sup, inc), KeptUp(sup, inc, e) PROVE KeptUp(sup2, inc2, e)
  <2>1. e.class \in Cell(inc) /\ e.origin \in Cell(inc) /\ e.class[1] \in Owner /\ On(sup, inc, e.class, e.class[1])
    BY OwnSpot DEF Kept, Real
  <2>2. On(sup2, inc2, e.origin, e.class[1]) /\ Height(sup2, inc2, e.origin) <= Height(sup2, inc2, e.class)
    BY <1>2, <2>1, GrowOn, GrowOrder DEF KeptUp
  <2>3. e.node = "zsuper" => Height(sup2, inc2, e.origin) # 0
    BY <1>2, <2>1, GrowAbove DEF KeptUp
  <2> QED
    BY <2>2, <2>3 DEF KeptUp
<1> QED
  BY <1>1, <1>2

\* A step that changes the chains, and may put the singleton class in front of the object's.
LEMMA ChainsUp ==
  ASSUME ClassInv, UpInv, World(super', incl'), Wider(super, incl, super', incl'),
         UNCHANGED <<m_tbl, call, frame>>, cache' \in {cache, C!Cleared},
         klass # None => klass' = klass \/ (klass' = Single /\ super'[Single] = klass)
  PROVE  UpInv'
<1>1. World(super, incl) /\ (klass # None => klass \in Owner) /\ Single \in Owner
  BY ClassAssumption DEF ClassInv, Classes, Owner
<1>2. TablesUp(super', incl', m_tbl')
  <2>1. \A t \in Owner, id \in Mid : m_tbl[t][id] \in Entries(super, incl) \cup {None}
    BY DEF ClassInv, Tables
  <2> QED
    BY <1>1, <2>1, UpGrows DEF TablesUp, UpInv
<1>3. CachesUp(super', incl', cache')
  <2>1. \A id \in Mid : cache[id] \in Kept(super, incl) \cup {None}
    BY DEF ClassInv, Caches
  <2>2. \A id \in Mid : cache'[id] = cache[id] \/ cache'[id] = None
    BY DEF C!Cleared, ClassInv, Caches
  <2> QED
    BY <1>1, <2>1, <2>2, UpGrows DEF CachesUp, UpInv
<1>4. ASSUME klass # None, NEW x, On(super, incl, x, klass) PROVE On(super', incl', x, klass')
  <2>1. On(super', incl', x, klass)
    BY <1>1, <1>4, GrowOn
  <2>2. CASE klass' = klass
    BY <2>1, <2>2
  <2>3. CASE klass' = Single /\ super'[Single] = klass
    BY <1>1, <1>4, <2>1, <2>3, OnSplit
  <2> QED
    BY <1>4, <2>2, <2>3
<1>5. CallUp(super', incl', klass', call')
  BY <1>4 DEF CallUp, UpInv, ClassInv, Calling
<1>6. FrameUp(super', incl', klass', frame')
  <2> SUFFICES ASSUME frame # None PROVE FrameUp(super', incl', klass', frame)
    BY DEF FrameUp
  <2>1. /\ klass # None /\ On(super, incl, frame.from, klass) /\ On(super, incl, frame.last_class, klass)
        /\ Height(super, incl, frame.last_class) <= Height(super, incl, frame.from)
    BY DEF FrameUp, UpInv, ClassInv, Framed
  <2>2. Height(super', incl', frame.last_class) <= Height(super', incl', frame.from)
    BY <1>1, <2>1, GrowOrder
  <2> QED
    BY <1>4, <2>1, <2>2 DEF FrameUp
<1> QED
  BY <1>2, <1>3, <1>5, <1>6 DEF UpInv

\* A step that enters a method.
LEMMA EntersUp ==
  ASSUME ClassInv, UpInv, UNCHANGED <<super, incl, klass, call, frame>>, cache' \in {cache, C!Cleared},
         NEW c \in Owner, NEW id \in Mid, NEW e, C!rb_add_method(c, id, e), Upward(super, incl, c, e)
  PROVE  UpInv'
<1>1. TablesUp(super, incl, m_tbl')
  <2>1. \A t \in Owner, i \in Mid : m_tbl'[t][i] = IF t = c /\ i = id THEN e ELSE m_tbl[t][i]
    BY DEF C!rb_add_method, ClassInv, Tables
  <2> QED
    BY <2>1 DEF TablesUp, UpInv
<1>2. CachesUp(super, incl, cache')
  BY DEF C!Cleared, ClassInv, Caches, CachesUp, UpInv
<1> QED
  BY <1>1, <1>2 DEF UpInv

\* A step of a call.
LEMMA CallsUp ==
  ASSUME UpInv, UNCHANGED <<super, incl, m_tbl, klass>>, CachesUp(super, incl, cache'),
         CallUp(super, incl, klass, call'), FrameUp(super, incl, klass, frame')
  PROVE  UpInv'
BY DEF UpInv

\* What is found has been noted so.
LEMMA FillUp ==
  ASSUME ClassInv, UpInv, NEW x \in Real(super, incl), NEW id \in Mid, C!Found(x, id)
  PROVE  KeptUp(super, incl, C!Fill(x, id))
<1> DEFINE y == C!search_method(x, id)
           t == TableOf(incl, y)
           e == m_tbl[t][id]
           f == C!Fill(x, id)
<1>1. /\ f.class = x /\ f.node = e.node /\ f.origin = (IF e.orig = None THEN y ELSE e.orig) /\ y # None
  BY FoundIs
<1>2. /\ y \in Cell(incl) /\ Has(super, incl, m_tbl, x, id, y) /\ t \in Owner /\ World(super, incl) /\ x[1] \in Owner
      /\ (t \in Cls => y = <<t, 0>>)
  BY <1>1, SearchReal, TableOwner, OwnSpot DEF Real, ClassInv, Classes
<1> HIDE DEF y, t, f
<1>3. On(super, incl, y, x[1]) /\ Height(super, incl, y) <= Height(super, incl, x) /\ e # None
  BY <1>2 DEF Has, t
<1>4. Upward(super, incl, t, e)
  BY <1>2, <1>3 DEF UpInv, TablesUp
<1> HIDE DEF e
<1>5. CASE e.orig = None
  <2>1. e.node = "zsuper" => Height(super, incl, y) # 0
    BY <1>2, <1>4, <1>5 DEF Upward, Owner
  <2> QED
    BY <1>1, <1>3, <1>5, <2>1 DEF KeptUp, f
<1>6. CASE e.orig # None
  <2>1. t \in Cls /\ y = <<t, 0>> /\ On(super, incl, e.orig, t)
    BY <1>2, <1>4, <1>6 DEF Upward, Owner
  <2>2. On(super, incl, e.orig, x[1])
    BY <1>2, <1>3, <2>1, OnTrans
  <2>3. Height(super, incl, e.orig) <= Height(super, incl, y) /\ Height(super, incl, y) \in Nat
    BY <1>2, <2>1, FirstCell
  <2>4. Height(super, incl, e.orig) \in Nat /\ Height(super, incl, x) \in Nat
    BY <1>2, <2>2, SameHeight, OwnSpot DEF Real
  <2>5. Height(super, incl, e.orig) <= Height(super, incl, x)
    BY <1>3, <2>3, <2>4
  <2>6. e.node = "zsuper" => Height(super, incl, e.orig) # 0
    BY <1>4, <1>6 DEF Upward
  <2> QED
    BY <1>1, <1>6, <2>2, <2>5, <2>6 DEF KeptUp, f
<1> QED
  BY <1>5, <1>6

\* So is what a call finds, and keeps.
LEMMA EntryUp ==
  ASSUME ClassInv, UpInv, C!CallFound
  PROVE  /\ KeptUp(super, incl, C!Entry(call.cell, call.mid))
         /\ CachesUp(super, incl, cache')
         /\ On(super, incl, call.cell, klass)
<1> DEFINE x == call.cell
           id == call.mid
           e == C!Entry(x, id)
<1>1. /\ call # None /\ x # None /\ x \in Real(super, incl) /\ id \in Mid
      /\ C!Cached(x, id) \/ C!Found(x, id)
      /\ cache' = [cache EXCEPT ![id] = e]
  BY CallFoundIs DEF C!CallFound
<1>2. KeptUp(super, incl, e)
  <2>1. CASE C!Cached(x, id)
    BY <1>1, <2>1, EntryIs DEF UpInv, CachesUp
  <2>2. CASE ~C!Cached(x, id)
    BY <1>1, <2>2, EntryIs, FillUp
  <2> QED
    BY <2>1, <2>2
<1>3. CachesUp(super, incl, cache')
  <2> HIDE DEF e, x, id
  <2>1. \A i \in Mid : cache'[i] = IF i = id THEN e ELSE cache[i]
    BY <1>1 DEF ClassInv, Caches
  <2> QED
    BY <1>2, <2>1 DEF UpInv, CachesUp
<1>4. On(super, incl, x, klass)
  BY <1>1 DEF UpInv, CallUp
<1> QED
  BY <1>2, <1>3, <1>4

\* At first nothing is noted.
LEMMA UpInit == C!Init => UpInv
<1> SUFFICES ASSUME C!Init PROVE UpInv
  OBVIOUS
<1>1. /\ \A t \in Owner, id \in Mid : m_tbl[t][id] = None
      /\ call = None /\ frame = None
  BY DEF C!Init, C!Owner, Owner
<1>2. \A id \in Mid : id \in DOMAIN cache
  BY ClassInit DEF ClassInv, Caches
<1>3. \A id \in Mid : cache[id] = None
  BY <1>2, EmptyFirst
<1> QED
  BY <1>1, <1>3 DEF UpInv, TablesUp, CachesUp, CallUp, FrameUp

-----------------------------------------------------------------------------
\* Steps that change the chains.
LEMMA DefineClassUp ==
  ASSUME ClassInv, UpInv, NEW c \in Cls, NEW p \in Cls, C!DefineClass(c, p) PROVE UpInv'
<1>1. /\ ~IsMade(super, c) /\ c # Single /\ IsMade(super, p) /\ p # Single
      /\ super' = [super EXCEPT ![c] = p] /\ UNCHANGED <<incl, m_tbl, klass, cache, call, frame>>
  BY MadeIs DEF C!DefineClass
<1>2. Wider(super, incl, super', incl) /\ World(super', incl)
  BY <1>1, Defines DEF ClassInv
<1> QED
  BY <1>1, <1>2, ChainsUp

\* So does include.
LEMMA IncludeUp ==
  ASSUME ClassInv, UpInv, NEW c \in Owner, NEW m \in Module, C!rb_include_module(c, m) PROVE UpInv'
<1> DEFINE t == C!Reverse(C!Missing(m, C!Chain(c)))
<1>1. incl' = [incl EXCEPT ![c] = @ \o t] /\ UNCHANGED <<super, m_tbl, klass, call, frame>> /\ cache' = C!Cleared
  BY Flushes DEF C!rb_include_module
<1>2. t \in Seq(Module) /\ World(super, incl)
  BY MissingModules DEF ClassInv, Classes
<1>3. World(super, incl') /\ Wider(super, incl, super, incl')
  BY <1>1, <1>2, IncludesWorld
<1> QED
  BY <1>1, <1>3, ChainsUp

\* The singleton class comes in front of the class of the object.
LEMMA SingletonUp ==
  ASSUME ClassInv, UpInv, C!rb_singleton_class, UNCHANGED <<incl, m_tbl, call, frame>>,
         cache' \in {cache, C!Cleared}
  PROVE  UpInv'
<1>1. /\ klass # None /\ klass' = Single
      /\ Wider(super, incl, super', incl) /\ World(super', incl)
      /\ klass = Single => super' = super
      /\ klass # Single => super' = [super EXCEPT ![Single] = klass]
  BY Singleton
<1>2. super \in [Owner -> Cls \cup {None}] /\ Single \in Owner
  BY ClassAssumption DEF ClassInv, Classes, World, Owner
<1>3. klass' = klass \/ (klass' = Single /\ super'[Single] = klass)
  BY <1>1, <1>2
<1> QED
  BY <1>1, <1>3, ChainsUp

\* extend includes into the singleton class.
LEMMA ExtendUp == ASSUME ClassInv, UpInv, NEW m \in Module, C!rb_extend_object(m) PROVE UpInv'
<1> DEFINE t == C!Reverse(C!Missing(m, C!Chain(klass)))
<1>1. /\ C!rb_singleton_class /\ incl' = [incl EXCEPT ![Single] = @ \o t] /\ UNCHANGED <<m_tbl, call, frame>>
      /\ cache' = C!Cleared
  BY Flushes DEF C!rb_extend_object
<1>2. /\ klass # None /\ klass' = Single
      /\ Wider(super, incl, super', incl) /\ World(super', incl)
      /\ klass = Single => super' = super
      /\ klass # Single => super' = [super EXCEPT ![Single] = klass]
  BY <1>1, Singleton
<1>3. t \in Seq(Module) /\ Single \in Owner
  BY MissingModules, ClassAssumption DEF Owner
<1>4. World(super', incl') /\ Wider(super', incl, super', incl')
  BY <1>1, <1>2, <1>3, IncludesWorld
<1>5. Wider(super, incl, super', incl')
  <2>1. \A d \in Owner : Len(incl[d]) <= Len(incl'[d])
    BY <1>4 DEF Wider
  <2> QED
    BY <1>2, <2>1 DEF Wider
<1>6. super \in [Owner -> Cls \cup {None}]
  BY DEF ClassInv, Classes, World
<1>7. klass' = klass \/ (klass' = Single /\ super'[Single] = klass)
  BY <1>2, <1>3, <1>6
<1> QED
  BY <1>1, <1>4, <1>5, <1>7, ChainsUp

\* There is no call nor frame before there is an object.
LEMMA NewInstanceUp == ASSUME ClassInv, UpInv, NEW c \in Cls, C!class_new_instance(c) PROVE UpInv'
<1>1. klass = None /\ UNCHANGED <<super, incl, m_tbl, cache, call, frame>> /\ World(super, incl)
  BY DEF C!class_new_instance, ClassInv, Classes
<1> QED
  BY <1>1, WiderSame, ChainsUp

-----------------------------------------------------------------------------
\* Steps that enter a method.

\* A method with a body of its own.
LEMMA MethodUp ==
  ASSUME NEW sup, NEW inc, NEW c, NEW b \in Body \cup {"undef"}, NEW n
  PROVE  Upward(sup, inc, c, C!Method(b, n))
BY ClassAssumption DEF Upward, C!Method

\* def enters a body.
LEMMA NODE_DEFNUp ==
  ASSUME ClassInv, UpInv, NEW c \in Owner, NEW id \in Mid, NEW b \in Body, NEW n \in C!Noex, C!NODE_DEFN(c, id, b, n)
  PROVE  UpInv'
<1> DEFINE old == C!search_method(<<c, 0>>, id)
           v == IF old = None THEN n ELSE m_tbl[C!Table(old)][id].noex
<1>1. /\ C!rb_add_method(c, id, C!Method(b, v)) /\ UNCHANGED <<super, incl, klass, call, frame>>
      /\ cache' \in {cache, C!Cleared}
  BY Flushes DEF C!NODE_DEFN
<1> HIDE DEF v
<1>2. Upward(super, incl, c, C!Method(b, v))
  BY MethodUp
<1> QED
  BY <1>1, <1>2, EntersUp

\* undef enters no body.
LEMMA NODE_UNDEFUp ==
  ASSUME ClassInv, UpInv, NEW c \in Owner, NEW id \in Mid, C!NODE_UNDEF(c, id) PROVE UpInv'
<1>1. /\ C!rb_add_method(c, id, C!Method("undef", "public")) /\ UNCHANGED <<super, incl, klass, call, frame>>
      /\ cache' \in {cache, C!Cleared}
  BY Flushes DEF C!NODE_UNDEF
<1>2. Upward(super, incl, c, C!Method("undef", "public"))
  BY MethodUp
<1> QED
  BY <1>1, <1>2, EntersUp

\* def obj.name enters a body, in the singleton class.
LEMMA DefsEndUp == ASSUME ClassInv, UpInv, C!DefsEnd PROVE UpInv'
<1>1. /\ C!rb_add_method(Single, adding[1], C!Method(adding[2], "public"))
      /\ UNCHANGED <<super, incl, klass, call, frame>> /\ cache' = cache
      /\ adding[1] \in Mid /\ adding[2] \in Body /\ Single \in Owner
  BY ClassAssumption DEF C!DefsEnd, C!Spares, ClassInv, Owner
<1>2. Upward(super, incl, Single, C!Method(adding[2], "public"))
  BY <1>1, MethodUp
<1> QED
  BY <1>1, <1>2, EntersUp

\* The method of a class, or of a module that it includes, is found on its chain.
LEMMA VisibleOn ==
  ASSUME ClassInv, NEW c \in Cls, C!Made(c), NEW id \in Mid, NEW ok, C!Visible(c, id, ok) # None
  PROVE  LET y == C!Visible(c, id, ok) IN
         y \in Cell(incl) /\ On(super, incl, y, c) /\ m_tbl[TableOf(incl, y)][id] # None
<1>1. c \notin Module /\ c \in Owner
  BY ClassAssumption DEF Owner
<1>2. C!Visible(c, id, ok) = C!search_method(<<c, 0>>, id)
  BY <1>1 DEF C!Visible
<1>3. <<c, 0>> \in Real(super, incl) /\ <<c, 0>>[1] = c
  BY <1>1, SelfReal
<1> QED
  BY <1>2, <1>3, SearchReal DEF Has, Real

\* alias notes where a class found the method, which is on its chain.
LEMMA AliasUp ==
  ASSUME ClassInv, UpInv, Uses = {}, NEW c \in Owner, NEW name \in Mid, NEW def \in Mid, C!rb_alias(c, name, def)
  PROVE  UpInv'
<1> DEFINE y == C!Visible(c, def, C!Found(<<c, 0>>, def))
           o == m_tbl[C!Table(y)][def]
           e == C!Fbody(o.node, o.noex, def, y)
           t == TableOf(incl, y)
<1>1. /\ C!Made(c) /\ c \in Cls /\ C!rb_add_method(c, name, e) /\ UNCHANGED <<super, incl, klass, call, frame>>
      /\ cache' \in {cache, C!Cleared} /\ y # None /\ o.orig = None
  BY Flushes DEF C!rb_alias
<1>2. y \in Cell(incl) /\ On(super, incl, y, c) /\ o # None /\ o = m_tbl[t][def]
  BY <1>1, VisibleOn, TableIs
<1>3. t \in Owner /\ (t \in Cls => y = <<t, 0>>)
  BY <1>2, TableOwner DEF ClassInv, Classes
<1> HIDE DEF y, o, t
<1>4. Upward(super, incl, t, o)
  BY <1>2, <1>3 DEF UpInv, TablesUp
<1>5. o.node = "zsuper" => Height(super, incl, y) # 0
  BY <1>1, <1>3, <1>4 DEF Upward, Owner
<1>6. e.orig = y /\ e.node = o.node
  BY DEF C!Fbody
<1>7. c \notin Module
  BY <1>1, ClassAssumption
<1> HIDE DEF e
<1>8. Upward(super, incl, c, e)
  BY <1>1, <1>2, <1>5, <1>6, <1>7 DEF Upward
<1> QED
  BY <1>1, <1>8, EntersUp

\* public and private enter a NODE_ZSUPER where the method was found further up.
LEMMA ExportUp ==
  ASSUME ClassInv, UpInv, Uses = {}, NEW c \in Owner, NEW name \in Mid, NEW n \in C!Noex, C!rb_export_method(c, name, n)
  PROVE  UpInv'
<1> DEFINE ok == C!search_method(<<c, 0>>, name) # None
           y == C!Visible(c, name, ok)
           e == [m_tbl[c][name] EXCEPT !.noex = n]
           z == C!Method("zsuper", n)
<1>1. /\ C!Made(c) /\ UNCHANGED <<super, incl, klass, call, frame>>
      /\ cache' \in {cache, C!Cleared} /\ y # None
      /\ c \in Module => y = <<c, 0>>
      /\ IF y = <<c, 0>> THEN C!rb_add_method(c, name, e) ELSE C!rb_add_method(c, name, z)
  BY Flushes DEF C!rb_export_method
<1>2. CASE y = <<c, 0>>
  <2>1. TableOf(incl, y) = c
    BY <1>2 DEF TableOf
  <2>2. m_tbl[c][name] \in Entries(super, incl)
    BY <1>1, <2>1, VisibleReal
  <2>3. m_tbl[c][name] # None /\ y \in Cell(incl)
    <3>1. y \in Real(super, incl) /\ y \in Cell(incl)
      BY <1>1, VisibleReal DEF Real
    <3>2. <<c, 0>> \in Real(super, incl) /\ <<c, 0>>[1] = c
      BY <1>1, SelfReal
    <3>3. CASE ok
      <4>1. y = C!search_method(<<c, 0>>, name)
        BY <3>3 DEF C!Visible
      <4> QED
        BY <1>1, <2>1, <3>1, <3>2, <4>1, SearchReal DEF Has
    <3>4. CASE ~ok
      <4>1. y = C!search_method(<<Object, 0>>, name)
        BY <1>1, <3>4 DEF C!Visible
      <4>2. Object \in Owner /\ C!Made(Object)
        BY ClassAssumption DEF Owner, C!Made
      <4> QED
        BY <1>1, <2>1, <3>1, <4>1, <4>2, SelfReal, SearchReal DEF Has
    <3> QED
      BY <3>3, <3>4
  <2>4. Upward(super, incl, c, m_tbl[c][name])
    BY <2>3 DEF UpInv, TablesUp
  <2>5. e.orig = m_tbl[c][name].orig /\ e.node = m_tbl[c][name].node
    BY <2>2 DEF Entries
  <2> HIDE DEF e
  <2>6. Upward(super, incl, c, e)
    BY <2>4, <2>5 DEF Upward
  <2> QED
    BY <1>1, <1>2, <2>6, EntersUp
<1>3. CASE y # <<c, 0>>
  <2>1. c \in Cls /\ c \notin Module
    BY <1>1, <1>3, ClassAssumption DEF Owner
  <2>2. On(super, incl, y, c)
    BY <1>1, <2>1, VisibleOn
  <2> HIDE DEF y, ok
  <2>3. Height(super, incl, <<c, 0>>) # 0
    BY <1>3, <2>2, FirstCell DEF ClassInv, Classes
  <2>4. z.orig = None /\ z.node = "zsuper"
    BY DEF C!Method
  <2> HIDE DEF z
  <2>5. Upward(super, incl, c, z)
    BY <2>1, <2>3, <2>4 DEF Upward
  <2> QED
    BY <1>1, <1>3, <2>5, EntersUp
<1> QED
  BY <1>2, <1>3

-----------------------------------------------------------------------------
\* Steps of a call.
LEMMA CallUpStep ==
  ASSUME ClassInv, UpInv, NEW id \in Mid, NEW s \in {"recv", "self"}, C!Call(id, s) PROVE UpInv'
<1>1. /\ klass # None /\ call' = [cell |-> <<klass, 0>>, mid |-> id, scope |-> s]
      /\ UNCHANGED <<super, incl, m_tbl, klass, cache, frame>>
  BY DEF C!Call, C!Calls, C!tables
<1>2. World(super, incl) /\ klass \in Owner
  BY <1>1 DEF ClassInv, Classes, Owner
<1>3. CallUp(super, incl, klass, call')
  BY <1>1, <1>2, FirstCell DEF CallUp
<1> QED
  BY <1>1, <1>3, CallsUp DEF UpInv

\* What is above a cell of the receiver's chain is on it.
LEMMA SuperOn ==
  ASSUME NEW c \in Owner, World(super, incl), NEW x, On(super, incl, x, c)
  PROVE  /\ C!Super(x) # None => On(super, incl, C!Super(x), c)
         /\ Height(super, incl, x) # 0 =>
              C!Super(x) # None /\ Height(super, incl, C!Super(x)) < Height(super, incl, x)
<1> DEFINE u == Upper(super, incl, x)
<1>1. x \in Cell(incl) /\ C!Super(x) = u /\ Height(super, incl, x) \in Nat
  BY SpotIs, SuperIs, SameHeight
<1>2. /\ u # None => On(super, incl, u, x[1])
      /\ Height(super, incl, x) # 0 => u # None /\ Height(super, incl, u) = Height(super, incl, x) - 1
  BY <1>1, UpperIs
<1> HIDE DEF u
<1>3. u # None => On(super, incl, u, c)
  BY <1>2, OnTrans
<1>4. Height(super, incl, x) # 0 => Height(super, incl, u) < Height(super, incl, x)
  BY <1>1, <1>2
<1> QED
  BY <1>1, <1>2, <1>3, <1>4

\* super starts above the class of the frame, on the same chain.
LEMMA SuperCallUp == ASSUME ClassInv, UpInv, C!SuperCall PROVE UpInv'
<1>1. /\ frame # None /\ call' = [cell |-> C!Super(frame.last_class), mid |-> frame.last_func, scope |-> "self"]
      /\ UNCHANGED <<super, incl, m_tbl, klass, cache, frame>>
  BY DEF C!SuperCall, C!Calls, C!tables
<1>2. World(super, incl) /\ klass \in Owner /\ On(super, incl, frame.last_class, klass)
  BY <1>1 DEF ClassInv, Classes, Owner, UpInv, FrameUp, Framed
<1>3. CallUp(super, incl, klass, call')
  BY <1>1, <1>2, SuperOn DEF CallUp
<1> QED
  BY <1>1, <1>3, CallsUp DEF UpInv

\* A return and a NameError forget frame and call.
LEMMA EndsUp == ASSUME UpInv, C!Return \/ C!CallUndefined PROVE UpInv'
BY CallsUp DEF C!Return, C!CallUndefined, C!tables, UpInv, CallUp, FrameUp

\* A call of a private method ends.
LEMMA PrivateUp == ASSUME ClassInv, UpInv, C!CallPrivate PROVE UpInv'
<1>1. C!CallFound /\ call' = None /\ frame' = frame /\ UNCHANGED <<super, incl, m_tbl, klass>>
  BY DEF C!CallPrivate, C!CallFound, C!tables
<1> QED
  BY <1>1, EntryUp, CallsUp DEF UpInv, CallUp

\* The call goes on higher up the chain of the receiver.
LEMMA ZsuperClimbs ==
  ASSUME ClassInv, UpInv, C!CallZsuper
  PROVE  /\ call # None /\ call.cell # None /\ call'.cell # None
         /\ On(super, incl, call.cell, klass) /\ On(super, incl, call'.cell, klass)
         /\ Height(super, incl, call'.cell) < Height(super, incl, call.cell)
<1> DEFINE e == C!Entry(call.cell, call.mid)
           u == C!Super(e.origin)
           own == C!SelectInSeq(C!Chain(klass), LAMBDA x : C!Table(x) = C!Table(e.origin))
           to == IF u # None THEN u ELSE IF own = 0 THEN None ELSE C!Chain(klass)[own]
<1>1. C!CallFound /\ e.node = "zsuper" /\ call' = [cell |-> to, mid |-> e.mid0, scope |-> "self"]
  BY DEF C!CallZsuper, C!Calls
<1>2. e.class = call.cell /\ call # None /\ klass # None /\ call.cell # None
  BY <1>1, CallFoundIs DEF C!CallFound
<1>3. KeptUp(super, incl, e) /\ On(super, incl, call.cell, klass)
  BY <1>1, EntryUp
<1>4. World(super, incl) /\ klass \in Owner
  BY <1>2 DEF ClassInv, Classes, Owner
<1> HIDE DEF own, e
<1>5. /\ On(super, incl, e.origin, call.cell[1]) /\ Height(super, incl, e.origin) # 0
      /\ Height(super, incl, e.origin) <= Height(super, incl, call.cell)
  BY <1>1, <1>2, <1>3 DEF KeptUp
<1>6. On(super, incl, e.origin, klass)
  BY <1>3, <1>4, <1>5, OnTrans
<1>7. u # None /\ On(super, incl, u, klass) /\ Height(super, incl, u) < Height(super, incl, e.origin)
  BY <1>4, <1>5, <1>6, SuperOn
<1>8. to = u /\ call'.cell = u
  BY <1>1, <1>7
<1> HIDE DEF to, u
<1>9. /\ Height(super, incl, u) \in Nat /\ Height(super, incl, e.origin) \in Nat
      /\ Height(super, incl, call.cell) \in Nat
  BY <1>3, <1>4, <1>6, <1>7, SameHeight
<1>10. Height(super, incl, u) < Height(super, incl, call.cell)
  BY <1>5, <1>7, <1>9
<1> QED
  BY <1>2, <1>3, <1>7, <1>8, <1>10

\* So the step keeps the invariant.
LEMMA ZsuperUp == ASSUME ClassInv, UpInv, C!CallZsuper PROVE UpInv'
<1>1. C!CallFound /\ frame' = frame /\ UNCHANGED <<super, incl, m_tbl, klass>>
  BY DEF C!CallZsuper, C!CallFound, C!tables
<1>2. CallUp(super, incl, klass, call')
  BY ZsuperClimbs DEF CallUp
<1> QED
  BY <1>1, <1>2, EntryUp, CallsUp DEF UpInv

\* A call that enters a method notes where that was found, not below the cell it came to.
LEMMA EntersCallUp == ASSUME ClassInv, UpInv, C!CallEnters PROVE UpInv'
<1> DEFINE e == C!Entry(call.cell, call.mid)
<1>1. /\ C!CallFound /\ call' = None /\ UNCHANGED <<super, incl, m_tbl, klass>>
      /\ frame' = [last_class |-> e.origin, last_func |-> e.mid0, node |-> e.node, from |-> call.cell]
  BY DEF C!CallEnters, C!CallFound, C!tables
<1>2. e.class = call.cell /\ klass # None
  BY <1>1, CallFoundIs
<1>3. KeptUp(super, incl, e) /\ On(super, incl, call.cell, klass) /\ CachesUp(super, incl, cache')
  BY <1>1, EntryUp
<1>4. World(super, incl) /\ klass \in Owner
  BY <1>2 DEF ClassInv, Classes, Owner
<1> HIDE DEF e
<1>5. On(super, incl, e.origin, klass) /\ Height(super, incl, e.origin) <= Height(super, incl, call.cell)
  BY <1>2, <1>3, <1>4, OnTrans DEF KeptUp
<1>6. FrameUp(super, incl, klass, frame')
  BY <1>1, <1>3, <1>5 DEF FrameUp
<1>7. CallUp(super, incl, klass, call')
  BY <1>1 DEF CallUp
<1> QED
  BY <1>1, <1>3, <1>6, <1>7, CallsUp

\* respond_to? and the like keep what they find in the cache.
LEMMA BoundpUp == ASSUME ClassInv, UpInv, NEW c \in Owner, NEW id \in Mid, C!method_boundp(c, id) PROVE UpInv'
<1> DEFINE e == C!Fill(<<c, 0>>, id)
<1>1. /\ cache' = [cache EXCEPT ![id] = e] /\ <<c, 0>> \in Real(super, incl) /\ C!Found(<<c, 0>>, id)
      /\ UNCHANGED <<super, incl, m_tbl, klass, call, frame>>
  BY BoundpInv
<1>2. KeptUp(super, incl, e)
  BY <1>1, FillUp
<1> HIDE DEF e
<1>3. \A i \in Mid : cache'[i] = IF i = id THEN e ELSE cache[i]
  BY <1>1 DEF ClassInv, Caches
<1>4. CachesUp(super, incl, cache')
  BY <1>2, <1>3 DEF UpInv, CachesUp
<1> QED
  BY <1>1, <1>4, CallsUp DEF UpInv

\* The invariant is inductive.
LEMMA UpStep == ASSUME Uses = {} PROVE ClassInv /\ UpInv /\ [C!Next]_cvars => UpInv'
<1> SUFFICES ASSUME ClassInv, UpInv, [C!Next]_cvars PROVE UpInv'
  OBVIOUS
<1>1. CASE C!Define
  <2>1. ASSUME NEW id \in Mid, NEW b \in Body, C!DefsBegin(id, b) PROVE UpInv'
    BY <2>1, Flushes, SingletonUp DEF C!DefsBegin
  <2> QED
    BY <1>1, <2>1, DefineClassUp, NODE_DEFNUp, NODE_UNDEFUp, AliasUp, ExportUp, IncludeUp, ExtendUp
       DEF C!Define, C!Owner, Owner
<1>2. CASE C!ReopenClass
  <2>1. UNCHANGED <<super, incl, m_tbl, klass, call, frame>> /\ cache' = C!Cleared /\ World(super, incl)
    BY <1>2, Flushes DEF C!ReopenClass, ClassInv, Classes
  <2> QED
    BY <2>1, WiderSame, ChainsUp
<1>3. CASE C!NODE_SCLASS
  <2>1. C!rb_singleton_class /\ UNCHANGED <<incl, m_tbl, call, frame>> /\ cache' \in {cache, C!Cleared}
    BY <1>3, Flushes DEF C!NODE_SCLASS
  <2> QED
    BY <2>1, SingletonUp
<1>4. CASE C!DefsEnd \/ C!SuperCall \/ C!Return
  BY <1>4, DefsEndUp, SuperCallUp, EndsUp
<1>5. CASE C!Dispatch
  BY <1>5, EndsUp, PrivateUp, ZsuperUp, EntersCallUp DEF C!Dispatch
<1>6. CASE \/ \E c \in Cls : C!class_new_instance(c)
           \/ \E id \in Mid, s \in {"recv", "self"} : C!Call(id, s)
           \/ \E c \in Owner, id \in Mid : C!method_boundp(c, id)
  BY <1>6, NewInstanceUp, CallUpStep, BoundpUp
<1>7. CASE UNCHANGED cvars
  BY <1>7 DEF cvars, UpInv
<1> QED
  BY <1>1, <1>2, <1>3, <1>4, <1>5, <1>6, <1>7 DEF C!Next, C!Owner, Owner

\* Initially, and after every step.
LEMMA ClimbsInductive ==
  ASSUME Uses = {}
  PROVE  /\ Init => ClassInv /\ UpInv
         /\ ClassInv /\ UpInv /\ [Next]_vars => (ClassInv /\ UpInv)' /\ [C!Next]_cvars
<1>1. Init => ClassInv /\ UpInv
  BY ClassInit, UpInit DEF Init
<1>2. ASSUME ClassInv, UpInv, [Next]_vars PROVE ClassInv' /\ UpInv' /\ [C!Next]_cvars
  <2>1. [C!Next]_cvars
    BY <1>2 DEF Next, vars
  <2> QED
    BY <1>2, <2>1, ClassStep, UpStep
<1> QED
  BY <1>1, <1>2

\* The invariant keeps the types of the model.
LEMMA ClassTyped == ClassInv => C!TypeOK
<1> SUFFICES ASSUME ClassInv PROVE C!TypeOK
  OBVIOUS
<1>1. super \in [Owner -> Cls \cup {None}] /\ incl \in [Owner -> Seq(Module)]
  BY DEF ClassInv, Classes, World
<1>2. klass \in Cls \cup {None} /\ (klass # None => C!Made(klass))
  BY MadeIs DEF ClassInv, Classes
<1>3. \A c \in Owner, id \in Mid :
        m_tbl[c][id] = None \/ (m_tbl[c][id].node \in Body \cup {"undef", "zsuper"} /\ m_tbl[c][id].noex \in C!Noex)
  BY DEF ClassInv, Tables, Entries, C!Noex
<1> QED
  BY <1>1, <1>2, <1>3 DEF C!TypeOK, C!Owner, Owner, ClassInv

\* So Place() finds both cells of a frame, the lower one first.
LEMMA FramePlaced == ClassInv /\ UpInv => C!FrameInChain
<1> SUFFICES ASSUME ClassInv, UpInv, frame # None PROVE C!FrameInChain
  BY DEF C!FrameInChain
<1>1. /\ World(super, incl) /\ klass \in Owner
      /\ On(super, incl, frame.from, klass) /\ On(super, incl, frame.last_class, klass)
      /\ Height(super, incl, frame.last_class) <= Height(super, incl, frame.from)
  BY DEF ClassInv, Classes, Owner, UpInv, FrameUp, Framed
<1> DEFINE u == Up(super, incl)[klass]
<1>2. C!Chain(klass) = u
  BY ChainIs
<1>3. /\ C!Place(frame.from, u) = Len(u) - Height(super, incl, frame.from)
      /\ C!Place(frame.from, u) \in 1 .. Len(u)
      /\ C!Place(frame.last_class, u) = Len(u) - Height(super, incl, frame.last_class)
  BY <1>1, PlaceIs
<1>4. /\ Height(super, incl, frame.from) \in Nat /\ Height(super, incl, frame.last_class) \in Nat /\ Len(u) \in Nat
  BY <1>1, SameHeight, UpAt DEF Above
<1> HIDE DEF u
<1>5. C!Place(frame.from, u) > 0 /\ C!Place(frame.last_class, u) >= C!Place(frame.from, u)
  BY <1>1, <1>3, <1>4
<1> QED
  BY <1>2, <1>5 DEF C!FrameInChain

\* The class a frame notes is one of the classes of the receiver, and not below the one
\* where the search began (eval.c: rb_call, rb_call0): super never runs a method again.
\* For any classes, modules, names and bodies, and programs of none of the Uses.
THEOREM ControlFrames == ASSUME Uses = {} PROVE Spec => []FrameInChain
<1>1. ClassInv /\ UpInv => FrameInChain
  BY ClassTyped, FramePlaced DEF FrameInChain
<1> QED
  BY <1>1, ClimbsInductive, PTL DEF Spec

\* Every pass of a call that meets a NODE_ZSUPER goes up the classes of the receiver.
LEMMA ClimbsStep ==
  ASSUME ClassInv, UpInv, [C!Next]_cvars, call # None, call' # None
  PROVE  \/ UNCHANGED cvars
         \/ /\ call'.cell # None
            /\ C!Place(call'.cell, C!Chain(klass)) > C!Place(call.cell, C!Chain(klass))
<1>1. CASE C!CallZsuper
  <2>1. /\ call'.cell # None /\ On(super, incl, call.cell, klass) /\ On(super, incl, call'.cell, klass)
        /\ Height(super, incl, call'.cell) < Height(super, incl, call.cell)
    BY <1>1, ZsuperClimbs
  <2>2. World(super, incl) /\ klass \in Owner
    BY DEF ClassInv, Classes, Owner, Calling
  <2> DEFINE u == Up(super, incl)[klass]
  <2>3. C!Chain(klass) = u
    BY ChainIs
  <2>4. PICK x : x = call'.cell
    OBVIOUS
  <2>5. /\ C!Place(call.cell, u) = Len(u) - Height(super, incl, call.cell)
        /\ C!Place(x, u) = Len(u) - Height(super, incl, x)
    BY <2>1, <2>2, <2>4, PlaceIs
  <2>6. /\ Height(super, incl, call.cell) \in Nat /\ Height(super, incl, x) \in Nat /\ Len(u) \in Nat
    BY <2>1, <2>2, <2>4, SameHeight, UpAt DEF Above
  <2> HIDE DEF u
  <2>7. C!Place(x, u) > C!Place(call.cell, u)
    BY <2>1, <2>4, <2>5, <2>6
  <2> QED
    BY <2>1, <2>3, <2>4, <2>7
<1>2. CASE UNCHANGED cvars
  BY <1>2
<1>3. CASE C!Next /\ ~C!CallZsuper
  <2>1. ASSUME C!Define PROVE FALSE
    <3>1. C!Defining => call = None
      BY DEF C!Defining
    <3>2. /\ \A c, p : C!DefineClass(c, p) => C!Defining
          /\ \A c, id, b, n : C!NODE_DEFN(c, id, b, n) => C!Defining
          /\ \A c, id : C!NODE_UNDEF(c, id) => C!Defining
      BY DEF C!DefineClass, C!NODE_DEFN, C!NODE_UNDEF
    <3>3. /\ \A c, id, old : C!rb_alias(c, id, old) => C!Defining
          /\ \A c, id, n : C!rb_export_method(c, id, n) => C!Defining
      <4>1. ASSUME NEW c, NEW id, NEW old, C!rb_alias(c, id, old) PROVE C!Defining
        BY <4>1 DEF C!rb_alias
      <4>2. ASSUME NEW c, NEW id, NEW n, C!rb_export_method(c, id, n) PROVE C!Defining
        BY <4>2 DEF C!rb_export_method
      <4> QED
        BY <4>1, <4>2
    <3>4. /\ \A c, m : C!rb_include_module(c, m) => C!Defining
          /\ \A id, b : C!DefsBegin(id, b) => C!Defining
          /\ \A m : C!rb_extend_object(m) => C!Defining
      BY DEF C!rb_include_module, C!DefsBegin, C!rb_extend_object
    <3> QED
      BY <2>1, <3>1, <3>2, <3>3, <3>4 DEF C!Define
  <2>2. ASSUME C!ReopenClass \/ C!NODE_SCLASS \/ C!DefsEnd \/ C!SuperCall \/ C!Return PROVE FALSE
    BY <2>2 DEF C!ReopenClass, C!NODE_SCLASS, C!DefsEnd, C!SuperCall, C!Return
  <2>3. ASSUME NEW c, NEW id, NEW s, C!class_new_instance(c) \/ C!Call(id, s) \/ C!method_boundp(c, id) PROVE FALSE
    BY <2>3 DEF C!class_new_instance, C!Call, C!method_boundp
  <2>4. ASSUME C!CallUndefined \/ C!CallPrivate \/ C!CallEnters PROVE FALSE
    BY <2>4 DEF C!CallUndefined, C!CallPrivate, C!CallEnters
  <2> QED
    BY <1>3, <2>1, <2>2, <2>3, <2>4 DEF C!Next, C!Dispatch
<1> QED
  BY <1>1, <1>2, <1>3

\* A call that meets methods which only change the visibility climbs the classes of the
\* receiver, so it ends, and never comes to class 0 (eval.c: rb_call, NODE_ZSUPER).
\* For any classes, modules, names and bodies, and programs of none of the Uses.
THEOREM ControlClimbs == ASSUME Uses = {} PROVE Spec => CallClimbs
<1> DEFINE A == (call # None /\ call' # None) =>
                   /\ call'.cell # None
                   /\ C!Place(call'.cell, C!Chain(klass)) > C!Place(call.cell, C!Chain(klass))
<1>1. ClassInv /\ UpInv /\ [Next]_vars => [A]_cvars
  BY ClimbsInductive, ClimbsStep
<1>2. [A]_cvars => [A]_C!vars
  BY DEF cvars, C!vars
<1> QED
  BY <1>1, <1>2, ClimbsInductive, PTL DEF Spec, CallClimbs, C!CallClimbs

=============================================================================
