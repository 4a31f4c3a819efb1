---------------------------- MODULE ObjectProofs -----------------------------
(***************************************************************************)
(* Proofs about objects and variables that change while something else     *)
(* relies on them, for any threads, children, patterns, character codes,   *)
(* bytes, elements and global variables.                                   *)
(***************************************************************************)
EXTENDS MCObjects, FiniteSetTheorems, SequenceTheorems, WellFoundedInduction, TLAPS

-----------------------------------------------------------------------------
(***************************************************************************)
(* system() beside other threads (process.c).                              *)
(***************************************************************************)

Handlers == {"own", "ign"}

\* The types; a thread that is inside system has a child there.
ProcessType ==
  /\ kid \in [Child -> [st : {"none", "run", "dead", "gone"}, code : 0 .. 1]]
  /\ thr \in [Thr -> [op : {"idle", "system"}, pid : Child \cup {PR!Nobody}, saved : Handlers]]
  /\ \A t \in Thr : thr[t].op = "system" => thr[t].pid \in Child
  /\ handler \in Handlers /\ crossed \in BOOLEAN /\ last_status \in 0 .. 1
  /\ result \in [Thr -> [pid : Child \cup {PR!Nobody}, ok : BOOLEAN]]

\* What system returned is the status of a child that has gone, and will not change.
Answered ==
  \A t \in Thr : result[t].pid # PR!Nobody =>
    /\ kid[result[t].pid].st = "gone"
    /\ result[t].ok <=> kid[result[t].pid].code = 0

\* While no wait has crossed another, the threads inside system stand in order, the
\* first has saved the handler of the program, and each after it found it ignored.
Nested ==
  ~crossed =>
    /\ order \in Seq(Thr)
    /\ \A i, j \in 1 .. Len(order) : order[i] = order[j] => i = j
    /\ \A t \in Thr : thr[t].op = "system" => \E i \in 1 .. Len(order) : order[i] = t
    /\ \A i \in 1 .. Len(order) :
         /\ thr[order[i]].op = "system"
         /\ i = 1 => thr[order[i]].saved = "own"
         /\ i # 1 => thr[order[i]].saved = "ign"
    /\ Len(order) = 0 => handler = "own"
    /\ Len(order) # 0 => handler = "ign"

\* The inductive invariant.
ProcessInv == ProcessType /\ Answered /\ Nested

\* No thread has called system at first.
LEMMA ProcessInit == ASSUME PR!Init PROVE ProcessInv
<1>1. /\ kid = [k \in Child |-> [st |-> "none", code |-> 0]]
      /\ thr = [t \in Thr |-> PR!Idle]
      /\ handler = "own"
      /\ last_status = 0
      /\ order = <<>>
      /\ crossed = FALSE
      /\ result = [t \in Thr |-> PR!NoResult]
  BY DEF PR!Init
<1>2. ProcessType
  <2>1. kid \in [Child -> [st : {"none", "run", "dead", "gone"}, code : 0 .. 1]]
    BY <1>1
  <2>2. /\ thr \in [Thr -> [op : {"idle", "system"}, pid : Child \cup {PR!Nobody}, saved : Handlers]]
        /\ \A t \in Thr : thr[t].op # "system"
    BY <1>1 DEF PR!Idle, Handlers
  <2>3. result \in [Thr -> [pid : Child \cup {PR!Nobody}, ok : BOOLEAN]]
    BY <1>1 DEF PR!NoResult
  <2>4. handler \in Handlers /\ crossed \in BOOLEAN
    BY <1>1 DEF Handlers
  <2>5. last_status \in 0 .. 1
    BY <1>1
  <2> QED
    BY <2>1, <2>2, <2>3, <2>4, <2>5 DEF ProcessType
<1>3. Answered
  BY <1>1 DEF Answered, PR!NoResult
<1>4. Nested
  BY <1>1, EmptySeq DEF Nested, PR!Idle
<1> QED
  BY <1>2, <1>3, <1>4 DEF ProcessInv

\* A child that can be started is there.
LEMMA NewChild == ASSUME PR!Free # {} PROVE PR!New \in Child /\ kid[PR!New].st = "none"
BY DEF PR!Free, PR!New

\* The thread that came last leaves the others as they stood.
LEMMA LastLeaves ==
  ASSUME NEW A, NEW s \in Seq(A), NEW t \in A, s # <<>>, s[Len(s)] = t,
         \A i, j \in 1 .. Len(s) : s[i] = s[j] => i = j,
         NEW i, i = CHOOSE k \in DOMAIN s : s[k] = t
  PROVE  LET r == PR!RemoveAt(s, i)
         IN  /\ r \in Seq(A) /\ Len(r) = Len(s) - 1
             /\ \A j \in 1 .. Len(r) : r[j] = s[j]
<1>1. Len(s) \in Nat /\ DOMAIN s = 1 .. Len(s) /\ Len(s) >= 1
  BY LenProperties, EmptySeq
<1>2. i = Len(s)
  <2>1. \E k \in DOMAIN s : s[k] = t
    BY <1>1
  <2>2. i \in DOMAIN s /\ s[i] = t
    BY <2>1
  <2> QED
    BY <2>2, <1>1
<1>3. /\ SubSeq(s, 1, i - 1) \in Seq(A) /\ Len(SubSeq(s, 1, i - 1)) = Len(s) - 1
      /\ \A j \in 1 .. Len(s) - 1 : SubSeq(s, 1, i - 1)[j] = s[j]
  BY <1>1, <1>2, SubSeqProperties
<1>4. SubSeq(s, i + 1, Len(s)) = <<>>
  BY <1>1, <1>2, SubSeqEmpty
<1>5. PR!RemoveAt(s, i) = SubSeq(s, 1, i - 1)
  BY <1>3, <1>4, ConcatEmptySeq DEF PR!RemoveAt
<1> QED
  BY <1>3, <1>5

\* Every step keeps the types.
LEMMA ProcessTypeStep == ASSUME ProcessType, [PR!Next]_prvars PROVE ProcessType'
<1> USE DEF ProcessType
<1>1. CASE PR!f_fork
  BY <1>1, NewChild DEF PR!f_fork
<1>2. CASE PR!f_system
  <2>1. PICK t \in Thr :
          /\ PR!Free # {}
          /\ kid' = [kid EXCEPT ![PR!New].st = "run"]
          /\ thr' = [thr EXCEPT ![t] = [op |-> "system", pid |-> PR!New, saved |-> handler]]
          /\ handler' = "ign"
          /\ UNCHANGED <<last_status, crossed, result>>
    BY <1>2 DEF PR!f_system
  <2>2. PR!New \in Child
    BY <2>1, NewChild
  <2>3. kid' \in [Child -> [st : {"none", "run", "dead", "gone"}, code : 0 .. 1]]
    BY <2>1, <2>2
  <2>4. /\ thr' \in [Thr -> [op : {"idle", "system"}, pid : Child \cup {PR!Nobody}, saved : Handlers]]
        /\ \A u \in Thr : thr'[u].op = "system" => thr'[u].pid \in Child
    BY <2>1, <2>2
  <2> QED
    BY <2>1, <2>3, <2>4 DEF Handlers
<1>3. ASSUME NEW k \in Child, PR!Reap(k)
      PROVE  /\ kid' \in [Child -> [st : {"none", "run", "dead", "gone"}, code : 0 .. 1]]
             /\ last_status' \in 0 .. 1
  BY <1>3 DEF PR!Reap
<1>4. ASSUME NEW t \in Thr, PR!Leave(t)
      PROVE  /\ thr' \in [Thr -> [op : {"idle", "system"}, pid : Child \cup {PR!Nobody}, saved : Handlers]]
             /\ \A u \in Thr : thr'[u].op = "system" => thr'[u].pid \in Child
  BY <1>4 DEF PR!Leave, PR!Idle, Handlers
<1>5. CASE PR!rb_syswait
  <2>1. PICK t \in Thr :
          /\ thr[t].op = "system" /\ PR!Reap(thr[t].pid) /\ PR!Leave(t)
          /\ handler' = thr[t].saved
          /\ crossed' = (crossed \/ PR!Last(order) # t)
          /\ result' = [result EXCEPT ![t] = [pid |-> thr[t].pid, ok |-> last_status' = 0]]
    BY <1>5 DEF PR!rb_syswait
  <2>2. thr[t].pid \in Child
    BY <2>1
  <2>3. handler' \in Handlers /\ crossed' \in BOOLEAN
    BY <2>1
  <2>4. result' \in [Thr -> [pid : Child \cup {PR!Nobody}, ok : BOOLEAN]]
    BY <2>1, <2>2
  <2> QED
    BY <2>1, <2>2, <2>3, <2>4, <1>3, <1>4
<1>6. CASE PR!rb_syswait_fails
  BY <1>6, <1>4 DEF PR!rb_syswait_fails
<1>7. CASE PR!f_waitpid \/ PR!f_wait_returns
  BY <1>7, <1>3 DEF PR!f_waitpid, PR!f_wait_returns
<1>8. CASE PR!f_wait \/ PR!kid_exit
  BY <1>8 DEF PR!f_wait, PR!kid_exit
<1>9. CASE UNCHANGED prvars
  BY <1>9 DEF prvars
<1> QED
  BY <1>1, <1>2, <1>5, <1>6, <1>7, <1>8, <1>9 DEF PR!Next

\* The code of a child that has gone stays, and what has been answered stays true.
LEMMA AnsweredStep ==
  ASSUME ProcessType, Answered, [PR!Next]_prvars PROVE Answered'
<1> USE DEF ProcessType
<1>1. ASSUME NEW k \in Child, kid[k].st = "gone" PROVE kid'[k] = kid[k]
  <2>1. CASE PR!f_fork \/ PR!f_system
    BY <1>1, <2>1, NewChild DEF PR!f_fork, PR!f_system
  <2>2. CASE PR!rb_syswait
    BY <1>1, <2>2 DEF PR!rb_syswait, PR!Reap
  <2>3. CASE PR!f_waitpid \/ PR!f_wait_returns \/ PR!kid_exit
    BY <1>1, <2>3 DEF PR!f_waitpid, PR!f_wait_returns, PR!kid_exit, PR!Reap
  <2>4. CASE PR!rb_syswait_fails \/ PR!f_wait \/ UNCHANGED prvars
    BY <2>4 DEF PR!rb_syswait_fails, PR!f_wait, prvars
  <2> QED
    BY <2>1, <2>2, <2>3, <2>4 DEF PR!Next
<1>2. CASE UNCHANGED result
  BY <1>1, <1>2 DEF Answered
<1>3. CASE PR!rb_syswait
  <2>1. PICK t \in Thr :
          /\ thr[t].op = "system" /\ PR!Reap(thr[t].pid)
          /\ result' = [result EXCEPT ![t] = [pid |-> thr[t].pid, ok |-> last_status' = 0]]
    BY <1>3 DEF PR!rb_syswait
  <2>2. /\ thr[t].pid \in Child
        /\ kid'[thr[t].pid].st = "gone" /\ kid'[thr[t].pid].code = kid[thr[t].pid].code
        /\ last_status' = kid[thr[t].pid].code
    BY <2>1 DEF PR!Reap
  <2>3. result'[t].pid = thr[t].pid /\ result'[t].ok = (last_status' = 0)
    BY <2>1
  <2>4. \A u \in Thr \ {t} : result'[u] = result[u]
    BY <2>1
  <2>5. result'[t].ok <=> kid'[thr[t].pid].code = 0
    BY <2>2, <2>3
  <2> QED
    BY <2>2, <2>3, <2>4, <2>5, <1>1 DEF Answered
<1> QED
  BY <1>2, <1>3 DEF PR!Next, PR!f_fork, PR!f_system, PR!rb_syswait_fails, PR!f_waitpid, PR!f_wait,
     PR!f_wait_returns, PR!kid_exit, prvars

\* Every step keeps the handlers as they were saved.
LEMMA NestedStep == ASSUME ProcessType, Nested, [PR!Next]_prvars PROVE Nested'
<1>1. CASE UNCHANGED <<thr, handler, order, crossed>>
  BY <1>1 DEF Nested
<1>2. CASE PR!f_system
  <2>1. PICK t \in Thr :
          /\ thr[t] = PR!Idle
          /\ thr' = [thr EXCEPT ![t] = [op |-> "system", pid |-> PR!New, saved |-> handler]]
          /\ handler' = "ign" /\ order' = Append(order, t) /\ crossed' = crossed
    BY <1>2 DEF PR!f_system, PR!Runs
  <2> SUFFICES ASSUME ~crossed PROVE Nested'
    BY <2>1 DEF Nested
  <2>2. order \in Seq(Thr) /\ Len(order) \in Nat
    BY LenProperties DEF Nested
  <2>3. /\ order' \in Seq(Thr) /\ Len(order') = Len(order) + 1
        /\ order'[Len(order) + 1] = t
        /\ \A i \in 1 .. Len(order) : order'[i] = order[i]
    BY <2>1, <2>2, AppendProperties
  <2>4. \A i \in 1 .. Len(order) : order[i] \in Thr /\ order[i] # t
    BY <2>1, <2>2, ElementOfSeq DEF Nested, PR!Idle
  <2>5. /\ thr'[t].op = "system" /\ thr'[t].saved = handler
        /\ \A u \in Thr \ {t} : thr'[u] = thr[u]
    BY <2>1 DEF ProcessType
  <2>6. \A i, j \in 1 .. Len(order') : order'[i] = order'[j] => i = j
    BY <2>2, <2>3, <2>4 DEF Nested
  <2>7. ASSUME NEW i \in 1 .. Len(order')
        PROVE  /\ thr'[order'[i]].op = "system"
               /\ i = 1 => thr'[order'[i]].saved = "own"
               /\ i # 1 => thr'[order'[i]].saved = "ign"
    <3>1. CASE i = Len(order) + 1
      BY <3>1, <2>2, <2>3, <2>5 DEF Nested
    <3>2. CASE i # Len(order) + 1
      <4>1. i \in 1 .. Len(order)
        BY <3>2, <2>2, <2>3
      <4> QED
        BY <4>1, <2>3, <2>4, <2>5 DEF Nested
    <3> QED
      BY <3>1, <3>2
  <2>8. ASSUME NEW u \in Thr, thr'[u].op = "system" PROVE \E i \in 1 .. Len(order') : order'[i] = u
    <3>1. CASE u = t
      BY <3>1, <2>2, <2>3
    <3>2. CASE u # t
      <4>1. PICK i \in 1 .. Len(order) : order[i] = u
        BY <2>5, <2>8, <3>2 DEF Nested
      <4> QED
        BY <4>1, <2>2, <2>3
    <3> QED
      BY <3>1, <3>2
  <2>9. handler' = "ign" /\ Len(order') # 0
    BY <2>1, <2>2, <2>3
  <2> QED
    BY <2>3, <2>6, <2>7, <2>8, <2>9 DEF Nested
<1>3. CASE PR!rb_syswait
  <2>1. PICK t \in Thr :
          /\ thr[t].op = "system" /\ PR!Leave(t)
          /\ handler' = thr[t].saved
          /\ crossed' = (crossed \/ PR!Last(order) # t)
    BY <1>3 DEF PR!rb_syswait
  <2> SUFFICES ASSUME ~crossed' PROVE Nested'
    BY DEF Nested
  <2>2. ~crossed /\ order[Len(order)] = t
    BY <2>1 DEF PR!Last, ProcessType
  <2>3. order \in Seq(Thr) /\ Len(order) \in Nat
    BY <2>2, LenProperties DEF Nested
  <2>4. Len(order) >= 1 /\ order # <<>>
    <3>1. PICK i \in 1 .. Len(order) : order[i] = t
      BY <2>1, <2>2 DEF Nested
    <3> QED
      BY <3>1, <2>3, EmptySeq
  <2>5. PICK i : i = (CHOOSE k \in DOMAIN order : order[k] = t) /\ order' = PR!RemoveAt(order, i)
    BY <2>1 DEF PR!Leave
  <2>6. \A j, k \in 1 .. Len(order) : order[j] = order[k] => j = k
    BY <2>2 DEF Nested
  <2>7. /\ order' \in Seq(Thr) /\ Len(order') = Len(order) - 1
        /\ \A j \in 1 .. Len(order') : order'[j] = order[j]
    BY <2>2, <2>3, <2>4, <2>5, <2>6, LastLeaves
  <2>8. thr' = [thr EXCEPT ![t] = PR!Idle]
    BY <2>1 DEF PR!Leave
  <2>9. /\ thr'[t].op # "system" /\ \A u \in Thr \ {t} : thr'[u] = thr[u]
    BY <2>8 DEF ProcessType, PR!Idle
  <2>10. \A j \in 1 .. Len(order') : order'[j] = order[j] /\ order[j] \in Thr /\ order[j] # t
    BY <2>2, <2>3, <2>4, <2>6, <2>7, ElementOfSeq
  <2>11. \A j, k \in 1 .. Len(order') : order'[j] = order'[k] => j = k
    BY <2>6, <2>7, <2>3, <2>4
  <2>12. \A j \in 1 .. Len(order') :
           /\ thr'[order'[j]].op = "system"
           /\ j = 1 => thr'[order'[j]].saved = "own"
           /\ j # 1 => thr'[order'[j]].saved = "ign"
    <3>1. \A j \in 1 .. Len(order) :
            /\ thr[order[j]].op = "system"
            /\ j = 1 => thr[order[j]].saved = "own"
            /\ j # 1 => thr[order[j]].saved = "ign"
      BY <2>2 DEF Nested
    <3>2. \A j \in 1 .. Len(order') : j \in 1 .. Len(order) /\ thr'[order'[j]] = thr[order[j]]
      BY <2>3, <2>7, <2>9, <2>10
    <3> QED
      BY <3>1, <3>2
  <2>13. ASSUME NEW u \in Thr, thr'[u].op = "system" PROVE \E j \in 1 .. Len(order') : order'[j] = u
    <3>1. u # t /\ thr[u].op = "system"
      BY <2>13, <2>9
    <3>2. PICK j \in 1 .. Len(order) : order[j] = u
      BY <3>1, <2>2 DEF Nested
    <3> QED
      BY <3>1, <3>2, <2>2, <2>3, <2>4, <2>7
  <2>14. (Len(order') = 0 => handler' = "own") /\ (Len(order') # 0 => handler' = "ign")
    <3>1. Len(order) \in 1 .. Len(order)
      BY <2>3, <2>4
    <3>2. (Len(order) = 1 => thr[t].saved = "own") /\ (Len(order) # 1 => thr[t].saved = "ign")
      BY <2>2, <3>1 DEF Nested
    <3> QED
      BY <3>2, <2>1, <2>3, <2>4, <2>7
  <2> QED
    BY <2>7, <2>11, <2>12, <2>13, <2>14 DEF Nested
<1>4. CASE PR!rb_syswait_fails
  BY <1>4 DEF PR!rb_syswait_fails, Nested
<1> QED
  BY <1>1, <1>2, <1>3, <1>4 DEF PR!Next, PR!f_fork, PR!f_waitpid, PR!f_wait,
     PR!f_wait_returns, PR!kid_exit, prvars

\* What the invariant says of system() is what the run checks.
LEMMA ProcessOwn == ASSUME ProcessInv PROVE PR!SystemOwn
<1>1. \A t \in Thr : result[t].pid # PR!Nobody => (result[t].ok <=> kid[result[t].pid].code = 0)
  BY DEF ProcessInv, Answered
<1>2. ~crossed => (order = <<>> <=> Len(order) = 0)
  BY EmptySeq DEF ProcessInv, Nested
<1> QED
  BY <1>1, <1>2 DEF ProcessInv, Nested, PR!SystemOwn

\* system() returns the status of its own child whatever other threads start, wait
\* for and collect meanwhile, and SIGINT is ignored while one waits and not after,
\* unless two crossed or one failed (process.c: rb_syswait, f_system, rb_waitpid).
THEOREM ProcessSystemOwn == Spec => []SystemOwn
<1> DEFINE Inv == which = "Process" => ProcessInv
<1>1. Init => Inv
  BY ProcessInit DEF Init
<1>2. Inv /\ [Next]_vars => Inv'
  <2> SUFFICES ASSUME Inv, [Next]_vars, which' = "Process" PROVE ProcessInv'
    OBVIOUS
  <2>1. which = "Process" /\ [PR!Next]_prvars
    BY DEF Next, vars, prvars
  <2> QED
    BY <2>1, ProcessTypeStep, AnsweredStep, NestedStep DEF ProcessInv
<1>3. Inv => SystemOwn
  BY ProcessOwn DEF SystemOwn
<1> QED
  BY <1>1, <1>2, <1>3, PTL DEF Spec

-----------------------------------------------------------------------------
(***************************************************************************)
(* The settings a Regexp is compiled under (re.c).                         *)
(***************************************************************************)

\* Character codes; the program starts with one of them.
Codes == Kcode \cup {"EUC"}
RegexpObject ==
  [src : Pattern, ign : BOOLEAN, fixed : BOOLEAN, kcode : Codes, translate : BOOLEAN,
   broken : BOOLEAN, code : [fold : BOOLEAN, kcode : Codes]]

\* A pattern is compiled for what its fields translate and kcode say.
AsSaid(r) == ~r.broken => r.code = [fold |-> r.translate, kcode |-> r.kcode]

\* The inductive invariant.
RegexpInv ==
  /\ ignorecase \in BOOLEAN
  /\ reg_kcode \in Codes
  /\ options = reg_kcode
  /\ regs \in Seq(RegexpObject)
  /\ \A i \in 1 .. Len(regs) : AsSaid(regs[i])
  /\ backref # RX!Nil /\ ~backref.broken => backref.code = backref.wanted

\* There is no pattern at first.
LEMMA RegexpInit == ASSUME RX!Init PROVE RegexpInv
<1>1. /\ ignorecase = FALSE
      /\ reg_kcode = "EUC"
      /\ options = "EUC"
      /\ regs = <<>>
      /\ backref = RX!Nil
  BY DEF RX!Init
<1>2. regs \in Seq(RegexpObject) /\ Len(regs) = 0
  BY <1>1, EmptySeq
<1>3. reg_kcode \in Codes /\ options = reg_kcode
  BY <1>1 DEF Codes
<1>4. ignorecase \in BOOLEAN
  BY <1>1
<1>5. \A i \in 1 .. Len(regs) : AsSaid(regs[i])
  BY <1>2
<1> QED
  BY <1>1, <1>2, <1>3, <1>4, <1>5 DEF RegexpInv

\* A new pattern is compiled under the settings that it asks for or that are there.
LEMMA NewPattern ==
  ASSUME RegexpInv, NEW src \in Pattern, NEW ign \in BOOLEAN, NEW code \in Codes \cup {"none"},
         RX!reg_new_1(src, ign, code), UNCHANGED <<ignorecase, reg_kcode, backref>>
  PROVE  RegexpInv'
<1>1. options' = reg_kcode'
  BY DEF RX!reg_new_1
<1>2. CASE regs' = regs
  BY <1>1, <1>2 DEF RegexpInv
<1>3. CASE regs' = Append(regs, RX!Made(src, ign, code))
  <2> DEFINE r == RX!Made(src, ign, code)
  <2>1. reg_kcode \in Codes /\ options = reg_kcode
    BY DEF RegexpInv
  <2>2. PICK c : c = IF code = "none" THEN reg_kcode ELSE code
    OBVIOUS
  <2>3. c \in Codes
    BY <2>1, <2>2
  <2>4. r = [src |-> src, ign |-> ign, fixed |-> code # "none", kcode |-> c, translate |-> ign,
             broken |-> FALSE, code |-> [fold |-> ign, kcode |-> c]]
    BY <2>1, <2>2 DEF RX!Made
  <2>5. r \in RegexpObject /\ AsSaid(r)
    BY <2>3, <2>4 DEF RegexpObject, AsSaid
  <2> HIDE DEF r
  <2>6. regs \in Seq(RegexpObject) /\ Len(regs) \in Nat
    BY LenProperties DEF RegexpInv
  <2>7. /\ regs' \in Seq(RegexpObject) /\ Len(regs') = Len(regs) + 1
        /\ regs'[Len(regs) + 1] = r
        /\ \A i \in 1 .. Len(regs) : regs'[i] = regs[i]
    BY <1>3, <2>5, <2>6, AppendProperties DEF r
  <2>8. ASSUME NEW i \in 1 .. Len(regs') PROVE AsSaid(regs'[i])
    <3>1. CASE i = Len(regs) + 1
      BY <3>1, <2>5, <2>7
    <3>2. CASE i # Len(regs) + 1
      <4>1. i \in 1 .. Len(regs) /\ regs'[i] = regs[i]
        BY <3>2, <2>6, <2>7
      <4>2. AsSaid(regs[i])
        BY <4>1 DEF RegexpInv
      <4> QED
        BY <4>1, <4>2
    <3> QED
      BY <3>1, <3>2
  <2> QED
    BY <1>1, <2>7, <2>8 DEF RegexpInv
<1> QED
  BY <1>2, <1>3 DEF RX!reg_new_1

\* A pattern that is used is the one that was compiled for the settings wanted.
LEMMA PatternUsed ==
  ASSUME NEW r \in RegexpObject, AsSaid(r), ignorecase \in BOOLEAN, reg_kcode \in Codes,
         NEW r2, r2 = IF RX!NeedRecompile(r) THEN RX!Refitted(r) ELSE r
  PROVE  /\ r2 \in RegexpObject /\ AsSaid(r2)
         /\ ~r2.broken => r2.code = RX!Wanted(r)
<1>1. PICK fold, kcode : fold = (ignorecase \/ r.ign) /\ kcode = IF r.fixed THEN r.kcode ELSE reg_kcode
  OBVIOUS
<1>2. RX!Wanted(r) = [fold |-> fold, kcode |-> kcode]
  BY <1>1 DEF RX!Wanted
<1>3. fold \in BOOLEAN /\ kcode \in Codes
  BY <1>1 DEF RegexpObject
<1>4. CASE ~RX!NeedRecompile(r)
  <2>1. r2 = r
    BY <1>4
  <2>2. r.translate = RX!Wanted(r).fold /\ (r.fixed \/ r.kcode = reg_kcode)
    BY <1>4 DEF RX!NeedRecompile
  <2>3. r.translate = fold
    BY <2>2, <1>2
  <2>4. r.kcode = kcode
    BY <2>2, <1>1
  <2> QED
    BY <2>1, <2>3, <2>4, <1>2 DEF AsSaid
<1>5. CASE RX!NeedRecompile(r)
  <2> DEFINE w == RX!Wanted(r)
  <2>1. w \in [fold : BOOLEAN, kcode : Codes] /\ w.fold = fold /\ w.kcode = kcode
    BY <1>2, <1>3
  <2>2. w = [fold |-> w.fold, kcode |-> w.kcode]
    BY <1>2
  <2>3. r2 = RX!Refitted(r)
    BY <1>5
  <2> HIDE DEF w
  <2>4. CASE RX!Compiles(r.src, w)
    <3>1. r2 = [r EXCEPT !.translate = w.fold, !.kcode = w.kcode, !.broken = FALSE, !.code = w]
      BY <2>3, <2>4 DEF RX!Refitted, w
    <3>2. r2 \in RegexpObject /\ r2.translate = w.fold /\ r2.kcode = w.kcode /\ r2.code = w
      BY <3>1, <2>1 DEF RegexpObject
    <3> QED
      BY <3>2, <2>2 DEF AsSaid, w
  <2>5. CASE ~RX!Compiles(r.src, w)
    <3>1. r2 = [r EXCEPT !.translate = w.fold, !.kcode = w.kcode, !.broken = TRUE, !.code = r.code]
      BY <2>3, <2>5 DEF RX!Refitted, w
    <3>2. r2 \in RegexpObject /\ r2.broken
      BY <3>1, <2>1 DEF RegexpObject
    <3> QED
      BY <3>2 DEF AsSaid
  <2> QED
    BY <2>4, <2>5
<1> QED
  BY <1>4, <1>5

\* Every step keeps the settings of the patterns.
LEMMA RegexpStep == ASSUME RegexpInv, [RX!Next]_rxvars PROVE RegexpInv'
<1>1. ASSUME NEW i \in 1 .. Len(regs)
      PROVE  regs[i] \in RegexpObject /\ regs[i].src \in Pattern /\ AsSaid(regs[i])
  <2>1. regs[i] \in RegexpObject
    BY ElementOfSeq DEF RegexpInv
  <2> QED
    BY <2>1 DEF RegexpInv, RegexpObject
<1>2. DOMAIN regs = 1 .. Len(regs)
  BY LenProperties DEF RegexpInv
<1>3. CASE RX!reg_s_new
  <2>1. PICK src \in Pattern \cup {r.src : r \in {regs[i] : i \in DOMAIN regs}},
             ign \in BOOLEAN, code \in Kcode \cup {"none"} :
          RX!reg_new_1(src, ign, code) /\ UNCHANGED <<ignorecase, reg_kcode, backref>>
    BY <1>3 DEF RX!reg_s_new
  <2>2. src \in Pattern /\ code \in Codes \cup {"none"}
    BY <1>1, <1>2, <2>1 DEF Codes
  <2> QED
    BY <2>1, <2>2, NewPattern
<1>4. CASE RX!reg_clone
  <2>1. PICK i, code :
          /\ i \in DOMAIN regs
          /\ code = IF regs[i].fixed /\ ~regs[i].ign THEN regs[i].kcode ELSE "none"
          /\ RX!reg_new_1(regs[i].src, FALSE, code) /\ UNCHANGED <<ignorecase, reg_kcode, backref>>
    BY <1>4 DEF RX!reg_clone
  <2>2. regs[i].src \in Pattern /\ regs[i].kcode \in Codes
    BY <1>1, <1>2, <2>1 DEF RegexpObject
  <2>3. code \in Codes \cup {"none"}
    BY <2>1, <2>2
  <2> QED
    BY <2>1, <2>2, <2>3, NewPattern
<1>5. CASE RX!reg_regcomp
  <2>1. CASE UNCHANGED rxvars
    BY <2>1 DEF rxvars, RegexpInv
  <2>2. CASE ~(UNCHANGED rxvars)
    <3>1. PICK src \in Pattern :
            RX!reg_new_1(src, ignorecase, "none") /\ UNCHANGED <<ignorecase, reg_kcode, backref>>
      BY <1>5, <2>2 DEF RX!reg_regcomp, RX!rxvars, rxvars
    <3>2. ignorecase \in BOOLEAN
      BY DEF RegexpInv
    <3> QED
      BY <3>1, <3>2, NewPattern
  <2> QED
    BY <2>1, <2>2
<1>6. CASE RX!reg_search
  <2>1. PICK i, line, hit, r, r2, wanted :
          /\ i \in DOMAIN regs
          /\ r = regs[i]
          /\ wanted = RX!Wanted(r)
          /\ r2 = IF RX!NeedRecompile(r) THEN RX!Refitted(r) ELSE r
          /\ regs' = [regs EXCEPT ![i] = r2]
          /\ options' = reg_kcode
          /\ backref' = IF raised' THEN backref
                        ELSE IF hit THEN [text |-> line, wanted |-> wanted, code |-> r2.code,
                                          options |-> wanted.kcode, broken |-> r2.broken]
                        ELSE RX!Nil
          /\ UNCHANGED <<ignorecase, reg_kcode>>
    BY <1>6 DEF RX!reg_search
  <2>2. i \in 1 .. Len(regs) /\ r \in RegexpObject /\ AsSaid(r)
    BY <2>1, <1>1, <1>2
  <2>3. /\ r2 \in RegexpObject /\ AsSaid(r2)
        /\ ~r2.broken => r2.code = wanted
    BY <2>1, <2>2, PatternUsed DEF RegexpInv
  <2>4. /\ regs' \in Seq(RegexpObject) /\ Len(regs') = Len(regs)
        /\ \A j \in 1 .. Len(regs) : regs'[j] = IF j = i THEN r2 ELSE regs[j]
    BY <2>1, <2>2, <2>3, <1>2, ExceptSeq DEF RegexpInv
  <2>5. \A j \in 1 .. Len(regs') : AsSaid(regs'[j])
    BY <2>3, <2>4, <1>1
  <2>6. backref' # RX!Nil /\ ~backref'.broken => backref'.code = backref'.wanted
    BY <2>1, <2>3 DEF RegexpInv
  <2> QED
    BY <2>1, <2>4, <2>5, <2>6 DEF RegexpInv
<1>7. CASE RX!kcode_setter
  <2>1. reg_kcode' \in Codes /\ options' = reg_kcode' /\ UNCHANGED <<ignorecase, regs, backref>>
    BY <1>7 DEF RX!kcode_setter, Codes
  <2> QED
    BY <2>1 DEF RegexpInv
<1>8. CASE RX!IgnorecaseSet
  <2>1. ignorecase' \in BOOLEAN /\ UNCHANGED <<reg_kcode, options, regs, backref>>
    BY <1>8 DEF RX!IgnorecaseSet
  <2> QED
    BY <2>1 DEF RegexpInv
<1>9. CASE UNCHANGED rxvars
  BY <1>9 DEF rxvars, RegexpInv
<1> QED
  BY <1>3, <1>4, <1>5, <1>6, <1>7, <1>8, <1>9 DEF RX!Next

\* A pattern is run as compiled for the settings it is used under, whatever was
\* assigned to $= and $KCODE and whichever patterns were made, copied and used in
\* between (re.c: reg_new_1, reg_search, kcode_setter).
THEOREM RegexpCompiledFor == Spec => []CompiledFor
<1> DEFINE Inv == which = "Regexp" => RegexpInv
<1>1. Init => Inv
  BY RegexpInit DEF Init
<1>2. Inv /\ [Next]_vars => Inv'
  <2> SUFFICES ASSUME Inv, [Next]_vars, which' = "Regexp" PROVE RegexpInv'
    OBVIOUS
  <2>1. which = "Regexp" /\ [RX!Next]_rxvars
    BY DEF Next, vars, rxvars
  <2> QED
    BY <2>1, RegexpStep
<1>3. Inv => CompiledFor
  BY DEF CompiledFor, RX!CompiledFor, RegexpInv
<1> QED
  BY <1>1, <1>2, <1>3, PTL DEF Spec

-----------------------------------------------------------------------------
(***************************************************************************)
(* The least and the greatest element of a set of numbers, from the        *)
(* well-founded order of the library.                                      *)
(***************************************************************************)

Less == {p \in Nat \X Nat : p[1] < p[2]}

\* A set of numbers has a least one.
LEMMA LeastNumber ==
  ASSUME NEW A \in SUBSET Nat, A # {}
  PROVE  \E x \in A : \A y \in A : x <= y
<1>1. IsWellFoundedOn(Less, Nat)
  BY NatLessThanWellFounded DEF OpToRel, Less
<1>2. PICK x \in A : \A y \in A : ~ (<<y, x>> \in Less)
  BY <1>1, WFMin
<1>3. ASSUME NEW y \in A PROVE x <= y
  <2>1. x \in Nat /\ y \in Nat
    OBVIOUS
  <2>2. ~(y < x)
    BY <1>2, <2>1 DEF Less
  <2> QED
    BY <2>1, <2>2
<1> QED
  BY <1>3

\* A set of numbers up to a bound has a greatest one.
LEMMA GreatestNumber ==
  ASSUME NEW A \in SUBSET Nat, A # {}, NEW b \in Nat, \A x \in A : x <= b
  PROVE  \E x \in A : \A y \in A : x >= y
<1> DEFINE B == {c \in Nat : \A x \in A : x <= c}
<1>1. B \in SUBSET Nat /\ B # {}
  OBVIOUS
<1>2. PICK c \in B : \A d \in B : c <= d
  BY <1>1, LeastNumber
<1>3. c \in A
  <2> SUFFICES ASSUME c \notin A PROVE FALSE
    OBVIOUS
  <2>1. c \in Nat /\ \A x \in A : x \in Nat /\ x <= c /\ x # c
    OBVIOUS
  <2>2. PICK a \in A : TRUE
    OBVIOUS
  <2>3. c - 1 \in Nat /\ \A x \in A : x <= c - 1
    BY <2>1, <2>2
  <2>4. c <= c - 1
    BY <1>2, <2>3
  <2> QED
    BY <2>1, <2>4
<1> QED
  BY <1>2, <1>3

-----------------------------------------------------------------------------
(***************************************************************************)
(* The traces of a global variable (variable.c).                           *)
(***************************************************************************)

\* The nodes from h on, in a memory of nodes.
Linked(nodes, h) ==
  {x \in DOMAIN nodes : \A s \in SUBSET DOMAIN nodes :
     h \in s \cup {0} /\ (\A y \in s : nodes[y].next \in s \cup {0}) => x \in s}

\* The list from h holds the nodes in T, and the numbers fall along it.
Listed(nodes, h, T) ==
  /\ T \subseteq DOMAIN nodes
  /\ h \in T \cup {0}
  /\ \A x \in T : x <= h
  /\ \A n \in T : nodes[n].next \in T \cup {0} /\ nodes[n].next < n
  /\ \A n, x \in T : x < n => x <= nodes[n].next

\* Such a list holds no other nodes.
LEMMA ListHolds ==
  ASSUME NEW nodes, DOMAIN nodes \in SUBSET (Nat \ {0}), NEW h, NEW T, Listed(nodes, h, T)
  PROVE  Linked(nodes, h) = T
<1> DEFINE R == Linked(nodes, h)
<1>1. R \subseteq T
  BY DEF Linked, Listed
<1>2. /\ h # 0 => h \in R
      /\ \A y \in R : nodes[y].next # 0 => nodes[y].next \in R
  <2>1. h # 0 => h \in DOMAIN nodes
    BY DEF Listed
  <2>2. ASSUME NEW y \in R, nodes[y].next # 0 PROVE nodes[y].next \in R
    <3>1. nodes[y].next \in DOMAIN nodes
      BY <1>1, <2>2 DEF Listed
    <3>2. ASSUME NEW s \in SUBSET DOMAIN nodes, h \in s \cup {0},
                 \A z \in s : nodes[z].next \in s \cup {0}
          PROVE  nodes[y].next \in s
      <4>1. y \in s
        BY <3>2 DEF Linked
      <4> QED
        BY <4>1, <3>2, <2>2
    <3> QED
      BY <3>1, <3>2 DEF Linked
  <2>3. h # 0 => h \in R
    BY <2>1 DEF Linked
  <2> QED
    BY <2>2, <2>3
<1> HIDE DEF R
<1>3. ASSUME NEW m \in T, m \notin R PROVE FALSE
  <2>1. m \in Nat /\ m # 0 /\ h \in Nat /\ m <= h /\ h # 0
    BY DEF Listed
  <2> DEFINE P == {p \in R : m < p}
  <2>2. P \in SUBSET Nat /\ h \in P
    <3>1. R \subseteq Nat
      BY <1>1 DEF Listed
    <3>2. h \in R
      BY <1>2, <2>1
    <3>3. h # m
      BY <1>3, <3>2
    <3>4. m < h
      BY <2>1, <3>3
    <3> QED
      BY <3>1, <3>2, <3>4
  <2>3. PICK p \in P : \A q \in P : p <= q
    BY <2>2, LeastNumber
  <2>4. p \in R /\ p \in T /\ m < p /\ p \in Nat
    BY <1>1, <2>2
  <2>5. m <= nodes[p].next /\ nodes[p].next < p /\ nodes[p].next \in T \cup {0}
    BY <2>4 DEF Listed
  <2>6. nodes[p].next \in Nat
    BY <2>5 DEF Listed
  <2>7. nodes[p].next # 0
    BY <2>1, <2>5, <2>6
  <2>8. nodes[p].next \in R
    BY <1>2, <2>4, <2>7
  <2>9. nodes[p].next # m
    BY <2>8, <1>3
  <2>10. nodes[p].next \in P
    BY <2>1, <2>5, <2>6, <2>8, <2>9
  <2> QED
    BY <2>3, <2>4, <2>5, <2>6, <2>10
<1> QED
  BY <1>1, <1>3 DEF R

\* What a node, an entry and a walk under way are made of.
Node == [data : Cmd, next : Nat]
Entries(D) ==
  [acc : {"undef", "val", "var", "readonly"}, data : D, block_trace : BOOLEAN, trace : Nat]
Walking ==
  [var : Gvar, trace : Nat, inside : BOOLEAN, todo : SUBSET Nat, called : Seq(Nat)]

\* The nodes that each variable calls.
TraceSets == [v \in Gvar |-> Linked(node, entry[v].trace)]

\* The lists of the variables are apart from each other and from what is freed.
ListsApart ==
  /\ node \in Seq(Node) /\ freed \subseteq DOMAIN node
  /\ \E D : entry \in [Gvar -> Entries(D)]
  /\ \A v \in Gvar : Listed(node, entry[v].trace, TraceSets[v])
  /\ \A v \in Gvar : TraceSets[v] \cap freed = {}
  /\ \A v, w \in Gvar : v # w => TraceSets[v] \cap TraceSets[w] = {}

\* A walk stands on a node of its list, or on one that is freed, or has ended.  What
\* it has called lies in front of that.  Unless it is freed, what it has to call and
\* has not called is freed, or still to come in the list.
WalkOn(w, T, gone) ==
  /\ w.trace \in T \cup gone \cup {0}
  /\ w.trace # 0 => w.trace \in w.todo
  /\ \A x \in T : x <= w.trace => x \in w.todo
  /\ \A i, j \in 1 .. Len(w.called) : i < j => w.called[i] > w.called[j]
  /\ \A i \in 1 .. Len(w.called) : w.called[i] \in w.todo /\ w.called[i] >= w.trace
  /\ ~w.inside => \A i \in 1 .. Len(w.called) : w.called[i] # w.trace
  /\ w.inside => w.trace # 0 /\ \E i \in 1 .. Len(w.called) : w.called[i] = w.trace
  /\ w.trace \notin gone => \A x \in w.todo :
       \/ x \in gone
       \/ \E i \in 1 .. Len(w.called) : w.called[i] = x
       \/ x \in T /\ x <= w.trace

\* Every walk under way.
WalksOn ==
  /\ stack \in [Thr -> Seq(Walking)]
  /\ \A t \in Thr : Len(stack[t]) <= MaxNest
  /\ \A t \in Thr : \A k \in 1 .. Len(stack[t]) :
       WalkOn(stack[t][k], TraceSets[stack[t][k].var], freed)

\* A variable is blocked while there is a walk for it, and there is one at most.
Blocks ==
  /\ \A t \in Thr : \A k \in 1 .. Len(stack[t]) : entry[stack[t][k].var].block_trace
  /\ \A v \in Gvar : entry[v].block_trace =>
       \E t \in Thr : \E k \in 1 .. Len(stack[t]) : stack[t][k].var = v
  /\ \A t, u \in Thr : \A k \in 1 .. Len(stack[t]), j \in 1 .. Len(stack[u]) :
       stack[t][k].var = stack[u][j].var => t = u /\ k = j

\* The inductive invariant.
GlobalsInv == ListsApart /\ WalksOn /\ Blocks

\* Before anything is traced.
LEMMA GlobalsInit == ASSUME GV!Init PROVE GlobalsInv
<1>1. /\ node = <<>> /\ freed = {}
      /\ stack = [t \in Thr |-> <<>>]
  BY DEF GV!Init
<1> DEFINE D == {GV!nil} \cup {Shown[v] : v \in DOMAIN Shown}
<1>2. entry \in [Gvar -> Entries(D)] /\ \A v \in Gvar : entry[v].trace = 0 /\ ~entry[v].block_trace
  <2>1. ASSUME NEW v \in Gvar
        PROVE  entry[v] \in Entries(D) /\ entry[v].trace = 0 /\ ~entry[v].block_trace
    <3>1. PICK acc \in {"undef", "var", "readonly"}, data \in D : entry[v] = GV!New(acc, data)
      BY DEF GV!Init
    <3> HIDE DEF D
    <3> QED
      BY <3>1 DEF GV!New, Entries
  <2> HIDE DEF D
  <2>2. entry = [v \in Gvar |-> entry[v]]
    BY DEF GV!Init
  <2> QED
    BY <2>1, <2>2
<1>3. node \in Seq(Node) /\ DOMAIN node = {}
  BY <1>1, EmptySeq
<1>4. \A v \in Gvar : TraceSets[v] = {}
  BY <1>3 DEF TraceSets, Linked
<1>5. ListsApart
  <2>1. \A v \in Gvar : Listed(node, entry[v].trace, TraceSets[v])
    BY <1>2, <1>4 DEF Listed
  <2> HIDE DEF D
  <2> QED
    BY <1>1, <1>2, <1>3, <1>4, <2>1 DEF ListsApart
<1>6. stack \in [Thr -> Seq(Walking)] /\ \A t \in Thr : Len(stack[t]) = 0
  BY <1>1, EmptySeq
<1>7. WalksOn
  BY <1>6, ObjectsAssumption DEF WalksOn
<1>8. Blocks
  BY <1>2, <1>6 DEF Blocks
<1> QED
  BY <1>5, <1>7, <1>8 DEF GlobalsInv

\* Lists that are as Tr says are apart, and TraceSets are what Tr says.
LEMMA ListsFrom ==
  ASSUME NEW Tr, node' \in Seq(Node), freed' \subseteq DOMAIN node',
         NEW D, entry' \in [Gvar -> Entries(D)],
         \A v \in Gvar : Listed(node', entry'[v].trace, Tr[v]),
         \A v \in Gvar : Tr[v] \cap freed' = {},
         \A v, w \in Gvar : v # w => Tr[v] \cap Tr[w] = {}
  PROVE  ListsApart' /\ \A v \in Gvar : TraceSets'[v] = Tr[v]
<1>1. DOMAIN node' \in SUBSET (Nat \ {0})
  BY LenProperties
<1>2. \A v \in Gvar : TraceSets'[v] = Tr[v]
  <2>1. ASSUME NEW v \in Gvar PROVE TraceSets'[v] = Tr[v]
    <3>1. Linked(node', entry'[v].trace) = Tr[v]
      BY <1>1, ListHolds
    <3> QED
      BY <3>1 DEF TraceSets
  <2> QED
    BY <2>1
<1>3. /\ \A v \in Gvar : Listed(node', entry'[v].trace, TraceSets'[v])
      /\ \A v \in Gvar : TraceSets'[v] \cap freed' = {}
      /\ \A v, w \in Gvar : v # w => TraceSets'[v] \cap TraceSets'[w] = {}
  BY <1>2
<1> QED
  BY <1>2, <1>3 DEF ListsApart

\* What leaves the lists as they are.
LEMMA ListsSame ==
  ASSUME ListsApart, UNCHANGED <<node, freed>>, NEW D, entry' \in [Gvar -> Entries(D)],
         \A v \in Gvar : entry'[v].trace = entry[v].trace
  PROVE  ListsApart' /\ \A v \in Gvar : TraceSets'[v] = TraceSets[v]
<1> DEFINE Tr == TraceSets
<1>1. \A v \in Gvar : Listed(node', entry'[v].trace, Tr[v])
  BY DEF ListsApart
<1>2. /\ node' \in Seq(Node) /\ freed' \subseteq DOMAIN node'
      /\ \A v \in Gvar : Tr[v] \cap freed' = {}
      /\ \A v, w \in Gvar : v # w => Tr[v] \cap Tr[w] = {}
  BY DEF ListsApart
<1> HIDE DEF Tr
<1>3. ListsApart' /\ \A v \in Gvar : TraceSets'[v] = Tr[v]
  BY <1>1, <1>2, ListsFrom
<1> QED
  BY <1>3 DEF Tr

\* A walk goes on where traces are added in front of the list, or freed.
LEMMA WalkKept ==
  ASSUME NEW w \in Walking, NEW T \in SUBSET Nat, NEW gone, WalkOn(w, T, gone),
         NEW T1 \in SUBSET Nat, NEW gone1, gone \subseteq gone1, T \subseteq T1 \cup gone1,
         \A x \in T1 \ T : x > w.trace
  PROVE  WalkOn(w, T1, gone1)
<1>1. w.trace \in Nat
  BY DEF Walking
<1>2. w.trace \in T1 \cup gone1 \cup {0}
  BY DEF WalkOn
<1>3. ASSUME NEW x \in T1, x <= w.trace PROVE x \in w.todo
  <2>1. x \in T
    BY <1>1, <1>3
  <2> QED
    BY <2>1, <1>3 DEF WalkOn
<1>4. ASSUME w.trace \notin gone1, NEW x \in w.todo
      PROVE  \/ x \in gone1
             \/ \E i \in 1 .. Len(w.called) : w.called[i] = x
             \/ x \in T1 /\ x <= w.trace
  BY <1>4 DEF WalkOn
<1> QED
  BY <1>2, <1>3, <1>4 DEF WalkOn

\* Every walk goes on, where the stacks stay.
LEMMA WalksKept ==
  ASSUME ListsApart, ListsApart', WalksOn, UNCHANGED stack, freed \subseteq freed',
         \A v \in Gvar : TraceSets[v] \subseteq TraceSets'[v] \cup freed',
         \A v \in Gvar, x \in Nat : x \in TraceSets'[v] \ TraceSets[v] => x \notin DOMAIN node
  PROVE  WalksOn'
<1>1. ASSUME NEW t \in Thr, NEW k \in 1 .. Len(stack[t])
      PROVE  WalkOn(stack[t][k], TraceSets'[stack[t][k].var], freed')
  <2>1. PICK w \in Walking : w = stack[t][k]
    BY DEF WalksOn
  <2>2. PICK v \in Gvar : v = w.var
    BY DEF Walking
  <2>3. WalkOn(w, TraceSets[v], freed)
    BY <2>1, <2>2 DEF WalksOn
  <2>4. /\ TraceSets[v] \in SUBSET DOMAIN node
        /\ TraceSets'[v] \in SUBSET DOMAIN node'
        /\ DOMAIN node = 1 .. Len(node) /\ Len(node) \in Nat
        /\ DOMAIN node' \in SUBSET Nat
    <3>1. Listed(node, entry[v].trace, TraceSets[v]) /\ Listed(node', entry'[v].trace, TraceSets'[v])
      BY DEF ListsApart
    <3>2. node \in Seq(Node) /\ node' \in Seq(Node)
      BY DEF ListsApart
    <3> QED
      BY <3>1, <3>2, LenProperties DEF Listed
  <2>5. w.trace \in DOMAIN node \cup {0}
    BY <2>3, <2>4 DEF WalkOn, ListsApart
  <2>6. ASSUME NEW x \in TraceSets'[v] \ TraceSets[v] PROVE x > w.trace
    <3>1. x \in Nat /\ x \notin DOMAIN node /\ x \in DOMAIN node' /\ x # 0
      BY <2>4, LenProperties DEF ListsApart
    <3> QED
      BY <3>1, <2>4, <2>5
  <2>7. WalkOn(w, TraceSets'[v], freed')
    BY <2>3, <2>4, <2>6, WalkKept
  <2> QED
    BY <2>1, <2>2, <2>7
<1> QED
  BY <1>1 DEF WalksOn

\* One stack is changed, and what is on it goes on.
LEMMA StackPut ==
  ASSUME WalksOn, UNCHANGED freed, \A v \in Gvar : TraceSets'[v] = TraceSets[v],
         NEW t \in Thr, NEW s \in Seq(Walking), stack' = [stack EXCEPT ![t] = s], Len(s) <= MaxNest,
         \A k \in 1 .. Len(s) : WalkOn(s[k], TraceSets[s[k].var], freed)
  PROVE  WalksOn'
<1>1. /\ stack' \in [Thr -> Seq(Walking)] /\ stack'[t] = s
      /\ \A u \in Thr : u # t => stack'[u] = stack[u]
  BY DEF WalksOn
<1>2. ASSUME NEW u \in Thr
      PROVE  /\ Len(stack'[u]) <= MaxNest
             /\ \A k \in 1 .. Len(stack'[u]) :
                  WalkOn(stack'[u][k], TraceSets'[stack'[u][k].var], freed')
  <2>1. ASSUME NEW k \in 1 .. Len(stack'[u])
        PROVE  WalkOn(stack'[u][k], TraceSets[stack'[u][k].var], freed)
    BY <1>1 DEF WalksOn
  <2>2. ASSUME NEW k \in 1 .. Len(stack'[u]) PROVE stack'[u][k].var \in Gvar
    <3>1. stack'[u][k] \in Walking
      BY <1>1
    <3> QED
      BY <3>1 DEF Walking
  <2>3. Len(stack'[u]) <= MaxNest
    BY <1>1 DEF WalksOn
  <2> QED
    BY <2>1, <2>2, <2>3
<1> QED
  BY <1>1, <1>2 DEF WalksOn

\* A thread's innermost walk, and the stack without it or with another in its place.
LEMMA TopWalk ==
  ASSUME NEW s \in Seq(Walking), s # <<>>
  PROVE  /\ Len(s) \in Nat \ {0} /\ s[Len(s)] \in Walking
         /\ GV!Front(s) \in Seq(Walking) /\ Len(GV!Front(s)) = Len(s) - 1
         /\ \A k \in 1 .. Len(s) - 1 : GV!Front(s)[k] = s[k]
         /\ \A w \in Walking :
              /\ Append(GV!Front(s), w) \in Seq(Walking) /\ Len(Append(GV!Front(s), w)) = Len(s)
              /\ Append(GV!Front(s), w)[Len(s)] = w
              /\ \A k \in 1 .. Len(s) - 1 : Append(GV!Front(s), w)[k] = s[k]
<1>1. Len(s) \in Nat \ {0} /\ s[Len(s)] \in Walking
  BY EmptySeq, ElementOfSeq
<1>2. /\ GV!Front(s) \in Seq(Walking) /\ Len(GV!Front(s)) = Len(s) - 1
      /\ \A k \in 1 .. Len(s) - 1 : GV!Front(s)[k] = s[k]
  <2>1. PICK n \in Nat : n = Len(s) - 1
    BY <1>1
  <2>2. \A i \in 1 .. n : s[i] \in Walking
    BY <1>1, <2>1
  <2>3. /\ SubSeq(s, 1, n) \in Seq(Walking) /\ Len(SubSeq(s, 1, n)) = n
        /\ \A i \in 1 .. n : SubSeq(s, 1, n)[i] = s[i]
    <3>1. /\ SubSeq(s, 1, n) \in Seq(Walking)
          /\ Len(SubSeq(s, 1, n)) = IF 1 <= n THEN n - 1 + 1 ELSE 0
          /\ \A i \in 1 .. n - 1 + 1 : SubSeq(s, 1, n)[i] = s[1 + i - 1]
      BY <2>2, SubSeqProperties
    <3>2. n - 1 + 1 = n /\ \A i \in 1 .. n : 1 + i - 1 = i
      OBVIOUS
    <3> QED
      BY <3>1, <3>2
  <2> QED
    BY <2>1, <2>3 DEF GV!Front
<1>3. ASSUME NEW w \in Walking, NEW f \in Seq(Walking), Len(f) = Len(s) - 1,
             \A k \in 1 .. Len(s) - 1 : f[k] = s[k]
      PROVE  /\ Append(f, w) \in Seq(Walking) /\ Len(Append(f, w)) = Len(s)
             /\ Append(f, w)[Len(s)] = w
             /\ \A k \in 1 .. Len(s) - 1 : Append(f, w)[k] = s[k]
  BY <1>1, <1>3, AppendProperties
<1> QED
  BY <1>1, <1>2, <1>3

\* The walks that are under way.
LEMMA StackTypes ==
  ASSUME WalksOn, NEW t \in Thr
  PROVE  /\ stack[t] \in Seq(Walking) /\ Len(stack[t]) \in Nat
         /\ \A k \in 1 .. Len(stack[t]) : stack[t][k] \in Walking /\ stack[t][k].var \in Gvar
<1>1. stack[t] \in Seq(Walking)
  BY DEF WalksOn
<1>2. Len(stack[t]) \in Nat
  BY <1>1, LenProperties
<1>3. ASSUME NEW k \in 1 .. Len(stack[t]) PROVE stack[t][k] \in Walking /\ stack[t][k].var \in Gvar
  <2>1. stack[t][k] \in Walking
    BY <1>1, ElementOfSeq
  <2> QED
    BY <2>1 DEF Walking
<1> QED
  BY <1>1, <1>2, <1>3

\* A variable of the program, as the entry of it says.
LEMMA EntryTypes ==
  ASSUME NEW D, entry \in [Gvar -> Entries(D)], NEW v \in Gvar
  PROVE  /\ entry[v] \in Entries(D) /\ entry[v].block_trace \in BOOLEAN
         /\ entry[v].trace \in Nat
BY DEF Entries

\* The setters leave the traces.
LEMMA SetEntry ==
  ASSUME NEW D, entry \in [Gvar -> Entries(D)], NEW v \in Gvar, NEW x
  PROVE  \E e \in Entries(D \cup {x}) :
           /\ e = [GV!Set(v, x) EXCEPT !.block_trace = TRUE]
           /\ e.trace = entry[v].trace /\ e.block_trace
<1>1. PICK e \in Entries(D) : e = entry[v]
  OBVIOUS
<1>2. PICK f \in Entries(D \cup {x}) : f = GV!Set(v, x) /\ f.trace = e.trace
  <2>1. [e EXCEPT !.acc = "val", !.data = x] \in Entries(D \cup {x})
    BY DEF Entries
  <2>2. [e EXCEPT !.data = x] \in Entries(D \cup {x})
    BY DEF Entries
  <2>3. /\ [e EXCEPT !.acc = "val", !.data = x].trace = e.trace
        /\ [e EXCEPT !.data = x].trace = e.trace
    BY DEF Entries
  <2>4. e \in Entries(D \cup {x})
    BY DEF Entries
  <2> QED
    BY <1>1, <2>1, <2>2, <2>3, <2>4 DEF GV!Set, GV!undef_setter, GV!val_setter
<1>3. PICK g : g = [f EXCEPT !.block_trace = TRUE]
  OBVIOUS
<1>4. g \in Entries(D \cup {x}) /\ g.trace = f.trace /\ g.block_trace
  BY <1>3 DEF Entries
<1> QED
  BY <1>1, <1>2, <1>3, <1>4

\* An assignment: it blocks the traces, and starts a walk where they were not.
LEMMA GvarSetStep ==
  ASSUME GlobalsInv, NEW t \in Thr, GV!rb_gvar_set(t)
  PROVE  GlobalsInv'
<1>1. ListsApart /\ WalksOn /\ Blocks
  BY DEF GlobalsInv
<1>2. PICK v \in Gvar, x \in GV!Source :
        /\ entry' = [entry EXCEPT ![v] = [GV!Set(v, x) EXCEPT !.block_trace = TRUE]]
        /\ stack' = IF entry[v].block_trace THEN stack
                    ELSE [stack EXCEPT ![t] = Append(@, GV!Walk(v))]
  BY DEF GV!rb_gvar_set
<1>3. UNCHANGED <<node, freed>> /\ Len(stack[t]) < MaxNest
  BY DEF GV!rb_gvar_set
<1>4. PICK D : entry \in [Gvar -> Entries(D)]
  BY <1>1 DEF ListsApart
<1>5. PICK e \in Entries(D \cup {x}) :
        /\ e = [GV!Set(v, x) EXCEPT !.block_trace = TRUE]
        /\ e.trace = entry[v].trace /\ e.block_trace
  BY <1>4, SetEntry
<1>6. entry' = [entry EXCEPT ![v] = e]
  BY <1>2, <1>5
<1>7. /\ entry' \in [Gvar -> Entries(D \cup {x})]
      /\ entry'[v] = e /\ \A w \in Gvar : w # v => entry'[w] = entry[w]
  <2>1. \A w \in Gvar : entry[w] \in Entries(D \cup {x})
    BY <1>4 DEF Entries
  <2> QED
    BY <1>4, <1>6, <2>1
<1>8. \A w \in Gvar : entry'[w].trace = entry[w].trace
  BY <1>5, <1>7
<1>9. ListsApart' /\ \A w \in Gvar : TraceSets'[w] = TraceSets[w]
  <2> DEFINE D1 == D \cup {x}
  <2>1. entry' \in [Gvar -> Entries(D1)]
    BY <1>7
  <2> HIDE DEF D1
  <2> QED
    BY <1>1, <1>3, <1>8, <2>1, ListsSame
<1>10. CASE entry[v].block_trace
  <2>1. UNCHANGED stack
    BY <1>2, <1>10
  <2>2. WalksOn'
    BY <1>1, <1>3, <1>9, <2>1, WalksKept
  <2>3. \A w \in Gvar : entry'[w].block_trace <=> entry[w].block_trace
    BY <1>5, <1>7, <1>10
  <2>4. \A u \in Thr : \A k \in 1 .. Len(stack[u]) : stack[u][k].var \in Gvar
    BY <1>1, StackTypes
  <2>5. Blocks'
    BY <1>1, <2>1, <2>3, <2>4 DEF Blocks
  <2> QED
    BY <1>9, <2>2, <2>5 DEF GlobalsInv
<1>11. CASE ~entry[v].block_trace
  <2>1. PICK w : w = GV!Walk(v)
    OBVIOUS
  <2>2. GV!Traces(v) = TraceSets[v]
    BY DEF GV!Traces, GV!Chain, TraceSets, Linked
  <2>3. /\ w.var = v /\ w.trace = entry[v].trace /\ w.inside = FALSE
        /\ w.todo = TraceSets[v] /\ w.called = <<>>
    BY <2>1, <2>2 DEF GV!Walk
  <2>4. Listed(node, entry[v].trace, TraceSets[v]) /\ DOMAIN node \in SUBSET Nat
    BY <1>1, LenProperties DEF ListsApart
  <2>5. w \in Walking
    <3>1. w.trace \in Nat /\ w.todo \in SUBSET Nat
      BY <1>4, <2>3, <2>4, EntryTypes DEF Listed
    <3>2. <<>> \in Seq(Nat)
      BY EmptySeq
    <3> QED
      BY <2>1, <2>3, <3>1, <3>2 DEF Walking, GV!Walk
  <2>6. WalkOn(w, TraceSets[v], freed)
    <3>1. Len(w.called) = 0
      BY <2>3, EmptySeq
    <3> QED
      BY <2>3, <2>4, <3>1 DEF WalkOn, Listed
  <2>7. PICK s : s = Append(stack[t], w)
    OBVIOUS
  <2>8. stack[t] \in Seq(Walking) /\ Len(stack[t]) \in Nat
    BY <1>1, LenProperties DEF WalksOn
  <2>9. /\ s \in Seq(Walking) /\ Len(s) = Len(stack[t]) + 1 /\ s[Len(s)] = w
        /\ \A k \in 1 .. Len(stack[t]) : s[k] = stack[t][k]
    BY <2>5, <2>7, <2>8, AppendProperties
  <2>10. stack' = [stack EXCEPT ![t] = s]
    BY <1>2, <1>11, <2>1, <2>7
  <2>11. \A k \in 1 .. Len(s) : k = Len(s) \/ (k \in 1 .. Len(stack[t]) /\ s[k] = stack[t][k])
    BY <2>8, <2>9
  <2>12. WalksOn'
    <3>1. Len(s) <= MaxNest
      BY <1>3, <2>8, <2>9, ObjectsAssumption
    <3>2. \A k \in 1 .. Len(s) : WalkOn(s[k], TraceSets[s[k].var], freed)
      BY <1>1, <2>3, <2>6, <2>9, <2>11 DEF WalksOn
    <3>3. UNCHANGED freed
      BY <1>3
    <3> QED
      BY <1>1, <1>9, <2>9, <2>10, <3>1, <3>2, <3>3, StackPut
  <2>13. stack'[t] = s /\ \A u \in Thr : u # t => stack'[u] = stack[u]
    BY <1>1, <2>10 DEF WalksOn
  <2>14. ASSUME NEW u \in Thr, NEW k \in 1 .. Len(stack'[u])
         PROVE  \/ u = t /\ k = Len(s) /\ stack'[u][k].var = v
                \/ k \in 1 .. Len(stack[u]) /\ stack'[u][k] = stack[u][k]
                   /\ stack[u][k].var # v /\ stack[u][k].var \in Gvar
    <3>1. ASSUME k \in 1 .. Len(stack[u]) PROVE stack[u][k].var # v /\ stack[u][k].var \in Gvar
      BY <1>1, <1>11, <3>1, StackTypes DEF Blocks
    <3> QED
      BY <2>3, <2>9, <2>11, <2>13, <3>1
  <2>15. \A u \in Thr : \A k \in 1 .. Len(stack'[u]) : entry'[stack'[u][k].var].block_trace
    <3> SUFFICES ASSUME NEW u \in Thr, NEW k \in 1 .. Len(stack'[u])
                 PROVE  entry'[stack'[u][k].var].block_trace
      OBVIOUS
    <3>1. CASE u = t /\ k = Len(s) /\ stack'[u][k].var = v
      BY <1>5, <1>7, <3>1
    <3>2. CASE /\ k \in 1 .. Len(stack[u]) /\ stack'[u][k] = stack[u][k]
               /\ stack[u][k].var # v /\ stack[u][k].var \in Gvar
      <4>1. entry[stack[u][k].var].block_trace
        BY <1>1, <3>2 DEF Blocks
      <4> QED
        BY <1>7, <3>2, <4>1
    <3> QED
      BY <2>14, <3>1, <3>2
  <2>16. ASSUME NEW z \in Gvar, entry'[z].block_trace
         PROVE  \E u \in Thr : \E k \in 1 .. Len(stack'[u]) : stack'[u][k].var = z
    <3>1. CASE z = v
      <4>1. Len(s) \in 1 .. Len(stack'[t]) /\ stack'[t][Len(s)].var = v
        BY <2>3, <2>8, <2>9, <2>13
      <4> QED
        BY <3>1, <4>1
    <3>2. CASE z # v
      <4>1. PICK u \in Thr : \E k \in 1 .. Len(stack[u]) : stack[u][k].var = z
        BY <1>1, <1>7, <2>16, <3>2 DEF Blocks
      <4>2. PICK k \in 1 .. Len(stack[u]) : stack[u][k].var = z
        BY <4>1
      <4>3. k \in 1 .. Len(stack'[u]) /\ stack'[u][k] = stack[u][k]
        BY <2>8, <2>9, <2>13
      <4> QED
        BY <4>2, <4>3
    <3> QED
      BY <3>1, <3>2
  <2>17. ASSUME NEW u \in Thr, NEW z \in Thr, NEW k \in 1 .. Len(stack'[u]),
                NEW j \in 1 .. Len(stack'[z]), stack'[u][k].var = stack'[z][j].var
         PROVE  u = z /\ k = j
    <3>1. \A a, b \in Thr : \A i \in 1 .. Len(stack[a]), h \in 1 .. Len(stack[b]) :
            stack[a][i].var = stack[b][h].var => a = b /\ i = h
      BY <1>1 DEF Blocks
    <3>2. CASE stack'[u][k].var = v
      <4>1. u = t /\ k = Len(s)
        BY <2>14, <3>2
      <4>2. stack'[z][j].var = v
        BY <2>17, <3>2
      <4>3. z = t /\ j = Len(s)
        BY <2>14, <4>2
      <4> QED
        BY <4>1, <4>3
    <3>3. CASE stack'[u][k].var # v
      <4>1. k \in 1 .. Len(stack[u]) /\ stack'[u][k] = stack[u][k]
        BY <2>14, <3>3
      <4>2. j \in 1 .. Len(stack[z]) /\ stack'[z][j] = stack[z][j]
        BY <2>14, <2>17, <3>3
      <4> QED
        BY <2>17, <3>1, <4>1, <4>2
    <3> QED
      BY <3>2, <3>3
  <2>18. Blocks'
    BY <2>15, <2>16, <2>17 DEF Blocks
  <2> QED
    BY <1>9, <2>12, <2>18 DEF GlobalsInv
<1> QED
  BY <1>10, <1>11

\* The innermost walk goes on to another state, for the same variable.
LEMMA TopStep ==
  ASSUME WalksOn, UNCHANGED freed, \A v \in Gvar : TraceSets'[v] = TraceSets[v],
         NEW t \in Thr, stack[t] # <<>>, NEW w \in Walking, GV!Within(t, w),
         w.var = stack[t][Len(stack[t])].var,
         WalkOn(w, TraceSets[w.var], freed)
  PROVE  /\ WalksOn'
         /\ \A u \in Thr : Len(stack'[u]) = Len(stack[u])
         /\ \A u \in Thr : \A k \in 1 .. Len(stack[u]) : stack'[u][k].var = stack[u][k].var
<1>1. PICK s : s = Append(GV!Front(stack[t]), w)
  OBVIOUS
<1>2. stack[t] \in Seq(Walking) /\ Len(stack[t]) \in Nat /\ Len(stack[t]) <= MaxNest
  BY StackTypes DEF WalksOn
<1>3. /\ s \in Seq(Walking) /\ Len(s) = Len(stack[t]) /\ Len(s) # 0 /\ s[Len(s)] = w
      /\ \A k \in 1 .. Len(s) - 1 : s[k] = stack[t][k]
  <2>1. PICK r \in Seq(Walking) : r = stack[t] /\ r # <<>>
    BY <1>2
  <2>2. /\ Append(GV!Front(r), w) \in Seq(Walking) /\ Len(Append(GV!Front(r), w)) = Len(r)
        /\ Append(GV!Front(r), w)[Len(r)] = w
        /\ \A k \in 1 .. Len(r) - 1 : Append(GV!Front(r), w)[k] = r[k]
        /\ Len(r) # 0
    BY <2>1, TopWalk
  <2>3. s = Append(GV!Front(r), w)
    BY <1>1, <2>1
  <2> QED
    BY <2>1, <2>2, <2>3
<1>4. stack' = [stack EXCEPT ![t] = s]
  BY <1>1 DEF GV!Within
<1>5. \A k \in 1 .. Len(s) : k = Len(s) \/ (k \in 1 .. Len(s) - 1 /\ s[k] = stack[t][k])
  BY <1>2, <1>3
<1>6. ASSUME NEW k \in 1 .. Len(s) PROVE WalkOn(s[k], TraceSets[s[k].var], freed)
  <2>1. CASE k = Len(s)
    BY <1>3, <2>1
  <2>2. CASE k \in 1 .. Len(s) - 1 /\ s[k] = stack[t][k]
    <3>1. WalkOn(stack[t][k], TraceSets[stack[t][k].var], freed)
      BY <1>3 DEF WalksOn
    <3> QED
      BY <2>2, <3>1
  <2> QED
    BY <1>5, <2>1, <2>2
<1>7. WalksOn'
  <2>1. Len(s) <= MaxNest
    BY <1>2, <1>3
  <2> QED
    BY <1>3, <1>4, <1>6, <2>1, StackPut
<1>8. stack'[t] = s /\ \A u \in Thr : u # t => stack'[u] = stack[u]
  BY <1>4 DEF WalksOn
<1>9. \A k \in 1 .. Len(stack[t]) : s[k].var = stack[t][k].var
  BY <1>3, <1>5
<1> QED
  BY <1>3, <1>7, <1>8, <1>9

\* Walks for the same variables, and variables blocked as before.
LEMMA BlocksKept ==
  ASSUME WalksOn, Blocks,
         \A v \in Gvar : entry'[v].block_trace <=> entry[v].block_trace,
         \A u \in Thr : Len(stack'[u]) = Len(stack[u]),
         \A u \in Thr : \A k \in 1 .. Len(stack[u]) : stack'[u][k].var = stack[u][k].var
  PROVE  Blocks'
<1>1. \A t \in Thr : \A k \in 1 .. Len(stack'[t]) : entry'[stack'[t][k].var].block_trace
  BY StackTypes DEF Blocks
<1>2. ASSUME NEW v \in Gvar, entry'[v].block_trace
      PROVE  \E t \in Thr : \E k \in 1 .. Len(stack'[t]) : stack'[t][k].var = v
  <2>1. PICK t \in Thr : \E k \in 1 .. Len(stack[t]) : stack[t][k].var = v
    BY <1>2 DEF Blocks
  <2>2. PICK k \in 1 .. Len(stack[t]) : stack[t][k].var = v
    BY <2>1
  <2>3. k \in 1 .. Len(stack'[t]) /\ stack'[t][k].var = v
    BY <2>2
  <2> QED
    BY <2>3
<1>3. ASSUME NEW t \in Thr, NEW u \in Thr, NEW k \in 1 .. Len(stack'[t]), NEW j \in 1 .. Len(stack'[u]),
             stack'[t][k].var = stack'[u][j].var
      PROVE  t = u /\ k = j
  <2>1. k \in 1 .. Len(stack[t]) /\ j \in 1 .. Len(stack[u])
    OBVIOUS
  <2>2. stack[t][k].var = stack[u][j].var
    BY <1>3, <2>1
  <2> QED
    BY <2>1, <2>2 DEF Blocks
<1> QED
  BY <1>1, <1>2, <1>3 DEF Blocks

\* The next command is called.
LEMMA TraceEvStep ==
  ASSUME GlobalsInv, NEW t \in Thr, GV!trace_ev(t)
  PROVE  GlobalsInv'
<1>1. ListsApart /\ WalksOn /\ Blocks
  BY DEF GlobalsInv
<1>2. PICK w : w = stack[t][Len(stack[t])]
  OBVIOUS
<1>3. w \in Walking /\ w.var \in Gvar /\ WalkOn(w, TraceSets[w.var], freed)
  <2>1. Len(stack[t]) \in 1 .. Len(stack[t])
    BY <1>1, StackTypes, EmptySeq DEF GV!trace_ev
  <2> QED
    BY <1>1, <1>2, <2>1, StackTypes DEF WalksOn
<1>4. /\ stack[t] # <<>> /\ ~w.inside /\ w.trace # 0
      /\ GV!Within(t, [w EXCEPT !.inside = TRUE, !.called = Append(@, w.trace)])
      /\ UNCHANGED <<entry, node, freed>>
  BY <1>2 DEF GV!trace_ev, GV!Top, GV!Last
<1>5. PICK x : x = [w EXCEPT !.inside = TRUE, !.called = Append(@, w.trace)]
  OBVIOUS
<1>6. w.called \in Seq(Nat) /\ w.trace \in Nat /\ Len(w.called) \in Nat
  BY <1>3, LenProperties DEF Walking
<1>7. /\ Append(w.called, w.trace) \in Seq(Nat)
      /\ Len(Append(w.called, w.trace)) = Len(w.called) + 1
      /\ Append(w.called, w.trace)[Len(w.called) + 1] = w.trace
      /\ \A i \in 1 .. Len(w.called) : Append(w.called, w.trace)[i] = w.called[i]
  BY <1>6, AppendProperties
<1>8. /\ x.var = w.var /\ x.trace = w.trace /\ x.todo = w.todo /\ x.inside
      /\ x.called = Append(w.called, w.trace)
      /\ x \in Walking
  BY <1>3, <1>5, <1>7 DEF Walking
<1>9. WalkOn(x, TraceSets[x.var], freed)
  <2> DEFINE T == TraceSets[w.var]
  <2> HIDE DEF T
  <2>1. WalkOn(w, T, freed)
    BY <1>3 DEF T
  <2>2. PICK n \in Nat : n = Len(w.called)
    BY <1>6
  <2>3. PICK c : c = x.called
    OBVIOUS
  <2>4. /\ Len(c) = n + 1 /\ c[n + 1] = w.trace
        /\ \A i \in 1 .. n : c[i] = w.called[i] /\ c[i] \in Nat
    BY <1>6, <1>7, <1>8, <2>2, <2>3, ElementOfSeq
  <2>5. \A i \in 1 .. n + 1 : i \in 1 .. n \/ i = n + 1
    OBVIOUS
  <2>6. /\ \A i, j \in 1 .. n : i < j => c[i] > c[j]
        /\ \A i \in 1 .. n : c[i] \in w.todo /\ c[i] >= w.trace /\ c[i] # w.trace
        /\ w.trace \in w.todo
    BY <1>4, <2>1, <2>2, <2>4 DEF WalkOn
  <2>7. \A i, j \in 1 .. n + 1 : i < j => c[i] > c[j]
    <3> SUFFICES ASSUME NEW i \in 1 .. n + 1, NEW j \in 1 .. n + 1, i < j PROVE c[i] > c[j]
      OBVIOUS
    <3>1. i \in 1 .. n
      OBVIOUS
    <3>2. CASE j = n + 1
      <4>1. c[i] >= w.trace /\ c[i] # w.trace /\ c[i] \in Nat /\ c[j] = w.trace
        BY <2>4, <2>6, <3>1, <3>2
      <4> QED
        BY <1>6, <4>1
    <3>3. CASE j \in 1 .. n
      BY <2>6, <3>1, <3>3
    <3> QED
      BY <2>5, <3>2, <3>3
  <2>8. \A i \in 1 .. n + 1 : c[i] \in w.todo /\ c[i] >= w.trace
    <3>1. w.trace >= w.trace
      BY <1>6
    <3> QED
      BY <2>4, <2>5, <2>6, <3>1
  <2>9. n + 1 \in 1 .. n + 1
    OBVIOUS
  <2>10. \E i \in 1 .. n + 1 : c[i] = w.trace
    BY <2>4, <2>9
  <2>11. ASSUME w.trace \notin freed, NEW z \in w.todo
         PROVE  \/ z \in freed
                \/ \E i \in 1 .. n + 1 : c[i] = z
                \/ z \in T /\ z <= w.trace
    <3>1. CASE \E i \in 1 .. n : w.called[i] = z
      <4>1. PICK i \in 1 .. n : w.called[i] = z
        BY <3>1
      <4>2. i \in 1 .. n + 1 /\ c[i] = z
        BY <2>4, <4>1
      <4> QED
        BY <4>2
    <3> QED
      BY <2>1, <2>2, <2>11, <3>1 DEF WalkOn
  <2>12. /\ w.trace \in T \cup freed \cup {0}
         /\ \A z \in T : z <= w.trace => z \in w.todo
    BY <2>1 DEF WalkOn
  <2>13. WalkOn(x, T, freed)
    <3>1. x.called = c /\ Len(c) = n + 1
      BY <2>3, <2>4
    <3> QED
      BY <1>4, <1>8, <2>6, <2>7, <2>8, <2>10, <2>11, <2>12, <3>1 DEF WalkOn
  <2> QED
    BY <1>8, <2>13 DEF T
<1>10. ListsApart' /\ \A v \in Gvar : TraceSets'[v] = TraceSets[v]
  BY <1>1, <1>4, ListsSame DEF ListsApart
<1>11. /\ WalksOn'
       /\ \A u \in Thr : Len(stack'[u]) = Len(stack[u])
       /\ \A u \in Thr : \A k \in 1 .. Len(stack[u]) : stack'[u][k].var = stack[u][k].var
  <2>1. GV!Within(t, x) /\ UNCHANGED freed
    BY <1>4, <1>5
  <2>2. x.var = stack[t][Len(stack[t])].var
    BY <1>2, <1>8
  <2> QED
    BY <1>1, <1>4, <1>8, <1>9, <1>10, <2>1, <2>2, TopStep
<1>12. Blocks'
  BY <1>1, <1>4, <1>11, BlocksKept
<1> QED
  BY <1>10, <1>11, <1>12 DEF GlobalsInv

\* The command has returned, and the link is followed.
LEMMA ReturnStep ==
  ASSUME GlobalsInv, NEW t \in Thr, GV!Return(t)
  PROVE  GlobalsInv'
<1>1. ListsApart /\ WalksOn /\ Blocks
  BY DEF GlobalsInv
<1>2. PICK w : w = stack[t][Len(stack[t])]
  OBVIOUS
<1>3. w \in Walking /\ w.var \in Gvar /\ WalkOn(w, TraceSets[w.var], freed)
  <2>1. Len(stack[t]) \in 1 .. Len(stack[t])
    BY <1>1, StackTypes, EmptySeq DEF GV!Return, GV!InCommand
  <2> QED
    BY <1>1, <1>2, <2>1, StackTypes DEF WalksOn
<1>4. /\ stack[t] # <<>> /\ w.inside
      /\ \/ UNCHANGED stack
         \/ /\ w.trace \notin freed
            /\ GV!Within(t, [w EXCEPT !.inside = FALSE, !.trace = node[@].next])
      /\ UNCHANGED <<entry, node, freed>>
  BY <1>2 DEF GV!Return, GV!InCommand, GV!Top, GV!Last
<1>5. ListsApart' /\ \A v \in Gvar : TraceSets'[v] = TraceSets[v]
  BY <1>1, <1>4, ListsSame DEF ListsApart
<1>6. CASE UNCHANGED stack
  <2>1. WalksOn'
    BY <1>1, <1>4, <1>5, <1>6, WalksKept
  <2>2. Blocks'
    BY <1>1, <1>4, <1>6 DEF Blocks
  <2> QED
    BY <1>5, <2>1, <2>2 DEF GlobalsInv
<1>7. CASE w.trace \notin freed /\ GV!Within(t, [w EXCEPT !.inside = FALSE, !.trace = node[@].next])
  <2>1. PICK x : x = [w EXCEPT !.inside = FALSE, !.trace = node[@].next]
    OBVIOUS
  <2> DEFINE T == TraceSets[w.var]
  <2>2. Listed(node, entry[w.var].trace, T) /\ DOMAIN node \in SUBSET (Nat \ {0})
    BY <1>1, <1>3, LenProperties DEF ListsApart
  <2>3. w.trace \in Nat /\ w.called \in Seq(Nat) /\ Len(w.called) \in Nat
    BY <1>3, LenProperties DEF Walking
  <2> HIDE DEF T
  <2>4. WalkOn(w, T, freed)
    BY <1>3 DEF T
  <2>5. w.trace \in T /\ T \in SUBSET (Nat \ {0})
    BY <1>4, <1>7, <2>2, <2>4 DEF WalkOn, Listed
  <2>6. PICK m \in Nat : m = node[w.trace].next
    BY <2>2, <2>5 DEF Listed
  <2>7. m \in T \cup {0} /\ m < w.trace /\ \A z \in T : z < w.trace => z <= m
    BY <2>2, <2>5, <2>6 DEF Listed
  <2>8. /\ x.var = w.var /\ x.trace = m /\ x.todo = w.todo /\ ~x.inside
        /\ x.called = w.called /\ x \in Walking
    BY <1>3, <2>1, <2>6 DEF Walking
  <2>9. WalkOn(x, T, freed)
    <3>1. \A z \in T : z <= m => z <= w.trace
      BY <2>3, <2>5, <2>7
    <3>2. \A z \in T : z <= m => z \in w.todo
      BY <2>4, <3>1 DEF WalkOn
    <3>3. ASSUME m # 0 PROVE m \in w.todo
      <4>1. m \in T /\ m <= m
        BY <2>7, <3>3
      <4> QED
        BY <3>2, <4>1
    <3>4. \A i \in 1 .. Len(w.called) : /\ w.called[i] \in w.todo
                                        /\ w.called[i] >= m /\ w.called[i] # m
      <4> SUFFICES ASSUME NEW i \in 1 .. Len(w.called)
                   PROVE  w.called[i] \in w.todo /\ w.called[i] >= m /\ w.called[i] # m
        OBVIOUS
      <4>1. w.called[i] \in Nat
        BY <2>3, ElementOfSeq
      <4>2. w.called[i] \in w.todo /\ w.called[i] >= w.trace
        BY <2>4 DEF WalkOn
      <4> QED
        BY <2>3, <2>7, <4>1, <4>2
    <3>5. ASSUME NEW z \in w.todo
          PROVE  \/ z \in freed
                 \/ \E i \in 1 .. Len(w.called) : w.called[i] = z
                 \/ z \in T /\ z <= m
      <4>1. CASE z \in T /\ z <= w.trace
        <5>1. CASE z = w.trace
          BY <1>4, <2>4, <5>1 DEF WalkOn
        <5>2. CASE z # w.trace
          <6>1. z < w.trace
            BY <2>3, <2>5, <4>1, <5>2
          <6> QED
            BY <2>7, <4>1, <6>1
        <5> QED
          BY <5>1, <5>2
      <4> QED
        BY <1>7, <2>4, <4>1 DEF WalkOn
    <3>6. \A i, j \in 1 .. Len(w.called) : i < j => w.called[i] > w.called[j]
      BY <2>4 DEF WalkOn
    <3> QED
      BY <2>7, <2>8, <3>2, <3>3, <3>4, <3>5, <3>6 DEF WalkOn
  <2>10. /\ WalksOn'
         /\ \A u \in Thr : Len(stack'[u]) = Len(stack[u])
         /\ \A u \in Thr : \A k \in 1 .. Len(stack[u]) : stack'[u][k].var = stack[u][k].var
    <3>1. GV!Within(t, x) /\ UNCHANGED freed
      BY <1>4, <1>7, <2>1
    <3>2. x.var = stack[t][Len(stack[t])].var
      BY <1>2, <2>8
    <3>3. WalkOn(x, TraceSets[x.var], freed)
      BY <2>8, <2>9 DEF T
    <3> QED
      BY <1>1, <1>4, <1>5, <2>8, <3>1, <3>2, <3>3, TopStep
  <2>11. Blocks'
    BY <1>1, <1>4, <2>10, BlocksKept
  <2> QED
    BY <1>5, <2>10, <2>11 DEF GlobalsInv
<1> QED
  BY <1>4, <1>6, <1>7

\* The innermost walk ends, and its variable is not blocked any more.
LEMMA TraceEnStep ==
  ASSUME GlobalsInv, NEW t \in Thr, GV!trace_en(t)
  PROVE  GlobalsInv'
<1>1. ListsApart /\ WalksOn /\ Blocks
  BY DEF GlobalsInv
<1>2. PICK n : n = Len(stack[t])
  OBVIOUS
<1>3. stack[t] \in Seq(Walking) /\ n \in Nat /\ n # 0 /\ stack[t] # <<>> /\ n <= MaxNest
  <2>1. stack[t] # <<>> /\ n <= MaxNest
    BY <1>1, <1>2 DEF GV!trace_en, WalksOn
  <2> QED
    BY <1>1, <1>2, <2>1, StackTypes, EmptySeq
<1>4. PICK v \in Gvar : v = stack[t][n].var
  BY <1>1, <1>2, <1>3, StackTypes
<1>5. /\ entry' = [entry EXCEPT ![v].block_trace = FALSE]
      /\ stack' = [stack EXCEPT ![t] = GV!Front(@)]
      /\ UNCHANGED <<node, freed>>
  BY <1>2, <1>4 DEF GV!trace_en, GV!Top, GV!Last, GV!Pops
<1>6. PICK D : entry \in [Gvar -> Entries(D)]
  BY <1>1 DEF ListsApart
<1>7. /\ entry' \in [Gvar -> Entries(D)] /\ ~entry'[v].block_trace
      /\ entry'[v].trace = entry[v].trace
      /\ \A w \in Gvar : w # v => entry'[w] = entry[w]
  <2>1. PICK e : e = [entry[v] EXCEPT !.block_trace = FALSE]
    OBVIOUS
  <2>2. e \in Entries(D) /\ e.trace = entry[v].trace /\ ~e.block_trace
    <3>1. entry[v] \in Entries(D)
      BY <1>6
    <3> QED
      BY <2>1, <3>1 DEF Entries
  <2>3. entry' = [entry EXCEPT ![v] = e]
    BY <1>5, <2>1
  <2> QED
    BY <1>6, <2>2, <2>3
<1>8. \A w \in Gvar : entry'[w].trace = entry[w].trace
  BY <1>7
<1>9. ListsApart' /\ \A w \in Gvar : TraceSets'[w] = TraceSets[w]
  BY <1>1, <1>5, <1>7, <1>8, ListsSame
<1>10. PICK s : s = GV!Front(stack[t])
  OBVIOUS
<1>11. /\ s \in Seq(Walking) /\ Len(s) = n - 1 /\ \A k \in 1 .. n - 1 : s[k] = stack[t][k]
  BY <1>2, <1>3, <1>10, TopWalk
<1>12. stack' = [stack EXCEPT ![t] = s]
  BY <1>5, <1>10
<1>13. WalksOn'
  <2>1. Len(s) <= MaxNest
    BY <1>3, <1>11, ObjectsAssumption
  <2>2. ASSUME NEW k \in 1 .. Len(s) PROVE WalkOn(s[k], TraceSets[s[k].var], freed)
    <3>1. k \in 1 .. n /\ s[k] = stack[t][k]
      BY <1>3, <1>11
    <3>2. WalkOn(stack[t][k], TraceSets[stack[t][k].var], freed)
      BY <1>1, <1>2, <3>1 DEF WalksOn
    <3> QED
      BY <3>1, <3>2
  <2>3. UNCHANGED freed
    BY <1>5
  <2> QED
    BY <1>1, <1>9, <1>11, <1>12, <2>1, <2>2, <2>3, StackPut
<1>14. stack'[t] = s /\ \A u \in Thr : u # t => stack'[u] = stack[u]
  BY <1>1, <1>12 DEF WalksOn
<1>15. ASSUME NEW u \in Thr, NEW k \in 1 .. Len(stack'[u])
       PROVE  /\ k \in 1 .. Len(stack[u]) /\ stack'[u][k] = stack[u][k]
              /\ stack[u][k].var # v /\ stack[u][k].var \in Gvar
  <2>1. k \in 1 .. Len(stack[u]) /\ stack'[u][k] = stack[u][k] /\ (u = t => k # n)
    <3>1. CASE u = t
      <4>1. k \in 1 .. n - 1
        BY <1>11, <1>14, <3>1
      <4>2. k \in 1 .. n /\ k # n /\ s[k] = stack[t][k]
        BY <1>3, <1>11, <4>1
      <4> QED
        BY <1>2, <1>14, <3>1, <4>2
    <3>2. CASE u # t
      BY <1>14, <3>2
    <3> QED
      BY <3>1, <3>2
  <2>2. stack[u][k].var \in Gvar
    BY <1>1, <2>1, StackTypes
  <2>3. n \in 1 .. Len(stack[t])
    BY <1>2, <1>3
  <2>4. stack[u][k].var # v
    BY <1>1, <1>4, <2>1, <2>3 DEF Blocks
  <2> QED
    BY <2>1, <2>2, <2>4
<1>16. ASSUME NEW u \in Thr, NEW k \in 1 .. Len(stack'[u])
       PROVE  entry'[stack'[u][k].var].block_trace
  <2>1. /\ k \in 1 .. Len(stack[u]) /\ stack'[u][k] = stack[u][k]
        /\ stack[u][k].var # v /\ stack[u][k].var \in Gvar
    BY <1>15
  <2>2. entry[stack[u][k].var].block_trace
    BY <1>1, <2>1 DEF Blocks
  <2> QED
    BY <1>7, <2>1, <2>2
<1>17. ASSUME NEW z \in Gvar, entry'[z].block_trace
       PROVE  \E u \in Thr : \E k \in 1 .. Len(stack'[u]) : stack'[u][k].var = z
  <2>1. z # v /\ entry'[z] = entry[z]
    BY <1>7, <1>17
  <2>2. PICK u \in Thr : \E k \in 1 .. Len(stack[u]) : stack[u][k].var = z
    BY <1>1, <1>17, <2>1 DEF Blocks
  <2>3. PICK k \in 1 .. Len(stack[u]) : stack[u][k].var = z
    BY <2>2
  <2>4. u = t => k # n
    BY <1>4, <2>1, <2>3
  <2>5. k \in 1 .. Len(stack'[u]) /\ stack'[u][k] = stack[u][k]
    BY <1>2, <1>3, <1>11, <1>14, <2>4
  <2> QED
    BY <2>3, <2>5
<1>18. ASSUME NEW u \in Thr, NEW z \in Thr, NEW k \in 1 .. Len(stack'[u]),
              NEW j \in 1 .. Len(stack'[z]), stack'[u][k].var = stack'[z][j].var
       PROVE  u = z /\ k = j
  <2>1. k \in 1 .. Len(stack[u]) /\ stack'[u][k] = stack[u][k]
    BY <1>15
  <2>2. j \in 1 .. Len(stack[z]) /\ stack'[z][j] = stack[z][j]
    BY <1>15
  <2> QED
    BY <1>1, <1>18, <2>1, <2>2 DEF Blocks
<1>19. Blocks'
  BY <1>16, <1>17, <1>18 DEF Blocks
<1> QED
  BY <1>9, <1>13, <1>19 DEF GlobalsInv

\* A list stays as it is where its links do.
LEMMA ListedKept ==
  ASSUME NEW nodes, NEW h, NEW T, Listed(nodes, h, T), NEW others,
         DOMAIN nodes \subseteq DOMAIN others, \A x \in T : others[x].next = nodes[x].next
  PROVE  Listed(others, h, T)
BY DEF Listed

\* A new node is the first of its list.
LEMMA TraceVarStep ==
  ASSUME GlobalsInv, NEW t \in Thr, GV!f_trace_var(t)
  PROVE  GlobalsInv'
<1>1. ListsApart /\ WalksOn /\ Blocks
  BY DEF GlobalsInv
<1>2. PICK D : entry \in [Gvar -> Entries(D)]
  BY <1>1 DEF ListsApart
<1>3. PICK v \in Gvar, cmd \in Cmd :
        /\ node' = Append(node, [data |-> cmd, next |-> entry[v].trace])
        /\ entry' = [entry EXCEPT ![v].trace = Len(node) + 1]
  BY <1>2 DEF GV!f_trace_var
<1>4. UNCHANGED <<freed, stack>>
  BY DEF GV!f_trace_var
<1>5. PICK n : n = Len(node) + 1
  OBVIOUS
<1>6. /\ node \in Seq(Node) /\ n \in Nat \ {0} /\ DOMAIN node = 1 .. n - 1
      /\ entry[v].trace \in Nat
  BY <1>1, <1>2, <1>5, LenProperties, EntryTypes DEF ListsApart
<1>7. PICK e \in Node : e = [data |-> cmd, next |-> entry[v].trace] /\ e.next = entry[v].trace
  <2>1. PICK h \in Nat : h = entry[v].trace
    BY <1>6
  <2>2. [data |-> cmd, next |-> h] \in Node /\ [data |-> cmd, next |-> h].next = h
    BY DEF Node
  <2> QED
    BY <2>1, <2>2
<1>8. /\ node' \in Seq(Node) /\ DOMAIN node' = 1 .. n
      /\ node'[n] = e /\ \A x \in 1 .. n - 1 : node'[x] = node[x]
  <2>1. node' = Append(node, e) /\ Len(node) = n - 1
    BY <1>3, <1>5, <1>6, <1>7, LenProperties
  <2>2. /\ node' \in Seq(Node) /\ Len(node') = Len(node) + 1
        /\ node'[Len(node) + 1] = e /\ \A x \in 1 .. Len(node) : node'[x] = node[x]
    BY <1>6, <2>1, AppendProperties
  <2> QED
    BY <1>5, <2>1, <2>2, LenProperties
<1>9. /\ entry' \in [Gvar -> Entries(D)] /\ entry'[v].trace = n
      /\ \A w \in Gvar : w # v => entry'[w] = entry[w]
      /\ \A w \in Gvar : entry'[w].block_trace <=> entry[w].block_trace
  <2>1. PICK f : f = [entry[v] EXCEPT !.trace = n]
    OBVIOUS
  <2>2. f \in Entries(D) /\ f.trace = n /\ (f.block_trace <=> entry[v].block_trace)
    <3>1. entry[v] \in Entries(D)
      BY <1>2
    <3> QED
      BY <1>6, <2>1, <3>1 DEF Entries
  <2>3. entry' = [entry EXCEPT ![v] = f]
    BY <1>3, <1>5, <2>1
  <2> QED
    BY <1>2, <2>2, <2>3
<1> DEFINE Tr == [w \in Gvar |-> IF w = v THEN TraceSets[v] \cup {n} ELSE TraceSets[w]]
<1>10. /\ \A w \in Gvar : Listed(node, entry[w].trace, TraceSets[w])
       /\ \A w \in Gvar : TraceSets[w] \subseteq 1 .. n - 1
       /\ freed \subseteq 1 .. n - 1
  BY <1>1, <1>6 DEF ListsApart, Listed
<1>11. ASSUME NEW w \in Gvar PROVE Listed(node', entry'[w].trace, Tr[w])
  <2>1. DOMAIN node \subseteq DOMAIN node' /\ \A x \in TraceSets[w] : node'[x].next = node[x].next
    BY <1>6, <1>8, <1>10
  <2>2. Listed(node', entry[w].trace, TraceSets[w])
    BY <1>10, <2>1, ListedKept
  <2>3. CASE w # v
    BY <1>9, <2>2, <2>3
  <2>4. CASE w = v
    <3>1. PICK T \in SUBSET (1 .. n - 1) : T = TraceSets[v]
      BY <1>10
    <3>2. PICK h \in Nat : h = entry[v].trace
      BY <1>6
    <3>3. /\ h \in T \cup {0} /\ \A x \in T : x <= h
          /\ \A x \in T : node'[x].next \in T \cup {0} /\ node'[x].next < x
          /\ \A m, x \in T : x < m => x <= node'[m].next
      BY <2>2, <2>4, <3>1, <3>2 DEF Listed
    <3>4. node'[n].next = h /\ h < n
      BY <1>6, <1>7, <1>8, <3>2, <3>3
    <3>5. \A x \in T : x < n /\ x # n /\ x \in Nat /\ x \in 1 .. n /\ x <= n
      BY <1>6
    <3>6. T \cup {n} \subseteq DOMAIN node' /\ n <= n
      <4>1. n \in 1 .. n /\ n <= n
        BY <1>6
      <4> QED
        BY <1>8, <3>5, <4>1
    <3>7. \A m, x \in T \cup {n} : x < m => x <= node'[m].next
      BY <3>3, <3>4, <3>5, <1>6
    <3>8. \A x \in T \cup {n} : node'[x].next \in (T \cup {n}) \cup {0} /\ node'[x].next < x
      BY <3>3, <3>4
    <3>9. \A x \in T \cup {n} : x <= n
      BY <3>5, <3>6
    <3>10. Listed(node', n, T \cup {n})
      BY <3>6, <3>7, <3>8, <3>9 DEF Listed
    <3> QED
      BY <1>9, <2>4, <3>1, <3>10
  <2> QED
    BY <2>3, <2>4
<1>12. /\ freed' \subseteq DOMAIN node'
       /\ \A w \in Gvar : Tr[w] \cap freed' = {}
       /\ \A w, z \in Gvar : w # z => Tr[w] \cap Tr[z] = {}
  <2>1. \A w \in Gvar : n \notin TraceSets[w] /\ n \notin freed
    BY <1>6, <1>10
  <2>2. /\ \A w \in Gvar : TraceSets[w] \cap freed = {}
        /\ \A w, z \in Gvar : w # z => TraceSets[w] \cap TraceSets[z] = {}
    BY <1>1 DEF ListsApart
  <2>3. freed' \subseteq DOMAIN node'
    BY <1>4, <1>6, <1>8, <1>10
  <2>4. ASSUME NEW w \in Gvar PROVE Tr[w] \cap freed' = {}
    BY <1>4, <2>1, <2>2
  <2>5. ASSUME NEW w \in Gvar, NEW z \in Gvar, w # z PROVE Tr[w] \cap Tr[z] = {}
    BY <2>1, <2>2, <2>5
  <2> QED
    BY <2>3, <2>4, <2>5
<1>13. /\ \A w \in Gvar : TraceSets[w] \subseteq Tr[w]
       /\ \A w \in Gvar, x \in Nat : x \in Tr[w] \ TraceSets[w] => x \notin DOMAIN node
  <2>1. n \notin DOMAIN node
    BY <1>6
  <2> QED
    BY <2>1
<1> HIDE DEF Tr
<1>14. ListsApart' /\ \A w \in Gvar : TraceSets'[w] = Tr[w]
  BY <1>8, <1>9, <1>11, <1>12, ListsFrom
<1>15. WalksOn'
  <2>1. freed \subseteq freed' /\ \A w \in Gvar : TraceSets[w] \subseteq TraceSets'[w] \cup freed'
    BY <1>4, <1>13, <1>14
  <2>2. \A w \in Gvar, x \in Nat : x \in TraceSets'[w] \ TraceSets[w] => x \notin DOMAIN node
    BY <1>13, <1>14
  <2> QED
    BY <1>1, <1>4, <1>14, <2>1, <2>2, WalksKept
<1>16. Blocks'
  BY <1>1, <1>4, <1>9, BlocksKept
<1> QED
  BY <1>14, <1>15, <1>16 DEF GlobalsInv

\* All the nodes of a list are freed.
LEMMA UntraceAllStep ==
  ASSUME GlobalsInv, NEW t \in Thr, GV!Untrace_all(t)
  PROVE  GlobalsInv'
<1>1. ListsApart /\ WalksOn /\ Blocks
  BY DEF GlobalsInv
<1>2. PICK D : entry \in [Gvar -> Entries(D)]
  BY <1>1 DEF ListsApart
<1>3. PICK v \in Gvar :
        /\ freed' = freed \cup GV!Traces(v)
        /\ entry' = [entry EXCEPT ![v].trace = 0]
  BY <1>2 DEF GV!Untrace_all
<1>4. UNCHANGED <<node, stack>>
  BY DEF GV!Untrace_all
<1>5. freed' = freed \cup TraceSets[v]
  BY <1>3 DEF GV!Traces, GV!Chain, TraceSets, Linked
<1>6. /\ entry' \in [Gvar -> Entries(D)] /\ entry'[v].trace = 0
      /\ \A w \in Gvar : w # v => entry'[w] = entry[w]
      /\ \A w \in Gvar : entry'[w].block_trace <=> entry[w].block_trace
  <2>1. PICK f : f = [entry[v] EXCEPT !.trace = 0]
    OBVIOUS
  <2>2. f \in Entries(D) /\ f.trace = 0 /\ (f.block_trace <=> entry[v].block_trace)
    <3>1. entry[v] \in Entries(D)
      BY <1>2
    <3> QED
      BY <2>1, <3>1 DEF Entries
  <2>3. entry' = [entry EXCEPT ![v] = f]
    BY <1>3, <2>1
  <2> QED
    BY <1>2, <2>2, <2>3
<1> DEFINE Tr == [w \in Gvar |-> IF w = v THEN {} ELSE TraceSets[w]]
<1>7. /\ \A w \in Gvar : Listed(node, entry[w].trace, TraceSets[w])
      /\ \A w \in Gvar : TraceSets[w] \subseteq DOMAIN node
      /\ \A w \in Gvar : TraceSets[w] \cap freed = {}
      /\ \A w, z \in Gvar : w # z => TraceSets[w] \cap TraceSets[z] = {}
      /\ node \in Seq(Node) /\ freed \subseteq DOMAIN node
  BY <1>1 DEF ListsApart, Listed
<1>8. ASSUME NEW w \in Gvar PROVE Listed(node', entry'[w].trace, Tr[w])
  <2>1. CASE w = v
    BY <1>6, <2>1 DEF Listed
  <2>2. CASE w # v
    BY <1>4, <1>6, <1>7, <2>2
  <2> QED
    BY <2>1, <2>2
<1>9. /\ freed' \subseteq DOMAIN node'
      /\ \A w \in Gvar : Tr[w] \cap freed' = {}
      /\ \A w, z \in Gvar : w # z => Tr[w] \cap Tr[z] = {}
  BY <1>4, <1>5, <1>7
<1>10. /\ \A w \in Gvar : TraceSets[w] \subseteq Tr[w] \cup freed'
       /\ \A w \in Gvar : Tr[w] \subseteq TraceSets[w]
  BY <1>5
<1> HIDE DEF Tr
<1>11. ListsApart' /\ \A w \in Gvar : TraceSets'[w] = Tr[w]
  BY <1>4, <1>6, <1>7, <1>8, <1>9, ListsFrom
<1>12. WalksOn'
  <2>1. freed \subseteq freed' /\ \A w \in Gvar : TraceSets[w] \subseteq TraceSets'[w] \cup freed'
    BY <1>5, <1>10, <1>11
  <2>2. \A w \in Gvar, x \in Nat : x \in TraceSets'[w] \ TraceSets[w] => x \notin DOMAIN node
    BY <1>10, <1>11
  <2> QED
    BY <1>1, <1>4, <1>11, <2>1, <2>2, WalksKept
<1>13. Blocks'
  BY <1>1, <1>4, <1>6, BlocksKept
<1> QED
  BY <1>11, <1>12, <1>13 DEF GlobalsInv

\* A node is taken out of a list.
LEMMA ListWithout ==
  ASSUME NEW nodes, DOMAIN nodes \in SUBSET (Nat \ {0}), NEW h, NEW T, Listed(nodes, h, T),
         NEW gone \in T, NEW others, DOMAIN others = DOMAIN nodes,
         \A x \in T : others[x].next = IF nodes[x].next = gone THEN nodes[gone].next
                                       ELSE nodes[x].next
  PROVE  Listed(others, IF h = gone THEN nodes[gone].next ELSE h, T \ {gone})
<1>1. /\ T \subseteq Nat /\ gone \in Nat /\ T \subseteq DOMAIN others
      /\ h \in T \cup {0} /\ \A x \in T : x <= h
      /\ \A x \in T : nodes[x].next \in T \cup {0} /\ nodes[x].next < x
      /\ \A n, x \in T : x < n => x <= nodes[n].next
  BY DEF Listed
<1>2. PICK g \in Nat : g = nodes[gone].next
  BY <1>1
<1>3. PICK k : k = IF h = gone THEN g ELSE h
  OBVIOUS
<1>4. g \in (T \ {gone}) \cup {0} /\ g < gone /\ \A x \in T : x < gone => x <= g
  BY <1>1, <1>2
<1>5. k \in (T \ {gone}) \cup {0}
  BY <1>1, <1>3, <1>4
<1>6. ASSUME NEW x \in T \ {gone} PROVE x <= k
  <2>1. x \in Nat /\ x <= h /\ x # gone
    BY <1>1
  <2>2. CASE h = gone
    <3>1. x < gone
      BY <1>1, <2>1, <2>2
    <3> QED
      BY <1>3, <1>4, <2>2, <3>1
  <2>3. CASE h # gone
    BY <1>3, <2>1, <2>3
  <2> QED
    BY <2>2, <2>3
<1>7. ASSUME NEW n \in T \ {gone}
      PROVE  /\ others[n].next \in (T \ {gone}) \cup {0} /\ others[n].next < n
             /\ \A x \in T \ {gone} : x < n => x <= others[n].next
  <2>1. PICK m \in Nat : m = nodes[n].next
    BY <1>1
  <2>2. m \in T \cup {0} /\ m < n /\ n \in Nat /\ \A x \in T : x < n => x <= m
    BY <1>1, <2>1
  <2>3. CASE m = gone
    <3>1. others[n].next = g
      BY <1>2, <2>1, <2>3
    <3>2. g < n
      BY <1>1, <1>4, <2>2, <2>3
    <3>3. ASSUME NEW x \in T \ {gone}, x < n PROVE x <= g
      <4>1. x \in Nat /\ x < gone
        BY <1>1, <2>2, <2>3, <3>3
      <4> QED
        BY <1>4, <4>1
    <3> QED
      BY <1>4, <3>1, <3>2, <3>3
  <2>4. CASE m # gone
    <3>1. others[n].next = m
      BY <2>1, <2>4
    <3> QED
      BY <2>2, <2>4, <3>1
  <2> QED
    BY <2>3, <2>4
<1>8. Listed(others, k, T \ {gone})
  BY <1>1, <1>5, <1>6, <1>7 DEF Listed
<1> QED
  BY <1>2, <1>3, <1>8

\* The newest trace with the command is taken out.
LEMMA UntraceVarStep ==
  ASSUME GlobalsInv, NEW t \in Thr, GV!f_untrace_var(t)
  PROVE  GlobalsInv'
<1>1. ListsApart /\ WalksOn /\ Blocks
  BY DEF GlobalsInv
<1>2. PICK D : entry \in [Gvar -> Entries(D)]
  BY <1>1 DEF ListsApart
<1>3. PICK v \in Gvar, cmd \in Cmd :
        LET with == {n \in GV!Traces(v) : node[n].data = cmd}
            gone == GV!Max(with)
            past(n) == IF n = gone THEN node[gone].next ELSE n
        IN  /\ with # {}
            /\ freed' = freed \cup {gone}
            /\ entry' = [entry EXCEPT ![v].trace = past(@)]
            /\ node' = [n \in DOMAIN node |->
                          IF n \in GV!Traces(v) THEN [node[n] EXCEPT !.next = past(@)] ELSE node[n]]
  BY <1>2 DEF GV!f_untrace_var
<1>4. PICK T : T = TraceSets[v]
  OBVIOUS
<1>5. GV!Traces(v) = T
  BY <1>4 DEF GV!Traces, GV!Chain, TraceSets, Linked
<1>6. PICK with : with = {n \in T : node[n].data = cmd}
  OBVIOUS
<1>7. PICK gone : gone = GV!Max(with)
  OBVIOUS
<1>8. /\ with # {}
      /\ freed' = freed \cup {gone}
      /\ entry' = [entry EXCEPT ![v].trace = IF @ = gone THEN node[gone].next ELSE @]
      /\ node' = [n \in DOMAIN node |->
                    IF n \in T
                    THEN [node[n] EXCEPT !.next = IF @ = gone THEN node[gone].next ELSE @]
                    ELSE node[n]]
  BY <1>3, <1>5, <1>6, <1>7
<1>9. UNCHANGED stack
  BY DEF GV!f_untrace_var
<1>10. /\ node \in Seq(Node) /\ Len(node) \in Nat /\ DOMAIN node = 1 .. Len(node)
       /\ DOMAIN node \in SUBSET (Nat \ {0})
       /\ \A w \in Gvar : Listed(node, entry[w].trace, TraceSets[w])
       /\ \A w \in Gvar : TraceSets[w] \subseteq DOMAIN node
       /\ \A w \in Gvar : TraceSets[w] \cap freed = {}
       /\ \A w, z \in Gvar : w # z => TraceSets[w] \cap TraceSets[z] = {}
       /\ freed \subseteq DOMAIN node
  BY <1>1, LenProperties DEF ListsApart, Listed
<1>11. T \subseteq DOMAIN node /\ Listed(node, entry[v].trace, T)
  BY <1>4, <1>10
<1>12. gone \in T
  <2>1. with \in SUBSET Nat /\ \A x \in with : x <= Len(node)
    BY <1>6, <1>10, <1>11
  <2>2. \E x \in with : \A y \in with : x >= y
    BY <1>8, <1>10, <2>1, GreatestNumber
  <2>3. gone \in with
    BY <1>7, <2>2 DEF GV!Max
  <2> QED
    BY <1>6, <2>3
<1>13. PICK g \in Nat : g = node[gone].next
  BY <1>10, <1>11, <1>12 DEF Listed
<1>14. /\ node' \in Seq(Node) /\ DOMAIN node' = DOMAIN node
       /\ \A x \in T : node'[x].next = IF node[x].next = gone THEN g ELSE node[x].next
       /\ \A x \in DOMAIN node \ T : node'[x] = node[x]
  <2>1. DOMAIN node' = DOMAIN node /\ \A x \in DOMAIN node \ T : node'[x] = node[x]
    BY <1>8
  <2>2. ASSUME NEW x \in T
        PROVE  /\ node'[x] \in Node
               /\ node'[x].next = IF node[x].next = gone THEN g ELSE node[x].next
    <3>1. PICK e \in Node : e = node[x]
      BY <1>10, <1>11, ElementOfSeq
    <3>2. PICK m \in Nat : m = IF e.next = gone THEN g ELSE e.next
      BY <3>1 DEF Node
    <3>3. [e EXCEPT !.next = m] \in Node /\ [e EXCEPT !.next = m].next = m
      BY DEF Node
    <3>4. node'[x] = [e EXCEPT !.next = m]
      BY <1>8, <1>11, <1>13, <3>1, <3>2
    <3> QED
      BY <3>1, <3>2, <3>3, <3>4
  <2>3. \A x \in DOMAIN node : node[x] \in Node
    BY <1>10, ElementOfSeq
  <2>4. \A x \in DOMAIN node : node'[x] \in Node
    BY <2>1, <2>2, <2>3
  <2>5. node' = [x \in DOMAIN node |-> node'[x]]
    BY <1>8
  <2>6. node' \in [DOMAIN node -> Node]
    BY <2>4, <2>5
  <2>7. node' \in Seq(Node)
    BY <1>10, <2>6
  <2> QED
    BY <2>1, <2>2, <2>7
<1>15. PICK h \in Nat : h = IF entry[v].trace = gone THEN g ELSE entry[v].trace
  BY <1>2, EntryTypes
<1>16. /\ entry' \in [Gvar -> Entries(D)] /\ entry'[v].trace = h
       /\ \A w \in Gvar : w # v => entry'[w] = entry[w]
       /\ \A w \in Gvar : entry'[w].block_trace <=> entry[w].block_trace
  <2>1. PICK f : f = [entry[v] EXCEPT !.trace = h]
    OBVIOUS
  <2>2. f \in Entries(D) /\ f.trace = h /\ (f.block_trace <=> entry[v].block_trace)
    <3>1. entry[v] \in Entries(D)
      BY <1>2
    <3> QED
      BY <2>1, <3>1 DEF Entries
  <2>3. entry' = [entry EXCEPT ![v] = f]
    BY <1>2, <1>8, <1>13, <1>15, <2>1
  <2> QED
    BY <1>2, <2>2, <2>3
<1> DEFINE Tr == [w \in Gvar |-> IF w = v THEN T \ {gone} ELSE TraceSets[w]]
<1>17. ASSUME NEW w \in Gvar PROVE Listed(node', entry'[w].trace, Tr[w])
  <2>1. CASE w = v
    <3>1. Listed(node', IF entry[v].trace = gone THEN node[gone].next ELSE entry[v].trace, T \ {gone})
      BY <1>10, <1>11, <1>12, <1>13, <1>14, ListWithout
    <3> QED
      BY <1>13, <1>15, <1>16, <2>1, <3>1
  <2>2. CASE w # v
    <3>1. \A x \in TraceSets[w] : x \in DOMAIN node \ T
      BY <1>4, <1>10, <2>2
    <3>2. DOMAIN node \subseteq DOMAIN node' /\ \A x \in TraceSets[w] : node'[x].next = node[x].next
      BY <1>14, <3>1
    <3>3. Listed(node', entry[w].trace, TraceSets[w])
      BY <1>10, <3>2, ListedKept
    <3> QED
      BY <1>16, <2>2, <3>3
  <2> QED
    BY <2>1, <2>2
<1>18. /\ freed' \subseteq DOMAIN node'
       /\ \A w \in Gvar : Tr[w] \cap freed' = {}
       /\ \A w, z \in Gvar : w # z => Tr[w] \cap Tr[z] = {}
  <2>1. freed' \subseteq DOMAIN node'
    BY <1>8, <1>10, <1>11, <1>12, <1>14
  <2>2. ASSUME NEW w \in Gvar PROVE Tr[w] \cap freed' = {}
    BY <1>4, <1>8, <1>10, <1>12
  <2>3. ASSUME NEW w \in Gvar, NEW z \in Gvar, w # z PROVE Tr[w] \cap Tr[z] = {}
    BY <1>4, <1>10, <2>3
  <2> QED
    BY <2>1, <2>2, <2>3
<1>19. /\ \A w \in Gvar : TraceSets[w] \subseteq Tr[w] \cup freed'
       /\ \A w \in Gvar : Tr[w] \subseteq TraceSets[w]
       /\ freed \subseteq freed'
  BY <1>4, <1>8
<1> HIDE DEF Tr
<1>20. ListsApart' /\ \A w \in Gvar : TraceSets'[w] = Tr[w]
  BY <1>14, <1>16, <1>17, <1>18, ListsFrom
<1>21. WalksOn'
  <2>1. freed \subseteq freed' /\ \A w \in Gvar : TraceSets[w] \subseteq TraceSets'[w] \cup freed'
    BY <1>19, <1>20
  <2>2. \A w \in Gvar, x \in Nat : x \in TraceSets'[w] \ TraceSets[w] => x \notin DOMAIN node
    BY <1>19, <1>20
  <2> QED
    BY <1>1, <1>9, <1>20, <2>1, <2>2, WalksKept
<1>22. Blocks'
  BY <1>1, <1>9, <1>16, BlocksKept
<1> QED
  BY <1>20, <1>21, <1>22 DEF GlobalsInv

\* An alias takes nothing of the traces.
LEMMA AliasStep ==
  ASSUME GlobalsInv, NEW t \in Thr, GV!rb_alias_variable(t)
  PROVE  GlobalsInv'
<1>1. ListsApart /\ WalksOn /\ Blocks
  BY DEF GlobalsInv
<1>2. PICK D : entry \in [Gvar -> Entries(D)]
  BY <1>1 DEF ListsApart
<1>3. PICK v \in Gvar, w \in Gvar :
        entry' = [entry EXCEPT ![v].acc = entry[w].acc, ![v].data = entry[w].data]
  BY DEF GV!rb_alias_variable
<1>4. UNCHANGED <<node, freed, stack>>
  BY DEF GV!rb_alias_variable
<1>5. /\ entry' \in [Gvar -> Entries(D)]
      /\ \A z \in Gvar : entry'[z].trace = entry[z].trace
      /\ \A z \in Gvar : entry'[z].block_trace <=> entry[z].block_trace
  <2>1. PICK d \in Entries(D) : d = entry[v]
    BY <1>2
  <2>2. PICK e \in Entries(D) : e = entry[w]
    BY <1>2
  <2>3. PICK f : f = [d EXCEPT !.acc = e.acc, !.data = e.data]
    OBVIOUS
  <2>4. f \in Entries(D) /\ f.trace = d.trace /\ (f.block_trace <=> d.block_trace)
    BY <2>3 DEF Entries
  <2>5. entry' = [entry EXCEPT ![v] = f]
    <3>1. entry' = [entry EXCEPT ![v].acc = e.acc, ![v].data = e.data]
      BY <1>3, <2>2
    <3> QED
      BY <1>2, <2>1, <2>3, <3>1
  <2>6. entry' \in [Gvar -> Entries(D)] /\ \A z \in Gvar : z # v => entry'[z] = entry[z]
    BY <1>2, <2>4, <2>5
  <2>7. entry'[v] = f
    BY <1>2, <2>5
  <2>8. entry'[v].trace = entry[v].trace
    BY <2>1, <2>4, <2>7
  <2>9. entry'[v].block_trace <=> entry[v].block_trace
    BY <2>1, <2>4, <2>7
  <2>10. ASSUME NEW z \in Gvar
         PROVE  entry'[z].trace = entry[z].trace /\ (entry'[z].block_trace <=> entry[z].block_trace)
    BY <2>6, <2>8, <2>9
  <2> QED
    BY <2>6, <2>10
<1>6. ListsApart' /\ \A z \in Gvar : TraceSets'[z] = TraceSets[z]
  BY <1>1, <1>4, <1>5, ListsSame
<1>7. WalksOn'
  BY <1>1, <1>4, <1>6, WalksKept
<1>8. Blocks'
  BY <1>1, <1>4, <1>5, BlocksKept
<1> QED
  BY <1>6, <1>7, <1>8 DEF GlobalsInv

\* Every step keeps the invariant.
LEMMA GlobalsStep == ASSUME GlobalsInv, [GV!Next]_gvvars PROVE GlobalsInv'
<1>1. CASE GV!Next
  <2>1. PICK t \in Thr :
          \/ GV!rb_gvar_set(t) \/ GV!trace_ev(t) \/ GV!Return(t) \/ GV!trace_en(t)
          \/ GV!f_trace_var(t) \/ GV!Untrace_all(t) \/ GV!f_untrace_var(t)
          \/ GV!rb_alias_variable(t)
    BY <1>1 DEF GV!Next
  <2> QED
    BY <2>1, GvarSetStep, TraceEvStep, ReturnStep, TraceEnStep, TraceVarStep, UntraceAllStep,
       UntraceVarStep, AliasStep
<1>2. CASE UNCHANGED gvvars
  <2>1. UNCHANGED <<entry, node, freed, stack>>
    BY <1>2 DEF gvvars
  <2>2. PICK D : entry \in [Gvar -> Entries(D)]
    BY DEF GlobalsInv, ListsApart
  <2>3. ListsApart' /\ \A v \in Gvar : TraceSets'[v] = TraceSets[v]
    BY <2>1, <2>2, ListsSame DEF GlobalsInv
  <2>4. WalksOn'
    BY <2>1, <2>3, WalksKept DEF GlobalsInv
  <2>5. Blocks'
    BY <2>1 DEF GlobalsInv, Blocks
  <2> QED
    BY <2>3, <2>4, <2>5 DEF GlobalsInv
<1> QED
  BY <1>1, <1>2

\* The walks for a variable are counted by whether it is blocked.
LEMMA WalksCounted ==
  ASSUME GlobalsInv, NEW v \in Gvar
  PROVE  Cardinality(GV!Walks(v)) = IF entry[v].block_trace THEN 1 ELSE 0
<1>1. /\ \A w \in GV!Walks(v) : /\ w \in Thr \X (1 .. MaxNest) /\ w[2] <= Len(stack[w[1]])
                               /\ stack[w[1]][w[2]].var = v
      /\ \A t \in Thr, k \in 1 .. MaxNest :
           k <= Len(stack[t]) /\ stack[t][k].var = v => <<t, k>> \in GV!Walks(v)
  BY DEF GV!Walks
<1>2. \A t \in Thr : Len(stack[t]) \in Nat /\ Len(stack[t]) <= MaxNest
  BY StackTypes DEF GlobalsInv, WalksOn
<1>3. CASE entry[v].block_trace
  <2>1. PICK t \in Thr : \E k \in 1 .. Len(stack[t]) : stack[t][k].var = v
    BY <1>3 DEF GlobalsInv, Blocks
  <2>2. PICK k \in 1 .. Len(stack[t]) : stack[t][k].var = v
    BY <2>1
  <2>3. k \in 1 .. MaxNest /\ k <= Len(stack[t])
    BY <1>2, ObjectsAssumption
  <2>4. <<t, k>> \in GV!Walks(v)
    BY <1>1, <2>2, <2>3
  <2>5. ASSUME NEW w \in GV!Walks(v) PROVE w = <<t, k>>
    <3>1. PICK u \in Thr, j \in 1 .. MaxNest : w = <<u, j>>
      BY <1>1
    <3>2. j <= Len(stack[u]) /\ stack[u][j].var = v
      BY <1>1, <3>1
    <3>3. j \in 1 .. Len(stack[u])
      BY <1>2, <3>2
    <3>4. u = t /\ j = k
      BY <2>2, <3>2, <3>3 DEF GlobalsInv, Blocks
    <3> QED
      BY <3>1, <3>4
  <2>6. GV!Walks(v) = {<<t, k>>}
    BY <2>4, <2>5
  <2> QED
    BY <1>3, <2>6, FS_Singleton
<1>4. CASE ~entry[v].block_trace
  <2>1. ASSUME NEW w \in GV!Walks(v) PROVE FALSE
    <3>1. PICK u \in Thr, j \in 1 .. MaxNest : w = <<u, j>>
      BY <1>1
    <3>2. j <= Len(stack[u]) /\ stack[u][j].var = v
      BY <1>1, <3>1
    <3>3. j \in 1 .. Len(stack[u])
      BY <1>2, <3>2
    <3> QED
      BY <1>4, <3>2, <3>3 DEF GlobalsInv, Blocks
  <2>2. GV!Walks(v) = {}
    BY <2>1
  <2> QED
    BY <1>4, <2>2, FS_EmptySet
<1> QED
  BY <1>3, <1>4

\* The invariant says what is stated of a walk that ends.
LEMMA GlobalsExact == ASSUME GlobalsInv PROVE GV!TraceExact
<1>1. ASSUME NEW t \in Thr, stack[t] # <<>>, ~GV!Top(t).inside, GV!Top(t).trace = 0
      PROVE  LET called == GV!Top(t).called
             IN  /\ \A i, j \in DOMAIN called : i < j => called[i] > called[j]
                 /\ GV!ToSet(called) \subseteq GV!Top(t).todo
                 /\ GV!Top(t).todo \ GV!ToSet(called) \subseteq freed
  <2>1. PICK w : w = stack[t][Len(stack[t])]
    OBVIOUS
  <2>2. w \in Walking /\ w.var \in Gvar /\ WalkOn(w, TraceSets[w.var], freed)
    <3>1. Len(stack[t]) \in 1 .. Len(stack[t])
      BY <1>1, StackTypes, EmptySeq DEF GlobalsInv
    <3> QED
      BY <2>1, <3>1, StackTypes DEF GlobalsInv, WalksOn
  <2>3. w.trace = 0 /\ GV!Top(t) = w
    BY <1>1, <2>1 DEF GV!Top, GV!Last
  <2>4. PICK T : T = TraceSets[w.var]
    OBVIOUS
  <2>5. 0 \notin freed /\ \A x \in T : ~(x <= 0)
    <3>1. DOMAIN node \in SUBSET (Nat \ {0}) /\ freed \subseteq DOMAIN node
      BY LenProperties DEF GlobalsInv, ListsApart
    <3>2. T \subseteq DOMAIN node
      BY <2>2, <2>4 DEF GlobalsInv, ListsApart, Listed
    <3>3. \A x \in DOMAIN node : x \in Nat /\ ~(x <= 0)
      BY <3>1
    <3> QED
      BY <3>1, <3>2, <3>3
  <2>6. PICK c \in Seq(Nat) : c = w.called
    BY <2>2 DEF Walking
  <2>7. DOMAIN c = 1 .. Len(c)
    BY <2>6, LenProperties
  <2>8. /\ \A i, j \in 1 .. Len(c) : i < j => c[i] > c[j]
        /\ \A i \in 1 .. Len(c) : c[i] \in w.todo
        /\ \A x \in w.todo : x \in freed \/ \E i \in 1 .. Len(c) : c[i] = x
    BY <2>2, <2>3, <2>4, <2>5, <2>6 DEF WalkOn
  <2>9. GV!ToSet(c) = {c[i] : i \in 1 .. Len(c)}
    BY <2>7 DEF GV!ToSet
  <2> QED
    BY <2>3, <2>6, <2>7, <2>8, <2>9
<1>2. \A v \in Gvar : GV!Cardinality(GV!Walks(v)) = IF entry[v].block_trace THEN 1 ELSE 0
  <2>1. ASSUME NEW S PROVE GV!Cardinality(S) = Cardinality(S)
    BY DEF GV!Cardinality, Cardinality
  <2> QED
    BY <2>1, WalksCounted
<1> QED
  BY <1>1, <1>2 DEF GV!TraceExact

\* An assignment to a global variable runs its traces once, as they were when it was
\* made, and blocks them while it does (variable.c).
THEOREM GlobalsTraceExact == Spec => []TraceExact
<1> DEFINE I == which = "Globals" => GlobalsInv
<1>1. Init => I
  BY GlobalsInit DEF Init
<1>2. I /\ [Next]_vars => I'
  <2> SUFFICES ASSUME I, [Next]_vars, which' = "Globals" PROVE GlobalsInv'
    OBVIOUS
  <2>1. which = "Globals" /\ GlobalsInv
    BY DEF Next, vars
  <2>2. [GV!Next]_gvvars
    BY <2>1 DEF Next, vars
  <2> QED
    BY <2>1, <2>2, GlobalsStep
<1>3. I => TraceExact
  BY GlobalsExact DEF TraceExact
<1> QED
  BY <1>1, <1>2, <1>3, PTL DEF Spec

-----------------------------------------------------------------------------
(***************************************************************************)
(* Strings that share a buffer (string.c).                                 *)
(***************************************************************************)

\* What the contents and the objects are made of.
Bytes == DOMAIN Up
Objects ==
  [role : {"lit", "user", "match", "garbage", "free"}, ptr : Nat, len : Nat, orig : Nat,
   frozen : BOOLEAN]

\* The types of the objects, the memory and what they should read.
StrTypes(s, m, v) ==
  /\ s \in [ST!Id -> Objects]
  /\ m \in [ST!Ptr -> Seq(Bytes) \cup {ST!Freed}]
  /\ v \in [ST!Id -> Seq(Bytes)]

\* An object reads what it should, from a buffer that is not freed.
Reads(o, m, w) ==
  /\ o.ptr \in ST!Ptr /\ m[o.ptr] # ST!Freed
  /\ o.len <= Len(m[o.ptr]) /\ Len(w) = o.len
  /\ \A k \in 1 .. o.len : m[o.ptr][k] = w[k]

\* The string that an object shares the buffer of has one of its own, is as long, and is
\* out of the program's reach.
Shares(s, i) ==
  LET o == s[i].orig
  IN  o # 0 => /\ o \in ST!Id /\ s[o].role \notin {"free", "user"}
               /\ s[o].orig = 0 /\ s[o].ptr = s[i].ptr /\ s[o].len = s[i].len

\* An object that frees the buffer.
Owns(s, i, p) == s[i].role # "free" /\ s[i].orig = 0 /\ s[i].ptr = p

\* The inductive invariant: a buffer that is not freed has one object that owns it.
StrInv(s, m, v) ==
  /\ StrTypes(s, m, v)
  /\ \A i \in ST!Id : s[i].role # "free" => Reads(s[i], m, v[i]) /\ Shares(s, i)
  /\ \A i, j \in ST!Id, p \in ST!Ptr : Owns(s, i, p) /\ Owns(s, j, p) => i = j
  /\ \A p \in ST!Ptr : m[p] # ST!Freed => \E i \in ST!Id : Owns(s, i, p)

\* What is freed holds no bytes.
LEMMA FreedNoText == ST!Freed \notin Seq(Bytes)
<1> SUFFICES ASSUME <<"freed">> \in Seq(Bytes) PROVE FALSE
  BY DEF ST!Freed
<1>1. Len(<<"freed">>) = 1 /\ <<"freed">>[1] = "freed"
  OBVIOUS
<1>2. <<"freed">>[1] \in Bytes
  BY <1>1, ElementOfSeq
<1> QED
  BY <1>1, <1>2, ObjectsAssumption DEF Bytes

\* The numbers of objects and of buffers, and the fields of an object.
LEMMA StrNumbers ==
  /\ ST!Id \in SUBSET (Nat \ {0}) /\ ST!Ptr \in SUBSET (Nat \ {0})
  /\ 1 \in ST!Id /\ 1 \in ST!Ptr
  /\ \A o \in Objects : o.ptr \in Nat /\ o.len \in Nat /\ o.orig \in Nat /\ o.frozen \in BOOLEAN
BY ObjectsAssumption DEF ST!Id, ST!Ptr, Objects

\* The text of an object is what it should read.
LEMMA ReadsText ==
  ASSUME NEW o \in Objects, NEW m \in [ST!Ptr -> Seq(Bytes) \cup {ST!Freed}],
         NEW w \in Seq(Bytes), Reads(o, m, w)
  PROVE  /\ m[o.ptr] \in Seq(Bytes)
         /\ SubSeq(m[o.ptr], 1, o.len) = w
<1>1. m[o.ptr] \in Seq(Bytes)
  BY DEF Reads
<1>2. PICK b \in Seq(Bytes) : b = m[o.ptr]
  BY <1>1
<1>3. PICK n \in Nat : n = o.len
  BY DEF Objects
<1>4. n <= Len(b) /\ Len(w) = n /\ \A k \in 1 .. n : b[k] = w[k]
  BY <1>2, <1>3 DEF Reads
<1>5. /\ SubSeq(b, 1, n) \in Seq(Bytes) /\ Len(SubSeq(b, 1, n)) = n
      /\ \A k \in 1 .. n : SubSeq(b, 1, n)[k] = b[k]
  <2>1. \A k \in 1 .. n : b[k] \in Bytes
    BY <1>4, LenProperties
  <2>2. /\ SubSeq(b, 1, n) \in Seq(Bytes)
        /\ Len(SubSeq(b, 1, n)) = IF 1 <= n THEN n - 1 + 1 ELSE 0
        /\ \A k \in 1 .. n - 1 + 1 : SubSeq(b, 1, n)[k] = b[1 + k - 1]
    BY <2>1, SubSeqProperties
  <2>3. n - 1 + 1 = n /\ \A k \in 1 .. n : 1 + k - 1 = k
    OBVIOUS
  <2> QED
    BY <2>2, <2>3
<1>6. SubSeq(b, 1, n) = w
  BY <1>4, <1>5, SeqEqual
<1> QED
  BY <1>1, <1>2, <1>3, <1>6

\* A new object with a buffer of its own.
LEMMA StrCopied ==
  ASSUME NEW s, NEW m, NEW v, StrInv(s, m, v),
         NEW i \in ST!Id, s[i].role = "free", NEW p \in ST!Ptr, m[p] = ST!Freed,
         NEW w \in Seq(Bytes),
         NEW o \in Objects, o.role = "user", o.ptr = p, o.len = Len(w), o.orig = 0,
         NEW s2, s2 = [s EXCEPT ![i] = o],
         NEW m2, m2 = [m EXCEPT ![p] = w],
         NEW v2, v2 = [v EXCEPT ![i] = w]
  PROVE  StrInv(s2, m2, v2)
<1>1. StrTypes(s, m, v)
  BY DEF StrInv
<1>4. /\ s2[i] = o /\ m2[p] = w /\ v2[i] = w
      /\ \A j \in ST!Id : j # i => s2[j] = s[j] /\ v2[j] = v[j]
      /\ \A q \in ST!Ptr : q # p => m2[q] = m[q]
      /\ StrTypes(s2, m2, v2)
  BY <1>1 DEF StrTypes
<1>5. Reads(s2[i], m2, v2[i]) /\ Shares(s2, i)
  <2>1. w # ST!Freed /\ Len(w) <= Len(w)
    BY FreedNoText, LenProperties
  <2> QED
    BY <1>4, <2>1 DEF Reads, Shares
<1>6. ASSUME NEW j \in ST!Id, j # i, s2[j].role # "free"
      PROVE  Reads(s2[j], m2, v2[j]) /\ Shares(s2, j)
  <2>1. s2[j] = s[j] /\ v2[j] = v[j] /\ s[j].role # "free"
    BY <1>4, <1>6
  <2>2. Reads(s[j], m, v[j]) /\ Shares(s, j)
    BY <2>1 DEF StrInv
  <2>3. s[j].ptr # p
    BY <2>2 DEF Reads
  <2>4. Reads(s2[j], m2, v2[j])
    BY <1>4, <2>1, <2>2, <2>3 DEF Reads
  <2>5. Shares(s2, j)
    BY <1>4, <2>1, <2>2 DEF Shares
  <2> QED
    BY <2>4, <2>5
<1>7. /\ \A q \in ST!Ptr : Owns(s2, i, q) <=> q = p
      /\ \A j \in ST!Id, q \in ST!Ptr : j # i => (Owns(s2, j, q) <=> Owns(s, j, q))
      /\ \A j \in ST!Id : ~Owns(s, j, p)
  <2>1. ASSUME NEW j \in ST!Id, Owns(s, j, p) PROVE FALSE
    <3>1. Reads(s[j], m, v[j]) /\ s[j].ptr = p
      BY <2>1 DEF StrInv, Owns
    <3> QED
      BY <3>1 DEF Reads
  <2> QED
    BY <1>4, <2>1 DEF Owns
<1>8. \A j, k \in ST!Id, q \in ST!Ptr : Owns(s2, j, q) /\ Owns(s2, k, q) => j = k
  <2> SUFFICES ASSUME NEW j \in ST!Id, NEW k \in ST!Id, NEW q \in ST!Ptr, Owns(s2, j, q), Owns(s2, k, q)
               PROVE  j = k
    OBVIOUS
  <2>1. CASE q = p
    <3>1. j = i
      BY <1>7, <2>1
    <3>2. k = i
      BY <1>7, <2>1
    <3> QED
      BY <3>1, <3>2
  <2>2. CASE q # p
    <3>1. Owns(s, j, q)
      BY <1>7, <2>2
    <3>2. Owns(s, k, q)
      BY <1>7, <2>2
    <3> QED
      BY <3>1, <3>2 DEF StrInv
  <2> QED
    BY <2>1, <2>2
<1>9. \A q \in ST!Ptr : m2[q] # ST!Freed => \E j \in ST!Id : Owns(s2, j, q)
  <2> SUFFICES ASSUME NEW q \in ST!Ptr, m2[q] # ST!Freed PROVE \E j \in ST!Id : Owns(s2, j, q)
    OBVIOUS
  <2>1. CASE q = p
    BY <1>7, <2>1
  <2>2. CASE q # p
    <3>1. PICK j \in ST!Id : Owns(s, j, q)
      BY <1>4, <2>2 DEF StrInv
    <3>2. j # i
      BY <3>1 DEF Owns
    <3> QED
      BY <1>7, <3>1, <3>2
  <2> QED
    BY <2>1, <2>2
<1> QED
  BY <1>4, <1>5, <1>6, <1>8, <1>9 DEF StrInv

\* A new object that shares the buffer of one out of the program's reach.
LEMMA StrShared ==
  ASSUME NEW s, NEW m, NEW v, StrInv(s, m, v),
         NEW i \in ST!Id, s[i].role = "free",
         NEW o \in ST!Id, s[o].role \notin {"free", "user"}, s[o].orig = 0,
         NEW e \in Objects, e.role # "free", e.ptr = s[o].ptr, e.len = s[o].len, e.orig = o,
         NEW s2, s2 = [s EXCEPT ![i] = e],
         NEW w \in Seq(Bytes), Reads(e, m, w),
         NEW v2, v2 = [v EXCEPT ![i] = w]
  PROVE  StrInv(s2, m, v2)
<1>1. StrTypes(s, m, v)
  BY DEF StrInv
<1>2. /\ s2[i] = e /\ v2[i] = w /\ StrTypes(s2, m, v2)
      /\ \A j \in ST!Id : j # i => s2[j] = s[j] /\ v2[j] = v[j]
  BY <1>1 DEF StrTypes
<1>3. i # o /\ o # 0
  BY StrNumbers
<1>4. Reads(s2[i], m, v2[i]) /\ Shares(s2, i)
  BY <1>2, <1>3 DEF Shares
<1>5. ASSUME NEW j \in ST!Id, j # i, s2[j].role # "free"
      PROVE  Reads(s2[j], m, v2[j]) /\ Shares(s2, j)
  <2>1. s2[j] = s[j] /\ v2[j] = v[j] /\ s[j].role # "free"
    BY <1>2, <1>5
  <2>2. Reads(s[j], m, v[j]) /\ Shares(s, j)
    BY <2>1 DEF StrInv
  <2> QED
    BY <1>2, <2>1, <2>2 DEF Shares
<1>6. \A j \in ST!Id, q \in ST!Ptr : Owns(s2, j, q) <=> Owns(s, j, q)
  BY <1>2, <1>3 DEF Owns
<1> QED
  BY <1>2, <1>4, <1>5, <1>6 DEF StrInv

\* Objects are frozen, or let go.
LEMMA StrRoles ==
  ASSUME NEW s, NEW m, NEW v, StrInv(s, m, v), NEW s2 \in [ST!Id -> Objects],
         \A i \in ST!Id : s2[i].ptr = s[i].ptr /\ s2[i].len = s[i].len /\ s2[i].orig = s[i].orig,
         \A i \in ST!Id : \/ s2[i].role = s[i].role
                          \/ s[i].role \in {"user", "match"} /\ s2[i].role = "garbage"
  PROVE  StrInv(s2, m, v)
<1>1. StrTypes(s2, m, v)
  BY DEF StrInv, StrTypes
<1>2. ASSUME NEW i \in ST!Id, s2[i].role # "free"
      PROVE  Reads(s2[i], m, v[i]) /\ Shares(s2, i)
  <2>1. s[i].role # "free"
    BY <1>2
  <2>2. Reads(s[i], m, v[i]) /\ Shares(s, i)
    BY <2>1 DEF StrInv
  <2>3. Reads(s2[i], m, v[i])
    BY <2>2 DEF Reads
  <2>4. Shares(s2, i)
    BY <2>2 DEF Shares
  <2> QED
    BY <2>3, <2>4
<1>3. \A i \in ST!Id, p \in ST!Ptr : Owns(s2, i, p) <=> Owns(s, i, p)
  BY DEF Owns
<1> QED
  BY <1>1, <1>2, <1>3 DEF StrInv

\* A string of the program that owns its buffer is the only one that uses it.
LEMMA StrAlone ==
  ASSUME NEW s, NEW m, NEW v, StrInv(s, m, v), NEW i \in ST!Id, s[i].role = "user", s[i].orig = 0,
         NEW j \in ST!Id, j # i, s[j].role # "free"
  PROVE  s[j].ptr # s[i].ptr /\ s[j].orig # i
<1>1. Reads(s[i], m, v[i]) /\ Reads(s[j], m, v[j]) /\ Shares(s, j)
  BY DEF StrInv
<1>2. s[j].orig # i
  BY <1>1, StrNumbers DEF Shares
<1>3. ASSUME s[j].ptr = s[i].ptr PROVE FALSE
  <2>1. PICK p \in ST!Ptr : p = s[i].ptr
    BY <1>1 DEF Reads
  <2>2. Owns(s, i, p)
    BY <2>1 DEF Owns
  <2>3. CASE s[j].orig = 0
    <3>1. Owns(s, j, p)
      BY <1>3, <2>1, <2>3 DEF Owns
    <3> QED
      BY <2>2, <3>1 DEF StrInv
  <2>4. CASE s[j].orig # 0
    <3>1. PICK o \in ST!Id : o = s[j].orig
      BY <1>1, <2>4 DEF Shares
    <3>2. s[o].role # "free" /\ s[o].orig = 0 /\ s[o].ptr = p /\ o # i
      BY <1>1, <1>2, <1>3, <2>1, <2>4, <3>1 DEF Shares
    <3>3. Owns(s, o, p)
      BY <3>2 DEF Owns
    <3> QED
      BY <2>2, <3>2, <3>3 DEF StrInv
  <2> QED
    BY <2>3, <2>4
<1> QED
  BY <1>2, <1>3

\* A string of the program gives its buffer to a new object for $~.
LEMMA StrGiven ==
  ASSUME NEW s, NEW m, NEW v, StrInv(s, m, v),
         NEW n \in ST!Id, s[n].role = "free",
         NEW i \in ST!Id, s[i].role = "user", s[i].orig = 0,
         NEW o \in Objects, o.role = "match", o.ptr = s[i].ptr, o.len = s[i].len, o.orig = 0,
         NEW e \in Objects, e.role = "user", e.ptr = s[i].ptr, e.len = s[i].len, e.orig = n,
         NEW s2, s2 = [s EXCEPT ![n] = o, ![i] = e],
         NEW v2, v2 = [v EXCEPT ![n] = v[i]]
  PROVE  StrInv(s2, m, v2)
<1>1. StrTypes(s, m, v) /\ n # i /\ n # 0 /\ n \in Nat
  BY StrNumbers DEF StrInv
<1>2. /\ s2 \in [ST!Id -> Objects] /\ s2[n] = o /\ s2[i] = e
      /\ \A j \in ST!Id : j # n /\ j # i => s2[j] = s[j]
  BY <1>1 DEF StrTypes
<1>3. /\ v2 \in [ST!Id -> Seq(Bytes)] /\ v2[n] = v[i] /\ v2[i] = v[i]
      /\ \A j \in ST!Id : j # n /\ j # i => v2[j] = v[j]
  BY <1>1 DEF StrTypes
<1>7. /\ \A j \in ST!Id : j # n /\ j # i => s2[j] = s[j] /\ v2[j] = v[j]
      /\ StrTypes(s2, m, v2)
  BY <1>1, <1>2, <1>3 DEF StrTypes
<1>8. Reads(s[i], m, v[i])
  BY DEF StrInv
<1>9. Reads(s2[i], m, v2[i]) /\ Reads(s2[n], m, v2[n])
  <2>1. ASSUME NEW w, Reads(s[i], m, w) PROVE Reads(o, m, w) /\ Reads(e, m, w)
    BY <2>1 DEF Reads
  <2> QED
    BY <1>2, <1>3, <1>8, <2>1
<1>10. Shares(s2, i) /\ Shares(s2, n)
  BY <1>1, <1>2 DEF Shares
<1>11. ASSUME NEW j \in ST!Id, j # n, j # i, s2[j].role # "free"
       PROVE  Reads(s2[j], m, v2[j]) /\ Shares(s2, j)
  <2>1. s2[j] = s[j] /\ v2[j] = v[j] /\ s[j].role # "free"
    BY <1>7, <1>11
  <2>2. Reads(s[j], m, v[j]) /\ Shares(s, j)
    BY <2>1 DEF StrInv
  <2>3. Shares(s2, j)
    <3>1. CASE s[j].orig = 0
      BY <2>1, <3>1 DEF Shares
    <3>2. CASE s[j].orig # 0
      <4>1. PICK q \in ST!Id : q = s[j].orig
        BY <2>2, <3>2 DEF Shares
      <4>2. q # n /\ q # i
        BY <2>2, <3>2, <4>1 DEF Shares
      <4>3. s2[q] = s[q]
        BY <1>7, <4>2
      <4> QED
        BY <2>1, <2>2, <4>1, <4>3 DEF Shares
    <3> QED
      BY <3>1, <3>2
  <2> QED
    BY <2>1, <2>2, <2>3
<1>12. /\ \A p \in ST!Ptr : Owns(s2, n, p) <=> Owns(s, i, p)
       /\ \A p \in ST!Ptr : ~Owns(s2, i, p)
       /\ \A j \in ST!Id, p \in ST!Ptr : j # n /\ j # i => (Owns(s2, j, p) <=> Owns(s, j, p))
       /\ \A p \in ST!Ptr : ~Owns(s, n, p)
  BY <1>1, <1>2, <1>7 DEF Owns
<1>13. ASSUME NEW j \in ST!Id, NEW k \in ST!Id, NEW p \in ST!Ptr, Owns(s2, j, p), Owns(s2, k, p)
       PROVE  j = k
  <2>1. j # i /\ k # i
    BY <1>12, <1>13
  <2>2. ASSUME NEW x \in ST!Id, x # n, x # i, Owns(s2, x, p), Owns(s2, n, p) PROVE FALSE
    BY <1>12, <2>2 DEF StrInv
  <2>3. CASE j = n
    BY <1>13, <2>1, <2>2, <2>3
  <2>4. CASE k = n
    BY <1>13, <2>1, <2>2, <2>4
  <2>5. CASE j # n /\ k # n
    <3>1. Owns(s, j, p) /\ Owns(s, k, p)
      BY <1>12, <1>13, <2>1, <2>5
    <3> QED
      BY <3>1 DEF StrInv
  <2> QED
    BY <2>3, <2>4, <2>5
<1>14. ASSUME NEW p \in ST!Ptr, m[p] # ST!Freed
       PROVE  \E j \in ST!Id : Owns(s2, j, p)
  <2>1. PICK j \in ST!Id : Owns(s, j, p)
    BY <1>14 DEF StrInv
  <2>2. j # n
    BY <1>12, <2>1
  <2> QED
    BY <1>12, <2>1, <2>2
<1>15. \A j \in ST!Id : s2[j].role # "free" => Reads(s2[j], m, v2[j]) /\ Shares(s2, j)
  BY <1>9, <1>10, <1>11
<1> QED
  BY <1>7, <1>13, <1>14, <1>15 DEF StrInv

\* The text is in the buffer p, and what was in another is freed.
Written(m, m2, old, p, text) ==
  /\ m2 \in [ST!Ptr -> Seq(Bytes) \cup {ST!Freed}]
  /\ m2[p] = text
  /\ p # old => m2[old] = ST!Freed
  /\ \A q \in ST!Ptr : q # p /\ q # old => m2[q] = m[q]

\* A string of the program that owns its buffer gets another text, in it or in a new
\* one, and the old one is freed.
LEMMA StrWritten ==
  ASSUME NEW s, NEW m, NEW v, StrInv(s, m, v),
         NEW i \in ST!Id, s[i].role = "user", s[i].orig = 0,
         NEW p \in ST!Ptr, p = s[i].ptr \/ m[p] = ST!Freed,
         NEW b \in Seq(Bytes), NEW w \in Seq(Bytes), Len(w) <= Len(b),
         \A k \in 1 .. Len(w) : b[k] = w[k],
         NEW e \in Objects, e.role = "user", e.ptr = p, e.len = Len(w), e.orig = 0,
         NEW s2, s2 = [s EXCEPT ![i] = e],
         NEW m2, Written(m, m2, s[i].ptr, p, b),
         NEW v2, v2 = [v EXCEPT ![i] = w]
  PROVE  StrInv(s2, m2, v2)
<1> USE DEF Written
<1>1. StrTypes(s, m, v) /\ Reads(s[i], m, v[i])
  BY DEF StrInv
<1>2. s2 \in [ST!Id -> Objects] /\ s2[i] = e /\ \A j \in ST!Id : j # i => s2[j] = s[j]
  BY <1>1 DEF StrTypes
<1>3. v2 \in [ST!Id -> Seq(Bytes)] /\ v2[i] = w /\ \A j \in ST!Id : j # i => v2[j] = v[j]
  BY <1>1 DEF StrTypes
<1>4. StrTypes(s2, m2, v2)
  BY <1>2, <1>3 DEF StrTypes
<1>5. Reads(s2[i], m2, v2[i]) /\ Shares(s2, i)
  <2>1. Reads(e, m2, w)
    BY FreedNoText DEF Reads
  <2> QED
    BY <1>2, <1>3, <2>1 DEF Shares
<1>6. ASSUME NEW j \in ST!Id, j # i, s[j].role # "free"
      PROVE  s[j].ptr \in ST!Ptr /\ s[j].ptr # p /\ s[j].ptr # s[i].ptr /\ s[j].orig # i
  <2>1. Reads(s[j], m, v[j])
    BY <1>6 DEF StrInv
  <2>2. s[j].ptr # s[i].ptr /\ s[j].orig # i
    BY <1>6, StrAlone
  <2> QED
    BY <2>1, <2>2 DEF Reads
<1>7. ASSUME NEW j \in ST!Id, j # i, s2[j].role # "free"
      PROVE  Reads(s2[j], m2, v2[j]) /\ Shares(s2, j)
  <2>1. s2[j] = s[j] /\ v2[j] = v[j] /\ s[j].role # "free"
    BY <1>2, <1>3, <1>7
  <2>2. Reads(s[j], m, v[j]) /\ Shares(s, j)
    BY <2>1 DEF StrInv
  <2>3. m2[s[j].ptr] = m[s[j].ptr] /\ s[j].orig # i
    BY <1>6, <1>7, <2>1
  <2>4. Reads(s2[j], m2, v2[j])
    <3>1. PICK o : o = s[j]
      OBVIOUS
    <3>2. PICK c : c = m[o.ptr] /\ c = m2[o.ptr]
      BY <2>3, <3>1
    <3>3. Reads(o, m2, v[j])
      BY <2>2, <3>1, <3>2 DEF Reads
    <3> QED
      BY <2>1, <3>1, <3>3
  <2>5. Shares(s2, j)
    BY <1>2, <2>1, <2>2, <2>3 DEF Shares
  <2> QED
    BY <2>4, <2>5
<1>8. /\ \A q \in ST!Ptr : Owns(s2, i, q) <=> q = p
      /\ \A j \in ST!Id, q \in ST!Ptr : j # i => (Owns(s2, j, q) <=> Owns(s, j, q))
      /\ \A j \in ST!Id : j # i => ~Owns(s, j, p) /\ ~Owns(s, j, s[i].ptr)
  BY <1>2, <1>6 DEF Owns
<1>9. ASSUME NEW j \in ST!Id, NEW k \in ST!Id, NEW q \in ST!Ptr, Owns(s2, j, q), Owns(s2, k, q)
      PROVE  j = k
  <2>1. ASSUME NEW x \in ST!Id, x # i, Owns(s2, x, q), Owns(s2, i, q) PROVE FALSE
    <3>1. q = p
      BY <1>8, <2>1
    <3> QED
      BY <1>8, <2>1, <3>1
  <2>2. CASE j = i
    BY <1>9, <2>1, <2>2
  <2>3. CASE k = i
    BY <1>9, <2>1, <2>3
  <2>4. CASE j # i /\ k # i
    <3>1. Owns(s, j, q) /\ Owns(s, k, q)
      BY <1>8, <1>9, <2>4
    <3> QED
      BY <3>1 DEF StrInv
  <2> QED
    BY <2>2, <2>3, <2>4
<1>10. ASSUME NEW q \in ST!Ptr, m2[q] # ST!Freed
       PROVE  \E j \in ST!Id : Owns(s2, j, q)
  <2>1. CASE q = p
    BY <1>8, <2>1
  <2>2. CASE q # p
    <3>1. q # s[i].ptr
      BY <1>10, <2>2
    <3>2. PICK j \in ST!Id : Owns(s, j, q)
      BY <1>10, <2>2, <3>1 DEF StrInv
    <3>3. j # i
      BY <3>1, <3>2 DEF Owns
    <3> QED
      BY <1>8, <3>2, <3>3
  <2> QED
    BY <2>1, <2>2
<1>11. \A j \in ST!Id : s2[j].role # "free" => Reads(s2[j], m2, v2[j]) /\ Shares(s2, j)
  BY <1>5, <1>7
<1> QED
  BY <1>4, <1>9, <1>10, <1>11 DEF StrInv

\* Where there is room, there is a number for an object, and one for a buffer.
LEMMA StrRoom ==
  /\ ST!Room => ST!NewId \in ST!Id /\ strs[ST!NewId].role = "free"
  /\ ST!RoomMem => ST!Fresh \in ST!Ptr /\ mem[ST!Fresh] = ST!Freed
<1>1. ASSUME NEW A \in SUBSET Nat, A # {} PROVE ST!Min(A) \in A
  <2>1. \E x \in A : \A y \in A : x <= y
    BY <1>1, LeastNumber
  <2> QED
    BY <2>1 DEF ST!Min
<1>2. ASSUME ST!Room PROVE ST!NewId \in ST!Id /\ strs[ST!NewId].role = "free"
  <2>1. PICK A : A = ST!Id \ ST!Live
    OBVIOUS
  <2>2. A \in SUBSET Nat /\ A # {}
    BY <1>2, <2>1, StrNumbers DEF ST!Room, ST!Live
  <2>3. ST!NewId \in A
    BY <1>1, <2>1, <2>2 DEF ST!NewId
  <2> QED
    BY <2>1, <2>3 DEF ST!Live
<1>3. ASSUME ST!RoomMem PROVE ST!Fresh \in ST!Ptr /\ mem[ST!Fresh] = ST!Freed
  <2>1. PICK A : A = ST!Ptr \ ST!Buffers
    OBVIOUS
  <2>2. A \in SUBSET Nat /\ A # {}
    BY <1>3, <2>1, StrNumbers DEF ST!RoomMem, ST!Buffers
  <2>3. ST!Fresh \in A
    BY <1>1, <2>1, <2>2 DEF ST!Fresh
  <2> QED
    BY <2>1, <2>3 DEF ST!Buffers
<1> QED
  BY <1>2, <1>3

\* str_modify() gives a string that shares a buffer one of its own.
LEMMA StrModified ==
  ASSUME StrInv(strs, mem, val), NEW i \in ST!Id, ST!CanModify(i), NEW r, r = ST!str_modify(i)
  PROVE  /\ StrInv(r.s, r.m, val)
         /\ r.s[i].role = "user" /\ r.s[i].orig = 0 /\ r.s[i].len = strs[i].len
<1>1. strs[i].role = "user" /\ ST!RoomMem
  BY DEF ST!CanModify, ST!Users
<1>2. CASE strs[i].orig = 0
  <2>1. r = [s |-> strs, m |-> mem]
    BY <1>2 DEF ST!str_modify
  <2> QED
    BY <1>1, <1>2, <2>1
<1>3. CASE strs[i].orig # 0
  <2>1. PICK p \in ST!Ptr : p = ST!Fresh /\ mem[p] = ST!Freed
    BY <1>1, StrRoom
  <2>2. StrTypes(strs, mem, val) /\ Reads(strs[i], mem, val[i]) /\ Shares(strs, i)
    BY <1>1 DEF StrInv
  <2>3. ST!Text(i) = val[i]
    BY <2>2, ReadsText DEF ST!Text, StrTypes
  <2>4. strs[i] \in Objects /\ p \in Nat /\ val[i] \in Seq(Bytes)
    BY <2>2, StrNumbers DEF StrTypes
  <2>5. PICK e : e = [strs[i] EXCEPT !.ptr = p, !.orig = 0]
    OBVIOUS
  <2>6. e \in Objects /\ e.role = "user" /\ e.ptr = p /\ e.len = strs[i].len /\ e.orig = 0
    BY <1>1, <2>4, <2>5 DEF Objects
  <2>7. PICK w \in Seq(Bytes) : w = val[i]
    BY <2>4
  <2>8. PICK s : s = r.s
    OBVIOUS
  <2>9. PICK m : m = r.m
    OBVIOUS
  <2>10. s = [strs EXCEPT ![i] = e] /\ m = [mem EXCEPT ![p] = w]
    <3>1. r = [s |-> ST!Owner(i, p), m |-> [mem EXCEPT ![p] = w]]
      BY <1>3, <2>1, <2>3, <2>7 DEF ST!str_modify
    <3>2. ST!Owner(i, p) = [strs EXCEPT ![i] = e]
      BY <2>2, <2>5 DEF ST!Owner, StrTypes
    <3> QED
      BY <2>8, <2>9, <3>1, <3>2
  <2>11. /\ s[i] = e /\ m[p] = w
         /\ \A j \in ST!Id : j # i => s[j] = strs[j]
         /\ \A q \in ST!Ptr : q # p => m[q] = mem[q]
         /\ StrTypes(s, m, val)
    BY <2>2, <2>6, <2>10 DEF StrTypes
  <2>12. Reads(s[i], m, val[i]) /\ Shares(s, i)
    <3>1. Reads(e, m, w)
      <4>1. Len(w) = e.len /\ w # ST!Freed /\ Len(w) <= Len(w)
        BY <2>2, <2>6, <2>7, FreedNoText, LenProperties DEF Reads
      <4> QED
        BY <2>6, <2>11, <4>1 DEF Reads
    <3> QED
      BY <2>6, <2>7, <2>11, <3>1 DEF Shares
  <2>13. ASSUME NEW j \in ST!Id, j # i, s[j].role # "free"
         PROVE  Reads(s[j], m, val[j]) /\ Shares(s, j)
    <3>1. s[j] = strs[j] /\ strs[j].role # "free"
      BY <2>11, <2>13
    <3>2. Reads(strs[j], mem, val[j]) /\ Shares(strs, j)
      BY <3>1 DEF StrInv
    <3>3. Reads(s[j], m, val[j])
      <4>1. PICK o : o = strs[j]
        OBVIOUS
      <4>2. m[o.ptr] = mem[o.ptr]
        BY <2>1, <2>11, <3>2, <4>1 DEF Reads
      <4>3. Reads(o, m, val[j])
        BY <3>2, <4>1, <4>2 DEF Reads
      <4> QED
        BY <3>1, <4>1, <4>3
    <3>4. Shares(s, j)
      <4>1. strs[j].orig # 0 => strs[j].orig # i
        BY <1>1, <3>2 DEF Shares
      <4> QED
        BY <2>11, <3>1, <3>2, <4>1 DEF Shares
    <3> QED
      BY <3>3, <3>4
  <2>14. /\ \A q \in ST!Ptr : Owns(s, i, q) <=> q = p
         /\ \A j \in ST!Id, q \in ST!Ptr : j # i => (Owns(s, j, q) <=> Owns(strs, j, q))
         /\ \A q \in ST!Ptr : ~Owns(strs, i, q)
    BY <1>3, <2>6, <2>11 DEF Owns
  <2>15. \A j \in ST!Id : ~Owns(strs, j, p)
    <3>1. ASSUME NEW j \in ST!Id, Owns(strs, j, p) PROVE FALSE
      <4>1. Reads(strs[j], mem, val[j]) /\ strs[j].ptr = p
        BY <3>1 DEF StrInv, Owns
      <4> QED
        BY <2>1, <4>1 DEF Reads
    <3> QED
      BY <3>1
  <2>16. ASSUME NEW j \in ST!Id, NEW k \in ST!Id, NEW q \in ST!Ptr, Owns(s, j, q), Owns(s, k, q)
         PROVE  j = k
    <3>1. ASSUME NEW x \in ST!Id, x # i, Owns(s, x, q), Owns(s, i, q) PROVE FALSE
      <4>1. q = p /\ Owns(strs, x, q)
        BY <2>14, <3>1
      <4> QED
        BY <2>15, <4>1
    <3>2. CASE j = i
      BY <2>16, <3>1, <3>2
    <3>3. CASE k = i
      BY <2>16, <3>1, <3>3
    <3>4. CASE j # i /\ k # i
      <4>1. Owns(strs, j, q) /\ Owns(strs, k, q)
        BY <2>14, <2>16, <3>4
      <4> QED
        BY <4>1 DEF StrInv
    <3> QED
      BY <3>2, <3>3, <3>4
  <2>17. ASSUME NEW q \in ST!Ptr, m[q] # ST!Freed
         PROVE  \E j \in ST!Id : Owns(s, j, q)
    <3>1. CASE q = p
      BY <2>14, <3>1
    <3>2. CASE q # p
      <4>1. PICK j \in ST!Id : Owns(strs, j, q)
        BY <2>11, <2>17, <3>2 DEF StrInv
      <4>2. j # i
        BY <2>14, <4>1
      <4> QED
        BY <2>14, <4>1, <4>2
    <3> QED
      BY <3>1, <3>2
  <2>18. \A j \in ST!Id : s[j].role # "free" => Reads(s[j], m, val[j]) /\ Shares(s, j)
    BY <2>12, <2>13
  <2>19. StrInv(s, m, val)
    BY <2>11, <2>16, <2>17, <2>18 DEF StrInv
  <2> QED
    BY <2>6, <2>8, <2>9, <2>11, <2>19
<1> QED
  BY <1>2, <1>3

\* The collector marks what is not garbage, and what that shares a buffer of.
LEMMA StrMarked ==
  ASSUME StrInv(strs, mem, val)
  PROVE  /\ ST!Marked \subseteq ST!Live
         /\ \A j \in ST!Live : strs[j].role # "garbage" => j \in ST!Marked
         /\ \A j \in ST!Marked : strs[j].orig # 0 => strs[j].orig \in ST!Marked
<1>1. ST!Marked \subseteq ST!Live
  BY DEF ST!Marked
<1>2. \A j \in ST!Live : strs[j].role # "garbage" => j \in ST!Marked
  BY DEF ST!Marked
<1>3. ASSUME NEW j \in ST!Marked, strs[j].orig # 0 PROVE strs[j].orig \in ST!Marked
  <2>1. PICK o : o = strs[j].orig
    OBVIOUS
  <2>2. o \in ST!Live
    <3>1. j \in ST!Id /\ strs[j].role # "free"
      BY <1>1 DEF ST!Live
    <3>2. Shares(strs, j)
      BY <3>1 DEF StrInv
    <3> QED
      BY <1>3, <2>1, <3>2 DEF Shares, ST!Live
  <2>3. ASSUME NEW S \in SUBSET ST!Live,
               \A k \in ST!Live : strs[k].role # "garbage" => k \in S,
               \A k \in S : strs[k].orig \in S \cup {0}
        PROVE  o \in S
    <3>1. j \in S
      BY <2>3 DEF ST!Marked
    <3> QED
      BY <1>3, <2>1, <2>3, <3>1
  <2>4. o \in ST!Marked
    BY <2>2, <2>3 DEF ST!Marked
  <2> QED
    BY <2>1, <2>4
<1> QED
  BY <1>1, <1>2, <1>3

\* A collection frees the buffers that nobody reads any more.
LEMMA StrCollected ==
  ASSUME StrInv(strs, mem, val), ST!gc
  PROVE  StrInv(strs', mem', val')
<1>1. PICK dead : dead = ST!Live \ ST!Marked
  OBVIOUS
<1>2. PICK gone : gone = {strs[i].ptr : i \in {j \in dead : strs[j].orig = 0}}
  OBVIOUS
<1>3. /\ strs' = [i \in ST!Id |-> IF i \in dead THEN ST!Gone ELSE strs[i]]
      /\ mem' = [p \in ST!Ptr |-> IF p \in gone THEN ST!Freed ELSE mem[p]]
      /\ val' = [i \in ST!Id |-> IF i \in dead THEN <<>> ELSE val[i]]
  BY <1>1, <1>2 DEF ST!gc
<1>4. StrTypes(strs, mem, val)
  BY DEF StrInv
<1>5. ST!Gone \in Objects /\ ST!Gone.role = "free"
  BY DEF ST!Gone, Objects
<1>6. StrTypes(strs', mem', val')
  <2>1. <<>> \in Seq(Bytes)
    BY EmptySeq
  <2> QED
    BY <1>3, <1>4, <1>5, <2>1 DEF StrTypes
<1>7. ASSUME NEW i \in ST!Id, strs'[i].role # "free"
      PROVE  strs'[i] = strs[i] /\ val'[i] = val[i] /\ strs[i].role # "free" /\ i \in ST!Marked
  BY <1>1, <1>3, <1>5, <1>7 DEF ST!Live
<1>8. ASSUME NEW i \in ST!Marked
      PROVE  i \in ST!Id /\ strs[i].role # "free" /\ strs'[i] = strs[i]
  BY <1>1, <1>3, StrMarked DEF ST!Live
<1>9. ASSUME NEW i \in ST!Marked
      PROVE  strs[i].ptr \notin gone
  <2>1. i \in ST!Id /\ strs[i].role # "free"
    BY <1>8
  <2>2. Reads(strs[i], mem, val[i]) /\ Shares(strs, i)
    BY <2>1 DEF StrInv
  <2>3. PICK p \in ST!Ptr : p = strs[i].ptr
    BY <2>2 DEF Reads
  <2>4. PICK o \in ST!Marked : Owns(strs, o, p)
    <3>1. CASE strs[i].orig = 0
      BY <2>1, <2>3, <3>1 DEF Owns
    <3>2. CASE strs[i].orig # 0
      <4>1. strs[i].orig \in ST!Marked
        BY <3>2, StrMarked
      <4> QED
        BY <2>2, <2>3, <3>2, <4>1 DEF Shares, Owns
    <3> QED
      BY <3>1, <3>2
  <2>5. ASSUME NEW d \in dead, strs[d].orig = 0, strs[d].ptr = p PROVE FALSE
    <3>1. d \in ST!Id /\ d \notin ST!Marked /\ Owns(strs, d, p)
      BY <1>1, <2>5 DEF ST!Live, Owns
    <3>2. o \in ST!Id
      BY <1>8
    <3> QED
      BY <2>4, <3>1, <3>2 DEF StrInv
  <2> QED
    BY <1>2, <2>3, <2>5
<1>10. ASSUME NEW i \in ST!Id, strs'[i].role # "free"
       PROVE  Reads(strs'[i], mem', val'[i]) /\ Shares(strs', i)
  <2>1. strs'[i] = strs[i] /\ val'[i] = val[i] /\ strs[i].role # "free" /\ i \in ST!Marked
    BY <1>7, <1>10
  <2>2. Reads(strs[i], mem, val[i]) /\ Shares(strs, i)
    BY <2>1 DEF StrInv
  <2>3. strs[i].ptr \in ST!Ptr /\ mem'[strs[i].ptr] = mem[strs[i].ptr]
    BY <1>3, <1>9, <2>1, <2>2 DEF Reads
  <2>4. Reads(strs'[i], mem', val'[i])
    BY <2>1, <2>2, <2>3 DEF Reads
  <2>5. Shares(strs', i)
    <3>1. CASE strs[i].orig = 0
      BY <2>1, <3>1 DEF Shares
    <3>2. CASE strs[i].orig # 0
      <4>1. PICK o \in ST!Marked : o = strs[i].orig
        BY <2>1, <3>2, StrMarked
      <4>2. strs'[o] = strs[o]
        BY <1>8
      <4> QED
        BY <2>1, <2>2, <4>1, <4>2 DEF Shares
    <3> QED
      BY <3>1, <3>2
  <2> QED
    BY <2>4, <2>5
<1>11. ASSUME NEW i \in ST!Id, NEW p \in ST!Ptr, Owns(strs', i, p)
       PROVE  Owns(strs, i, p)
  <2>1. strs'[i] = strs[i]
    BY <1>7, <1>11 DEF Owns
  <2> QED
    BY <1>11, <2>1 DEF Owns
<1>12. \A i, j \in ST!Id, p \in ST!Ptr : Owns(strs', i, p) /\ Owns(strs', j, p) => i = j
  BY <1>11 DEF StrInv
<1>13. ASSUME NEW p \in ST!Ptr, mem'[p] # ST!Freed
       PROVE  \E i \in ST!Id : Owns(strs', i, p)
  <2>1. p \notin gone /\ mem[p] # ST!Freed
    BY <1>3, <1>13
  <2>2. PICK i \in ST!Id : Owns(strs, i, p)
    BY <2>1 DEF StrInv
  <2>3. i \notin dead
    BY <1>2, <2>1, <2>2 DEF Owns
  <2>4. strs'[i] = strs[i]
    BY <1>3, <2>3
  <2>5. Owns(strs', i, p)
    BY <2>2, <2>4 DEF Owns
  <2> QED
    BY <2>5
<1> QED
  BY <1>6, <1>10, <1>12, <1>13 DEF StrInv

\* A string is made, by copying.
LEMMA StrCopiedStep ==
  ASSUME StrInv(strs, mem, val), NEW w \in Seq(Bytes), NEW frozen_ \in BOOLEAN,
         ST!Copied(w, "user", frozen_)
  PROVE  StrInv(strs', mem', val')
<1>1. PICK i \in ST!Id : i = ST!NewId /\ strs[i].role = "free"
  BY StrRoom DEF ST!Copied
<1>2. PICK p \in ST!Ptr : p = ST!Fresh /\ mem[p] = ST!Freed
  BY StrRoom DEF ST!Copied
<1>3. PICK o : o = ST!Object(p, Len(w), 0, "user", frozen_)
  OBVIOUS
<1>4. o \in Objects /\ o.role = "user" /\ o.ptr = p /\ o.len = Len(w) /\ o.orig = 0
  BY <1>3, StrNumbers, LenProperties DEF ST!Object, Objects
<1>5. PICK s, m, v : s = strs' /\ m = mem' /\ v = val'
  OBVIOUS
<1>6. s = [strs EXCEPT ![i] = o] /\ m = [mem EXCEPT ![p] = w] /\ v = [val EXCEPT ![i] = w]
  BY <1>1, <1>2, <1>3, <1>5 DEF ST!Copied
<1>7. StrInv(s, m, v)
  BY <1>1, <1>2, <1>4, <1>6, StrCopied
<1> QED
  BY <1>5, <1>7

\* What a live object should read is in its buffer.
LEMMA StrText ==
  ASSUME StrInv(strs, mem, val), NEW i \in ST!Id, strs[i].role # "free"
  PROVE  /\ strs[i] \in Objects /\ val[i] \in Seq(Bytes)
         /\ Reads(strs[i], mem, val[i]) /\ Shares(strs, i) /\ ST!Text(i) = val[i]
<1>1. strs[i] \in Objects /\ val[i] \in Seq(Bytes) /\ StrTypes(strs, mem, val)
  BY DEF StrInv, StrTypes
<1>2. Reads(strs[i], mem, val[i]) /\ Shares(strs, i)
  BY DEF StrInv
<1> QED
  BY <1>1, <1>2, ReadsText DEF ST!Text, StrTypes

\* A new object shares the buffer of another.
LEMMA StrSharedStep ==
  ASSUME StrInv(strs, mem, val), ST!Room,
         NEW o \in ST!Id, strs[o].role \notin {"free", "user"}, strs[o].orig = 0,
         NEW role \in {"user", "match"}, NEW frozen_ \in BOOLEAN,
         NEW w \in Seq(Bytes), Reads(strs[o], mem, w)
  PROVE  StrInv([strs EXCEPT ![ST!NewId] = ST!Object(strs[o].ptr, strs[o].len, o, role, frozen_)],
                mem, [val EXCEPT ![ST!NewId] = w])
<1>1. PICK i \in ST!Id : i = ST!NewId /\ strs[i].role = "free"
  BY StrRoom
<1>2. PICK x \in Objects : x = strs[o]
  BY StrText
<1>3. PICK e : e = ST!Object(x.ptr, x.len, o, role, frozen_)
  OBVIOUS
<1>4. /\ e \in Objects /\ e.role = role /\ e.ptr = x.ptr /\ e.len = x.len /\ e.orig = o
  BY <1>3, StrNumbers DEF ST!Object, Objects
<1>5. Reads(e, mem, w)
  BY <1>2, <1>4 DEF Reads
<1>6. e.role # "free" /\ e.ptr = strs[o].ptr /\ e.len = strs[o].len
  BY <1>2, <1>4
<1>7. PICK s : s = [strs EXCEPT ![i] = e]
  OBVIOUS
<1>8. PICK v : v = [val EXCEPT ![i] = w]
  OBVIOUS
<1>9. StrInv(s, mem, v)
  BY <1>1, <1>4, <1>5, <1>6, <1>7, <1>8, StrShared
<1> QED
  BY <1>1, <1>2, <1>3, <1>7, <1>8, <1>9

\* $~ keeps the text that was searched, and the one it kept is let go.
LEMMA StrSearched ==
  ASSUME StrInv(strs, mem, val), ST!reg_search
  PROVE  StrInv(strs', mem', val')
<1>1. PICK i \in ST!Users :
        /\ ST!Room
        /\ strs' = [j \in ST!Id |-> IF strs[j].role = "match"
                                    THEN [ST!str_new4(i)[j] EXCEPT !.role = "garbage"]
                                    ELSE ST!str_new4(i)[j]]
        /\ val' = [val EXCEPT ![ST!NewId] = val[i]] /\ UNCHANGED mem
  BY DEF ST!reg_search
<1>2. i \in ST!Id /\ strs[i].role = "user"
  BY DEF ST!Users
<1>3. /\ strs[i] \in Objects /\ val[i] \in Seq(Bytes)
      /\ Reads(strs[i], mem, val[i]) /\ Shares(strs, i)
  BY <1>2, StrText
<1>4. PICK n \in ST!Id : n = ST!NewId /\ strs[n].role = "free"
  BY <1>1, StrRoom
<1>5. PICK s : s = ST!str_new4(i)
  OBVIOUS
<1>6. PICK v : v = val'
  OBVIOUS
<1>7. v = [val EXCEPT ![n] = val[i]]
  BY <1>1, <1>4, <1>6
<1>8. StrInv(s, mem, v) /\ \A j \in ST!Id : strs[j].role = "match" => s[j].role = "match"
  <2>1. CASE strs[i].orig = 0
    <3>1. PICK x \in Objects : x = strs[i] /\ x.role = "user" /\ x.orig = 0
      BY <1>2, <1>3, <2>1
    <3>2. PICK o : o = ST!Object(x.ptr, x.len, 0, "match", FALSE)
      OBVIOUS
    <3>3. o \in Objects /\ o.role = "match" /\ o.ptr = x.ptr /\ o.len = x.len /\ o.orig = 0
      BY <3>2 DEF ST!Object, Objects
    <3>4. PICK e : e = [x EXCEPT !.orig = n]
      OBVIOUS
    <3>5. e \in Objects /\ e.role = "user" /\ e.ptr = x.ptr /\ e.len = x.len /\ e.orig = n
      BY <3>1, <3>4, StrNumbers DEF Objects
    <3>6. n # i /\ strs \in [ST!Id -> Objects]
      BY <1>2, <1>4 DEF StrInv, StrTypes
    <3>7. s = [strs EXCEPT ![n] = o, ![i] = e]
      <4>1. s = [[strs EXCEPT ![n] = o] EXCEPT ![i].orig = n]
        BY <1>4, <1>5, <2>1, <3>1, <3>2 DEF ST!str_new4
      <4> QED
        BY <1>2, <3>1, <3>4, <3>6, <4>1
    <3>8. StrInv(s, mem, v)
      BY <1>2, <1>4, <1>7, <3>1, <3>3, <3>5, <3>7, StrGiven
    <3>9. \A j \in ST!Id : strs[j].role = "match" => s[j] = strs[j]
      BY <1>2, <1>4, <3>6, <3>7
    <3> QED
      BY <3>8, <3>9
  <2>2. CASE strs[i].orig # 0
    <3>1. PICK o \in ST!Id : o = strs[i].orig
      BY <1>3, <2>2 DEF Shares
    <3>2. /\ strs[o].role \notin {"free", "user"} /\ strs[o].orig = 0
          /\ strs[o].ptr = strs[i].ptr /\ strs[o].len = strs[i].len
      BY <1>3, <2>2, <3>1 DEF Shares
    <3>3. PICK w \in Seq(Bytes) : w = val[i]
      BY <1>3
    <3>4. Reads(strs[o], mem, w)
      BY <1>3, <3>2, <3>3 DEF Reads
    <3>5. s = [strs EXCEPT ![ST!NewId] = ST!Object(strs[o].ptr, strs[o].len, o, "match", FALSE)]
      BY <1>5, <2>2, <3>1, <3>2 DEF ST!str_new4
    <3>6. val' = [val EXCEPT ![ST!NewId] = w]
      BY <1>1, <3>3
    <3>7. StrInv(s, mem, val')
      <4>1. StrInv([strs EXCEPT ![ST!NewId] = ST!Object(strs[o].ptr, strs[o].len, o, "match", FALSE)],
                   mem, [val EXCEPT ![ST!NewId] = w])
        BY <1>1, <3>2, <3>4, StrSharedStep
      <4> QED
        BY <3>5, <3>6, <4>1
    <3>8. \A j \in ST!Id : strs[j].role = "match" => s[j] = strs[j]
      BY <1>4, <3>5 DEF StrInv, StrTypes
    <3> QED
      BY <1>6, <3>7, <3>8
  <2> QED
    BY <2>1, <2>2
<1>9. \A j \in ST!Id : s[j] \in Objects
  BY <1>8 DEF StrInv, StrTypes
<1>10. PICK s2 : s2 = strs'
  OBVIOUS
<1>11. s2 = [j \in ST!Id |-> IF strs[j].role = "match" THEN [s[j] EXCEPT !.role = "garbage"] ELSE s[j]]
  BY <1>1, <1>5, <1>10
<1>12. ASSUME NEW j \in ST!Id
       PROVE  /\ s2[j] \in Objects
              /\ s2[j].ptr = s[j].ptr /\ s2[j].len = s[j].len /\ s2[j].orig = s[j].orig
              /\ s2[j].role = s[j].role \/ (s[j].role \in {"user", "match"} /\ s2[j].role = "garbage")
  <2>1. PICK o \in Objects : o = s[j]
    BY <1>9
  <2>2. CASE strs[j].role = "match"
    <3>1. s2[j] = [o EXCEPT !.role = "garbage"] /\ o.role = "match"
      BY <1>8, <1>11, <2>1, <2>2
    <3> QED
      BY <2>1, <3>1 DEF Objects
  <2>3. CASE strs[j].role # "match"
    BY <1>11, <2>1, <2>3
  <2> QED
    BY <2>2, <2>3
<1>13. s2 \in [ST!Id -> Objects]
  BY <1>11, <1>12
<1>14. StrInv(s2, mem, v)
  BY <1>8, <1>12, <1>13, StrRoles
<1> QED
  BY <1>1, <1>6, <1>10, <1>14

\* A string that the program may change has a buffer of its own behind str_modify():
\* what that reads, and what it is after another text is written.
LEMMA StrChanged ==
  ASSUME StrInv(strs, mem, val), NEW i \in ST!Id, ST!CanModify(i), NEW r, r = ST!str_modify(i),
         NEW p \in ST!Ptr, p = r.s[i].ptr \/ r.m[p] = ST!Freed,
         NEW b \in Seq(Bytes), NEW w \in Seq(Bytes), Len(w) <= Len(b),
         \A k \in 1 .. Len(w) : b[k] = w[k]
  PROVE  StrInv([r.s EXCEPT ![i].ptr = p, ![i].len = Len(w)], ST!Moved(r, i, b, p),
                [val EXCEPT ![i] = w])
<1>1. PICK t, n : t = r.s /\ n = r.m
  OBVIOUS
<1>2. StrInv(t, n, val) /\ t[i].role = "user" /\ t[i].orig = 0
  BY <1>1, StrModified
<1>3. PICK o \in Objects : o = t[i]
  BY <1>2 DEF StrInv, StrTypes
<1>4. StrTypes(t, n, val) /\ o.ptr \in ST!Ptr /\ n[o.ptr] # ST!Freed
  BY <1>2, <1>3 DEF StrInv, Reads
<1>5. PICK e : e = [o EXCEPT !.ptr = p, !.len = Len(w)]
  OBVIOUS
<1>6. e \in Objects /\ e.role = "user" /\ e.ptr = p /\ e.len = Len(w) /\ e.orig = 0
  <2>1. Len(w) \in Nat /\ p \in Nat
    BY LenProperties, StrNumbers
  <2> QED
    BY <1>2, <1>3, <1>5, <2>1 DEF Objects
<1>7. PICK s, m : s = [t EXCEPT ![i] = e] /\ m = ST!Moved(r, i, b, p)
  OBVIOUS
<1>8. Written(n, m, t[i].ptr, p, b)
  <2>1. CASE p = o.ptr
    <3>1. m = [n EXCEPT ![p] = b]
      BY <1>1, <1>3, <1>7, <2>1 DEF ST!Moved
    <3> QED
      BY <1>3, <1>4, <2>1, <3>1 DEF StrTypes, Written
  <2>2. CASE p # o.ptr
    <3>1. m = [n EXCEPT ![o.ptr] = ST!Freed, ![p] = b]
      BY <1>1, <1>3, <1>7, <2>2 DEF ST!Moved
    <3> QED
      BY <1>3, <1>4, <2>2, <3>1 DEF StrTypes, Written
  <2> QED
    BY <2>1, <2>2
<1>9. PICK v : v = [val EXCEPT ![i] = w]
  OBVIOUS
<1>10. p = t[i].ptr \/ n[p] = ST!Freed
  BY <1>1
<1>11. StrInv(s, m, v)
  BY <1>2, <1>6, <1>7, <1>8, <1>9, <1>10, StrWritten
<1>12. s = [r.s EXCEPT ![i].ptr = p, ![i].len = Len(w)]
  BY <1>1, <1>3, <1>4, <1>5, <1>7 DEF StrTypes
<1> QED
  BY <1>7, <1>9, <1>11, <1>12

\* What a string reads behind str_modify(), as the methods that change it find it.
LEMMA StrBehind ==
  ASSUME StrInv(strs, mem, val), NEW i \in ST!Id, ST!CanModify(i), NEW r, r = ST!str_modify(i)
  PROVE  /\ val[i] \in Seq(Bytes) /\ Len(val[i]) \in Nat
         /\ strs[i].len = Len(val[i]) /\ r.s[i].len = Len(val[i])
         /\ r.s[i] \in Objects /\ r.s \in [ST!Id -> Objects]
         /\ r.s[i].ptr \in ST!Ptr
         /\ r.m \in [ST!Ptr -> Seq(Bytes) \cup {ST!Freed}]
         /\ r.m[r.s[i].ptr] \in Seq(Bytes)
         /\ Len(val[i]) <= Len(r.m[r.s[i].ptr])
         /\ \A k \in 1 .. Len(val[i]) : r.m[r.s[i].ptr][k] = val[i][k]
         /\ SubSeq(r.m[r.s[i].ptr], 1, strs[i].len) = val[i]
<1>1. PICK s, m : s = r.s /\ m = r.m
  OBVIOUS
<1>2. StrInv(s, m, val) /\ s[i].role = "user" /\ s[i].len = strs[i].len
  BY <1>1, StrModified
<1>3. /\ s[i] \in Objects /\ val[i] \in Seq(Bytes) /\ Reads(s[i], m, val[i])
      /\ s \in [ST!Id -> Objects] /\ m \in [ST!Ptr -> Seq(Bytes) \cup {ST!Freed}]
  BY <1>2 DEF StrInv, StrTypes
<1>4. m[s[i].ptr] \in Seq(Bytes) /\ SubSeq(m[s[i].ptr], 1, s[i].len) = val[i]
  BY <1>3, ReadsText
<1>5. /\ s[i].ptr \in ST!Ptr /\ Len(val[i]) = s[i].len /\ s[i].len <= Len(m[s[i].ptr])
      /\ \A k \in 1 .. s[i].len : m[s[i].ptr][k] = val[i][k]
  BY <1>3 DEF Reads
<1>6. Len(val[i]) \in Nat
  BY <1>3, LenProperties
<1> QED
  BY <1>1, <1>2, <1>3, <1>4, <1>5, <1>6

\* Bytes are changed in place.
LEMMA StrInPlace ==
  ASSUME StrInv(strs, mem, val), ST!InPlace
  PROVE  StrInv(strs', mem', val')
<1>1. PICK i \in ST!Id :
        /\ ST!CanModify(i)
        /\ LET r == ST!str_modify(i)
               v == [k \in 1..Len(val[i]) |-> Up[val[i][k]]]
               p == r.s[i].ptr
           IN  /\ strs' = r.s /\ val' = [val EXCEPT ![i] = v]
               /\ mem' = ST!Moved(r, i, v \o SubSeq(r.m[p], Len(v) + 1, Len(r.m[p])), p)
  BY DEF ST!InPlace
<1>2. PICK r : r = ST!str_modify(i)
  OBVIOUS
<1>3. PICK p \in ST!Ptr : p = r.s[i].ptr
  BY <1>1, <1>2, StrBehind
<1>4. PICK x \in Seq(Bytes) : x = val[i]
  BY <1>1, <1>2, StrBehind
<1>5. PICK n \in Nat : n = Len(x)
  BY LenProperties
<1>6. PICK w : w = [k \in 1 .. n |-> Up[x[k]]]
  OBVIOUS
<1>7. w \in Seq(Bytes) /\ Len(w) = n
  <2>1. ASSUME NEW k \in 1 .. n PROVE Up[x[k]] \in Bytes
    <3>1. x[k] \in Bytes
      BY <1>5, ElementOfSeq
    <3> QED
      BY <3>1, ObjectsAssumption DEF Bytes
  <2>2. w \in [1 .. n -> Bytes]
    BY <1>6, <2>1
  <2> QED
    BY <2>2
<1>8. PICK c \in Seq(Bytes) : c = r.m[p] /\ n <= Len(c)
  BY <1>1, <1>2, <1>3, <1>4, <1>5, StrBehind
<1>9. PICK d \in Seq(Bytes) : d = SubSeq(c, n + 1, Len(c))
  <2>1. PICK l \in Nat : l = Len(c)
    BY LenProperties
  <2>2. \A k \in n + 1 .. l : c[k] \in Bytes
    <3>1. \A k \in n + 1 .. l : k \in 1 .. l
      OBVIOUS
    <3> QED
      BY <2>1, <3>1, ElementOfSeq
  <2>3. SubSeq(c, n + 1, l) \in Seq(Bytes)
    BY <2>2, SubSeqProperties
  <2> QED
    BY <2>1, <2>3
<1>10. PICK b : b = w \o d
  OBVIOUS
<1>11. b \in Seq(Bytes) /\ Len(w) <= Len(b) /\ \A k \in 1 .. Len(w) : b[k] = w[k]
  <2>1. Len(d) \in Nat
    BY LenProperties
  <2>2. /\ b \in Seq(Bytes) /\ Len(b) = Len(w) + Len(d)
        /\ \A k \in 1 .. Len(w) + Len(d) : b[k] = IF k <= Len(w) THEN w[k] ELSE d[k - Len(w)]
    BY <1>7, <1>10, ConcatProperties
  <2>3. n <= n + Len(d) /\ \A k \in 1 .. n : k \in 1 .. n + Len(d) /\ k <= n
    BY <2>1
  <2> QED
    BY <1>7, <2>2, <2>3
<1>12. val' = [val EXCEPT ![i] = w]
  BY <1>1, <1>4, <1>5, <1>6
<1>13. mem' = ST!Moved(r, i, b, p)
  <2>1. mem' = ST!Moved(r, i, w \o SubSeq(r.m[p], Len(w) + 1, Len(r.m[p])), p)
    BY <1>1, <1>2, <1>3, <1>4, <1>5, <1>6
  <2> QED
    BY <1>7, <1>8, <1>9, <1>10, <2>1
<1>14. strs' = [r.s EXCEPT ![i].ptr = p, ![i].len = Len(w)]
  <2>1. PICK s \in [ST!Id -> Objects] : s = r.s
    BY <1>1, <1>2, StrBehind
  <2>2. s[i] \in Objects /\ s[i].len = n /\ s[i].ptr = p
    BY <1>1, <1>2, <1>3, <1>4, <1>5, <2>1, StrBehind
  <2>3. [s[i] EXCEPT !.ptr = p, !.len = n] = s[i]
    BY <2>2 DEF Objects
  <2>4. [s EXCEPT ![i].ptr = p, ![i].len = n] = s
    BY <2>1, <2>2, <2>3
  <2> QED
    BY <1>1, <1>2, <1>7, <2>1, <2>4
<1>15. StrInv([r.s EXCEPT ![i].ptr = p, ![i].len = Len(w)], ST!Moved(r, i, b, p), [val EXCEPT ![i] = w])
  BY <1>1, <1>2, <1>3, <1>7, <1>11, StrChanged
<1> QED
  BY <1>12, <1>13, <1>14, <1>15

\* A text is added to a string.
LEMMA StrAdded ==
  ASSUME StrInv(strs, mem, val), ST!str_cat
  PROVE  StrInv(strs', mem', val')
<1>1. PICK i, j \in ST!Id :
        /\ ST!CanModify(i) /\ j \in ST!Users \ {i}
        /\ LET r == ST!str_modify(i)
               v == SubSeq(r.m[r.s[i].ptr], 1, strs[i].len) \o ST!Text(j)
           IN  \E p \in ST!Places(r, i) :
                 /\ mem' = ST!Moved(r, i, v, p)
                 /\ strs' = [r.s EXCEPT ![i].ptr = p, ![i].len = Len(v)]
                 /\ val' = [val EXCEPT ![i] = val[i] \o val[j]]
  BY DEF ST!str_cat
<1>2. PICK r : r = ST!str_modify(i)
  OBVIOUS
<1>3. val[i] \in Seq(Bytes) /\ SubSeq(r.m[r.s[i].ptr], 1, strs[i].len) = val[i]
  BY <1>1, <1>2, StrBehind
<1>4. val[j] \in Seq(Bytes) /\ ST!Text(j) = val[j]
  BY <1>1, StrText DEF ST!Users
<1>5. PICK w : w = val[i] \o val[j]
  OBVIOUS
<1>6. w \in Seq(Bytes) /\ Len(w) <= Len(w)
  BY <1>3, <1>4, <1>5, ConcatProperties, LenProperties
<1>7. PICK p \in ST!Places(r, i) :
        /\ mem' = ST!Moved(r, i, w, p)
        /\ strs' = [r.s EXCEPT ![i].ptr = p, ![i].len = Len(w)]
        /\ val' = [val EXCEPT ![i] = w]
  <2>1. PICK u : u = SubSeq(r.m[r.s[i].ptr], 1, strs[i].len) \o ST!Text(j)
    OBVIOUS
  <2>2. u = w
    <3>1. PICK a, b : a = SubSeq(r.m[r.s[i].ptr], 1, strs[i].len) /\ b = ST!Text(j)
      OBVIOUS
    <3>2. a = val[i] /\ b = val[j] /\ u = a \o b
      BY <1>3, <1>4, <2>1, <3>1, Zenon
    <3> QED
      BY <1>5, <3>2, Zenon
  <2>3. PICK p \in ST!Places(r, i) :
          mem' = ST!Moved(r, i, u, p) /\ strs' = [r.s EXCEPT ![i].ptr = p, ![i].len = Len(u)]
    BY <1>1, <1>2, <2>1, Zenon
  <2>4. val' = [val EXCEPT ![i] = w]
    BY <1>1, <1>5
  <2> QED
    BY <2>2, <2>3, <2>4
<1>8. p \in ST!Ptr /\ (p = r.s[i].ptr \/ r.m[p] = ST!Freed)
  BY <1>1, <1>2, StrBehind DEF ST!Places
<1>9. StrInv([r.s EXCEPT ![i].ptr = p, ![i].len = Len(w)], ST!Moved(r, i, w, p), [val EXCEPT ![i] = w])
  BY <1>1, <1>2, <1>6, <1>8, StrChanged
<1> QED
  BY <1>7, <1>9

\* A string is cut short, and its buffer is left as long as it was.
LEMMA StrShrunk ==
  ASSUME StrInv(strs, mem, val), ST!Shrink
  PROVE  StrInv(strs', mem', val')
<1>1. PICK i \in ST!Id :
        /\ ST!CanModify(i) /\ strs[i].len > 0
        /\ strs' = [ST!str_modify(i).s EXCEPT ![i].len = @ - 1]
        /\ mem' = ST!str_modify(i).m /\ val' = [val EXCEPT ![i] = ST!Front(@)]
  BY DEF ST!Shrink
<1>2. PICK r : r = ST!str_modify(i)
  OBVIOUS
<1>3. PICK x \in Seq(Bytes), n \in Nat : x = val[i] /\ n = Len(x) /\ n > 0 /\ n = r.s[i].len
  BY <1>1, <1>2, StrBehind
<1>4. PICK p \in ST!Ptr : p = r.s[i].ptr
  BY <1>1, <1>2, StrBehind
<1>5. PICK b \in Seq(Bytes) : b = r.m[p] /\ n <= Len(b) /\ \A k \in 1 .. n : b[k] = x[k]
  BY <1>1, <1>2, <1>3, <1>4, StrBehind
<1>6. PICK w : w = SubSeq(x, 1, n - 1)
  OBVIOUS
<1>7. w \in Seq(Bytes) /\ Len(w) = n - 1 /\ \A k \in 1 .. n - 1 : w[k] = x[k]
  <2>1. PICK l \in Nat : l = n - 1
    BY <1>3
  <2>2. \A k \in 1 .. l : x[k] \in Bytes
    <3>1. \A k \in 1 .. l : k \in 1 .. n
      BY <2>1
    <3>2. \A k \in 1 .. n : x[k] \in Bytes
      BY <1>3, ElementOfSeq
    <3> QED
      BY <3>1, <3>2
  <2>3. /\ SubSeq(x, 1, l) \in Seq(Bytes)
        /\ Len(SubSeq(x, 1, l)) = IF 1 <= l THEN l - 1 + 1 ELSE 0
        /\ \A k \in 1 .. l - 1 + 1 : SubSeq(x, 1, l)[k] = x[1 + k - 1]
    BY <2>2, SubSeqProperties
  <2>4. l - 1 + 1 = l /\ \A k \in 1 .. l : 1 + k - 1 = k
    OBVIOUS
  <2> QED
    BY <1>6, <2>1, <2>3, <2>4
<1>8. Len(w) <= Len(b) /\ \A k \in 1 .. Len(w) : b[k] = w[k]
  <2>1. n - 1 <= n /\ \A k \in 1 .. n - 1 : k \in 1 .. n
    BY <1>3
  <2>2. Len(b) \in Nat
    BY LenProperties
  <2>3. Len(w) <= Len(b)
    BY <1>3, <1>5, <1>7, <2>1, <2>2
  <2>4. \A k \in 1 .. n - 1 : b[k] = w[k]
    BY <1>5, <1>7, <2>1
  <2> QED
    BY <1>7, <2>3, <2>4
<1>9. val' = [val EXCEPT ![i] = w]
  <2>1. ST!Front(x) = w
    BY <1>3, <1>6 DEF ST!Front
  <2> QED
    BY <1>1, <1>3, <2>1
<1>10. mem' = ST!Moved(r, i, b, p)
  <2>1. PICK m \in [ST!Ptr -> Seq(Bytes) \cup {ST!Freed}] : m = r.m
    BY <1>1, <1>2, StrBehind
  <2>2. [m EXCEPT ![p] = b] = m
    BY <1>5, <2>1
  <2> QED
    BY <1>1, <1>2, <1>4, <2>1, <2>2 DEF ST!Moved
<1>11. strs' = [r.s EXCEPT ![i].ptr = p, ![i].len = Len(w)]
  <2>1. PICK s \in [ST!Id -> Objects] : s = r.s
    BY <1>1, <1>2, StrBehind
  <2>2. PICK o \in Objects : o = s[i] /\ o.ptr = p /\ o.len = n
    BY <1>3, <1>4, <2>1
  <2>3. [o EXCEPT !.ptr = p, !.len = n - 1] = [o EXCEPT !.len = n - 1]
    BY <2>2 DEF Objects
  <2>4. [s EXCEPT ![i].ptr = p, ![i].len = n - 1] = [s EXCEPT ![i] = [o EXCEPT !.ptr = p, !.len = n - 1]]
    BY <2>1, <2>2
  <2>5. [s EXCEPT ![i].len = @ - 1] = [s EXCEPT ![i] = [o EXCEPT !.len = n - 1]]
    BY <2>1, <2>2
  <2>6. strs' = [s EXCEPT ![i].len = @ - 1]
    BY <1>1, <1>2, <2>1
  <2>7. Len(w) = n - 1
    BY <1>7
  <2>8. [s EXCEPT ![i].ptr = p, ![i].len = Len(w)] = strs'
    BY <2>3, <2>4, <2>5, <2>6, <2>7
  <2> QED
    BY <2>1, <2>8
<1>12. StrInv([r.s EXCEPT ![i].ptr = p, ![i].len = Len(w)], ST!Moved(r, i, b, p), [val EXCEPT ![i] = w])
  BY <1>1, <1>2, <1>4, <1>7, <1>8, StrChanged
<1> QED
  BY <1>9, <1>10, <1>11, <1>12

\* The head is cut off, into another buffer.
LEMMA StrStripped ==
  ASSUME StrInv(strs, mem, val), ST!str_strip_bang
  PROVE  StrInv(strs', mem', val')
<1>1. PICK i \in ST!Id :
        /\ ST!CanModify(i) /\ strs[i].len > 0
        /\ LET r == ST!str_modify(i)
               v == Tail(SubSeq(r.m[r.s[i].ptr], 1, strs[i].len))
               new == ST!Min({p \in ST!Ptr : r.m[p] = ST!Freed})
           IN  /\ \E p \in ST!Ptr : r.m[p] = ST!Freed
               /\ mem' = [r.m EXCEPT ![new] = v, ![r.s[i].ptr] = ST!Freed]
               /\ strs' = [r.s EXCEPT ![i].ptr = new, ![i].len = Len(v)]
               /\ val' = [val EXCEPT ![i] = Tail(@)]
  BY DEF ST!str_strip_bang
<1>2. PICK r : r = ST!str_modify(i)
  OBVIOUS
<1>3. PICK x \in Seq(Bytes) : x = val[i] /\ x # <<>> /\ SubSeq(r.m[r.s[i].ptr], 1, strs[i].len) = x
  BY <1>1, <1>2, StrBehind, EmptySeq
<1>4. PICK w : w = Tail(x)
  OBVIOUS
<1>5. w \in Seq(Bytes) /\ Len(w) <= Len(w)
  BY <1>3, <1>4, HeadTailProperties, LenProperties
<1>6. PICK p : p = ST!Min({q \in ST!Ptr : r.m[q] = ST!Freed})
  OBVIOUS
<1>7. p \in ST!Ptr /\ r.m[p] = ST!Freed
  <2>1. PICK A : A = {q \in ST!Ptr : r.m[q] = ST!Freed}
    OBVIOUS
  <2>2. A \in SUBSET Nat /\ A # {}
    BY <1>1, <1>2, <2>1, StrNumbers
  <2>3. \E y \in A : \A z \in A : y <= z
    BY <2>2, LeastNumber
  <2>4. p \in A
    BY <1>6, <2>1, <2>3 DEF ST!Min
  <2> QED
    BY <2>1, <2>4
<1>8. /\ mem' = [r.m EXCEPT ![p] = w, ![r.s[i].ptr] = ST!Freed]
      /\ strs' = [r.s EXCEPT ![i].ptr = p, ![i].len = Len(w)]
      /\ val' = [val EXCEPT ![i] = w]
  BY <1>1, <1>2, <1>3, <1>4, <1>6
<1>9. mem' = ST!Moved(r, i, w, p)
  <2>1. PICK m \in [ST!Ptr -> Seq(Bytes) \cup {ST!Freed}] : m = r.m
    BY <1>1, <1>2, StrBehind
  <2>2. PICK q \in ST!Ptr : q = r.s[i].ptr /\ m[q] # ST!Freed
    BY <1>1, <1>2, <2>1, StrBehind, FreedNoText
  <2>3. p # q
    BY <1>7, <2>1, <2>2
  <2>4. [m EXCEPT ![p] = w, ![q] = ST!Freed] = [m EXCEPT ![q] = ST!Freed, ![p] = w]
    BY <1>7, <2>1, <2>2, <2>3
  <2> QED
    BY <1>8, <2>1, <2>2, <2>3, <2>4 DEF ST!Moved
<1>10. StrInv([r.s EXCEPT ![i].ptr = p, ![i].len = Len(w)], ST!Moved(r, i, w, p), [val EXCEPT ![i] = w])
  BY <1>1, <1>2, <1>5, <1>7, StrChanged
<1> QED
  BY <1>8, <1>9, <1>10

\* The contents that the program writes are bytes.
LEMMA StrValues == ST!Values \subseteq Seq(Bytes)
<1> SUFFICES ASSUME NEW w \in ST!Values PROVE w \in Seq(Bytes)
  OBVIOUS
<1>1. PICK n \in 0 .. MaxStrLen : w \in [1 .. n -> Byte]
  BY DEF ST!Values
<1>2. n \in Nat /\ w \in [1 .. n -> Bytes]
  BY <1>1, ObjectsAssumption DEF Bytes
<1> QED
  BY <1>2

\* At first there is one literal.
LEMMA StrInit == ASSUME ST!Init PROVE StrInv(strs, mem, val)
<1>1. PICK w \in Seq(Bytes) :
        /\ strs = [i \in ST!Id |-> IF i = 1 THEN ST!Object(1, Len(w), 0, "lit", FALSE) ELSE ST!Gone]
        /\ mem = [p \in ST!Ptr |-> IF p = 1 THEN w ELSE ST!Freed]
        /\ val = [i \in ST!Id |-> IF i = 1 THEN w ELSE <<>>]
  BY StrValues DEF ST!Init
<1>2. PICK o : o = ST!Object(1, Len(w), 0, "lit", FALSE)
  OBVIOUS
<1>3. o \in Objects /\ o.role = "lit" /\ o.ptr = 1 /\ o.len = Len(w) /\ o.orig = 0
  BY <1>2, LenProperties DEF ST!Object, Objects
<1>4. ST!Gone \in Objects /\ ST!Gone.role = "free" /\ <<>> \in Seq(Bytes)
  BY EmptySeq DEF ST!Gone, Objects
<1>5. /\ strs[1] = o /\ mem[1] = w /\ val[1] = w
      /\ \A i \in ST!Id : i # 1 => strs[i].role = "free"
      /\ \A p \in ST!Ptr : p # 1 => mem[p] = ST!Freed
  BY <1>1, <1>2, <1>4, StrNumbers
<1>6. StrTypes(strs, mem, val)
  BY <1>1, <1>2, <1>3, <1>4 DEF StrTypes
<1>7. Reads(o, mem, w) /\ Shares(strs, 1)
  <2>1. w # ST!Freed /\ Len(w) <= Len(w)
    BY FreedNoText, LenProperties
  <2> QED
    BY <1>3, <1>5, <2>1, StrNumbers DEF Reads, Shares
<1>8. /\ \A i \in ST!Id, p \in ST!Ptr : Owns(strs, i, p) => i = 1
      /\ Owns(strs, 1, 1)
  BY <1>3, <1>5 DEF Owns
<1>9. \A i \in ST!Id : strs[i].role # "free" => Reads(strs[i], mem, val[i]) /\ Shares(strs, i)
  BY <1>5, <1>7
<1>10. \A p \in ST!Ptr : mem[p] # ST!Freed => \E i \in ST!Id : Owns(strs, i, p)
  BY <1>5, <1>8, StrNumbers
<1> QED
  BY <1>6, <1>8, <1>9, <1>10 DEF StrInv

\* A literal has a buffer of its own.
Literals(s) == \A i \in ST!Id : s[i].role = "lit" => s[i].orig = 0

\* The string that str_modify() gives a buffer of its own is not a literal.
LEMMA ModifiedLiterals ==
  ASSUME StrInv(strs, mem, val), Literals(strs), NEW i, ST!CanModify(i)
  PROVE  /\ ST!str_modify(i).s \in [ST!Id -> Objects] /\ ST!str_modify(i).s[i].role = "user"
         /\ Literals(ST!str_modify(i).s)
<1>1. i \in ST!Id /\ strs[i].role = "user" /\ strs \in [ST!Id -> Objects]
  BY DEF ST!CanModify, ST!Users, StrInv, StrTypes
<1>2. CASE strs[i].orig = 0
  BY <1>1, <1>2 DEF ST!str_modify
<1>3. CASE strs[i].orig # 0
  <2>1. PICK p \in ST!Ptr : p = ST!Fresh
    BY StrRoom DEF ST!CanModify
  <2>2. PICK o \in Objects : o = strs[i] /\ o.role = "user"
    BY <1>1
  <2>3. PICK e : e = [o EXCEPT !.ptr = p, !.orig = 0]
    OBVIOUS
  <2>4. e \in Objects /\ e.role = "user"
    BY <2>2, <2>3, StrNumbers DEF Objects
  <2>5. PICK s : s = [strs EXCEPT ![i] = e]
    OBVIOUS
  <2>6. s \in [ST!Id -> Objects] /\ s[i].role = "user" /\ Literals(s)
    BY <1>1, <2>4, <2>5 DEF Literals
  <2>7. ST!Owner(i, p) = s
    BY <1>1, <2>2, <2>3, <2>5 DEF ST!Owner
  <2>8. ST!str_modify(i).s = s
    BY <1>3, <2>1, <2>7 DEF ST!str_modify
  <2> QED
    BY <2>6, <2>8
<1> QED
  BY <1>2, <1>3

\* An object that is not a literal changes.
LEMMA LiteralsChanged ==
  ASSUME NEW s \in [ST!Id -> Objects], Literals(s), NEW i \in ST!Id,
         NEW o, o.role # "lit" \/ o.orig = 0
  PROVE  Literals([s EXCEPT ![i] = o])
<1>1. PICK t : t = [s EXCEPT ![i] = o]
  OBVIOUS
<1>2. Literals(t)
  BY <1>1 DEF Literals
<1> QED
  BY <1>1, <1>2

\* No step makes a literal, or gives one the buffer of another.
LEMMA LiteralsStep ==
  ASSUME StrInv(strs, mem, val), Literals(strs), [ST!Next]_stvars
  PROVE  Literals(strs')
<1>1. strs \in [ST!Id -> Objects]
  BY DEF StrInv, StrTypes
<1>2. \A p, n, o, r, f : ST!Object(p, n, o, r, f).role = r
  BY DEF ST!Object
<1>3. ASSUME NEW w, NEW f, ST!Copied(w, "user", f) PROVE Literals(strs')
  <2>1. PICK n \in ST!Id : n = ST!NewId
    BY <1>3, StrRoom DEF ST!Copied
  <2>2. PICK e : e = ST!Object(ST!Fresh, Len(w), 0, "user", f) /\ e.role = "user"
    BY <1>2
  <2>3. strs' = [strs EXCEPT ![n] = e]
    BY <1>3, <2>1, <2>2 DEF ST!Copied
  <2>4. Literals([strs EXCEPT ![n] = e])
    BY <1>1, <2>2, LiteralsChanged
  <2> QED
    BY <2>3, <2>4
<1>4. CASE ST!str_new
  BY <1>3, <1>4 DEF ST!str_new
<1>5. CASE ST!str_dup
  BY <1>3, <1>5 DEF ST!str_dup
<1>6. CASE ST!NODE_STR
  <2>1. PICK n \in ST!Id : n = ST!NewId
    BY <1>6, StrRoom DEF ST!NODE_STR, ST!str_new3
  <2>2. PICK o \in ST!Id : ST!str_new3(o)
    BY <1>6 DEF ST!NODE_STR
  <2>3. PICK e : e = ST!Object(strs[o].ptr, strs[o].len, o, "user", FALSE)
    OBVIOUS
  <2>4. strs' = [strs EXCEPT ![n] = e]
    BY <2>1, <2>2, <2>3 DEF ST!str_new3
  <2>5. Literals([strs EXCEPT ![n] = e])
    <3>1. e.role = "user"
      BY <2>3 DEF ST!Object
    <3> QED
      BY <1>1, <3>1, LiteralsChanged
  <2> QED
    BY <2>4, <2>5
<1>7. CASE ST!str_clone
  <2>1. PICK i \in ST!Users :
          IF strs[i].orig # 0
          THEN /\ ST!Room
               /\ strs' = [strs EXCEPT ![ST!NewId] =
                            ST!Object(strs[strs[i].orig].ptr, strs[strs[i].orig].len, strs[i].orig,
                                      "user", strs[i].frozen)]
          ELSE ST!Copied(ST!Text(i), "user", strs[i].frozen)
    BY <1>7 DEF ST!str_clone
  <2>2. CASE strs[i].orig # 0
    <3>1. PICK n \in ST!Id : n = ST!NewId
      BY <2>1, <2>2, StrRoom
    <3> QED
      BY <1>1, <1>2, <2>1, <2>2, <3>1, LiteralsChanged
  <2>3. CASE strs[i].orig = 0
    BY <1>3, <2>1, <2>3
  <2> QED
    BY <2>2, <2>3
<1>8. CASE ST!reg_search
  <2>1. PICK i \in ST!Users :
          /\ ST!Room
          /\ strs' = [j \in ST!Id |-> IF strs[j].role = "match"
                                      THEN [ST!str_new4(i)[j] EXCEPT !.role = "garbage"]
                                      ELSE ST!str_new4(i)[j]]
    BY <1>8 DEF ST!reg_search
  <2>2. i \in ST!Id /\ strs[i].role = "user"
    BY DEF ST!Users
  <2>3. PICK n \in ST!Id : n = ST!NewId /\ strs[n].role = "free"
    BY <2>1, StrRoom
  <2>4. PICK e : e = ST!Object(strs[i].ptr, strs[i].len, strs[i].orig, "match", FALSE)
    OBVIOUS
  <2>5. PICK s : s = [strs EXCEPT ![n] = e]
    OBVIOUS
  <2>6. s \in [ST!Id -> Objects] /\ Literals(s) /\ s[i].role = "user"
    <3>1. strs[i].ptr \in Nat /\ strs[i].len \in Nat /\ strs[i].orig \in Nat
      BY <1>1, <2>2, StrNumbers
    <3>2. e \in Objects /\ e.role = "match"
      BY <2>4, <3>1, StrNumbers DEF ST!Object, Objects
    <3> QED
      BY <1>1, <2>2, <2>3, <2>5, <3>2 DEF Literals
  <2>7. PICK x \in Objects : x = s[i] /\ x.role = "user"
    BY <2>2, <2>6
  <2>8. PICK y : y = [x EXCEPT !.orig = n]
    OBVIOUS
  <2>9. y.role = "user"
    BY <2>7, <2>8 DEF Objects
  <2>10. PICK t : t = [s EXCEPT ![i] = y]
    OBVIOUS
  <2>11. t \in [ST!Id -> Objects] /\ Literals(t)
    <3>1. y \in Objects
      BY <2>3, <2>7, <2>8, StrNumbers DEF Objects
    <3> QED
      BY <2>2, <2>6, <2>9, <2>10, <3>1 DEF Literals
  <2>12. PICK u : u = ST!str_new4(i)
    OBVIOUS
  <2>13. u = s \/ u = t
    BY <2>2, <2>3, <2>4, <2>5, <2>6, <2>7, <2>8, <2>10, <2>12 DEF ST!str_new4
  <2>14. u \in [ST!Id -> Objects] /\ Literals(u)
    BY <2>6, <2>11, <2>13
  <2>15. ASSUME NEW j \in ST!Id, strs'[j].role = "lit" PROVE strs'[j].orig = 0
    <3>1. CASE strs[j].role = "match"
      <4>1. PICK z \in Objects : z = u[j]
        BY <2>14
      <4>2. strs'[j] = [z EXCEPT !.role = "garbage"]
        BY <2>1, <2>12, <3>1, <4>1
      <4>3. strs'[j].role = "garbage"
        BY <4>2 DEF Objects
      <4> QED
        BY <2>15, <4>3
    <3>2. CASE strs[j].role # "match"
      <4>1. strs'[j] = u[j]
        BY <2>1, <2>12, <3>2
      <4> QED
        BY <2>14, <2>15, <4>1 DEF Literals
    <3> QED
      BY <3>1, <3>2
  <2> QED
    BY <2>15 DEF Literals
<1>9. ASSUME NEW i \in ST!Id, strs[i].role # "lit", NEW o,
             strs' = [strs EXCEPT ![i] = o], o.role # "lit"
      PROVE  Literals(strs')
  BY <1>1, <1>9, LiteralsChanged
<1>10. CASE ST!str_freeze
  <2>1. PICK i \in ST!Users : strs' = [strs EXCEPT ![i].frozen = TRUE]
    BY <1>10 DEF ST!str_freeze
  <2>2. PICK o \in Objects : o = strs[i] /\ i \in ST!Id /\ o.role = "user"
    BY <1>1 DEF ST!Users
  <2>3. PICK e : e = [o EXCEPT !.frozen = TRUE]
    OBVIOUS
  <2>4. e.role = "user"
    BY <2>2, <2>3 DEF Objects
  <2>5. strs' = [strs EXCEPT ![i] = e]
    BY <2>1, <2>2, <2>3
  <2> QED
    BY <1>9, <2>2, <2>4, <2>5
<1>11. CASE ST!Drop
  <2>1. PICK i \in ST!Id : strs[i].role # "lit" /\ strs' = [strs EXCEPT ![i].role = "garbage"]
    BY <1>11 DEF ST!Drop
  <2>2. PICK o \in Objects : o = strs[i]
    BY <1>1
  <2>3. PICK e : e = [o EXCEPT !.role = "garbage"]
    OBVIOUS
  <2>4. e.role = "garbage"
    BY <2>3 DEF Objects
  <2>5. strs' = [strs EXCEPT ![i] = e]
    BY <2>1, <2>2, <2>3
  <2> QED
    BY <1>9, <2>1, <2>4, <2>5
<1>12. ASSUME NEW i, ST!CanModify(i), NEW p, NEW n,
              \/ strs' = ST!str_modify(i).s
              \/ strs' = [ST!str_modify(i).s EXCEPT ![i].ptr = p, ![i].len = n]
              \/ strs' = [ST!str_modify(i).s EXCEPT ![i].len = n]
       PROVE  Literals(strs')
  <2>1. PICK s \in [ST!Id -> Objects] : s = ST!str_modify(i).s /\ Literals(s) /\ s[i].role = "user"
    BY <1>12, ModifiedLiterals
  <2>2. i \in ST!Id
    BY <1>12 DEF ST!CanModify, ST!Users
  <2>3. PICK o \in Objects : o = s[i] /\ o.role = "user"
    BY <2>1, <2>2
  <2>4. PICK e, g : e = [o EXCEPT !.ptr = p, !.len = n] /\ g = [o EXCEPT !.len = n]
    OBVIOUS
  <2>5. e.role = "user" /\ g.role = "user"
    BY <2>3, <2>4 DEF Objects
  <2>6. strs' = s \/ strs' = [s EXCEPT ![i] = e] \/ strs' = [s EXCEPT ![i] = g]
    BY <1>12, <2>1, <2>2, <2>3, <2>4
  <2>7. Literals([s EXCEPT ![i] = e]) /\ Literals([s EXCEPT ![i] = g])
    BY <2>1, <2>2, <2>5, LiteralsChanged
  <2> QED
    BY <2>1, <2>6, <2>7
<1>13. CASE ST!InPlace
  BY <1>12, <1>13 DEF ST!InPlace
<1>14. CASE ST!str_cat
  <2>1. PICK i, p, n :
          /\ ST!CanModify(i)
          /\ strs' = [ST!str_modify(i).s EXCEPT ![i].ptr = p, ![i].len = n]
    BY <1>14 DEF ST!str_cat
  <2> QED
    BY <1>12, <2>1
<1>15. CASE ST!Shrink
  BY <1>12, <1>15 DEF ST!Shrink
<1>16. CASE ST!str_strip_bang
  <2>1. PICK i, p, n :
          /\ ST!CanModify(i)
          /\ strs' = [ST!str_modify(i).s EXCEPT ![i].ptr = p, ![i].len = n]
    <3>1. PICK i \in ST!Id :
            /\ ST!CanModify(i)
            /\ LET r == ST!str_modify(i)
                   v == Tail(SubSeq(r.m[r.s[i].ptr], 1, strs[i].len))
                   new == ST!Min({p \in ST!Ptr : r.m[p] = ST!Freed})
               IN  strs' = [r.s EXCEPT ![i].ptr = new, ![i].len = Len(v)]
      BY <1>16 DEF ST!str_strip_bang
    <3>2. PICK p : p = ST!Min({q \in ST!Ptr : ST!str_modify(i).m[q] = ST!Freed})
      OBVIOUS
    <3>3. PICK n : n = Len(Tail(SubSeq(ST!str_modify(i).m[ST!str_modify(i).s[i].ptr], 1, strs[i].len)))
      OBVIOUS
    <3> QED
      BY <3>1, <3>2, <3>3
  <2> QED
    BY <1>12, <2>1
<1>17. CASE ST!gc
  <2>1. PICK dead : strs' = [i \in ST!Id |-> IF i \in dead THEN ST!Gone ELSE strs[i]]
    BY <1>17 DEF ST!gc
  <2>2. ST!Gone.orig = 0
    BY DEF ST!Gone
  <2> QED
    BY <2>1, <2>2 DEF Literals
<1>18. CASE UNCHANGED stvars
  BY <1>18 DEF stvars, Literals
<1> QED
  BY <1>4, <1>5, <1>6, <1>7, <1>8, <1>10, <1>11, <1>13, <1>14, <1>15, <1>16, <1>17, <1>18 DEF ST!Next

\* Every step keeps the buffers with the strings that own them.
LEMMA StrStep ==
  ASSUME StrInv(strs, mem, val), Literals(strs), [ST!Next]_stvars
  PROVE  StrInv(strs', mem', val')
<1>1. \A i \in ST!Users : i \in ST!Id /\ strs[i].role = "user"
  BY DEF ST!Users
<1>2. CASE ST!str_new
  BY <1>2, StrValues, StrCopiedStep DEF ST!str_new
<1>3. CASE ST!str_dup
  <2>1. PICK i \in ST!Users, f \in BOOLEAN : ST!Copied(ST!Text(i), "user", f)
    BY <1>3 DEF ST!str_dup
  <2>2. ST!Text(i) \in Seq(Bytes)
    BY <1>1, StrText
  <2> QED
    BY <2>1, <2>2, StrCopiedStep
<1>4. CASE ST!NODE_STR
  <2>1. PICK o \in ST!Id : strs[o].role = "lit" /\ ST!str_new3(o)
    BY <1>4 DEF ST!NODE_STR
  <2>2. strs[o].orig = 0 /\ Reads(strs[o], mem, val[o]) /\ val[o] \in Seq(Bytes)
    BY <2>1, StrText DEF Literals
  <2>3. StrInv([strs EXCEPT ![ST!NewId] = ST!Object(strs[o].ptr, strs[o].len, o, "user", FALSE)],
               mem, [val EXCEPT ![ST!NewId] = val[o]])
    BY <2>1, <2>2, StrSharedStep DEF ST!str_new3
  <2> QED
    BY <2>1, <2>3 DEF ST!str_new3
<1>5. CASE ST!str_clone
  <2>1. PICK i \in ST!Users :
          IF strs[i].orig # 0
          THEN /\ ST!Room
               /\ strs' = [strs EXCEPT ![ST!NewId] =
                            ST!Object(strs[strs[i].orig].ptr, strs[strs[i].orig].len, strs[i].orig,
                                      "user", strs[i].frozen)]
               /\ val' = [val EXCEPT ![ST!NewId] = val[i]] /\ UNCHANGED mem
          ELSE ST!Copied(ST!Text(i), "user", strs[i].frozen)
    BY <1>5 DEF ST!str_clone
  <2>2. /\ strs[i] \in Objects /\ val[i] \in Seq(Bytes) /\ ST!Text(i) = val[i]
        /\ Reads(strs[i], mem, val[i]) /\ Shares(strs, i) /\ strs[i].frozen \in BOOLEAN
    BY <1>1, StrText, StrNumbers
  <2>3. CASE strs[i].orig # 0
    <3>1. PICK o \in ST!Id : o = strs[i].orig
      BY <2>2, <2>3 DEF Shares
    <3>2. /\ strs[o].role \notin {"free", "user"} /\ strs[o].orig = 0
          /\ strs[o].ptr = strs[i].ptr /\ strs[o].len = strs[i].len
      BY <2>2, <2>3, <3>1 DEF Shares
    <3>3. Reads(strs[o], mem, val[i])
      BY <2>2, <3>2 DEF Reads
    <3>4. PICK f \in BOOLEAN : f = strs[i].frozen
      BY <2>2
    <3>5. PICK w \in Seq(Bytes) : w = val[i]
      BY <2>2
    <3>6. StrInv([strs EXCEPT ![ST!NewId] = ST!Object(strs[o].ptr, strs[o].len, o, "user", f)],
                 mem, [val EXCEPT ![ST!NewId] = w])
      BY <2>1, <2>3, <3>2, <3>3, <3>5, StrSharedStep
    <3> QED
      BY <2>1, <2>3, <3>1, <3>4, <3>5, <3>6
  <2>4. CASE strs[i].orig = 0
    BY <2>1, <2>2, <2>4, StrCopiedStep
  <2> QED
    BY <2>3, <2>4
<1>6. ASSUME NEW i \in ST!Id, NEW o \in Objects, strs' = [strs EXCEPT ![i] = o],
             o.ptr = strs[i].ptr, o.len = strs[i].len, o.orig = strs[i].orig,
             o.role = strs[i].role \/ (strs[i].role \in {"user", "match"} /\ o.role = "garbage"),
             UNCHANGED <<mem, val>>
      PROVE  StrInv(strs', mem', val')
  <2>1. PICK s : s = strs'
    OBVIOUS
  <2>2. /\ s \in [ST!Id -> Objects] /\ s[i] = o
        /\ \A j \in ST!Id : j # i => s[j] = strs[j]
    BY <1>6, <2>1 DEF StrInv, StrTypes
  <2>3. /\ \A j \in ST!Id : s[j].ptr = strs[j].ptr /\ s[j].len = strs[j].len
                            /\ s[j].orig = strs[j].orig
        /\ \A j \in ST!Id : \/ s[j].role = strs[j].role
                            \/ strs[j].role \in {"user", "match"} /\ s[j].role = "garbage"
    BY <1>6, <2>2
  <2>4. StrInv(s, mem, val)
    BY <2>2, <2>3, StrRoles
  <2> QED
    BY <1>6, <2>1, <2>4
<1>7. CASE ST!str_freeze
  <2>1. PICK i \in ST!Users : strs' = [strs EXCEPT ![i].frozen = TRUE] /\ UNCHANGED <<mem, val>>
    BY <1>7 DEF ST!str_freeze
  <2>2. PICK o \in Objects : o = strs[i] /\ i \in ST!Id
    <3>1. i \in ST!Id /\ strs[i].role # "free"
      BY <1>1
    <3> QED
      BY <3>1, StrText
  <2>3. PICK e : e = [o EXCEPT !.frozen = TRUE]
    OBVIOUS
  <2>4. /\ e \in Objects /\ e.ptr = o.ptr /\ e.len = o.len /\ e.orig = o.orig /\ e.role = o.role
    BY <2>3 DEF Objects
  <2>5. strs' = [strs EXCEPT ![i] = e]
    BY <2>1, <2>2, <2>3
  <2> QED
    BY <1>6, <2>1, <2>2, <2>4, <2>5
<1>8. CASE ST!Drop
  <2>1. PICK i \in ST!Id : /\ strs[i].role \in {"user", "match"}
                           /\ strs' = [strs EXCEPT ![i].role = "garbage"] /\ UNCHANGED <<mem, val>>
    BY <1>8 DEF ST!Drop
  <2>2. PICK o \in Objects : o = strs[i] /\ o.role \in {"user", "match"}
    BY <2>1, StrText
  <2>3. PICK e : e = [o EXCEPT !.role = "garbage"]
    OBVIOUS
  <2>4. e \in Objects /\ e.ptr = o.ptr /\ e.len = o.len /\ e.orig = o.orig /\ e.role = "garbage"
    BY <2>3 DEF Objects
  <2>5. strs' = [strs EXCEPT ![i] = e]
    BY <2>1, <2>2, <2>3
  <2> QED
    BY <1>6, <2>1, <2>2, <2>4, <2>5
<1>9. CASE UNCHANGED stvars
  BY <1>9 DEF stvars
<1> QED
  BY <1>2, <1>3, <1>4, <1>5, <1>7, <1>8, <1>9, StrSearched, StrInPlace, StrAdded, StrShrunk,
     StrStripped, StrCollected DEF ST!Next

\* What the strings read, and the owners of the buffers.
LEMMA StrExact == ASSUME StrInv(strs, mem, val) PROVE ST!StrIntact
<1>1. ASSUME NEW i \in ST!Live PROVE mem[strs[i].ptr] # ST!Freed /\ ST!Text(i) = val[i]
  <2>1. i \in ST!Id /\ strs[i].role # "free"
    BY DEF ST!Live
  <2> QED
    BY <2>1, StrText DEF Reads
<1>2. ASSUME NEW p \in ST!Buffers
      PROVE  ST!Cardinality({i \in ST!Live : strs[i].ptr = p /\ strs[i].orig = 0}) = 1
  <2>1. p \in ST!Ptr /\ mem[p] # ST!Freed
    BY DEF ST!Buffers
  <2>2. PICK o \in ST!Id : Owns(strs, o, p)
    BY <2>1 DEF StrInv
  <2>3. \A i \in ST!Id : Owns(strs, i, p) => i = o
    BY <2>1, <2>2 DEF StrInv
  <2>4. {i \in ST!Live : strs[i].ptr = p /\ strs[i].orig = 0} = {o}
    BY <2>2, <2>3 DEF Owns, ST!Live
  <2>5. Cardinality({o}) = 1
    BY FS_Singleton
  <2>6. ASSUME NEW S PROVE ST!Cardinality(S) = Cardinality(S)
    BY DEF ST!Cardinality, Cardinality
  <2> QED
    BY <2>4, <2>5, <2>6
<1> QED
  BY <1>1, <1>2 DEF ST!StrIntact

\* Each string reads what was put into it, from a buffer that is not freed, and every
\* buffer has the one string that frees it (string.c, gc.c).
THEOREM StrStrIntact == Spec => []StrIntact
<1> DEFINE I == which = "Str" => StrInv(strs, mem, val) /\ Literals(strs)
<1>1. Init => I
  <2>1. ASSUME ST!Init PROVE Literals(strs)
    BY <2>1 DEF ST!Init, ST!Object, ST!Gone, Literals
  <2> QED
    BY <2>1, StrInit DEF Init
<1>2. I /\ [Next]_vars => I'
  <2> SUFFICES ASSUME I, [Next]_vars, which' = "Str"
               PROVE  StrInv(strs', mem', val') /\ Literals(strs')
    BY DEF StrInv, StrTypes, Reads, Shares, Owns, Literals
  <2>1. which = "Str" /\ StrInv(strs, mem, val) /\ Literals(strs)
    BY DEF Next, vars
  <2>2. [ST!Next]_stvars
    BY <2>1 DEF Next, vars
  <2> QED
    BY <2>1, <2>2, StrStep, LiteralsStep
<1>3. I => StrIntact
  BY StrExact DEF StrIntact
<1> QED
  BY <1>1, <1>2, <1>3, PTL DEF Spec

=============================================================================
