------------------------------ MODULE LibProofs ------------------------------
(***************************************************************************)
(* Proofs about the synchronisers of lib/ and the lock of require, for any *)
(* set of threads: Mutex, Queue and Sync_m here, and what LoadProofs shows *)
(* of require carried over to MCLib, which puts them together.             *)
(***************************************************************************)
EXTENDS MCLib, FiniteSetTheorems, SequenceTheorems, WellFoundedInduction, TLAPS

-----------------------------------------------------------------------------
(***************************************************************************)
(* Mutex.                                                                  *)
(***************************************************************************)

\* The mutex is locked exactly while some thread owns it, and one does.
OneOwner ==
  /\ locked => At({"owner"}) # {}
  /\ \A t, u \in At({"owner"}) : t = u
  /\ At({"owner"}) # {} => locked

\* The inductive invariant.
MutexInv == TypeOK /\ OneOwner /\ WaitersKnown

\* The elements of a sequence that grows at its end or loses its head.
LEMMA InProperties ==
  ASSUME NEW A, NEW s \in Seq(A)
  PROVE  /\ \A x \in A : In(Append(s, x)) = In(s) \cup {x}
         /\ s # <<>> => Head(s) \in In(s) /\ \A x \in In(s) : x = Head(s) \/ x \in In(Tail(s))
<1>1. ASSUME NEW x \in A PROVE In(Append(s, x)) = In(s) \cup {x}
  <2>1. /\ DOMAIN Append(s, x) = 1 .. (Len(s) + 1) /\ DOMAIN s = 1 .. Len(s) /\ Len(s) \in Nat
        /\ Append(s, x)[Len(s) + 1] = x
        /\ \A i \in 1 .. Len(s) : Append(s, x)[i] = s[i]
    BY AppendProperties, LenProperties
  <2> QED
    BY <2>1 DEF In
<1>2. ASSUME s # <<>>, NEW x \in In(s) PROVE x = Head(s) \/ x \in In(Tail(s))
  <2>1. PICK i \in 1 .. Len(s) : x = s[i]
    BY <1>2, LenProperties DEF In
  <2>2. /\ Tail(s) \in Seq(A) /\ Len(Tail(s)) = Len(s) - 1 /\ Len(s) \in Nat
        /\ \A j \in 1 .. Len(Tail(s)) : Tail(s)[j] = s[j + 1]
    BY <1>2, HeadTailProperties, LenProperties
  <2>3. CASE i = 1
    BY <2>1, <2>3
  <2>4. CASE i # 1
    <3>1. i - 1 \in 1 .. Len(Tail(s)) /\ Tail(s)[i - 1] = x
      BY <2>1, <2>2, <2>4
    <3> QED
      BY <3>1, <2>2, LenProperties DEF In
  <2> QED
    BY <2>3, <2>4
<1>3. ASSUME s # <<>> PROVE Head(s) \in In(s)
  <2>1. 1 \in DOMAIN s /\ Head(s) = s[1]
    BY <1>3, LenProperties, EmptySeq
  <2> QED
    BY <2>1 DEF In
<1> QED
  BY <1>1, <1>2, <1>3

\* The mutex is free at first.
LEMMA MutexInit == ASSUME Init PROVE MutexInv
<1>1. TypeOK
  BY EmptySeq DEF Init, TypeOK
<1>2. At({"owner"}) = {}
  BY DEF Init, At
<1> QED
  BY <1>1, <1>2 DEF Init, MutexInv, OneOwner, WaitersKnown

\* Every step keeps the types.
LEMMA MutexType == ASSUME TypeOK, [Next]_vars PROVE TypeOK'
<1> USE DEF TypeOK
<1>1. ASSUME NEW t \in Thread, lock(t) PROVE TypeOK'
  <2>1. CASE locked
    <3>1. Append(waiting, t) \in Seq(Thread)
      BY AppendProperties
    <3> QED
      BY <1>1, <2>1, <3>1 DEF lock
  <2>2. CASE ~locked
    BY <1>1, <2>2 DEF lock
  <2> QED
    BY <2>1, <2>2
<1>2. ASSUME NEW t \in Thread, try_lock(t) PROVE TypeOK'
  BY <1>2 DEF try_lock
<1>3. ASSUME NEW t \in Thread, unlock(t) PROVE TypeOK'
  BY <1>3, EmptySeq DEF unlock
<1>4. ASSUME NEW t \in Thread, Wake(t) PROVE TypeOK'
  <2>1. CASE wait[t] = <<>> \/ status[Head(wait[t])] = "dead"
    <3>1. pc' = [pc EXCEPT ![t] = "idle"] /\ wait' = [wait EXCEPT ![t] = <<>>] /\ UNCHANGED <<status, locked, waiting>>
      BY <1>4, <2>1 DEF Wake
    <3> QED
      BY <3>1, EmptySeq
  <2>2. CASE ~(wait[t] = <<>> \/ status[Head(wait[t])] = "dead")
    <3>1. Head(wait[t]) \in Thread /\ Tail(wait[t]) \in Seq(Thread)
      BY <2>2, HeadTailProperties
    <3> QED
      BY <1>4, <2>2, <3>1 DEF Wake
  <2> QED
    BY <2>1, <2>2
<1>5. ASSUME NEW t \in Thread, Run(t) \/ Kill(t) PROVE TypeOK'
  BY <1>5 DEF Run, Kill
<1>6. CASE UNCHANGED vars
  BY <1>6 DEF vars
<1> QED
  BY <1>1, <1>2, <1>3, <1>4, <1>5, <1>6 DEF Next, Step

\* Every step keeps the owner and the lists of those that wait for it.
LEMMA MutexStep == ASSUME MutexInv, [Next]_vars PROVE MutexInv'
<1> USE DEF MutexInv
<1>1. TypeOK'
  BY MutexType
<1>2. AllAlive' => AllAlive
  <2>1. ASSUME NEW t \in Thread, status[t] = "dead" PROVE status'[t] = "dead"
    <3> USE <2>1 DEF TypeOK
    <3>1. ASSUME NEW u \in Thread, Step(u) \/ Run(u) \/ Kill(u) PROVE status'[t] = "dead"
      <4>1. CASE lock(u)
        BY <4>1 DEF lock
      <4>2. CASE try_lock(u) \/ unlock(u)
        BY <4>2 DEF try_lock, unlock
      <4>3. CASE Wake(u)
        BY <4>3 DEF Wake
      <4>4. CASE Run(u) \/ Kill(u)
        BY <4>4 DEF Run, Kill
      <4> QED
        BY <3>1, <4>1, <4>2, <4>3, <4>4 DEF Step
    <3> QED
      BY <3>1 DEF Next, vars
  <2> QED
    BY <2>1 DEF AllAlive
<1>3. OneOwner'
  <2> USE DEF OneOwner, At, TypeOK
  <2>1. ASSUME NEW t \in Thread, lock(t) PROVE OneOwner'
    <3>1. CASE locked
      <4>1. pc' = [pc EXCEPT ![t] = "lock"] /\ locked' = locked /\ pc[t] # "owner"
        BY <2>1, <3>1 DEF lock
      <4>2. At({"owner"})' = At({"owner"})
        BY <2>1, <4>1
      <4> QED
        BY <4>1, <4>2
    <3>2. CASE ~locked
      BY <2>1, <3>2 DEF lock
    <3> QED
      BY <3>1, <3>2
  <2>2. ASSUME NEW t \in Thread, try_lock(t) PROVE OneOwner'
    BY <2>2 DEF try_lock
  <2>3. ASSUME NEW t \in Thread, unlock(t) PROVE OneOwner'
    BY <2>3 DEF unlock
  <2>4. ASSUME NEW t \in Thread, Wake(t) PROVE OneOwner'
    BY <2>4 DEF Wake
  <2>5. ASSUME NEW t \in Thread, Run(t) \/ Kill(t) PROVE OneOwner'
    BY <2>5 DEF Run, Kill
  <2>6. CASE UNCHANGED vars
    BY <2>6 DEF vars
  <2> QED
    BY <2>1, <2>2, <2>3, <2>4, <2>5, <2>6 DEF Next, Step
<1>4. WaitersKnown'
  <2> SUFFICES ASSUME NEW t \in Thread, AllAlive', status'[t] = "stop"
               PROVE  \/ locked' /\ At({"owner"})' # {} /\ t \in In(waiting')
                      \/ \E u \in At({"wake"})' : t \in In(wait'[u])
    BY DEF WaitersKnown
  <2> DEFINE Known == \/ locked' /\ At({"owner"})' # {} /\ t \in In(waiting')
                      \/ \E u \in At({"wake"})' : t \in In(wait'[u])
  <2> USE <1>2 DEF TypeOK
  <2>0. status[t] = "stop" =>
          \/ locked /\ t \in In(waiting)
          \/ \E u \in At({"wake"}) : t \in In(wait[u])
    BY DEF WaitersKnown
  <2>1. ASSUME NEW u \in Thread, lock(u) PROVE Known
    <3>1. CASE locked
      <4>1. locked' /\ At({"owner"})' # {}
        BY <1>3, <2>1, <3>1 DEF lock, OneOwner
      <4>2. In(waiting') = In(waiting) \cup {u} /\ UNCHANGED wait
        <5>1. In(Append(waiting, u)) = In(waiting) \cup {u}
          BY InProperties
        <5>2. waiting' = Append(waiting, u) /\ UNCHANGED wait
          BY <2>1, <3>1 DEF lock
        <5> QED
          BY <5>1, <5>2 DEF In
      <4>3. \A v \in At({"wake"}) : v \in At({"wake"})'
        BY <2>1, <3>1 DEF lock, At
      <4>4. t = u \/ status[t] = "stop"
        BY <2>1, <3>1 DEF lock
      <4> QED
        BY <2>0, <4>1, <4>2, <4>3, <4>4
    <3>2. CASE ~locked
      BY <2>0, <2>1, <3>2 DEF lock, At
    <3> QED
      BY <3>1, <3>2
  <2>2. ASSUME NEW u \in Thread, try_lock(u) PROVE Known
    BY <2>0, <2>2 DEF try_lock, At
  <2>3. ASSUME NEW u \in Thread, unlock(u) PROVE Known
    BY <2>0, <2>3 DEF unlock, At
  <2>4. ASSUME NEW u \in Thread, Wake(u) PROVE Known
    <3>1. CASE wait[u] = <<>> \/ status[Head(wait[u])] = "dead"
      <4>1. wait[u] = <<>> /\ In(wait[u]) = {}
        <5>1. wait[u] # <<>> => Head(wait[u]) \in Thread /\ UNCHANGED status
          BY <2>4, <3>1, HeadTailProperties DEF Wake
        <5>2. wait[u] = <<>>
          BY <3>1, <5>1 DEF AllAlive
        <5> QED
          BY <5>2, EmptySeq DEF In
      <4> QED
        BY <2>0, <2>4, <4>1 DEF Wake, At, OneOwner
    <3>2. CASE ~(wait[u] = <<>> \/ status[Head(wait[u])] = "dead")
      <4>1. \A x \in In(wait[u]) : x = Head(wait[u]) \/ x \in In(Tail(wait[u]))
        BY <3>2, InProperties
      <4>2. status[t] = "stop" /\ t # Head(wait[u])
        BY <2>4, <3>2, HeadTailProperties DEF Wake
      <4>3. \A v \in At({"wake"}) : v \in At({"wake"})'
        BY <2>4, <3>2 DEF Wake, At
      <4>4. CASE locked /\ t \in In(waiting)
        BY <2>4, <3>2, <4>4, <1>3 DEF Wake, OneOwner
      <4>5. ASSUME NEW v \in At({"wake"}), t \in In(wait[v]) PROVE Known
        BY <2>4, <3>2, <4>1, <4>2, <4>3, <4>5 DEF Wake, At
      <4> QED
        BY <2>0, <4>2, <4>4, <4>5
    <3> QED
      BY <3>1, <3>2
  <2>5. ASSUME NEW u \in Thread, Run(u) \/ Kill(u) PROVE Known
    BY <2>0, <2>5, <1>3 DEF Run, Kill, At, OneOwner
  <2>6. CASE UNCHANGED vars
    BY <2>0, <2>6, <1>3 DEF vars, At, OneOwner
  <2> QED
    BY <2>1, <2>2, <2>3, <2>4, <2>5, <2>6 DEF Next, Step
<1> QED
  BY <1>1, <1>3, <1>4

\* The owner, if there is one, is the one thread that is at "owner".
LEMMA OwnerIs ==
  ASSUME OneOwner
  PROVE  /\ At({"owner"}) = {} => Owner = NoThread
         /\ \A t \in At({"owner"}) : Owner = t
BY DEF OneOwner, Owner

\* Every step of the mutex is one of the abstract lock, or none.
LEMMA MutexRefines ==
  ASSUME MutexInv, MutexInv', [Next]_vars
  PROVE  [Lock!LockNext]_(Lock!lockvars)
<1> USE DEF MutexInv, Lock!LockNext, Lock!lockvars
<1>0. /\ At({"owner"})' = {} => Owner' = NoThread
      /\ \A t \in At({"owner"})' : Owner' = t
  BY DEF OneOwner, Owner
<1>1. ASSUME NEW t \in Thread, ~locked, locked', pc' = [pc EXCEPT ![t] = "owner"]
      PROVE  Lock!Write(t)
  <2>1. Owner = NoThread
    BY <1>1, OwnerIs DEF OneOwner
  <2>2. Owner' = t
    BY <1>0, <1>1 DEF At, TypeOK
  <2> QED
    BY <2>1, <2>2 DEF Lock!Write
<1>2. ASSUME NEW t \in Thread, unlock(t) PROVE Lock!EndWrite(t)
  <2>1. Owner = t
    BY <1>2, OwnerIs DEF unlock, At
  <2>2. At({"owner"})' = {}
    BY <1>2 DEF unlock, At, OneOwner, TypeOK
  <2> QED
    BY <1>0, <2>1, <2>2 DEF Lock!EndWrite
<1>3. ASSUME At({"owner"})' = At({"owner"}) PROVE UNCHANGED Lock!lockvars
  <2>1. Owner' = Owner
    BY <1>0, <1>3, OwnerIs
  <2> QED
    BY <2>1
<1>4. ASSUME NEW t \in Thread, lock(t) PROVE [Lock!LockNext]_(Lock!lockvars)
  <2>1. CASE locked
    BY <1>3, <1>4, <2>1 DEF lock, At, TypeOK
  <2>2. CASE ~locked
    BY <1>1, <1>4, <2>2 DEF lock
  <2> QED
    BY <2>1, <2>2
<1>5. ASSUME NEW t \in Thread, try_lock(t) PROVE [Lock!LockNext]_(Lock!lockvars)
  BY <1>1, <1>5 DEF try_lock
<1>6. ASSUME NEW t \in Thread, Wake(t) PROVE [Lock!LockNext]_(Lock!lockvars)
  BY <1>3, <1>6 DEF Wake, At, TypeOK
<1>7. ASSUME NEW t \in Thread, Run(t) \/ Kill(t) PROVE [Lock!LockNext]_(Lock!lockvars)
  BY <1>3, <1>7 DEF Run, Kill, At
<1>8. CASE UNCHANGED vars
  BY <1>3, <1>8 DEF vars, At
<1> QED
  BY <1>2, <1>4, <1>5, <1>6, <1>7, <1>8 DEF Next, Step

-----------------------------------------------------------------------------
(***************************************************************************)
(* Induction over the naturals, for sets: the least element of a set, from *)
(* the well-founded order of the library.                                  *)
(***************************************************************************)

Less == {p \in Nat \X Nat : p[1] < p[2]}

\* There is no endless descent among the numbers.
LEMMA LessWellFounded == IsWellFoundedOn(Less, Nat)
BY NatLessThanWellFounded DEF OpToRel, Less

\* A set of numbers has a least one.
LEMMA LeastElement ==
  ASSUME NEW A \in SUBSET Nat, A # {}
  PROVE  \E x \in A : \A y \in A : x <= y
<1>1. \E x \in A : \A y \in A : ~ (<<y, x>> \in Less)
  BY LessWellFounded, WFMin
<1>2. PICK x \in A : \A y \in A : ~ (<<y, x>> \in Less)
  BY <1>1
<1>3. ASSUME NEW y \in A, ~(x <= y) PROVE FALSE
  <2>1. x \in Nat /\ y \in Nat /\ y < x
    BY <1>3
  <2>2. <<y, x>> \in Less
    BY <2>1 DEF Less
  <2> QED
    BY <2>2, <1>2
<1> QED
  BY <1>3

\* A set with 0 and the successors of its elements has all naturals.
LEMMA SetInduction ==
  ASSUME NEW A \in SUBSET Nat, 0 \in A, \A n \in A : n + 1 \in A
  PROVE  A = Nat
<1> SUFFICES ASSUME Nat \ A # {} PROVE FALSE
  OBVIOUS
<1>1. PICK x \in Nat \ A : \A y \in Nat \ A : x <= y
  BY LeastElement
<1>2. x # 0 /\ x - 1 \in Nat
  OBVIOUS
<1>3. x - 1 \in A
  BY <1>1, <1>2
<1> QED
  BY <1>3

-----------------------------------------------------------------------------
(***************************************************************************)
(* The true items of a sequence.                                           *)
(***************************************************************************)

\* The function that Trues(s) is the last value of.
IsTrues(f, s) ==
  f = [i \in 0 .. Len(s) |->
         IF i = 0 THEN <<>>
         ELSE IF Q!Truthy(s[i]) THEN Append(f[i - 1], s[i]) ELSE f[i - 1]]

\* There is a function that satisfies the equation of Trues.
LEMMA TruesExists ==
  ASSUME NEW s, Len(s) \in Nat PROVE \E f : IsTrues(f, s)
<1> DEFINE Upto(f, n) == f = [i \in 0 .. n |->
             IF i = 0 THEN <<>>
             ELSE IF Q!Truthy(s[i]) THEN Append(f[i - 1], s[i]) ELSE f[i - 1]]
<1> DEFINE A == {n \in Nat : \E f : Upto(f, n)}
<1>1. 0 \in A
  <2>1. Upto([i \in 0 .. 0 |-> <<>>], 0)
    OBVIOUS
  <2> QED
    BY <2>1
<1>2. ASSUME NEW n \in A PROVE n + 1 \in A
  <2>1. PICK f : Upto(f, n)
    BY <1>2
  <2> DEFINE g == [i \in 0 .. (n + 1) |-> IF i = n + 1
                     THEN IF Q!Truthy(s[i]) THEN Append(f[n], s[i]) ELSE f[n]
                     ELSE f[i]]
  <2>2. \A i \in 0 .. n : f[i] = IF i = 0 THEN <<>>
                          ELSE IF Q!Truthy(s[i]) THEN Append(f[i - 1], s[i]) ELSE f[i - 1]
    BY <2>1
  <2>3. \A i \in 0 .. (n + 1) : g[i] = IF i = 0 THEN <<>>
                          ELSE IF Q!Truthy(s[i]) THEN Append(g[i - 1], s[i]) ELSE g[i - 1]
    BY <2>2
  <2>4. Upto(g, n + 1)
    BY <2>3
  <2> HIDE DEF Upto, g
  <2>5. \E h : Upto(h, n + 1)
    BY <2>4
  <2> QED
    BY <2>5
<1>3. A = Nat
  BY <1>1, <1>2, SetInduction
<1> QED
  BY <1>3 DEF IsTrues

\* Trues is the last value of one.
LEMMA TruesIs ==
  ASSUME NEW s, Len(s) \in Nat
  PROVE  \E f : IsTrues(f, s) /\ Q!Trues(s) = f[Len(s)]
<1>1. PICK f : IsTrues(f, s)
  BY TruesExists
<1>2. IsTrues(CHOOSE h : IsTrues(h, s), s)
  BY <1>1
<1>3. Q!Trues(s) = (CHOOSE h : IsTrues(h, s))[Len(s)]
  BY DEF Q!Trues, IsTrues
<1> QED
  BY <1>2, <1>3

\* One more item.
LEMMA TruesNext ==
  ASSUME NEW f, NEW s, Len(s) \in Nat, IsTrues(f, s)
  PROVE  /\ f[0] = <<>>
         /\ \A i \in 1 .. Len(s) :
              f[i] = IF Q!Truthy(s[i]) THEN Append(f[i - 1], s[i]) ELSE f[i - 1]
<1> DEFINE value(i) == IF i = 0 THEN <<>>
                       ELSE IF Q!Truthy(s[i]) THEN Append(f[i - 1], s[i]) ELSE f[i - 1]
<1>1. f = [i \in 0 .. Len(s) |-> value(i)]
  BY DEF IsTrues
<1>2. \A i \in 0 .. Len(s) : f[i] = value(i)
  <2> HIDE DEF value
  <2> QED
    BY <1>1
<1>3. 0 \in 0 .. Len(s) /\ \A i \in 1 .. Len(s) : i \in 0 .. Len(s) /\ i # 0
  OBVIOUS
<1>4. f[0] = <<>>
  BY <1>2, <1>3
<1>5. ASSUME NEW i \in 1 .. Len(s)
      PROVE  f[i] = IF Q!Truthy(s[i]) THEN Append(f[i - 1], s[i]) ELSE f[i - 1]
  <2>1. f[i] = value(i) /\ i # 0
    BY <1>2, <1>3
  <2> QED
    BY <2>1, Zenon
<1> QED
  BY <1>4, <1>5

\* The values are sequences of items that are true.
LEMMA TruesType ==
  ASSUME NEW A, NEW s \in Seq(A), NEW f, IsTrues(f, s)
  PROVE  \A i \in 0 .. Len(s) : f[i] \in Seq({x \in A : Q!Truthy(x)})
<1> DEFINE T == Seq({x \in A : Q!Truthy(x)})
<1> DEFINE N == {i \in Nat : i <= Len(s) => f[i] \in T}
<1>0. Len(s) \in Nat /\ \A i \in 1 .. Len(s) : s[i] \in A
  BY ElementOfSeq, LenProperties
<1>1. 0 \in N
  BY <1>0, TruesNext, EmptySeq
<1>2. ASSUME NEW i \in N PROVE i + 1 \in N
  <2> SUFFICES ASSUME i + 1 <= Len(s) PROVE f[i + 1] \in T
    BY <1>2
  <2>1. f[i] \in T /\ i + 1 \in 1 .. Len(s) /\ s[i + 1] \in A
    BY <1>0, <1>2
  <2>2. f[i + 1] = IF Q!Truthy(s[i + 1]) THEN Append(f[i], s[i + 1]) ELSE f[i]
    BY <1>0, <2>1, TruesNext
  <2>3. Q!Truthy(s[i + 1]) => Append(f[i], s[i + 1]) \in T
    BY <2>1, AppendProperties
  <2> QED
    BY <2>1, <2>2, <2>3
<1>3. N = Nat
  <2> HIDE DEF N
  <2>1. N \in SUBSET Nat
    BY DEF N
  <2> QED
    BY <1>1, <1>2, <2>1, SetInduction
<1>4. \A i \in Nat : i <= Len(s) => f[i] \in T
  BY <1>3
<1> HIDE DEF T, N
<1>5. \A i \in 0 .. Len(s) : f[i] \in T
  BY <1>0, <1>4
<1> QED
  BY <1>5 DEF T

\* An item at the end of two sequences put together.
Extends(a, b, x) == Append(a \o b, x) = a \o Append(b, x)

\* What Append() does, cell by cell.
LEMMA AppendExtends ==
  ASSUME NEW A, NEW a \in Seq(A), NEW b \in Seq(A), NEW x \in A
  PROVE  Extends(a, b, x)
BY DEF Extends

\* The items behind place k add to what is found up to k.
Shifted(f, g, k, i) == f[k + i] = f[k] \o g[i]

\* The items of the rest of a list are found at the end of those of the list.
LEMMA TruesShift ==
  ASSUME NEW A, NEW s \in Seq(A), NEW t \in Seq(A), NEW k \in Nat, k + Len(t) = Len(s),
         \A i \in 1 .. Len(t) : t[i] = s[k + i],
         NEW f, IsTrues(f, s), NEW g, IsTrues(g, t)
  PROVE  \A i \in 0 .. Len(t) : Shifted(f, g, k, i)
<1> DEFINE same(i) == f[k + i] = f[k] \o g[i]
<1> DEFINE N == {i \in Nat : i <= Len(t) => same(i)}
<1>0. Len(s) \in Nat /\ Len(t) \in Nat /\ \A i \in 1 .. Len(t) : t[i] \in A
  BY ElementOfSeq, LenProperties
<1>a. Seq({x \in A : Q!Truthy(x)}) \subseteq Seq(A)
  <2>1. {x \in A : Q!Truthy(x)} \subseteq A
    OBVIOUS
  <2> QED
    BY <2>1, SeqMonotonic
<1>b. (\A i \in 0 .. Len(s) : f[i] \in Seq(A)) /\ (\A i \in 0 .. Len(t) : g[i] \in Seq(A))
  BY <1>a, TruesType, Zenon
<1>c. \A i \in 1 .. Len(s) :
        f[i] = IF Q!Truthy(s[i]) THEN Append(f[i - 1], s[i]) ELSE f[i - 1]
  BY <1>0, TruesNext, Zenon
<1>d. /\ g[0] = <<>>
      /\ \A i \in 1 .. Len(t) :
           g[i] = IF Q!Truthy(t[i]) THEN Append(g[i - 1], t[i]) ELSE g[i - 1]
  BY <1>0, TruesNext, Zenon
<1>1. same(0)
  <2>1. k + 0 = k /\ k \in 0 .. Len(s)
    BY <1>0
  <2>2. f[k] \o <<>> = f[k]
    BY <2>1, <1>b, ConcatEmptySeq
  <2> QED
    BY <2>1, <2>2, <1>d
<1>2. ASSUME NEW i \in Nat, i + 1 <= Len(t), same(i) PROVE same(i + 1)
  <2>1. /\ i + 1 \in 1 .. Len(t) /\ (i + 1) - 1 = i /\ i \in 0 .. Len(t)
        /\ k + (i + 1) \in 1 .. Len(s) /\ (k + (i + 1)) - 1 = k + i /\ k \in 0 .. Len(s)
    BY <1>0, <1>2
  <2>2. t[i + 1] = s[k + (i + 1)] /\ t[i + 1] \in A /\ f[k] \in Seq(A) /\ g[i] \in Seq(A)
    BY <1>0, <1>b, <2>1, Zenon
  <2>3. g[i + 1] = IF Q!Truthy(t[i + 1]) THEN Append(g[i], t[i + 1]) ELSE g[i]
    BY <1>d, <2>1, Zenon
  <2>4. f[k + (i + 1)] = IF Q!Truthy(t[i + 1]) THEN Append(f[k + i], t[i + 1]) ELSE f[k + i]
    BY <1>c, <2>1, <2>2, Zenon
  <2>5. Append(f[k] \o g[i], t[i + 1]) = f[k] \o Append(g[i], t[i + 1])
    <3>1. Extends(f[k], g[i], t[i + 1])
      BY <2>2, AppendExtends
    <3> QED
      BY <3>1, Zenon DEF Extends
  <2> QED
    BY <1>2, <2>3, <2>4, <2>5, Zenon
<1> HIDE DEF same
<1>3. 0 \in N /\ \A i \in N : i + 1 \in N
  BY <1>0, <1>1, <1>2
<1>4. N = Nat
  <2>1. N \in SUBSET Nat
    OBVIOUS
  <2> QED
    BY <1>3, <2>1, SetInduction, Zenon
<1>5. \A i \in 0 .. Len(t) : same(i)
  BY <1>0, <1>4
<1> QED
  BY <1>5 DEF same, Shifted

\* Up to a place in front of which nothing is true, nothing is found.
LEMMA TruesNone ==
  ASSUME NEW A, NEW s \in Seq(A), NEW k \in 0 .. Len(s),
         \A i \in 1 .. k : ~Q!Truthy(s[i]), NEW f, IsTrues(f, s)
  PROVE  f[k] = <<>>
<1> DEFINE N == {i \in Nat : i <= k => f[i] = <<>>}
<1>0. Len(s) \in Nat
  BY LenProperties
<1>1. 0 \in N
  BY <1>0, TruesNext
<1>2. ASSUME NEW i \in N PROVE i + 1 \in N
  BY <1>0, <1>2, TruesNext
<1>3. N = Nat
  <2> HIDE DEF N
  <2>1. N \in SUBSET Nat
    BY DEF N
  <2> QED
    BY <1>1, <1>2, <2>1, SetInduction
<1> QED
  BY <1>0, <1>3

\* Nothing is true in an empty sequence, nor in one whose items are all false.
LEMMA TruesFalse ==
  ASSUME NEW A, NEW s \in Seq(A), \A i \in 1 .. Len(s) : ~Q!Truthy(s[i])
  PROVE  Q!Trues(s) = <<>>
<1>1. Len(s) \in Nat /\ Len(s) \in 0 .. Len(s)
  BY LenProperties
<1>2. PICK f : IsTrues(f, s) /\ Q!Trues(s) = f[Len(s)]
  BY <1>1, TruesIs
<1> QED
  BY <1>1, <1>2, TruesNone

\* An empty list has no items.
LEMMA TruesEmpty == Q!Trues(<<>>) = <<>>
<1>1. <<>> \in Seq({}) /\ \A i \in 1 .. Len(<<>>) : ~Q!Truthy(<<>>[i])
  BY EmptySeq
<1> QED
  BY <1>1, TruesFalse

\* The items of a list are elements of it.
LEMMA TruesSeq ==
  ASSUME NEW A, NEW s \in Seq(A) PROVE Q!Trues(s) \in Seq({x \in A : Q!Truthy(x)})
<1>1. Len(s) \in Nat /\ Len(s) \in 0 .. Len(s)
  BY LenProperties
<1>2. PICK f : IsTrues(f, s) /\ Q!Trues(s) = f[Len(s)]
  BY <1>1, TruesIs
<1> QED
  BY <1>1, <1>2, TruesType

\* What an item at the end adds.
LEMMA TruesAppend ==
  ASSUME NEW A, NEW s \in Seq(A), NEW x \in A
  PROVE  Q!Trues(Append(s, x)) = IF Q!Truthy(x) THEN Append(Q!Trues(s), x) ELSE Q!Trues(s)
<1> DEFINE u == Append(s, x)
<1>1. /\ u \in Seq(A) /\ Len(u) = Len(s) + 1 /\ Len(s) \in Nat
      /\ \A i \in 1 .. Len(s) : u[i] = s[i]
      /\ u[Len(s) + 1] = x
  OBVIOUS
<1> HIDE DEF u
<1>2. PICK f : IsTrues(f, s) /\ Q!Trues(s) = f[Len(s)]
  BY <1>1, TruesIs
<1>3. PICK g : IsTrues(g, u) /\ Q!Trues(u) = g[Len(u)]
  BY <1>1, TruesIs
<1> DEFINE N == {i \in Nat : i <= Len(s) => g[i] = f[i]}
<1>4. /\ f[0] = <<>>
      /\ \A i \in 1 .. Len(s) :
           f[i] = IF Q!Truthy(s[i]) THEN Append(f[i - 1], s[i]) ELSE f[i - 1]
  BY <1>1, <1>2, TruesNext, Zenon
<1>5. /\ g[0] = <<>>
      /\ \A i \in 1 .. Len(u) :
           g[i] = IF Q!Truthy(u[i]) THEN Append(g[i - 1], u[i]) ELSE g[i - 1]
  <2>1. Len(u) \in Nat
    BY <1>1
  <2> QED
    BY <2>1, <1>3, TruesNext, Zenon
<1>6. 0 \in N
  BY <1>4, <1>5
<1>7. ASSUME NEW i \in N PROVE i + 1 \in N
  <2> SUFFICES ASSUME i + 1 <= Len(s) PROVE g[i + 1] = f[i + 1]
    BY <1>7
  <2>1. /\ i + 1 \in 1 .. Len(s) /\ i + 1 \in 1 .. Len(u) /\ (i + 1) - 1 = i /\ g[i] = f[i]
        /\ u[i + 1] = s[i + 1]
    BY <1>1, <1>7
  <2> QED
    BY <1>4, <1>5, <2>1, Zenon
<1>8. g[Len(s)] = f[Len(s)]
  <2> HIDE DEF N
  <2>1. N \in SUBSET Nat
    BY DEF N
  <2>2. N = Nat
    BY <1>6, <1>7, <2>1, SetInduction
  <2> QED
    BY <1>1, <2>2 DEF N
<1>9. Len(u) \in 1 .. Len(u) /\ Len(u) - 1 = Len(s) /\ u[Len(u)] = x
  BY <1>1
<1>10. g[Len(u)] = IF Q!Truthy(x) THEN Append(f[Len(s)], x) ELSE f[Len(s)]
  BY <1>5, <1>8, <1>9, Zenon
<1> QED
  BY <1>2, <1>3, <1>10 DEF u

\* What is found from the first true item on.
LEMMA TruesFirst ==
  ASSUME NEW A, NEW s \in Seq(A), NEW k \in 1 .. Len(s), Q!Truthy(s[k]),
         \A i \in 1 .. (k - 1) : ~Q!Truthy(s[i])
  PROVE  Q!Trues(s) = <<s[k]>> \o Q!Trues(SubSeq(s, k + 1, Len(s)))
<1> DEFINE t == SubSeq(s, k + 1, Len(s))
<1>0. Len(s) \in Nat /\ k \in Nat /\ s[k] \in A
  BY ElementOfSeq, LenProperties
<1>1. /\ t \in Seq(A) /\ k + Len(t) = Len(s) /\ Len(t) \in Nat
      /\ \A i \in 1 .. Len(t) : t[i] = s[k + i]
  <2>1. SubSeq(s, k + 1, Len(s)) \in Seq(A)
    BY <1>0
  <2>2. Len(SubSeq(s, k + 1, Len(s))) = Len(s) - k
    BY <1>0
  <2>3. \A i \in 1 .. (Len(s) - k) : SubSeq(s, k + 1, Len(s))[i] = s[k + i]
    BY <1>0
  <2>4. k + Len(t) = Len(s) /\ Len(t) = Len(s) - k /\ Len(t) \in Nat
    BY <1>0, <2>2
  <2> HIDE DEF t
  <2>5. \A i \in 1 .. Len(t) : t[i] = s[k + i]
    BY <2>3, <2>4, Zenon DEF t
  <2> QED
    BY <2>1, <2>4, <2>5, Zenon DEF t
<1> HIDE DEF t
<1>2. PICK f : IsTrues(f, s) /\ Q!Trues(s) = f[Len(s)]
  BY <1>0, TruesIs
<1>3. PICK g : IsTrues(g, t) /\ Q!Trues(t) = g[Len(t)]
  BY <1>1, TruesIs
<1>4. f[k - 1] = <<>>
  <2>1. k - 1 \in 0 .. Len(s)
    BY <1>0
  <2> QED
    BY <2>1, <1>2, TruesNone
<1>5. f[k] = <<s[k]>>
  <2>1. f[k] = Append(f[k - 1], s[k])
    BY <1>0, <1>2, TruesNext, Zenon
  <2> QED
    BY <2>1, <1>4
<1>6. \A i \in 0 .. Len(t) : Shifted(f, g, k, i)
  <2>1. k \in Nat /\ IsTrues(f, s) /\ IsTrues(g, t)
    BY <1>0, <1>2, <1>3
  <2> QED
    BY <1>1, <2>1, TruesShift, Zenon
<1>7. f[Len(s)] = f[k] \o g[Len(t)]
  <2>1. Len(t) \in 0 .. Len(t)
    BY <1>1
  <2> QED
    BY <1>1, <1>6, <2>1 DEF Shifted
<1> QED
  BY <1>2, <1>3, <1>5, <1>7 DEF t

-----------------------------------------------------------------------------
(***************************************************************************)
(* The first true item of the queue.                                       *)
(***************************************************************************)

\* FirstTrue is the place of the first item of que.
LEMMA FirstTrueIs ==
  ASSUME NEW A, que \in Seq(A)
  PROVE  \/ Q!FirstTrue = 0 /\ \A i \in 1 .. Len(que) : ~Q!Truthy(que[i])
         \/ /\ Q!FirstTrue \in 1 .. Len(que) /\ Q!Truthy(que[Q!FirstTrue])
            /\ \A i \in 1 .. (Q!FirstTrue - 1) : ~Q!Truthy(que[i])
<1> DEFINE I == {i \in 1 .. Len(que) : Q!Truthy(que[i])}
<1>1. Q!FirstTrue = IF I # {} THEN Q!Min(I) ELSE 0
  BY DEF Q!FirstTrue, Q!SelectInSeq
<1>2. Len(que) \in Nat
  BY LenProperties
<1>3. CASE I = {}
  BY <1>1, <1>3
<1>4. CASE I # {}
  <2>1. I \in SUBSET Nat
    BY <1>2
  <2>2. \E x \in I : \A y \in I : x <= y
    <3> HIDE DEF I
    <3> QED
      BY <1>4, <2>1, LeastElement
  <2>3. Q!FirstTrue \in I /\ \A y \in I : Q!FirstTrue <= y
    <3> HIDE DEF I
    <3> QED
      BY <1>1, <1>4, <2>2 DEF Q!Min
  <2> QED
    BY <1>2, <2>3
<1> QED
  BY <1>3, <1>4

-----------------------------------------------------------------------------
(***************************************************************************)
(* The inductive invariant.  While nobody is killed or run by others, the  *)
(* threads that are stopped are those on the list and those taken off it   *)
(* by a push that has yet to run them: each of them once.                  *)
(***************************************************************************)

Stopped(t) == t \in Thread /\ q_status[t] = "stop" /\ q_pc[t] = "pop"

Placed ==
  /\ \A t \in Thread : q_status[t] # "dead" /\ (q_status[t] = "stop" => q_pc[t] = "pop")
  /\ \A i \in 1 .. Len(q_waiting) : Stopped(q_waiting[i])
  /\ \A i, j \in 1 .. Len(q_waiting) : q_waiting[i] = q_waiting[j] => i = j
  /\ \A t \in Thread : q_pc[t] = "run" =>
       /\ Stopped(shifted[t])
       /\ \A i \in 1 .. Len(q_waiting) : q_waiting[i] # shifted[t]
       /\ \A u \in Thread : q_pc[u] = "run" /\ shifted[u] = shifted[t] => u = t

QueueInv ==
  /\ Q!TypeOK /\ Q!Fifo
  /\ IsFiniteSet(Q!Poppers)
  /\ ~disturbed => Placed
  /\ Q!ItemsClaimed

\* In the initial state.
LEMMA QueueInit == Q!Init => QueueInv
<1> SUFFICES ASSUME Q!Init PROVE QueueInv
  OBVIOUS
<1> USE DEF Q!Init
<1>1. Q!TypeOK
  <2>1. que \in Seq(Item \cup {Nil}) /\ q_waiting \in Seq(Thread)
    BY EmptySeq, Zenon
  <2>2. pushed \in Seq(Item \cup {Nil}) /\ popped \in Seq(Item)
    BY EmptySeq, Zenon
  <2>3. /\ q_pc \in [Thread -> {"idle", "pop", "run"}]
        /\ shifted \in [Thread -> Thread \cup {NoThread}]
        /\ q_status \in [Thread -> {"run", "stop", "dead"}] /\ disturbed \in BOOLEAN
    OBVIOUS
  <2> QED
    BY <2>1, <2>2, <2>3, Zenon DEF Q!TypeOK
<1>2. Q!Trues(<<>>) = <<>>
  BY TruesEmpty
<1>3. Q!Fifo
  BY <1>2 DEF Q!Fifo
<1>4. Q!Poppers = {}
  BY DEF Q!Poppers, Q!Ready
<1>5. IsFiniteSet(Q!Poppers)
  BY <1>4, FS_EmptySet
<1>6. Placed
  BY DEF Placed
<1>7. Q!ItemsClaimed
  BY DEF Q!ItemsClaimed, Q!Cardinality, Cardinality
<1> QED
  BY <1>1, <1>3, <1>5, <1>6, <1>7 DEF QueueInv

\* Every variable keeps its type.
LEMMA QueueType == Q!TypeOK /\ [Q!Next]_(Q!vars) => Q!TypeOK'
<1> SUFFICES ASSUME Q!TypeOK, [Q!Next]_(Q!vars) PROVE Q!TypeOK'
  OBVIOUS
<1> USE DEF Q!TypeOK
<1>1. ASSUME NEW t \in Thread, NEW i \in Item \cup {Nil}, Q!push(t, i) PROVE Q!TypeOK'
  <2>1. que' \in Seq(Item \cup {Nil}) /\ pushed' \in Seq(Item \cup {Nil})
    BY <1>1 DEF Q!push
  <2>2. CASE q_waiting = <<>>
    BY <1>1, <2>1, <2>2 DEF Q!push
  <2>3. CASE q_waiting # <<>>
    <3>1. Head(q_waiting) \in Thread /\ Tail(q_waiting) \in Seq(Thread)
      BY <2>3, HeadTailProperties
    <3> QED
      BY <1>1, <2>1, <2>3, <3>1 DEF Q!push
  <2> QED
    BY <2>2, <2>3
<1>2. ASSUME NEW t \in Thread, Q!PushRuns(t) PROVE Q!TypeOK'
  BY <1>2 DEF Q!PushRuns
<1>3. ASSUME NEW t \in Thread, Q!pop(t) PROVE Q!TypeOK'
  <2>1. CASE Q!FirstTrue = 0
    <3>1. Append(q_waiting, t) \in Seq(Thread) /\ <<>> \in Seq(Item \cup {Nil})
      BY EmptySeq, AppendProperties
    <3> QED
      BY <1>3, <2>1, <3>1 DEF Q!pop
  <2>2. CASE Q!FirstTrue # 0
    <3>1. Q!FirstTrue \in 1 .. Len(que) /\ Q!Truthy(que[Q!FirstTrue])
      BY <2>2, FirstTrueIs
    <3>2. que[Q!FirstTrue] \in Item
      BY <3>1, ElementOfSeq DEF Q!Truthy
    <3>3. SubSeq(que, Q!FirstTrue + 1, Len(que)) \in Seq(Item \cup {Nil})
      BY <3>1
    <3>4. Append(popped, que[Q!FirstTrue]) \in Seq(Item)
      BY <3>2, AppendProperties
    <3> QED
      BY <1>3, <2>2, <3>3, <3>4 DEF Q!pop
  <2> QED
    BY <2>1, <2>2
<1>4. ASSUME NEW t \in Thread, Q!PopNonBlock(t) PROVE Q!TypeOK'
  BY <1>4 DEF Q!PopNonBlock
<1>5. ASSUME NEW t \in Thread, Q!Run(t) \/ Q!Kill(t) PROVE Q!TypeOK'
  BY <1>5 DEF Q!Run, Q!Kill
<1>6. CASE UNCHANGED Q!vars
  BY <1>6 DEF Q!vars
<1> QED
  BY <1>1, <1>2, <1>3, <1>4, <1>5, <1>6 DEF Q!Next, Q!Step

\* An item goes from the head of one sequence to the end of another.
Moves(a, x, b) == Append(a, x) \o b = a \o (<<x>> \o b)

\* Append() moves an element to the end.
LEMMA AppendMoves ==
  ASSUME NEW A, NEW a \in Seq(A), NEW b \in Seq(A), NEW x \in A
  PROVE  Moves(a, x, b)
BY DEF Moves

\* push adds to both sides what pop takes from the left one.
LEMMA FifoStep == Q!TypeOK /\ Q!Fifo /\ [Q!Next]_(Q!vars) => Q!Fifo'
<1> SUFFICES ASSUME Q!TypeOK, Q!Fifo, [Q!Next]_(Q!vars) PROVE Q!Fifo'
  OBVIOUS
<1> DEFINE A == Item \cup {Nil}
<1>0. /\ que \in Seq(A) /\ pushed \in Seq(A) /\ popped \in Seq(A)
      /\ Q!Trues(que) \in Seq(A) /\ Q!Trues(pushed) \in Seq(A)
  <2>1. que \in Seq(A) /\ pushed \in Seq(A) /\ popped \in Seq(Item)
    BY DEF Q!TypeOK
  <2>2. Q!Trues(que) \in Seq({x \in A : Q!Truthy(x)}) /\ Q!Trues(pushed) \in Seq({x \in A : Q!Truthy(x)})
    BY <2>1, TruesSeq
  <2>3. Seq(Item) \subseteq Seq(A) /\ Seq({x \in A : Q!Truthy(x)}) \subseteq Seq(A)
    BY SeqMonotonic
  <2> QED
    BY <2>1, <2>2, <2>3
<1>1. ASSUME NEW t \in Thread, NEW i \in A, Q!push(t, i) PROVE Q!Fifo'
  <2>1. que' = Append(que, i) /\ pushed' = Append(pushed, i) /\ popped' = popped
    BY <1>1 DEF Q!push
  <2> HIDE DEF A
  <2>2. /\ Q!Trues(que)' = IF Q!Truthy(i) THEN Append(Q!Trues(que), i) ELSE Q!Trues(que)
        /\ Q!Trues(pushed)' = IF Q!Truthy(i) THEN Append(Q!Trues(pushed), i) ELSE Q!Trues(pushed)
    <3>1. Q!Trues(que)' = Q!Trues(que') /\ Q!Trues(pushed)' = Q!Trues(pushed')
      BY DEF Q!Trues
    <3> QED
      BY <1>0, <2>1, <3>1, TruesAppend
  <2>3. Extends(popped, Q!Trues(que), i)
    BY <1>0, AppendExtends
  <2> QED
    BY <2>1, <2>2, <2>3 DEF Q!Fifo, Extends
<1>2. ASSUME NEW t \in Thread, Q!pop(t) PROVE Q!Fifo'
  <2>0. Q!Trues(que)' = Q!Trues(que') /\ Q!Trues(pushed)' = Q!Trues(pushed')
    BY DEF Q!Trues
  <2>1. CASE Q!FirstTrue = 0
    <3>1. que' = <<>> /\ popped' = popped /\ pushed' = pushed
      BY <1>2, <2>1 DEF Q!pop
    <3>2. \A i \in 1 .. Len(que) : ~Q!Truthy(que[i])
      BY <1>0, <2>1, FirstTrueIs
    <3>3. Q!Trues(que) = <<>> /\ Q!Trues(que') = <<>>
      BY <1>0, <3>1, <3>2, TruesFalse, TruesEmpty
    <3> QED
      BY <2>0, <3>1, <3>3 DEF Q!Fifo
  <2>2. CASE Q!FirstTrue # 0
    <3> DEFINE k == Q!FirstTrue
    <3>1. k \in 1 .. Len(que) /\ Q!Truthy(que[k]) /\ \A i \in 1 .. (k - 1) : ~Q!Truthy(que[i])
      BY <1>0, <2>2, FirstTrueIs
    <3>2. que' = SubSeq(que, k + 1, Len(que)) /\ popped' = Append(popped, que[k])
      BY <1>2, <2>2 DEF Q!pop
    <3>3. pushed' = pushed
      BY <1>2 DEF Q!pop
    <3>4. Q!Trues(que) = <<que[k]>> \o Q!Trues(que')
      <4> HIDE DEF k, A
      <4> QED
        BY <1>0, <3>1, <3>2, TruesFirst
    <3>5. que' \in Seq(A) /\ que[k] \in A
      <4> HIDE DEF k, A
      <4> QED
        BY <1>0, <3>1, <3>2, ElementOfSeq
    <3>6. Q!Trues(que') \in Seq(A)
      <4>1. Q!Trues(que') \in Seq({x \in A : Q!Truthy(x)})
        BY <3>5, TruesSeq
      <4>2. Seq({x \in A : Q!Truthy(x)}) \subseteq Seq(A)
        BY SeqMonotonic
      <4> QED
        BY <4>1, <4>2
    <3>7. Moves(popped, que[k], Q!Trues(que'))
      BY <1>0, <3>5, <3>6, AppendMoves
    <3> QED
      BY <2>0, <3>2, <3>3, <3>4, <3>7, Zenon DEF Q!Fifo, Moves
  <2> QED
    BY <2>1, <2>2
<1>3. ASSUME NEW t \in Thread, Q!PopNonBlock(t) PROVE Q!Fifo'
  <2>1. /\ que' = <<>> /\ popped' = popped /\ pushed' = pushed /\ Q!FirstTrue = 0
        /\ Q!Trues(que)' = Q!Trues(que') /\ Q!Trues(pushed)' = Q!Trues(pushed')
    BY <1>3 DEF Q!PopNonBlock, Q!Trues
  <2>2. \A i \in 1 .. Len(que) : ~Q!Truthy(que[i])
    BY <1>0, <2>1, FirstTrueIs
  <2>3. Q!Trues(que) = <<>> /\ Q!Trues(que') = <<>>
    BY <1>0, <2>1, <2>2, TruesFalse, TruesEmpty
  <2> QED
    BY <2>1, <2>3 DEF Q!Fifo
<1>4. ASSUME que' = que, popped' = popped, pushed' = pushed PROVE Q!Fifo'
  <2>1. Q!Trues(que)' = Q!Trues(que') /\ Q!Trues(pushed)' = Q!Trues(pushed')
    BY DEF Q!Trues
  <2> QED
    BY <1>4, <2>1 DEF Q!Fifo
<1> QED
  BY <1>1, <1>2, <1>3, <1>4 DEF Q!Next, Q!Step, Q!PushRuns, Q!Run, Q!Kill, Q!vars

\* What a step does to the threads on their way to an item.
LEMMA PoppersStep ==
  ASSUME Q!TypeOK, IsFiniteSet(Q!Poppers), [Q!Next]_(Q!vars) PROVE IsFiniteSet(Q!Poppers')
<1>1. \/ Q!Poppers' = Q!Poppers
      \/ \E t \in Thread : Q!Poppers' \subseteq Q!Poppers \cup {t} \cup {shifted[t]}
  <2> USE DEF Q!Poppers, Q!Ready, Q!TypeOK
  <2>1. ASSUME NEW t \in Thread, NEW i \in Item \cup {Nil}, Q!push(t, i)
        PROVE  Q!Poppers' \subseteq Q!Poppers \cup {t} \cup {shifted[t]}
    BY <2>1 DEF Q!push
  <2>2. ASSUME NEW t \in Thread, Q!PushRuns(t)
        PROVE  Q!Poppers' \subseteq Q!Poppers \cup {t} \cup {shifted[t]}
    BY <2>2 DEF Q!PushRuns
  <2>3. ASSUME NEW t \in Thread, Q!pop(t) PROVE Q!Poppers' \subseteq Q!Poppers \cup {t} \cup {shifted[t]}
    BY <2>3 DEF Q!pop
  <2>4. ASSUME NEW t \in Thread, Q!Run(t) \/ Q!Kill(t)
        PROVE  Q!Poppers' \subseteq Q!Poppers \cup {t} \cup {shifted[t]}
    BY <2>4 DEF Q!Run, Q!Kill
  <2>5. ASSUME q_pc' = q_pc, q_status' = q_status PROVE Q!Poppers' = Q!Poppers
    BY <2>5
  <2> QED
    BY <2>1, <2>2, <2>3, <2>4, <2>5 DEF Q!Next, Q!Step, Q!PopNonBlock, Q!vars
<1> QED
  BY <1>1, FS_AddElement, FS_Subset

\* Who is stopped is on the list, or about to be run, once.
LEMMA PlacedStep ==
  ASSUME Q!TypeOK, Placed, ~disturbed', [Q!Next]_(Q!vars) PROVE Placed'
<1> USE DEF Q!TypeOK, Stopped
<1>1. ASSUME NEW t \in Thread, NEW i \in Item \cup {Nil}, Q!push(t, i) PROVE Placed'
  <2>1. CASE q_waiting = <<>>
    BY <1>1, <2>1 DEF Q!push, Placed
  <2>2. CASE q_waiting # <<>>
    <3>1. /\ Head(q_waiting) = q_waiting[1] /\ Head(q_waiting) \in Thread
          /\ Len(q_waiting) \in Nat /\ Len(q_waiting) > 0
          /\ Len(Tail(q_waiting)) = Len(q_waiting) - 1
          /\ \A j \in 1 .. Len(Tail(q_waiting)) : Tail(q_waiting)[j] = q_waiting[j + 1]
      BY <2>2, HeadTailProperties
    <3>2. /\ q_waiting' = Tail(q_waiting) /\ q_status' = q_status /\ Q!Ready(t, {"idle"})
          /\ shifted' = [shifted EXCEPT ![t] = Head(q_waiting)]
          /\ q_pc' = [q_pc EXCEPT ![t] = "run"]
      BY <1>1, <2>2 DEF Q!push
    <3>3. 1 \in 1 .. Len(q_waiting) /\ \A j \in 1 .. Len(q_waiting') : j + 1 \in 1 .. Len(q_waiting)
                                       /\ j + 1 # 1 /\ q_waiting'[j] = q_waiting[j + 1]
      BY <3>1, <3>2
    <3>4. \A u \in Thread : Stopped(u) => Stopped(u)' /\ u # t
      BY <3>2 DEF Q!Ready
    <3>5. \A u \in Thread : q_status'[u] # "dead" /\ (q_status'[u] = "stop" => q_pc'[u] = "pop")
      BY <3>2 DEF Placed, Q!Ready
    <3>6. \A j \in 1 .. Len(q_waiting') : Stopped(q_waiting[j])' /\ q_waiting'[j] # q_waiting[1]
      BY <3>3, <3>4 DEF Placed
    <3>7. \A j, k \in 1 .. Len(q_waiting') : q_waiting'[j] = q_waiting'[k] => j = k
      <4>1. \A j \in 1 .. Len(q_waiting') : j \in Nat
        OBVIOUS
      <4> QED
        BY <3>3, <4>1 DEF Placed
    <3>8. ASSUME NEW u \in Thread, q_pc'[u] = "run"
          PROVE  /\ Stopped(shifted[u])'
                 /\ \A j \in 1 .. Len(q_waiting') : q_waiting'[j] # shifted'[u]
                 /\ \A v \in Thread : q_pc'[v] = "run" /\ shifted'[v] = shifted'[u] => v = u
      <4>1. CASE u = t
        <5>1. shifted'[u] = q_waiting[1]
          BY <3>1, <3>2, <4>1
        <5>2. Stopped(q_waiting[1])
          BY <3>3 DEF Placed
        <5>3. \A v \in Thread : q_pc'[v] = "run" /\ shifted'[v] = q_waiting[1] => v = t
          BY <3>2, <3>3 DEF Placed
        <5> QED
          BY <3>4, <3>6, <4>1, <5>1, <5>2, <5>3
      <4>2. CASE u # t
        <5>1. q_pc[u] = "run" /\ shifted'[u] = shifted[u]
          BY <3>2, <3>8, <4>2
        <5>2. Stopped(shifted[u]) /\ \A j \in 1 .. Len(q_waiting) : q_waiting[j] # shifted[u]
          BY <5>1 DEF Placed
        <5>3. \A v \in Thread : q_pc'[v] = "run" /\ shifted'[v] = shifted[u] => v = u
          BY <3>1, <3>2, <3>3, <5>1, <5>2 DEF Placed
        <5>4. Stopped(shifted[u])'
          BY <3>4, <5>1, <5>2
        <5>5. \A j \in 1 .. Len(q_waiting') : q_waiting'[j] # shifted'[u]
          BY <3>3, <5>1, <5>2
        <5> QED
          BY <5>1, <5>3, <5>4, <5>5
      <4> QED
        BY <4>1, <4>2
    <3> QED
      BY <3>5, <3>6, <3>7, <3>8 DEF Placed
  <2> QED
    BY <2>1, <2>2
<1>2. ASSUME NEW t \in Thread, Q!PushRuns(t) PROVE Placed'
  <2>1. /\ q_waiting' = q_waiting /\ q_status[t] = "run" /\ q_pc[t] = "run" /\ shifted[t] \in Thread
        /\ q_pc[shifted[t]] = "pop" /\ q_status[shifted[t]] = "stop" /\ shifted[t] # t
        /\ q_status' = [q_status EXCEPT ![shifted[t]] = "run"]
        /\ shifted' = [shifted EXCEPT ![t] = NoThread]
        /\ q_pc' = [q_pc EXCEPT ![t] = "idle"]
    BY <1>2 DEF Q!PushRuns, Placed, Q!Ready
  <2>2. \A u : Stopped(u) /\ u # shifted[t] => Stopped(u)'
    BY <2>1
  <2>3. \A j \in 1 .. Len(q_waiting) : q_waiting[j] # shifted[t]
    BY <2>1 DEF Placed
  <2>4. \A u \in Thread : q_pc'[u] = "run" =>
          u # t /\ q_pc[u] = "run" /\ shifted'[u] = shifted[u] /\ shifted[u] # shifted[t]
    BY <2>1 DEF Placed
  <2>5. \A u \in Thread : q_status'[u] # "dead" /\ (q_status'[u] = "stop" => q_pc'[u] = "pop")
    BY <2>1 DEF Placed
  <2> QED
    BY <2>1, <2>2, <2>3, <2>4, <2>5 DEF Placed
<1>3. ASSUME NEW t \in Thread, Q!pop(t), Q!FirstTrue = 0 PROVE Placed'
  <2>1. /\ q_waiting' = Append(q_waiting, t) /\ q_status' = [q_status EXCEPT ![t] = "stop"]
        /\ q_pc' = [q_pc EXCEPT ![t] = "pop"] /\ shifted' = shifted
        /\ q_status[t] = "run" /\ q_pc[t] \in {"idle", "pop"}
    BY <1>3 DEF Q!pop, Q!Ready
  <2>2. /\ Len(q_waiting') = Len(q_waiting) + 1 /\ q_waiting'[Len(q_waiting) + 1] = t /\ Len(q_waiting) \in Nat
        /\ \A j \in 1 .. Len(q_waiting) : q_waiting'[j] = q_waiting[j]
    BY <2>1, AppendProperties
  <2>3. \A u : Stopped(u) => Stopped(u)' /\ u # t
    BY <2>1
  <2>4. Stopped(t)'
    BY <2>1
  <2>5. \A j \in 1 .. Len(q_waiting') : j \in 1 .. Len(q_waiting) \/ j = Len(q_waiting) + 1
    BY <2>2
  <2>6. \A j \in 1 .. Len(q_waiting) : q_waiting[j] # t
    BY <2>3 DEF Placed
  <2>7. \A j \in 1 .. Len(q_waiting') : Stopped(q_waiting[j])'
    BY <2>2, <2>3, <2>4, <2>5 DEF Placed
  <2>8. ASSUME NEW j \in 1 .. Len(q_waiting'), NEW k \in 1 .. Len(q_waiting'), q_waiting'[j] = q_waiting'[k]
        PROVE  j = k
    <3>1. CASE j \in 1 .. Len(q_waiting) /\ k \in 1 .. Len(q_waiting)
      <4>1. q_waiting[j] = q_waiting[k]
        BY <2>2, <2>8, <3>1
      <4> QED
        BY <3>1, <4>1 DEF Placed
    <3>2. CASE ~(j \in 1 .. Len(q_waiting) /\ k \in 1 .. Len(q_waiting))
      BY <2>2, <2>5, <2>6, <2>8, <3>2
    <3> QED
      BY <3>1, <3>2
  <2>9. \A u \in Thread : q_status'[u] # "dead" /\ (q_status'[u] = "stop" => q_pc'[u] = "pop")
    BY <2>1 DEF Placed
  <2>10. \A u \in Thread : q_pc'[u] = "run" => q_pc[u] = "run" /\ shifted[u] # t
    BY <2>1, <2>3 DEF Placed
  <2> QED
    BY <2>1, <2>2, <2>3, <2>5, <2>7, <2>8, <2>9, <2>10 DEF Placed
<1>4. ASSUME NEW t \in Thread, Q!pop(t), Q!FirstTrue # 0 PROVE Placed'
  <2>1. /\ q_waiting' = q_waiting /\ q_status' = q_status /\ q_pc' = [q_pc EXCEPT ![t] = "idle"]
        /\ shifted' = shifted /\ q_status[t] = "run"
    BY <1>4 DEF Q!pop, Q!Ready
  <2>2. \A u : Stopped(u) => Stopped(u)'
    BY <2>1
  <2> QED
    BY <2>1, <2>2 DEF Placed
<1>5. ASSUME q_waiting' = q_waiting, q_status' = q_status, q_pc' = q_pc, shifted' = shifted PROVE Placed'
  BY <1>5 DEF Placed
<1> QED
  BY <1>1, <1>2, <1>3, <1>4, <1>5 DEF Q!Next, Q!Step, Q!PopNonBlock, Q!Run, Q!Kill, Q!vars

\* One popper more for one item more; a popper that is gone has taken an item.
LEMMA ClaimedStep ==
  ASSUME Q!TypeOK, IsFiniteSet(Q!Poppers), ~disturbed => Placed, Q!ItemsClaimed, [Q!Next]_(Q!vars)
  PROVE  Q!ItemsClaimed'
<1> DEFINE Claimed(w, q, P) == w # <<>> => Len(q) <= Cardinality(P)
<1>0. ASSUME NEW P PROVE Q!Cardinality(P) = Cardinality(P)
  BY DEF Q!Cardinality, Cardinality
<1> SUFFICES ASSUME ~disturbed' PROVE Claimed(q_waiting', que', Q!Poppers')
  BY <1>0 DEF Q!ItemsClaimed
<1>1. ~disturbed /\ Placed /\ Claimed(q_waiting, que, Q!Poppers) /\ Len(que) \in Nat
      /\ Cardinality(Q!Poppers) \in Nat
  <2>1. ~disturbed
    BY DEF Q!Next, Q!Step, Q!push, Q!PushRuns, Q!pop, Q!PopNonBlock, Q!Run, Q!Kill, Q!vars
  <2> QED
    BY <1>0, <2>1, FS_CardinalityType DEF Q!ItemsClaimed, Q!TypeOK
<1> HIDE DEF Claimed
<1>2. ASSUME NEW t \in Thread, NEW i \in Item \cup {Nil}, Q!push(t, i)
      PROVE  Claimed(q_waiting', que', Q!Poppers')
  <2>1. CASE q_waiting = <<>>
    BY <1>2, <2>1 DEF Q!push, Claimed
  <2>2. CASE q_waiting # <<>>
    <3>1. Len(que') = Len(que) + 1
      BY <1>2 DEF Q!push, Q!TypeOK
    <3>2. Q!Poppers' = Q!Poppers \cup {t} /\ t \notin Q!Poppers
      BY <1>2, <2>2 DEF Q!push, Q!Poppers, Q!Ready, Q!TypeOK
    <3>3. Cardinality(Q!Poppers') = Cardinality(Q!Poppers) + 1
      BY <3>2, FS_AddElement
    <3> QED
      BY <1>1, <2>2, <3>1, <3>3 DEF Claimed
  <2> QED
    BY <2>1, <2>2
<1>3. ASSUME NEW t \in Thread, Q!PushRuns(t) PROVE Claimed(q_waiting', que', Q!Poppers')
  <2> DEFINE u == shifted[t]
  <2>1. /\ u \in Thread /\ u # t /\ q_status[u] = "stop" /\ q_pc[u] = "pop"
        /\ q_status[t] = "run" /\ q_pc[t] = "run"
        /\ q_waiting' = q_waiting /\ que' = que
        /\ q_status' = [q_status EXCEPT ![u] = "run"]
        /\ q_pc' = [q_pc EXCEPT ![t] = "idle"]
    BY <1>1, <1>3 DEF Q!PushRuns, Placed, Stopped, Q!Ready, Q!TypeOK
  <2> HIDE DEF u
  <2>2. t \in Q!Poppers /\ u \notin Q!Poppers /\ Q!Poppers' = (Q!Poppers \ {t}) \cup {u}
    BY <2>1 DEF Q!Poppers, Q!Ready, Q!TypeOK
  <2>3. /\ IsFiniteSet(Q!Poppers \ {t}) /\ u \notin Q!Poppers \ {t}
        /\ Cardinality(Q!Poppers \ {t}) = Cardinality(Q!Poppers) - 1
    BY <2>2, FS_RemoveElement
  <2>4. Cardinality(Q!Poppers') = Cardinality(Q!Poppers \ {t}) + 1
    BY <2>2, <2>3, FS_AddElement
  <2> QED
    BY <1>1, <2>1, <2>3, <2>4 DEF Claimed
<1>4. ASSUME NEW t \in Thread, Q!pop(t) PROVE Claimed(q_waiting', que', Q!Poppers')
  <2>1. CASE Q!FirstTrue = 0
    <3>1. que' = <<>>
      BY <1>4, <2>1 DEF Q!pop
    <3>2. IsFiniteSet(Q!Poppers')
      BY <1>4, PoppersStep DEF Q!Next, Q!Step
    <3> QED
      BY <3>1, <3>2, FS_CardinalityType DEF Claimed
  <2>2. CASE Q!FirstTrue # 0
    <3>1. Q!FirstTrue \in 1 .. Len(que)
      BY <2>2, FirstTrueIs DEF Q!TypeOK
    <3>2. que' = SubSeq(que, Q!FirstTrue + 1, Len(que)) /\ q_waiting' = q_waiting
          /\ q_status' = q_status /\ q_pc' = [q_pc EXCEPT ![t] = "idle"] /\ q_status[t] = "run"
          /\ q_pc[t] \in {"idle", "pop"}
      BY <1>4, <2>2 DEF Q!pop, Q!Ready
    <3>3. Len(que') = Len(que) - Q!FirstTrue
      BY <1>1, <3>1, <3>2 DEF Q!TypeOK
    <3>4. Q!Poppers' = Q!Poppers \ {t}
      BY <3>2 DEF Q!Poppers, Q!Ready, Q!TypeOK
    <3>5. Cardinality(Q!Poppers') \in Nat /\ Cardinality(Q!Poppers') >= Cardinality(Q!Poppers) - 1
      <4>1. CASE t \in Q!Poppers
        <5>1. IsFiniteSet(Q!Poppers') /\ Cardinality(Q!Poppers') = Cardinality(Q!Poppers) - 1
          BY <3>4, <4>1, FS_RemoveElement
        <5>2. Cardinality(Q!Poppers') \in Nat
          BY <5>1, FS_CardinalityType
        <5> QED
          BY <1>1, <5>1, <5>2
      <4>2. CASE t \notin Q!Poppers
        <5>1. Q!Poppers' = Q!Poppers
          BY <3>4, <4>2
        <5> QED
          BY <1>1, <5>1
      <4> QED
        BY <4>1, <4>2
    <3> QED
      BY <1>1, <3>1, <3>2, <3>3, <3>5 DEF Claimed
  <2> QED
    BY <2>1, <2>2
<1>5. ASSUME NEW t \in Thread, Q!PopNonBlock(t) PROVE Claimed(q_waiting', que', Q!Poppers')
  <2>1. que' = <<>> /\ Q!Poppers' = Q!Poppers
    BY <1>5 DEF Q!PopNonBlock, Q!Poppers, Q!Ready
  <2> QED
    BY <1>1, <2>1 DEF Claimed
<1>6. CASE UNCHANGED Q!vars
  <2>1. Q!Poppers' = Q!Poppers /\ q_waiting' = q_waiting /\ que' = que
    BY <1>6 DEF Q!vars, Q!Poppers, Q!Ready
  <2> QED
    BY <1>1, <2>1
<1> QED
  BY <1>2, <1>3, <1>4, <1>5, <1>6 DEF Q!Next, Q!Step, Q!Run, Q!Kill

\* The invariant is inductive.
LEMMA QueueStep == QueueInv /\ [Q!Next]_(Q!vars) => QueueInv'
<1> SUFFICES ASSUME QueueInv, [Q!Next]_(Q!vars) PROVE QueueInv'
  OBVIOUS
<1>1. Q!TypeOK' /\ Q!Fifo' /\ IsFiniteSet(Q!Poppers')
  BY QueueType, FifoStep, PoppersStep DEF QueueInv
<1>2. ~disturbed' => Placed'
  <2> SUFFICES ASSUME ~disturbed' PROVE Placed'
    OBVIOUS
  <2>1. ~disturbed
    BY DEF Q!Next, Q!Step, Q!push, Q!PushRuns, Q!pop, Q!PopNonBlock, Q!Run, Q!Kill, Q!vars
  <2> QED
    BY <2>1, PlacedStep DEF QueueInv
<1>3. Q!ItemsClaimed'
  BY ClaimedStep DEF QueueInv
<1> QED
  BY <1>1, <1>2, <1>3 DEF QueueInv

-----------------------------------------------------------------------------
(***************************************************************************)
(* Sync_m: types, the counts, that every waiter is on a list, and that it  *)
(* is a readers-writer lock.                                               *)
(***************************************************************************)

\* What is needed of the constants.
SyncConstants == NoThread \notin Thread /\ MaxNest \in Nat

\* The library's constants are like that.
LEMMA SyncConstantsHold == SyncConstants
BY MutexAssumption, LibAssumption DEF SyncConstants

-----------------------------------------------------------------------------
(***************************************************************************)
(* The inductive invariant.                                                *)
(***************************************************************************)

\* The threads that wait to upgrade, and the count saved for each of them.
WhoIn(s) == {s[i].who : i \in 1 .. Len(s)}
CountIn(s, t) == IF \E e \in S!ToSet(s) : e.who = t
                 THEN (CHOOSE e \in S!ToSet(s) : e.who = t).count ELSE 0

Upgraders == WhoIn(sync_upgrade_waiting)
Saved(t)  == CountIn(sync_upgrade_waiting, t)

Counted(t) == (IF sync_ex_locker = t THEN sync_ex_count ELSE 0) + sync_sh_locker[t] + Saved(t)

\* A thread that waits has given up its SH locks, or got them back and wants EX; it
\* has room for the lock it waits for.
Waiting ==
  \A t \in Thread :
    /\ s_pc[t] # "error"
    /\ Len(held[t]) = Counted(t) /\ Len(held[t]) <= MaxNest
    /\ s_pc[t] = "lock" => Len(held[t]) < MaxNest /\ want[t] \in {"SH", "EX"}
    /\ s_pc[t] = "lock" /\ t \in S!Lockers => want[t] = "EX"
    /\ t \in Upgraders => want[t] = "EX" /\ t \notin S!Lockers

\* The mode says who holds the lock.
ModeAgrees ==
  /\ sync_mode = "EX" => sync_ex_locker \in Thread /\ sync_ex_count > 0
                         /\ s_pc[sync_ex_locker] # "lock"
  /\ sync_mode # "EX" => sync_ex_locker = NoThread /\ sync_ex_count = 0
  /\ sync_mode = "SH" => S!Lockers # {}
  /\ sync_mode # "SH" => \A t \in S!Lockers : t # sync_ex_locker => s_pc[t] = "lock"
  /\ sync_waiting # <<>> \/ sync_upgrade_waiting # <<>> => S!Lockers # {} \/ sync_mode = "EX"

\* A stopped thread is on one list, once.
Listed ==
  /\ \A t \in stopped : s_pc[t] = "lock"
  /\ stopped = S!ToSet(sync_waiting) \cup Upgraders \cup UNION {S!ToSet(s_wait[u]) : u \in Thread}
  /\ S!ToSet(sync_waiting) \cap Upgraders = {}
  /\ \A u \in Thread :
       /\ S!ToSet(s_wait[u]) \cap (S!ToSet(sync_waiting) \cup Upgraders) = {}
       /\ \A v \in Thread : u # v => S!ToSet(s_wait[u]) \cap S!ToSet(s_wait[v]) = {}
       /\ s_pc[u] # "wake" => s_wait[u] = <<>>
       /\ S!IsInjective(s_wait[u])
  /\ S!IsInjective(sync_waiting) /\ S!IsInjective(S!Who(sync_upgrade_waiting))
  \* a locker is not stopped for long
  /\ \A t \in S!Lockers : t \notin S!ToSet(sync_waiting) \cup Upgraders

SyncInv == S!TypeOK /\ Waiting /\ ModeAgrees /\ Listed

-----------------------------------------------------------------------------
(***************************************************************************)
(* The lists.                                                              *)
(***************************************************************************)

\* Nobody is in an empty list.
LEMMA ToSetEmpty == S!ToSet(<<>>) = {} /\ S!IsInjective(<<>>)
BY DEF S!ToSet, S!IsInjective

\* The elements of a list are among those that it may have.
LEMMA ToSetType ==
  ASSUME NEW K, NEW s \in Seq(K)
  PROVE  S!ToSet(s) = {s[i] : i \in 1 .. Len(s)} /\ S!ToSet(s) \subseteq K
BY ElementOfSeq, LenProperties DEF S!ToSet

\* Append() adds one to those in a list.
LEMMA ToSetAppend ==
  ASSUME NEW K, NEW s \in Seq(K), NEW x \in K
  PROVE  /\ S!ToSet(Append(s, x)) = S!ToSet(s) \cup {x}
         /\ S!IsInjective(s) /\ x \notin S!ToSet(s) => S!IsInjective(Append(s, x))
<1> DEFINE u == Append(s, x)
<1>1. /\ DOMAIN s = 1 .. Len(s) /\ DOMAIN u = 1 .. Len(s) + 1 /\ Len(s) \in Nat
      /\ u[Len(s) + 1] = x /\ \A i \in 1 .. Len(s) : u[i] = s[i]
  BY AppendProperties
<1> HIDE DEF u
<1>2. \A i \in 1 .. Len(s) + 1 : i \in 1 .. Len(s) \/ i = Len(s) + 1
  BY <1>1
<1>3. S!ToSet(u) = S!ToSet(s) \cup {x}
  <2>1. ASSUME NEW e \in S!ToSet(u) PROVE e \in S!ToSet(s) \cup {x}
    BY <1>1, <1>2, <2>1 DEF S!ToSet
  <2>2. ASSUME NEW e \in S!ToSet(s) PROVE e \in S!ToSet(u)
    BY <1>1, <2>2 DEF S!ToSet
  <2>3. x \in S!ToSet(u)
    BY <1>1 DEF S!ToSet
  <2> QED
    BY <2>1, <2>2, <2>3
<1>4. ASSUME S!IsInjective(s), x \notin S!ToSet(s) PROVE S!IsInjective(u)
  <2>1. \A i \in 1 .. Len(s) : s[i] # x
    BY <1>1, <1>4 DEF S!ToSet
  <2>2. \A i, j \in 1 .. Len(s) : s[i] = s[j] => i = j
    BY <1>1, <1>4 DEF S!IsInjective
  <2> QED
    BY <1>1, <1>2, <2>1, <2>2 DEF S!IsInjective
<1> QED
  BY <1>3, <1>4 DEF u

\* Tail() takes the first one away.
LEMMA ToSetTail ==
  ASSUME NEW K, NEW s \in Seq(K), s # <<>>, S!IsInjective(s)
  PROVE  /\ Head(s) \in S!ToSet(s) /\ Head(s) \in K
         /\ Tail(s) \in Seq(K) /\ S!IsInjective(Tail(s))
         /\ S!ToSet(Tail(s)) = S!ToSet(s) \ {Head(s)}
<1> DEFINE u == Tail(s)
<1>1. /\ Head(s) = s[1] /\ u \in Seq(K) /\ Len(s) \in Nat /\ Len(s) > 0
      /\ Len(u) = Len(s) - 1 /\ \A i \in 1 .. Len(u) : u[i] = s[i + 1]
  BY HeadTailProperties
<1>2. DOMAIN s = 1 .. Len(s) /\ DOMAIN u = 1 .. Len(u)
  BY <1>1
<1> HIDE DEF u
<1>3. \A i, j \in 1 .. Len(s) : s[i] = s[j] => i = j
  BY <1>2 DEF S!IsInjective
<1>4. 1 \in 1 .. Len(s) /\ \A i \in 1 .. Len(u) : i + 1 \in 1 .. Len(s) /\ i + 1 # 1
  BY <1>1
<1>5. Head(s) \in S!ToSet(s)
  BY <1>1, <1>2, <1>4 DEF S!ToSet
<1>6. S!IsInjective(u)
  <2>1. \A i, j \in 1 .. Len(u) : u[i] = u[j] => i = j
    <3>1. \A i \in 1 .. Len(u) : i \in Nat
      OBVIOUS
    <3> QED
      BY <1>1, <1>3, <1>4, <3>1
  <2> QED
    BY <1>2, <2>1 DEF S!IsInjective
<1>7. S!ToSet(u) = S!ToSet(s) \ {Head(s)}
  <2>1. ASSUME NEW e \in S!ToSet(u) PROVE e \in S!ToSet(s) \ {Head(s)}
    <3>1. PICK i \in 1 .. Len(u) : e = s[i + 1]
      BY <1>1, <1>2, <2>1 DEF S!ToSet
    <3> QED
      BY <1>1, <1>2, <1>3, <1>4, <3>1 DEF S!ToSet
  <2>2. ASSUME NEW e \in S!ToSet(s), e # Head(s) PROVE e \in S!ToSet(u)
    <3>1. PICK i \in 1 .. Len(s) : e = s[i]
      BY <1>2, <2>2 DEF S!ToSet
    <3>2. i - 1 \in 1 .. Len(u) /\ (i - 1) + 1 = i
      BY <1>1, <2>2, <3>1
    <3> QED
      BY <1>1, <1>2, <3>1, <3>2 DEF S!ToSet
  <2> QED
    BY <2>1, <2>2
<1>8. s[1] \in K
  BY <1>4, ElementOfSeq
<1> QED
  BY <1>1, <1>5, <1>6, <1>7, <1>8 DEF u

-----------------------------------------------------------------------------
(***************************************************************************)
(* The counts saved for the threads that wait to upgrade.                  *)
(***************************************************************************)

Upgrade == [who : Thread, count : 1 .. MaxNest]

\* Those that wait to upgrade are threads.
LEMMA UpgradersAre ==
  ASSUME NEW s \in Seq(Upgrade)
  PROVE  /\ WhoIn(s) \subseteq Thread
         /\ WhoIn(s) = {} <=> s = <<>>
         /\ S!Who(s) \in Seq(Thread)
         /\ S!ToSet(S!Who(s)) = WhoIn(s)
<1>1. /\ Len(s) \in Nat /\ DOMAIN s = 1 .. Len(s) /\ \A i \in 1 .. Len(s) : s[i] \in Upgrade
      /\ Len(s) = 0 <=> s = <<>>
  BY ElementOfSeq, LenProperties, EmptySeq
<1>2. \A i \in 1 .. Len(s) : s[i].who \in Thread
  BY <1>1 DEF Upgrade
<1>3. S!Who(s) = [i \in 1 .. Len(s) |-> s[i].who]
  BY <1>1 DEF S!Who
<1>4. S!Who(s) \in Seq(Thread) /\ DOMAIN S!Who(s) = 1 .. Len(s)
  BY <1>1, <1>2, <1>3, IsASeq
<1>5. S!ToSet(S!Who(s)) = WhoIn(s)
  BY <1>3, <1>4 DEF S!ToSet, WhoIn
<1>6. WhoIn(s) = {} <=> s = <<>>
  <2>1. s # <<>> => 1 \in 1 .. Len(s)
    BY <1>1
  <2>2. s = <<>> => \A i : i \notin 1 .. Len(s)
    BY <1>1
  <2> QED
    BY <2>1, <2>2 DEF WhoIn
<1>7. WhoIn(s) \subseteq Thread
  BY <1>2 DEF WhoIn
<1> QED
  BY <1>4, <1>5, <1>6, <1>7

\* A thread's count is the one of its entry.
LEMMA CountIs ==
  ASSUME NEW s \in Seq(Upgrade), S!IsInjective(S!Who(s))
  PROVE  /\ \A i \in 1 .. Len(s) : CountIn(s, s[i].who) = s[i].count
         /\ \A t : t \notin WhoIn(s) => CountIn(s, t) = 0
         /\ \A t \in WhoIn(s) : CountIn(s, t) \in 1 .. MaxNest
<1>1. /\ Len(s) \in Nat /\ DOMAIN s = 1 .. Len(s) /\ \A i \in 1 .. Len(s) : s[i] \in Upgrade
  BY ElementOfSeq, LenProperties
<1>2. \A i, j \in 1 .. Len(s) : s[i].who = s[j].who => i = j
  BY <1>1 DEF S!IsInjective, S!Who
<1>3. S!ToSet(s) = {s[i] : i \in 1 .. Len(s)}
  BY <1>1 DEF S!ToSet
<1>6. ASSUME NEW i \in 1 .. Len(s) PROVE CountIn(s, s[i].who) = s[i].count
  <2>1. s[i] \in S!ToSet(s) /\ \A e \in S!ToSet(s) : e.who = s[i].who => e = s[i]
    BY <1>2, <1>3
  <2>2. (CHOOSE e \in S!ToSet(s) : e.who = s[i].who) = s[i]
    BY <2>1
  <2> QED
    BY <2>1, <2>2 DEF CountIn
<1>7. \A t : t \notin WhoIn(s) => CountIn(s, t) = 0
  BY <1>3 DEF WhoIn, CountIn
<1>8. \A t \in WhoIn(s) : CountIn(s, t) \in 1 .. MaxNest
  BY <1>1, <1>6 DEF Upgrade, WhoIn
<1> QED
  BY <1>6, <1>7, <1>8

\* Nobody is counted in an empty list.
LEMMA CountEmpty == WhoIn(<<>>) = {} /\ \A t : CountIn(<<>>, t) = 0
<1>1. S!ToSet(<<>>) = {} /\ \A i : i \notin 1 .. Len(<<>>)
  BY ToSetEmpty
<1> QED
  BY <1>1 DEF WhoIn, CountIn

\* One more thread waits to upgrade.
Enters(r, s, t, c) == r = Append(s, [who |-> t, count |-> c])

\* One more waits to upgrade.
LEMMA UpgradeAppend ==
  ASSUME NEW s \in Seq(Upgrade), S!IsInjective(S!Who(s)),
         NEW t \in Thread \ WhoIn(s), NEW c \in 1 .. MaxNest,
         NEW r, Enters(r, s, t, c)
  PROVE  /\ r \in Seq(Upgrade) /\ S!IsInjective(S!Who(r))
         /\ WhoIn(r) = WhoIn(s) \cup {t}
         /\ CountIn(r, t) = c
         /\ \A u : u # t => CountIn(r, u) = CountIn(s, u)
<1> DEFINE n == Len(s)
           e == [who |-> t, count |-> c]
<1>1. /\ n \in Nat /\ DOMAIN s = 1 .. n /\ DOMAIN r = 1 .. n + 1 /\ Len(r) = n + 1
      /\ r[n + 1] = e /\ \A i \in 1 .. n : r[i] = s[i]
      /\ r \in Seq(Upgrade)
  <2>1. e \in Upgrade
    BY DEF Upgrade
  <2> HIDE DEF e
  <2> QED
    BY <2>1, AppendProperties DEF e, Enters
<1>2. \A i \in 1 .. n + 1 : i \in 1 .. n \/ i = n + 1
  BY <1>1
<1>3. e.who = t /\ e.count = c
  OBVIOUS
<1>4. WhoIn(s) = {s[i].who : i \in 1 .. n} /\ WhoIn(r) = {r[i].who : i \in 1 .. n + 1}
  BY <1>1 DEF WhoIn
<1>5. n + 1 \in 1 .. n + 1 /\ \A i \in 1 .. n : i \in 1 .. n + 1
  BY <1>1
<1>6. \A i, j \in 1 .. n : s[i].who = s[j].who => i = j
  BY <1>1 DEF S!IsInjective, S!Who
<1>7. \A i \in 1 .. n : s[i].who # t
  BY <1>4
<1>8. \A i \in 1 .. n : CountIn(s, s[i].who) = s[i].count
  BY CountIs
<1> HIDE DEF n, e
<1>9. WhoIn(r) = WhoIn(s) \cup {t}
  <2>1. ASSUME NEW u \in WhoIn(r) PROVE u \in WhoIn(s) \cup {t}
    BY <1>1, <1>2, <1>3, <1>4, <2>1
  <2>2. ASSUME NEW u \in WhoIn(s) PROVE u \in WhoIn(r)
    BY <1>1, <1>4, <1>5, <2>2
  <2>3. t \in WhoIn(r)
    BY <1>1, <1>3, <1>4, <1>5
  <2> QED
    BY <2>1, <2>2, <2>3
<1>10. S!IsInjective(S!Who(r))
  <2>1. \A i, j \in 1 .. n + 1 : r[i].who = r[j].who => i = j
    BY <1>1, <1>2, <1>3, <1>6, <1>7
  <2> QED
    BY <1>1, <2>1 DEF S!IsInjective, S!Who
<1>11. /\ \A i \in 1 .. n + 1 : CountIn(r, r[i].who) = r[i].count
       /\ \A u : u \notin WhoIn(r) => CountIn(r, u) = 0
  BY <1>1, <1>10, CountIs
<1>12. CountIn(r, t) = c
  BY <1>1, <1>3, <1>5, <1>11
<1>13. ASSUME NEW u, u # t PROVE CountIn(r, u) = CountIn(s, u)
  <2>1. CASE u \in WhoIn(s)
    <3>1. PICK i \in 1 .. n : u = s[i].who
      BY <1>4, <2>1
    <3> QED
      BY <1>1, <1>5, <1>8, <1>11, <3>1
  <2>2. CASE u \notin WhoIn(s)
    BY <1>9, <1>11, <1>13, <2>2, CountIs
  <2> QED
    BY <2>1, <2>2
<1> QED
  BY <1>1, <1>9, <1>10, <1>12, <1>13

-----------------------------------------------------------------------------
(***************************************************************************)
(* The invariant holds at first, and every step keeps it.                  *)
(***************************************************************************)

\* The invariant holds at first.
LEMMA SyncInit == ASSUME SyncConstants, S!Init PROVE SyncInv
<1> USE DEF S!Init, SyncConstants
<1>1. S!TypeOK
  <2>1. <<>> \in Seq(Thread) /\ <<>> \in Seq([who : Thread, count : 1 .. MaxNest])
        /\ <<>> \in Seq({"SH", "EX"})
    BY EmptySeq
  <2> QED
    BY <2>1 DEF S!TypeOK
<1>2. Upgraders = {} /\ \A t : Saved(t) = 0
  BY CountEmpty DEF Upgraders, Saved
<1>3. S!Lockers = {}
  BY DEF S!Lockers
<1>4. Waiting
  BY <1>2, <1>3 DEF Waiting, Counted
<1>5. ModeAgrees
  BY <1>2, <1>3 DEF ModeAgrees
<1>6. Listed
  <2>1. S!Who(<<>>) = <<>>
    BY DEF S!Who
  <2> QED
    BY <1>2, <1>3, <2>1, ToSetEmpty DEF Listed
<1> QED
  BY <1>1, <1>4, <1>5, <1>6 DEF SyncInv

\* What the types and the invariant say of a thread that is not stopped.
LEMMA NotStopped ==
  ASSUME SyncInv, NEW t \in Thread \ stopped
  PROVE  /\ t \notin Upgraders /\ t \notin S!ToSet(sync_waiting)
         /\ \A u \in Thread : t \notin S!ToSet(s_wait[u])
         /\ Saved(t) = 0
<1>1. t \notin Upgraders
  BY DEF SyncInv, Listed
<1>2. Saved(t) = 0
  BY <1>1, CountIs DEF SyncInv, S!TypeOK, Upgrade, Listed, Saved, Upgraders
<1> QED
  BY <1>1, <1>2 DEF SyncInv, Listed

\* Who waits to upgrade has saved a count, and nobody else.
LEMMA SavedType ==
  ASSUME SyncInv
  PROVE  /\ \A t : Saved(t) \in Nat
         /\ \A t \in Upgraders : Saved(t) \in 1 .. MaxNest
         /\ \A t : t \notin Upgraders => Saved(t) = 0
<1>1. /\ \A t : t \notin Upgraders => Saved(t) = 0
      /\ \A t \in Upgraders : Saved(t) \in 1 .. MaxNest
  BY CountIs DEF SyncInv, S!TypeOK, Upgrade, Listed, Saved, Upgraders
<1> QED
  BY <1>1

\* The lock is granted, by sync_lock or sync_try_lock.
Gains(t, m) == held' = [held EXCEPT ![t] = Append(@, m)]

\* A lock that is granted keeps the invariant.
LEMMA GrantStep ==
  ASSUME SyncConstants, SyncInv, NEW t \in Thread \ stopped, NEW m \in {"SH", "EX"},
         NEW n \in {"SH", "EX"},
         s_pc[t] = "run" \/ (s_pc[t] = "lock" /\ want[t] = m), Len(held[t]) < MaxNest,
         S!Granted(t, m), S!Grant(t, m),
         Gains(t, n), s_pc' = [s_pc EXCEPT ![t] = "run"],
         UNCHANGED <<S!queues, want, stopped, s_wait>>
  PROVE  SyncInv'
<1>0. S!TypeOK /\ Waiting /\ ModeAgrees /\ Listed /\ MaxNest \in Nat
  BY DEF SyncInv, SyncConstants
<1>1. /\ Saved(t) = 0 /\ t \notin Upgraders /\ \A u : Saved(u) \in Nat
  BY NotStopped, SavedType
<1>2. /\ sync_waiting' = sync_waiting /\ sync_upgrade_waiting' = sync_upgrade_waiting
      /\ want' = want /\ stopped' = stopped /\ s_wait' = s_wait
      /\ Upgraders' = Upgraders /\ \A u : Saved(u)' = Saved(u)
  BY DEF S!queues, Upgraders, Saved
<1>3. /\ sync_sh_locker \in [Thread -> Nat] /\ sync_ex_count \in Nat
      /\ Len(held[t]) \in Nat /\ held \in [Thread -> Seq({"SH", "EX"})]
      /\ \A u \in Thread : Len(held[u]) \in Nat
      /\ \A u \in Thread : u \in S!Lockers <=> sync_sh_locker[u] > 0
      /\ s_pc \in [Thread -> {"run", "lock", "wake", "error"}]
  BY <1>0 DEF S!TypeOK, S!Lockers
<1>4. /\ Len(held'[t]) = Len(held[t]) + 1
      /\ \A u \in Thread : u # t => held'[u] = held[u]
      /\ held' \in [Thread -> Seq({"SH", "EX"})]
  BY <1>3 DEF Gains
\* the counts after the step
<1>5. /\ sync_mode' \in {"SH", "EX"}
      /\ sync_ex_locker' \in Thread \cup {NoThread} /\ sync_ex_count' \in Nat
      /\ sync_sh_locker' \in [Thread -> Nat]
      /\ \A u \in Thread : u # t => sync_sh_locker'[u] = sync_sh_locker[u]
      /\ sync_mode' = "EX" => sync_ex_locker' = t /\ sync_ex_count' > 0
      /\ sync_mode' = "SH" => sync_ex_locker' = NoThread /\ sync_ex_count' = 0
                              /\ sync_sh_locker'[t] > 0 /\ sync_mode # "EX"
      /\ sync_mode' = "EX" => sync_sh_locker'[t] = sync_sh_locker[t]
      /\ (IF sync_ex_locker' = t THEN sync_ex_count' ELSE 0) + sync_sh_locker'[t]
           = (IF sync_ex_locker = t THEN sync_ex_count ELSE 0) + sync_sh_locker[t] + 1
  <2>1. CASE sync_mode = "EX"
    <3>1. /\ sync_ex_locker = t /\ sync_ex_count' = sync_ex_count + 1 /\ t # NoThread
          /\ UNCHANGED <<sync_mode, sync_sh_locker, sync_ex_locker>>
      BY <2>1 DEF S!Granted, S!Grant, SyncConstants
    <3>2. sync_sh_locker[t] \in Nat
      BY <1>3
    <3> QED
      BY <1>3, <2>1, <3>1, <3>2
  <2>2. CASE sync_mode # "EX" /\ m = "EX"
    BY <1>0, <1>3, <2>2 DEF S!Granted, S!Grant, S!TypeOK, ModeAgrees, SyncConstants
  <2>3. CASE sync_mode # "EX" /\ m = "SH"
    <3>1. ASSUME sync_mode = "UN" PROVE sync_sh_locker[t] = 0
      <4> SUFFICES ASSUME sync_sh_locker[t] # 0 PROVE FALSE
        OBVIOUS
      <4>1. sync_sh_locker[t] > 0
        BY <1>3
      <4>2. t \in S!Lockers /\ t # sync_ex_locker
        BY <1>0, <1>3, <3>1, <4>1 DEF ModeAgrees, SyncConstants
      <4>3. s_pc[t] = "lock" /\ want[t] = "EX"
        BY <1>0, <3>1, <4>2 DEF ModeAgrees, Waiting
      <4> QED
        BY <2>3, <4>3
    <3>2. sync_ex_locker = NoThread /\ sync_ex_count = 0 /\ t # NoThread
      BY <1>0, <2>3 DEF ModeAgrees, SyncConstants
    <3>3. /\ sync_mode' = "SH" /\ UNCHANGED <<sync_ex_locker, sync_ex_count>>
          /\ sync_sh_locker' = [sync_sh_locker EXCEPT ![t] = IF sync_mode = "UN" THEN 1 ELSE @ + 1]
      BY <2>3 DEF S!Grant
    <3>4. /\ sync_sh_locker' \in [Thread -> Nat]
          /\ sync_sh_locker'[t] = sync_sh_locker[t] + 1
          /\ \A u \in Thread : u # t => sync_sh_locker'[u] = sync_sh_locker[u]
      <4>1. CASE sync_mode = "UN"
        <5>1. sync_sh_locker' = [sync_sh_locker EXCEPT ![t] = 1] /\ sync_sh_locker[t] = 0
          BY <3>1, <3>3, <4>1
        <5> QED
          BY <1>3, <5>1
      <4>2. CASE sync_mode # "UN"
        <5>1. sync_sh_locker' = [sync_sh_locker EXCEPT ![t] = sync_sh_locker[t] + 1]
          BY <3>3, <4>2
        <5> QED
          BY <1>3, <5>1
      <4> QED
        BY <4>1, <4>2
    <3> QED
      BY <1>0, <1>3, <2>3, <3>2, <3>3, <3>4
  <2> QED
    BY <2>1, <2>2, <2>3
<1>6. \A u \in Thread : u # t => Counted(u)' = Counted(u)
  <2>1. \A u \in Thread : u # t =>
          (IF sync_ex_locker' = u THEN sync_ex_count' ELSE 0)
            = (IF sync_ex_locker = u THEN sync_ex_count ELSE 0)
    BY <1>0, <1>5 DEF SyncConstants, ModeAgrees, S!Granted
  <2> QED
    BY <1>2, <1>5, <2>1 DEF Counted
<1>7. Counted(t)' = Counted(t) + 1
  BY <1>1, <1>2, <1>3, <1>5 DEF Counted
<1>8. \A u \in Thread : Len(held'[u]) = Counted(u)' /\ Len(held'[u]) <= MaxNest
  <2>1. Len(held[t]) = Counted(t) /\ \A u \in Thread : Len(held[u]) = Counted(u)
                                        /\ Len(held[u]) <= MaxNest
    BY <1>0 DEF Waiting
  <2>2. Len(held'[t]) = Counted(t)' /\ Len(held'[t]) <= MaxNest
    BY <1>0, <1>3, <1>4, <1>7, <2>1
  <2>3. \A u \in Thread : u # t => Len(held'[u]) = Counted(u)' /\ Len(held'[u]) <= MaxNest
    BY <1>4, <1>6, <2>1
  <2> QED
    BY <2>2, <2>3
<1>9. \A u \in Thread : u \in S!Lockers' <=> sync_sh_locker'[u] > 0
  BY DEF S!Lockers
<1>10. \A u \in Thread : u # t => (u \in S!Lockers' <=> u \in S!Lockers)
  BY <1>3, <1>5, <1>9
<1>11. Waiting'
  <2>1. \A u \in Thread : s_pc'[u] = "lock" => u # t /\ s_pc[u] = "lock"
    BY <1>3
  <2>2. \A u \in Thread : s_pc'[u] # "error"
    BY <1>0, <1>3 DEF Waiting
  <2> QED
    BY <1>0, <1>1, <1>2, <1>4, <1>8, <1>10, <2>1, <2>2 DEF Waiting
<1>12. ModeAgrees'
  <2>1. s_pc'[t] # "lock"
    BY <1>3
  <2>2. sync_mode' = "SH" => t \in S!Lockers'
    BY <1>5, <1>9
  <2>3. ASSUME sync_mode' = "EX", NEW u \in S!Lockers', u # t PROVE s_pc'[u] = "lock"
    <3>1. u \in Thread /\ u \in S!Lockers
      BY <1>10, <2>3 DEF S!Lockers
    <3>2. s_pc[u] = "lock"
      BY <1>0, <1>5, <2>3, <3>1 DEF ModeAgrees, S!Granted, S!Grant, SyncConstants
    <3> QED
      BY <1>3, <2>3, <3>1, <3>2
  <2> QED
    BY <1>5, <2>1, <2>2, <2>3 DEF ModeAgrees
<1>13. Listed'
  <2>1. \A u \in stopped : u # t /\ u \in Thread
    BY <1>0 DEF S!TypeOK
  <2>2. \A u \in stopped : s_pc'[u] = "lock"
    BY <1>0, <1>3, <2>1 DEF Listed
  <2>3. \A u \in Thread : s_pc'[u] # "wake" => s_wait[u] = <<>>
    BY <1>0, <1>3 DEF Listed
  <2>4. \A u \in S!Lockers' : u \notin S!ToSet(sync_waiting) \cup Upgraders
    BY <1>0, <1>1, <1>10, NotStopped DEF Listed, S!Lockers
  <2>5. stopped' = stopped /\ s_wait' = s_wait /\ sync_waiting' = sync_waiting
        /\ sync_upgrade_waiting' = sync_upgrade_waiting /\ Upgraders' = Upgraders
    BY <1>0, <1>2
  <2>6. stopped' = (S!ToSet(sync_waiting) \cup Upgraders \cup UNION {S!ToSet(s_wait[u]) : u \in Thread})'
    BY <1>0, <2>5 DEF Listed
  <2> QED
    BY <1>0, <2>2, <2>3, <2>4, <2>5, <2>6 DEF Listed
<1>14. S!TypeOK'
  <2>1. ASSUME NEW u \in Thread
        PROVE  /\ sync_sh_locker'[u] \in 0 .. MaxNest
               /\ u = sync_ex_locker' => sync_ex_count' \in 0 .. MaxNest
    <3>1. /\ sync_sh_locker'[u] \in Nat /\ Saved(u)' \in Nat
          /\ (IF sync_ex_locker' = u THEN sync_ex_count' ELSE 0) \in Nat
      BY <1>1, <1>2, <1>5
    <3>2. Counted(u)' = (IF sync_ex_locker' = u THEN sync_ex_count' ELSE 0)
                          + sync_sh_locker'[u] + Saved(u)' /\ Counted(u)' <= MaxNest
      BY <1>8 DEF Counted
    <3> QED
      BY <1>0, <3>1, <3>2
  <2>2. sync_ex_count' \in 0 .. MaxNest
    BY <1>0, <1>5, <2>1 DEF SyncConstants
  <2>3. sync_sh_locker' \in [Thread -> 0 .. MaxNest]
    BY <1>5, <2>1
  <2>4. s_pc' \in [Thread -> {"run", "lock", "wake", "error"}]
    BY <1>3
  <2>5. sync_mode' \in {"UN", "SH", "EX"}
    BY <1>5
  <2> QED
    BY <1>0, <1>2, <1>4, <1>5, <2>2, <2>3, <2>4, <2>5 DEF S!TypeOK
<1> QED
  BY <1>11, <1>12, <1>13, <1>14 DEF SyncInv

\* sync_lock is refused, and the thread put on a list.
LEMMA WaitsStep ==
  ASSUME SyncConstants, SyncInv, NEW t \in Thread, NEW m \in {"SH", "EX"}, S!Waits(t, m)
  PROVE  SyncInv'
<1>0. S!TypeOK /\ Waiting /\ ModeAgrees /\ Listed /\ MaxNest \in Nat
  BY DEF SyncInv, SyncConstants
<1>a. /\ t \notin stopped /\ ~S!Granted(t, m) /\ s_pc[t] \in {"run", "lock"}
      /\ s_pc[t] = "run" => Len(held[t]) < MaxNest
      /\ s_pc[t] = "lock" => want[t] = m
      /\ stopped' = stopped \cup {t} /\ s_pc' = [s_pc EXCEPT ![t] = "lock"]
      /\ want' = [want EXCEPT ![t] = m] /\ s_wait' = s_wait /\ held' = held
      /\ sync_mode' = sync_mode /\ sync_ex_locker' = sync_ex_locker
      /\ sync_ex_count' = sync_ex_count
  BY DEF S!Waits
<1>1. /\ Saved(t) = 0 /\ t \notin Upgraders /\ t \notin S!ToSet(sync_waiting)
      /\ \A u \in Thread : t \notin S!ToSet(s_wait[u])
  BY <1>a, NotStopped
<1>2. /\ sync_upgrade_waiting \in Seq(Upgrade) /\ sync_waiting \in Seq(Thread)
      /\ S!IsInjective(sync_waiting) /\ S!IsInjective(S!Who(sync_upgrade_waiting))
  BY <1>0 DEF S!TypeOK, Listed, Upgrade
<1>3. /\ s_pc' \in [Thread -> {"run", "lock", "wake", "error"}]
      /\ want' \in [Thread -> {"UN", "SH", "EX"}]
      /\ s_pc'[t] = "lock" /\ want'[t] = m
      /\ \A u \in Thread : u # t => s_pc'[u] = s_pc[u] /\ want'[u] = want[u]
  BY <1>0, <1>a DEF S!TypeOK
<1>4. /\ sync_mode \in {"SH", "EX"} /\ sync_ex_locker # t
      /\ sync_mode = "SH" => m = "EX" /\ S!Lockers # {t}
  BY <1>0, <1>a DEF S!Granted, S!TypeOK, ModeAgrees, SyncConstants
<1>5. Len(held[t]) < MaxNest
  BY <1>0, <1>a DEF Waiting
\* what the lists and counts become
<1>6. /\ sync_sh_locker' \in [Thread -> 0 .. MaxNest]
      /\ sync_waiting' \in Seq(Thread) /\ sync_upgrade_waiting' \in Seq(Upgrade)
      /\ S!IsInjective(sync_waiting') /\ S!IsInjective(S!Who(sync_upgrade_waiting'))
      /\ \A u \in Thread : u # t => sync_sh_locker'[u] = sync_sh_locker[u]
      /\ sync_sh_locker'[t] = 0
      /\ \A u \in Thread : u # t => CountIn(sync_upgrade_waiting', u) = Saved(u)
      /\ CountIn(sync_upgrade_waiting', t) = sync_sh_locker[t]
      /\ \/ /\ WhoIn(sync_upgrade_waiting') = Upgraders \cup {t} /\ m = "EX"
            /\ S!ToSet(sync_waiting') = S!ToSet(sync_waiting)
         \/ /\ WhoIn(sync_upgrade_waiting') = Upgraders
            /\ S!ToSet(sync_waiting') = S!ToSet(sync_waiting) \cup {t}
  <2>1. CASE t \in S!Lockers
    <3>1. sync_sh_locker[t] \in 1 .. MaxNest
      BY <1>0, <2>1 DEF S!Lockers, S!TypeOK
    <3>2. /\ sync_upgrade_waiting' =
               Append(sync_upgrade_waiting, [who |-> t, count |-> sync_sh_locker[t]])
          /\ sync_sh_locker' = [sync_sh_locker EXCEPT ![t] = 0] /\ sync_waiting' = sync_waiting
      BY <2>1 DEF S!Waits
    <3>3. t \in Thread \ WhoIn(sync_upgrade_waiting)
      BY <1>1 DEF Upgraders
    <3>4. /\ sync_upgrade_waiting' \in Seq(Upgrade) /\ S!IsInjective(S!Who(sync_upgrade_waiting'))
          /\ WhoIn(sync_upgrade_waiting') = Upgraders \cup {t}
          /\ CountIn(sync_upgrade_waiting', t) = sync_sh_locker[t]
          /\ \A u : u # t => CountIn(sync_upgrade_waiting', u) = Saved(u)
      <4>1. Enters(sync_upgrade_waiting', sync_upgrade_waiting, t, sync_sh_locker[t])
        BY <3>2 DEF Enters
      <4> QED
        BY <1>2, <3>1, <3>3, <4>1, UpgradeAppend DEF Upgraders, Saved
    <3>5. m = "EX"
      <4>1. CASE sync_mode = "EX"
        <5>1. s_pc[t] = "lock" /\ want[t] = "EX"
          BY <1>0, <1>4, <2>1, <4>1 DEF ModeAgrees, Waiting
        <5> QED
          BY <1>a, <5>1
      <4> QED
        BY <1>4, <4>1
    <3>6. /\ sync_sh_locker' \in [Thread -> 0 .. MaxNest] /\ sync_sh_locker'[t] = 0
          /\ \A u \in Thread : u # t => sync_sh_locker'[u] = sync_sh_locker[u]
      BY <1>0, <3>2 DEF S!TypeOK
    <3> QED
      BY <1>2, <3>2, <3>4, <3>5, <3>6
  <2>2. CASE t \notin S!Lockers
    <3>1. /\ sync_upgrade_waiting' = sync_upgrade_waiting /\ sync_sh_locker' = sync_sh_locker
          /\ sync_waiting' = Append(sync_waiting, t)
      BY <2>2 DEF S!Waits
    <3>2. sync_sh_locker[t] = 0
      BY <1>0, <2>2 DEF S!Lockers, S!TypeOK
    <3>3. /\ sync_waiting' \in Seq(Thread) /\ S!IsInjective(sync_waiting')
          /\ S!ToSet(sync_waiting') = S!ToSet(sync_waiting) \cup {t}
      BY <1>1, <1>2, <3>1, ToSetAppend, AppendProperties
    <3> QED
      BY <1>0, <1>1, <1>2, <3>1, <3>2, <3>3 DEF Upgraders, Saved, S!TypeOK
  <2> QED
    BY <2>1, <2>2
<1>7. Upgraders' = WhoIn(sync_upgrade_waiting') /\ \A u : Saved(u)' = CountIn(sync_upgrade_waiting', u)
  BY DEF Upgraders, Saved
<1>8. S!Lockers' = S!Lockers \ {t}
  BY <1>0, <1>6 DEF S!Lockers, S!TypeOK
<1>9. S!TypeOK'
  BY <1>0, <1>3, <1>6, <1>a DEF S!TypeOK, Upgrade
<1>10. Waiting'
  <2>1. \A u \in Thread : Counted(u)' = Counted(u)
    <3>1. ASSUME NEW u \in Thread, u # t PROVE Counted(u)' = Counted(u)
      BY <1>6, <1>7, <1>a, <3>1 DEF Counted
    <3>2. Counted(t)' = Counted(t)
      <4>1. sync_sh_locker[t] \in Nat
        BY <1>0 DEF S!TypeOK
      <4> QED
        BY <1>1, <1>4, <1>6, <1>7, <1>a, <4>1 DEF Counted
    <3> QED
      BY <3>1, <3>2
  <2>2. \A u \in Thread : u \in Upgraders' => want'[u] = "EX" /\ u \notin S!Lockers'
    <3>1. \A u \in Upgraders' : u \in Upgraders \/ (u = t /\ m = "EX")
      BY <1>6, <1>7
    <3>2. \A u \in Upgraders : u # t
      BY <1>1
    <3> QED
      BY <1>0, <1>3, <1>8, <3>1, <3>2 DEF Waiting
  <2>3. \A u \in Thread : s_pc'[u] = "lock" => Len(held[u]) < MaxNest /\ want'[u] \in {"SH", "EX"}
    BY <1>0, <1>3, <1>5 DEF Waiting
  <2>4. \A u \in Thread : s_pc'[u] = "lock" /\ u \in S!Lockers' => want'[u] = "EX"
    BY <1>0, <1>3, <1>8 DEF Waiting
  <2>5. \A u \in Thread : s_pc'[u] # "error"
    BY <1>0, <1>3 DEF Waiting
  <2> QED
    BY <1>0, <1>a, <2>1, <2>2, <2>3, <2>4, <2>5 DEF Waiting
<1>11. ModeAgrees'
  BY <1>0, <1>3, <1>4, <1>8, <1>a DEF ModeAgrees, S!Lockers
<1>12. Listed'
  <2> DEFINE W == S!ToSet(sync_waiting)
  <2>1. stopped' = S!ToSet(sync_waiting') \cup Upgraders' \cup UNION {S!ToSet(s_wait[u]) : u \in Thread}
    <3>1. stopped = W \cup Upgraders \cup UNION {S!ToSet(s_wait[u]) : u \in Thread}
      BY <1>0 DEF Listed
    <3> QED
      BY <1>6, <1>7, <1>a, <3>1
  <2>2. /\ S!ToSet(sync_waiting') \cap Upgraders' = {}
        /\ \A u \in Thread : S!ToSet(s_wait[u]) \cap (S!ToSet(sync_waiting') \cup Upgraders') = {}
    BY <1>0, <1>1, <1>6, <1>7 DEF Listed
  <2>3. \A u \in stopped' : s_pc'[u] = "lock"
    BY <1>0, <1>3, <1>a DEF Listed, S!TypeOK
  <2>4. \A u \in Thread : s_pc'[u] # "wake" => s_wait[u] = <<>>
    BY <1>0, <1>3, <1>a DEF Listed
  <2>5. \A u \in S!Lockers' : u \notin S!ToSet(sync_waiting') \cup Upgraders'
    BY <1>0, <1>6, <1>7, <1>8 DEF Listed
  <2> QED
    <3>1. /\ \A u, v \in Thread : u # v => S!ToSet(s_wait[u]) \cap S!ToSet(s_wait[v]) = {}
          /\ \A u \in Thread : S!IsInjective(s_wait[u])
      BY <1>0 DEF Listed
    <3>2. stopped' = S!ToSet(sync_waiting') \cup Upgraders' \cup UNION {S!ToSet(s_wait'[u]) : u \in Thread}
      BY <1>a, <2>1
    <3>3. \A u \in Thread :
            /\ S!ToSet(s_wait'[u]) \cap (S!ToSet(sync_waiting') \cup Upgraders') = {}
            /\ \A v \in Thread : u # v => S!ToSet(s_wait'[u]) \cap S!ToSet(s_wait'[v]) = {}
            /\ s_pc'[u] # "wake" => s_wait'[u] = <<>>
            /\ S!IsInjective(s_wait'[u])
      BY <1>a, <2>2, <2>4, <3>1
    <3> QED
      BY <1>6, <2>2, <2>3, <2>5, <3>2, <3>3 DEF Listed
<1> QED
  BY <1>9, <1>10, <1>11, <1>12 DEF SyncInv

\* What is left without the last element.
LEMMA FrontIs ==
  ASSUME NEW K, NEW s \in Seq(K), s # <<>>
  PROVE  S!Front(s) \in Seq(K) /\ Len(S!Front(s)) = Len(s) - 1 /\ Len(s) \in Nat
<1>1. Len(s) \in Nat /\ Len(s) > 0
  BY HeadTailProperties
<1>2. S!Front(s) = SubSeq(s, 1, Len(s) - 1)
  BY DEF S!Front
<1> DEFINE n == Len(s) - 1
           u == SubSeq(s, 1, n)
<1>3. u \in Seq(K) /\ Len(u) = IF 1 <= n THEN n - 1 + 1 ELSE 0
  <2>1. n \in Int /\ \A i \in 1 .. n : s[i] \in K
    BY <1>1
  <2> HIDE DEF n
  <2> QED
    BY <2>1, SubSeqProperties
<1> HIDE DEF u
<1>4. Len(u) = Len(s) - 1
  <2>1. \A k \in Nat : k > 0 => (IF 1 <= k - 1 THEN (k - 1) - 1 + 1 ELSE 0) = k - 1
    OBVIOUS
  <2> QED
    BY <1>1, <1>3, <2>1, Zenon
<1> QED
  BY <1>1, <1>2, <1>3, <1>4 DEF u

\* What the end of sync_unlock does to the lists.
LEMMA WakeupIs ==
  ASSUME SyncInv, NEW t \in Thread, NEW lockers \in [Thread -> Nat], S!Wakeup(t, lockers)
  PROVE  /\ sync_sh_locker' = [u \in Thread |-> IF u \in Upgraders THEN Saved(u) ELSE lockers[u]]
         /\ sync_upgrade_waiting' = <<>>
         /\ \E w \in Seq(Thread) :
              /\ s_wait' = [s_wait EXCEPT ![t] = w] /\ S!IsInjective(w)
              /\ \/ /\ Upgraders # {} /\ S!ToSet(w) = Upgraders
                    /\ sync_waiting' = sync_waiting
                 \/ /\ Upgraders = {} /\ S!ToSet(w) = S!ToSet(sync_waiting)
                    /\ sync_waiting' = <<>>
<1> DEFINE s == sync_upgrade_waiting
<1>1. /\ s \in Seq(Upgrade) /\ S!IsInjective(S!Who(s)) /\ sync_waiting \in Seq(Thread)
      /\ S!IsInjective(sync_waiting)
  BY DEF SyncInv, S!TypeOK, Listed, Upgrade
<1>2. /\ Upgraders = {} <=> s = <<>>
      /\ S!Who(s) \in Seq(Thread) /\ S!ToSet(S!Who(s)) = Upgraders
  BY <1>1, UpgradersAre DEF Upgraders
<1>3. CASE s # <<>>
  <2>1. /\ sync_sh_locker' = [u \in Thread |->
              IF \E i \in DOMAIN s : s[i].who = u
              THEN (CHOOSE e \in S!ToSet(s) : e.who = u).count ELSE lockers[u]]
        /\ s_wait' = [s_wait EXCEPT ![t] = S!Who(s)] /\ s' = <<>> /\ sync_waiting' = sync_waiting
    BY <1>3, Zenon DEF S!Wakeup
  <2>2. DOMAIN s = 1 .. Len(s) /\ S!ToSet(s) = {s[i] : i \in 1 .. Len(s)}
    BY <1>1, ToSetType
  <2>3. ASSUME NEW u \in Thread
        PROVE  (IF \E i \in DOMAIN s : s[i].who = u
                THEN (CHOOSE e \in S!ToSet(s) : e.who = u).count ELSE lockers[u])
                 = IF u \in Upgraders THEN Saved(u) ELSE lockers[u]
    <3>1. (\E i \in DOMAIN s : s[i].who = u) <=> u \in Upgraders
      BY <2>2 DEF Upgraders, WhoIn
    <3>2. (\E e \in S!ToSet(s) : e.who = u) <=> u \in Upgraders
      BY <2>2 DEF Upgraders, WhoIn
    <3>3. u \in Upgraders => Saved(u) = (CHOOSE e \in S!ToSet(s) : e.who = u).count
      BY <3>2 DEF Saved, CountIn
    <3> QED
      BY <3>1, <3>3
  <2>4. sync_sh_locker' = [u \in Thread |-> IF u \in Upgraders THEN Saved(u) ELSE lockers[u]]
    BY <2>1, <2>3
  <2> QED
    BY <1>1, <1>2, <1>3, <2>1, <2>4
<1>4. CASE s = <<>>
  <2>1. /\ sync_sh_locker' = lockers /\ s_wait' = [s_wait EXCEPT ![t] = sync_waiting]
        /\ sync_waiting' = <<>> /\ s' = s
    BY <1>4 DEF S!Wakeup
  <2> QED
    BY <1>1, <1>2, <1>4, <2>1
<1> QED
  BY <1>3, <1>4

\* sync_unlock gives up the last lock of its kind.
LEMMA WakeupStep ==
  ASSUME SyncConstants, SyncInv, NEW t \in Thread \ stopped, s_pc[t] = "run", held[t] # <<>>,
         NEW lockers \in [Thread -> 0 .. MaxNest], S!Wakeup(t, lockers),
         lockers[t] = Len(held[t]) - 1,
         \A u \in Thread : u # t => lockers[u] = sync_sh_locker[u],
         \A u \in Thread : u # t /\ lockers[u] > 0 => s_pc[u] = "lock",
         sync_ex_locker \in {t, NoThread},
         sync_mode' = (IF lockers[t] > 0 THEN "SH" ELSE "UN"),
         sync_ex_locker' = NoThread, sync_ex_count' = 0,
         held' = [held EXCEPT ![t] = S!Front(@)], s_pc' = [s_pc EXCEPT ![t] = "wake"],
         UNCHANGED <<want, stopped>>
  PROVE  SyncInv'
<1>0. S!TypeOK /\ Waiting /\ ModeAgrees /\ Listed /\ MaxNest \in Nat /\ NoThread \notin Thread
  BY DEF SyncInv, SyncConstants
<1>1. /\ Saved(t) = 0 /\ t \notin Upgraders /\ t \notin S!ToSet(sync_waiting)
      /\ \A u \in Thread : t \notin S!ToSet(s_wait[u])
      /\ \A u : Saved(u) \in Nat /\ (u \in Upgraders => Saved(u) \in 1 .. MaxNest)
                              /\ (u \notin Upgraders => Saved(u) = 0)
      /\ Upgraders \subseteq stopped /\ stopped \subseteq Thread
  BY <1>0, NotStopped, SavedType DEF Listed, S!TypeOK
<1>2. lockers \in [Thread -> Nat]
  OBVIOUS
<1>3. /\ sync_sh_locker' = [u \in Thread |-> IF u \in Upgraders THEN Saved(u) ELSE lockers[u]]
      /\ sync_upgrade_waiting' = <<>>
  BY <1>2, WakeupIs
<1>4. PICK w \in Seq(Thread) :
        /\ s_wait' = [s_wait EXCEPT ![t] = w] /\ S!IsInjective(w)
        /\ \/ /\ Upgraders # {} /\ S!ToSet(w) = Upgraders
              /\ sync_waiting' = sync_waiting
           \/ /\ Upgraders = {} /\ S!ToSet(w) = S!ToSet(sync_waiting)
              /\ sync_waiting' = <<>>
  BY <1>2, WakeupIs
<1>5. /\ \A u \in Thread : sync_sh_locker'[u] = IF u \in Upgraders THEN Saved(u) ELSE lockers[u]
      /\ sync_sh_locker' \in [Thread -> 0 .. MaxNest] /\ sync_sh_locker'[t] = lockers[t]
      /\ Upgraders' = {} /\ \A u : Saved(u)' = 0
      /\ want' = want /\ stopped' = stopped
  <2>1. Upgraders' = {} /\ \A u : Saved(u)' = 0
    BY <1>3, CountEmpty DEF Upgraders, Saved
  <2> QED
    BY <1>0, <1>1, <1>3, <2>1
<1>6. /\ s_pc' \in [Thread -> {"run", "lock", "wake", "error"}] /\ s_pc'[t] = "wake"
      /\ \A u \in Thread : u # t => s_pc'[u] = s_pc[u] /\ held'[u] = held[u]
      /\ s_wait' \in [Thread -> Seq(Thread)] /\ s_wait'[t] = w
      /\ \A u \in Thread : u # t => s_wait'[u] = s_wait[u]
      /\ s_wait[t] = <<>>
      /\ held'[t] = S!Front(held[t])
  <2>1. /\ s_pc \in [Thread -> {"run", "lock", "wake", "error"}]
        /\ s_wait \in [Thread -> Seq(Thread)] /\ held \in [Thread -> Seq({"SH", "EX"})]
        /\ s_wait[t] = <<>>
    BY <1>0 DEF S!TypeOK, Listed
  <2>2. /\ s_pc' \in [Thread -> {"run", "lock", "wake", "error"}] /\ s_pc'[t] = "wake"
        /\ \A u \in Thread : u # t => s_pc'[u] = s_pc[u]
    BY <2>1
  <2>3. /\ \A u \in Thread : u # t => held'[u] = held[u]
        /\ held'[t] = S!Front(held[t])
    BY <2>1
  <2>4. /\ s_wait' \in [Thread -> Seq(Thread)] /\ s_wait'[t] = w
        /\ \A u \in Thread : u # t => s_wait'[u] = s_wait[u]
    BY <1>4, <2>1
  <2> QED
    BY <2>1, <2>2, <2>3, <2>4
<1>7. /\ S!Front(held[t]) \in Seq({"SH", "EX"}) /\ Len(S!Front(held[t])) = Len(held[t]) - 1
      /\ Len(held[t]) \in Nat
  BY <1>0, FrontIs DEF S!TypeOK
<1>8. S!Lockers' = {u \in Thread : sync_sh_locker'[u] > 0}
  BY DEF S!Lockers
<1>9. S!TypeOK'
  <2>1. sync_waiting' \in Seq(Thread)
    <3>1. sync_waiting \in Seq(Thread) /\ <<>> \in Seq(Thread)
      BY <1>0, EmptySeq DEF S!TypeOK
    <3>2. sync_waiting' = sync_waiting \/ sync_waiting' = <<>>
      BY <1>4
    <3> QED
      BY <3>1, <3>2, Zenon
  <2>2. <<>> \in Seq([who : Thread, count : 1 .. MaxNest])
    BY EmptySeq
  <2>3. held' \in [Thread -> Seq({"SH", "EX"})]
    BY <1>0, <1>7 DEF S!TypeOK
  <2>4. sync_mode' \in {"UN", "SH", "EX"}
    OBVIOUS
  <2> QED
    BY <1>0, <1>3, <1>5, <1>6, <2>1, <2>2, <2>3, <2>4 DEF S!TypeOK
<1>10. Waiting'
  <2>1. Len(held'[t]) = Counted(t)' /\ Len(held'[t]) <= MaxNest
    <3>1. Counted(t)' = lockers[t]
      BY <1>0, <1>5 DEF Counted
    <3> QED
      BY <1>0, <1>6, <1>7, <3>1 DEF Waiting
  <2>2. ASSUME NEW u \in Thread, u # t PROVE Counted(u)' = Counted(u)
    <3>1. Counted(u)' = sync_sh_locker'[u] /\ Counted(u) = sync_sh_locker[u] + Saved(u)
      BY <1>0, <1>5, <2>2 DEF Counted, S!TypeOK
    <3>2. /\ u \in Upgraders => u \notin S!Lockers
          /\ sync_sh_locker[u] \in Nat /\ lockers[u] = sync_sh_locker[u] /\ Saved(u) \in Nat
      BY <1>0, <1>1, <2>2 DEF Waiting, S!TypeOK
    <3>3. u \in Upgraders => sync_sh_locker[u] = 0
      BY <3>2 DEF S!Lockers
    <3>4. u \notin Upgraders => Saved(u) = 0
      BY <1>1
    <3>5. sync_sh_locker'[u] = IF u \in Upgraders THEN Saved(u) ELSE lockers[u]
      BY <1>5
    <3> QED
      BY <3>1, <3>2, <3>3, <3>4, <3>5
  <2>3. \A u \in Thread : Len(held'[u]) = Counted(u)' /\ Len(held'[u]) <= MaxNest
    BY <1>0, <1>6, <2>1, <2>2 DEF Waiting
  <2>4. ASSUME NEW u \in Thread, s_pc'[u] = "lock"
        PROVE  /\ Len(held'[u]) < MaxNest /\ want[u] \in {"SH", "EX"}
               /\ u \in S!Lockers' => want[u] = "EX"
    <3>1. u # t /\ s_pc[u] = "lock" /\ held'[u] = held[u]
      BY <1>6, <2>4
    <3>2. u \in S!Lockers' => u \in Upgraders \/ u \in S!Lockers
      BY <1>5, <1>8, <3>1 DEF S!Lockers
    <3> QED
      BY <1>0, <3>1, <3>2 DEF Waiting
  <2>5. \A u \in Thread : s_pc'[u] # "error"
    BY <1>0, <1>6 DEF Waiting
  <2> QED
    BY <1>5, <2>3, <2>4, <2>5 DEF Waiting
<1>11. ModeAgrees'
  <2>1. sync_mode' = "SH" => S!Lockers' # {}
    BY <1>5, <1>8
  <2>2. ASSUME sync_mode' # "SH", NEW u \in S!Lockers' PROVE s_pc'[u] = "lock"
    <3>1. u \in Thread /\ u # t
      BY <1>0, <1>5, <1>8, <2>2 DEF S!TypeOK
    <3>2. s_pc[u] = "lock"
      BY <1>0, <1>1, <1>5, <1>8, <2>2, <3>1 DEF Listed
    <3> QED
      BY <1>6, <3>1, <3>2
  <2>3. sync_waiting' # <<>> => S!Lockers' # {}
    <3> SUFFICES ASSUME sync_waiting' # <<>> PROVE S!Lockers' # {}
      OBVIOUS
    <3>1. PICK u \in Upgraders : TRUE
      BY <1>4
    <3>2. u \in S!Lockers'
      BY <1>0, <1>1, <1>5, <1>8, <3>1
    <3> QED
      BY <3>2
  <2> QED
    BY <1>3, <2>1, <2>2, <2>3 DEF ModeAgrees
<1>12. Listed'
  <2> DEFINE W == S!ToSet(sync_waiting)
             V == UNION {S!ToSet(s_wait[u]) : u \in Thread}
  <2>0. /\ \A u \in stopped : s_pc[u] = "lock"
        /\ stopped = W \cup Upgraders \cup V /\ W \cap Upgraders = {}
        /\ \A u \in Thread :
             /\ S!ToSet(s_wait[u]) \cap (W \cup Upgraders) = {}
             /\ \A v \in Thread : u # v => S!ToSet(s_wait[u]) \cap S!ToSet(s_wait[v]) = {}
             /\ s_pc[u] # "wake" => s_wait[u] = <<>>
             /\ S!IsInjective(s_wait[u])
        /\ S!IsInjective(sync_waiting)
        /\ \A u \in S!Lockers : u \notin W \cup Upgraders
    BY <1>0 DEF Listed
  <2>1. S!ToSet(<<>>) = {} /\ S!IsInjective(<<>>) /\ S!Who(<<>>) = <<>>
    BY ToSetEmpty DEF S!Who
  <2>2. S!ToSet(sync_waiting') \cup S!ToSet(w) = W \cup Upgraders /\ S!ToSet(sync_waiting') \cap S!ToSet(w) = {}
    BY <1>4, <2>0, <2>1
  <2>3. UNION {S!ToSet(s_wait'[u]) : u \in Thread} = V \cup S!ToSet(w)
    <3>1. ASSUME NEW x \in V PROVE \E u \in Thread : x \in S!ToSet(s_wait'[u])
      <4>1. PICK u \in Thread : x \in S!ToSet(s_wait[u])
        OBVIOUS
      <4>2. u # t
        BY <1>6, <2>1, <4>1
      <4> QED
        BY <1>6, <4>1, <4>2
    <3>2. ASSUME NEW u \in Thread PROVE S!ToSet(s_wait'[u]) \subseteq V \cup S!ToSet(w)
      BY <1>6
    <3>3. S!ToSet(s_wait'[t]) = S!ToSet(w)
      BY <1>6
    <3> HIDE DEF V
    <3> QED
      BY <3>1, <3>2, <3>3
  <2>4. stopped' = S!ToSet(sync_waiting') \cup Upgraders' \cup UNION {S!ToSet(s_wait'[u]) : u \in Thread}
    BY <1>5, <2>0, <2>2, <2>3
  <2>5. \A u \in Thread :
          /\ S!ToSet(s_wait'[u]) \cap (S!ToSet(sync_waiting') \cup Upgraders') = {}
          /\ \A v \in Thread : u # v => S!ToSet(s_wait'[u]) \cap S!ToSet(s_wait'[v]) = {}
          /\ s_pc'[u] # "wake" => s_wait'[u] = <<>>
          /\ S!IsInjective(s_wait'[u])
    <3>1. \A u \in Thread : u # t => S!ToSet(s_wait'[u]) \cap (S!ToSet(sync_waiting') \cup S!ToSet(w)) = {}
      BY <1>6, <2>0, <2>2
    <3> QED
      BY <1>4, <1>5, <1>6, <2>0, <2>2, <3>1
  <2>6. \A u \in S!Lockers' : u \notin S!ToSet(sync_waiting')
    <3>1. ASSUME NEW u \in S!Lockers' PROVE u \in Upgraders \/ u = t \/ u \in S!Lockers
      BY <1>5, <1>8, <3>1 DEF S!Lockers
    <3> QED
      BY <1>1, <1>4, <2>0, <2>1, <3>1
  <2>7. \A u \in stopped' : s_pc'[u] = "lock"
    BY <1>1, <1>5, <1>6, <2>0
  <2>8. S!IsInjective(sync_waiting') /\ S!IsInjective(S!Who(sync_upgrade_waiting'))
    BY <1>3, <1>4, <2>0, <2>1
  <2> QED
    BY <1>5, <2>4, <2>5, <2>6, <2>7, <2>8 DEF Listed
<1> QED
  BY <1>9, <1>10, <1>11, <1>12 DEF SyncInv

\* sync_unlock gives up one lock of several.
LEMMA ReleaseStep ==
  ASSUME SyncConstants, SyncInv, NEW t \in Thread \ stopped, s_pc[t] = "run", held[t] # <<>>,
         held' = [held EXCEPT ![t] = S!Front(@)],
         UNCHANGED <<sync_mode, sync_ex_locker, S!queues, s_pc, want, stopped, s_wait>>,
         \/ /\ sync_mode = "EX" /\ sync_ex_locker = t /\ sync_ex_count # 1
            /\ sync_ex_count' = sync_ex_count - 1 /\ sync_sh_locker' = sync_sh_locker
         \/ /\ sync_mode = "SH" /\ t \in S!Lockers /\ sync_ex_count' = sync_ex_count
            /\ sync_sh_locker' = [sync_sh_locker EXCEPT ![t] = @ - 1]
            /\ \E u \in Thread : sync_sh_locker'[u] # 0
  PROVE  SyncInv'
<1>0. S!TypeOK /\ Waiting /\ ModeAgrees /\ Listed /\ MaxNest \in Nat /\ NoThread \notin Thread
  BY DEF SyncInv, SyncConstants
<1>1. /\ Saved(t) = 0 /\ t \notin Upgraders
      /\ sync_waiting' = sync_waiting /\ sync_upgrade_waiting' = sync_upgrade_waiting
      /\ Upgraders' = Upgraders /\ \A u : Saved(u)' = Saved(u)
  BY NotStopped DEF S!queues, Upgraders, Saved
<1>2. /\ sync_sh_locker \in [Thread -> 0 .. MaxNest] /\ sync_ex_count \in 0 .. MaxNest
      /\ held \in [Thread -> Seq({"SH", "EX"})]
      /\ sync_mode = "EX" => sync_ex_count > 0
      /\ \A u \in S!Lockers : u \in Thread /\ sync_sh_locker[u] > 0
      /\ sync_mode = "SH" => sync_ex_locker = NoThread
  BY <1>0 DEF S!TypeOK, ModeAgrees, S!Lockers
<1>3. /\ sync_sh_locker' \in [Thread -> 0 .. MaxNest] /\ sync_ex_count' \in 0 .. MaxNest
      /\ sync_mode = "EX" => sync_ex_count' > 0
      /\ sync_mode # "EX" => sync_ex_count' = sync_ex_count
      /\ \A u \in Thread : u # t => sync_sh_locker'[u] = sync_sh_locker[u]
      /\ (IF sync_ex_locker = t THEN sync_ex_count' ELSE 0) + sync_sh_locker'[t]
           = (IF sync_ex_locker = t THEN sync_ex_count ELSE 0) + sync_sh_locker[t] - 1
      /\ sync_mode # "SH" => sync_sh_locker' = sync_sh_locker
      /\ sync_mode = "SH" => \E u \in Thread : sync_sh_locker'[u] # 0
      /\ \A u \in Thread : sync_sh_locker'[u] <= sync_sh_locker[u]
      /\ sync_ex_locker # t => sync_ex_count' = sync_ex_count
  <2>1. CASE sync_mode = "EX"
    <3>1. sync_ex_locker = t /\ sync_ex_count' = sync_ex_count - 1 /\ sync_sh_locker' = sync_sh_locker
          /\ sync_ex_count # 1
      BY <2>1
    <3> QED
      BY <1>0, <1>2, <2>1, <3>1
  <2>2. CASE sync_mode = "SH"
    <3>1. /\ t \in S!Lockers /\ sync_ex_count' = sync_ex_count /\ sync_ex_locker # t
          /\ sync_sh_locker' = [sync_sh_locker EXCEPT ![t] = sync_sh_locker[t] - 1]
          /\ \E u \in Thread : sync_sh_locker'[u] # 0
      BY <1>0, <1>2, <2>2
    <3>2. sync_sh_locker'[t] = sync_sh_locker[t] - 1 /\ sync_sh_locker[t] - 1 \in 0 .. MaxNest
          /\ sync_sh_locker[t] \in Nat
      BY <1>0, <1>2, <3>1
    <3>3. sync_sh_locker' \in [Thread -> 0 .. MaxNest]
          /\ \A u \in Thread : u # t => sync_sh_locker'[u] = sync_sh_locker[u]
      BY <1>2, <3>1, <3>2
    <3>4. \A u \in Thread : sync_sh_locker'[u] <= sync_sh_locker[u]
      BY <1>2, <3>2, <3>3
    <3> QED
      BY <1>2, <2>2, <3>1, <3>2, <3>3, <3>4
  <2> QED
    BY <2>1, <2>2
<1>4. /\ held' \in [Thread -> Seq({"SH", "EX"})] /\ Len(held'[t]) = Len(held[t]) - 1
      /\ Len(held[t]) \in Nat /\ \A u \in Thread : u # t => held'[u] = held[u]
  <2>1. S!Front(held[t]) \in Seq({"SH", "EX"}) /\ Len(S!Front(held[t])) = Len(held[t]) - 1
        /\ Len(held[t]) \in Nat
    BY <1>2, FrontIs
  <2> QED
    BY <1>2, <2>1
<1>5. S!Lockers' \subseteq S!Lockers /\ (sync_mode = "SH" => S!Lockers' # {})
      /\ (sync_mode # "SH" => S!Lockers' = S!Lockers)
  BY <1>2, <1>3 DEF S!Lockers
<1>6. S!TypeOK'
  BY <1>0, <1>1, <1>3, <1>4 DEF S!TypeOK
<1>7. Waiting'
  <2>1. \A u \in Thread : u # t => Counted(u)' = Counted(u)
    BY <1>1, <1>3 DEF Counted
  <2>2. Counted(t)' = Counted(t) - 1
    <3>1. /\ sync_sh_locker[t] \in Nat /\ sync_sh_locker'[t] \in Nat
          /\ sync_ex_count \in Nat /\ sync_ex_count' \in Nat
      BY <1>2, <1>3
    <3> QED
      BY <1>1, <1>3, <3>1 DEF Counted
  <2>3. \A u \in Thread : Len(held'[u]) = Counted(u)' /\ Len(held'[u]) <= MaxNest
    BY <1>0, <1>4, <2>1, <2>2 DEF Waiting
  <2>4. \A u \in Thread : s_pc[u] = "lock" => held'[u] = held[u]
    BY <1>4
  <2> QED
    BY <1>0, <1>1, <1>5, <2>3, <2>4 DEF Waiting
<1>8. ModeAgrees'
  BY <1>0, <1>1, <1>3, <1>5 DEF ModeAgrees
<1>9. Listed'
  <2>1. stopped' = stopped /\ s_wait' = s_wait /\ s_pc' = s_pc
    OBVIOUS
  <2>2. stopped' = (S!ToSet(sync_waiting) \cup Upgraders \cup UNION {S!ToSet(s_wait[u]) : u \in Thread})'
    BY <1>0, <1>1, <2>1 DEF Listed
  <2>3. \A u \in S!Lockers' : u \notin S!ToSet(sync_waiting) \cup Upgraders
    BY <1>0, <1>5 DEF Listed
  <2> QED
    BY <1>0, <1>1, <2>1, <2>2, <2>3 DEF Listed
<1> QED
  BY <1>6, <1>7, <1>8, <1>9 DEF SyncInv

\* An unlock keeps the invariant.
LEMMA UnlockStep ==
  ASSUME SyncConstants, SyncInv, NEW t \in Thread, S!sync_unlock(t)
  PROVE  SyncInv'
<1>0. S!TypeOK /\ Waiting /\ ModeAgrees /\ Listed /\ MaxNest \in Nat /\ NoThread \notin Thread
  BY DEF SyncInv, SyncConstants
<1>1. /\ t \in Thread \ stopped /\ s_pc[t] = "run" /\ held[t] # <<>> /\ UNCHANGED <<want, stopped>>
      /\ held' = [held EXCEPT ![t] = S!Front(@)]
      /\ S!UnlockEX(t) \/ S!UnlockSH(t) \/ S!UnlockFails(t)
  BY DEF S!sync_unlock
<1>2. /\ Saved(t) = 0
      /\ Len(held[t]) = (IF sync_ex_locker = t THEN sync_ex_count ELSE 0) + sync_sh_locker[t]
      /\ Len(held[t]) \in Nat /\ Len(held[t]) > 0
      /\ sync_sh_locker \in [Thread -> 0 .. MaxNest] /\ sync_ex_count \in Nat
  <2>1. Saved(t) = 0
    BY <1>1, NotStopped
  <2>2. Len(held[t]) = Counted(t)
    BY <1>0 DEF Waiting
  <2>3. held[t] \in Seq({"SH", "EX"}) /\ sync_sh_locker \in [Thread -> 0 .. MaxNest]
        /\ sync_ex_count \in Nat
    BY <1>0 DEF S!TypeOK
  <2>4. Len(held[t]) \in Nat /\ Len(held[t]) > 0
    BY <1>1, <2>3, HeadTailProperties
  <2> QED
    BY <1>0, <2>1, <2>2, <2>3, <2>4 DEF Counted
<1>3. CASE S!UnlockEX(t)
  <2>1. sync_mode = "EX" /\ sync_ex_locker = t /\ sync_ex_count' = sync_ex_count - 1
    BY <1>3 DEF S!UnlockEX
  <2>2. CASE sync_ex_count = 1
    <3>1. /\ sync_ex_locker' = NoThread /\ sync_mode' = (IF t \in S!Lockers THEN "SH" ELSE "UN")
          /\ S!Wakeup(t, sync_sh_locker) /\ s_pc' = [s_pc EXCEPT ![t] = "wake"]
      BY <1>3, <2>2 DEF S!UnlockEX
    <3>2. sync_sh_locker[t] = Len(held[t]) - 1 /\ sync_ex_count' = 0
      BY <1>0, <1>2, <2>1, <2>2
    <3>3. \A u \in Thread : u # t /\ sync_sh_locker[u] > 0 => s_pc[u] = "lock"
      BY <1>0, <2>1 DEF ModeAgrees, S!Lockers
    <3>4. sync_mode' = (IF sync_sh_locker[t] > 0 THEN "SH" ELSE "UN")
      BY <3>1 DEF S!Lockers
    <3> QED
      BY <1>1, <1>2, <2>1, <3>1, <3>2, <3>3, <3>4, WakeupStep
  <2>3. CASE sync_ex_count # 1
    <3>1. UNCHANGED <<sync_ex_locker, sync_mode, sync_sh_locker, S!queues, s_wait, s_pc>>
      BY <1>3, <2>3 DEF S!UnlockEX
    <3> QED
      BY <1>1, <2>1, <2>3, <3>1, ReleaseStep
  <2> QED
    BY <2>2, <2>3
<1>4. CASE S!UnlockSH(t)
  <2> DEFINE lockers == [sync_sh_locker EXCEPT ![t] = @ - 1]
  <2>1. sync_mode = "SH" /\ t \in S!Lockers /\ UNCHANGED <<sync_ex_locker, sync_ex_count>>
        /\ sync_sh_locker[t] > 0 /\ sync_ex_locker = NoThread /\ sync_ex_count = 0
    BY <1>0, <1>4 DEF S!UnlockSH, S!Lockers, ModeAgrees
  <2>2. /\ lockers \in [Thread -> 0 .. MaxNest] /\ lockers[t] = Len(held[t]) - 1
        /\ \A u \in Thread : u # t => lockers[u] = sync_sh_locker[u]
    <3>1. sync_sh_locker[t] - 1 \in 0 .. MaxNest
      BY <1>0, <1>2, <2>1
    <3>2. Len(held[t]) = sync_sh_locker[t]
      BY <1>0, <1>2, <2>1
    <3> QED
      BY <1>2, <3>1, <3>2
  <2>3. CASE \A u \in Thread : lockers[u] = 0
    <3>1. sync_mode' = "UN" /\ S!Wakeup(t, lockers) /\ s_pc' = [s_pc EXCEPT ![t] = "wake"]
      BY <1>4, <2>1, <2>3 DEF S!UnlockSH
    <3> HIDE DEF lockers
    <3>2. /\ \A u \in Thread : u # t /\ lockers[u] > 0 => s_pc[u] = "lock"
          /\ sync_mode' = (IF lockers[t] > 0 THEN "SH" ELSE "UN")
      BY <2>3, <3>1
    <3> QED
      BY <1>1, <2>1, <2>2, <3>1, <3>2, WakeupStep
  <2>4. CASE \E u \in Thread : lockers[u] # 0
    <3>1. sync_sh_locker' = lockers /\ UNCHANGED <<sync_mode, S!queues, s_wait, s_pc>>
      BY <1>4, <2>1, <2>4 DEF S!UnlockSH
    <3>2. \E u \in Thread : sync_sh_locker'[u] # 0
      BY <2>4, <3>1
    <3> QED
      BY <1>1, <2>1, <3>1, <3>2, ReleaseStep
  <2> QED
    BY <2>3, <2>4
<1>5. CASE S!UnlockFails(t)
  <2>1. ~(sync_mode = "EX" /\ sync_ex_locker = t) /\ ~(sync_mode = "SH" /\ t \in S!Lockers)
    BY <1>5 DEF S!UnlockFails
  <2>2. sync_ex_locker # t
    BY <1>0, <2>1 DEF ModeAgrees
  <2>3. sync_sh_locker[t] > 0 /\ t \in S!Lockers
    BY <1>2, <2>2 DEF S!Lockers
  <2> QED
    BY <1>0, <1>1, <2>1, <2>2, <2>3 DEF ModeAgrees
<1> QED
  BY <1>1, <1>3, <1>4, <1>5

\* A waiting thread is run.
LEMMA WakeStep ==
  ASSUME SyncConstants, SyncInv, NEW t \in Thread, S!Wake(t)
  PROVE  SyncInv'
<1>0. S!TypeOK /\ Waiting /\ ModeAgrees /\ Listed
  BY DEF SyncInv
<1>1. /\ t \notin stopped /\ s_pc[t] = "wake"
      /\ sync_mode' = sync_mode /\ sync_sh_locker' = sync_sh_locker
      /\ sync_ex_locker' = sync_ex_locker /\ sync_ex_count' = sync_ex_count
      /\ sync_waiting' = sync_waiting /\ sync_upgrade_waiting' = sync_upgrade_waiting
      /\ want' = want /\ held' = held
      /\ Upgraders' = Upgraders /\ \A u : Saved(u)' = Saved(u)
      /\ S!Lockers' = S!Lockers
  BY DEF S!Wake, S!lock_state, S!queues, Upgraders, Saved, S!Lockers
<1>2. \A u \in Thread : Counted(u)' = Counted(u)
  BY <1>1 DEF Counted
<1>3. CASE s_wait[t] = <<>>
  <2>1. s_pc' = [s_pc EXCEPT ![t] = "run"] /\ stopped' = stopped /\ s_wait' = s_wait
    BY <1>3 DEF S!Wake
  <2>2. /\ s_pc' \in [Thread -> {"run", "lock", "wake", "error"}] /\ s_pc'[t] = "run"
        /\ \A u \in Thread : u # t => s_pc'[u] = s_pc[u]
        /\ \A u \in Thread : s_pc'[u] = "lock" <=> s_pc[u] = "lock"
    BY <1>0, <1>1, <2>1 DEF S!TypeOK
  <2>3. S!TypeOK'
    BY <1>0, <1>1, <2>1, <2>2 DEF S!TypeOK
  <2>4. Waiting'
    BY <1>0, <1>1, <1>2, <2>2 DEF Waiting
  <2>5. ModeAgrees'
    BY <1>0, <1>1, <2>2 DEF ModeAgrees, S!Lockers
  <2>6. Listed'
    <3>1. \A u \in stopped : s_pc'[u] = "lock"
      BY <1>0, <2>2 DEF Listed, S!TypeOK
    <3>2. \A u \in Thread : s_pc'[u] # "wake" => s_wait[u] = <<>>
      BY <1>0, <1>3, <2>2 DEF Listed
    <3> QED
      BY <1>0, <1>1, <2>1, <3>1, <3>2 DEF Listed
  <2> QED
    BY <2>3, <2>4, <2>5, <2>6 DEF SyncInv
<1>4. CASE s_wait[t] # <<>>
  <2> DEFINE h == Head(s_wait[t])
             W == S!ToSet(sync_waiting)
             V == UNION {S!ToSet(s_wait[u]) : u \in Thread}
  <2>1. /\ stopped' = stopped \ {h} /\ s_wait' = [s_wait EXCEPT ![t] = Tail(@)] /\ s_pc' = s_pc
    BY <1>4 DEF S!Wake
  <2>2. s_wait \in [Thread -> Seq(Thread)] /\ s_wait[t] \in Seq(Thread) /\ S!IsInjective(s_wait[t])
    BY <1>0 DEF S!TypeOK, Listed
  <2>3. /\ h \in S!ToSet(s_wait[t]) /\ h \in Thread /\ Tail(s_wait[t]) \in Seq(Thread)
        /\ S!IsInjective(Tail(s_wait[t])) /\ S!ToSet(Tail(s_wait[t])) = S!ToSet(s_wait[t]) \ {h}
    BY <1>4, <2>2, ToSetTail
  <2>4. /\ s_wait' \in [Thread -> Seq(Thread)] /\ s_wait'[t] = Tail(s_wait[t])
        /\ \A u \in Thread : u # t => s_wait'[u] = s_wait[u]
    BY <2>1, <2>2, <2>3
  <2> HIDE DEF h
  <2>5. S!TypeOK'
    BY <1>0, <1>1, <2>1, <2>4 DEF S!TypeOK
  <2>6. Waiting'
    BY <1>0, <1>1, <1>2, <2>1 DEF Waiting
  <2>7. ModeAgrees'
    BY <1>0, <1>1, <2>1 DEF ModeAgrees, S!Lockers
  <2>8. Listed'
    <3>0. /\ \A u \in stopped : s_pc[u] = "lock"
          /\ stopped = W \cup Upgraders \cup V
          /\ \A u \in Thread :
               /\ S!ToSet(s_wait[u]) \cap (W \cup Upgraders) = {}
               /\ \A v \in Thread : u # v => S!ToSet(s_wait[u]) \cap S!ToSet(s_wait[v]) = {}
               /\ s_pc[u] # "wake" => s_wait[u] = <<>>
               /\ S!IsInjective(s_wait[u])
      BY <1>0 DEF Listed
    <3>1. \A u \in Thread : S!ToSet(s_wait'[u]) = S!ToSet(s_wait[u]) \ {h}
      <4> SUFFICES ASSUME NEW u \in Thread PROVE S!ToSet(s_wait'[u]) = S!ToSet(s_wait[u]) \ {h}
        OBVIOUS
      <4>1. CASE u = t
        BY <2>3, <2>4, <4>1
      <4>2. CASE u # t
        <5>1. s_wait'[u] = s_wait[u] /\ S!ToSet(s_wait[u]) \cap S!ToSet(s_wait[t]) = {}
          BY <2>4, <3>0, <4>2
        <5>2. h \notin S!ToSet(s_wait[u])
          BY <2>3, <5>1
        <5> QED
          BY <5>1, <5>2
      <4> QED
        BY <4>1, <4>2
    <3>2. UNION {S!ToSet(s_wait'[u]) : u \in Thread} = V \ {h}
      <4>1. ASSUME NEW x \in V, x # h PROVE \E u \in Thread : x \in S!ToSet(s_wait'[u])
        <5>1. PICK u \in Thread : x \in S!ToSet(s_wait[u])
          BY <4>1
        <5> QED
          BY <3>1, <4>1, <5>1
      <4>2. ASSUME NEW u \in Thread PROVE S!ToSet(s_wait'[u]) \subseteq V \ {h}
        BY <3>1
      <4> HIDE DEF V
      <4> QED
        BY <4>1, <4>2
    <3>3. stopped' = W \cup Upgraders \cup (V \ {h})
      BY <2>1, <2>3, <3>0
    <3>4. \A u \in Thread :
            /\ S!ToSet(s_wait'[u]) \cap (W \cup Upgraders) = {}
            /\ \A v \in Thread : u # v => S!ToSet(s_wait'[u]) \cap S!ToSet(s_wait'[v]) = {}
            /\ s_pc'[u] # "wake" => s_wait'[u] = <<>>
            /\ S!IsInjective(s_wait'[u])
      <4>1. \A u \in Thread : S!IsInjective(s_wait'[u]) /\ (s_pc'[u] # "wake" => s_wait'[u] = <<>>)
        BY <1>1, <2>1, <2>3, <2>4, <3>0
      <4> QED
        BY <3>0, <3>1, <4>1
    <3>5. \A u \in stopped' : s_pc'[u] = "lock"
      BY <2>1, <3>0
    <3>6. /\ W \cap Upgraders = {} /\ S!IsInjective(sync_waiting)
          /\ S!IsInjective(S!Who(sync_upgrade_waiting))
          /\ \A u \in S!Lockers : u \notin W \cup Upgraders
      BY <1>0 DEF Listed
    <3>7. stopped' = W \cup Upgraders \cup UNION {S!ToSet(s_wait'[u]) : u \in Thread}
      BY <3>2, <3>3
    <3> QED
      BY <1>1, <3>4, <3>5, <3>6, <3>7 DEF Listed
  <2> QED
    BY <2>5, <2>6, <2>7, <2>8 DEF SyncInv
<1> QED
  BY <1>3, <1>4

\* Every step keeps the invariant.
LEMMA SyncStep == ASSUME SyncConstants, SyncInv, [S!Next]_(S!vars) PROVE SyncInv'
<1>1. ASSUME NEW t \in Thread, NEW m \in {"SH", "EX"}, S!Locks(t, m) PROVE SyncInv'
  <2>1. Len(held[t]) < MaxNest
    BY <1>1 DEF S!Locks, SyncInv, Waiting
  <2>2. /\ t \in Thread \ stopped /\ (s_pc[t] = "run" \/ (s_pc[t] = "lock" /\ want[t] = m))
        /\ S!Granted(t, m) /\ S!Grant(t, m) /\ Gains(t, m)
        /\ s_pc' = [s_pc EXCEPT ![t] = "run"] /\ UNCHANGED <<S!queues, want, stopped, s_wait>>
    BY <1>1 DEF S!Locks, Gains
  <2> QED
    BY <2>1, <2>2, GrantStep
<1>2. ASSUME NEW t \in Thread, NEW m \in {"SH", "EX"}, S!sync_try_lock(t, m) PROVE SyncInv'
  <2>1. /\ sync_mode \in {"SH", "EX"} /\ s_pc' = [s_pc EXCEPT ![t] = "run"]
    BY <1>2 DEF S!sync_try_lock, SyncInv, S!TypeOK
  <2>2. /\ t \in Thread \ stopped /\ s_pc[t] = "run" /\ Len(held[t]) < MaxNest
        /\ S!Granted(t, sync_mode) /\ S!Grant(t, sync_mode)
        /\ Gains(t, m) /\ UNCHANGED <<S!queues, want, stopped, s_wait>>
    BY <1>2 DEF S!sync_try_lock, Gains
  <2> QED
    BY <2>1, <2>2, GrantStep
<1>3. CASE UNCHANGED S!vars
  <2>1. /\ UNCHANGED <<sync_mode, sync_sh_locker, sync_ex_locker, sync_ex_count, sync_waiting,
                       sync_upgrade_waiting, s_pc, want, stopped, s_wait, held>>
    BY <1>3 DEF S!vars, S!lock_state, S!queues
  <2>2. Upgraders' = Upgraders /\ \A u : Saved(u)' = Saved(u) /\ S!Lockers' = S!Lockers
    BY <2>1 DEF Upgraders, Saved, S!Lockers
  <2>3. \A u \in Thread : Counted(u)' = Counted(u)
    BY <2>1, <2>2 DEF Counted
  <2>4. S!TypeOK' /\ Waiting'
    BY <2>1, <2>2, <2>3 DEF SyncInv, S!TypeOK, Waiting
  <2>5. ModeAgrees' /\ Listed'
    BY <2>1, <2>2 DEF SyncInv, ModeAgrees, Listed
  <2> QED
    BY <2>4, <2>5 DEF SyncInv
<1> QED
  BY <1>1, <1>2, <1>3, WaitsStep, UnlockStep, WakeStep DEF S!Next

-----------------------------------------------------------------------------
(***************************************************************************)
(* What the invariant says.                                                *)
(***************************************************************************)

\* The invariant says that the counts agree.
LEMMA SyncCounts == ASSUME SyncConstants, SyncInv PROVE S!CountsAgree
<1>1. /\ \A t \in Thread : s_pc[t] # "error"
      /\ \A t \in Thread : Len(held[t]) = Counted(t)
      /\ sync_mode = "EX" <=> sync_ex_count > 0
  BY DEF SyncInv, Waiting, ModeAgrees
<1> QED
  BY <1>1, Zenon DEF S!CountsAgree, Counted, Saved, CountIn

\* The invariant says that a thread that sleeps is on a list.
LEMMA SyncWaiters == ASSUME SyncConstants, SyncInv PROVE S!WaitersKnown
<1> SUFFICES ASSUME NEW t \in stopped \ S!Woken
             PROVE  /\ t \in S!ToSet(sync_waiting) \cup S!ToSet(S!Who(sync_upgrade_waiting))
                    /\ \E u \in Thread : held[u] # <<>> /\ u \notin stopped \ S!Woken
  BY DEF S!WaitersKnown
<1>0. S!TypeOK /\ Waiting /\ ModeAgrees /\ Listed
  BY DEF SyncInv
<1>1. t \in S!ToSet(sync_waiting) \cup Upgraders
  <2>1. ASSUME NEW u \in Thread, t \in S!ToSet(s_wait[u]) PROVE t \in S!Woken
    <3>1. s_pc[u] = "wake"
      BY <1>0, <2>1, ToSetEmpty DEF Listed
    <3> QED
      BY <2>1, <3>1 DEF S!Woken
  <2> QED
    BY <1>0, <2>1 DEF Listed
<1>2. S!ToSet(S!Who(sync_upgrade_waiting)) = Upgraders
      /\ (Upgraders = {} <=> sync_upgrade_waiting = <<>>)
  BY <1>0, UpgradersAre DEF S!TypeOK, Upgrade, Upgraders
<1>3. S!Lockers # {} \/ sync_mode = "EX"
  <2>1. sync_waiting # <<>> \/ sync_upgrade_waiting # <<>>
    BY <1>1, <1>2, ToSetEmpty
  <2> QED
    BY <1>0, <2>1 DEF ModeAgrees
<1>4. \A u \in Thread : Counted(u) > 0 => held[u] # <<>>
  BY <1>0 DEF Waiting
<1>5. \E u \in Thread : held[u] # <<>> /\ u \notin stopped \ S!Woken
  <2>1. CASE sync_mode = "EX"
    <3>1. sync_ex_locker \in Thread /\ sync_ex_count > 0 /\ sync_ex_locker \notin stopped
      BY <1>0, <2>1 DEF ModeAgrees, Listed
    <3>2. Counted(sync_ex_locker) > 0
      BY <1>0, <3>1, SavedType DEF Counted, S!TypeOK
    <3> QED
      BY <1>4, <3>1, <3>2
  <2>2. CASE S!Lockers # {}
    <3>1. PICK u \in S!Lockers : TRUE
      BY <2>2
    <3>2. u \in Thread /\ Counted(u) > 0
      BY <1>0, <3>1, SavedType DEF Counted, S!TypeOK, S!Lockers
    <3>3. u \in stopped => u \in S!Woken
      <4> SUFFICES ASSUME u \in stopped PROVE u \in S!Woken
        OBVIOUS
      <4>1. PICK v \in Thread : u \in S!ToSet(s_wait[v])
        BY <1>0, <3>1 DEF Listed
      <4>2. s_pc[v] = "wake"
        BY <1>0, <4>1, ToSetEmpty DEF Listed
      <4> QED
        BY <4>1, <4>2 DEF S!Woken
    <3> QED
      BY <1>4, <3>2, <3>3
  <2> QED
    BY <1>3, <2>1, <2>2
<1> QED
  BY <1>1, <1>2, <1>5

\* Sync_m of lib/sync.rb: the counts are those of the locks granted, and whoever is
\* stopped is on a list that a thread that can still unlock will look at.
THEOREM SyncSafe == S!Spec => [](S!TypeOK /\ S!CountsAgree /\ S!WaitersKnown)
<1>1. S!Init => SyncInv
  BY SyncConstantsHold, SyncInit
<1>2. SyncInv /\ [S!Next]_(S!vars) => SyncInv'
  BY SyncConstantsHold, SyncStep
<1>3. SyncInv => S!TypeOK /\ S!CountsAgree /\ S!WaitersKnown
  BY SyncConstantsHold, SyncCounts, SyncWaiters DEF SyncInv
<1> QED
  BY <1>1, <1>2, <1>3, PTL DEF S!Spec

-----------------------------------------------------------------------------
(***************************************************************************)
(* Sync_m implements the readers-writer lock.                              *)
(***************************************************************************)

\* A reader is a SH locker that does not wait; while there is a writer, or nobody
\* has the lock, there is none.
LEMMA ReadersAre ==
  ASSUME SyncConstants, SyncInv
  PROVE  /\ S!Readers \subseteq S!Lockers
         /\ sync_mode # "SH" => S!Readers = {}
         /\ sync_mode # "EX" => sync_ex_locker = NoThread /\ S!Writer = NoThread
         /\ sync_mode = "EX" => sync_ex_locker \in Thread /\ S!Writer = sync_ex_locker
                                /\ S!Writer # NoThread
<1>0. S!TypeOK /\ Waiting /\ ModeAgrees /\ Listed /\ NoThread \notin Thread
  BY DEF SyncInv, SyncConstants
<1>1. ASSUME NEW t \in S!Readers PROVE t \in S!Lockers
  <2>1. t \in Thread /\ held[t] # <<>> /\ s_pc[t] # "lock" /\ sync_ex_locker # t
    BY DEF S!Readers
  <2>2. t \notin stopped
    BY <1>0, <2>1 DEF Listed
  <2>3. Saved(t) = 0
    BY <2>1, <2>2, NotStopped
  <2>4. Len(held[t]) = sync_sh_locker[t] /\ Len(held[t]) > 0
    <3>1. held[t] \in Seq({"SH", "EX"}) /\ sync_sh_locker[t] \in Nat
      BY <1>0, <2>1 DEF S!TypeOK
    <3>2. Len(held[t]) \in Nat /\ Len(held[t]) > 0
      BY <2>1, <3>1, HeadTailProperties
    <3>3. Len(held[t]) = Counted(t)
      BY <1>0, <2>1 DEF Waiting
    <3> QED
      BY <2>1, <2>3, <3>1, <3>2, <3>3 DEF Counted
  <2> QED
    BY <2>1, <2>4 DEF S!Lockers
<1>2. sync_mode # "SH" => S!Readers = {}
  BY <1>0, <1>1 DEF ModeAgrees, S!Readers
<1>3. sync_mode # "EX" => sync_ex_locker = NoThread /\ S!Writer = NoThread
  BY <1>0 DEF ModeAgrees, S!Writer
<1>4. sync_mode = "EX" => /\ sync_ex_locker \in Thread /\ S!Writer = sync_ex_locker
                          /\ S!Writer # NoThread
  BY <1>0 DEF ModeAgrees, S!Writer
<1> QED
  BY <1>1, <1>2, <1>3, <1>4

\* Only the thread that takes a step becomes a reader or ceases to be one.
LEMMA OthersRead ==
  ASSUME NEW t \in Thread,
         \A u \in Thread : u # t => /\ held'[u] = held[u]
                                    /\ (s_pc'[u] = "lock" <=> s_pc[u] = "lock")
                                    /\ (sync_ex_locker' = u <=> sync_ex_locker = u)
  PROVE  S!Readers' \ {t} = S!Readers \ {t}
BY DEF S!Readers

\* To grant a lock is a step of the abstract lock.
LEMMA GrantRefines ==
  ASSUME SyncConstants, SyncInv, SyncInv', NEW t \in Thread \ stopped, NEW m \in {"SH", "EX"},
         NEW n \in {"SH", "EX"}, S!Granted(t, m), S!Grant(t, m), Gains(t, n),
         s_pc' = [s_pc EXCEPT ![t] = "run"]
  PROVE  [S!RW!LockNext]_(S!RW!lockvars)
<1>0. NoThread \notin Thread /\ S!TypeOK
  BY DEF SyncConstants, SyncInv
<1>1. /\ \A u \in Thread : u # t => held'[u] = held[u] /\ s_pc'[u] = s_pc[u]
      /\ s_pc'[t] = "run" /\ held'[t] # <<>>
  <2>1. held[t] \in Seq({"SH", "EX"})
    BY <1>0 DEF S!TypeOK
  <2>2. Append(held[t], n) # <<>>
    BY <2>1, AppendProperties
  <2> QED
    BY <1>0, <2>2 DEF Gains, S!TypeOK
<1>2. /\ S!Readers \subseteq S!Lockers
      /\ sync_mode # "SH" => S!Readers = {}
      /\ sync_mode # "EX" => sync_ex_locker = NoThread /\ S!Writer = NoThread
  BY ReadersAre
<1>3. CASE sync_mode = "EX"
  <2>1. sync_ex_locker = t /\ sync_ex_locker' = t /\ sync_mode' = "EX"
    BY <1>3 DEF S!Granted, S!Grant
  <2>2. S!Writer' = S!Writer
    BY <1>3, <2>1 DEF S!Writer
  <2>3. S!Readers' = S!Readers
    <3>1. S!Readers' \ {t} = S!Readers \ {t}
      BY <1>1, <2>1, OthersRead
    <3>2. t \notin S!Readers /\ t \notin S!Readers'
      BY <2>1 DEF S!Readers
    <3> QED
      BY <3>1, <3>2
  <2> QED
    BY <2>2, <2>3 DEF S!RW!lockvars
<1>4. CASE sync_mode # "EX" /\ m = "EX"
  <2>1. sync_mode' = "EX" /\ sync_ex_locker' = t
    BY <1>4 DEF S!Grant
  <2>2. S!Readers \subseteq {t}
    BY <1>2, <1>4 DEF S!Granted
  <2>3. S!Readers' = {}
    <3>1. \A u \in Thread : u # t => (sync_ex_locker' = u <=> sync_ex_locker = u)
      BY <1>0, <1>2, <1>4, <2>1
    <3>2. S!Readers' \ {t} = S!Readers \ {t}
      BY <1>1, <3>1, OthersRead
    <3>3. t \notin S!Readers'
      BY <2>1 DEF S!Readers
    <3> QED
      BY <2>2, <3>2, <3>3
  <2>4. S!Writer = NoThread /\ S!Writer' = t
    BY <1>2, <1>4, <2>1 DEF S!Writer
  <2> QED
    BY <2>2, <2>3, <2>4 DEF S!RW!LockNext, S!RW!Write
<1>5. CASE sync_mode # "EX" /\ m = "SH"
  <2>1. sync_mode' = "SH" /\ sync_ex_locker' = sync_ex_locker /\ sync_ex_locker = NoThread
    BY <1>2, <1>5 DEF S!Grant
  <2>2. S!Readers' = S!Readers \cup {t}
    <3>1. S!Readers' \ {t} = S!Readers \ {t}
      BY <1>1, <2>1, OthersRead
    <3>2. t \in S!Readers'
      BY <1>0, <1>1, <2>1 DEF S!Readers
    <3> QED
      BY <3>1, <3>2
  <2>3. S!Writer = NoThread /\ S!Writer' = NoThread
    BY <1>2, <1>5, <2>1 DEF S!Writer
  <2> QED
    BY <2>2, <2>3 DEF S!RW!LockNext, S!RW!Read
<1> QED
  BY <1>3, <1>4, <1>5

\* To give a lock back is a step of the abstract lock, or none.
LEMMA UnlockRefines ==
  ASSUME SyncConstants, SyncInv, SyncInv', NEW t \in Thread, S!sync_unlock(t)
  PROVE  [S!RW!LockNext]_(S!RW!lockvars)
<1>0. NoThread \notin Thread /\ S!TypeOK
  BY DEF SyncConstants, SyncInv
<1>1. /\ t \in Thread \ stopped /\ s_pc[t] = "run" /\ held[t] # <<>>
      /\ held' = [held EXCEPT ![t] = S!Front(@)]
      /\ S!UnlockEX(t) \/ S!UnlockSH(t) \/ S!UnlockFails(t)
  BY DEF S!sync_unlock
<1>2. /\ sync_mode # "SH" => S!Readers = {}
      /\ sync_mode # "EX" => sync_ex_locker = NoThread /\ S!Writer = NoThread
      /\ sync_mode' # "EX" => sync_ex_locker' = NoThread /\ S!Writer' = NoThread
  <2>1. sync_mode' # "EX" => sync_ex_locker' = NoThread
    BY DEF SyncInv, ModeAgrees
  <2> QED
    BY <2>1, ReadersAre DEF S!Writer
<1>3. \A u \in Thread : u # t => held'[u] = held[u]
  BY <1>1, <1>0 DEF S!TypeOK
<1>4. CASE S!UnlockEX(t)
  <2>1. sync_mode = "EX" /\ sync_ex_locker = t /\ S!Readers = {} /\ S!Writer = t
    BY <1>2, <1>4 DEF S!UnlockEX, S!Writer
  <2>2. CASE sync_ex_count = 1
    <3>1. /\ sync_ex_locker' = NoThread /\ sync_mode' \in {"SH", "UN"}
          /\ s_pc' = [s_pc EXCEPT ![t] = "wake"]
      BY <1>4, <2>2 DEF S!UnlockEX
    <3>2. S!Readers' \ {t} = S!Readers \ {t}
      <4>1. \A u \in Thread : u # t => (s_pc'[u] = "lock" <=> s_pc[u] = "lock")
                                       /\ (sync_ex_locker' = u <=> sync_ex_locker = u)
        BY <1>0, <2>1, <3>1 DEF S!TypeOK
      <4> QED
        BY <1>3, <4>1, OthersRead
    <3>3. S!Readers' \in {{}, {t}} /\ S!Writer' = NoThread
      BY <1>2, <2>1, <3>1, <3>2
    <3> QED
      BY <2>1, <3>3 DEF S!RW!LockNext, S!RW!EndWrite
  <2>3. CASE sync_ex_count # 1
    <3>1. UNCHANGED <<sync_ex_locker, sync_mode, s_pc>>
      BY <1>4, <2>3 DEF S!UnlockEX
    <3>2. S!Readers' \ {t} = S!Readers \ {t}
      BY <1>3, <3>1, OthersRead
    <3>3. t \notin S!Readers /\ t \notin S!Readers'
      BY <2>1, <3>1 DEF S!Readers
    <3>4. S!Readers' = S!Readers /\ S!Writer' = S!Writer
      BY <3>1, <3>2, <3>3 DEF S!Writer
    <3> QED
      BY <3>4 DEF S!RW!lockvars
  <2> QED
    BY <2>2, <2>3
<1>5. CASE S!UnlockSH(t)
  <2>1. /\ sync_mode = "SH" /\ sync_ex_locker' = sync_ex_locker /\ sync_mode' \in {"SH", "UN"}
        /\ s_pc' = s_pc \/ s_pc' = [s_pc EXCEPT ![t] = "wake"]
    BY <1>5 DEF S!UnlockSH
  <2>2. S!Writer = NoThread /\ S!Writer' = NoThread /\ sync_ex_locker = NoThread
    BY <1>2, <2>1
  <2>3. S!Readers' \ {t} = S!Readers \ {t}
    <3>1. \A u \in Thread : u # t => (s_pc'[u] = "lock" <=> s_pc[u] = "lock")
      BY <1>0, <2>1 DEF S!TypeOK
    <3> QED
      BY <1>3, <2>1, <3>1, OthersRead
  <2>4. t \in S!Readers
    BY <1>0, <1>1, <2>2 DEF S!Readers
  <2>5. S!Readers' = S!Readers \/ S!Readers' = S!Readers \ {t}
    BY <2>3, <2>4
  <2> QED
    BY <2>2, <2>5 DEF S!RW!LockNext, S!RW!EndRead, S!RW!lockvars
<1>6. CASE S!UnlockFails(t)
  <2>1. s_pc'[t] = "error"
    BY <1>0, <1>6 DEF S!UnlockFails, S!TypeOK
  <2> QED
    BY <2>1 DEF SyncInv, Waiting
<1> QED
  BY <1>1, <1>4, <1>5, <1>6

\* Every step is one of the abstract lock or none.
LEMMA SyncRefines ==
  ASSUME SyncConstants, SyncInv, SyncInv', [S!Next]_(S!vars)
  PROVE  [S!RW!LockNext]_(S!RW!lockvars)
<1>0. S!TypeOK
  BY DEF SyncInv
<1>1. ASSUME NEW t \in Thread, NEW m \in {"SH", "EX"}, S!Locks(t, m)
      PROVE  [S!RW!LockNext]_(S!RW!lockvars)
  <2>1. /\ t \in Thread \ stopped /\ S!Granted(t, m) /\ S!Grant(t, m) /\ Gains(t, m)
        /\ s_pc' = [s_pc EXCEPT ![t] = "run"]
    BY <1>1 DEF S!Locks, Gains
  <2> QED
    BY <2>1, GrantRefines
<1>2. ASSUME NEW t \in Thread, NEW m \in {"SH", "EX"}, S!sync_try_lock(t, m)
      PROVE  [S!RW!LockNext]_(S!RW!lockvars)
  <2>1. /\ t \in Thread \ stopped /\ S!Granted(t, sync_mode) /\ S!Grant(t, sync_mode) /\ Gains(t, m)
        /\ sync_mode \in {"SH", "EX"}
    BY <1>0, <1>2 DEF S!sync_try_lock, Gains, S!TypeOK
  <2>2. s_pc' = [s_pc EXCEPT ![t] = "run"]
    BY <1>0, <1>2 DEF S!sync_try_lock, S!TypeOK
  <2> QED
    BY <2>1, <2>2, GrantRefines
<1>3. ASSUME NEW t \in Thread, NEW m \in {"SH", "EX"}, S!Waits(t, m)
      PROVE  [S!RW!LockNext]_(S!RW!lockvars)
  <2>1. /\ s_pc' = [s_pc EXCEPT ![t] = "lock"] /\ held' = held
        /\ sync_mode' = sync_mode /\ sync_ex_locker' = sync_ex_locker
    BY <1>3 DEF S!Waits
  <2>2. s_pc'[t] = "lock" /\ \A u \in Thread : u # t => s_pc'[u] = s_pc[u]
    BY <1>0, <2>1 DEF S!TypeOK
  <2>3. S!Readers' \ {t} = S!Readers \ {t}
    BY <2>1, <2>2, OthersRead
  <2>4. t \notin S!Readers'
    BY <2>2 DEF S!Readers
  <2>5. S!Readers' = S!Readers \ {t} /\ S!Writer' = S!Writer
    BY <2>1, <2>3, <2>4 DEF S!Writer
  <2> QED
    BY <2>5 DEF S!RW!LockNext, S!RW!EndRead
<1>4. ASSUME NEW t \in Thread, S!Wake(t) PROVE [S!RW!LockNext]_(S!RW!lockvars)
  <2>1. /\ held' = held /\ sync_mode' = sync_mode /\ sync_ex_locker' = sync_ex_locker
        /\ \A u \in Thread : s_pc'[u] = "lock" <=> s_pc[u] = "lock"
    BY <1>0, <1>4 DEF S!Wake, S!lock_state, S!TypeOK
  <2>2. S!Readers' = S!Readers /\ S!Writer' = S!Writer
    BY <2>1 DEF S!Readers, S!Writer
  <2> QED
    BY <2>2 DEF S!RW!lockvars
<1>5. CASE UNCHANGED S!vars
  BY <1>5 DEF S!vars, S!lock_state, S!RW!lockvars, S!Readers, S!Writer
<1> QED
  BY <1>1, <1>2, <1>3, <1>4, <1>5, UnlockRefines DEF S!Next

\* At first nobody has the lock.
LEMMA InitRefines == ASSUME SyncConstants, S!Init PROVE S!RW!LockInit
BY DEF S!Init, S!RW!LockInit, S!Readers, S!Writer

\* Sync_m of lib/sync.rb: a thread that was granted EX is alone, but for threads that
\* wait to upgrade; a step of it is one of the readers-writer lock, or none.
THEOREM SyncIsRWLock == S!Spec => S!IsRWLock
<1>1. S!Init => SyncInv /\ S!RW!LockInit
  BY SyncConstantsHold, SyncInit, InitRefines
<1>2. SyncInv /\ [S!Next]_(S!vars) => SyncInv'
  BY SyncConstantsHold, SyncStep
<1>3. SyncInv /\ SyncInv' /\ [S!Next]_(S!vars) => [S!RW!LockNext]_(S!RW!lockvars)
  BY SyncConstantsHold, SyncRefines
<1> QED
  BY <1>1, <1>2, <1>3, PTL DEF S!Spec, S!IsRWLock, S!RW!LockSpec

-----------------------------------------------------------------------------
(***************************************************************************)
(* Load is used in MCLib with other constants.                             *)
(***************************************************************************)

LP == INSTANCE LoadProofs WITH Thread <- Loaders, File <- Files, Const <- {"B"}, Text <- Texts,
                               Home <- [c \in {"B"} |-> "b"]

\* Its loading is the one of LoadProofs.
LEMMA LoadSame ==
  /\ L!Init <=> LP!Init
  /\ L!Next <=> LP!Next
  /\ L!vars = LP!vars
  /\ LP!TypeOK /\ LP!OneLoader /\ LP!EvaluatedOnce /\ LP!LooksAfter => OneLoader
<1>1. ASSUME NEW t PROVE L!Outside(t) <=> LP!Outside(t)
  BY DEF L!Outside, LP!Outside, L!Runs, LP!Runs
<1>2. ASSUME NEW s PROVE L!Last(s) = LP!Last(s) /\ L!Front(s) = LP!Front(s) /\ L!Back(s) = LP!Back(s)
  BY DEF L!Last, LP!Last, L!Front, LP!Front, L!Back, LP!Back
<1>3. ASSUME NEW t PROVE L!top(t) = LP!top(t) /\ L!step(t) = LP!step(t) /\ (L!Runs(t) <=> LP!Runs(t))
  BY <1>2 DEF L!top, LP!top, L!step, LP!step, L!Runs, LP!Runs
<1>4. ASSUME NEW t, NEW op PROVE L!AtStep(t, op) <=> LP!AtStep(t, op)
  BY <1>3 DEF L!AtStep, LP!AtStep, L!Evaluates, LP!Evaluates
<1>5. L!table = LP!table /\ L!vars = LP!vars
  BY DEF L!table, LP!table, L!vars, LP!vars
<1>6. ASSUME NEW t PROVE L!Raise(t) <=> LP!Raise(t)
  BY DEF L!Raise, LP!Raise
<1>7. ASSUME NEW t, NEW f, NEW s
      PROVE  /\ L!Loader(t, f, s) <=> LP!Loader(t, f, s)
             /\ L!f_require(t, f, s) <=> LP!f_require(t, f, s)
  <2>1. L!TakeOver(t, f, s) <=> LP!TakeOver(t, f, s)
    BY DEF L!TakeOver, LP!TakeOver, L!Act, LP!Act
  <2>2. L!Loader(t, f, s) <=> LP!Loader(t, f, s)
    BY <1>2, <2>1 DEF L!Loader, LP!Loader, L!rb_provided, LP!rb_provided
  <2>3. L!thread_loading(t, f, s) <=> LP!thread_loading(t, f, s)
    BY <2>1, <2>2 DEF L!thread_loading, LP!thread_loading, L!Act, LP!Act
  <2> QED
    BY <1>2, <1>6, <2>2, <2>3 DEF L!f_require, LP!f_require, L!rb_provided, LP!rb_provided
<1>8. ASSUME NEW t, NEW c, NEW s PROVE L!rb_const_get(t, c, s) <=> LP!rb_const_get(t, c, s)
  BY <1>2, <1>6, <1>7 DEF L!rb_const_get, LP!rb_const_get, L!Act, LP!Act
<1>9. ASSUME NEW t
      PROVE  /\ L!Spins(t) <=> LP!Spins(t)
             /\ L!Finish(t) <=> LP!Finish(t)
             /\ L!Unwind(t) <=> LP!Unwind(t)
             /\ L!Rescue(t) <=> LP!Rescue(t)
  <2>1. L!thread_loading_done <=> LP!thread_loading_done
    BY DEF L!thread_loading_done, LP!thread_loading_done
  <2>2. L!Spins(t) <=> LP!Spins(t)
    BY <1>2, <1>3, <1>7 DEF L!table, LP!table, L!Spins, LP!Spins
  <2>3. L!Finish(t) <=> LP!Finish(t)
    BY <1>2, <1>3, <2>1 DEF L!table, LP!table, L!Finish, LP!Finish, L!Evaluates, LP!Evaluates,
                            L!rb_provide, LP!rb_provide
  <2>4. L!Unwind(t) <=> LP!Unwind(t)
    BY <1>2, <1>3, <2>1 DEF L!table, LP!table, L!Unwind, LP!Unwind
  <2>5. L!Rescue(t) <=> LP!Rescue(t)
    BY <1>2, <1>3 DEF L!table, LP!table, L!Rescue, LP!Rescue
  <2> QED
    BY <2>2, <2>3, <2>4, <2>5
<1>10. ASSUME NEW t
       PROVE  /\ L!StepRequire(t) <=> LP!StepRequire(t)
              /\ L!StepUse(t) <=> LP!StepUse(t)
              /\ L!LookAgain(t) <=> LP!LookAgain(t)
              /\ L!Define(t) <=> LP!Define(t)
  <2>1. L!StepRequire(t) <=> LP!StepRequire(t)
    BY <1>3, <1>4, <1>7 DEF L!table, LP!table, L!StepRequire, LP!StepRequire
  <2>2. L!StepUse(t) <=> LP!StepUse(t)
    BY <1>3, <1>4, <1>8 DEF L!StepUse, LP!StepUse
  <2>3. L!LookAgain(t) <=> LP!LookAgain(t)
    BY <1>2, <1>3, <1>8 DEF L!LookAgain, LP!LookAgain
  <2>4. L!Define(t) <=> LP!Define(t)
    BY <1>2, <1>3, <1>4 DEF L!Define, LP!Define
  <2> QED
    BY <2>1, <2>2, <2>3, <2>4
<1>11. ASSUME NEW t
       PROVE  /\ L!CallRequire(t) <=> LP!CallRequire(t)
              /\ L!CallLoad(t) <=> LP!CallLoad(t)
              /\ L!CallUse(t) <=> LP!CallUse(t)
              /\ L!f_autoload(t) <=> LP!f_autoload(t)
  <2>1. L!CallRequire(t) <=> LP!CallRequire(t)
    BY <1>1, <1>7 DEF L!table, LP!table, L!CallRequire, LP!CallRequire
  <2>2. L!CallLoad(t) <=> LP!CallLoad(t)
    BY <1>1, <1>6 DEF L!table, LP!table, L!CallLoad, LP!CallLoad, L!Act, LP!Act
  <2>3. L!CallUse(t) <=> LP!CallUse(t)
    BY <1>1, <1>8 DEF L!CallUse, LP!CallUse
  <2>4. L!f_autoload(t) <=> LP!f_autoload(t)
    BY <1>1 DEF L!f_autoload, LP!f_autoload
  <2> QED
    BY <2>1, <2>2, <2>3, <2>4
<1>12. ASSUME NEW t
       PROVE  /\ L!Fails(t) <=> LP!Fails(t)
              /\ L!Start(t) <=> LP!Start(t)
              /\ L!Ends(t) <=> LP!Ends(t)
  BY <1>3 DEF L!table, LP!table, L!Fails, LP!Fails, L!Start, LP!Start, L!Ends, LP!Ends
<1>13. L!Next <=> LP!Next
  BY <1>9, <1>10, <1>11, <1>12 DEF L!Next, LP!Next, L!Goes, LP!Goes
<1>14. L!Init <=> LP!Init
  BY DEF L!Init, LP!Init
<1>15. L!TypeOK <=> LP!TypeOK
  BY DEF L!TypeOK, LP!TypeOK, L!Kind, LP!Kind
<1>16. L!OneLoader <=> LP!OneLoader
  BY DEF L!OneLoader, LP!OneLoader, L!Loads, LP!Loads, L!Cardinality, LP!Cardinality
<1>17. (L!EvaluatedOnce <=> LP!EvaluatedOnce) /\ (L!LooksAfter <=> LP!LooksAfter)
  BY <1>3 DEF L!EvaluatedOnce, LP!EvaluatedOnce, L!LooksAfter, LP!LooksAfter, L!rb_provided,
              LP!rb_provided
<1> QED
  BY <1>5, <1>13, <1>14, <1>15, <1>16, <1>17 DEF OneLoader

\* No file of MCLib requires itself.
LEMMA LoadConstantsHold == LP!LoadConstants
<1> DEFINE rank == [f \in Files |-> IF f = "a" THEN 0 ELSE 1]
           home == [c \in {"B"} |-> "b"]
<1>1. /\ Texts["a"] = <<[op |-> "require", arg |-> "b"], [op |-> "use", arg |-> "B"]>>
      /\ Texts["b"] = <<[op |-> "define", arg |-> "B"]>>
      /\ \A f \in Files : f = "a" \/ f = "b"
  BY DEF Texts, Files
<1>2. Len(Texts["a"]) = 2 /\ Len(Texts["b"]) = 1
  BY <1>1
<1>3. /\ Texts["a"][1] = [op |-> "require", arg |-> "b"]
      /\ Texts["a"][2] = [op |-> "use", arg |-> "B"]
      /\ Texts["b"][1] = [op |-> "define", arg |-> "B"]
  BY <1>1
<1>4. (\A i \in 1 .. 2 : i = 1 \/ i = 2) /\ (\A i \in 1 .. 1 : i = 1)
  OBVIOUS
<1>5. rank \in [Files -> Nat] /\ rank["a"] = 0 /\ rank["b"] = 1
  BY DEF Files
<1>6. home \in [{"B"} -> Files] /\ home["B"] = "b"
  BY DEF Files
<1> HIDE DEF rank, home
<1>7. ASSUME NEW f \in Files, NEW i \in 1 .. Len(Texts[f])
      PROVE  /\ Texts[f][i].op = "require" => Texts[f][i].arg \in Files
             /\ Texts[f][i].op \in {"define", "use"} => Texts[f][i].arg \in {"B"}
             /\ Texts[f][i].op = "require" => rank[Texts[f][i].arg] > rank[f]
             /\ Texts[f][i].op = "use" => rank[home[Texts[f][i].arg]] > rank[f]
  <2>1. CASE f = "a" /\ i = 1
    BY <1>3, <1>5, <2>1 DEF Files
  <2>2. CASE f = "a" /\ i = 2
    BY <1>3, <1>5, <1>6, <2>2
  <2>3. CASE f = "b" /\ i = 1
    BY <1>3, <1>5, <2>3
  <2> QED
    BY <1>1, <1>2, <1>4, <1>7, <2>1, <2>2, <2>3
<1>8. LP!Ascending(rank)
  BY <1>7 DEF LP!Ascending, home
<1> QED
  BY <1>5, <1>6, <1>7, <1>8, LibAssumption DEF LP!LoadConstants, home

-----------------------------------------------------------------------------
(***************************************************************************)
(* A step of MCLib is one of Mutex, Queue, Sync or Load.                   *)
(***************************************************************************)

LibInv == MutexInv /\ QueueInv /\ SyncInv /\ LP!LoadInv

Lib == <<which, vars, qvars, svars, lvars>>

\* A step of the library is a step of each part, or leaves it alone.
LEMMA StepOfOne ==
  ASSUME [LibNext]_Lib
  PROVE  [Next]_vars /\ [Q!Next]_(Q!vars) /\ [S!Next]_(S!vars) /\ [LP!Next]_(LP!vars)
<1>1. /\ UNCHANGED qvars => UNCHANGED Q!vars
      /\ UNCHANGED svars => UNCHANGED S!vars
      /\ UNCHANGED lvars => UNCHANGED LP!vars
  BY DEF Q!vars, qvars, S!vars, S!queues, S!lock_state, svars, LP!vars, lvars
<1>2. CASE LibNext
  <2>1. CASE Next /\ UNCHANGED <<qvars, svars, lvars>>
    BY <1>1, <2>1
  <2>2. CASE Q!Next /\ UNCHANGED <<vars, svars, lvars>>
    BY <1>1, <2>2
  <2>3. CASE S!Next /\ UNCHANGED <<vars, qvars, lvars>>
    BY <1>1, <2>3
  <2>4. CASE L!Next /\ UNCHANGED <<vars, qvars, svars>>
    BY <1>1, <2>4, LoadSame
  <2> QED
    BY <1>2, <2>1, <2>2, <2>3, <2>4 DEF LibNext
<1>3. CASE UNCHANGED Lib
  BY <1>1, <1>3 DEF Lib
<1> QED
  BY <1>2, <1>3

\* The invariants of the parts hold at first.
LEMMA LibInvInit == LibInit => LibInv
<1> SUFFICES ASSUME LibInit PROVE LibInv
  OBVIOUS
<1>1. MutexInv
  BY MutexInit DEF LibInit
<1>2. QueueInv
  BY QueueInit DEF LibInit
<1>3. SyncInv
  BY SyncConstantsHold, SyncInit DEF LibInit
<1>4. LP!LoadInv
  BY LoadSame, LoadConstantsHold, LP!LoadInit DEF LibInit
<1> QED
  BY <1>1, <1>2, <1>3, <1>4 DEF LibInv

\* Every step keeps them.
LEMMA LibInvStep == LibInv /\ [LibNext]_Lib => LibInv'
<1> SUFFICES ASSUME LibInv, [LibNext]_Lib PROVE LibInv'
  OBVIOUS
<1>1. [Next]_vars /\ [Q!Next]_(Q!vars) /\ [S!Next]_(S!vars) /\ [LP!Next]_(LP!vars)
  BY StepOfOne
<1>2. MutexInv'
  BY <1>1, MutexStep DEF LibInv
<1>3. QueueInv'
  BY <1>1, QueueStep DEF LibInv
<1>4. SyncInv'
  BY <1>1, SyncConstantsHold, SyncStep DEF LibInv
<1>5. LP!LoadInv'
  BY <1>1, LoadConstantsHold, LP!LoadStep DEF LibInv
<1> QED
  BY <1>2, <1>3, <1>4, <1>5 DEF LibInv

\* They say what the runs check.
LEMMA LibSays == LibInv => LocksAgree /\ Fifo /\ OneLoader
<1> SUFFICES ASSUME LibInv PROVE LocksAgree /\ Fifo /\ OneLoader
  OBVIOUS
<1>1. TypeOK /\ WaitersKnown
  BY DEF LibInv, MutexInv
<1>2. S!TypeOK /\ S!CountsAgree /\ S!WaitersKnown
  BY SyncConstantsHold, SyncCounts, SyncWaiters DEF LibInv, SyncInv
<1>3. Fifo
  BY DEF LibInv, QueueInv, Fifo
<1>4. OneLoader
  BY LoadSame, LP!LoadType DEF LibInv, LP!LoadInv
<1> QED
  BY <1>1, <1>2, <1>3, <1>4 DEF LocksAgree

\* Whoever waits for a Mutex or for Sync_m is known to the thread that will unlock it,
\* and the counts of Sync_m are those of its holders (lib/thread.rb, lib/sync.rb).
THEOREM LibLocks == LibSpec => []LocksAgree
BY LibInvInit, LibInvStep, LibSays, PTL DEF LibSpec, Lib

\* Items leave a Queue in the order they came, and none lies there while somebody
\* waits for it (lib/thread.rb).
THEOREM LibFifo == LibSpec => []Fifo
BY LibInvInit, LibInvStep, LibSays, PTL DEF LibSpec, Lib

\* One thread at a time loads what is required, a file is evaluated to its end once, and
\* before a constant is looked up again (f_require, eval.c; rb_const_get, variable.c).
THEOREM LibLoads == LibSpec => []OneLoader
BY LibInvInit, LibInvStep, LibSays, PTL DEF LibSpec, Lib

\* Mutex is a lock: a step of it is one of the readers-writer lock without readers.
THEOREM LibIsLock == LibSpec => IsLock
<1>1. LibInit => Lock!LockInit
  <2> SUFFICES ASSUME LibInit PROVE Lock!LockInit
    OBVIOUS
  <2>1. At({"owner"}) = {}
    BY DEF LibInit, Init, At
  <2>2. MutexInv
    BY MutexInit DEF LibInit
  <2> QED
    BY <2>1, <2>2, OwnerIs DEF Lock!LockInit, MutexInv
<1>2. LibInv /\ LibInv' /\ [LibNext]_Lib => [Lock!LockNext]_(Lock!lockvars)
  BY StepOfOne, MutexRefines DEF LibInv
<1> QED
  BY <1>1, <1>2, LibInvInit, LibInvStep, PTL DEF LibSpec, Lib, IsLock, Lock!LockSpec

\* Sync_m is a readers-writer lock: a writer is alone, but for threads that gave their
\* lock up to upgrade it.
THEOREM LibIsRWLock == LibSpec => IsRWLock
<1>1. LibInit => S!RW!LockInit
  BY SyncConstantsHold, InitRefines DEF LibInit
<1>2. LibInv /\ LibInv' /\ [LibNext]_Lib => [S!RW!LockNext]_(S!RW!lockvars)
  BY StepOfOne, SyncConstantsHold, SyncRefines DEF LibInv
<1> QED
  BY <1>1, <1>2, LibInvInit, LibInvStep, PTL
     DEF LibSpec, Lib, IsRWLock, S!IsRWLock, S!RW!LockSpec
=============================================================================
