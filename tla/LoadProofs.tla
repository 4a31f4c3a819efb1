----------------------------- MODULE LoadProofs ------------------------------
(***************************************************************************)
(* Proofs about require, load and autoload of eval.c and variable.c, for   *)
(* any set of threads and of files that do not require themselves: one     *)
(* thread loads at a time, and a file is evaluated once.                   *)
(***************************************************************************)
EXTENDS Load, FiniteSetTheorems, SequenceTheorems, TLAPS

\* The steps of a file lead to files of a higher rank.
Ascending(rank) ==
  \A f \in File : \A i \in 1 .. Len(Text[f]) :
    /\ Text[f][i].op = "require" => rank[Text[f][i].arg] > rank[f]
    /\ Text[f][i].op = "use" => rank[Home[Text[f][i].arg]] > rank[f]

\* What is assumed of the constants: types, and that no file requires itself.
LoadConstants ==
  /\ NoThread \notin Thread /\ Main \in Thread
  /\ \A f \in File : \A i \in 1 .. Len(Text[f]) :
       /\ Text[f][i].op = "require" => Text[f][i].arg \in File
       /\ Text[f][i].op \in {"define", "use"} => Text[f][i].arg \in Const
  /\ Home \in [Const -> File]
  /\ \E rank \in [File -> Nat] : Ascending(rank)

Rank == CHOOSE rank \in [File -> Nat] : Ascending(rank)

-----------------------------------------------------------------------------
(***************************************************************************)
(* The inductive invariant.                                                *)
(***************************************************************************)

Activation == [kind : Kind, file : File \cup Const, pos : Nat]

\* The rank of the file that an activation is about.
Level(a) == IF a.kind = "const" THEN Rank[Home[a.file]] ELSE Rank[a.file]

\* f_require(f) or its wait may come on top of the activation a.
Under(a, f) == Level(a) < Rank[f] \/ (a.kind = "const" /\ Home[a.file] = f)

\* The activations of a thread, innermost last: behind rb_const_get() there is the
\* file it loads, and files of a higher rank further on.
Stack(s) ==
  /\ s \in Seq(Activation)
  /\ \A i \in 1 .. Len(s) :
       /\ s[i].kind = "const" => s[i].file \in Const
       /\ s[i].kind # "const" => s[i].file \in File
       /\ s[i].kind \in {"require", "load"} => s[i].pos > 0
  /\ \A i, j \in 1 .. Len(s) : i < j =>
       \/ Level(s[i]) < Level(s[j])
       \/ s[i].kind = "const" /\ j = i + 1
  /\ \A i \in 1 .. Len(s) : s[i].kind = "const" /\ i + 1 \in 1 .. Len(s) =>
       s[i + 1].kind \in {"require", "wait"} /\ s[i + 1].file = Home[s[i].file]

LoadsOf(s) == {i \in 1 .. Len(s) : s[i].kind = "require"}

Types ==
  /\ live \subseteq Thread /\ rb_features \subseteq File
  /\ loading_thread \in Thread \cup {NoThread} /\ loading_nest \in Nat
  /\ autoload_tbl \subseteq Const /\ consts \subseteq Const
  /\ DOMAIN acts = Thread
  /\ jump \in [Thread -> {"none", "raise", "kill"}]
  /\ evals \in [File -> Nat]

Stacks == \A t \in Thread : Stack(acts[t]) /\ (t \notin live => acts[t] = <<>>)

\* A file is not provided while it is evaluated for require.
Unprovided ==
  \A t \in Thread : \A i \in LoadsOf(acts[t]) : acts[t][i].file \notin rb_features

LoadInv == Types /\ Stacks /\ OneLoader /\ Unprovided /\ EvaluatedOnce /\ LooksAfter

-----------------------------------------------------------------------------
(***************************************************************************)
(* Stacks of activations.                                                  *)
(***************************************************************************)

\* The ranks of files are numbers, and steps lead to higher ones.
LEMMA RankIs == ASSUME LoadConstants PROVE Rank \in [File -> Nat] /\ Ascending(Rank)
BY DEF LoadConstants, Rank

\* A thread without activations is well formed and loads nothing.
LEMMA StackEmpty == Stack(<<>>) /\ LoadsOf(<<>>) = {}
BY EmptySeq DEF Stack, LoadsOf

\* What Stack says of one activation.
LEMMA StackElement ==
  ASSUME NEW s, Stack(s), NEW i \in 1 .. Len(s)
  PROVE  /\ s[i] \in Activation /\ s[i].kind \in Kind /\ s[i].pos \in Nat
         /\ s[i] = [kind |-> s[i].kind, file |-> s[i].file, pos |-> s[i].pos]
         /\ s[i].kind = "const" => s[i].file \in Const
         /\ s[i].kind # "const" => s[i].file \in File
         /\ s[i].kind \in {"require", "load"} => s[i].pos > 0
<1>1. s[i] \in Activation
  BY ElementOfSeq DEF Stack
<1>2. /\ s[i].kind \in Kind /\ s[i].pos \in Nat
      /\ s[i] = [kind |-> s[i].kind, file |-> s[i].file, pos |-> s[i].pos]
  BY <1>1 DEF Activation
<1>3. /\ s[i].kind = "const" => s[i].file \in Const
      /\ s[i].kind # "const" => s[i].file \in File
      /\ s[i].kind \in {"require", "load"} => s[i].pos > 0
  BY DEF Stack
<1> QED
  BY <1>1, <1>2, <1>3

\* The last activation is the one at the length of the stack.
LEMMA StackLen ==
  ASSUME NEW s, Stack(s)
  PROVE  /\ Len(s) \in Nat /\ DOMAIN s = 1 .. Len(s) /\ s \in Seq(Activation)
         /\ s = <<>> <=> Len(s) = 0
         /\ s # <<>> => Len(s) \in 1 .. Len(s) /\ Last(s) = s[Len(s)]
<1>1. s \in Seq(Activation)
  BY DEF Stack
<1> QED
  BY <1>1, LenProperties, EmptySeq DEF Last

\* Two stacks whose activations are alike, but for the steps they are at.
Alike(r, s) ==
  /\ Len(r) = Len(s)
  /\ \A i \in 1 .. Len(s) : /\ r[i].kind = s[i].kind /\ r[i].file = s[i].file
                            /\ r[i].pos \in Nat /\ r[i].pos >= s[i].pos

\* A stack that differs in its steps only is as well formed.
LEMMA AlikeStack ==
  ASSUME NEW s, Stack(s), NEW r \in Seq(Activation), Alike(r, s)
  PROVE  Stack(r) /\ LoadsOf(r) = LoadsOf(s)
<1>1. /\ Len(r) = Len(s) /\ Len(s) \in Nat
      /\ \A i \in 1 .. Len(s) : r[i].kind = s[i].kind /\ r[i].file = s[i].file
      /\ \A i \in 1 .. Len(s) : s[i].pos \in Nat /\ r[i].pos \in Nat /\ r[i].pos >= s[i].pos
  BY StackLen, StackElement DEF Alike
<1>2. \A i \in 1 .. Len(s) : Level(r[i]) = Level(s[i])
  BY <1>1 DEF Level
<1>3. \A i \in 1 .. Len(s) :
       /\ r[i].kind = "const" => r[i].file \in Const
       /\ r[i].kind # "const" => r[i].file \in File
       /\ r[i].kind \in {"require", "load"} => r[i].pos > 0
  <2> SUFFICES ASSUME NEW i \in 1 .. Len(s)
               PROVE  /\ r[i].kind = "const" => r[i].file \in Const
                      /\ r[i].kind # "const" => r[i].file \in File
                      /\ r[i].kind \in {"require", "load"} => r[i].pos > 0
    OBVIOUS
  <2>1. /\ s[i].kind = "const" => s[i].file \in Const
        /\ s[i].kind # "const" => s[i].file \in File
        /\ s[i].kind \in {"require", "load"} => s[i].pos > 0
    BY StackElement
  <2>2. r[i].kind \in {"require", "load"} => r[i].pos > 0
    BY <1>1, <2>1
  <2> QED
    BY <1>1, <2>1, <2>2
<1>4. \A i, j \in 1 .. Len(r) : i < j =>
       \/ Level(r[i]) < Level(r[j])
       \/ r[i].kind = "const" /\ j = i + 1
  BY <1>1, <1>2 DEF Stack
<1>5. \A i \in 1 .. Len(r) : r[i].kind = "const" /\ i + 1 \in 1 .. Len(r) =>
       r[i + 1].kind \in {"require", "wait"} /\ r[i + 1].file = Home[r[i].file]
  BY <1>1 DEF Stack
<1> QED
  BY <1>1, <1>3, <1>4, <1>5 DEF Stack, LoadsOf

\* A call returned.
LEMMA BackIs ==
  ASSUME NEW s, Stack(s)
  PROVE  /\ Stack(Back(s)) /\ Alike(Back(s), s) /\ LoadsOf(Back(s)) = LoadsOf(s)
         /\ Back(s) = <<>> <=> s = <<>>
<1>1. /\ Len(s) \in Nat /\ DOMAIN s = 1 .. Len(s) /\ s \in Seq(Activation)
      /\ s = <<>> <=> Len(s) = 0
      /\ s # <<>> => Len(s) \in 1 .. Len(s) /\ Last(s) = s[Len(s)]
  BY StackLen
<1>2. Back(s) \in Seq(Activation) /\ Alike(Back(s), s)
  <2>1. CASE s # <<>> /\ Last(s).kind \in {"require", "load"}
    <3> DEFINE n == Len(s)
               e == [kind |-> s[n].kind, file |-> s[n].file, pos |-> s[n].pos + 1]
    <3>1. /\ s[n] = [kind |-> s[n].kind, file |-> s[n].file, pos |-> s[n].pos]
          /\ s[n].kind \in Kind /\ s[n].file \in File \cup Const /\ s[n].pos \in Nat
          /\ n \in 1 .. n
      BY <1>1, <2>1, StackElement
    <3>2. e \in Activation
      BY <3>1 DEF Activation
    <3>3. [s[n] EXCEPT !.pos = @ + 1] = e
      BY <3>1
    <3>4. Back(s) = [s EXCEPT ![n] = e]
      BY <2>1, <3>3 DEF Back
    <3>5. [s EXCEPT ![n] = e] \in Seq(Activation) /\ Len([s EXCEPT ![n] = e]) = n
          /\ [s EXCEPT ![n] = e][n] = e
          /\ \A i \in 1 .. n : i # n => [s EXCEPT ![n] = e][i] = s[i]
      <4> HIDE DEF e
      <4> QED
        BY <1>1, <3>1, <3>2, ExceptSeq
    <3>6. \A i \in 1 .. n : s[i].pos \in Nat
      BY StackElement
    <3> QED
      BY <1>1, <3>1, <3>4, <3>5, <3>6 DEF Alike
  <2>2. CASE ~(s # <<>> /\ Last(s).kind \in {"require", "load"})
    <3>1. Back(s) = s
      BY <2>2 DEF Back
    <3>2. \A i \in 1 .. Len(s) : s[i].pos \in Nat
      BY StackElement
    <3> QED
      BY <1>1, <3>1, <3>2 DEF Alike
  <2> QED
    BY <2>1, <2>2
<1>3. Stack(Back(s)) /\ LoadsOf(Back(s)) = LoadsOf(s)
  BY <1>2, AlikeStack
<1>4. Len(Back(s)) = Len(s)
  BY <1>2 DEF Alike
<1>5. Back(s) = <<>> <=> Len(Back(s)) = 0
  BY <1>3, StackLen
<1> QED
  BY <1>1, <1>2, <1>3, <1>4, <1>5

\* The innermost activation is left.
LEMMA FrontIs ==
  ASSUME NEW s, Stack(s), s # <<>>
  PROVE  /\ Stack(Front(s)) /\ Len(s) \in Nat /\ Len(s) > 0 /\ Len(Front(s)) = Len(s) - 1
         /\ \A i \in 1 .. Len(s) - 1 : Front(s)[i] = s[i]
         /\ LoadsOf(Front(s)) = LoadsOf(s) \ {Len(s)}
<1>1. Len(s) \in Nat /\ Len(s) > 0 /\ s \in Seq(Activation)
  BY StackLen
<1> DEFINE n == Len(s) - 1
           u == SubSeq(s, 1, n)
<1>2. Front(s) = u
  BY DEF Front
<1>3. /\ u \in Seq(Activation) /\ Len(u) = IF 1 <= n THEN n - 1 + 1 ELSE 0
      /\ \A i \in 1 .. n - 1 + 1 : u[i] = s[1 + i - 1]
  <2>1. n \in Int /\ \A i \in 1 .. n : s[i] \in Activation
    BY <1>1
  <2> HIDE DEF n
  <2> QED
    BY <2>1, SubSeqProperties
<1> HIDE DEF u
<1>4. Len(u) = n
  <2>1. \A k \in Nat : k > 0 => (IF 1 <= k - 1 THEN (k - 1) - 1 + 1 ELSE 0) = k - 1
    OBVIOUS
  <2> QED
    BY <1>1, <1>3, <2>1, Zenon
<1>5. \A i \in 1 .. n : u[i] = s[i]
  <2> TAKE i \in 1 .. n
  <2>1. i \in 1 .. n - 1 + 1 /\ 1 + i - 1 = i
    BY <1>1
  <2> QED
    BY <1>3, <2>1
<1>6. \A i \in 1 .. n : i \in 1 .. Len(s)
  BY <1>1
<1>7. Stack(u)
  <2>1. \A i \in 1 .. n :
         /\ u[i].kind = "const" => u[i].file \in Const
         /\ u[i].kind # "const" => u[i].file \in File
         /\ u[i].kind \in {"require", "load"} => u[i].pos > 0
    BY <1>5, <1>6, StackElement
  <2>2. \A i, j \in 1 .. n : i < j =>
         \/ Level(u[i]) < Level(u[j])
         \/ u[i].kind = "const" /\ j = i + 1
    BY <1>5, <1>6 DEF Stack
  <2>3. \A i \in 1 .. n : u[i].kind = "const" /\ i + 1 \in 1 .. n =>
         u[i + 1].kind \in {"require", "wait"} /\ u[i + 1].file = Home[u[i].file]
    BY <1>5, <1>6 DEF Stack
  <2> HIDE DEF n
  <2> QED
    BY <1>3, <1>4, <2>1, <2>2, <2>3 DEF Stack
<1>8. LoadsOf(u) = LoadsOf(s) \ {Len(s)}
  <2>1. \A i : i \in 1 .. n <=> i \in 1 .. Len(s) /\ i # Len(s)
    BY <1>1
  <2> HIDE DEF n
  <2> QED
    BY <1>4, <1>5, <2>1 DEF LoadsOf
<1> QED
  BY <1>1, <1>2, <1>4, <1>5, <1>7, <1>8

-----------------------------------------------------------------------------
(***************************************************************************)
(* What comes on top of a stack.                                           *)
(***************************************************************************)

\* r is s with the activation a on top.
Pushed(r, s, a) ==
  /\ r \in Seq(Activation) /\ Len(r) = Len(s) + 1
  /\ r[Len(s) + 1] = a
  /\ \A i \in 1 .. Len(s) : r[i] = s[i]

\* Append() pushes an activation.
LEMMA PushedIs ==
  ASSUME NEW s, Stack(s), NEW a \in Activation
  PROVE  Pushed(Append(s, a), s, a)
<1>1. s \in Seq(Activation)
  BY DEF Stack
<1> QED
  BY <1>1, AppendProperties DEF Pushed

\* f_require(f) may be called for the activations s.
Ready(s, f) ==
  /\ Stack(s)
  /\ \A i \in 1 .. Len(s) : Level(s[i]) < Rank[f] \/ (s[i].kind = "const" /\ i = Len(s))
  /\ s # <<>> /\ Last(s).kind = "const" => Home[Last(s).file] = f

\* f_require(f) comes on top where it may.
LEMMA PushFile ==
  ASSUME NEW f \in File, NEW s, Ready(s, f), NEW kind \in {"require", "wait"}, NEW pos \in Nat,
         kind = "require" => pos > 0,
         NEW r, Pushed(r, s, Act(kind, f, pos))
  PROVE  /\ Stack(r) /\ r # <<>> /\ Last(r) = Act(kind, f, pos)
         /\ LoadsOf(r) = IF kind = "require" THEN LoadsOf(s) \cup {Len(s) + 1} ELSE LoadsOf(s)
<1> DEFINE n == Len(s)
           a == Act(kind, f, pos)
<1>1. Stack(s) /\ Len(s) \in Nat
  BY StackLen DEF Ready
<1>2. a.kind = kind /\ a.file = f /\ a.pos = pos /\ Level(a) = Rank[f]
  BY DEF Act, Level
<1>3. /\ r \in Seq(Activation) /\ Len(r) = n + 1 /\ r[n + 1] = a
      /\ \A i \in 1 .. n : r[i] = s[i]
  BY DEF Pushed
<1> HIDE DEF a
<1>4. \A i \in 1 .. n + 1 : i \in 1 .. n \/ i = n + 1
  BY <1>1
<1>5. \A i \in 1 .. n + 1 :
       /\ r[i].kind = "const" => r[i].file \in Const
       /\ r[i].kind # "const" => r[i].file \in File
       /\ r[i].kind \in {"require", "load"} => r[i].pos > 0
  <2> SUFFICES ASSUME NEW i \in 1 .. n + 1
               PROVE  /\ r[i].kind = "const" => r[i].file \in Const
                      /\ r[i].kind # "const" => r[i].file \in File
                      /\ r[i].kind \in {"require", "load"} => r[i].pos > 0
    OBVIOUS
  <2>1. CASE i \in 1 .. n
    BY <1>1, <1>3, <2>1, StackElement
  <2>2. CASE i = n + 1
    BY <1>2, <1>3, <2>2
  <2> QED
    BY <1>4, <2>1, <2>2
<1>6. \A i, j \in 1 .. n + 1 : i < j =>
       \/ Level(r[i]) < Level(r[j])
       \/ r[i].kind = "const" /\ j = i + 1
  <2> SUFFICES ASSUME NEW i \in 1 .. n + 1, NEW j \in 1 .. n + 1, i < j
               PROVE  Level(r[i]) < Level(r[j]) \/ (r[i].kind = "const" /\ j = i + 1)
    OBVIOUS
  <2>1. i \in 1 .. n
    BY <1>1
  <2>2. CASE j \in 1 .. n
    BY <1>1, <1>3, <2>1, <2>2 DEF Stack
  <2>3. CASE j = n + 1
    BY <1>2, <1>3, <2>1, <2>3 DEF Ready
  <2> QED
    BY <1>4, <2>2, <2>3
<1>7. \A i \in 1 .. n + 1 : r[i].kind = "const" /\ i + 1 \in 1 .. n + 1 =>
       r[i + 1].kind \in {"require", "wait"} /\ r[i + 1].file = Home[r[i].file]
  <2> SUFFICES ASSUME NEW i \in 1 .. n + 1, r[i].kind = "const", i + 1 \in 1 .. n + 1
               PROVE  r[i + 1].kind \in {"require", "wait"} /\ r[i + 1].file = Home[r[i].file]
    OBVIOUS
  <2>1. i \in 1 .. n
    BY <1>1
  <2>2. CASE i + 1 \in 1 .. n
    BY <1>1, <1>3, <2>1, <2>2 DEF Stack
  <2>3. CASE i = n
    <3>1. s # <<>> /\ Last(s) = s[n]
      BY <1>1, <2>1, StackLen
    <3> QED
      BY <1>2, <1>3, <2>1, <2>3, <3>1 DEF Ready
  <2> QED
    BY <1>1, <2>1, <2>2, <2>3
<1>8. Stack(r)
  BY <1>3, <1>5, <1>6, <1>7 DEF Stack
<1>9. r # <<>> /\ Last(r) = a
  BY <1>1, <1>3, <1>8, StackLen
<1>10. LoadsOf(r) = IF kind = "require" THEN LoadsOf(s) \cup {n + 1} ELSE LoadsOf(s)
  BY <1>1, <1>2, <1>3, <1>4 DEF LoadsOf
<1> QED
  BY <1>8, <1>9, <1>10 DEF a

\* rb_const_get() for a constant whose file is of a higher rank.
LEMMA PushConst ==
  ASSUME NEW c \in Const, NEW s, Stack(s), s # <<>> => Last(s).kind # "const",
         \A i \in 1 .. Len(s) : Level(s[i]) < Rank[Home[c]],
         NEW r, Pushed(r, s, Act("const", c, 0))
  PROVE  Ready(r, Home[c]) /\ LoadsOf(r) = LoadsOf(s) /\ r # <<>>
<1> DEFINE n == Len(s)
           a == Act("const", c, 0)
<1>1. n \in Nat /\ \A i \in 1 .. n + 1 : i \in 1 .. n \/ i = n + 1
  BY StackLen
<1>2. a.kind = "const" /\ a.file = c /\ Level(a) = Rank[Home[c]]
  BY DEF Act, Level
<1>3. /\ r \in Seq(Activation) /\ Len(r) = n + 1 /\ r[n + 1] = a
      /\ \A i \in 1 .. n : r[i] = s[i]
  BY DEF Pushed
<1> HIDE DEF a
<1>4. \A i \in 1 .. n + 1 :
       /\ r[i].kind = "const" => r[i].file \in Const
       /\ r[i].kind # "const" => r[i].file \in File
       /\ r[i].kind \in {"require", "load"} => r[i].pos > 0
  <2> SUFFICES ASSUME NEW i \in 1 .. n + 1
               PROVE  /\ r[i].kind = "const" => r[i].file \in Const
                      /\ r[i].kind # "const" => r[i].file \in File
                      /\ r[i].kind \in {"require", "load"} => r[i].pos > 0
    OBVIOUS
  <2>1. CASE i \in 1 .. n
    BY <1>1, <1>3, <2>1, StackElement
  <2>2. CASE i = n + 1
    BY <1>2, <1>3, <2>2
  <2> QED
    BY <1>1, <2>1, <2>2
<1>5. \A i, j \in 1 .. n + 1 : i < j =>
       \/ Level(r[i]) < Level(r[j])
       \/ r[i].kind = "const" /\ j = i + 1
  <2> SUFFICES ASSUME NEW i \in 1 .. n + 1, NEW j \in 1 .. n + 1, i < j
               PROVE  Level(r[i]) < Level(r[j]) \/ (r[i].kind = "const" /\ j = i + 1)
    OBVIOUS
  <2>1. i \in 1 .. n
    BY <1>1
  <2>2. CASE j \in 1 .. n
    BY <1>1, <1>3, <2>1, <2>2 DEF Stack
  <2>3. CASE j = n + 1
    BY <1>2, <1>3, <2>1, <2>3
  <2> QED
    BY <1>1, <2>2, <2>3
<1>6. n > 0 => s[n].kind # "const"
  BY StackLen
<1>7. \A i \in 1 .. n + 1 : r[i].kind = "const" /\ i + 1 \in 1 .. n + 1 =>
       r[i + 1].kind \in {"require", "wait"} /\ r[i + 1].file = Home[r[i].file]
  <2> SUFFICES ASSUME NEW i \in 1 .. n + 1, r[i].kind = "const", i + 1 \in 1 .. n + 1
               PROVE  r[i + 1].kind \in {"require", "wait"} /\ r[i + 1].file = Home[r[i].file]
    OBVIOUS
  <2>1. i \in 1 .. n
    BY <1>1
  <2>2. i + 1 \in 1 .. n
    BY <1>1, <1>3, <1>6, <2>1
  <2> QED
    BY <1>3, <2>1, <2>2 DEF Stack
<1>8. Stack(r)
  BY <1>3, <1>4, <1>5, <1>7 DEF Stack
<1>9. r # <<>> /\ Last(r) = a
  BY <1>1, <1>3, <1>8, StackLen
<1>10. LoadsOf(r) = LoadsOf(s)
  BY <1>1, <1>2, <1>3 DEF LoadsOf
<1>11. \A i \in 1 .. n + 1 : Level(r[i]) < Rank[Home[c]] \/ (r[i].kind = "const" /\ i = n + 1)
  BY <1>1, <1>2, <1>3
<1> QED
  BY <1>2, <1>3, <1>8, <1>9, <1>10, <1>11 DEF Ready

\* An activation is about a file, which has a rank.
LEMMA LevelIs ==
  ASSUME LoadConstants, NEW s, Stack(s), NEW i \in 1 .. Len(s)
  PROVE  Level(s[i]) \in Nat
<1>1. Rank \in [File -> Nat] /\ Home \in [Const -> File]
  BY RankIs DEF LoadConstants
<1>2. s[i].kind = "const" => s[i].file \in Const
  BY StackElement
<1>3. s[i].kind # "const" => s[i].file \in File
  BY StackElement
<1> QED
  BY <1>1, <1>2, <1>3 DEF Level

\* The innermost activation is the one of the highest rank.
LEMMA TopIsHighest ==
  ASSUME LoadConstants, NEW s, Stack(s), s # <<>>
  PROVE  /\ \A i \in 1 .. Len(s) - 1 :
              /\ Level(s[i]) < Level(Last(s)) \/ (s[i].kind = "const" /\ i + 1 = Len(s))
              /\ s[i].kind = "const" /\ i + 1 = Len(s) =>
                   Last(s).kind \in {"require", "wait"} /\ Last(s).file = Home[s[i].file]
         /\ \A i \in 1 .. Len(s) : Level(s[i]) <= Level(Last(s))
<1>1. Len(s) \in Nat /\ Len(s) > 0 /\ Last(s) = s[Len(s)]
  BY StackLen
<1>2. \A i \in 1 .. Len(s) - 1 : i \in 1 .. Len(s) /\ i < Len(s) /\ Len(s) \in 1 .. Len(s)
  BY <1>1
<1>3. \A i \in 1 .. Len(s) - 1 :
              /\ Level(s[i]) < Level(Last(s)) \/ (s[i].kind = "const" /\ i + 1 = Len(s))
              /\ s[i].kind = "const" /\ i + 1 = Len(s) =>
                   Last(s).kind \in {"require", "wait"} /\ Last(s).file = Home[s[i].file]
  BY <1>1, <1>2 DEF Stack
<1>4. ASSUME NEW i \in 1 .. Len(s)
      PROVE  Level(s[i]) <= Level(Last(s))
  <2>1. Level(s[i]) \in Nat /\ Level(Last(s)) \in Nat
    BY <1>1, LevelIs
  <2>2. CASE i = Len(s)
    BY <1>1, <2>1, <2>2
  <2>3. CASE i # Len(s) /\ s[i].kind = "const" /\ i + 1 = Len(s)
    <3>1. Last(s).kind # "const" /\ Last(s).file = Home[s[i].file]
      BY <1>1, <1>3, <2>3
    <3>2. Level(s[i]) = Level(Last(s))
      BY <2>3, <3>1 DEF Level
    <3> QED
      BY <2>1, <3>2
  <2>4. CASE i # Len(s) /\ ~(s[i].kind = "const" /\ i + 1 = Len(s))
    <3>1. i \in 1 .. Len(s) - 1
      BY <1>1, <2>4
    <3> QED
      BY <1>3, <2>1, <2>4, <3>1
  <2> QED
    BY <2>2, <2>3, <2>4
<1> QED
  BY <1>3, <1>4

\* A step of the innermost file leads to a file of a higher rank.
LEMMA ReadyStep ==
  ASSUME LoadConstants, NEW s, Stack(s), s # <<>>, Last(s).kind # "const",
         NEW f \in File, Level(Last(s)) < Rank[f]
  PROVE  Ready(s, f) /\ \A i \in 1 .. Len(s) : Level(s[i]) < Rank[f]
<1>1. Level(Last(s)) \in Nat /\ Rank[f] \in Nat
  BY StackLen, LevelIs, RankIs
<1>2. \A i \in 1 .. Len(s) : Level(s[i]) \in Nat /\ Level(s[i]) <= Level(Last(s))
  BY LevelIs, TopIsHighest
<1>3. \A i \in 1 .. Len(s) : Level(s[i]) < Rank[f]
  BY <1>1, <1>2
<1> QED
  BY <1>3 DEF Ready

\* A thread that waited may load the file instead.
LEMMA ReadyWait ==
  ASSUME LoadConstants, NEW s, Stack(s), s # <<>>, Last(s).kind = "wait"
  PROVE  Last(s).file \in File /\ Ready(Front(s), Last(s).file)
<1> DEFINE r == Front(s)
<1>1. /\ Stack(r) /\ Len(s) \in Nat /\ Len(s) > 0 /\ Len(r) = Len(s) - 1
      /\ \A i \in 1 .. Len(s) - 1 : r[i] = s[i]
  BY FrontIs
<1>2. Last(s).file \in File /\ Level(Last(s)) = Rank[Last(s).file]
  <2>1. Len(s) \in 1 .. Len(s) /\ Last(s) = s[Len(s)]
    BY StackLen
  <2>2. s[Len(s)].kind # "const" => s[Len(s)].file \in File
    BY <2>1, StackElement
  <2> QED
    BY <2>1, <2>2 DEF Level
<1>3. r # <<>> => Last(r) = r[Len(r)] /\ Len(r) \in 1 .. Len(r)
  BY <1>1, StackLen
<1> HIDE DEF r
<1>4. \A i \in 1 .. Len(r) : Level(r[i]) < Rank[Last(s).file] \/ (r[i].kind = "const" /\ i = Len(r))
  BY <1>1, <1>2, TopIsHighest
<1>5. r # <<>> /\ Last(r).kind = "const" => Home[Last(r).file] = Last(s).file
  BY <1>1, <1>3, TopIsHighest
<1> QED
  BY <1>1, <1>2, <1>4, <1>5 DEF Ready, r

\* rb_const_get() looks again when the file that it asked for is back.
LEMMA LookIs ==
  ASSUME LoadConstants, NEW s, Stack(s), s # <<>>, Last(s).kind = "const"
  PROVE  /\ Last(s).file \in Const /\ Stack(Front(s))
         /\ Front(s) # <<>> => Last(Front(s)).kind # "const"
         /\ \A i \in 1 .. Len(Front(s)) : Level(Front(s)[i]) < Rank[Home[Last(s).file]]
<1> DEFINE r == Front(s)
<1>1. /\ Stack(r) /\ Len(s) \in Nat /\ Len(s) > 0 /\ Len(r) = Len(s) - 1
      /\ \A i \in 1 .. Len(s) - 1 : r[i] = s[i]
  BY FrontIs
<1>2. Last(s).file \in Const /\ Level(Last(s)) = Rank[Home[Last(s).file]]
  <2>1. Last(s) = s[Len(s)] /\ Len(s) \in 1 .. Len(s)
    BY StackLen
  <2>2. s[Len(s)].kind = "const" => s[Len(s)].file \in Const
    BY <2>1, StackElement
  <2> QED
    BY <2>1, <2>2 DEF Level
<1>3. r # <<>> => Last(r) = r[Len(r)] /\ Len(r) \in 1 .. Len(r)
  BY <1>1, StackLen
<1> HIDE DEF r
<1>4. \A i \in 1 .. Len(r) : Level(r[i]) < Rank[Home[Last(s).file]]
  BY <1>1, <1>2, TopIsHighest
<1>5. r # <<>> => Last(r).kind # "const"
  BY <1>1, <1>3, TopIsHighest
<1> QED
  BY <1>1, <1>2, <1>4, <1>5 DEF r

-----------------------------------------------------------------------------
(***************************************************************************)
(* What a step of a thread does to the lock of the loads.                  *)
(***************************************************************************)

\* The same files are evaluated for require in r as in s.
SameLoads(r, s) ==
  /\ LoadsOf(r) = LoadsOf(s)
  /\ \A i \in LoadsOf(s) : r[i].file = s[i].file

\* A stack that differs in its steps only loads the same files.
LEMMA AlikeLoads ==
  ASSUME NEW s, Stack(s), NEW r, Stack(r), Alike(r, s)
  PROVE  SameLoads(r, s)
BY AlikeStack DEF Alike, SameLoads, LoadsOf, Stack

\* The loads of a stack can be counted.
LEMMA LoadsFinite ==
  ASSUME NEW s, Stack(s)
  PROVE  LoadsOf(s) \subseteq 1 .. Len(s) /\ IsFiniteSet(LoadsOf(s))
<1>1. IsFiniteSet(1 .. Len(s)) /\ LoadsOf(s) \subseteq 1 .. Len(s)
  BY StackLen, FS_Interval DEF LoadsOf
<1> QED
  BY <1>1, FS_Subset

\* The loads of a stack, by its domain.
LEMMA LoadsIn ==
  ASSUME NEW s, Stack(s)
  PROVE  {i \in DOMAIN s : s[i].kind = "require"} = LoadsOf(s)
BY StackLen DEF LoadsOf

\* The loads of a thread are those of its stack.
LEMMA LoadsAre ==
  ASSUME Stacks, NEW t \in Thread
  PROVE  Loads(t) = LoadsOf(acts[t]) /\ (LoadsOf(acts[t]) # {} => t \in live)
<1>1. Stack(acts[t]) /\ (t \notin live => acts[t] = <<>>)
  BY DEF Stacks
<1>2. Loads(t) = LoadsOf(acts[t])
  BY <1>1, LoadsIn DEF Loads
<1> QED
  BY <1>1, <1>2, StackEmpty

\* Of the invariant, what is about the loads.
Locked == Stacks /\ OneLoader /\ Unprovided

\* A step that keeps the loads of t keeps what is said of the lock.
LEMMA LockKept ==
  ASSUME Types, Locked, NEW t \in Thread, t \in live', live' \subseteq Thread, live \subseteq live',
         NEW r, Stack(r), SameLoads(r, acts[t]), acts' = [acts EXCEPT ![t] = r],
         UNCHANGED <<loading_thread, loading_nest, rb_features>>
  PROVE  Locked'
<1>1. DOMAIN acts' = Thread /\ acts'[t] = r /\ \A u \in Thread : u # t => acts'[u] = acts[u]
  BY DEF Types
<1>2. Stacks'
  BY <1>1 DEF Stacks, Locked
<1>3. \A u \in Thread : Loads(u)' = Loads(u) /\ LoadsOf(acts'[u]) = LoadsOf(acts[u])
  <2> TAKE u \in Thread
  <2>1. Loads(u)' = LoadsOf(acts'[u])
    BY <1>2, LoadsIn DEF Loads, Stacks
  <2> QED
    BY <2>1, <1>1, LoadsAre DEF SameLoads, Locked
<1>4. OneLoader'
  BY <1>3 DEF OneLoader, Locked, Types
<1>5. Unprovided'
  BY <1>1, <1>3 DEF Unprovided, SameLoads, Locked
<1> QED
  BY <1>2, <1>4, <1>5 DEF Locked

\* A lock that is t's, or nobody's, counts the loads of t.
LEMMA LockCounts ==
  ASSUME LoadConstants, Types, Locked, NEW t \in Thread, loading_thread \in {t, NoThread}
  PROVE  /\ loading_nest = Cardinality(LoadsOf(acts[t]))
         /\ \A u \in Thread : u # t => LoadsOf(acts[u]) = {}
<1>1. \A u \in Thread : Loads(u) = LoadsOf(acts[u])
  BY LoadsAre DEF Locked
<1>2. t # NoThread
  BY DEF LoadConstants
<1>3. \A u \in Thread : u # t => LoadsOf(acts[u]) = {}
  BY <1>1, <1>2 DEF Locked, OneLoader, LoadConstants
<1>4. CASE loading_thread = t
  BY <1>1, <1>2, <1>4 DEF Locked, OneLoader
<1>5. CASE loading_thread = NoThread
  <2>1. Loads(t) = {} /\ loading_nest = 0
    BY <1>2, <1>5 DEF Locked, OneLoader
  <2>2. LoadsOf(acts[t]) = {}
    BY <1>1, <2>1
  <2>3. Cardinality(LoadsOf(acts[t])) = 0
    BY <2>2, FS_EmptySet, Zenon
  <2> QED
    BY <1>3, <2>1, <2>3
<1> QED
  BY <1>3, <1>4, <1>5

\* Nobody but a thread of the ring loads.
LEMMA LoaderLives ==
  ASSUME Types, Locked, loading_thread # NoThread
  PROVE  loading_thread \in live
<1>1. loading_thread \in Thread /\ loading_nest = Cardinality(Loads(loading_thread)) /\ loading_nest # 0
  BY DEF Types, Locked, OneLoader
<1>2. Loads(loading_thread) # {}
  BY <1>1, FS_EmptySet
<1> QED
  BY <1>1, <1>2, LoadsAre DEF Locked

\* thread_loading() takes the lock.
LEMMA LockTaken ==
  ASSUME LoadConstants, Types, Locked, NEW t \in live, live' = live,
         NEW f \in File, f \notin rb_features, UNCHANGED rb_features,
         NEW s, Ready(s, f), SameLoads(s, acts[t]),
         NEW r, Pushed(r, s, Act("require", f, 1)), acts' = [acts EXCEPT ![t] = r],
         live = {t} \/ loading_thread \in {t, NoThread},
         loading_thread' = t, loading_nest' = loading_nest + 1
  PROVE  Locked'
<1> DEFINE n == Len(s) + 1
<1>0. t \in Thread /\ t # NoThread
  BY DEF Types, LoadConstants
<1>1. /\ DOMAIN acts' = Thread /\ acts'[t] = r /\ \A u \in Thread : u # t => acts'[u] = acts[u]
  BY <1>0 DEF Types
<1>2. Stack(s) /\ Stack(r) /\ LoadsOf(r) = LoadsOf(s) \cup {n}
  BY PushFile DEF Ready
<1>3. Stacks'
  BY <1>1, <1>2 DEF Stacks, Locked
<1>4. loading_thread \in {t, NoThread}
  BY LoaderLives
<1>5. /\ loading_nest = Cardinality(LoadsOf(acts[t]))
      /\ \A u \in Thread : u # t => LoadsOf(acts[u]) = {}
  BY <1>0, <1>4, LockCounts
<1>6. n \notin LoadsOf(s) /\ IsFiniteSet(LoadsOf(s)) /\ Len(s) \in Nat
  BY <1>2, LoadsFinite, StackLen
<1>7. Cardinality(LoadsOf(r)) = loading_nest + 1
  <2>1. LoadsOf(s) = LoadsOf(acts[t])
    BY DEF SameLoads
  <2>2. Cardinality(LoadsOf(s) \cup {n}) = Cardinality(LoadsOf(s)) + 1
    BY <1>6, FS_AddElement
  <2> QED
    BY <1>2, <1>5, <2>1, <2>2
<1>8. \A u \in Thread : Loads(u)' = LoadsOf(acts'[u])
  BY <1>3, LoadsIn DEF Loads, Stacks
<1>9. OneLoader'
  <2>1. \A u \in Thread : u # t => Loads(u)' = {}
    BY <1>1, <1>5, <1>8
  <2>2. Loads(t)' = LoadsOf(r)
    BY <1>0, <1>1, <1>8
  <2>3. loading_nest \in Nat
    BY DEF Types
  <2> QED
    BY <1>0, <1>7, <2>1, <2>2, <2>3 DEF OneLoader
<1>10. Unprovided'
  <2>1. r[n].file = f /\ \A i \in LoadsOf(s) : r[i] = s[i]
    BY DEF Pushed, LoadsOf, Act
  <2>2. \A i \in LoadsOf(r) : r[i].file \notin rb_features
    BY <1>0, <1>2, <2>1 DEF SameLoads, Unprovided, Locked
  <2>3. \A u \in Thread : u # t => \A i \in LoadsOf(acts[u]) : acts[u][i].file \notin rb_features
    BY DEF Unprovided, Locked
  <2> QED
    BY <1>1, <2>2, <2>3 DEF Unprovided
<1> QED
  BY <1>3, <1>9, <1>10 DEF Locked

\* thread_loading_done(), for a file that is provided now or that failed.
LEMMA LockDone ==
  ASSUME LoadConstants, Types, Locked, NEW t \in live, live' = live,
         acts[t] # <<>>, top(t).kind = "require",
         rb_features' = rb_features \/ rb_features' = rb_features \cup {top(t).file},
         NEW r, Stack(r), SameLoads(r, Front(acts[t])), acts' = [acts EXCEPT ![t] = r],
         thread_loading_done
  PROVE  Locked'
<1> DEFINE s == acts[t]
           n == Len(s)
<1>0. t \in Thread /\ t # NoThread
  BY DEF Types, LoadConstants
<1>1. /\ DOMAIN acts' = Thread /\ acts'[t] = r /\ \A u \in Thread : u # t => acts'[u] = acts[u]
  BY <1>0 DEF Types
<1>2. Stack(s)
  BY <1>0 DEF Locked, Stacks
<1>3. /\ n \in Nat /\ n > 0 /\ Last(s) = s[n] /\ n \in 1 .. n
      /\ \A i \in 1 .. n - 1 : Front(s)[i] = s[i]
      /\ LoadsOf(Front(s)) = LoadsOf(s) \ {n}
  BY <1>2, StackLen, FrontIs
<1>4. s[n].kind = "require" /\ n \in LoadsOf(s) /\ s[n] = top(t)
  BY <1>3 DEF top, LoadsOf
<1>5. LoadsOf(r) = LoadsOf(s) \ {n}
  BY <1>3 DEF SameLoads
<1>6. Stacks'
  BY <1>1 DEF Stacks, Locked
<1>7. loading_thread = t
  <2>1. Loads(t) # {}
    BY <1>0, <1>4, LoadsAre DEF Locked
  <2> QED
    BY <1>0, <2>1 DEF Locked, OneLoader
<1>8. /\ loading_nest = Cardinality(LoadsOf(s))
      /\ \A u \in Thread : u # t => LoadsOf(acts[u]) = {}
  BY <1>0, <1>7, LockCounts
<1>9. IsFiniteSet(LoadsOf(s)) /\ loading_nest \in Nat
  BY <1>2, LoadsFinite DEF Types
<1>10. Cardinality(LoadsOf(r)) = loading_nest - 1 /\ loading_nest > 0
  <2>1. Cardinality(LoadsOf(s) \ {n}) = Cardinality(LoadsOf(s)) - 1
    BY <1>4, <1>9, FS_RemoveElement
  <2>2. Cardinality(LoadsOf(s)) # 0
    BY <1>4, <1>9, FS_EmptySet
  <2> QED
    BY <1>5, <1>8, <1>9, <2>1, <2>2
<1>11. \A u \in Thread : Loads(u)' = LoadsOf(acts'[u])
  BY <1>6, LoadsIn DEF Loads, Stacks
<1>12. OneLoader'
  <2>1. \A u \in Thread : u # t => Loads(u)' = {}
    BY <1>1, <1>8, <1>11
  <2>2. Loads(t)' = LoadsOf(r)
    BY <1>0, <1>1, <1>11
  <2>3. loading_nest' = loading_nest - 1 /\ loading_thread' = IF loading_nest = 1 THEN NoThread ELSE t
    BY <1>7 DEF thread_loading_done
  <2>4. CASE loading_nest = 1
    <3>1. LoadsOf(r) = {}
      <4>1. IsFiniteSet(LoadsOf(r)) /\ Cardinality(LoadsOf(r)) = 0
        BY <1>10, <2>4, LoadsFinite
      <4> QED
        BY <4>1, FS_EmptySet
    <3> QED
      BY <1>0, <2>1, <2>2, <2>3, <2>4, <3>1 DEF OneLoader
  <2>5. CASE loading_nest # 1
    <3>1. loading_nest - 1 # 0
      BY <1>9, <1>10, <2>5
    <3> QED
      BY <1>0, <1>10, <2>1, <2>2, <2>3, <2>5, <3>1 DEF OneLoader
  <2> QED
    BY <2>4, <2>5
<1>13. Unprovided'
  <2>1. \A i \in LoadsOf(r) : r[i].file \notin rb_features'
    <3> SUFFICES ASSUME NEW i \in LoadsOf(r) PROVE r[i].file \notin rb_features'
      OBVIOUS
    <3>1. i \in LoadsOf(s) /\ i \in 1 .. n /\ i # n /\ i \in 1 .. n - 1
      BY <1>3, <1>5 DEF LoadsOf
    <3>2. r[i].file = s[i].file /\ s[i].kind = "require"
      BY <1>3, <1>5, <3>1 DEF SameLoads, LoadsOf
    <3>3. s[i].file \notin rb_features
      BY <1>0, <3>1 DEF Unprovided, Locked
    <3>4. Level(s[i]) < Level(s[n])
      <4>1. i < n /\ i \in 1 .. n /\ n \in 1 .. n /\ s[i].kind # "const"
        BY <1>3, <3>1, <3>2
      <4> HIDE DEF s, n
      <4>2. \A k, j \in 1 .. Len(s) : k < j =>
              Level(s[k]) < Level(s[j]) \/ (s[k].kind = "const" /\ j = k + 1)
        BY <1>2 DEF Stack
      <4> QED
        BY <4>1, <4>2 DEF n
    <3>5. Level(s[i]) = Rank[s[i].file] /\ Level(s[n]) = Rank[s[n].file]
      BY <1>4, <3>2 DEF Level
    <3>6. Level(s[i]) \in Nat /\ Level(s[n]) \in Nat
      BY <1>2, <1>3, <3>1, LevelIs
    <3> QED
      BY <1>4, <3>2, <3>3, <3>4, <3>5, <3>6
  <2>2. \A u \in Thread : u # t => LoadsOf(acts'[u]) = {}
    BY <1>1, <1>8
  <2> QED
    BY <1>1, <2>1, <2>2 DEF Unprovided
<1> QED
  BY <1>6, <1>12, <1>13 DEF Locked

-----------------------------------------------------------------------------
(***************************************************************************)
(* The steps.                                                              *)
(***************************************************************************)

\* A thread with the jump j and the activations s does not look again too early.
Looks(j, s) ==
  j = "none" /\ s # <<>> /\ Last(s).kind = "const" => Home[Last(s).file] \in rb_features

\* A step of t that looks in time keeps that everybody does.
LEMMA LooksKept ==
  ASSUME LooksAfter, NEW t \in Thread, rb_features \subseteq rb_features',
         \A u \in Thread : u # t => /\ acts'[u] = acts[u] /\ jump'[u] = jump[u]
                                    /\ u \in live' => u \in live,
         t \in live' => Looks(jump[t], acts[t])'
  PROVE  LooksAfter'
<1> SUFFICES ASSUME NEW u \in Thread, Runs(u)', acts'[u] # <<>>, top(u)'.kind = "const"
             PROVE  Home[top(u)'.file] \in rb_features'
  BY DEF LooksAfter, rb_provided
<1>1. CASE u = t
  BY <1>1 DEF Looks, Runs, top
<1>2. CASE u # t
  BY <1>2 DEF Runs, top, LooksAfter, rb_provided
<1> QED
  BY <1>1, <1>2

\* What f_require() and its loop leave behind.
Required(t) ==
  /\ Locked'
  /\ DOMAIN acts' = Thread /\ \A u \in Thread : u # t => acts'[u] = acts[u]
  /\ loading_thread' \in Thread \cup {NoThread} /\ loading_nest' \in Nat
  /\ Looks(jump'[t], acts'[t])

\* thread_loading() of a lock that is free, or of t, is told of in the invariant.
LEMMA TakesOver ==
  ASSUME LoadConstants, Types, Locked, NEW t \in live, live' = live,
         NEW f \in File, f \notin rb_features, UNCHANGED rb_features,
         NEW s, Ready(s, f), SameLoads(s, acts[t]), TakeOver(t, f, s),
         live = {t} \/ loading_thread \in {t, NoThread}
  PROVE  Required(t)
<1> DEFINE a == Act("require", f, 1)
           r == Append(s, a)
<1>1. a \in Activation
  BY DEF Act, Activation, Kind
<1>2. Pushed(r, s, a)
  BY <1>1, PushedIs DEF Ready
<1>3. r # <<>> /\ Last(r) = a
  <2> HIDE DEF r
  <2> QED
    BY <1>2, PushFile
<1>4. a.kind # "const"
  BY DEF Act
<1>5. /\ acts' = [acts EXCEPT ![t] = r] /\ loading_thread' = t /\ loading_nest' = loading_nest + 1
  BY DEF TakeOver
<1> HIDE DEF r
<1>6. Locked'
  BY <1>2, <1>5, LockTaken
<1>7. t \in Thread /\ DOMAIN acts = Thread /\ loading_nest \in Nat
  BY DEF Types
<1>8. acts'[t] = r
  BY <1>5, <1>7
<1> HIDE DEF a
<1> QED
  BY <1>3, <1>4, <1>5, <1>6, <1>7, <1>8 DEF Required, Looks

\* The file is there.
LEMMA GoesBack ==
  ASSUME Types, Locked, NEW t \in live, live' = live, UNCHANGED <<rb_features, loading_thread, loading_nest>>,
         NEW f \in rb_features, NEW s, Ready(s, f), SameLoads(s, acts[t]),
         acts' = [acts EXCEPT ![t] = Back(s)]
  PROVE  Required(t)
<1> DEFINE r == Back(s)
<1>1. Stack(s) /\ Stack(r) /\ Alike(r, s)
  BY BackIs DEF Ready
<1>2. SameLoads(r, acts[t])
  BY <1>1, AlikeLoads DEF SameLoads
<1>3. t \in Thread /\ DOMAIN acts = Thread
  BY DEF Types
<1>4. Looks(jump'[t], r)
  <2>1. CASE s # <<>> /\ Last(s).kind = "const"
    <3>1. r = s
      BY <2>1 DEF Back
    <3> QED
      BY <2>1, <3>1 DEF Looks, Ready
  <2>2. CASE ~(s # <<>> /\ Last(s).kind = "const")
    <3>1. /\ r # <<>> => Last(r) = r[Len(r)] /\ Len(r) \in 1 .. Len(r)
          /\ s # <<>> <=> Len(s) # 0
          /\ s # <<>> => Last(s) = s[Len(s)]
      BY <1>1, StackLen
    <3>2. r # <<>> => Last(r).kind = Last(s).kind /\ s # <<>>
      BY <1>1, <3>1 DEF Alike
    <3> QED
      BY <2>2, <3>2 DEF Looks
  <2> QED
    BY <2>1, <2>2
<1> HIDE DEF r
<1>5. acts' = [acts EXCEPT ![t] = r]
  BY DEF r
<1>6. Locked'
  BY <1>1, <1>2, <1>3, <1>5, LockKept DEF Types
<1> QED
  BY <1>3, <1>4, <1>5, <1>6 DEF Required, Types

\* f_require() finds the file, loads it, waits, or fails.
LEMMA Requires ==
  ASSUME LoadConstants, Types, Locked, NEW t \in live, live' = live,
         NEW f \in File, NEW s, Ready(s, f), SameLoads(s, acts[t]), f_require(t, f, s)
  PROVE  /\ Required(t) /\ UNCHANGED rb_features
         /\ jump' = jump \/ jump' = [jump EXCEPT ![t] = "raise"]
<1>0. t \in Thread /\ DOMAIN acts = Thread /\ UNCHANGED rb_features /\ Stack(s)
  BY DEF f_require, Types, Ready
<1>1. CASE f \in rb_features
  BY <1>0, <1>1, GoesBack DEF f_require, rb_provided
<1>2. CASE f \notin rb_features /\ thread_loading(t, f, s) /\ UNCHANGED jump
  <2>1. CASE live = {t} \/ loading_thread \in {t, NoThread}
    <3>1. TakeOver(t, f, s)
      BY <1>2, <2>1 DEF thread_loading, Loader, rb_provided
    <3> QED
      BY <1>0, <1>2, <2>1, <3>1, TakesOver
  <2>2. CASE ~(live = {t} \/ loading_thread \in {t, NoThread})
    <3> DEFINE a == Act("wait", f, 0)
               r == Append(s, a)
    <3>1. acts' = [acts EXCEPT ![t] = r] /\ UNCHANGED <<loading_thread, loading_nest>>
      BY <2>2, <1>2 DEF thread_loading
    <3>2. a \in Activation /\ a.kind = "wait"
      BY DEF Act, Activation, Kind
    <3>3. Pushed(r, s, a)
      BY <1>0, <3>2, PushedIs
    <3> HIDE DEF r
    <3>4. Stack(r) /\ r # <<>> /\ Last(r) = a /\ LoadsOf(r) = LoadsOf(s)
      BY <3>3, PushFile
    <3>5. SameLoads(r, acts[t])
      BY <3>3, <3>4 DEF SameLoads, Pushed, LoadsOf
    <3>6. Locked'
      BY <1>0, <3>1, <3>4, <3>5, LockKept DEF Types
    <3> HIDE DEF a
    <3> QED
      BY <1>0, <1>2, <3>1, <3>2, <3>4, <3>6 DEF Required, Looks, Types
  <2> QED
    BY <2>1, <2>2
<1>3. CASE /\ f \notin rb_features /\ Raise(t) /\ acts' = [acts EXCEPT ![t] = s]
           /\ UNCHANGED <<loading_thread, loading_nest>>
  <2>1. Locked'
    BY <1>0, <1>3, LockKept DEF Types
  <2>2. jump'[t] = "raise"
    BY <1>0, <1>3 DEF Types, Raise
  <2> QED
    BY <1>0, <1>3, <2>1, <2>2 DEF Required, Looks, Types, Raise
<1> QED
  BY <1>1, <1>2, <1>3 DEF f_require, rb_provided

\* f_require(), however it comes out, keeps the invariant.
LEMMA RequiredInv ==
  ASSUME LoadInv, NEW t \in live, live' = live, Required(t), UNCHANGED <<rb_features, evals>>,
         jump' = jump \/ jump' = [jump EXCEPT ![t] = "raise"],
         autoload_tbl' \subseteq Const, consts' \subseteq Const
  PROVE  LoadInv'
<1>1. t \in Thread
  BY DEF LoadInv, Types
<1>2. LooksAfter'
  <2>1. \A u \in Thread : u # t => jump'[u] = jump[u]
    BY DEF LoadInv, Types
  <2>2. Looks(jump[t], acts[t])'
    BY DEF Required, Looks
  <2> QED
    BY <1>1, <2>1, <2>2, LooksKept DEF LoadInv, Required
<1>3. Types'
  BY <1>1 DEF LoadInv, Types, Required
<1>4. EvaluatedOnce'
  BY DEF LoadInv, EvaluatedOnce, rb_provided
<1> QED
  BY <1>2, <1>3, <1>4 DEF LoadInv, Required, Locked

\* The invariant, in the form that the steps need.
LEMMA InvSays ==
  ASSUME LoadInv
  PROVE  /\ Types /\ Locked
         /\ \A t \in Thread : Stack(acts[t]) /\ SameLoads(acts[t], acts[t])
         /\ \A t \in Thread : acts[t] # <<>> =>
              /\ t \in live /\ top(t) = acts[t][Len(acts[t])] /\ Len(acts[t]) \in 1 .. Len(acts[t])
              /\ top(t) \in Activation
              /\ top(t).kind = "const" => top(t).file \in Const
              /\ top(t).kind # "const" => top(t).file \in File
              /\ top(t).kind \in {"require", "load"} => top(t).pos > 0
<1>1. Types /\ Locked
  BY DEF LoadInv, Locked
<1>2. \A t \in Thread : Stack(acts[t]) /\ (t \notin live => acts[t] = <<>>)
  BY DEF LoadInv, Stacks
<1>3. \A t \in Thread : SameLoads(acts[t], acts[t])
  BY DEF SameLoads
<1>4. ASSUME NEW t \in Thread, acts[t] # <<>>
      PROVE  /\ t \in live /\ top(t) = acts[t][Len(acts[t])] /\ Len(acts[t]) \in 1 .. Len(acts[t])
             /\ top(t) \in Activation
             /\ top(t).kind = "const" => top(t).file \in Const
             /\ top(t).kind # "const" => top(t).file \in File
             /\ top(t).kind \in {"require", "load"} => top(t).pos > 0
  <2> DEFINE s == acts[t]
  <2>1. Stack(s) /\ s # <<>> /\ top(t) = Last(s)
    BY <1>2, <1>4 DEF top
  <2> HIDE DEF s
  <2>2. Last(s) = s[Len(s)] /\ Len(s) \in 1 .. Len(s)
    BY <2>1, StackLen
  <2>3. /\ s[Len(s)] \in Activation
        /\ s[Len(s)].kind = "const" => s[Len(s)].file \in Const
        /\ s[Len(s)].kind # "const" => s[Len(s)].file \in File
        /\ s[Len(s)].kind \in {"require", "load"} => s[Len(s)].pos > 0
    BY <2>1, <2>2, StackElement
  <2> QED
    BY <1>2, <1>4, <2>1, <2>2, <2>3 DEF s
<1> QED
  BY <1>1, <1>2, <1>3, <1>4

\* The step that an activation is at.
LEMMA StepIs ==
  ASSUME LoadConstants, LoadInv, NEW t \in Thread, NEW op, AtStep(t, op)
  PROVE  /\ t \in live /\ acts[t] # <<>> /\ top(t).kind \in {"require", "load"} /\ top(t).file \in File
         /\ op = "require" => step(t).arg \in File /\ Rank[top(t).file] < Rank[step(t).arg]
         /\ op \in {"define", "use"} => step(t).arg \in Const
         /\ op = "use" => Rank[top(t).file] < Rank[Home[step(t).arg]]
<1>1. /\ t \in live /\ acts[t] # <<>> /\ top(t).kind \in {"require", "load"}
      /\ top(t).pos <= Len(Text[top(t).file]) /\ step(t).op = op
  BY DEF AtStep, Evaluates, Runs
<1>2. top(t) \in Activation /\ top(t).pos > 0 /\ top(t).file \in File
  BY <1>1, InvSays
<1>3. top(t).pos \in Nat
  BY <1>2 DEF Activation
<1> DEFINE f == top(t).file
           i == top(t).pos
<1>4. f \in File /\ i \in 1 .. Len(Text[f]) /\ Text[f][i] = step(t) /\ Text[f][i].op = op
  BY <1>1, <1>2, <1>3 DEF step
<1>5. Ascending(Rank) /\ Rank \in [File -> Nat]
  BY RankIs
<1> HIDE DEF f, i
<1>6. /\ op = "require" => step(t).arg \in File
      /\ op \in {"define", "use"} => step(t).arg \in Const
  BY <1>4 DEF LoadConstants
<1>7. /\ op = "require" => Rank[step(t).arg] > Rank[f]
      /\ op = "use" => Rank[Home[step(t).arg]] > Rank[f]
  BY <1>4, <1>5 DEF Ascending
<1>8. Home[step(t).arg] \in File \/ op # "use"
  BY <1>6 DEF LoadConstants
<1> QED
  BY <1>1, <1>2, <1>4, <1>5, <1>6, <1>7, <1>8 DEF f

\* A call returns to a file, or to the program.
LEMMA Returns ==
  ASSUME Types, Locked, NEW t \in live, live' = live,
         UNCHANGED <<rb_features, loading_thread, loading_nest>>,
         NEW s, Stack(s), SameLoads(s, acts[t]), s # <<>> => Last(s).kind # "const",
         acts' = [acts EXCEPT ![t] = Back(s)]
  PROVE  Required(t)
<1> DEFINE r == Back(s)
<1>1. Stack(r) /\ Alike(r, s)
  BY BackIs
<1>2. SameLoads(r, acts[t])
  BY <1>1, AlikeLoads DEF SameLoads
<1>3. t \in Thread /\ DOMAIN acts = Thread
  BY DEF Types
<1>4. Looks(jump'[t], r)
  <2>1. /\ r # <<>> => Last(r) = r[Len(r)] /\ Len(r) \in 1 .. Len(r)
        /\ s # <<>> <=> Len(s) # 0
        /\ s # <<>> => Last(s) = s[Len(s)]
    BY <1>1, StackLen
  <2>2. r # <<>> => Last(r).kind = Last(s).kind /\ s # <<>>
    BY <1>1, <2>1 DEF Alike
  <2> QED
    BY <2>2 DEF Looks
<1> HIDE DEF r
<1>5. acts' = [acts EXCEPT ![t] = r]
  BY DEF r
<1>6. Locked'
  BY <1>1, <1>2, <1>3, <1>5, LockKept DEF Types
<1> QED
  BY <1>3, <1>4, <1>5, <1>6 DEF Required, Types

\* rb_const_get() for the activations s of t.
LEMMA ConstGets ==
  ASSUME LoadConstants, LoadInv, NEW t \in live, live' = live, UNCHANGED <<consts, evals>>,
         NEW c \in Const, NEW s, Stack(s), SameLoads(s, acts[t]),
         s # <<>> => Last(s).kind # "const",
         \A i \in 1 .. Len(s) : Level(s[i]) < Rank[Home[c]],
         rb_const_get(t, c, s)
  PROVE  LoadInv'
<1>0. /\ t \in Thread /\ Types /\ Locked /\ consts \subseteq Const /\ autoload_tbl \subseteq Const
      /\ DOMAIN acts = Thread /\ Home[c] \in File
  BY InvSays DEF Types, LoadConstants
<1>1. CASE c \in consts
  <2>1. /\ acts' = [acts EXCEPT ![t] = Back(s)]
        /\ UNCHANGED <<rb_features, loading_thread, loading_nest, autoload_tbl, jump>>
    BY <1>1 DEF rb_const_get
  <2>2. Required(t)
    BY <1>0, <2>1, Returns
  <2> QED
    BY <1>0, <2>1, <2>2, RequiredInv
<1>2. CASE c \notin consts /\ c \in autoload_tbl
  <2> DEFINE a == Act("const", c, 0)
             r == Append(s, a)
  <2>1. autoload_tbl' \subseteq Const /\ f_require(t, Home[c], r)
    BY <1>0, <1>2 DEF rb_const_get
  <2>2. Pushed(r, s, a)
    <3>1. a \in Activation
      BY DEF Act, Activation, Kind
    <3> QED
      BY <3>1, PushedIs
  <2> HIDE DEF r
  <2>3. Ready(r, Home[c]) /\ LoadsOf(r) = LoadsOf(s)
    BY <2>2, PushConst
  <2>4. SameLoads(r, acts[t])
    BY <2>2, <2>3 DEF SameLoads, Pushed, LoadsOf
  <2>5. /\ Required(t) /\ UNCHANGED rb_features
        /\ jump' = jump \/ jump' = [jump EXCEPT ![t] = "raise"]
    BY <1>0, <2>1, <2>3, <2>4, Requires
  <2> QED
    BY <1>0, <2>1, <2>5, RequiredInv
<1>3. CASE c \notin consts /\ c \notin autoload_tbl
  <2>1. /\ Raise(t) /\ acts' = [acts EXCEPT ![t] = s]
        /\ UNCHANGED <<rb_features, loading_thread, loading_nest, autoload_tbl>>
    BY <1>3 DEF rb_const_get
  <2>2. Locked'
    BY <1>0, <2>1, LockKept DEF Types
  <2>3. jump'[t] = "raise"
    BY <1>0, <2>1 DEF Types, Raise
  <2>4. Required(t)
    BY <1>0, <2>1, <2>2, <2>3 DEF Required, Looks, Types
  <2> QED
    BY <1>0, <2>1, <2>4, RequiredInv DEF Raise
<1> QED
  BY <1>1, <1>2, <1>3

\* A turn of the waiting loop keeps the invariant.
LEMMA SpinsInv == ASSUME LoadConstants, LoadInv, NEW t \in Thread, Spins(t) PROVE LoadInv'
<1>1. /\ t \in live /\ Types /\ Locked /\ Stack(acts[t]) /\ acts[t] # <<>>
      /\ Last(acts[t]).kind = "wait" /\ top(t) = Last(acts[t])
      /\ UNCHANGED <<live, rb_features, autoload_tbl, consts, jump, evals>>
  BY InvSays DEF Spins, Runs, top, table
<1> DEFINE f == top(t).file
           s == Front(acts[t])
<1>2. f \in File /\ Ready(s, f)
  BY <1>1, ReadyWait
<1>3. SameLoads(s, acts[t])
  <2>1. /\ Len(acts[t]) \in Nat /\ \A i \in 1 .. Len(acts[t]) - 1 : s[i] = acts[t][i]
        /\ LoadsOf(s) = LoadsOf(acts[t]) \ {Len(acts[t])}
    BY <1>1, FrontIs
  <2>2. Len(acts[t]) \notin LoadsOf(acts[t])
    BY <1>1, StackLen DEF LoadsOf
  <2> QED
    BY <2>1, <2>2 DEF SameLoads, LoadsOf
<1>4. CASE loading_thread = t
  <2>1. Loader(t, f, s)
    BY <1>4 DEF Spins
  <2>2. Required(t)
    <3>1. CASE f \in rb_features
      BY <1>1, <1>2, <1>3, <2>1, <3>1, GoesBack DEF Loader, rb_provided
    <3>2. CASE f \notin rb_features
      BY <1>1, <1>2, <1>3, <1>4, <2>1, <3>2, TakesOver DEF Loader, rb_provided
    <3> QED
      BY <3>1, <3>2
  <2> QED
    BY <1>1, <2>2, RequiredInv DEF Types
<1>5. CASE loading_thread # t
  <2>1. UNCHANGED <<loading_thread, loading_nest, acts>>
    BY <1>5 DEF Spins
  <2> QED
    BY <1>1, <2>1 DEF LoadInv, Types, Stacks, OneLoader, Unprovided, EvaluatedOnce, LooksAfter,
                      Loads, Runs, top, rb_provided
<1> QED
  BY <1>4, <1>5

\* SameLoads and the stack of the program.
LEMMA OutsideIs ==
  ASSUME LoadInv, NEW t \in Thread, Outside(t)
  PROVE  /\ t \in live /\ SameLoads(<<>>, acts[t]) /\ Stack(<<>>)
         /\ \A f \in File : Ready(<<>>, f)
<1>1. t \in live /\ acts[t] = <<>> /\ Stack(<<>>) /\ LoadsOf(<<>>) = {}
  BY StackEmpty DEF Outside, Runs
<1>2. Len(<<>>) = 0
  BY <1>1, StackLen
<1> QED
  BY <1>1, <1>2 DEF SameLoads, Ready

\* require in the program keeps it.
LEMMA CallRequireInv == ASSUME LoadConstants, LoadInv, NEW t \in Thread, CallRequire(t) PROVE LoadInv'
<1>1. PICK f \in File : f_require(t, f, <<>>)
  BY DEF CallRequire
<1>2. /\ t \in live /\ SameLoads(<<>>, acts[t]) /\ Ready(<<>>, f) /\ Types /\ Locked
      /\ UNCHANGED <<live, autoload_tbl, consts, evals>>
  BY OutsideIs, InvSays DEF CallRequire, table
<1>3. /\ Required(t) /\ UNCHANGED rb_features
      /\ jump' = jump \/ jump' = [jump EXCEPT ![t] = "raise"]
  BY <1>1, <1>2, Requires
<1> QED
  BY <1>2, <1>3, RequiredInv DEF Types

\* require in a file keeps it.
LEMMA StepRequireInv == ASSUME LoadConstants, LoadInv, NEW t \in Thread, StepRequire(t) PROVE LoadInv'
<1> DEFINE f == step(t).arg
           s == acts[t]
<1>1. /\ f_require(t, f, s) /\ UNCHANGED <<live, autoload_tbl, consts, evals>> /\ AtStep(t, "require")
  BY DEF StepRequire, table
<1>2. /\ t \in live /\ s # <<>> /\ top(t).kind \in {"require", "load"} /\ top(t).file \in File
      /\ f \in File /\ Rank[top(t).file] < Rank[f] /\ top(t) = Last(s)
      /\ Stack(s) /\ SameLoads(s, s) /\ Types /\ Locked
  BY <1>1, StepIs, InvSays DEF top
<1>3. Ready(s, f)
  <2>1. Level(Last(s)) < Rank[f] /\ Last(s).kind # "const"
    BY <1>2 DEF Level
  <2> HIDE DEF s, f
  <2> QED
    BY <1>2, <2>1, ReadyStep
<1>4. /\ Required(t) /\ UNCHANGED rb_features
      /\ jump' = jump \/ jump' = [jump EXCEPT ![t] = "raise"]
  BY <1>1, <1>2, <1>3, Requires
<1> QED
  BY <1>1, <1>2, <1>4, RequiredInv DEF Types

\* The use of a constant in a file keeps it.
LEMMA StepUseInv == ASSUME LoadConstants, LoadInv, NEW t \in Thread, StepUse(t) PROVE LoadInv'
<1> DEFINE c == step(t).arg
           s == acts[t]
<1>1. rb_const_get(t, c, s) /\ UNCHANGED <<live, consts, evals>> /\ AtStep(t, "use")
  BY DEF StepUse
<1>2. /\ t \in live /\ s # <<>> /\ top(t).kind \in {"require", "load"} /\ top(t).file \in File
      /\ c \in Const /\ Rank[top(t).file] < Rank[Home[c]] /\ top(t) = Last(s)
      /\ Stack(s) /\ SameLoads(s, s)
  BY <1>1, StepIs, InvSays DEF top
<1>3. \A i \in 1 .. Len(s) : Level(s[i]) < Rank[Home[c]]
  <2>1. Level(Last(s)) < Rank[Home[c]] /\ Last(s).kind # "const" /\ Home[c] \in File
    BY <1>2 DEF Level, LoadConstants
  <2> HIDE DEF s, c
  <2> QED
    BY <1>2, <2>1, ReadyStep
<1>4. Last(s).kind # "const"
  BY <1>2
<1> HIDE DEF c
<1> QED
  BY <1>1, <1>2, <1>3, <1>4, ConstGets

\* The use of a constant in the program keeps it.
LEMMA CallUseInv == ASSUME LoadConstants, LoadInv, NEW t \in Thread, CallUse(t) PROVE LoadInv'
<1>1. PICK c \in Const : rb_const_get(t, c, <<>>)
  BY DEF CallUse
<1>2. /\ t \in live /\ SameLoads(<<>>, acts[t]) /\ Stack(<<>>) /\ UNCHANGED <<live, consts, evals>>
  BY OutsideIs DEF CallUse
<1>3. Len(<<>>) = 0
  BY <1>2, StackLen
<1>4. \A i \in 1 .. Len(<<>>) : Level(<<>>[i]) < Rank[Home[c]]
  BY <1>3
<1> QED
  BY <1>1, <1>2, <1>4, ConstGets

\* The second look for a constant keeps it.
LEMMA LookAgainInv == ASSUME LoadConstants, LoadInv, NEW t \in Thread, LookAgain(t) PROVE LoadInv'
<1> DEFINE s == acts[t]
           c == Last(s).file
           r == Front(s)
<1>1. /\ rb_const_get(t, c, r) /\ UNCHANGED <<live, consts, evals>>
      /\ t \in live /\ s # <<>> /\ Last(s).kind = "const" /\ Stack(s)
  BY InvSays DEF LookAgain, Runs, top
<1>2. /\ c \in Const /\ Stack(r)
      /\ r # <<>> => Last(r).kind # "const"
      /\ \A i \in 1 .. Len(r) : Level(r[i]) < Rank[Home[c]]
  <2> HIDE DEF s
  <2> QED
    BY <1>1, LookIs
<1>3. SameLoads(r, s)
  <2>1. /\ Len(s) \in Nat /\ \A i \in 1 .. Len(s) - 1 : r[i] = s[i]
        /\ LoadsOf(r) = LoadsOf(s) \ {Len(s)}
    BY <1>1, FrontIs
  <2>2. Len(s) \notin LoadsOf(s)
    BY <1>1, StackLen DEF LoadsOf
  <2> QED
    BY <2>1, <2>2 DEF SameLoads, LoadsOf
<1> HIDE DEF c, r
<1> QED
  BY <1>1, <1>2, <1>3, ConstGets

\* The definition of a constant keeps it.
LEMMA DefineInv == ASSUME LoadConstants, LoadInv, NEW t \in Thread, Define(t) PROVE LoadInv'
<1> DEFINE s == acts[t]
<1>1. /\ AtStep(t, "define") /\ consts' = consts \cup {step(t).arg}
      /\ acts' = [acts EXCEPT ![t] = Back(s)]
      /\ UNCHANGED <<live, rb_features, loading_thread, loading_nest, autoload_tbl, jump, evals>>
  BY DEF Define
<1>2. /\ t \in live /\ s # <<>> /\ top(t).kind \in {"require", "load"} /\ top(t) = Last(s)
      /\ step(t).arg \in Const /\ Stack(s) /\ SameLoads(s, s) /\ Types /\ Locked
  BY <1>1, StepIs, InvSays DEF top
<1>3. Last(s).kind # "const"
  BY <1>2
<1>4. Required(t)
  BY <1>1, <1>2, <1>3, Returns
<1> QED
  BY <1>1, <1>2, <1>4, RequiredInv DEF Types

\* load keeps it.
LEMMA CallLoadInv == ASSUME LoadConstants, LoadInv, NEW t \in Thread, CallLoad(t) PROVE LoadInv'
<1>1. /\ t \in live /\ acts[t] = <<>> /\ Stack(<<>>) /\ Types /\ Locked
      /\ UNCHANGED <<live, rb_features, loading_thread, loading_nest, autoload_tbl, consts, evals>>
  BY OutsideIs, InvSays DEF CallLoad, Outside, Runs, table
<1>2. CASE Raise(t) /\ UNCHANGED acts
  BY <1>1, <1>2 DEF LoadInv, Types, Stacks, OneLoader, Unprovided, EvaluatedOnce, LooksAfter,
                    Loads, Runs, top, rb_provided, Raise
<1>3. ASSUME NEW f \in File, acts' = [acts EXCEPT ![t] = <<Act("load", f, 1)>>], UNCHANGED jump
      PROVE  LoadInv'
  <2> DEFINE a == Act("load", f, 1)
             r == <<a>>
  <2>1. a \in Activation /\ a.kind = "load" /\ a.file = f /\ a.pos = 1
    BY DEF Act, Activation, Kind
  <2> HIDE DEF a
  <2>2. r \in Seq(Activation) /\ Len(r) = 1 /\ r[1] = a
    BY <2>1
  <2> HIDE DEF r
  <2>3. \A i \in 1 .. 1 : i = 1
    OBVIOUS
  <2>4. Stack(r)
    BY <2>1, <2>2, <2>3 DEF Stack
  <2>5. LoadsOf(r) = {} /\ r # <<>> /\ Last(r) = a
    BY <2>1, <2>2, <2>3, <2>4, StackLen DEF LoadsOf
  <2>6. SameLoads(r, acts[t])
    BY <1>1, <2>5, StackEmpty DEF SameLoads
  <2>7. acts' = [acts EXCEPT ![t] = r]
    BY <1>3 DEF r, a
  <2>8. Locked'
    BY <1>1, <2>4, <2>6, <2>7, LockKept DEF Types
  <2>9. Required(t)
    BY <1>1, <2>1, <2>5, <2>7, <2>8 DEF Required, Looks, Types
  <2> QED
    BY <1>1, <1>3, <2>9, RequiredInv DEF Types
<1> QED
  BY <1>2, <1>3 DEF CallLoad

\* thread_loading_done() leaves a count and a thread, or nobody.
LEMMA NestCounts ==
  ASSUME LoadConstants, Types, Locked, NEW t \in live, acts[t] # <<>>, top(t).kind = "require",
         thread_loading_done
  PROVE  loading_nest' \in Nat /\ loading_thread' \in Thread \cup {NoThread}
<1>1. t \in Thread /\ t # NoThread /\ Stack(acts[t])
  BY DEF Types, LoadConstants, Locked, Stacks
<1>2. Len(acts[t]) \in LoadsOf(acts[t])
  BY <1>1, StackLen DEF LoadsOf, top
<1>3. loading_thread = t
  BY <1>1, <1>2, LoadsAre DEF Locked, OneLoader
<1>4. loading_nest # 0 /\ loading_nest \in Nat
  BY <1>1, <1>3 DEF Locked, OneLoader, Types
<1> QED
  BY <1>1, <1>3, <1>4 DEF thread_loading_done

\* rb_provide() and thread_loading_done(), or the end of a load().
LEMMA FinishInv == ASSUME LoadConstants, LoadInv, NEW t \in Thread, Finish(t) PROVE LoadInv'
<1> DEFINE s == acts[t]
           w == Front(s)
           r == Back(w)
           n == Len(s)
           f == top(t).file
<1>1. /\ t \in live /\ s # <<>> /\ top(t) = Last(s) /\ Last(s).kind \in {"require", "load"}
      /\ Stack(s) /\ f \in File /\ Types /\ Locked
      /\ acts' = [acts EXCEPT ![t] = r]
      /\ evals' = [evals EXCEPT ![f] = IF top(t).kind = "require" THEN @ + 1 ELSE @]
      /\ UNCHANGED <<live, autoload_tbl, consts, jump>>
  BY InvSays DEF Finish, Evaluates, Runs, table, top
<1> HIDE DEF f
<1>2. /\ Stack(w) /\ n \in Nat /\ n > 0 /\ Len(w) = n - 1
      /\ \A i \in 1 .. n - 1 : w[i] = s[i]
      /\ LoadsOf(w) = LoadsOf(s) \ {n}
  BY <1>1, FrontIs
<1>3. Stack(r) /\ Alike(r, w)
  BY <1>2, BackIs
<1>4. SameLoads(r, w)
  BY <1>2, <1>3, AlikeLoads
<1>5. /\ r # <<>> => Last(r) = r[Len(r)] /\ Len(r) \in 1 .. Len(r)
      /\ Last(s) = s[n] /\ n \in 1 .. n
  BY <1>1, <1>3, StackLen
<1>6. r # <<>> /\ Last(r).kind = "const" => Last(s).kind = "require" /\ Home[Last(r).file] = f
  <2> SUFFICES ASSUME r # <<>>, Last(r).kind = "const"
               PROVE  Last(s).kind = "require" /\ Home[Last(r).file] = f
    OBVIOUS
  <2>1. Len(r) = n - 1 /\ n - 1 \in 1 .. n - 1
    BY <1>2, <1>3, <1>5 DEF Alike
  <2>2. Last(r).kind = s[n - 1].kind /\ Last(r).file = s[n - 1].file
    BY <1>2, <1>3, <1>5, <2>1 DEF Alike
  <2>3. s[n - 1].kind = "const" /\ n - 1 \in 1 .. n /\ (n - 1) + 1 = n
    BY <1>2, <2>1, <2>2
  <2>4. Last(s).kind \in {"require", "wait"} /\ Last(s).file = Home[s[n - 1].file]
    BY <1>1, <1>5, <2>3 DEF Stack
  <2> QED
    BY <1>1, <2>2, <2>4 DEF f
<1> HIDE DEF r, w
<1>7. t \in Thread /\ DOMAIN acts = Thread /\ acts'[t] = r /\ \A u \in Thread : u # t => acts'[u] = acts[u]
  BY <1>1 DEF Types
<1>8. CASE top(t).kind = "require"
  <2>1. rb_features' = rb_features \cup {f} /\ thread_loading_done
    BY <1>8 DEF Finish, rb_provide, f
  <2>2. Locked'
    BY <1>1, <1>3, <1>4, <1>8, <2>1, LockDone DEF w, f
  <2>3. f \notin rb_features
    <3>1. n \in LoadsOf(s) /\ s[n].file = f
      BY <1>1, <1>5, <1>8 DEF LoadsOf, f
    <3>2. \A u \in Thread : \A i \in LoadsOf(acts[u]) : acts[u][i].file \notin rb_features
      BY <1>1 DEF Locked, Unprovided
    <3>3. s[n].file \notin rb_features
      BY <1>7, <3>1, <3>2
    <3> HIDE DEF s, n
    <3> QED
      BY <3>1, <3>3
  <2>4. evals' = [evals EXCEPT ![f] = @ + 1] /\ evals \in [File -> Nat]
    BY <1>1, <1>8 DEF Types
  <2>5. EvaluatedOnce'
    BY <1>1, <2>1, <2>3, <2>4 DEF LoadInv, EvaluatedOnce, rb_provided
  <2>6. LooksAfter'
    <3>1. Looks(jump[t], acts[t])'
      BY <1>6, <1>7, <2>1 DEF Looks
    <3> QED
      BY <1>1, <1>7, <2>1, <3>1, LooksKept DEF LoadInv
  <2>7. loading_nest' \in Nat /\ loading_thread' \in Thread \cup {NoThread}
    BY <1>1, <1>8, <2>1, NestCounts
  <2>8. Types'
    BY <1>1, <1>7, <2>1, <2>4, <2>7 DEF Types
  <2> QED
    BY <2>2, <2>5, <2>6, <2>8 DEF LoadInv, Locked
<1>9. CASE top(t).kind # "require"
  <2>1. UNCHANGED <<rb_features, loading_thread, loading_nest>>
    BY <1>9 DEF Finish
  <2>2. evals' = evals
    BY <1>1, <1>9 DEF Types
  <2>3. SameLoads(r, s)
    <3>1. n \notin LoadsOf(s)
      BY <1>1, <1>5, <1>9 DEF LoadsOf
    <3>2. LoadsOf(w) = LoadsOf(s) /\ \A i \in LoadsOf(s) : w[i] = s[i]
      BY <1>2, <3>1 DEF LoadsOf
    <3> QED
      BY <1>4, <3>2 DEF SameLoads
  <2>4. Locked'
    BY <1>1, <1>3, <2>1, <2>3, LockKept DEF Types
  <2>5. Required(t)
    BY <1>1, <1>6, <1>7, <1>9, <2>1, <2>4 DEF Required, Looks, Types
  <2> QED
    BY <1>1, <2>1, <2>2, <2>5, RequiredInv DEF Types
<1> QED
  BY <1>8, <1>9

\* An exception leaves an activation.
LEMMA UnwindInv == ASSUME LoadConstants, LoadInv, NEW t \in Thread, Unwind(t) PROVE LoadInv'
<1> DEFINE s == acts[t]
           r == Front(s)
           n == Len(s)
<1>1. /\ t \in live /\ s # <<>> /\ top(t) = Last(s) /\ Stack(s) /\ Types /\ Locked
      /\ jump[t] # "none" /\ acts' = [acts EXCEPT ![t] = r]
      /\ UNCHANGED <<live, rb_features, autoload_tbl, consts, jump, evals>>
  BY InvSays DEF Unwind, table, top
<1>2. /\ Stack(r) /\ n \in Nat /\ n > 0 /\ Len(r) = n - 1
      /\ \A i \in 1 .. n - 1 : r[i] = s[i]
      /\ LoadsOf(r) = LoadsOf(s) \ {n}
      /\ Last(s) = s[n] /\ n \in 1 .. n
  BY <1>1, FrontIs, StackLen
<1>3. Looks(jump'[t], acts'[t])
  BY <1>1 DEF Looks
<1>4. CASE top(t).kind = "require"
  <2>1. Locked'
    <3>1. thread_loading_done
      BY <1>4 DEF Unwind
    <3>2. SameLoads(r, r)
      BY DEF SameLoads
    <3> QED
      BY <1>1, <1>2, <1>4, <3>1, <3>2, LockDone
  <2>2. loading_nest' \in Nat /\ loading_thread' \in Thread \cup {NoThread}
    BY <1>1, <1>4, NestCounts DEF Unwind
  <2>3. Required(t)
    BY <1>1, <1>3, <2>1, <2>2 DEF Required, Types
  <2> QED
    BY <1>1, <2>3, RequiredInv DEF Types
<1>5. CASE top(t).kind # "require"
  <2>1. UNCHANGED <<loading_thread, loading_nest>>
    BY <1>5 DEF Unwind
  <2>2. SameLoads(r, s)
    <3>1. n \notin LoadsOf(s)
      BY <1>1, <1>2, <1>5 DEF LoadsOf
    <3> QED
      BY <1>2, <3>1 DEF SameLoads, LoadsOf
  <2>3. Locked'
    BY <1>1, <1>2, <2>1, <2>2, LockKept DEF Types
  <2>4. Required(t)
    BY <1>1, <1>3, <2>1, <2>3 DEF Required, Types
  <2> QED
    BY <1>1, <2>4, RequiredInv DEF Types
<1> QED
  BY <1>4, <1>5

\* A rescue keeps the invariant.
LEMMA RescueInv == ASSUME LoadConstants, LoadInv, NEW t \in Thread, Rescue(t) PROVE LoadInv'
<1> DEFINE s == acts[t]
           r == Back(s)
<1>1. /\ t \in live /\ Types /\ Locked /\ Stack(s) /\ SameLoads(s, s)
      /\ s # <<>> => Last(s).kind # "const"
      /\ acts' = [acts EXCEPT ![t] = r] /\ jump' = [jump EXCEPT ![t] = "none"]
      /\ UNCHANGED <<live, rb_features, loading_thread, loading_nest, autoload_tbl, consts, evals>>
  BY InvSays DEF Rescue, top, table
<1>2. Required(t)
  BY <1>1, Returns
<1>3. t \in Thread /\ jump \in [Thread -> {"none", "raise", "kill"}]
  BY <1>1 DEF Types
<1>4. LooksAfter'
  <2>1. Looks(jump[t], acts[t])'
    BY <1>1, <1>2 DEF Required, Looks
  <2> QED
    BY <1>1, <1>2, <1>3, <2>1, LooksKept DEF LoadInv, Required
<1>5. Types'
  BY <1>1, <1>2, <1>3 DEF Types, Required
<1>6. EvaluatedOnce'
  BY <1>1 DEF LoadInv, EvaluatedOnce, rb_provided
<1> QED
  BY <1>2, <1>4, <1>5, <1>6 DEF LoadInv, Required, Locked

\* Exceptions, and the start and the end of threads.
LEMMA ThreadsInv ==
  ASSUME LoadConstants, LoadInv, NEW t \in Thread, Fails(t) \/ Start(t) \/ Ends(t) \/ f_autoload(t)
  PROVE  LoadInv'
<1>1. CASE Fails(t)
  BY <1>1 DEF Fails, LoadInv, Types, Stacks, OneLoader, Unprovided, EvaluatedOnce, LooksAfter,
              Loads, Runs, top, rb_provided, table
<1>2. CASE f_autoload(t)
  BY <1>2 DEF f_autoload, LoadInv, Types, Stacks, OneLoader, Unprovided, EvaluatedOnce,
              LooksAfter, Loads, Runs, top, rb_provided
<1>3. CASE Start(t)
  <2>1. acts[t] = <<>>
    BY <1>3 DEF Start, LoadInv, Stacks
  <2> QED
    BY <1>3, <2>1 DEF Start, LoadInv, Types, Stacks, OneLoader, Unprovided, EvaluatedOnce,
                      LooksAfter, Loads, Runs, top, rb_provided, table
<1>4. CASE Ends(t)
  BY <1>4 DEF Ends, LoadInv, Types, Stacks, OneLoader, Unprovided, EvaluatedOnce, LooksAfter,
              Loads, Runs, top, rb_provided, table
<1> QED
  BY <1>1, <1>2, <1>3, <1>4

\* The invariant holds at first.
LEMMA LoadInit == ASSUME LoadConstants PROVE Init => LoadInv
<1> SUFFICES ASSUME Init PROVE LoadInv
  OBVIOUS
<1>1. \A t \in Thread : acts[t] = <<>> /\ DOMAIN acts[t] = {}
  BY DEF Init
<1>2. Types
  BY DEF Init, Types, LoadConstants
<1>3. Stacks /\ Unprovided
  BY <1>1, StackEmpty DEF Stacks, Unprovided
<1>4. OneLoader
  BY <1>1 DEF OneLoader, Loads, Init
<1>5. EvaluatedOnce /\ LooksAfter
  BY <1>1 DEF EvaluatedOnce, LooksAfter, rb_provided, Init
<1> QED
  BY <1>2, <1>3, <1>4, <1>5 DEF LoadInv

\* Every step keeps it.
LEMMA LoadStep == ASSUME LoadConstants PROVE LoadInv /\ [Next]_vars => LoadInv'
<1> SUFFICES ASSUME LoadInv, [Next]_vars PROVE LoadInv'
  OBVIOUS
<1>1. CASE UNCHANGED vars
  BY <1>1 DEF vars, table, LoadInv, Types, Stacks, OneLoader, Unprovided, EvaluatedOnce,
              LooksAfter, Loads, Runs, top, rb_provided
<1>2. ASSUME NEW t \in Thread, Goes(t) PROVE LoadInv'
  BY <1>2, SpinsInv, FinishInv, StepRequireInv, DefineInv, StepUseInv, LookAgainInv, UnwindInv,
     RescueInv DEF Goes
<1>3. ASSUME NEW t \in Thread, CallRequire(t) \/ CallLoad(t) \/ CallUse(t) PROVE LoadInv'
  BY <1>3, CallRequireInv, CallLoadInv, CallUseInv
<1>4. ASSUME NEW t \in Thread, Fails(t) \/ Start(t) \/ Ends(t) \/ f_autoload(t) PROVE LoadInv'
  BY <1>4, ThreadsInv
<1> QED
  BY <1>1, <1>2, <1>3, <1>4 DEF Next

\* What the activations of a thread are made of.
LEMMA LoadType == ASSUME LoadInv PROVE TypeOK
<1>1. \A t \in Thread : \A i \in DOMAIN acts[t] :
        acts[t][i].kind \in Kind /\ acts[t][i].file \in File \cup Const
  <2> TAKE t \in Thread
  <2>1. Stack(acts[t])
    BY DEF LoadInv, Stacks
  <2>2. \A s : Stack(s) => \A i \in DOMAIN s : s[i].kind \in Kind /\ s[i].file \in File \cup Const
    BY StackLen, StackElement
  <2> QED
    BY <2>1, <2>2
<1> QED
  BY <1>1 DEF LoadInv, Types, TypeOK

\* Whatever fails on the way and whoever waits: one thread loads at a time and knows
\* how deep it is in its files, every file is evaluated to its end at most once and
\* is provided from then on, and a constant is looked up again behind it only.
THEOREM LoadSafe ==
  ASSUME LoadConstants
  PROVE  Spec => [](TypeOK /\ OneLoader /\ EvaluatedOnce /\ LooksAfter)
<1>1. LoadInv => TypeOK /\ OneLoader /\ EvaluatedOnce /\ LooksAfter
  BY LoadType DEF LoadInv
<1> QED
  BY <1>1, LoadInit, LoadStep, PTL DEF Spec

=============================================================================
