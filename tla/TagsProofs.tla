----------------------------- MODULE TagsProofs -----------------------------
(***************************************************************************)
(* Proofs about the jumps of the evaluator (eval.c): for any depth of the  *)
(* stack and any programs.                                                 *)
(***************************************************************************)
EXTENDS MCControl, Sequences, WellFoundedInduction, SequenceTheorems, TLAPS

-----------------------------------------------------------------------------
(***************************************************************************)
(* Types.                                                                  *)
(***************************************************************************)

Regs == [frame : Nat, iter : Nat, block : Nat, scope : Nat, tag : Nat]
Zero == [frame |-> 0, iter |-> 0, block |-> 0, scope |-> 0, tag |-> 0]
Blks == [level : 0 .. MaxDepth, scope : Nat, fiter : 0 .. 2, iter : 0 .. 2, prev : Nat, home : Nat]
Jumps == [tag : T!Tag \cup {"none"}, in : BOOLEAN, tlev : 0 .. MaxDepth, name : Name \cup {"none"},
          scope : Nat, home : Nat, proc : BOOLEAN]
Acts ==
  [kind : {"top", "while", "iter", "args", "meth", "cfunc", "rescue", "ensure", "catch", "proc", "yield"},
   phase : {"body", "pre", "called", "call", "assign", "clause"},
   old : Regs, tframe : Nat, titer : Nat, iter : 0 .. 2, fiter : 0 .. 2, blk : Blks, given : Nat,
   pend : Jumps, name : Name \cup {"none"}]

-----------------------------------------------------------------------------
(***************************************************************************)
(* The inductive invariant: the activations are linked by the globals that *)
(* they keep, which are those that the activations below have left.        *)
(***************************************************************************)

\* The globals after the first n activations of s, the globals being g.
At(s, g, n) == IF n = Len(s) THEN g ELSE s[n + 1].old

\* What the activation r, the n-th of s, makes of them, and the n-th of s itself.
Made(s, r, n) ==
  LET u == r.old
  IN [frame |-> IF T!HasFrame(r) THEN n ELSE u.frame,
      iter |-> IF T!HasIter(r) THEN n ELSE u.iter,
      block |-> IF T!HasBlock(r) THEN n
                ELSE IF r.kind = "yield" THEN s[u.block].blk.prev ELSE u.block,
      scope |-> IF T!HasScope(r) THEN n
                ELSE IF r.kind = "yield" THEN s[u.block].blk.scope ELSE u.scope,
      tag |-> IF T!HasTag(r) THEN n ELSE u.tag]

After(s, n) == Made(s, s[n], n)

\* The globals u name activations among the first n, the tag the last that has one,
\* and no block of a Proc but the last.
Names(s, u, n) ==
  /\ u.frame \in 1 .. n /\ T!HasFrame(s[u.frame])
  /\ u.iter \in 1 .. n /\ T!HasIter(s[u.iter])
  /\ u.tag \in 1 .. n /\ T!HasTag(s[u.tag]) /\ \A m \in u.tag + 1 .. n : ~T!HasTag(s[m])
  /\ u.block \in 0 .. n
  /\ u.block > 0 => T!HasBlock(s[u.block]) /\ (s[u.block].kind = "proc" => u.block = n)
  /\ u.scope \in 0 .. n /\ (u.scope > 0 => T!HasScope(s[u.scope]))

\* A block b of the activation n names a scope and a NODE_ITER that are there, or
\* are n itself.
Block(s, b, n) ==
  /\ b.scope \in 0 .. n - 1 /\ (b.scope > 0 => T!HasScope(s[b.scope]))
  /\ b.home \in 0 .. n /\ (b.home \in 1 .. n - 1 => s[b.home].kind = "iter")

\* A Proc's block b, while n activations are there.
Held(s, b, n) == Block(s, b, n + 1) /\ b.home <= n

\* A break or return j, under way where u are the globals of the first m, was written
\* in the method that is running; or it has left a block, that of the activation q, and
\* its level and the method it was written in are those of q.
Right(s, j, u, m) ==
  /\ j.in => /\ j.tag \in {"BREAK", "RETURN"}
             /\ \E q \in 1 .. m : /\ T!HasBlock(s[q]) /\ (s[q].kind = "proc" => q = m)
                                  /\ j.tlev = s[q].blk.level /\ j.home = s[q].blk.home
                                  /\ j.proc \/ j.scope = s[q].blk.scope
  /\ j.tag \in {"BREAK", "RETURN"} /\ ~j.in => j.proc \/ j.scope = u.scope

\* The activation n keeps what its kind must keep.  Only a yield tops a Proc.
Keeps(s, n) ==
  LET r == s[n] IN
  /\ r.kind = "top" <=> n = 1
  /\ r.kind = "top" => r.old = Zero
  /\ r.kind = "yield" => r.phase \in {"assign", "body"} /\ r.old.block > 0
  /\ r.kind = "ensure" => r.phase \in {"body", "clause"}
  /\ T!HasBlock(r) => /\ Block(s, r.blk, n) /\ r.blk.prev = r.old.block
                      /\ r.blk.home = n => r.kind = "iter"
  /\ r.kind = "iter" => r.blk.home = n /\ r.blk.level = r.old.tag /\ r.blk.scope = r.old.scope
  /\ r.kind \notin {"top", "yield"} => s[n - 1].kind # "proc"
  /\ Right(s, r.pend, r.old, n - 1)
  /\ T!HasTag(r) => r.tframe = After(s, n).frame
                    /\ r.titer = IF r.kind = "iter" THEN r.old.iter ELSE After(s, n).iter

Linked(s, g) ==
  /\ s \in Seq(Acts) /\ Len(s) \in 1 .. MaxDepth /\ g \in Regs
  /\ \A n \in 1 .. Len(s) : /\ At(s, g, n) = After(s, n)
                            /\ Names(s, At(s, g, n), n)
                            /\ Keeps(s, n)

TagsInv ==
  /\ Len(t_stack) \in 0 .. MaxDepth /\ t_stack \in Seq(Acts)
  /\ jump \in Jumps /\ proc \in Blks /\ stray \in BOOLEAN
  /\ Held(t_stack, proc, Len(t_stack))
  /\ Len(t_stack) > 0 /\ ~stray => Linked(t_stack, reg) /\ Right(t_stack, jump, reg, Len(t_stack))

-----------------------------------------------------------------------------
(***************************************************************************)
(* Activations and stacks of them.                                         *)
(***************************************************************************)

\* What an activation is made of.
LEMMA ActIs ==
  ASSUME NEW r \in Acts
  PROVE  /\ r.old \in Regs /\ r.blk \in Blks /\ r.pend \in Jumps
         /\ r.tframe \in Nat /\ r.titer \in Nat /\ r.given \in Nat
         /\ r.iter \in 0 .. 2 /\ r.fiter \in 0 .. 2 /\ r.name \in Name \cup {"none"}
BY DEF Acts

\* What the globals are made of.
LEMMA RegIs ==
  ASSUME NEW u \in Regs
  PROVE  /\ u.frame \in Nat /\ u.iter \in Nat /\ u.block \in Nat /\ u.scope \in Nat /\ u.tag \in Nat
         /\ u = [frame |-> u.frame, iter |-> u.iter, block |-> u.block, scope |-> u.scope, tag |-> u.tag]
BY DEF Regs

\* Globals that agree in everything are the same.
LEMMA RegsSame ==
  ASSUME NEW u \in Regs, NEW v \in Regs, u.frame = v.frame, u.iter = v.iter, u.block = v.block,
         u.scope = v.scope, u.tag = v.tag
  PROVE  u = v
BY DEF Regs

\* What a block is made of.
LEMMA BlkIs ==
  ASSUME NEW b \in Blks
  PROVE  /\ b.level \in 0 .. MaxDepth /\ b.scope \in Nat /\ b.fiter \in 0 .. 2 /\ b.iter \in 0 .. 2
         /\ b.prev \in Nat /\ b.home \in Nat
BY DEF Blks

\* What is known of a stack s that is linked, the globals being g.
LEMMA LinkedIs ==
  ASSUME NEW s, NEW g, Linked(s, g)
  PROVE  /\ s \in Seq(Acts) /\ Len(s) \in Nat /\ Len(s) > 0 /\ Len(s) <= MaxDepth /\ Len(s) \in 1 .. Len(s)
         /\ \A n \in 1 .. Len(s) : s[n] \in Acts /\ s[n].old \in Regs /\ s[n].blk \in Blks
         /\ g \in Regs /\ g = After(s, Len(s)) /\ Names(s, g, Len(s))
         /\ \A n \in 1 .. Len(s) : Keeps(s, n)
         /\ \A n \in 2 .. Len(s) : /\ s[n].old = After(s, n - 1) /\ Names(s, s[n].old, n - 1)
                                   /\ At(s, g, n - 1) = s[n].old
<1>1. s \in Seq(Acts) /\ Len(s) \in Nat /\ Len(s) > 0 /\ Len(s) <= MaxDepth /\ Len(s) \in 1 .. Len(s)
      /\ g \in Regs
  <2>1. s \in Seq(Acts) /\ Len(s) \in 1 .. MaxDepth /\ g \in Regs
    BY DEF Linked
  <2>2. Len(s) \in Nat
    BY <2>1, LenProperties
  <2> QED
    BY <2>1, <2>2, ControlAssumption
<1>2. \A n \in 1 .. Len(s) : s[n] \in Acts /\ s[n].old \in Regs /\ s[n].blk \in Blks
  BY <1>1, ElementOfSeq, ActIs
<1>3. \A n \in 1 .. Len(s) : At(s, g, n) = After(s, n) /\ Names(s, At(s, g, n), n) /\ Keeps(s, n)
  BY DEF Linked
<1>4. g = After(s, Len(s)) /\ Names(s, g, Len(s))
  <2>1. At(s, g, Len(s)) = g
    BY DEF At
  <2> QED
    BY <1>1, <1>3, <2>1
<1>5. ASSUME NEW n \in 2 .. Len(s)
      PROVE  s[n].old = After(s, n - 1) /\ Names(s, s[n].old, n - 1) /\ At(s, g, n - 1) = s[n].old
  <2>1. n - 1 \in 1 .. Len(s) /\ n - 1 # Len(s) /\ n - 1 + 1 = n
    BY <1>1
  <2>2. At(s, g, n - 1) = s[n].old
    BY <2>1 DEF At
  <2> QED
    BY <1>3, <2>1, <2>2
<1> QED
  BY <1>1, <1>2, <1>3, <1>4, <1>5

\* A block is not the program's, and what it names lies below it.
LEMMA BlockBelow ==
  ASSUME NEW s, NEW g, Linked(s, g), NEW b \in 1 .. Len(s), T!HasBlock(s[b])
  PROVE  /\ b \in 2 .. Len(s) /\ s[b].blk.prev \in 0 .. b - 1 /\ s[b].blk.scope \in 0 .. b - 1
         /\ s[b].blk.prev > 0 => T!HasBlock(s[s[b].blk.prev])
         /\ s[b].blk.scope > 0 => T!HasScope(s[s[b].blk.scope])
         /\ s[b].blk.prev = s[b].old.block
<1>1. Len(s) \in Nat /\ Keeps(s, b)
  BY LinkedIs
<1>2. b # 1
  BY <1>1 DEF Keeps, T!HasBlock
<1>3. b \in 2 .. Len(s)
  BY <1>1, <1>2
<1>4. Names(s, s[b].old, b - 1)
  BY <1>3, LinkedIs
<1>5. s[b].blk.prev = s[b].old.block /\ Block(s, s[b].blk, b)
  BY <1>1 DEF Keeps
<1> QED
  BY <1>3, <1>4, <1>5 DEF Names, Block

\* Where the block of a yield is.
LEMMA YieldBlock ==
  ASSUME NEW s, NEW g, Linked(s, g), NEW n \in 1 .. Len(s), s[n].kind = "yield"
  PROVE  n \in 2 .. Len(s) /\ s[n].old.block \in 1 .. n - 1 /\ T!HasBlock(s[s[n].old.block])
<1>1. Len(s) \in Nat /\ Keeps(s, n)
  BY LinkedIs
<1>2. n # 1 /\ s[n].old.block > 0
  BY <1>1 DEF Keeps
<1>3. n \in 2 .. Len(s)
  BY <1>1, <1>2
<1>4. Names(s, s[n].old, n - 1)
  BY <1>3, LinkedIs
<1> QED
  BY <1>2, <1>3, <1>4 DEF Names

\* Two activations that differ at most in their progress.
Like(a, b) ==
  /\ a.kind = b.kind /\ a.old = b.old /\ a.blk = b.blk /\ a.tframe = b.tframe /\ a.titer = b.titer
  /\ a.pend = b.pend
  /\ a.kind \in {"yield", "ensure"} => a.phase = b.phase

\* Activations that differ in their progress keep the same structures.
LEMMA LikeHas ==
  ASSUME NEW a, NEW b, Like(a, b)
  PROVE  /\ T!HasTag(a) <=> T!HasTag(b)
         /\ T!HasIter(a) <=> T!HasIter(b)
         /\ T!HasFrame(a) <=> T!HasFrame(b)
         /\ T!HasBlock(a) <=> T!HasBlock(b)
         /\ T!HasScope(a) <=> T!HasScope(b)
BY DEF Like, T!HasTag, T!HasIter, T!HasFrame, T!HasBlock, T!HasScope

\* r is what s is up to m.
Prefix(r, s, m) == r \in Seq(Acts) /\ Len(r) = m /\ \A i \in 1 .. m : Like(r[i], s[i])

\* A jump is right for a stack that differs in its progress only.
LEMMA RightSame ==
  ASSUME NEW s, NEW r, NEW m \in Nat, \A i \in 1 .. m : Like(r[i], s[i]), NEW j, NEW u, Right(s, j, u, m)
  PROVE  Right(r, j, u, m)
<1>1. ASSUME NEW q \in 1 .. m
      PROVE  /\ T!HasBlock(r[q]) <=> T!HasBlock(s[q])
             /\ r[q].kind = s[q].kind /\ r[q].blk = s[q].blk
  BY <1>1, LikeHas DEF Like
<1> QED
  BY <1>1 DEF Right

\* A jump that is none, or is no break and no return.
LEMMA RightNone ==
  ASSUME NEW j, j.in = FALSE, j.tag \notin {"BREAK", "RETURN"}, NEW s, NEW u, NEW m
  PROVE  Right(s, j, u, m)
BY DEF Right

\* What a stack says of the first n activations is said by those up to m.
LEMMA SameBelow ==
  ASSUME NEW s, NEW g, Linked(s, g), NEW m \in 1 .. Len(s), NEW r, \A i \in 1 .. m : Like(r[i], s[i]),
         NEW n \in 1 .. m
  PROVE  /\ After(r, n) = After(s, n) /\ Keeps(r, n)
         /\ \A u : Names(s, u, n) => Names(r, u, n)
<1>1. Len(s) \in Nat /\ n \in 1 .. Len(s) /\ Keeps(s, n)
  BY LinkedIs
<1>2. Like(r[n], s[n])
  OBVIOUS
<1>2a. /\ T!HasTag(r[n]) <=> T!HasTag(s[n])
       /\ T!HasIter(r[n]) <=> T!HasIter(s[n])
       /\ T!HasFrame(r[n]) <=> T!HasFrame(s[n])
       /\ T!HasBlock(r[n]) <=> T!HasBlock(s[n])
       /\ T!HasScope(r[n]) <=> T!HasScope(s[n])
  BY <1>2, LikeHas
<1>3. s[n].kind = "yield" => r[s[n].old.block].blk = s[s[n].old.block].blk
  <2>1. s[n].kind = "yield" => s[n].old.block \in 1 .. m
    BY <1>1, YieldBlock
  <2> QED
    BY <2>1 DEF Like
<1>4. After(r, n) = After(s, n)
  BY <1>2, <1>2a, <1>3 DEF After, Made, Like
<1>5. ASSUME NEW b, Block(s, b, n) PROVE Block(r, b, n)
  <2>1. /\ b.scope \in 0 .. n - 1 /\ (b.scope > 0 => T!HasScope(s[b.scope])) /\ b.home \in 0 .. n
        /\ b.home \in 1 .. n - 1 => s[b.home].kind = "iter"
    BY <1>5 DEF Block
  <2>2. b.scope > 0 => b.scope \in 1 .. m
    BY <2>1
  <2>2a. b.home \in 1 .. n - 1 => b.home \in 1 .. m
    OBVIOUS
  <2>2b. b.home \in 1 .. n - 1 => r[b.home].kind = "iter"
    BY <2>1, <2>2a DEF Like
  <2>3. b.scope > 0 => T!HasScope(r[b.scope])
    BY <2>1, <2>2, LikeHas
  <2> QED
    BY <2>1, <2>2b, <2>3 DEF Block
<1>6. Keeps(r, n)
  <2>1. Right(s, s[n].pend, s[n].old, n - 1) /\ n - 1 \in Nat
    BY <1>1 DEF Keeps
  <2>2. \A i \in 1 .. n - 1 : Like(r[i], s[i])
    BY <1>1
  <2>3. Right(r, r[n].pend, r[n].old, n - 1)
    BY <1>2, <2>1, <2>2, RightSame DEF Like
  <2>4. n # 1 => r[n - 1].kind = s[n - 1].kind
    BY <1>1, <2>2 DEF Like
  <2> QED
    BY <1>1, <1>2, <1>2a, <1>4, <1>5, <2>3, <2>4 DEF Keeps, Like
<1>7. ASSUME NEW u, Names(s, u, n) PROVE Names(r, u, n)
  <2>0. /\ u.frame \in 1 .. n /\ u.iter \in 1 .. n /\ u.tag \in 1 .. n
        /\ u.block \in 0 .. n /\ u.scope \in 0 .. n
    BY <1>7, Zenon DEF Names
  <2>1. /\ u.frame \in 1 .. m /\ u.iter \in 1 .. m /\ u.tag \in 1 .. m
        /\ u.block > 0 => u.block \in 1 .. m
        /\ u.scope > 0 => u.scope \in 1 .. m
    BY <2>0
  <2>1a. \A k \in u.tag + 1 .. n : k \in 1 .. m
    BY <1>1, <2>1
  <2>1b. u.block > 0 => r[u.block].kind = s[u.block].kind
    BY <2>1 DEF Like
  <2>2. /\ T!HasFrame(r[u.frame]) /\ T!HasIter(r[u.iter]) /\ T!HasTag(r[u.tag])
        /\ u.block > 0 => T!HasBlock(r[u.block])
        /\ u.scope > 0 => T!HasScope(r[u.scope])
        /\ \A k \in u.tag + 1 .. n : ~T!HasTag(r[k])
    BY <1>7, <2>1, <2>1a, LikeHas DEF Names
  <2> QED
    BY <1>7, <2>1b, <2>2 DEF Names
<1> QED
  BY <1>4, <1>6, <1>7

\* The activations above m end.
LEMMA PrefixLinked ==
  ASSUME NEW s, NEW g, Linked(s, g), NEW m \in 1 .. Len(s), NEW r, Prefix(r, s, m)
  PROVE  Linked(r, At(s, g, m))
<1> DEFINE h == At(s, g, m)
<1>1. /\ Len(s) \in Nat /\ Len(s) <= MaxDepth /\ r \in Seq(Acts) /\ Len(r) = m
      /\ \A i \in 1 .. m : Like(r[i], s[i])
      /\ MaxDepth \in Nat
  BY LinkedIs, ControlAssumption DEF Prefix
<1>2. h \in Regs
  <2>1. CASE m = Len(s)
    BY <2>1, LinkedIs DEF At
  <2>2. CASE m # Len(s)
    <3>1. m + 1 \in 1 .. Len(s)
      BY <1>1, <2>2
    <3> QED
      BY <2>2, <3>1, LinkedIs DEF At
  <2> QED
    BY <2>1, <2>2
<1>3. ASSUME NEW n \in 1 .. m PROVE At(r, h, n) = At(s, g, n)
  <2>1. CASE n = m
    BY <1>1, <2>1 DEF At
  <2>2. CASE n # m
    <3>1. n # Len(s) /\ n # Len(r) /\ Like(r[n + 1], s[n + 1])
      BY <1>1, <2>2
    <3> QED
      BY <3>1 DEF At, Like
  <2> QED
    BY <2>1, <2>2
<1>4. \A n \in 1 .. m : n \in 1 .. Len(s)
  BY <1>1
<1> HIDE DEF h
<1>5. ASSUME NEW n \in 1 .. m PROVE At(r, h, n) = After(r, n) /\ Names(r, At(r, h, n), n) /\ Keeps(r, n)
  <2>1. At(s, g, n) = After(s, n) /\ Names(s, At(s, g, n), n) /\ Keeps(s, n)
    BY <1>4 DEF Linked
  <2> QED
    BY <1>1, <1>3, <2>1, SameBelow
<1>6. Len(r) \in 1 .. MaxDepth
  BY <1>1
<1> QED
  BY <1>1, <1>2, <1>5, <1>6 DEF Linked, h

\* What an activation f brings that is put as the n-th on the first n - 1 of s.
Fits(s, f, n) ==
  /\ f \in Acts /\ f.kind # "top"
  /\ f.kind = "yield" => f.phase \in {"assign", "body"} /\ f.old.block > 0
  /\ f.kind = "ensure" => f.phase \in {"body", "clause"}
  /\ T!HasBlock(f) => /\ Block(s, f.blk, n) /\ f.blk.prev = f.old.block
                      /\ f.blk.home = n => f.kind = "iter"
  /\ f.kind = "iter" => f.blk.home = n /\ f.blk.level = f.old.tag /\ f.blk.scope = f.old.scope
  /\ f.kind # "yield" => s[n - 1].kind # "proc"
  /\ Right(s, f.pend, f.old, n - 1)
  /\ T!HasTag(f) => f.tframe = Made(s, f, n).frame
                    /\ f.titer = IF f.kind = "iter" THEN f.old.iter ELSE Made(s, f, n).iter

\* r is the first n - 1 activations of s, and f.
Topped(r, s, f, n) ==
  /\ r \in Seq(Acts) /\ Len(r) = n /\ r[n] = f
  /\ \A i \in 1 .. n - 1 : Like(r[i], s[i])

\* An activation begins, or goes on in another way.
LEMMA PushLinked ==
  ASSUME NEW s, NEW g, Linked(s, g), NEW n \in 2 .. MaxDepth, n <= Len(s) + 1, NEW f, Fits(s, f, n),
         f.old = At(s, g, n - 1), NEW r, Topped(r, s, f, n)
  PROVE  Linked(r, Made(s, f, n))
<1> DEFINE h == Made(s, f, n)
           m == n - 1
           u == f.old
<1>1. /\ Len(s) \in Nat /\ MaxDepth \in Nat /\ m \in 1 .. Len(s) /\ m \in Nat /\ n = m + 1
      /\ r \in Seq(Acts) /\ Len(r) = n /\ r[n] = f /\ Len(r) \in 1 .. MaxDepth
      /\ \A i \in 1 .. m : Like(r[i], s[i]) /\ i # n
      /\ n \in 1 .. n
  <2>1. Len(s) \in Nat /\ MaxDepth \in Nat
    BY LinkedIs, ControlAssumption
  <2>2. m \in 1 .. Len(s) /\ m \in Nat /\ n = m + 1 /\ n \in 1 .. n /\ n \in 1 .. MaxDepth /\ \A i \in 1 .. m : i # n
    BY <2>1
  <2> HIDE DEF m
  <2>3. /\ r \in Seq(Acts) /\ Len(r) = n /\ r[n] = f
        /\ \A i \in 1 .. n - 1 : Like(r[i], s[i])
    BY DEF Topped
  <2>4. n - 1 = m
    BY <2>2
  <2> QED
    BY <2>1, <2>2, <2>3, <2>4
<1>2. u = At(s, g, m) /\ Names(s, u, m) /\ u = After(s, m)
  BY <1>1 DEF Linked
<1>3. Names(r, u, m)
  <2> HIDE DEF m
  <2>1. m \in 1 .. Len(s) /\ m \in 1 .. m /\ \A i \in 1 .. m : Like(r[i], s[i])
    BY <1>1
  <2> HIDE DEF u
  <2> QED
    BY <1>2, <2>1, SameBelow
<1>4. f \in Acts /\ u \in Regs
  BY ActIs DEF Fits
<1>5. ASSUME f.kind = "yield"
      PROVE  /\ u.block \in 1 .. m /\ u.block \in 1 .. Len(s) /\ T!HasBlock(s[u.block])
             /\ s[u.block].blk.prev \in 0 .. m /\ s[u.block].blk.scope \in 0 .. m
             /\ s[u.block].blk.prev > 0
                  => s[u.block].blk.prev \in 1 .. m /\ T!HasBlock(s[s[u.block].blk.prev])
             /\ s[u.block].blk.scope > 0
                  => s[u.block].blk.scope \in 1 .. m /\ T!HasScope(s[s[u.block].blk.scope])
             /\ r[u.block].blk = s[u.block].blk
             /\ s[u.block].blk.prev > 0 => s[s[u.block].blk.prev].kind # "proc"
  <2>1. u.block > 0
    BY <1>5 DEF Fits
  <2>2. u.block \in 1 .. m /\ T!HasBlock(s[u.block])
    BY <1>2, <2>1 DEF Names
  <2>3. u.block \in 1 .. Len(s)
    BY <1>1, <2>2
  <2>4. /\ s[u.block].blk.prev \in 0 .. u.block - 1 /\ s[u.block].blk.scope \in 0 .. u.block - 1
        /\ s[u.block].blk.prev > 0 => T!HasBlock(s[s[u.block].blk.prev])
        /\ s[u.block].blk.scope > 0 => T!HasScope(s[s[u.block].blk.scope])
        /\ s[u.block].blk.prev = s[u.block].old.block /\ u.block \in 2 .. Len(s)
    BY <2>2, <2>3, BlockBelow
  <2>5. r[u.block].blk = s[u.block].blk
    BY <1>1, <2>2 DEF Like
  <2>6. ASSUME s[u.block].blk.prev > 0, s[s[u.block].blk.prev].kind = "proc" PROVE FALSE
    <3>1. Names(s, s[u.block].old, u.block - 1) /\ Keeps(s, u.block)
      BY <2>3, <2>4, LinkedIs
    <3>2. s[u.block - 1].kind = "proc"
      BY <2>4, <2>6, <3>1 DEF Names
    <3>3. s[u.block].kind \in {"top", "yield"}
      BY <3>1, <3>2 DEF Keeps
    <3> QED
      BY <2>2, <3>3 DEF T!HasBlock
  <2> DEFINE x == s[u.block].blk.prev
             y == s[u.block].blk.scope
  <2>7. x \in 0 .. u.block - 1 /\ y \in 0 .. u.block - 1 /\ u.block \in 1 .. m
        /\ (x > 0 => T!HasBlock(s[x])) /\ (y > 0 => T!HasScope(s[y]))
    BY <2>2, <2>4
  <2> HIDE DEF u, m, x, y
  <2>8. /\ x \in 0 .. m /\ (x > 0 => x \in 1 .. m) /\ y \in 0 .. m /\ (y > 0 => y \in 1 .. m)
    BY <1>1, <2>7
  <2> QED
    BY <2>2, <2>3, <2>5, <2>6, <2>7, <2>8 DEF x, y
<1>6. After(r, n) = h
  BY <1>1, <1>5 DEF After, Made
<1>7. h \in Regs
  <2>1. u.frame \in Nat /\ u.iter \in Nat /\ u.block \in Nat /\ u.scope \in Nat /\ u.tag \in Nat /\ n \in Nat
    BY <1>1, <1>4, RegIs
  <2>2. f.kind = "yield" => s[u.block].blk.prev \in Nat /\ s[u.block].blk.scope \in Nat
    BY <1>5
  <2> QED
    BY <2>1, <2>2 DEF Made, Regs
<1>8. Names(r, h, n)
  <2>1. /\ u.frame \in 1 .. m /\ T!HasFrame(r[u.frame])
        /\ u.iter \in 1 .. m /\ T!HasIter(r[u.iter])
        /\ u.tag \in 1 .. m /\ T!HasTag(r[u.tag])
        /\ \A k \in u.tag + 1 .. m : ~T!HasTag(r[k])
        /\ u.block \in 0 .. m /\ (u.block > 0 => T!HasBlock(r[u.block]))
        /\ u.scope \in 0 .. m /\ (u.scope > 0 => T!HasScope(r[u.scope]))
    BY <1>3 DEF Names
  <2>2. h.frame \in 1 .. n /\ T!HasFrame(r[h.frame])
    BY <1>1, <2>1 DEF Made
  <2>3. h.iter \in 1 .. n /\ T!HasIter(r[h.iter])
    BY <1>1, <2>1 DEF Made
  <2>4. h.tag \in 1 .. n /\ T!HasTag(r[h.tag])
    BY <1>1, <2>1 DEF Made
  <2>5. \A k \in h.tag + 1 .. n : ~T!HasTag(r[k])
    <3>1. CASE T!HasTag(f)
      <4>1. h.tag = n
        BY <3>1 DEF Made
      <4> QED
        BY <1>1, <4>1
    <3>2. CASE ~T!HasTag(f)
      <4>1. h.tag = u.tag
        BY <3>2 DEF Made
      <4>2. \A k \in h.tag + 1 .. n : k = n \/ k \in u.tag + 1 .. m
        BY <1>1, <2>1, <4>1
      <4> QED
        BY <1>1, <2>1, <3>2, <4>2
    <3> QED
      BY <3>1, <3>2
  <2>6. h.block \in 0 .. n /\ (h.block > 0 => T!HasBlock(r[h.block]) /\ (r[h.block].kind = "proc" => h.block = n))
    <3>1. CASE T!HasBlock(f)
      BY <1>1, <3>1 DEF Made
    <3>2. CASE ~T!HasBlock(f) /\ f.kind = "yield"
      <4>1. h.block = s[u.block].blk.prev
        BY <3>2 DEF Made
      <4>2. h.block \in 0 .. m
            /\ (h.block > 0 => h.block \in 1 .. m /\ T!HasBlock(s[h.block]) /\ s[h.block].kind # "proc")
        BY <1>5, <3>2, <4>1
      <4>3. h.block > 0 => T!HasBlock(r[h.block]) /\ r[h.block].kind # "proc"
        BY <1>1, <4>2, LikeHas DEF Like
      <4> QED
        BY <1>1, <4>2, <4>3
    <3>3. CASE ~T!HasBlock(f) /\ f.kind # "yield"
      <4>1. h.block = u.block
        BY <3>3 DEF Made
      <4>2. h.block > 0 => s[h.block].kind # "proc" /\ h.block \in 1 .. m
        BY <1>2, <2>1, <3>3, <4>1 DEF Names, Fits
      <4>3. h.block > 0 => r[h.block].kind # "proc"
        BY <1>1, <4>2 DEF Like
      <4> QED
        BY <1>1, <2>1, <4>1, <4>3
    <3> QED
      BY <3>1, <3>2, <3>3
  <2>7. h.scope \in 0 .. n /\ (h.scope > 0 => T!HasScope(r[h.scope]))
    <3>1. CASE T!HasScope(f)
      BY <1>1, <3>1 DEF Made
    <3>2. CASE ~T!HasScope(f) /\ f.kind = "yield"
      <4>1. h.scope = s[u.block].blk.scope
        BY <3>2 DEF Made
      <4>2. h.scope \in 0 .. m /\ (h.scope > 0 => h.scope \in 1 .. m /\ T!HasScope(s[h.scope]))
        BY <1>5, <3>2, <4>1
      <4>3. h.scope > 0 => T!HasScope(r[h.scope])
        BY <1>1, <4>2, LikeHas
      <4> QED
        BY <1>1, <4>2, <4>3
    <3>3. CASE ~T!HasScope(f) /\ f.kind # "yield"
      <4>1. h.scope = u.scope
        BY <3>3 DEF Made
      <4> QED
        BY <1>1, <2>1, <4>1
    <3> QED
      BY <3>1, <3>2, <3>3
  <2> QED
    BY <2>2, <2>3, <2>4, <2>5, <2>6, <2>7 DEF Names
<1>9. Keeps(r, n)
  <2>1. n # 1 /\ f.kind # "top"
    BY <1>1 DEF Fits
  <2>2. T!HasBlock(f) => Block(r, f.blk, n)
    <3> SUFFICES ASSUME T!HasBlock(f) PROVE Block(r, f.blk, n)
      OBVIOUS
    <3>1. Block(s, f.blk, n)
      BY DEF Fits
    <3>2. f.blk.scope > 0 => f.blk.scope \in 1 .. m
      BY <1>1, <3>1 DEF Block
    <3>3. f.blk.scope > 0 => T!HasScope(r[f.blk.scope])
      BY <1>1, <3>1, <3>2, LikeHas DEF Block
    <3>4. f.blk.home \in 1 .. m => r[f.blk.home].kind = "iter"
      BY <1>1, <3>1 DEF Block, Like
    <3> QED
      BY <3>1, <3>3, <3>4 DEF Block
  <2>3. Right(r, f.pend, f.old, m)
    <3>1. Right(s, f.pend, f.old, m)
      BY DEF Fits
    <3> HIDE DEF m, u
    <3> QED
      BY <1>1, <3>1, RightSame
  <2>4. r[m].kind = s[m].kind
    BY <1>1 DEF Like
  <2> QED
    BY <1>1, <1>6, <2>1, <2>2, <2>3, <2>4 DEF Keeps, Fits
<1>10. ASSUME NEW i \in 1 .. m
       PROVE  At(r, h, i) = After(r, i) /\ Names(r, At(r, h, i), i) /\ Keeps(r, i)
  <2>1. At(s, g, i) = After(s, i) /\ Names(s, At(s, g, i), i)
    BY <1>1 DEF Linked
  <2>2. At(r, h, i) = At(s, g, i)
    <3>1. CASE i = m
      BY <1>1, <1>2, <3>1 DEF At
    <3>2. CASE i # m
      <4>1. i # Len(s) /\ i # Len(r) /\ i + 1 \in 1 .. m
        BY <1>1, <3>2
      <4>2. Like(r[i + 1], s[i + 1])
        BY <1>1, <4>1
      <4> QED
        BY <4>1, <4>2 DEF At, Like
    <3> QED
      BY <3>1, <3>2
  <2> QED
    BY <1>1, <2>1, <2>2, SameBelow
<1>11. At(r, h, n) = h
  BY <1>1 DEF At
<1>12. \A i \in 1 .. Len(r) : i = n \/ i \in 1 .. m
  BY <1>1
<1> HIDE DEF h, m, u
<1>13. \A i \in 1 .. Len(r) : At(r, h, i) = After(r, i) /\ Names(r, At(r, h, i), i) /\ Keeps(r, i)
  BY <1>6, <1>8, <1>9, <1>10, <1>11, <1>12
<1> QED
  BY <1>1, <1>7, <1>13 DEF Linked, h

-----------------------------------------------------------------------------
(***************************************************************************)
(* Where a jump lands, and what the end of an activation restores.         *)
(***************************************************************************)

\* The least element of a set of naturals, from the well-founded order of the library.
Less == {p \in Nat \X Nat : p[1] < p[2]}

\* A set of numbers has a least one.
LEMMA Least ==
  ASSUME NEW A \in SUBSET Nat, A # {}
  PROVE  \E x \in A : \A y \in A : x <= y
<1>1. IsWellFoundedOn(Less, Nat)
  BY NatLessThanWellFounded DEF OpToRel, Less
<1>2. PICK x \in A : \A y \in A : ~ (<<y, x>> \in Less)
  BY <1>1, WFMin
<1>3. ASSUME NEW y \in A, ~(x <= y) PROVE FALSE
  <2>1. x \in Nat /\ y \in Nat /\ y < x
    BY <1>3
  <2>2. <<y, x>> \in Less
    BY <2>1 DEF Less
  <2> QED
    BY <2>2, <1>2
<1> QED
  BY <1>3

\* Between the tag and the top, no activation changed the_block or the_scope.
LEMMA TagKeeps ==
  ASSUME NEW s, NEW g, Linked(s, g),
         \A n \in g.tag + 1 .. Len(s) : ~(s[n].kind = "yield" /\ s[n].phase = "assign")
  PROVE  g.block = After(s, g.tag).block /\ g.scope = After(s, g.tag).scope
<1> DEFINE p == g.tag
           B == {n \in p .. Len(s) : After(s, n).block = g.block /\ After(s, n).scope = g.scope}
<1>1. /\ Len(s) \in Nat /\ Len(s) > 0 /\ g = After(s, Len(s)) /\ Names(s, g, Len(s))
      /\ \A n \in 1 .. Len(s) : Keeps(s, n)
      /\ \A n \in 2 .. Len(s) : s[n].old = After(s, n - 1)
  BY LinkedIs
<1>2. p \in 1 .. Len(s) /\ \A n \in p + 1 .. Len(s) : ~T!HasTag(s[n])
  BY <1>1 DEF Names
<1>3. Len(s) \in B /\ B \subseteq Nat
  BY <1>1, <1>2
<1>4. PICK n \in B : \A m \in B : n <= m
  BY <1>3, Least, Zenon
<1>5. n \in p .. Len(s) /\ After(s, n).block = g.block /\ After(s, n).scope = g.scope
  OBVIOUS
<1> HIDE DEF B
<1>6. ASSUME n # p PROVE FALSE
  <2>1. n \in p + 1 .. Len(s) /\ n \in 2 .. Len(s) /\ n - 1 \in p .. Len(s) /\ ~(n <= n - 1)
    BY <1>1, <1>2, <1>5, <1>6
  <2>2. ~T!HasTag(s[n]) /\ ~(s[n].kind = "yield" /\ s[n].phase = "assign") /\ Keeps(s, n)
    BY <1>1, <1>2, <2>1
  <2>3. s[n].kind # "yield" /\ ~T!HasBlock(s[n]) /\ ~T!HasScope(s[n])
    <3>1. s[n].kind # "yield"
      BY <2>2 DEF Keeps, T!HasTag
    <3> QED
      BY <2>2, <3>1 DEF T!HasTag, T!HasBlock, T!HasScope
  <2>4. After(s, n).block = s[n].old.block /\ After(s, n).scope = s[n].old.scope
    BY <2>3 DEF After, Made
  <2>5. s[n].old = After(s, n - 1)
    BY <1>1, <2>1
  <2>6. n - 1 \in B
    BY <1>5, <2>1, <2>4, <2>5 DEF B
  <2> QED
    BY <1>4, <2>1, <2>6
<1> QED
  BY <1>5, <1>6

\* The globals g say of the activation r, the n-th of s, what its end looks at.
Shows(s, g, n) ==
  LET r == s[n]
      u == After(s, n)
  IN
  /\ g.block = u.block /\ g.scope = u.scope /\ ~(r.kind = "ensure" /\ r.phase = "body")
  /\ r.kind \in {"while", "rescue", "ensure", "args", "iter"} => g.frame = u.frame
  /\ r.kind \in {"while", "rescue", "ensure"} => g.iter = u.iter
  /\ r.kind \in {"args", "ensure"} => g.tag = u.tag

\* Its end restores what was when it began, whatever the_frame, the_iter and
\* prot_tag are by now.
LEMMA PoppedOld ==
  ASSUME NEW g, Linked(t_stack, g), NEW n \in 2 .. Len(t_stack), NEW h \in Regs, Shows(t_stack, h, n)
  PROVE  T!Popped(t_stack[n], h) = t_stack[n].old
<1> DEFINE s == t_stack
           r == s[n]
           u == r.old
<1>1. n \in 1 .. Len(s) /\ Keeps(s, n) /\ n # 1 /\ r \in Acts /\ u \in Regs
  BY LinkedIs
<1>2. u = [frame |-> u.frame, iter |-> u.iter, block |-> u.block, scope |-> u.scope, tag |-> u.tag]
  BY <1>1, RegIs
<1>3. h = [frame |-> h.frame, iter |-> h.iter, block |-> h.block, scope |-> h.scope, tag |-> h.tag]
  BY RegIs
<1>4. r.kind # "top"
  BY <1>1 DEF Keeps
<1>5. CASE r.kind \in {"while", "rescue"}
  <2>1. h.frame = u.frame /\ h.iter = u.iter /\ h.block = u.block /\ h.scope = u.scope
    BY <1>5 DEF Shows, After, Made, T!HasFrame, T!HasIter, T!HasBlock, T!HasScope
  <2>2. T!Popped(r, h) = [h EXCEPT !.tag = u.tag]
    BY <1>5 DEF T!Popped
  <2> QED
    BY <1>2, <1>3, <2>1, <2>2
<1>6. CASE r.kind = "ensure"
  <2>1. /\ h.frame = u.frame /\ h.iter = u.iter /\ h.block = u.block /\ h.scope = u.scope
        /\ h.tag = u.tag
    BY <1>6 DEF Shows, After, Made, T!HasFrame, T!HasIter, T!HasBlock, T!HasScope, T!HasTag
  <2>2. T!Popped(r, h) = h
    BY <1>6 DEF T!Popped
  <2> QED
    BY <1>2, <1>3, <2>1, <2>2
<1>7. CASE r.kind = "args"
  <2>1. h.frame = u.frame /\ h.block = u.block /\ h.scope = u.scope /\ h.tag = u.tag
    BY <1>7 DEF Shows, After, Made, T!HasFrame, T!HasIter, T!HasBlock, T!HasScope, T!HasTag
  <2>2. T!Popped(r, h) = [h EXCEPT !.iter = u.iter]
    BY <1>7 DEF T!Popped
  <2> QED
    BY <1>2, <1>3, <2>1, <2>2
<1>8. CASE r.kind = "iter"
  <2>1. h.frame = u.frame /\ h.block = n /\ h.scope = u.scope /\ r.blk.prev = u.block
    BY <1>1, <1>8 DEF Shows, After, Made, T!HasFrame, T!HasIter, T!HasBlock, T!HasScope, Keeps
  <2>2. T!Popped(r, h) = T!POP_BLOCK([h EXCEPT !.iter = u.iter, !.tag = u.tag])
    BY <1>8 DEF T!Popped
  <2>3. T!Popped(r, h) = [frame |-> h.frame, iter |-> u.iter, block |-> s[h.block].blk.prev,
                          scope |-> h.scope, tag |-> u.tag]
    BY <1>3, <2>2 DEF T!POP_BLOCK
  <2> QED
    BY <1>2, <2>1, <2>3
<1>9. CASE r.kind = "meth"
  <2>1. h.block = u.block
    BY <1>9 DEF Shows, After, Made, T!HasFrame, T!HasIter, T!HasBlock, T!HasScope
  <2>2. T!Popped(r, h) = [u EXCEPT !.block = h.block]
    BY <1>9 DEF T!Popped
  <2> QED
    BY <1>2, <2>1, <2>2
<1>10. CASE r.kind \in {"cfunc", "catch"}
  <2>1. h.block = u.block /\ h.scope = u.scope
    BY <1>10 DEF Shows, After, Made, T!HasFrame, T!HasIter, T!HasBlock, T!HasScope
  <2>2. T!Popped(r, h) = [u EXCEPT !.block = h.block, !.scope = h.scope]
    BY <1>10 DEF T!Popped
  <2> QED
    BY <1>2, <2>1, <2>2
<1>11. CASE r.kind = "proc"
  <2>1. h.block = n /\ h.scope = u.scope /\ r.blk.prev = u.block
    BY <1>1, <1>11 DEF Shows, After, Made, T!HasFrame, T!HasIter, T!HasBlock, T!HasScope, Keeps
  <2>2. T!Popped(r, h) = T!POP_BLOCK([u EXCEPT !.block = h.block, !.scope = h.scope])
    BY <1>11 DEF T!Popped
  <2>3. T!Popped(r, h) = [frame |-> u.frame, iter |-> u.iter, block |-> s[h.block].blk.prev,
                          scope |-> h.scope, tag |-> u.tag]
    BY <1>2, <2>2 DEF T!POP_BLOCK
  <2> QED
    BY <1>2, <2>1, <2>3
<1>12. CASE r.kind = "yield"
  BY <1>12 DEF T!Popped
<1> QED
  BY <1>1, <1>4, <1>5, <1>6, <1>7, <1>8, <1>9, <1>10, <1>11, <1>12 DEF Acts

\* The globals where a jump lands: those after the activation whose tag it is,
\* but for what that activation restores itself.
LEMMA Landed ==
  ASSUME Linked(t_stack, reg), ~T!Lost
  PROVE  /\ reg.tag \in 1 .. Len(t_stack) /\ t_stack[reg.tag] \in Acts /\ T!HasTag(t_stack[reg.tag])
         /\ T!landed \in Regs /\ T!landed.tag = reg.tag
         /\ T!landed.block = After(t_stack, reg.tag).block /\ T!landed.scope = After(t_stack, reg.tag).scope
         /\ reg.scope = After(t_stack, reg.tag).scope
         /\ t_stack[reg.tag].kind # "top" =>
              /\ reg.tag \in 2 .. Len(t_stack)
              /\ t_stack[reg.tag].old = At(t_stack, reg, reg.tag - 1)
         /\ t_stack[reg.tag].kind # "iter" => T!landed = After(t_stack, reg.tag)
         /\ t_stack[reg.tag].kind # "ensure" => Shows(t_stack, T!landed, reg.tag)
<1> DEFINE s == t_stack
           p == reg.tag
           r == s[p]
           u == After(s, p)
           h == T!landed
<1>1. /\ Len(s) \in Nat /\ reg \in Regs /\ reg = After(s, Len(s)) /\ Names(s, reg, Len(s))
      /\ \A n \in 1 .. Len(s) : Keeps(s, n) /\ s[n] \in Acts /\ s[n].old \in Regs
      /\ \A n \in 2 .. Len(s) : At(s, reg, n - 1) = s[n].old
  BY LinkedIs
<1>2. p \in 1 .. Len(s) /\ T!HasTag(r)
  BY <1>1 DEF Names
<1>3. Keeps(s, p) /\ r \in Acts /\ r.old \in Regs
  BY <1>1, <1>2
<1>4. reg.block = u.block /\ reg.scope = u.scope
  <2>1. \A n \in p + 1 .. Len(s) : ~(s[n].kind = "yield" /\ s[n].phase = "assign")
    BY DEF T!Lost, T!prot_tag, T!depth
  <2> QED
    BY <2>1, TagKeeps
<1>5. h = [reg EXCEPT !.frame = r.tframe, !.iter = r.titer]
  BY DEF T!landed, T!at, T!prot_tag
<1>6. reg = [frame |-> reg.frame, iter |-> reg.iter, block |-> reg.block, scope |-> reg.scope,
             tag |-> reg.tag]
  BY <1>1, RegIs
<1>7. h = [frame |-> r.tframe, iter |-> r.titer, block |-> u.block, scope |-> u.scope, tag |-> p]
  BY <1>4, <1>5, <1>6
<1>8. /\ r.tframe = u.frame
      /\ r.titer = IF r.kind = "iter" THEN r.old.iter ELSE u.iter
      /\ r.kind = "top" <=> p = 1
  BY <1>2, <1>3 DEF Keeps
<1>9. h \in Regs
  <2>1. r.tframe \in Nat /\ r.titer \in Nat
    BY <1>3, ActIs
  <2>2. u.block \in Nat /\ u.scope \in Nat /\ p \in Nat
    BY <1>1, <1>4, RegIs
  <2> QED
    BY <1>7, <2>1, <2>2 DEF Regs
<1>10. u.tag = p
  BY <1>2 DEF After, Made
<1>11. u = [frame |-> u.frame, iter |-> u.iter, block |-> u.block, scope |-> u.scope, tag |-> u.tag]
  BY DEF After, Made
<1>12. r.kind # "top" => p \in 2 .. Len(s) /\ r.old = At(s, reg, p - 1)
  <2>1. r.kind # "top" => p \in 2 .. Len(s)
    BY <1>1, <1>2, <1>8
  <2> QED
    BY <1>1, <2>1
<1>13. r.kind # "iter" => h = u
  BY <1>7, <1>8, <1>10, <1>11
<1>14. r.kind # "ensure" => Shows(s, h, p)
  BY <1>7, <1>8, <1>10 DEF Shows
<1> QED
  BY <1>2, <1>3, <1>4, <1>7, <1>9, <1>12, <1>13, <1>14

-----------------------------------------------------------------------------
(***************************************************************************)
(* Stacks that grow, shrink and change.                                    *)
(***************************************************************************)

\* An activation differs from itself in nothing.
LEMMA LikeSame == \A a : Like(a, a)
BY DEF Like

\* What Append() does to a stack.
LEMMA Appended ==
  ASSUME NEW s \in Seq(Acts), NEW f \in Acts
  PROVE  /\ Append(s, f) \in Seq(Acts) /\ Len(Append(s, f)) = Len(s) + 1
         /\ Append(s, f)[Len(s) + 1] = f
         /\ \A i \in 1 .. Len(s) : Append(s, f)[i] = s[i]
BY AppendProperties

\* What SubSeq() leaves of a stack.
LEMMA CutOff ==
  ASSUME NEW s \in Seq(Acts), NEW n \in 0 .. Len(s)
  PROVE  /\ SubSeq(s, 1, n) \in Seq(Acts) /\ Len(SubSeq(s, 1, n)) = n
         /\ \A i \in 1 .. n : SubSeq(s, 1, n)[i] = s[i]
<1>1. Len(s) \in Nat
  BY LenProperties
<1>2. \A i \in 1 .. n : s[i] \in Acts
  BY <1>1, ElementOfSeq
<1> QED
  BY <1>1, <1>2

\* What EXCEPT does to a stack.
LEMMA Changed ==
  ASSUME NEW s \in Seq(Acts), NEW n \in 1 .. Len(s), NEW a \in Acts
  PROVE  LET r == [s EXCEPT ![n] = a] IN
         /\ r \in Seq(Acts) /\ Len(r) = Len(s) /\ r[n] = a
         /\ \A i \in 1 .. Len(s) : i # n => r[i] = s[i]
BY ExceptSeq, LenProperties

-----------------------------------------------------------------------------
(***************************************************************************)
(* The steps that end activations, begin them or change them.              *)
(***************************************************************************)

\* A Proc's block, on a stack that keeps the first m activations.
LEMMA BlockKept ==
  ASSUME NEW s, Len(s) \in Nat, NEW b \in Blks, Held(s, b, Len(s)),
         NEW m \in 0 .. Len(s), NEW r, \A i \in 1 .. m : Like(r[i], s[i]), NEW n \in Nat, m <= n,
         NEW c, c.scope = 0 \/ (c.scope = b.scope /\ b.scope <= m),
         c.home = 0 \/ (c.home = b.home /\ b.home <= m)
  PROVE  Held(r, c, n)
<1>1. /\ b.scope \in 0 .. Len(s) /\ (b.scope > 0 => T!HasScope(s[b.scope])) /\ b.home \in 0 .. Len(s)
      /\ b.home > 0 => s[b.home].kind = "iter"
  BY DEF Held, Block, Blks
<1>2. c.scope \in 0 .. n /\ c.home \in 0 .. n
  BY <1>1
<1>3. ASSUME c.scope > 0 PROVE T!HasScope(r[c.scope])
  <2>1. c.scope = b.scope /\ c.scope \in 1 .. m
    BY <1>1, <1>3
  <2>2. T!HasScope(s[c.scope]) /\ Like(r[c.scope], s[c.scope])
    BY <1>1, <1>3, <2>1
  <2> QED
    BY <2>2, LikeHas
<1>4. ASSUME c.home > 0 PROVE r[c.home].kind = "iter"
  <2>1. c.home = b.home /\ c.home \in 1 .. m
    BY <1>1, <1>4
  <2> QED
    BY <1>1, <1>4, <2>1 DEF Like
<1> QED
  BY <1>2, <1>3, <1>4 DEF Held, Block

\* A Proc loses what ends with the activations from d on.
LEMMA Survived ==
  ASSUME NEW s, Len(s) \in Nat, proc \in Blks, Held(s, proc, Len(s)), NEW d \in 1 .. Len(s) + 1,
         NEW r, \A i \in 1 .. d - 1 : Like(r[i], s[i]), NEW n \in Nat, d - 1 <= n
  PROVE  T!Survives(d) \in Blks /\ Held(r, T!Survives(d), n)
<1> DEFINE c == T!Survives(d)
           m == d - 1
<1>1. /\ c.scope = IF proc.scope >= d THEN 0 ELSE proc.scope
      /\ c.home = IF proc.home >= d THEN 0 ELSE proc.home
      /\ c \in Blks
  BY DEF T!Survives, Blks
<1>2. proc.scope \in Nat /\ proc.home \in Nat /\ m \in 0 .. Len(s) /\ m <= n
  BY BlkIs
<1> HIDE DEF c
<1>3. c.scope = 0 \/ (c.scope = proc.scope /\ proc.scope <= m)
  BY <1>1, <1>2
<1>4. c.home = 0 \/ (c.home = proc.home /\ proc.home <= m)
  BY <1>1, <1>2
<1>5. \A i \in 1 .. m : Like(r[i], s[i])
  OBVIOUS
<1> HIDE DEF m
<1>6. Held(r, c, n)
  BY <1>2, <1>3, <1>4, <1>5, BlockKept
<1> QED
  BY <1>1, <1>6 DEF c

\* The activation d and those above it end.
LEMMA Pops ==
  ASSUME TagsInv, ~stray, NEW d \in 2 .. Len(t_stack), NEW regs, regs = t_stack[d].old,
         NEW j \in Jumps, Right(t_stack, j, regs, d - 1), T!Pop(d, regs, j), UNCHANGED stray
  PROVE  TagsInv'
<1>1. /\ Len(t_stack) \in Nat /\ t_stack \in Seq(Acts) /\ Len(t_stack) <= MaxDepth /\ MaxDepth \in Nat
      /\ proc \in Blks /\ Held(t_stack, proc, Len(t_stack))
  BY ControlAssumption DEF TagsInv
<1>2. Linked(t_stack, reg)
  BY <1>1 DEF TagsInv
<1>3. /\ t_stack' = SubSeq(t_stack, 1, d - 1) /\ reg' = regs /\ jump' = j
      /\ proc' = T!Survives(d)
  BY DEF T!Pop
<1>4. d - 1 \in 1 .. Len(t_stack) /\ d - 1 \in 0 .. Len(t_stack) /\ (d - 1) + 1 = d /\ d - 1 \in Nat
  BY <1>1
<1>5. t_stack' \in Seq(Acts) /\ Len(t_stack') = d - 1 /\ \A i \in 1 .. d - 1 : t_stack'[i] = t_stack[i]
  BY <1>1, <1>3, <1>4, CutOff
<1>6. \A i \in 1 .. d - 1 : Like(t_stack'[i], t_stack[i])
  BY <1>5, LikeSame
<1>7. Prefix(t_stack', t_stack, d - 1)
  BY <1>5, <1>6 DEF Prefix
<1>8. Linked(t_stack', reg')
  <2>1. At(t_stack, reg, d - 1) = t_stack[d].old
    BY <1>2, LinkedIs
  <2> QED
    BY <1>2, <1>3, <1>4, <1>7, <2>1, PrefixLinked
<1>9. proc' \in Blks /\ Held(t_stack', proc', Len(t_stack'))
  <2>1. d \in 1 .. Len(t_stack) + 1 /\ d - 1 <= d - 1
    BY <1>1
  <2> QED
    BY <1>1, <1>3, <1>4, <1>5, <1>6, <2>1, Survived
<1>10. Len(t_stack') \in 0 .. MaxDepth
  BY <1>1, <1>4, <1>5
<1>11. Right(t_stack', jump', reg', Len(t_stack'))
  <2> DEFINE m == d - 1
  <2>1. m \in Nat /\ Right(t_stack, j, regs, m) /\ \A i \in 1 .. m : Like(t_stack'[i], t_stack[i])
    BY <1>4, <1>6
  <2>2. Len(t_stack') = m
    BY <1>5
  <2> HIDE DEF m
  <2>3. Right(t_stack', j, regs, m)
    BY <2>1, RightSame
  <2> QED
    BY <1>3, <2>2, <2>3
<1> QED
  BY <1>3, <1>5, <1>8, <1>9, <1>10, <1>11 DEF TagsInv

\* The activation f begins at n, and those above end.
LEMMA Puts ==
  ASSUME TagsInv, ~stray, Len(t_stack) > 0, NEW n \in 2 .. MaxDepth, n <= Len(t_stack) + 1,
         NEW f, Fits(t_stack, f, n), f.old = At(t_stack, reg, n - 1),
         Topped(t_stack', t_stack, f, n), reg' = Made(t_stack, f, n), jump' \in Jumps,
         Right(t_stack', jump', reg', n),
         proc' \in Blks, Held(t_stack', proc', n), UNCHANGED stray
  PROVE  TagsInv'
<1>1. Linked(t_stack, reg) /\ MaxDepth \in Nat
  BY ControlAssumption DEF TagsInv
<1>2. Linked(t_stack', reg')
  BY <1>1, PushLinked
<1>3. t_stack' \in Seq(Acts) /\ Len(t_stack') = n /\ Len(t_stack') \in 0 .. MaxDepth
  BY <1>1 DEF Topped
<1>4. stray' \in BOOLEAN
  BY DEF TagsInv
<1> QED
  BY <1>2, <1>3, <1>4 DEF TagsInv

\* Nothing moves but the jump, the Proc and the progress of activations.
LEMMA Stands ==
  ASSUME TagsInv, ~stray, Len(t_stack) > 0, Prefix(t_stack', t_stack, Len(t_stack)), reg' = reg, jump' \in Jumps,
         Right(t_stack, jump', reg, Len(t_stack)),
         proc' \in Blks, Held(t_stack', proc', Len(t_stack)), UNCHANGED stray
  PROVE  TagsInv'
<1>1. Linked(t_stack, reg)
  BY DEF TagsInv
<1>2. Len(t_stack) \in 1 .. Len(t_stack) /\ At(t_stack, reg, Len(t_stack)) = reg
  BY <1>1, LinkedIs DEF At
<1>3. Linked(t_stack', reg')
  BY <1>1, <1>2, PrefixLinked
<1>4. t_stack' \in Seq(Acts) /\ Len(t_stack') = Len(t_stack)
  BY DEF Prefix
<1>5. stray' \in BOOLEAN /\ Len(t_stack') \in 0 .. MaxDepth
  BY <1>4 DEF TagsInv
<1>6. Len(t_stack) \in Nat /\ \A i \in 1 .. Len(t_stack) : Like(t_stack'[i], t_stack[i])
  BY <1>1, LinkedIs DEF Prefix
<1>7. Right(t_stack', jump', reg', Len(t_stack'))
  BY <1>4, <1>6, RightSame
<1> QED
  BY <1>3, <1>4, <1>5, <1>7 DEF TagsInv

\* A jump begins or changes.
LEMMA Leaps ==
  ASSUME TagsInv, ~stray, Len(t_stack) > 0, jump' \in Jumps,
         Right(t_stack, jump', reg, Len(t_stack)), UNCHANGED <<t_stack, reg, proc, stray>>
  PROVE  TagsInv'
<1>1. t_stack \in Seq(Acts) /\ Prefix(t_stack', t_stack, Len(t_stack))
  BY LikeSame DEF TagsInv, Prefix
<1>2. proc' \in Blks /\ Held(t_stack', proc', Len(t_stack))
  BY DEF TagsInv
<1> QED
  BY <1>1, <1>2, Stands

-----------------------------------------------------------------------------
(***************************************************************************)
(* Constructs begin.                                                       *)
(***************************************************************************)

\* What the invariant says while the program runs.
LEMMA InvIs ==
  ASSUME TagsInv, ~stray, Len(t_stack) > 0
  PROVE  /\ Linked(t_stack, reg) /\ t_stack \in Seq(Acts) /\ reg \in Regs
         /\ Len(t_stack) \in Nat /\ MaxDepth \in Nat /\ Len(t_stack) <= MaxDepth
         /\ Len(t_stack) \in 1 .. Len(t_stack)
         /\ jump \in Jumps /\ proc \in Blks /\ Held(t_stack, proc, Len(t_stack))
         /\ t_stack[Len(t_stack)] \in Acts /\ Keeps(t_stack, Len(t_stack))
         /\ reg = After(t_stack, Len(t_stack))
         /\ reg.frame \in 1 .. Len(t_stack) /\ reg.iter \in 1 .. Len(t_stack) /\ reg.tag \in 1 .. Len(t_stack)
         /\ reg.block \in 0 .. Len(t_stack) /\ reg.scope \in 0 .. Len(t_stack)
         /\ reg.block > 0 => reg.block \in 1 .. Len(t_stack) /\ T!HasBlock(t_stack[reg.block])
         /\ Right(t_stack, jump, reg, Len(t_stack))
<1>1. Linked(t_stack, reg) /\ jump \in Jumps /\ proc \in Blks /\ Held(t_stack, proc, Len(t_stack)) /\ MaxDepth \in Nat
  BY ControlAssumption DEF TagsInv
<1>2. Names(t_stack, reg, Len(t_stack))
  BY <1>1, LinkedIs
<1>3. /\ reg.frame \in 1 .. Len(t_stack) /\ reg.iter \in 1 .. Len(t_stack) /\ reg.tag \in 1 .. Len(t_stack)
      /\ reg.block \in 0 .. Len(t_stack) /\ reg.scope \in 0 .. Len(t_stack)
      /\ reg.block > 0 => T!HasBlock(t_stack[reg.block])
  BY <1>2 DEF Names
<1>4. Right(t_stack, jump, reg, Len(t_stack))
  BY DEF TagsInv
<1> QED
  BY <1>1, <1>3, <1>4, LinkedIs

\* NoBlk and NoJump are what they are said to be.
LEMMA Nothing ==
  /\ T!NoBlk \in Blks /\ T!NoJump \in Jumps /\ T!Raised \in Jumps
  /\ T!NoBlk.scope = 0 /\ T!NoBlk.home = 0
  /\ \A s, u, m : Right(s, T!NoJump, u, m) /\ Right(s, T!Raised, u, m)
<1>1. T!NoBlk \in Blks /\ T!NoBlk.scope = 0 /\ T!NoBlk.home = 0
  BY ControlAssumption DEF T!NoBlk, Blks
<1>2. T!NoJump \in Jumps
  BY ControlAssumption DEF T!NoJump, Jumps
<1>3. T!Raised \in Jumps
  BY <1>2 DEF T!Raised, Jumps, T!Tag
<1>4. /\ T!NoJump.in = FALSE /\ T!NoJump.tag \notin {"BREAK", "RETURN"}
      /\ T!Raised.in = FALSE /\ T!Raised.tag \notin {"BREAK", "RETURN"}
  BY DEF T!NoJump, T!Raised
<1>5. \A s, u, m : Right(s, T!NoJump, u, m) /\ Right(s, T!Raised, u, m)
  BY <1>4, RightNone
<1> QED
  BY <1>1, <1>2, <1>3, <1>5

\* A fresh activation keeps the globals.
LEMMA Fresh ==
  ASSUME NEW k, reg \in Regs,
         k \in {"top", "while", "iter", "args", "meth", "cfunc", "rescue", "ensure", "catch", "proc", "yield"}
  PROVE  /\ T!Activation(k) \in Acts /\ T!Activation(k).kind = k /\ T!Activation(k).phase = "body"
         /\ T!Activation(k).old = reg /\ T!Activation(k).tframe = reg.frame
         /\ T!Activation(k).titer = reg.iter /\ T!Activation(k).pend = T!NoJump
<1>1. T!NoBlk \in Blks /\ T!NoJump \in Jumps /\ reg.frame \in Nat /\ reg.iter \in Nat
  BY Nothing, RegIs
<1> QED
  BY <1>1 DEF T!Activation, Acts, T!ITER_NOT

\* The activation f begins on top.
LEMMA Enters ==
  ASSUME TagsInv, ~stray, Len(t_stack) > 0, Len(t_stack) < MaxDepth, NEW s, Prefix(s, t_stack, Len(t_stack)),
         NEW f, Fits(t_stack, f, Len(t_stack) + 1), f.old = reg, t_stack' = Append(s, f),
         reg' = Made(t_stack, f, Len(t_stack) + 1), jump' = T!NoJump,
         proc' \in Blks, Held(t_stack, proc', Len(t_stack)), UNCHANGED stray
  PROVE  TagsInv'
<1> DEFINE m == Len(t_stack)
           n == m + 1
<1>1. m \in Nat /\ m \in 0 .. m /\ n \in Nat /\ n \in 2 .. MaxDepth /\ n <= m + 1 /\ m <= n /\ n - 1 = m
  BY InvIs
<1>2. s \in Seq(Acts) /\ Len(s) = m /\ \A i \in 1 .. m : Like(s[i], t_stack[i])
  BY DEF Prefix
<1>3. f \in Acts
  BY DEF Fits
<1>4. /\ t_stack' \in Seq(Acts) /\ Len(t_stack') = n /\ t_stack'[n] = f
      /\ \A i \in 1 .. m : t_stack'[i] = s[i]
  BY <1>2, <1>3, Appended
<1>5. \A i \in 1 .. m : Like(t_stack'[i], t_stack[i])
  BY <1>2, <1>4
<1>6. Topped(t_stack', t_stack, f, n)
  BY <1>1, <1>4, <1>5 DEF Topped
<1>7. f.old = At(t_stack, reg, n - 1)
  BY <1>1 DEF At
<1>8. Held(t_stack', proc', n)
  <2>1. /\ proc'.scope \in 0 .. m /\ proc'.home \in 0 .. m
        /\ proc'.scope > 0 => T!HasScope(t_stack[proc'.scope])
        /\ proc'.home > 0 => t_stack[proc'.home].kind = "iter"
    BY <1>1 DEF Held, Block
  <2>2. ASSUME proc'.scope > 0 PROVE T!HasScope(t_stack'[proc'.scope])
    <3>1. proc'.scope \in 1 .. m
      BY <1>1, <2>1, <2>2
    <3> QED
      BY <1>5, <2>1, <2>2, <3>1, LikeHas
  <2>3. proc'.scope \in 0 .. (n + 1) - 1 /\ proc'.home \in 0 .. n + 1 /\ proc'.home <= n
    BY <1>1, <2>1
  <2>4. ASSUME proc'.home > 0 PROVE t_stack'[proc'.home].kind = "iter"
    <3>1. proc'.home \in 1 .. m
      BY <1>1, <2>1, <2>4
    <3> QED
      BY <1>5, <2>1, <2>4, <3>1 DEF Like
  <2>5. \A k \in 1 .. (n + 1) - 1 : k > 0
    BY <1>1
  <2> HIDE DEF n
  <2>6. proc'.home \in 1 .. (n + 1) - 1 => t_stack'[proc'.home].kind = "iter"
    BY <2>4, <2>5
  <2> QED
    BY <2>2, <2>3, <2>6 DEF Held, Block
<1>9. reg' = Made(t_stack, f, n) /\ Fits(t_stack, f, n)
  OBVIOUS
<1>10. jump' \in Jumps /\ Right(t_stack', jump', reg', n)
  BY Nothing
<1> HIDE DEF n
<1> QED
  BY <1>1, <1>6, <1>7, <1>8, <1>9, <1>10, Puts

\* PUSH_TAG() and the others make of the globals what After says.
LEMMA PushedMade ==
  ASSUME NEW f, f.old = reg, f.kind # "yield", NEW s, NEW n
  PROVE  T!Pushed(f, n) = Made(s, f, n)
BY DEF T!Pushed, Made

\* A stack is a prefix of itself.
LEMMA Whole ==
  ASSUME NEW s \in Seq(Acts) PROVE Prefix(s, s, Len(s))
BY LikeSame DEF Prefix

\* A construct that keeps no block begins.
LEMMA Begins ==
  ASSUME TagsInv, ~stray, Len(t_stack) > 0, Len(t_stack) < MaxDepth,
         T!top.kind # "proc", jump = T!NoJump,
         NEW k \in {"while", "rescue", "ensure", "args"}, T!Push(T!Activation(k)), UNCHANGED <<jump, proc, stray>>
  PROVE  TagsInv'
<1> DEFINE f == T!Activation(k)
           n == Len(t_stack) + 1
<1>1. f \in Acts /\ f.kind = k /\ f.phase = "body" /\ f.old = reg /\ f.tframe = reg.frame /\ f.titer = reg.iter
      /\ f.pend = T!NoJump
  BY InvIs, Fresh
<1> HIDE DEF f
<1>2. T!Push(f) /\ t_stack' = Append(t_stack, f) /\ reg' = T!Pushed(f, n)
  BY DEF T!Push, T!Here, T!depth, f
<1>3. reg' = Made(t_stack, f, n)
  BY <1>1, <1>2, PushedMade
<1>4. Fits(t_stack, f, n)
  <2>1. n - 1 = Len(t_stack) /\ t_stack[Len(t_stack)].kind # "proc"
    BY InvIs DEF T!top, T!depth
  <2>2. Right(t_stack, f.pend, f.old, n - 1)
    BY <1>1, Nothing
  <2> HIDE DEF n
  <2> QED
    BY <1>1, <2>1, <2>2 DEF Fits, Made, T!HasTag, T!HasBlock, T!HasFrame, T!HasIter
<1>5. /\ Prefix(t_stack, t_stack, Len(t_stack)) /\ jump' = T!NoJump /\ proc' \in Blks
      /\ Held(t_stack, proc', Len(t_stack)) /\ UNCHANGED stray
  BY InvIs, Whole
<1> QED
  BY <1>1, <1>2, <1>3, <1>4, <1>5, Enters

\* Where code runs.
LEMMA RunsIs == ASSUME TagsInv, T!Runs PROVE ~stray /\ Len(t_stack) > 0 /\ jump = T!NoJump
BY DEF T!Runs, T!depth

\* Code of a block or a method, not a Proc's activation, is on top.
LEMMA TopIs == T!Ruby \/ T!Calls => T!top.kind # "proc"
BY DEF T!Ruby, T!Calls, T!Evaluates

\* while, begin-rescue and begin-ensure keep the invariant.
LEMMA BeginKeeps ==
  ASSUME TagsInv, NEW k \in {"while", "rescue", "ensure"}, T!Begin(k)
  PROVE  TagsInv'
<1>1. ~stray /\ Len(t_stack) > 0 /\ Len(t_stack) < MaxDepth /\ jump = T!NoJump /\ T!top.kind # "proc"
  BY RunsIs, TopIs DEF T!Begin, T!Ruby, T!depth
<1>2. T!Push(T!Activation(k)) /\ UNCHANGED <<jump, proc, stray>>
  BY DEF T!Begin
<1> QED
  BY <1>1, <1>2, Begins

\* The arguments of a call keep the invariant.
LEMMA SetupArgsKeeps == ASSUME TagsInv, T!SetupArgs PROVE TagsInv'
<1>1. ~stray /\ Len(t_stack) > 0 /\ Len(t_stack) < MaxDepth /\ jump = T!NoJump /\ T!top.kind # "proc"
  BY RunsIs, TopIs DEF T!SetupArgs, T!Calls, T!depth
<1>2. T!Push(T!Activation("args")) /\ UNCHANGED <<jump, proc, stray>>
  BY DEF T!SetupArgs
<1> QED
  BY <1>1, <1>2, Begins

\* A NODE_ITER at depth n, from the globals that are there.
LEMMA IterFits ==
  ASSUME TagsInv, ~stray, Len(t_stack) > 0, NEW n \in 2 .. MaxDepth, n <= Len(t_stack) + 1,
         NEW u, u = At(t_stack, reg, n - 1), t_stack[n - 1].kind # "proc"
  PROVE  /\ Fits(t_stack, T!IterAt(n, u), n) /\ T!IterAt(n, u).old = u /\ T!IterAt(n, u).kind = "iter"
         /\ Made(t_stack, T!IterAt(n, u), n) = [u EXCEPT !.iter = n, !.block = n, !.tag = n]
<1> DEFINE f == T!IterAt(n, u)
           m == n - 1
<1>1. /\ Linked(t_stack, reg) /\ Len(t_stack) \in Nat /\ MaxDepth \in Nat /\ Len(t_stack) <= MaxDepth
      /\ m \in 1 .. Len(t_stack) /\ m \in Nat /\ n = m + 1 /\ n \in 0 .. n /\ n \in Nat /\ reg \in Regs
  BY InvIs
<1>2. Names(t_stack, u, m) /\ u \in Regs
  <2>1. Names(t_stack, u, m) /\ u = After(t_stack, m)
    BY <1>1 DEF Linked
  <2>2. CASE m = Len(t_stack)
    BY <1>1, <2>1, <2>2 DEF At
  <2>3. CASE m # Len(t_stack)
    <3>1. n \in 1 .. Len(t_stack) /\ u = t_stack[n].old
      BY <1>1, <2>3 DEF At
    <3> QED
      BY <1>1, <2>1, <3>1, LinkedIs
  <2> QED
    BY <2>2, <2>3
<1>3. /\ u.frame \in 1 .. m /\ u.iter \in 1 .. m /\ u.tag \in 0 .. MaxDepth /\ u.scope \in 0 .. m
      /\ u.scope > 0 => T!HasScope(t_stack[u.scope])
      /\ u.block \in 0 .. m
  BY <1>1, <1>2 DEF Names
<1>4. t_stack[u.frame] \in Acts /\ t_stack[u.iter] \in Acts
  BY <1>1, <1>3, LinkedIs
<1>5. t_stack[u.frame].fiter \in 0 .. 2 /\ t_stack[u.iter].iter \in 0 .. 2
  BY <1>4, ActIs
<1> DEFINE b == [T!NoBlk EXCEPT !.level = u.tag, !.scope = u.scope, !.prev = u.block,
                                !.fiter = t_stack[u.frame].fiter, !.iter = t_stack[u.iter].iter, !.home = n]
<1>5a. b = [T!NoBlk EXCEPT !.level = u.tag, !.scope = u.scope, !.prev = u.block,
                           !.fiter = t_stack[u.frame].fiter, !.iter = t_stack[u.iter].iter, !.home = n]
  OBVIOUS
<1> HIDE DEF b
<1>6. b \in Blks /\ b.scope = u.scope /\ b.prev = u.block /\ b.home = n /\ b.level = u.tag
  <2>1. u.scope \in Nat /\ u.block \in Nat
    BY <1>3
  <2> QED
    BY <1>1, <1>3, <1>5, <1>5a, <2>1, Nothing DEF Blks
<1> DEFINE a == T!Activation("iter")
<1>7. a \in Acts /\ a.kind = "iter" /\ a.pend = T!NoJump
  BY <1>1, Fresh
<1> HIDE DEF a
<1>8. f = [a EXCEPT !.phase = "pre", !.old = u, !.tframe = u.frame, !.titer = u.iter, !.iter = 1, !.blk = b]
  BY DEF T!IterAt, T!ITER_PRE, a, b
<1> HIDE DEF f
<1>9. /\ f \in Acts /\ f.kind = "iter" /\ f.old = u /\ f.blk = b /\ f.tframe = u.frame
      /\ f.titer = u.iter /\ f.pend = T!NoJump
  <2>1. u.frame \in Nat /\ u.iter \in Nat
    BY <1>3
  <2>2. a = [kind |-> a.kind, phase |-> a.phase, old |-> a.old, tframe |-> a.tframe, titer |-> a.titer,
             iter |-> a.iter, fiter |-> a.fiter, blk |-> a.blk, given |-> a.given, pend |-> a.pend,
             name |-> a.name]
    BY <1>7 DEF Acts
  <2>3. f = [kind |-> a.kind, phase |-> "pre", old |-> u, tframe |-> u.frame, titer |-> u.iter,
             iter |-> 1, fiter |-> a.fiter, blk |-> b, given |-> a.given, pend |-> a.pend,
             name |-> a.name]
    BY <1>8, <2>2
  <2>4. a.fiter \in 0 .. 2 /\ a.given \in Nat /\ a.pend \in Jumps /\ a.name \in Name \cup {"none"}
    BY <1>7, ActIs
  <2>5. f \in Acts
    BY <1>2, <1>6, <1>7, <2>1, <2>3, <2>4 DEF Acts
  <2> QED
    BY <1>7, <2>3, <2>5
<1>10. Block(t_stack, b, n)
  BY <1>1, <1>3, <1>6 DEF Block
<1>11. Fits(t_stack, f, n)
  <2>1. Right(t_stack, f.pend, f.old, n - 1)
    BY <1>9, Nothing
  <2> HIDE DEF m
  <2> QED
    BY <1>6, <1>9, <1>10, <2>1 DEF Fits, Made, T!HasFrame
<1>12. Made(t_stack, f, n) = [u EXCEPT !.iter = n, !.block = n, !.tag = n]
  <2> DEFINE v == [u EXCEPT !.iter = n, !.block = n, !.tag = n]
             h == Made(t_stack, f, n)
  <2>0. v = [u EXCEPT !.iter = n, !.block = n, !.tag = n] /\ h = Made(t_stack, f, n)
    OBVIOUS
  <2> HIDE DEF v, h
  <2>1. v \in Regs /\ v.frame = u.frame /\ v.iter = n /\ v.block = n /\ v.scope = u.scope /\ v.tag = n
    BY <1>1, <1>2, <2>0 DEF Regs
  <2>2. h = [frame |-> u.frame, iter |-> n, block |-> n, scope |-> u.scope, tag |-> n]
    BY <1>9, <2>0 DEF Made, T!HasFrame, T!HasIter, T!HasBlock, T!HasScope, T!HasTag
  <2>3. h \in Regs
    BY <1>1, <1>2, <2>2 DEF Regs
  <2>4. v = h
    BY <2>1, <2>2, <2>3, RegsSame
  <2> QED
    BY <2>0, <2>4
<1> QED
  BY <1>9, <1>11, <1>12 DEF f

\* A call with a block begins.
LEMMA NodeIterKeeps == ASSUME TagsInv, T!NODE_ITER PROVE TagsInv'
<1> DEFINE n == Len(t_stack) + 1
           f == T!IterAt(n, reg)
<1>1. ~stray /\ Len(t_stack) > 0 /\ Len(t_stack) + 1 < MaxDepth /\ jump = T!NoJump /\ T!top.kind # "proc"
  BY RunsIs, TopIs DEF T!NODE_ITER, T!Ruby, T!depth
<1>2. Len(t_stack) \in Nat /\ MaxDepth \in Nat /\ Len(t_stack) < MaxDepth
  BY <1>1, InvIs
<1>3. n \in 2 .. MaxDepth /\ n <= Len(t_stack) + 1 /\ n - 1 = Len(t_stack)
  BY <1>1, <1>2
<1>4. reg = At(t_stack, reg, n - 1)
  BY <1>3 DEF At
<1>4a. t_stack[n - 1].kind # "proc"
  BY <1>1, <1>3 DEF T!top, T!depth
<1>5. T!Push(f) /\ UNCHANGED <<jump, proc, stray>>
  BY DEF T!NODE_ITER, T!Here, T!depth
<1>5a. t_stack' = Append(t_stack, f) /\ reg' = T!Pushed(f, n)
  BY <1>5 DEF T!Push, T!Here, T!depth
<1> HIDE DEF n
<1>6. Fits(t_stack, f, n) /\ f.old = reg /\ f.kind = "iter"
  BY <1>1, <1>3, <1>4, <1>4a, IterFits
<1> HIDE DEF f
<1>7. reg' = Made(t_stack, f, n)
  BY <1>5a, <1>6, PushedMade
<1>8. /\ Prefix(t_stack, t_stack, Len(t_stack)) /\ jump' = T!NoJump /\ proc' \in Blks
      /\ Held(t_stack, proc', Len(t_stack)) /\ UNCHANGED stray
  BY <1>1, <1>5, InvIs, Whole
<1> QED
  BY <1>1, <1>2, <1>5a, <1>6, <1>7, <1>8, Enters DEF n

-----------------------------------------------------------------------------
(***************************************************************************)
(* Calls.                                                                  *)
(***************************************************************************)

\* The activation of a call.
LEMMA CalledIs ==
  ASSUME TagsInv, ~stray, Len(t_stack) > 0, NEW k \in {"meth", "cfunc", "catch", "proc"}, NEW i
  PROVE  LET f == T!Called(k, i)
             n == Len(t_stack) + 1
         IN  /\ f \in Acts /\ f.kind = k /\ f.old = reg /\ f.tframe = n /\ f.titer = n
             /\ f.iter \in 0 .. 2 /\ f.pend = T!NoJump
<1> DEFINE f == T!Called(k, i)
           n == Len(t_stack) + 1
           a == T!Activation(k)
           g == IF T!top.kind = "iter" THEN T!depth
                ELSE IF i # T!ITER_PRE THEN 0
                ELSE IF T!Plain THEN t_stack[reg.scope].given ELSE T!Unsaid
<1>1. reg \in Regs /\ Len(t_stack) \in Nat /\ MaxDepth \in Nat /\ reg.scope \in 0 .. Len(t_stack)
  BY InvIs
<1>2. a \in Acts /\ a.kind = k /\ a.old = reg /\ a.pend = T!NoJump
  BY <1>1, Fresh
<1>3. g \in Nat
  <2>1. CASE T!Plain
    <3>1. reg.scope \in 1 .. Len(t_stack)
      BY <1>1, <2>1 DEF T!Plain
    <3>2. t_stack[reg.scope] \in Acts
      BY <3>1, InvIs, LinkedIs
    <3>3. t_stack[reg.scope].given \in Nat
      BY <3>2, ActIs
    <3> QED
      BY <1>1, <3>3 DEF T!Unsaid, T!depth
  <2>2. CASE ~T!Plain
    BY <1>1, <2>2 DEF T!Unsaid, T!depth
  <2> QED
    BY <2>1, <2>2
<1>4. T!Itr(i) \in 0 .. 2
  BY DEF T!Itr, T!ITER_PRE, T!ITER_CUR, T!ITER_NOT
<1>5. f = [a EXCEPT !.iter = T!Itr(i), !.fiter = T!Itr(i), !.tframe = n, !.titer = n, !.given = g]
  BY DEF T!Called, T!Here, T!depth
<1>6. n \in Nat
  BY <1>1
<1> HIDE DEF a, f, g, n
<1>7. f \in Acts /\ f.kind = a.kind /\ f.old = a.old /\ f.tframe = n /\ f.titer = n /\ f.iter = T!Itr(i)
      /\ f.pend = a.pend
  BY <1>2, <1>3, <1>4, <1>5, <1>6 DEF Acts
<1> QED
  BY <1>2, <1>4, <1>7 DEF f, n

\* The activation of a call fits on the stack.
LEMMA CallFits ==
  ASSUME NEW f \in Acts, f.kind \in {"meth", "cfunc", "catch"}, NEW n, f.tframe = n, f.titer = n, NEW s,
         f.pend = T!NoJump, s[n - 1].kind # "proc"
  PROVE  Fits(s, f, n)
BY Nothing DEF Fits, Made, T!HasTag, T!HasBlock, T!HasFrame, T!HasIter

\* An activation comes on.
LEMMA MarkPrefix ==
  ASSUME TagsInv, ~stray, Len(t_stack) > 0, T!top.kind \notin {"yield", "ensure"},
         NEW s, s = [t_stack EXCEPT ![T!depth].phase = "called"]
  PROVE  Prefix(s, t_stack, Len(t_stack))
<1> DEFINE d == Len(t_stack)
           r == t_stack[d]
           a == [r EXCEPT !.phase = "called"]
<1>1. d \in 1 .. d /\ d \in Nat /\ r \in Acts /\ t_stack \in Seq(Acts)
  BY InvIs
<1>2. a \in Acts /\ Like(a, r)
  BY <1>1 DEF Acts, Like, T!top, T!depth
<1>3. s = [t_stack EXCEPT ![d] = a]
  BY DEF T!depth
<1> HIDE DEF a
<1>4. /\ s \in Seq(Acts) /\ Len(s) = d /\ s[d] = a
      /\ \A i \in 1 .. d : i # d => s[i] = t_stack[i]
  <2>1. LET r0 == [t_stack EXCEPT ![d] = a] IN
        /\ r0 \in Seq(Acts) /\ Len(r0) = d /\ r0[d] = a
        /\ \A i \in 1 .. d : i # d => r0[i] = t_stack[i]
    BY <1>1, <1>2, Changed
  <2> QED
    BY <1>3, <2>1
<1>5. \A i \in 1 .. d : Like(s[i], t_stack[i])
  BY <1>2, <1>4, LikeSame
<1> QED
  BY <1>4, <1>5 DEF Prefix

\* A call enters the activation f.
LEMMA EnterKeeps ==
  ASSUME TagsInv, ~stray, Len(t_stack) > 0, Len(t_stack) < MaxDepth,
         NEW f, Fits(t_stack, f, Len(t_stack) + 1), f.old = reg, f.kind # "yield", T!Enter(f),
         jump' = T!NoJump, proc' \in Blks, Held(t_stack, proc', Len(t_stack)), UNCHANGED stray
  PROVE  TagsInv'
<1> DEFINE s == IF T!top.kind = "iter" THEN [t_stack EXCEPT ![T!depth].phase = "called"] ELSE t_stack
           n == Len(t_stack) + 1
<1>1. t_stack' = Append(s, f) /\ reg' = T!Pushed(f, n)
  BY DEF T!Enter, T!Here, T!depth
<1>2. Prefix(s, t_stack, Len(t_stack))
  <2>1. CASE T!top.kind = "iter"
    <3>1. s = [t_stack EXCEPT ![T!depth].phase = "called"] /\ T!top.kind \notin {"yield", "ensure"}
      BY <2>1
    <3> HIDE DEF s
    <3> QED
      BY <3>1, MarkPrefix
  <2>2. CASE T!top.kind # "iter"
    <3>1. s = t_stack
      BY <2>2
    <3> HIDE DEF s
    <3> QED
      BY <3>1, InvIs, Whole
  <2> QED
    BY <2>1, <2>2
<1> HIDE DEF s
<1>3. reg' = Made(t_stack, f, n)
  BY <1>1, PushedMade
<1> QED
  BY <1>1, <1>2, <1>3, Enters

\* A call of a method keeps the invariant.
LEMMA CallKeeps ==
  ASSUME TagsInv, T!Runs, T!top.kind # "proc", Len(t_stack) < MaxDepth, NEW k \in {"meth", "cfunc", "catch"}, NEW i,
         NEW m \in Name \cup {"none"}, NEW p \in {"call", "body"},
         NEW f, f = [T!Called(k, i) EXCEPT !.name = m, !.phase = p], T!Enter(f), UNCHANGED <<jump, proc, stray>>
  PROVE  TagsInv'
<1>1. ~stray /\ Len(t_stack) > 0 /\ jump = T!NoJump
  BY RunsIs
<1> DEFINE c == T!Called(k, i)
           n == Len(t_stack) + 1
<1>1a. t_stack[n - 1].kind # "proc"
  <2>1. n - 1 = Len(t_stack)
    BY <1>1, InvIs
  <2> QED
    BY <2>1 DEF T!top, T!depth
<1>2. c \in Acts /\ c.kind = k /\ c.old = reg /\ c.tframe = n /\ c.titer = n /\ c.pend = T!NoJump
  BY <1>1, CalledIs
<1>3. f = [c EXCEPT !.name = m, !.phase = p]
  OBVIOUS
<1> HIDE DEF c, n
<1>4. f \in Acts /\ f.kind = k /\ f.old = reg /\ f.tframe = n /\ f.titer = n /\ f.pend = T!NoJump
  BY <1>2, <1>3 DEF Acts
<1>5. Fits(t_stack, f, n) /\ f.kind # "yield"
  BY <1>1a, <1>4, CallFits
<1>6. jump' = T!NoJump /\ proc' \in Blks /\ Held(t_stack, proc', Len(t_stack)) /\ UNCHANGED stray
  BY <1>1, InvIs
<1> QED
  BY <1>1, <1>4, <1>5, <1>6, EnterKeeps DEF n

\* A call of any kind of method keeps the invariant.
LEMMA RbCallKeeps ==
  ASSUME TagsInv, NEW k \in {"meth", "cfunc", "catch"}, NEW m \in Name \cup {"none"}, T!rb_call(k, m)
  PROVE  TagsInv'
<1> DEFINE i == t_stack[reg.iter].iter
           p == IF k = "catch" THEN "call" ELSE "body"
           f == [T!Called(k, i) EXCEPT !.name = m, !.phase = p]
<1>1. T!Runs /\ Len(t_stack) < MaxDepth /\ T!top.kind # "proc"
  <2>1. T!Runs /\ Len(t_stack) < MaxDepth - (IF k = "catch" THEN 1 ELSE 0)
    BY DEF T!rb_call, T!Calls, T!depth
  <2>2. Len(t_stack) \in Nat /\ MaxDepth \in Nat
    BY <2>1, RunsIs, InvIs
  <2>3. T!top.kind # "proc"
    BY TopIs DEF T!rb_call
  <2> QED
    BY <2>1, <2>2, <2>3
<1>2. T!Enter(f) /\ UNCHANGED <<jump, proc, stray>>
  BY DEF T!rb_call
<1>3. p \in {"call", "body"}
  OBVIOUS
<1> HIDE DEF p, i
<1> QED
  BY <1>1, <1>2, <1>3, CallKeeps

\* super keeps the invariant.
LEMMA ZsuperKeeps == ASSUME TagsInv, T!NODE_ZSUPER PROVE TagsInv'
<1> DEFINE i == IF t_stack[reg.iter].iter = T!ITER_NOT THEN T!ITER_NOT ELSE T!ITER_PRE
           f == T!Called("meth", i)
           n == Len(t_stack) + 1
<1>1. T!Runs /\ Len(t_stack) < MaxDepth /\ T!Enter(f) /\ UNCHANGED <<jump, proc, stray>>
      /\ T!top.kind # "proc"
  BY TopIs DEF T!NODE_ZSUPER, T!Ruby, T!depth
<1>2. ~stray /\ Len(t_stack) > 0 /\ jump = T!NoJump
  BY <1>1, RunsIs
<1> HIDE DEF i
<1>3. f \in Acts /\ f.kind = "meth" /\ f.old = reg /\ f.tframe = n /\ f.titer = n /\ f.pend = T!NoJump
  BY <1>2, CalledIs
<1>3a. t_stack[n - 1].kind # "proc"
  <2>1. n - 1 = Len(t_stack)
    BY <1>2, InvIs
  <2> QED
    BY <1>1, <2>1 DEF T!top, T!depth
<1> HIDE DEF f, n
<1>4. Fits(t_stack, f, n) /\ f.kind # "yield"
  BY <1>3, <1>3a, CallFits
<1>5. jump' = T!NoJump /\ proc' \in Blks /\ Held(t_stack, proc', Len(t_stack)) /\ UNCHANGED stray
  BY <1>1, <1>2, InvIs
<1> QED
  BY <1>1, <1>2, <1>3, <1>4, <1>5, EnterKeeps DEF n

\* A Proc takes a block with it.
LEMMA ProcNewKeeps == ASSUME TagsInv, T!proc_s_new PROVE TagsInv'
<1> DEFINE m == Len(t_stack)
           b == reg.block
           c == t_stack[b].blk
<1>1. ~stray /\ m > 0 /\ UNCHANGED <<reg, jump, stray>>
  BY RunsIs DEF T!proc_s_new, T!Calls
<1>2. m \in Nat /\ m \in 0 .. m /\ t_stack \in Seq(Acts) /\ jump' \in Jumps /\ reg = After(t_stack, m)
      /\ (b > 0 => b \in 1 .. m /\ T!HasBlock(t_stack[b])) /\ b \in Nat /\ m \in 1 .. m
  BY <1>1, InvIs
<1>3. b > 0 /\ Prefix(t_stack', t_stack, m)
  <2>1. CASE T!top.kind = "iter" /\ t_stack' = [t_stack EXCEPT ![T!depth].phase = "called"]
    <3>1. T!HasBlock(t_stack[m])
      BY <2>1 DEF T!HasBlock, T!top, T!depth
    <3>2. b = m
      BY <1>2, <3>1 DEF After, Made
    <3>3. T!top.kind \notin {"yield", "ensure"}
      BY <2>1
    <3> QED
      BY <1>1, <2>1, <3>2, <3>3, MarkPrefix
  <2>2. CASE reg.block > 0 /\ UNCHANGED t_stack
    BY <1>2, <2>2, Whole
  <2> QED
    BY <2>1, <2>2 DEF T!proc_s_new
<1>4. b \in 1 .. m /\ T!HasBlock(t_stack[b])
  BY <1>2, <1>3
<1>5. t_stack[b] \in Acts /\ Keeps(t_stack, b)
  BY <1>1, <1>4, InvIs, LinkedIs
<1>6. c \in Blks /\ Block(t_stack, c, b)
  BY <1>4, <1>5, ActIs DEF Keeps
<1>7. \E i \in 0 .. 2 : proc' = [c EXCEPT !.iter = i]
  <2>1. proc' = [c EXCEPT !.iter = IF T!iterator_p THEN 2 ELSE 0]
    BY DEF T!proc_s_new, T!ITER_CUR, T!ITER_NOT
  <2>2. (IF T!iterator_p THEN 2 ELSE 0) \in 0 .. 2
    OBVIOUS
  <2> QED
    BY <2>1, <2>2
<1> HIDE DEF c
<1>8. proc' \in Blks /\ proc'.scope = c.scope /\ proc'.home = c.home
  BY <1>6, <1>7 DEF Blks
<1>9. /\ proc'.scope \in 0 .. (m + 1) - 1 /\ proc'.home \in 0 .. m + 1 /\ proc'.home <= m
      /\ proc'.scope > 0 => T!HasScope(t_stack[proc'.scope])
  BY <1>2, <1>4, <1>6, <1>8 DEF Block
<1>10. proc'.home > 0 => t_stack[proc'.home].kind = "iter"
  <2>1. CASE c.home = b
    BY <1>4, <1>5, <1>8, <2>1 DEF Keeps, c
  <2>2. CASE c.home # b
    BY <1>2, <1>4, <1>6, <1>8, <2>2 DEF Block
  <2> QED
    BY <2>1, <2>2
<1>11. \A i \in 1 .. m : Like(t_stack'[i], t_stack[i])
  BY <1>3 DEF Prefix
<1>12. Held(t_stack', proc', m)
  <2>1. ASSUME proc'.scope > 0 PROVE T!HasScope(t_stack'[proc'.scope])
    <3>1. proc'.scope \in 1 .. m
      BY <1>2, <1>9, <2>1
    <3> QED
      BY <1>9, <1>11, <2>1, <3>1, LikeHas
  <2>2. ASSUME proc'.home > 0 PROVE t_stack'[proc'.home].kind = "iter"
    <3>1. proc'.home \in 1 .. m
      BY <1>2, <1>9, <2>2
    <3> QED
      BY <1>10, <1>11, <2>2, <3>1 DEF Like
  <2> QED
    BY <1>9, <2>1, <2>2 DEF Held, Block
<1>13. Right(t_stack, jump', reg, m)
  BY <1>1, InvIs
<1> QED
  BY <1>1, <1>2, <1>3, <1>8, <1>12, <1>13, Stands

\* Proc#call pushes the block of the Proc.
LEMMA ProcCallKeeps == ASSUME TagsInv, T!proc_call PROVE TagsInv'
<1> DEFINE m == Len(t_stack)
           n == m + 1
           c == T!Called("proc", t_stack[reg.iter].iter)
           data == [proc EXCEPT !.fiter = IF proc.scope = 0 THEN c.iter ELSE proc.fiter]
           b == [data EXCEPT !.prev = reg.block]
           f == [c EXCEPT !.blk = b, !.phase = "call", !.iter = T!ITER_CUR, !.fiter = T!ITER_CUR, !.titer = n]
<1>1. ~stray /\ m > 0 /\ m + 1 < MaxDepth /\ UNCHANGED <<jump, stray>>
      /\ jump = T!NoJump /\ T!top.kind # "proc"
  BY RunsIs, TopIs DEF T!proc_call, T!Calls, T!depth
<1>2. /\ m \in Nat /\ MaxDepth \in Nat /\ m < MaxDepth /\ reg \in Regs /\ jump' = T!NoJump
      /\ proc \in Blks /\ Held(t_stack, proc, m) /\ n \in Nat
  BY <1>1, InvIs
<1>3. c \in Acts /\ c.kind = "proc" /\ c.old = reg /\ c.tframe = n /\ c.titer = n /\ c.iter \in 0 .. 2
      /\ c.pend = T!NoJump
  BY <1>1, CalledIs
<1>3a. t_stack[n - 1].kind # "proc"
  <2>1. n - 1 = m
    BY <1>2
  <2> QED
    BY <1>1, <2>1 DEF T!top, T!depth
<1>4. T!Enter(f) /\ proc' = data
  BY DEF T!proc_call, T!Here, T!depth
<1> HIDE DEF c
<1>5. data \in Blks /\ data.scope = proc.scope /\ data.home = proc.home
  <2>1. proc.fiter \in 0 .. 2
    BY <1>2, BlkIs
  <2>2. (IF proc.scope = 0 THEN c.iter ELSE proc.fiter) \in 0 .. 2
    BY <1>3, <2>1
  <2> QED
    BY <1>2, <2>2 DEF Blks
<1> HIDE DEF data
<1>6. b \in Blks /\ b.scope = proc.scope /\ b.home = proc.home /\ b.prev = reg.block
  <2>1. reg.block \in Nat
    BY <1>2, RegIs
  <2> QED
    BY <1>5, <2>1 DEF Blks
<1>7. Held(t_stack, data, m) /\ Block(t_stack, b, n)
  BY <1>2, <1>5, <1>6 DEF Held, Block
<1> HIDE DEF b
<1>8. f = [c EXCEPT !.blk = b, !.phase = "call", !.iter = 2, !.fiter = 2, !.titer = n]
  BY DEF T!ITER_CUR
<1> HIDE DEF f, n
<1>9. f \in Acts /\ f.kind = "proc" /\ f.old = reg /\ f.tframe = n /\ f.titer = n /\ f.blk = b
      /\ f.pend = T!NoJump
  <2>1. c.fiter \in 0 .. 2 /\ c.given \in Nat /\ c.pend \in Jumps /\ c.name \in Name \cup {"none"}
        /\ c.tframe \in Nat /\ c.old \in Regs
    BY <1>3, ActIs
  <2>2. c = [kind |-> c.kind, phase |-> c.phase, old |-> c.old, tframe |-> c.tframe, titer |-> c.titer,
             iter |-> c.iter, fiter |-> c.fiter, blk |-> c.blk, given |-> c.given, pend |-> c.pend,
             name |-> c.name]
    BY <1>3 DEF Acts
  <2>3. f = [kind |-> c.kind, phase |-> "call", old |-> c.old, tframe |-> c.tframe, titer |-> n,
             iter |-> 2, fiter |-> 2, blk |-> b, given |-> c.given, pend |-> c.pend, name |-> c.name]
    BY <1>8, <2>2
  <2>4. f \in Acts
    BY <1>2, <1>3, <1>6, <2>1, <2>3 DEF Acts
  <2> QED
    BY <1>3, <2>3, <2>4
<1>10. b.home # n
  BY <1>2, <1>6 DEF Held, n
<1>11. Fits(t_stack, f, n) /\ f.kind # "yield"
  BY <1>3a, <1>6, <1>7, <1>9, <1>10, Nothing DEF Fits, Made, T!HasFrame, T!HasIter
<1> QED
  BY <1>1, <1>2, <1>4, <1>5, <1>7, <1>9, <1>11, EnterKeeps DEF n

-----------------------------------------------------------------------------
(***************************************************************************)
(* Blocks are entered.                                                     *)
(***************************************************************************)

\* The globals are those of the block when its parameters are assigned.
LEMMA YieldBeginKeeps == ASSUME TagsInv, T!YieldBegin PROVE TagsInv'
<1> DEFINE m == Len(t_stack)
           n == m + 1
           b == t_stack[reg.block].blk
           a == T!Activation("yield")
           f == [a EXCEPT !.phase = "assign", !.fiter = b.fiter]
           s == IF T!top.phase = "call" THEN [t_stack EXCEPT ![T!depth].phase = "called"] ELSE t_stack
<1>1. ~stray /\ m > 0 /\ m < MaxDepth /\ reg.block > 0 /\ UNCHANGED <<jump, proc, stray>>
      /\ jump = T!NoJump
  BY RunsIs DEF T!YieldBegin, T!depth
<1>2. /\ m \in Nat /\ reg \in Regs /\ jump' = T!NoJump /\ proc' \in Blks /\ Held(t_stack, proc', m)
      /\ reg.block \in 1 .. m /\ T!HasBlock(t_stack[reg.block]) /\ t_stack \in Seq(Acts)
      /\ Keeps(t_stack, m) /\ m \in 1 .. m
  BY <1>1, InvIs
<1>3. t_stack' = Append(s, f) /\ reg' = [reg EXCEPT !.frame = n, !.scope = b.scope, !.block = b.prev]
  BY DEF T!YieldBegin, T!Here, T!depth
<1>4. b.fiter \in 0 .. 2 /\ b.scope \in Nat /\ b.prev \in Nat
  <2>1. t_stack[reg.block] \in Acts
    BY <1>1, <1>2, InvIs, LinkedIs
  <2> QED
    BY <2>1, ActIs, BlkIs
<1>5. a \in Acts /\ a.kind = "yield" /\ a.old = reg /\ a.pend = T!NoJump
  BY <1>2, Fresh
<1>6. Prefix(s, t_stack, m)
  <2>1. CASE T!top.phase = "call"
    <3>1. s = [t_stack EXCEPT ![T!depth].phase = "called"] /\ T!top.kind \notin {"yield", "ensure"}
      BY <1>2, <2>1 DEF Keeps, T!top, T!depth
    <3> HIDE DEF s
    <3> QED
      BY <1>1, <3>1, MarkPrefix
  <2>2. CASE T!top.phase # "call"
    <3>1. s = t_stack
      BY <2>2
    <3> HIDE DEF s
    <3> QED
      BY <1>2, <3>1, Whole
  <2> QED
    BY <2>1, <2>2
<1>6a. f = [a EXCEPT !.phase = "assign", !.fiter = b.fiter]
  OBVIOUS
<1> HIDE DEF s, a, f
<1>7. f \in Acts /\ f.kind = "yield" /\ f.phase = "assign" /\ f.old = reg /\ f.pend = T!NoJump
  BY <1>4, <1>5, <1>6a DEF Acts
<1>8. Fits(t_stack, f, n)
  BY <1>1, <1>7, Nothing DEF Fits, T!HasTag, T!HasBlock
<1>9. reg' = Made(t_stack, f, n)
  <2> DEFINE h == Made(t_stack, f, n)
  <2>1. /\ reg' \in Regs /\ reg'.frame = n /\ reg'.iter = reg.iter /\ reg'.block = b.prev
        /\ reg'.scope = b.scope /\ reg'.tag = reg.tag
    <3>1. n \in Nat
      BY <1>2
    <3> HIDE DEF n, b
    <3> QED
      BY <1>2, <1>3, <1>4, <3>1 DEF Regs
  <2>2. h = [frame |-> n, iter |-> reg.iter, block |-> b.prev, scope |-> b.scope, tag |-> reg.tag]
    BY <1>7 DEF Made, T!HasFrame, T!HasIter, T!HasBlock, T!HasScope, T!HasTag
  <2>3. h \in Regs
    BY <1>2, <1>4, <2>2 DEF Regs
  <2>4. /\ h.frame = n /\ h.iter = reg.iter /\ h.block = b.prev /\ h.scope = b.scope /\ h.tag = reg.tag
    BY <2>2
  <2> HIDE DEF h
  <2>5. reg' = h
    BY <2>1, <2>3, <2>4, RegsSame
  <2> QED
    BY <2>5 DEF h
<1> QED
  BY <1>1, <1>2, <1>3, <1>6, <1>7, <1>8, <1>9, Enters

\* The body of a block has a tag and an iter of its own.
LEMMA YieldBodyKeeps == ASSUME TagsInv, T!YieldBody PROVE TagsInv'
<1> DEFINE n == Len(t_stack)
           r == t_stack[n]
           i == t_stack[r.old.block].blk.iter
           f == [r EXCEPT !.phase = "body", !.iter = i, !.tframe = reg.frame, !.titer = n]
<1>1. ~stray /\ n > 0 /\ r.kind = "yield" /\ r.phase = "assign" /\ UNCHANGED <<jump, proc, stray>>
      /\ jump = T!NoJump
  BY RunsIs DEF T!YieldBody, T!top, T!depth
<1>2. /\ n \in Nat /\ reg \in Regs /\ jump' \in Jumps /\ proc' \in Blks /\ Held(t_stack, proc', n)
      /\ Keeps(t_stack, n) /\ r \in Acts /\ Linked(t_stack, reg) /\ t_stack \in Seq(Acts)
      /\ reg = After(t_stack, n) /\ n \in 1 .. n /\ n <= MaxDepth /\ MaxDepth \in Nat
  BY <1>1, InvIs
<1>3. t_stack' = [t_stack EXCEPT ![n] = f] /\ reg' = [reg EXCEPT !.iter = n, !.tag = n]
  BY DEF T!YieldBody, T!top, T!depth
<1>4. n \in 2 .. n /\ r.old.block \in 1 .. n - 1
  BY <1>1, <1>2, YieldBlock
<1>5. i \in 0 .. 2
  <2>1. r.old.block \in 1 .. n
    BY <1>2, <1>4
  <2>2. t_stack[r.old.block] \in Acts
    BY <1>2, <2>1, LinkedIs
  <2> QED
    BY <2>2, ActIs, BlkIs
<1>5a. f = [r EXCEPT !.phase = "body", !.iter = i, !.tframe = reg.frame, !.titer = n]
  OBVIOUS
<1> HIDE DEF f, i
<1>6. f \in Acts /\ f.kind = "yield" /\ f.phase = "body" /\ f.old = r.old /\ f.tframe = reg.frame /\ f.titer = n
      /\ f.pend = r.pend
  <2>1. reg.frame \in Nat
    BY <1>2, RegIs
  <2> QED
    BY <1>1, <1>2, <1>5, <1>5a, <2>1 DEF Acts
<1>7. reg.frame = n
  BY <1>1, <1>2 DEF After, Made, T!HasFrame
<1>8. Fits(t_stack, f, n)
  <2>1. Made(t_stack, f, n).frame = n /\ Made(t_stack, f, n).iter = n
    BY <1>6 DEF Made, T!HasFrame, T!HasIter
  <2>2. f.old.block > 0
    BY <1>4, <1>6
  <2>3. Right(t_stack, f.pend, f.old, n - 1)
    BY <1>2, <1>6 DEF Keeps
  <2> QED
    BY <1>6, <1>7, <2>1, <2>2, <2>3 DEF Fits, T!HasBlock
<1>9. Topped(t_stack', t_stack, f, n)
  <2>1. LET q == [t_stack EXCEPT ![n] = f] IN
        /\ q \in Seq(Acts) /\ Len(q) = n /\ q[n] = f
        /\ \A j \in 1 .. n : j # n => q[j] = t_stack[j]
    BY <1>2, <1>6, Changed
  <2>2. \A j \in 1 .. n - 1 : j \in 1 .. n /\ j # n
    BY <1>2
  <2> QED
    BY <1>3, <2>1, <2>2, LikeSame DEF Topped
<1>10. reg' = Made(t_stack, f, n)
  <2> DEFINE h == Made(t_stack, f, n)
             b == t_stack[r.old.block].blk
  <2>0. reg.block = b.prev /\ reg.scope = b.scope
    BY <1>1, <1>2 DEF After, Made, T!HasBlock, T!HasScope
  <2>1. /\ reg' \in Regs /\ reg'.frame = n /\ reg'.iter = n /\ reg'.block = b.prev
        /\ reg'.scope = b.scope /\ reg'.tag = n
    BY <1>2, <1>3, <1>7, <2>0 DEF Regs
  <2>2. h = [frame |-> n, iter |-> n, block |-> b.prev, scope |-> b.scope, tag |-> n]
    BY <1>6 DEF Made, T!HasFrame, T!HasIter, T!HasBlock, T!HasScope, T!HasTag
  <2>2a. b.prev \in Nat /\ b.scope \in Nat
    BY <1>2, <2>0, RegIs
  <2>3. h \in Regs
    BY <1>2, <2>2, <2>2a DEF Regs
  <2>4. /\ h.frame = n /\ h.iter = n /\ h.block = b.prev /\ h.scope = b.scope /\ h.tag = n
    BY <2>2
  <2> HIDE DEF h, b
  <2>5. reg' = h
    BY <2>1, <2>3, <2>4, RegsSame
  <2> QED
    BY <2>5 DEF h
<1>11. Held(t_stack', proc', n)
  <2>1. /\ proc'.scope \in 0 .. (n + 1) - 1 /\ proc'.home \in 0 .. n + 1 /\ proc'.home <= n
        /\ proc'.scope > 0 => T!HasScope(t_stack[proc'.scope])
        /\ proc'.home > 0 => t_stack[proc'.home].kind = "iter"
    BY <1>2 DEF Held, Block
  <2>2. ASSUME proc'.scope > 0 PROVE T!HasScope(t_stack'[proc'.scope])
    <3>1. proc'.scope # n
      BY <1>1, <2>1, <2>2 DEF T!HasScope
    <3>2. proc'.scope \in 1 .. n - 1
      BY <1>2, <2>1, <2>2, <3>1
    <3>3. Like(t_stack'[proc'.scope], t_stack[proc'.scope])
      BY <1>9, <3>2 DEF Topped
    <3> QED
      BY <2>1, <2>2, <3>3, LikeHas
  <2>3. ASSUME proc'.home > 0 PROVE t_stack'[proc'.home].kind = "iter"
    <3>1. proc'.home # n
      BY <1>1, <2>1, <2>3
    <3>2. proc'.home \in 1 .. n - 1
      BY <1>2, <2>1, <2>3, <3>1
    <3>3. Like(t_stack'[proc'.home], t_stack[proc'.home])
      BY <1>9, <3>2 DEF Topped
    <3> QED
      BY <2>1, <2>3, <3>3 DEF Like
  <2> QED
    BY <2>1, <2>2, <2>3 DEF Held, Block
<1>12. f.old = At(t_stack, reg, n - 1)
  BY <1>2, <1>4, <1>6, LinkedIs
<1>13. n \in 2 .. MaxDepth /\ n <= Len(t_stack) + 1
  BY <1>2, <1>4
<1>14. Right(t_stack', jump', reg', n)
  BY <1>1, Nothing
<1> QED
  BY <1>1, <1>2, <1>8, <1>9, <1>10, <1>11, <1>12, <1>13, <1>14, Puts

-----------------------------------------------------------------------------
(***************************************************************************)
(* Constructs end, and jumps land.                                         *)
(***************************************************************************)

\* What Stays does to a stack.
LEMMA Restacked ==
  ASSUME NEW s \in Seq(Acts), NEW n \in 1 .. Len(s), NEW f \in Acts,
         NEW r, r = Append(SubSeq(s, 1, n - 1), f)
  PROVE  /\ r \in Seq(Acts) /\ Len(r) = n /\ r[n] = f
         /\ \A i \in 1 .. n - 1 : r[i] = s[i]
<1> DEFINE q == SubSeq(s, 1, n - 1)
<1>1. Len(s) \in Nat
  BY LenProperties
<1>2. n - 1 \in 0 .. Len(s)
  BY <1>1
<1>3. q \in Seq(Acts) /\ Len(q) = n - 1 /\ \A i \in 1 .. n - 1 : q[i] = s[i]
  BY <1>2, CutOff
<1>4. r = Append(q, f)
  OBVIOUS
<1> HIDE DEF q
<1>5. /\ Append(q, f) \in Seq(Acts) /\ Len(Append(q, f)) = Len(q) + 1 /\ Append(q, f)[Len(q) + 1] = f
      /\ \A i \in 1 .. Len(q) : Append(q, f)[i] = q[i]
  BY <1>3, Appended
<1>6. Len(q) + 1 = n
  BY <1>1, <1>3
<1> QED
  BY <1>3, <1>4, <1>5, <1>6

\* An activation that stays at n is there as before.
LEMMA LikeMade ==
  ASSUME NEW s, NEW n \in 1 .. Len(s), NEW f \in Acts, Like(f, s[n]), Keeps(s, n), n # 1
  PROVE  Made(s, f, n) = After(s, n) /\ Fits(s, f, n)
<1>1. /\ T!HasTag(f) <=> T!HasTag(s[n])
      /\ T!HasIter(f) <=> T!HasIter(s[n])
      /\ T!HasFrame(f) <=> T!HasFrame(s[n])
      /\ T!HasBlock(f) <=> T!HasBlock(s[n])
      /\ T!HasScope(f) <=> T!HasScope(s[n])
  BY LikeHas
<1>2. Made(s, f, n) = After(s, n)
  BY <1>1 DEF Made, After, Like
<1>2a. f.kind # "top"
  BY DEF Keeps, Like
<1>3. Fits(s, f, n)
  BY <1>1, <1>2, <1>2a DEF Fits, Keeps, Like
<1> QED
  BY <1>2, <1>3

\* What ends restores what was when it began.
LEMMA EndsKeeps == ASSUME TagsInv, T!Ends PROVE TagsInv'
<1> DEFINE d == Len(t_stack)
           r == t_stack[d]
<1>1. ~stray /\ d > 0 /\ d > 1 /\ UNCHANGED stray
  BY RunsIs DEF T!Ends, T!depth
<1>2. /\ d \in Nat /\ r \in Acts /\ Keeps(t_stack, d) /\ reg = After(t_stack, d) /\ reg \in Regs
      /\ Linked(t_stack, reg)
  BY <1>1, InvIs
<1>3. T!Pop(d, T!Popped(r, reg), r.pend)
  BY DEF T!Ends, T!top, T!depth
<1>4. d \in 2 .. d
  BY <1>1, <1>2
<1>5. ~(r.kind = "ensure" /\ r.phase = "body")
  BY DEF T!Ends, T!top, T!depth
<1>6. Shows(t_stack, reg, d)
  BY <1>2, <1>5 DEF Shows
<1>7. T!Popped(r, reg) = r.old
  BY <1>2, <1>4, <1>6, PoppedOld
<1>8. r.pend \in Jumps /\ Right(t_stack, r.pend, r.old, d - 1)
  BY <1>2, ActIs DEF Keeps
<1> QED
  BY <1>1, <1>3, <1>4, <1>7, <1>8, Pops

\* A jump ends the construct whose tag it comes to.
LEMMA LandPops ==
  ASSUME TagsInv, ~stray, Len(t_stack) > 0, ~T!Lost, T!at.kind \notin {"top", "ensure"},
         NEW j \in Jumps, Right(t_stack, j, T!at.old, T!prot_tag - 1), T!Pop(T!prot_tag, T!Popped(T!at, T!landed), j),
         UNCHANGED stray
  PROVE  TagsInv'
<1> DEFINE p == reg.tag
<1>1. T!at = t_stack[p] /\ T!prot_tag = p
  BY DEF T!at, T!prot_tag
<1>2. Linked(t_stack, reg)
  BY InvIs
<1>3. p \in 2 .. Len(t_stack) /\ T!landed \in Regs /\ Shows(t_stack, T!landed, p)
  BY <1>1, <1>2, Landed
<1>4. T!Popped(t_stack[p], T!landed) = t_stack[p].old
  BY <1>2, <1>3, PoppedOld
<1> QED
  BY <1>1, <1>3, <1>4, Pops

\* A jump goes on with the activation whose tag it comes to.
LEMMA LandStays ==
  ASSUME TagsInv, ~stray, Len(t_stack) > 0, ~T!Lost, T!at.kind \notin {"top", "ensure", "iter"},
         NEW r \in Acts, Like(r, T!at), T!Stays(r, T!landed), UNCHANGED stray
  PROVE  TagsInv'
<1> DEFINE p == reg.tag
           d == p + 1
<1>1. T!at = t_stack[p] /\ T!prot_tag = p
  BY DEF T!at, T!prot_tag
<1>2. /\ Linked(t_stack, reg) /\ t_stack \in Seq(Acts) /\ Len(t_stack) \in Nat /\ MaxDepth \in Nat
      /\ Len(t_stack) <= MaxDepth /\ proc \in Blks /\ Held(t_stack, proc, Len(t_stack))
  BY InvIs
<1>3. /\ p \in 2 .. Len(t_stack) /\ p \in 1 .. Len(t_stack) /\ T!landed = After(t_stack, p)
      /\ t_stack[p].old = At(t_stack, reg, p - 1)
  BY <1>1, <1>2, Landed
<1>4. /\ t_stack' = Append(SubSeq(t_stack, 1, p - 1), r) /\ reg' = T!landed /\ jump' = T!NoJump
      /\ proc' = T!Survives(d)
  BY <1>1 DEF T!Stays
<1>5. Keeps(t_stack, p) /\ p # 1 /\ p \in Nat /\ p \in 2 .. MaxDepth /\ p <= Len(t_stack) + 1
  <2>1. Keeps(t_stack, p)
    BY <1>2, <1>3, LinkedIs
  <2> HIDE DEF p
  <2>2. p # 1 /\ p \in Nat /\ p \in 2 .. MaxDepth /\ p <= Len(t_stack) + 1
    BY <1>2, <1>3
  <2> QED
    BY <2>1, <2>2
<1>6. Made(t_stack, r, p) = After(t_stack, p) /\ Fits(t_stack, r, p)
  BY <1>1, <1>3, <1>5, LikeMade
<1>7. /\ t_stack' \in Seq(Acts) /\ Len(t_stack') = p /\ t_stack'[p] = r
      /\ \A i \in 1 .. p - 1 : t_stack'[i] = t_stack[i]
  <2>1. PICK n, s : n = p /\ s = t_stack'
    OBVIOUS
  <2>2. n \in 1 .. Len(t_stack) /\ t_stack \in Seq(Acts) /\ s = Append(SubSeq(t_stack, 1, n - 1), r)
    BY <1>2, <1>3, <1>4, <2>1
  <2>3. s \in Seq(Acts) /\ Len(s) = n /\ s[n] = r /\ \A i \in 1 .. n - 1 : s[i] = t_stack[i]
    BY <2>2, Restacked
  <2> QED
    BY <2>1, <2>3
<1>8. Topped(t_stack', t_stack, r, p)
  BY <1>7, LikeSame DEF Topped
<1>9. proc' \in Blks /\ Held(t_stack', proc', p)
  <2>1. d \in 1 .. Len(t_stack) + 1 /\ d - 1 = p /\ d - 1 <= p
    BY <1>2, <1>3, <1>5
  <2>2. \A i \in 1 .. p : i = p \/ i \in 1 .. p - 1
    BY <1>5
  <2>3. \A i \in 1 .. d - 1 : Like(t_stack'[i], t_stack[i])
    BY <1>1, <1>7, <2>1, <2>2, LikeSame
  <2> HIDE DEF d
  <2> QED
    BY <1>2, <1>4, <1>5, <2>1, <2>3, Survived
<1>10. r.old = At(t_stack, reg, p - 1)
  BY <1>1, <1>3 DEF Like
<1>11. jump' \in Jumps /\ Right(t_stack', jump', reg', p)
  BY <1>4, Nothing
<1>12. reg' = Made(t_stack, r, p)
  BY <1>3, <1>4, <1>6
<1> QED
  BY <1>5, <1>6, <1>8, <1>9, <1>10, <1>11, <1>12, Puts

\* The clause of the ensure at d begins, after its body or a jump out of it.
LEMMA ClauseKeeps ==
  ASSUME TagsInv, ~stray, NEW d \in 2 .. Len(t_stack), t_stack[d].kind = "ensure", t_stack[d].phase = "body",
         \A n \in d + 1 .. Len(t_stack) : ~T!HasTag(t_stack[n]),
         NEW g, g = After(t_stack, d), NEW j \in Jumps,
         Right(t_stack, j, t_stack[d].old, d - 1), T!Clause(d, g, j), UNCHANGED stray
  PROVE  TagsInv'
<1> DEFINE r == t_stack[d]
           f == [r EXCEPT !.phase = "clause", !.pend = j]
<1>0. Len(t_stack) > 0
  BY DEF TagsInv
<1>1. /\ Linked(t_stack, reg) /\ t_stack \in Seq(Acts) /\ Len(t_stack) \in Nat /\ MaxDepth \in Nat
      /\ Len(t_stack) <= MaxDepth /\ proc \in Blks /\ Held(t_stack, proc, Len(t_stack))
  BY <1>0, InvIs
<1>2. /\ r \in Acts /\ Keeps(t_stack, d) /\ r.old \in Regs /\ d \in 1 .. Len(t_stack) /\ d \in 0 .. Len(t_stack)
      /\ r.old = At(t_stack, reg, d - 1) /\ d \in Nat /\ d \in 1 .. d
  BY <1>1, LinkedIs
<1>3. f \in Acts /\ f.kind = "ensure" /\ f.phase = "clause" /\ f.old = r.old /\ f.pend = j
  BY <1>2 DEF Acts
<1>4. Fits(t_stack, f, d) /\ Made(t_stack, f, d) = r.old
  <2>1. Fits(t_stack, f, d)
    BY <1>2, <1>3 DEF Fits, Keeps, T!HasTag, T!HasBlock
  <2>2. Made(t_stack, f, d)
        = [frame |-> r.old.frame, iter |-> r.old.iter, block |-> r.old.block, scope |-> r.old.scope,
           tag |-> r.old.tag]
    BY <1>3 DEF Made, T!HasTag, T!HasBlock, T!HasFrame, T!HasIter, T!HasScope
  <2> QED
    BY <1>2, <2>1, <2>2, RegIs
<1>5. reg' = r.old /\ jump' = T!NoJump /\ proc' = proc
  <2>1. reg' = [g EXCEPT !.tag = r.old.tag] /\ jump' = T!NoJump /\ proc' = proc
    BY DEF T!Clause
  <2>2. g = [frame |-> r.old.frame, iter |-> r.old.iter, block |-> r.old.block, scope |-> r.old.scope,
             tag |-> d]
    BY DEF After, Made, T!HasTag, T!HasBlock, T!HasFrame, T!HasIter, T!HasScope
  <2>3. r.old = [frame |-> r.old.frame, iter |-> r.old.iter, block |-> r.old.block, scope |-> r.old.scope,
                 tag |-> r.old.tag]
    BY <1>2, RegIs
  <2> QED
    BY <2>1, <2>2, <2>3
<1>6. /\ t_stack' \in Seq(Acts) /\ Len(t_stack') = d /\ t_stack'[d] = f
      /\ \A i \in 1 .. d - 1 : t_stack'[i] = t_stack[i]
  <2> DEFINE q == SubSeq(t_stack, 1, d)
  <2>1. q \in Seq(Acts) /\ Len(q) = d /\ \A i \in 1 .. d : q[i] = t_stack[i]
    BY <1>1, <1>2, CutOff
  <2>2. t_stack' = [q EXCEPT ![d] = [q[d] EXCEPT !.phase = "clause", !.pend = j]]
    BY DEF T!Clause
  <2> HIDE DEF q
  <2>3. t_stack' = [q EXCEPT ![d] = f]
    BY <1>2, <2>1, <2>2
  <2> HIDE DEF f
  <2>4. LET z == [q EXCEPT ![d] = f] IN
        /\ z \in Seq(Acts) /\ Len(z) = d /\ z[d] = f
        /\ \A i \in 1 .. d : i # d => z[i] = q[i]
    BY <1>2, <1>3, <2>1, Changed
  <2>5. \A i \in 1 .. d - 1 : i \in 1 .. d /\ i # d
    BY <1>2
  <2> QED
    BY <2>1, <2>3, <2>4, <2>5
<1>7. Topped(t_stack', t_stack, f, d)
  BY <1>6, LikeSame DEF Topped
<1>8. Held(t_stack', proc', d)
  <2>1. /\ proc.scope \in 0 .. Len(t_stack) /\ proc.home \in 0 .. Len(t_stack)
        /\ proc.scope > 0 => T!HasScope(t_stack[proc.scope])
        /\ proc.home > 0 => t_stack[proc.home].kind = "iter"
    BY <1>1 DEF Held, Block
  <2>2. \A k \in 1 .. Len(t_stack) : T!HasTag(t_stack[k]) => k <= d
    BY <1>1, <1>2
  <2>3. ASSUME proc.scope > 0 PROVE proc.scope \in 1 .. d - 1 /\ T!HasScope(t_stack'[proc.scope])
    <3>1. T!HasScope(t_stack[proc.scope]) /\ proc.scope \in 1 .. Len(t_stack)
      BY <1>1, <2>1, <2>3
    <3>2. T!HasTag(t_stack[proc.scope]) /\ proc.scope # d
      BY <3>1 DEF T!HasScope, T!HasTag
    <3>3. proc.scope \in 1 .. d - 1
      BY <1>2, <2>2, <3>1, <3>2
    <3> QED
      BY <1>6, <3>1, <3>3
  <2>4. ASSUME proc.home > 0 PROVE proc.home \in 1 .. d - 1 /\ t_stack'[proc.home].kind = "iter"
    <3>1. t_stack[proc.home].kind = "iter" /\ proc.home \in 1 .. Len(t_stack)
      BY <1>1, <2>1, <2>4
    <3>2. T!HasTag(t_stack[proc.home]) /\ proc.home # d
      BY <3>1 DEF T!HasTag
    <3>3. proc.home \in 1 .. d - 1
      BY <1>2, <2>2, <3>1, <3>2
    <3> QED
      BY <1>6, <3>1, <3>3
  <2>5. proc.scope \in 0 .. (d + 1) - 1 /\ proc.home \in 0 .. d + 1 /\ proc.home <= d
    BY <1>2, <2>1, <2>3, <2>4
  <2> QED
    BY <1>5, <2>1, <2>3, <2>4, <2>5 DEF Held, Block
<1>9. d \in 2 .. MaxDepth /\ d <= Len(t_stack) + 1 /\ jump' \in Jumps /\ proc' \in Blks
      /\ Right(t_stack', jump', reg', d)
  BY <1>1, <1>2, <1>5, Nothing
<1>10. reg' = Made(t_stack, f, d) /\ f.old = At(t_stack, reg, d - 1)
  BY <1>2, <1>3, <1>4, <1>5
<1> HIDE DEF f
<1> QED
  BY <1>0, <1>4, <1>7, <1>8, <1>9, <1>10, Puts

\* The clause begins after the body.
LEMMA EnsureBeginsKeeps == ASSUME TagsInv, T!EnsureBegins PROVE TagsInv'
<1> DEFINE d == Len(t_stack)
<1>1. /\ ~stray /\ d > 0 /\ t_stack[d].kind = "ensure" /\ t_stack[d].phase = "body"
      /\ T!Clause(d, reg, T!NoJump) /\ UNCHANGED stray
  BY RunsIs DEF T!EnsureBegins, T!top, T!depth
<1>2. d \in Nat /\ Keeps(t_stack, d) /\ reg = After(t_stack, d)
  BY <1>1, InvIs
<1>3. d # 1
  BY <1>1, <1>2 DEF Keeps
<1>4. d \in 2 .. d
  <2>1. d \in Nat /\ d > 0 /\ d # 1
    BY <1>1, <1>2, <1>3
  <2> HIDE DEF d
  <2> QED
    BY <2>1
<1>5. \A n \in d + 1 .. d : ~T!HasTag(t_stack[n])
  BY <1>2
<1> QED
  BY <1>1, <1>2, <1>4, <1>5, Nothing, ClauseKeeps

\* A jump that lands.
LEMMA LandsIs ==
  ASSUME TagsInv, NEW k, T!Lands(k)
  PROVE  /\ ~stray /\ Len(t_stack) > 0 /\ ~T!Lost /\ T!at.kind = k /\ UNCHANGED stray
         /\ jump \in Jumps /\ T!at \in Acts /\ T!prot_tag \in 1 .. Len(t_stack)
<1>1. ~stray /\ Len(t_stack) > 0 /\ ~T!Lost /\ T!at.kind = k /\ UNCHANGED stray
  BY DEF T!Lands, T!depth
<1>2. jump \in Jumps
  BY DEF TagsInv
<1>3. t_stack[reg.tag] \in Acts /\ reg.tag \in 1 .. Len(t_stack)
  BY <1>1, InvIs, Landed
<1> QED
  BY <1>1, <1>2, <1>3 DEF T!at, T!prot_tag

\* The level of a NODE_ITER is higher than those of the NODE_ITERs below.
LEMMA LevelsRise ==
  ASSUME NEW s, NEW g, Linked(s, g), NEW p \in 1 .. Len(s), NEW q \in 1 .. p - 1,
         s[p].kind = "iter", s[q].kind = "iter"
  PROVE  s[q].blk.level # s[p].blk.level
<1>1. /\ Len(s) \in Nat /\ Keeps(s, p) /\ Keeps(s, q) /\ q \in 1 .. Len(s)
      /\ \A n \in 2 .. Len(s) : Names(s, s[n].old, n - 1)
  BY LinkedIs
<1>2. p \in 2 .. Len(s) /\ q # 1
  BY <1>1 DEF Keeps
<1>3. q \in 2 .. Len(s)
  BY <1>1, <1>2
<1>4. Names(s, s[p].old, p - 1) /\ Names(s, s[q].old, q - 1)
  BY <1>1, <1>2, <1>3
<1>5. s[q].old.tag < q
  <2>1. s[q].old.tag \in 1 .. q - 1
    BY <1>4 DEF Names
  <2> QED
    BY <1>1, <1>3, <2>1
<1>6. T!HasTag(s[q])
  BY DEF T!HasTag
<1>7. q <= s[p].old.tag
  <2>1. s[p].old.tag \in 1 .. p - 1 /\ \A m \in s[p].old.tag + 1 .. p - 1 : ~T!HasTag(s[m])
    BY <1>4 DEF Names
  <2>2. q \notin s[p].old.tag + 1 .. p - 1
    BY <1>6, <2>1
  <2> QED
    BY <1>1, <1>2, <2>1, <2>2
<1>8. s[q].blk.level = s[q].old.tag /\ s[p].blk.level = s[p].old.tag
  BY <1>1 DEF Keeps
<1>9. s[p].old.tag \in Nat /\ s[q].old.tag \in Nat
  <2>1. s[p].old \in Regs /\ s[q].old \in Regs
    BY <1>1, LinkedIs
  <2> QED
    BY <2>1, RegIs
<1> QED
  BY <1>3, <1>5, <1>7, <1>8, <1>9

\* A break or return that has left a block comes first to the activation with its level.
LEMMA LeftBlock ==
  ASSUME TagsInv, ~stray, Len(t_stack) > 0, NEW j, Right(t_stack, j, reg, Len(t_stack)), j.in
  PROVE  \E q \in 1 .. reg.tag :
            /\ T!HasBlock(t_stack[q]) /\ (t_stack[q].kind = "proc" => q = reg.tag)
            /\ j.tlev = t_stack[q].blk.level /\ j.home = t_stack[q].blk.home
            /\ j.proc \/ j.scope = t_stack[q].blk.scope
<1>1. PICK q \in 1 .. Len(t_stack) :
         /\ T!HasBlock(t_stack[q]) /\ (t_stack[q].kind = "proc" => q = Len(t_stack))
         /\ j.tlev = t_stack[q].blk.level /\ j.home = t_stack[q].blk.home
         /\ j.proc \/ j.scope = t_stack[q].blk.scope
  BY DEF Right
<1>2. Linked(t_stack, reg) /\ Len(t_stack) \in Nat /\ reg.tag \in 1 .. Len(t_stack)
  BY InvIs
<1>3. \A n \in reg.tag + 1 .. Len(t_stack) : ~T!HasTag(t_stack[n])
  BY <1>2, LinkedIs DEF Names
<1>4. T!HasTag(t_stack[q])
  BY <1>1 DEF T!HasTag, T!HasBlock
<1>5. q \in 1 .. reg.tag
  BY <1>2, <1>3, <1>4
<1>6. t_stack[q].kind = "proc" => q = reg.tag
  BY <1>1, <1>2, <1>5
<1> QED
  BY <1>1, <1>5, <1>6

\* A jump goes on past an activation that it is not for.
LEMMA GoesOn ==
  ASSUME TagsInv, ~stray, Len(t_stack) > 0, ~T!Lost, T!at.kind # "top",
         T!at.kind \in {"iter", "proc"} => ~(jump.in /\ jump.tlev = T!at.blk.level),
         T!at.kind \in {"meth", "yield"} => ~(jump.tag \in {"BREAK", "RETURN"} /\ ~jump.in)
  PROVE  Right(t_stack, jump, T!at.old, T!prot_tag - 1)
<1> DEFINE p == reg.tag
           r == t_stack[p]
<1>1. T!at = r /\ T!prot_tag = p
  BY DEF T!at, T!prot_tag
<1>2. Linked(t_stack, reg) /\ Right(t_stack, jump, reg, Len(t_stack)) /\ Len(t_stack) \in Nat
  BY InvIs
<1>3. p \in 2 .. Len(t_stack) /\ reg.scope = After(t_stack, p).scope
  BY <1>1, <1>2, Landed
<1>4. ASSUME jump.in
      PROVE  \E q \in 1 .. p - 1 : /\ T!HasBlock(t_stack[q]) /\ (t_stack[q].kind = "proc" => q = p - 1)
                                   /\ jump.tlev = t_stack[q].blk.level /\ jump.home = t_stack[q].blk.home
                                   /\ jump.proc \/ jump.scope = t_stack[q].blk.scope
  <2>1. PICK q \in 1 .. p : /\ T!HasBlock(t_stack[q]) /\ (t_stack[q].kind = "proc" => q = p)
                            /\ jump.tlev = t_stack[q].blk.level /\ jump.home = t_stack[q].blk.home
                            /\ jump.proc \/ jump.scope = t_stack[q].blk.scope
    BY <1>2, <1>4, LeftBlock
  <2>2. q # p
    BY <1>1, <1>4, <2>1 DEF T!HasBlock
  <2>3. q \in 1 .. p - 1
    BY <1>3, <2>2
  <2> QED
    BY <2>1, <2>2, <2>3
<1>5. ASSUME jump.tag \in {"BREAK", "RETURN"}, ~jump.in PROVE jump.proc \/ jump.scope = r.old.scope
  <2>1. jump.proc \/ jump.scope = reg.scope
    BY <1>2, <1>5 DEF Right
  <2>2. ~T!HasScope(r) /\ r.kind # "yield"
    BY <1>1, <1>5 DEF T!HasScope
  <2>3. After(t_stack, p).scope = r.old.scope
    BY <2>2 DEF After, Made
  <2> QED
    BY <1>3, <2>1, <2>3
<1>6. jump.in => jump.tag \in {"BREAK", "RETURN"}
  BY <1>2 DEF Right
<1> QED
  BY <1>1, <1>4, <1>5, <1>6 DEF Right

\* The block of an activation that has one is the_block when a jump lands there.
LEMMA TagLevel ==
  ASSUME Linked(t_stack, reg), ~T!Lost, T!at.kind \in {"iter", "proc"}
  PROVE  T!tag_level(T!landed) = T!at.blk.level
<1>1. T!landed.block = After(t_stack, reg.tag).block
  BY Landed
<1>2. After(t_stack, reg.tag).block = reg.tag
  BY DEF After, Made, T!HasBlock, T!at, T!prot_tag
<1> QED
  BY <1>1, <1>2 DEF T!tag_level, T!at, T!prot_tag

\* A break or return with the level of the NODE_ITER that it comes to left its block.
LEMMA OwnBlock ==
  ASSUME TagsInv, ~stray, Len(t_stack) > 0, ~T!Lost, T!at.kind = "iter", jump.in, jump.tlev = T!at.blk.level
  PROVE  jump.home = T!prot_tag /\ (jump.proc \/ jump.scope = T!at.old.scope)
<1> DEFINE p == reg.tag
<1>1. T!at = t_stack[p] /\ T!prot_tag = p
  BY DEF T!at, T!prot_tag
<1>2. /\ Linked(t_stack, reg) /\ Right(t_stack, jump, reg, Len(t_stack)) /\ p \in 1 .. Len(t_stack)
      /\ Len(t_stack) \in Nat
  BY InvIs
<1>3. PICK q \in 1 .. p : /\ T!HasBlock(t_stack[q]) /\ (t_stack[q].kind = "proc" => q = p)
                          /\ jump.tlev = t_stack[q].blk.level /\ jump.home = t_stack[q].blk.home
                          /\ jump.proc \/ jump.scope = t_stack[q].blk.scope
  BY <1>2, LeftBlock
<1>4. ASSUME q # p PROVE FALSE
  <2>1. q \in 1 .. p - 1 /\ t_stack[q].kind = "iter"
    BY <1>2, <1>3, <1>4 DEF T!HasBlock
  <2> QED
    BY <1>1, <1>2, <1>3, <2>1, LevelsRise
<1>5. Keeps(t_stack, p)
  BY <1>2, LinkedIs
<1>6. t_stack[p].blk.home = p /\ t_stack[p].blk.scope = t_stack[p].old.scope
  BY <1>1, <1>5 DEF Keeps
<1> QED
  BY <1>1, <1>3, <1>4, <1>6

\* A jump lands at a loop.
LEMMA LandWhileKeeps == ASSUME TagsInv, T!LandWhile PROVE TagsInv'
<1>1. /\ ~stray /\ Len(t_stack) > 0 /\ ~T!Lost /\ T!at.kind = "while" /\ UNCHANGED stray
      /\ jump \in Jumps /\ T!at \in Acts
  BY LandsIs DEF T!LandWhile
<1>2. CASE T!Stays(T!at, T!landed)
  BY <1>1, <1>2, LikeSame, LandStays
<1>3. CASE \E j \in {T!NoJump, jump} : T!Pop(T!prot_tag, T!Popped(T!at, T!landed), j)
  <2>1. Right(t_stack, jump, T!at.old, T!prot_tag - 1)
    BY <1>1, GoesOn
  <2> QED
    BY <1>1, <1>3, <2>1, Nothing, LandPops
<1> QED
  BY <1>2, <1>3 DEF T!LandWhile

\* A jump lands at a method.
LEMMA LandCallKeeps == ASSUME TagsInv, T!LandCall PROVE TagsInv'
<1>1. /\ ~stray /\ Len(t_stack) > 0 /\ ~T!Lost /\ T!at.kind = "meth" /\ UNCHANGED stray
      /\ jump \in Jumps
  BY LandsIs DEF T!LandCall
<1>2. CASE \E j \in {T!Raised, T!NoJump} : T!Pop(T!prot_tag, T!Popped(T!at, T!landed), j)
  BY <1>1, <1>2, Nothing, LandPops
<1>3. CASE /\ T!Pop(T!prot_tag, T!Popped(T!at, T!landed), jump)
           /\ ~(jump.tag \in {"BREAK", "RETURN"} /\ ~jump.in)
  <2>1. Right(t_stack, jump, T!at.old, T!prot_tag - 1)
    BY <1>1, <1>3, GoesOn
  <2> QED
    BY <1>1, <1>3, <2>1, LandPops
<1> QED
  BY <1>2, <1>3 DEF T!LandCall

\* A jump lands at a rescue.
LEMMA LandRescueKeeps == ASSUME TagsInv, T!LandRescue PROVE TagsInv'
<1>1. /\ ~stray /\ Len(t_stack) > 0 /\ ~T!Lost /\ T!at.kind = "rescue" /\ UNCHANGED stray
      /\ jump \in Jumps /\ T!at \in Acts
  BY LandsIs DEF T!LandRescue
<1>2. ASSUME NEW p \in {"clause", "body"}, T!Stays([T!at EXCEPT !.phase = p], T!landed) PROVE TagsInv'
  <2> DEFINE r == [T!at EXCEPT !.phase = p]
  <2>1. r \in Acts /\ Like(r, T!at)
    BY <1>1 DEF Acts, Like
  <2>2. T!Stays(r, T!landed)
    BY <1>2
  <2> HIDE DEF r
  <2> QED
    BY <1>1, <2>1, <2>2, LandStays
<1>3. CASE T!Pop(T!prot_tag, T!Popped(T!at, T!landed), jump)
  <2>1. Right(t_stack, jump, T!at.old, T!prot_tag - 1)
    BY <1>1, GoesOn
  <2> QED
    BY <1>1, <1>3, <2>1, LandPops
<1> QED
  BY <1>2, <1>3 DEF T!LandRescue

\* A jump lands at a catch.
LEMMA LandCatchKeeps == ASSUME TagsInv, T!LandCatch PROVE TagsInv'
<1>1. /\ ~stray /\ Len(t_stack) > 0 /\ ~T!Lost /\ T!at.kind = "catch" /\ UNCHANGED stray
      /\ jump \in Jumps
  BY LandsIs DEF T!LandCatch
<1>2. \E j \in {T!NoJump, jump} : T!Pop(T!prot_tag, T!Popped(T!at, T!landed), j)
  BY DEF T!LandCatch
<1>3. Right(t_stack, jump, T!at.old, T!prot_tag - 1)
  BY <1>1, GoesOn
<1> QED
  BY <1>1, <1>2, <1>3, Nothing, LandPops

\* A jump lands at a Proc.
LEMMA LandProcKeeps == ASSUME TagsInv, T!LandProc PROVE TagsInv'
<1>1. /\ ~stray /\ Len(t_stack) > 0 /\ ~T!Lost /\ T!at.kind = "proc" /\ UNCHANGED stray
      /\ jump \in Jumps
  BY LandsIs DEF T!LandProc
<1> DEFINE k == [jump EXCEPT !.in = FALSE, !.proc = TRUE]
           mine == jump.tlev = T!tag_level(T!landed)
<1>2. k \in Jumps /\ k.in = FALSE /\ k.proc = TRUE
  BY <1>1 DEF Jumps
<1>3. CASE T!Pop(T!prot_tag, T!Popped(T!at, T!landed), T!Raised)
  BY <1>1, <1>3, Nothing, LandPops
<1>4. CASE T!Pop(T!prot_tag, T!Popped(T!at, T!landed), k)
  <2>1. Right(t_stack, k, T!at.old, T!prot_tag - 1)
    BY <1>2 DEF Right
  <2> HIDE DEF k
  <2> QED
    BY <1>1, <1>2, <1>4, <2>1, LandPops
<1>5. CASE /\ T!Pop(T!prot_tag, T!Popped(T!at, T!landed), jump)
           /\ ~(jump.tag \in {"BREAK", "RETURN"} /\ mine)
  <2>1. Linked(t_stack, reg) /\ Right(t_stack, jump, reg, Len(t_stack))
    BY <1>1, InvIs
  <2>2. T!tag_level(T!landed) = T!at.blk.level
    BY <1>1, <2>1, TagLevel
  <2>3. jump.in => jump.tag \in {"BREAK", "RETURN"}
    BY <2>1 DEF Right
  <2>4. ~(jump.in /\ jump.tlev = T!at.blk.level)
    BY <1>5, <2>2, <2>3
  <2>5. Right(t_stack, jump, T!at.old, T!prot_tag - 1)
    BY <1>1, <2>4, GoesOn
  <2> QED
    BY <1>1, <1>5, <2>5, LandPops
<1> QED
  BY <1>3, <1>4, <1>5 DEF T!LandProc

\* A jump lands at the body of a block.
LEMMA LandYieldKeeps == ASSUME TagsInv, T!LandYield PROVE TagsInv'
<1> DEFINE p == T!prot_tag
           b == t_stack[T!at.old.block].blk
           k == [jump EXCEPT !.in = TRUE, !.tlev = b.level, !.home = b.home]
<1>1. /\ ~stray /\ Len(t_stack) > 0 /\ ~T!Lost /\ T!at.kind = "yield" /\ UNCHANGED stray
      /\ jump \in Jumps /\ T!at \in Acts /\ p \in 1 .. Len(t_stack)
  BY LandsIs DEF T!LandYield
<1>2. CASE T!Stays(T!at, T!landed)
  BY <1>1, <1>2, LikeSame, LandStays
<1>3. p \in 2 .. Len(t_stack) /\ T!at.old.block \in 1 .. Len(t_stack) /\ T!at = t_stack[p]
  <2>1. T!at = t_stack[p] /\ Linked(t_stack, reg) /\ Len(t_stack) \in Nat
    BY <1>1, InvIs DEF T!at, T!prot_tag
  <2>2. p \in 2 .. Len(t_stack) /\ t_stack[p].old.block \in 1 .. p - 1
    BY <1>1, <2>1, YieldBlock
  <2> QED
    BY <1>1, <2>1, <2>2
<1>4. b.level \in 0 .. MaxDepth /\ b.home \in Nat
  <2>1. t_stack[T!at.old.block] \in Acts
    BY <1>1, <1>3, InvIs, LinkedIs
  <2> QED
    BY <2>1, ActIs, BlkIs
<1> DEFINE new == jump.tag \in {"BREAK", "RETURN"} /\ ~jump.in
<1>5. /\ k \in Jumps /\ k.in = TRUE /\ k.tlev = b.level /\ k.home = b.home /\ k.tag = jump.tag
      /\ k.scope = jump.scope /\ k.proc = jump.proc
  BY <1>1, <1>4 DEF Jumps
<1>6. CASE T!Pop(p, T!at.old, T!NoJump)
  <2> HIDE DEF k, b, p
  <2> QED
    BY <1>1, <1>3, <1>6, Nothing, Pops
<1>7. CASE T!Pop(p, T!at.old, k) /\ new
  <2>1. /\ Linked(t_stack, reg) /\ Right(t_stack, jump, reg, Len(t_stack)) /\ p = reg.tag
        /\ Len(t_stack) \in Nat
    BY <1>1, InvIs DEF T!prot_tag
  <2>2. reg.scope = After(t_stack, p).scope
    BY <1>1, <2>1, Landed
  <2>3. After(t_stack, p).scope = b.scope
    BY <1>1, <1>3 DEF After, Made, T!HasScope
  <2>4. jump.proc \/ jump.scope = b.scope
    BY <1>7, <2>1, <2>2, <2>3 DEF Right
  <2>5. Names(t_stack, T!at.old, p - 1) /\ p - 1 \in Nat
    BY <1>3, <2>1, LinkedIs
  <2>6. T!at.old.block > 0 /\ T!at.old.block \in 1 .. p - 1
    BY <1>3, <2>5 DEF Names
  <2>7. /\ T!HasBlock(t_stack[T!at.old.block])
        /\ t_stack[T!at.old.block].kind = "proc" => T!at.old.block = p - 1
    BY <2>5, <2>6 DEF Names
  <2> HIDE DEF k, p
  <2>8. Right(t_stack, k, T!at.old, p - 1)
    BY <1>5, <1>7, <2>4, <2>6, <2>7 DEF Right
  <2> HIDE DEF b
  <2> QED
    BY <1>1, <1>3, <1>5, <1>7, <2>8, Pops
<1>8. CASE T!Pop(p, T!at.old, jump) /\ ~new
  <2>1. Right(t_stack, jump, T!at.old, p - 1)
    BY <1>1, <1>8, GoesOn
  <2> HIDE DEF k, b, p
  <2> QED
    BY <1>1, <1>3, <1>8, <2>1, Pops
<1> QED
  BY <1>2, <1>6, <1>7, <1>8 DEF T!LandYield

\* A jump lands at a call with a block, which a retry makes again.
LEMMA LandIterKeeps == ASSUME TagsInv, T!LandIter PROVE TagsInv'
<1> DEFINE p == T!prot_tag
           regs == T!Popped(T!at, T!landed)
           k == [jump EXCEPT !.in = FALSE]
           f == T!IterAt(p, regs)
<1>1. /\ ~stray /\ Len(t_stack) > 0 /\ ~T!Lost /\ T!at.kind = "iter" /\ UNCHANGED stray
      /\ jump \in Jumps
  BY LandsIs DEF T!LandIter
<1> DEFINE mine == jump.in /\ jump.tlev = T!tag_level(T!landed)
<1>2. k \in Jumps /\ k.in = FALSE /\ k.scope = jump.scope /\ k.proc = jump.proc
  BY <1>1 DEF Jumps
<1>2a. Linked(t_stack, reg) /\ Right(t_stack, jump, reg, Len(t_stack))
  BY <1>1, InvIs
<1>2b. mine <=> jump.in /\ jump.tlev = T!at.blk.level
  BY <1>1, <1>2a, TagLevel
<1>3. CASE T!Pop(p, regs, T!NoJump)
  BY <1>1, <1>3, Nothing, LandPops
<1>3a. CASE T!Pop(p, regs, k) /\ mine
  <2>1. jump.proc \/ jump.scope = T!at.old.scope
    BY <1>1, <1>2b, <1>3a, OwnBlock
  <2>2. Right(t_stack, k, T!at.old, p - 1)
    BY <1>2, <2>1 DEF Right
  <2> HIDE DEF k, mine
  <2> QED
    BY <1>1, <1>2, <1>3a, <2>2, LandPops
<1>3b. CASE T!Pop(p, regs, jump) /\ ~(jump.tag \in {"BREAK", "RETURN"} /\ mine)
  <2>1. jump.in => jump.tag \in {"BREAK", "RETURN"}
    BY <1>2a DEF Right
  <2>2. ~(jump.in /\ jump.tlev = T!at.blk.level)
    BY <1>2b, <1>3b, <2>1
  <2>3. Right(t_stack, jump, T!at.old, p - 1)
    BY <1>1, <2>2, GoesOn
  <2> HIDE DEF mine
  <2> QED
    BY <1>1, <1>3b, <2>3, LandPops
<1>4. CASE /\ t_stack' = Append(SubSeq(t_stack, 1, p - 1), f)
           /\ reg' = [regs EXCEPT !.iter = p, !.block = p, !.tag = p]
           /\ jump' = T!NoJump /\ proc' = T!Survives(p)
  <2>1. /\ Linked(t_stack, reg) /\ t_stack \in Seq(Acts) /\ Len(t_stack) \in Nat /\ MaxDepth \in Nat
        /\ Len(t_stack) <= MaxDepth /\ proc \in Blks /\ Held(t_stack, proc, Len(t_stack))
    BY <1>1, InvIs
  <2>2. T!at = t_stack[p] /\ p = reg.tag
    BY DEF T!at, T!prot_tag
  <2>3. /\ p \in 2 .. Len(t_stack) /\ T!landed \in Regs /\ Shows(t_stack, T!landed, p)
        /\ t_stack[p].old = At(t_stack, reg, p - 1)
    BY <1>1, <2>1, <2>2, Landed
  <2>4. regs = At(t_stack, reg, p - 1)
    BY <2>1, <2>2, <2>3, PoppedOld
  <2>4a. t_stack[p - 1].kind # "proc"
    <3>1. p \in 1 .. Len(t_stack)
      BY <2>1, <2>3
    <3>2. Keeps(t_stack, p)
      BY <2>1, <3>1, LinkedIs
    <3> QED
      BY <1>1, <2>2, <3>2 DEF Keeps
  <2>5. p \in 2 .. MaxDepth /\ p <= Len(t_stack) + 1 /\ p \in 1 .. Len(t_stack) /\ p \in Nat
        /\ p \in 1 .. Len(t_stack) + 1 /\ p - 1 <= p
    BY <2>1, <2>3
  <2> HIDE DEF p, regs
  <2>6. /\ Fits(t_stack, f, p) /\ f.old = regs
        /\ Made(t_stack, f, p) = [regs EXCEPT !.iter = p, !.block = p, !.tag = p]
    BY <1>1, <2>4, <2>4a, <2>5, IterFits
  <2> HIDE DEF f
  <2>7. f \in Acts
    BY <2>6 DEF Fits
  <2>8. /\ t_stack' \in Seq(Acts) /\ Len(t_stack') = p /\ t_stack'[p] = f
        /\ \A i \in 1 .. p - 1 : t_stack'[i] = t_stack[i]
    BY <1>4, <2>1, <2>5, <2>7, Restacked
  <2>9. \A i \in 1 .. p - 1 : Like(t_stack'[i], t_stack[i])
    BY <2>8, LikeSame
  <2>10. Topped(t_stack', t_stack, f, p)
    BY <2>8, <2>9 DEF Topped
  <2>11. proc' \in Blks /\ Held(t_stack', proc', p)
    BY <1>4, <2>1, <2>5, <2>9, Survived
  <2>12. jump' \in Jumps /\ Right(t_stack', jump', reg', p)
    BY <1>4, Nothing
  <2>13. reg' = Made(t_stack, f, p) /\ f.old = At(t_stack, reg, p - 1)
    BY <1>4, <2>4, <2>6
  <2> QED
    BY <1>1, <2>5, <2>6, <2>10, <2>11, <2>12, <2>13, Puts
<1> QED
  BY <1>3, <1>3a, <1>3b, <1>4 DEF T!LandIter

\* A jump lands at an ensure, whose clause begins.
LEMMA LandEnsureKeeps == ASSUME TagsInv, T!LandEnsure PROVE TagsInv'
<1> DEFINE p == reg.tag
<1>1. /\ ~stray /\ Len(t_stack) > 0 /\ ~T!Lost /\ T!at.kind = "ensure" /\ UNCHANGED stray
      /\ jump \in Jumps
  BY LandsIs DEF T!LandEnsure
<1>2. T!at = t_stack[p] /\ T!prot_tag = p
  BY DEF T!at, T!prot_tag
<1>3. Linked(t_stack, reg)
  BY <1>1, InvIs
<1>4. p \in 2 .. Len(t_stack) /\ T!landed = After(t_stack, p) /\ T!HasTag(t_stack[p])
  BY <1>1, <1>2, <1>3, Landed
<1>5. t_stack[p].phase = "body"
  BY <1>1, <1>2, <1>4 DEF T!HasTag
<1>6. \A n \in p + 1 .. Len(t_stack) : ~T!HasTag(t_stack[n])
  BY <1>3, LinkedIs DEF Names
<1>7. T!Clause(p, T!landed, jump)
  BY <1>2 DEF T!LandEnsure
<1>8. Right(t_stack, jump, t_stack[p].old, p - 1)
  BY <1>1, <1>2, GoesOn
<1> QED
  BY <1>1, <1>2, <1>4, <1>5, <1>6, <1>7, <1>8, ClauseKeeps

\* A jump lands at the program, which ends.
LEMMA LandTopKeeps == ASSUME TagsInv, T!LandTop PROVE TagsInv'
<1>1. ~stray /\ UNCHANGED stray
  BY DEF T!LandTop, T!Lands
<1>2. /\ Len(t_stack) \in Nat /\ t_stack \in Seq(Acts) /\ MaxDepth \in Nat
      /\ proc \in Blks /\ Held(t_stack, proc, Len(t_stack)) /\ stray \in BOOLEAN
  BY LenProperties, ControlAssumption DEF TagsInv
<1>3. t_stack' = SubSeq(t_stack, 1, 0) /\ jump' = T!NoJump /\ proc' = T!Survives(1)
  BY DEF T!LandTop, T!Pop
<1>4. t_stack' \in Seq(Acts) /\ Len(t_stack') = 0
  BY <1>2, <1>3, CutOff
<1>5. proc' \in Blks /\ Held(t_stack', proc', 0)
  <2>1. 1 \in 1 .. Len(t_stack) + 1 /\ 1 - 1 <= 0 /\ \A i \in 1 .. 1 - 1 : Like(t_stack'[i], t_stack[i])
    BY <1>2
  <2> QED
    BY <1>2, <1>3, <2>1, Survived
<1> QED
  BY <1>1, <1>2, <1>3, <1>4, <1>5, Nothing DEF TagsInv

\* A jump begins.
LEMMA JumpKeeps ==
  ASSUME TagsInv, T!Runs, NEW t \in T!Tag, NEW m \in Name \cup {"none"}, T!Jump(t, m)
  PROVE  TagsInv'
<1>1. ~stray /\ Len(t_stack) > 0
  BY RunsIs
<1>2. reg.scope \in Nat
  BY <1>1, InvIs, RegIs
<1>3. jump' = [T!NoJump EXCEPT !.tag = t, !.name = m, !.scope = reg.scope] /\ UNCHANGED <<t_stack, reg, proc, stray>>
  BY DEF T!Jump
<1>4. jump' \in Jumps /\ jump'.in = FALSE /\ jump'.scope = reg.scope
  <2>1. T!NoJump \in Jumps /\ T!NoJump.in = FALSE
    BY Nothing DEF T!NoJump
  <2> QED
    BY <1>2, <1>3, <2>1 DEF Jumps
<1>5. Right(t_stack, jump', reg, Len(t_stack))
  BY <1>4 DEF Right
<1> QED
  BY <1>1, <1>3, <1>4, <1>5, Leaps

\* The globals go astray.
LEMMA StrayKeeps ==
  ASSUME TagsInv, stray' = TRUE, UNCHANGED <<t_stack, reg, jump, proc>>
  PROVE  TagsInv'
BY DEF TagsInv

-----------------------------------------------------------------------------
(***************************************************************************)
(* The invariant holds.                                                    *)
(***************************************************************************)

\* The invariant holds at first.
LEMMA TagsInit == T!Init => TagsInv
<1> SUFFICES ASSUME T!Init PROVE TagsInv
  OBVIOUS
<1> DEFINE r == t_stack[1]
<1>1. /\ reg = [frame |-> 1, iter |-> 1, block |-> 0, scope |-> 1, tag |-> 1]
      /\ jump = T!NoJump /\ proc = T!NoBlk /\ stray = FALSE
      /\ t_stack = << [kind |-> "top", phase |-> "body", old |-> Zero,
                       tframe |-> 1, titer |-> 1, iter |-> 0, fiter |-> 0,
                       blk |-> T!NoBlk, given |-> 0, pend |-> T!NoJump, name |-> "none"] >>
  BY DEF T!Init, Zero, T!ITER_NOT
<1>2. Len(t_stack) = 1 /\ r = [kind |-> "top", phase |-> "body", old |-> Zero,
                       tframe |-> 1, titer |-> 1, iter |-> 0, fiter |-> 0,
                       blk |-> T!NoBlk, given |-> 0, pend |-> T!NoJump, name |-> "none"]
  BY <1>1
<1>3. Zero \in Regs /\ reg \in Regs
  BY <1>1 DEF Zero, Regs
<1>4. r \in Acts
  BY <1>2, <1>3, Nothing DEF Acts
<1>5. t_stack \in Seq(Acts)
  BY <1>1, <1>2, <1>4
<1> HIDE DEF r
<1>6. r.kind = "top" /\ r.old = Zero /\ r.tframe = 1 /\ r.titer = 1 /\ r.pend = T!NoJump
  BY <1>2
<1>7. T!HasTag(r) /\ T!HasIter(r) /\ T!HasFrame(r) /\ T!HasScope(r) /\ ~T!HasBlock(r)
  BY <1>6 DEF T!HasTag, T!HasIter, T!HasFrame, T!HasScope, T!HasBlock
<1>8. After(t_stack, 1) = reg
  BY <1>1, <1>6, <1>7 DEF After, Made, Zero, r
<1>9. Names(t_stack, reg, 1)
  BY <1>1, <1>7 DEF Names, r
<1>10. Keeps(t_stack, 1)
  BY <1>1, <1>6, <1>7, <1>8, Nothing DEF Keeps, r
<1>11. At(t_stack, reg, 1) = reg
  BY <1>2 DEF At
<1>12. MaxDepth \in Nat /\ MaxDepth > 0
  BY ControlAssumption
<1>13. Linked(t_stack, reg)
  BY <1>2, <1>3, <1>5, <1>8, <1>9, <1>10, <1>11, <1>12 DEF Linked
<1>14. Held(t_stack, proc, Len(t_stack))
  BY <1>1, <1>2, Nothing DEF Held, Block
<1>15. Len(t_stack) \in 0 .. MaxDepth
  BY <1>2, <1>12
<1>16. jump \in Jumps /\ proc \in Blks /\ stray \in BOOLEAN
  BY <1>1, Nothing, Zenon
<1>17. Right(t_stack, jump, reg, Len(t_stack))
  BY <1>1, Nothing, Zenon
<1> QED
  BY <1>5, <1>13, <1>14, <1>15, <1>16, <1>17 DEF TagsInv

\* Every step keeps it.
LEMMA TagsNext == ASSUME TagsInv, T!Next PROVE TagsInv'
<1>1. CASE T!NODE_WHILE \/ T!NODE_RESCUE \/ T!NODE_ENSURE
  BY <1>1, BeginKeeps DEF T!NODE_WHILE, T!NODE_RESCUE, T!NODE_ENSURE
<1>2. CASE T!SetupArgs
  BY <1>2, SetupArgsKeeps
<1>3. CASE T!NODE_ITER
  BY <1>3, NodeIterKeeps
<1>4. CASE T!rb_call("meth", "none") \/ T!rb_call("cfunc", "none") \/ \E n \in Name : T!rb_call("catch", n)
  BY <1>4, RbCallKeeps
<1>5. CASE T!NODE_ZSUPER
  BY <1>5, ZsuperKeeps
<1>6. CASE T!proc_s_new
  BY <1>6, ProcNewKeeps
<1>7. CASE T!proc_call
  BY <1>7, ProcCallKeeps
<1>8. CASE T!YieldBegin
  BY <1>8, YieldBeginKeeps
<1>9. CASE T!YieldOutOfIterator
  <2>1. ~stray /\ Len(t_stack) > 0 /\ jump' = T!Raised /\ UNCHANGED <<t_stack, reg, proc, stray>>
    BY <1>9, RunsIs DEF T!YieldOutOfIterator
  <2> QED
    BY <2>1, Nothing, Leaps
<1>10. CASE T!YieldNull \/ T!LandAstray
  BY <1>10, StrayKeeps DEF T!YieldNull, T!LandAstray
<1>11. CASE T!YieldBody
  BY <1>11, YieldBodyKeeps
<1>12. CASE T!Ends
  BY <1>12, EndsKeeps
<1>13. CASE T!EnsureBegins
  BY <1>13, EnsureBeginsKeeps
<1>14. CASE \/ T!f_break \/ T!f_next \/ T!f_redo \/ T!f_retry \/ T!NODE_RETURN \/ T!rb_raise
            \/ \E n \in Name : T!f_throw(n)
  <2>1. T!Runs /\ \E t \in T!Tag, m \in Name \cup {"none"} : T!Jump(t, m)
    BY <1>14 DEF T!f_break, T!f_next, T!f_redo, T!f_retry, T!NODE_RETURN, T!rb_raise, T!f_throw, T!Ruby, T!Calls, T!Tag
  <2> QED
    BY <2>1, JumpKeeps
<1>15. CASE T!LandWhile
  BY <1>15, LandWhileKeeps
<1>16. CASE T!LandIter
  BY <1>16, LandIterKeeps
<1>17. CASE T!LandCall
  BY <1>17, LandCallKeeps
<1>18. CASE T!LandYield
  BY <1>18, LandYieldKeeps
<1>19. CASE T!LandRescue
  BY <1>19, LandRescueKeeps
<1>20. CASE T!LandEnsure
  BY <1>20, LandEnsureKeeps
<1>21. CASE T!LandCatch
  BY <1>21, LandCatchKeeps
<1>22. CASE T!LandProc
  BY <1>22, LandProcKeeps
<1>23. CASE T!LandTop
  BY <1>23, LandTopKeeps
<1>24. CASE T!Over
  BY <1>24 DEF T!Over, T!vars, TagsInv
<1> QED
  BY <1>1, <1>2, <1>3, <1>4, <1>5, <1>6, <1>7, <1>8, <1>9, <1>10, <1>11, <1>12, <1>13, <1>14, <1>15,
     <1>16, <1>17, <1>18, <1>19, <1>20, <1>21, <1>22, <1>23, <1>24 DEF T!Next

\* It always holds.
LEMMA TagsHold == Spec => []TagsInv
<1>1. Init => TagsInv
  BY TagsInit DEF Init
<1>2. TagsInv /\ [Next]_vars => TagsInv'
  <2> SUFFICES ASSUME TagsInv, [Next]_vars PROVE TagsInv'
    OBVIOUS
  <2>1. CASE T!Next
    BY <2>1, TagsNext
  <2>2. CASE UNCHANGED tvars
    BY <2>2 DEF tvars, TagsInv
  <2> QED
    BY <2>1, <2>2 DEF Next, vars
<1> QED
  BY <1>1, <1>2, PTL DEF Spec

-----------------------------------------------------------------------------
(***************************************************************************)
(* The globals are those of the innermost activation.  View is a function  *)
(* that is chosen for its equation: there is one, and only one.            *)
(***************************************************************************)

\* What the equation makes of v at n.
Seen(v, n) ==
  IF n = 0 THEN Zero
  ELSE LET r == t_stack[n]
           u == v[n - 1]
       IN  [frame |-> IF T!HasFrame(r) THEN n ELSE u.frame,
            iter |-> IF T!HasIter(r) THEN n ELSE u.iter,
            tag |-> IF T!HasTag(r) THEN n ELSE u.tag,
            block |-> IF T!HasBlock(r) THEN n
                      ELSE IF r.kind = "yield" THEN v[u.block - 1].block ELSE u.block,
            scope |-> IF T!HasScope(r) THEN n
                      ELSE IF r.kind = "yield" THEN t_stack[u.block].blk.scope
                      ELSE u.scope]

IsView(v) == v = [n \in 0 .. Len(t_stack) |-> Seen(v, n)]

\* What the activations themselves say of the globals.
Left == [n \in 0 .. Len(t_stack) |-> IF n = 0 THEN Zero ELSE At(t_stack, reg, n)]

\* View is chosen for that equation.
LEMMA ViewIs == T!View = CHOOSE v : IsView(v)
BY DEF T!View, IsView, Seen, Zero, T!depth

\* A function that agrees with the activations below n yields what the n-th says.
LEMMA SeenLeft ==
  ASSUME Linked(t_stack, reg), NEW n \in 1 .. Len(t_stack), NEW v, \A m \in 0 .. n - 1 : v[m] = Left[m]
  PROVE  Seen(v, n) = Left[n]
<1> DEFINE r == t_stack[n]
           u == r.old
           b == u.block
<1>1. /\ Len(t_stack) \in Nat /\ Keeps(t_stack, n) /\ r \in Acts /\ u \in Regs
      /\ At(t_stack, reg, n) = After(t_stack, n)
  BY LinkedIs DEF Linked
<1>2. \A m \in 1 .. Len(t_stack) : m - 1 \in 0 .. Len(t_stack) /\ Left[m - 1] = t_stack[m].old
  <2> TAKE m \in 1 .. Len(t_stack)
  <2>1. m - 1 \in 0 .. Len(t_stack)
    BY <1>1
  <2>2. CASE m = 1
    <3>1. Left[m - 1] = Zero
      BY <1>1, <2>1, <2>2 DEF Left
    <3>2. Keeps(t_stack, 1)
      BY <2>2, LinkedIs
    <3>3. t_stack[1].old = Zero
      BY <3>2 DEF Keeps
    <3> QED
      BY <2>1, <2>2, <3>1, <3>3
  <2>3. CASE m # 1
    <3>1. m \in 2 .. Len(t_stack) /\ m - 1 # 0
      BY <1>1, <2>3
    <3>2. Left[m - 1] = At(t_stack, reg, m - 1)
      BY <2>1, <3>1 DEF Left
    <3> QED
      BY <2>1, <3>1, <3>2, LinkedIs
  <2> QED
    BY <2>2, <2>3
<1>3. n - 1 \in 0 .. n - 1 /\ n # 0 /\ n \in 0 .. Len(t_stack)
  BY <1>1
<1>4. v[n - 1] = u
  BY <1>2, <1>3
<1>5. r.kind = "yield" => v[b - 1].block = t_stack[b].blk.prev
  <2> SUFFICES ASSUME r.kind = "yield" PROVE v[b - 1].block = t_stack[b].blk.prev
    OBVIOUS
  <2>1. b \in 1 .. n - 1 /\ T!HasBlock(t_stack[b])
    BY YieldBlock
  <2>2. b \in 1 .. Len(t_stack) /\ b - 1 \in 0 .. n - 1
    BY <1>1, <2>1
  <2>3. v[b - 1] = t_stack[b].old
    BY <1>2, <2>2
  <2>4. t_stack[b].blk.prev = t_stack[b].old.block
    BY <2>1, <2>2, BlockBelow
  <2> QED
    BY <2>3, <2>4
<1>6. Left[n] = After(t_stack, n)
  BY <1>1, <1>3 DEF Left
<1> QED
  BY <1>3, <1>4, <1>5, <1>6 DEF Seen, After, Made

\* They satisfy it everywhere.
LEMMA LeftIsView == ASSUME Linked(t_stack, reg) PROVE IsView(Left)
<1>1. \A n \in 0 .. Len(t_stack) : Seen(Left, n) = Left[n]
  <2> TAKE n \in 0 .. Len(t_stack)
  <2>1. CASE n = 0
    BY <2>1 DEF Seen, Left
  <2>2. CASE n # 0
    <3>1. n \in 1 .. Len(t_stack)
      BY <2>2
    <3> QED
      BY <3>1, SeenLeft
  <2> QED
    BY <2>1, <2>2
<1>2. Left = [n \in 0 .. Len(t_stack) |-> Left[n]]
  BY DEF Left
<1> QED
  BY <1>1, <1>2 DEF IsView

\* No other function satisfies it.
LEMMA ViewUnique ==
  ASSUME Linked(t_stack, reg), NEW v, IsView(v), NEW n \in 0 .. Len(t_stack)
  PROVE  v[n] = Left[n]
<1> DEFINE B == {m \in 0 .. Len(t_stack) : v[m] # Left[m]}
<1>1. B \in SUBSET Nat /\ Len(t_stack) \in Nat
  BY LinkedIs
<1>2. ASSUME B # {} PROVE FALSE
  <2>1. PICK m \in B : \A k \in B : m <= k
    BY <1>1, <1>2, Least, Zenon
  <2>2. m \in 0 .. Len(t_stack) /\ v[m] # Left[m]
    OBVIOUS
  <2>3. \A k \in 0 .. m - 1 : v[k] = Left[k]
    <3> TAKE k \in 0 .. m - 1
    <3>1. k \in 0 .. Len(t_stack) /\ ~(m <= k)
      BY <1>1, <2>2
    <3>2. k \notin B
      BY <2>1, <3>1
    <3> QED
      BY <3>1, <3>2
  <2>4. v[m] = Seen(v, m)
    BY <2>2 DEF IsView
  <2>5. CASE m = 0
    <3>1. Left[0] = Zero /\ Seen(v, 0) = Zero
      BY <1>1 DEF Left, Seen
    <3> QED
      BY <2>2, <2>4, <2>5, <3>1
  <2>6. CASE m # 0
    <3>1. m \in 1 .. Len(t_stack)
      BY <1>1, <2>2, <2>6
    <3> HIDE DEF B
    <3> QED
      BY <2>2, <2>3, <2>4, <3>1, SeenLeft
  <2> QED
    BY <2>5, <2>6
<1> QED
  BY <1>2

\* View ends with the globals.
LEMMA ViewTop == ASSUME Linked(t_stack, reg) PROVE T!View[Len(t_stack)] = reg
<1>1. IsView(T!View)
  <2>1. \E v : IsView(v)
    BY LeftIsView
  <2> QED
    BY <2>1, ViewIs
<1>2. Len(t_stack) \in Nat /\ Len(t_stack) > 0 /\ Len(t_stack) \in 0 .. Len(t_stack)
  BY LinkedIs
<1>3. T!View[Len(t_stack)] = Left[Len(t_stack)]
  BY <1>1, <1>2, ViewUnique
<1>4. Left[Len(t_stack)] = reg
  BY <1>2 DEF Left, At
<1> QED
  BY <1>3, <1>4

\* The invariant says more than the types.
LEMMA TagsTyped == ASSUME TagsInv PROVE T!TypeOK
<1>1. /\ Len(t_stack) \in Nat /\ Len(t_stack) <= MaxDepth /\ jump \in Jumps /\ proc \in Blks
      /\ Held(t_stack, proc, Len(t_stack))
  BY LenProperties, ControlAssumption DEF TagsInv
<1>2. jump.tag \in T!Tag \cup {"none"} /\ jump.in \in BOOLEAN /\ jump.tlev \in 0 .. MaxDepth
  BY <1>1 DEF Jumps
<1>3. proc.level \in 0 .. MaxDepth /\ proc.scope \in 0 .. Len(t_stack) /\ proc.home \in 0 .. Len(t_stack)
  BY <1>1, BlkIs DEF Held, Block
<1>4. ASSUME Len(t_stack) > 0, ~stray
      PROVE  /\ T!HasTag(t_stack[reg.tag]) /\ T!HasFrame(t_stack[reg.frame]) /\ T!HasIter(t_stack[reg.iter])
             /\ reg.block = 0 \/ T!HasBlock(t_stack[reg.block])
             /\ reg.scope = 0 \/ T!HasScope(t_stack[reg.scope])
  <2>1. Names(t_stack, reg, Len(t_stack))
    BY <1>4, LinkedIs DEF TagsInv
  <2> QED
    BY <2>1 DEF Names
<1> QED
  BY <1>1, <1>2, <1>3, <1>4 DEF T!TypeOK, T!depth

\* However a construct was left, by its end or by a jump that others handed on, the
\* evaluator goes on with the frame, the iter, the block, the scope and the tag of
\* the innermost activation that is left, whatever the program (rb_eval(),
\* rb_yield_0(), rb_call0(), rb_ensure() and the tags around them, eval.c).
THEOREM ControlRestored == Spec => []Restored
<1>1. TagsInv => Restored
  <2> SUFFICES ASSUME TagsInv PROVE Restored
    OBVIOUS
  <2>1. T!TypeOK
    BY TagsTyped
  <2>2. T!Restored
    <3> SUFFICES ASSUME ~stray, Len(t_stack) # 0 PROVE reg = T!View[Len(t_stack)]
      BY DEF T!Restored, T!depth
    <3>1. Len(t_stack) > 0
      BY LenProperties DEF TagsInv
    <3> QED
      BY <3>1, ViewTop DEF TagsInv
  <2> QED
    BY <2>1, <2>2 DEF Restored
<1> QED
  BY <1>1, TagsHold, PTL

\* A break ends the call that its block is written for, and a return the method it
\* is written in (JUMP_TAG() in rb_yield_0(), rb_eval() and rb_call0()).
THEOREM ControlJumps == Spec => JumpsHome
<1> DEFINE A == /\ (T!LandIter /\ jump.tag = "BREAK" /\ jump' = T!NoJump) => jump.home = T!prot_tag
                /\ (T!LandCall /\ jump.tag = "RETURN" /\ jump' = T!NoJump)
                     => jump.proc \/ jump.scope = T!prot_tag
<1>1. ASSUME TagsInv PROVE A
  <2>1. T!NoJump.tag = "none"
    BY DEF T!NoJump
  <2>2. ASSUME T!LandIter, jump.tag = "BREAK", jump' = T!NoJump PROVE jump.home = T!prot_tag
    <3>1. ~stray /\ Len(t_stack) > 0 /\ ~T!Lost /\ T!at.kind = "iter"
      BY <1>1, <2>2, LandsIs DEF T!LandIter
    <3>2. jump' # jump
      BY <2>1, <2>2
    <3>3. jump.in /\ jump.tlev = T!tag_level(T!landed)
      BY <2>2, <3>2 DEF T!LandIter, T!Pop
    <3>4. T!tag_level(T!landed) = T!at.blk.level
      BY <1>1, <3>1, InvIs, TagLevel
    <3> QED
      BY <1>1, <3>1, <3>3, <3>4, OwnBlock
  <2>3. ASSUME T!LandCall, jump.tag = "RETURN", jump' = T!NoJump PROVE jump.proc \/ jump.scope = T!prot_tag
    <3>1. ~stray /\ Len(t_stack) > 0 /\ ~T!Lost /\ T!at.kind = "meth"
      BY <1>1, <2>3, LandsIs DEF T!LandCall
    <3>2. jump' # jump
      BY <2>1, <2>3
    <3>3. ~jump.in
      BY <2>3, <3>2 DEF T!LandCall, T!Pop
    <3>4. Right(t_stack, jump, reg, Len(t_stack)) /\ Linked(t_stack, reg)
      BY <1>1, <3>1, InvIs
    <3>5. jump.proc \/ jump.scope = reg.scope
      BY <2>3, <3>3, <3>4 DEF Right
    <3>6. reg.scope = After(t_stack, reg.tag).scope
      BY <3>1, <3>4, Landed
    <3>7. After(t_stack, reg.tag).scope = T!prot_tag
      BY <3>1 DEF After, Made, T!HasScope, T!at, T!prot_tag
    <3> QED
      BY <3>5, <3>6, <3>7
  <2> QED
    BY <2>2, <2>3
<1>2. TagsInv => [A]_T!vars
  BY <1>1
<1> QED
  BY <1>2, TagsHold, PTL DEF JumpsHome, T!JumpsHome

-----------------------------------------------------------------------------
(***************************************************************************)
(* Blocks that calls are given: what each activation tells of its block is *)
(* true of the method that its code is written in.                         *)
(***************************************************************************)

\* From the scope u.scope to the activation n, yield means the block of the method.
Plainly(s, u, n) ==
  /\ u.scope > 0
  /\ \A k \in u.scope .. n : s[k].kind # "proc" /\ ~(s[k].kind = "args" /\ s[k - 1].kind = "iter")

\* The block that the frame of u tells of is the one given to the call of the method.
Given(s, u) ==
  s[u.scope].given # T!Unsaid =>
    /\ s[u.frame].fiter # 0 <=> s[u.scope].given > 0
    /\ s[u.frame].fiter # 0 => u.block = s[u.scope].given

\* What holds of the globals u after n activations: an iter of a NODE_ITER is on top,
\* where yield means the block of a method it is the one given, and an iter that says
\* that there is a block belongs to a frame that says so.
Own(s, u, n) ==
  /\ s[u.iter].kind = "iter" => u.iter = n
  /\ Plainly(s, u, n) /\ s[n].kind \notin {"cfunc", "catch", "proc", "iter"} =>
       /\ Given(s, u)
       /\ T!Evaluates(s[n]) /\ s[u.iter].iter # 0 => s[u.frame].fiter # 0

\* What the activation r, the n-th of s, says of blocks.
Says(s, r, n) ==
  /\ r.kind = "top" => r.iter = 0 /\ r.fiter = 0 /\ r.given = 0
  /\ r.kind \in {"while", "rescue", "ensure", "iter"} => T!Evaluates(s[n - 1])
  /\ r.kind = "iter" => /\ r.iter = 1 /\ r.phase # "call"
                        /\ r.blk.fiter = s[r.old.frame].fiter /\ r.blk.iter = s[r.old.iter].iter
  /\ r.kind = "args" => r.iter = 0 /\ (T!Evaluates(s[n - 1]) \/ s[n - 1].kind \in {"iter", "yield"})
  /\ r.kind = "yield" => /\ s[n - 1].kind # "iter" /\ r.fiter = s[r.old.block].blk.fiter
                         /\ r.phase = "body" => r.iter = s[r.old.block].blk.iter
  /\ T!HasIter(r) /\ r.kind # "iter" => r.iter # 1
  /\ T!HasBlock(r) => r.blk.iter # 1
  /\ r.kind = "meth" => r.iter = r.fiter
  /\ r.kind = "meth" /\ r.given # T!Unsaid => /\ r.fiter # 0 <=> r.given > 0
                                              /\ r.fiter # 0 => r.old.block = r.given

Owned(s) == \A n \in 1 .. Len(s) : Says(s, s[n], n) /\ Own(s, After(s, n), n)

OwnInv == proc.iter # 1 /\ (Len(t_stack) > 0 /\ ~stray => Owned(t_stack))

-----------------------------------------------------------------------------
\* a is b, but for its progress and a jump that is pending.
Same(a, b) ==
  /\ Like(a, b) /\ a.iter = b.iter /\ a.fiter = b.fiter /\ a.given = b.given
  /\ a.phase = "call" => b.phase = "call"

\* What is the same evaluates the same.
LEMMA SameEvaluates == ASSUME NEW a, NEW b, Same(a, b) PROVE T!Evaluates(a) <=> T!Evaluates(b)
BY DEF Same, Like, T!Evaluates

\* Every activation is the same as itself.
LEMMA SameAll == \A a : Same(a, a)
BY LikeSame DEF Same

\* What an activation says, it says of what is the same.
LEMMA SaysSame ==
  ASSUME NEW s, NEW r, NEW n, \A i \in 1 .. n - 1 : Same(r[i], s[i]), NEW f,
         f.kind # "top" => n - 1 \in 1 .. n - 1 /\ f.old.frame \in 1 .. n - 1 /\ f.old.iter \in 1 .. n - 1,
         f.kind = "yield" => f.old.block \in 1 .. n - 1,
         Says(s, f, n)
  PROVE  Says(r, f, n)
<1>1. ASSUME f.kind # "top"
      PROVE  /\ T!Evaluates(r[n - 1]) <=> T!Evaluates(s[n - 1])
             /\ r[n - 1].kind = s[n - 1].kind
             /\ r[f.old.frame].fiter = s[f.old.frame].fiter /\ r[f.old.iter].iter = s[f.old.iter].iter
  <2>1. Same(r[n - 1], s[n - 1]) /\ Same(r[f.old.frame], s[f.old.frame]) /\ Same(r[f.old.iter], s[f.old.iter])
    BY <1>1
  <2> QED
    BY <2>1, SameEvaluates DEF Same, Like
<1>2. f.kind = "yield" => r[f.old.block].blk = s[f.old.block].blk
  BY DEF Same, Like
<1> QED
  BY <1>1, <1>2 DEF Says

\* A changed activation that is the same says the same.
LEMMA SaysLike ==
  ASSUME NEW s, NEW a, NEW b, Same(a, b), NEW n, Says(s, b, n)
  PROVE  Says(s, a, n)
<1>1. /\ T!HasIter(a) <=> T!HasIter(b)
      /\ T!HasBlock(a) <=> T!HasBlock(b)
  BY LikeHas DEF Same
<1> QED
  BY <1>1 DEF Says, Same, Like

\* yield means the block of the method on a stack that is the same.
LEMMA PlainlySame ==
  ASSUME NEW n \in Nat, NEW s, NEW r, \A i \in 1 .. n : Like(r[i], s[i]), s[1].kind # "args",
         NEW u, u.scope \in 0 .. n, Plainly(r, u, n)
  PROVE  Plainly(s, u, n)
<1> SUFFICES ASSUME NEW k \in u.scope .. n
             PROVE  s[k].kind # "proc" /\ ~(s[k].kind = "args" /\ s[k - 1].kind = "iter")
  BY DEF Plainly
<1>1. u.scope > 0 /\ r[k].kind # "proc" /\ ~(r[k].kind = "args" /\ r[k - 1].kind = "iter")
  BY DEF Plainly
<1>2. k \in 1 .. n
  BY <1>1
<1>3. r[k].kind = s[k].kind
  BY <1>2 DEF Like
<1>4. CASE k = 1
  BY <1>1, <1>3, <1>4
<1>5. CASE k # 1
  <2>1. k - 1 \in 1 .. n
    BY <1>2, <1>5
  <2>2. r[k - 1].kind = s[k - 1].kind
    BY <2>1 DEF Like
  <2> QED
    BY <1>1, <1>3, <2>2
<1> QED
  BY <1>4, <1>5

\* What a stack says of blocks up to m is said by those that are the same up to m.
LEMMA OwnBelow ==
  ASSUME NEW s, NEW g, Linked(s, g), Owned(s), NEW m \in 1 .. Len(s), NEW r, \A i \in 1 .. m : Same(r[i], s[i]),
         NEW n \in 1 .. m
  PROVE  Says(r, r[n], n) /\ Own(r, After(r, n), n)
<1> DEFINE u == After(s, n)
<1>1. /\ Len(s) \in Nat /\ n \in 1 .. Len(s) /\ n \in Nat /\ \A i \in 1 .. m : Like(r[i], s[i])
      /\ Says(s, s[n], n) /\ Own(s, u, n) /\ s[1].kind # "args" /\ (s[n].kind = "top" <=> n = 1)
  <2>1. Len(s) \in Nat /\ n \in 1 .. Len(s) /\ 1 \in 1 .. Len(s)
    BY LinkedIs
  <2>2. Keeps(s, 1) /\ Keeps(s, n)
    BY <2>1, LinkedIs
  <2> QED
    BY <2>1, <2>2 DEF Owned, Same, Keeps
<1>2. Says(r, r[n], n)
  <2>1. s[n].kind # "top" => n \in 2 .. Len(s)
    BY <1>1
  <2>2. ASSUME s[n].kind # "top"
        PROVE  n - 1 \in 1 .. n - 1 /\ s[n].old.frame \in 1 .. n - 1 /\ s[n].old.iter \in 1 .. n - 1
    <3>1. Names(s, s[n].old, n - 1) /\ n - 1 \in Nat
      BY <2>1, <2>2, LinkedIs
    <3> QED
      BY <2>1, <2>2, <3>1 DEF Names
  <2>3. s[n].kind = "yield" => s[n].old.block \in 1 .. n - 1
    BY <1>1, YieldBlock
  <2>4. \A i \in 1 .. n - 1 : Same(r[i], s[i])
    BY <1>1
  <2>5. Says(r, s[n], n)
    BY <1>1, <2>2, <2>3, <2>4, SaysSame
  <2> QED
    BY <2>5, SaysLike
<1>3. After(r, n) = u
  BY <1>1, SameBelow
<1>4. u.frame \in 1 .. n /\ u.iter \in 1 .. n /\ u.scope \in 0 .. n
  <2>1. Names(s, u, n)
    BY <1>1 DEF Linked
  <2> QED
    BY <2>1, Zenon DEF Names
<1> HIDE DEF u
<1>5. Same(r[u.frame], s[u.frame]) /\ Same(r[u.iter], s[u.iter]) /\ Same(r[n], s[n])
  BY <1>1, <1>4
<1>6. Plainly(r, u, n) => Plainly(s, u, n)
  <2>1. \A i \in 1 .. n : Like(r[i], s[i])
    BY <1>1
  <2> QED
    BY <1>1, <1>4, <2>1, PlainlySame
<1>7. Plainly(r, u, n) => Same(r[u.scope], s[u.scope])
  <2>1. u.scope > 0 => u.scope \in 1 .. m
    BY <1>1, <1>4
  <2> QED
    BY <2>1 DEF Plainly
<1>8. T!Evaluates(r[n]) <=> T!Evaluates(s[n])
  BY <1>5, SameEvaluates
<1>9. Own(r, u, n)
  BY <1>1, <1>5, <1>6, <1>7, <1>8 DEF Own, Given, Same, Like
<1> QED
  BY <1>2, <1>3, <1>9

\* What is said of the activations below n.
Below(s, n) == \A i \in 1 .. n - 1 : Says(s, s[i], i) /\ Own(s, After(s, i), i)

\* An iter above which no NODE_ITER is making its call tells of no block for a call.
LEMMA NoCall ==
  ASSUME NEW s, NEW g, Linked(s, g), NEW n \in 2 .. Len(s) + 1, Below(s, n), s[n - 1].kind # "iter"
  PROVE  s[After(s, n - 1).iter].iter # 1
<1> DEFINE u == After(s, n - 1)
<1>1. Len(s) \in Nat /\ n - 1 \in 1 .. n - 1 /\ n - 1 \in 1 .. Len(s) /\ n \in Nat
  BY LinkedIs
<1>2. Own(s, u, n - 1)
  BY <1>1 DEF Below
<1>3. u.iter \in 1 .. n - 1 /\ T!HasIter(s[u.iter])
  <2>1. Names(s, u, n - 1)
    BY <1>1 DEF Linked
  <2> QED
    BY <2>1, Zenon DEF Names
<1> HIDE DEF u
<1>4. Says(s, s[u.iter], u.iter)
  BY <1>3 DEF Below
<1> QED
  BY <1>2, <1>3, <1>4 DEF Own, Says, u

\* Where the globals but the iter and the tag are those of the activation below.
LEMMA OwnInherits ==
  ASSUME NEW s, NEW n \in Nat, n - 1 \in 1 .. n, NEW u, NEW v,
         u.frame = v.frame, u.block = v.block, u.scope = v.scope, u.scope \in 0 .. n - 1,
         Own(s, v, n - 1), Plainly(s, u, n), s[n - 1].kind \notin {"cfunc", "catch", "proc", "iter"}
  PROVE  Given(s, u) /\ (T!Evaluates(s[n - 1]) /\ s[v.iter].iter # 0 => s[u.frame].fiter # 0)
<1>1. Plainly(s, v, n - 1)
  BY DEF Plainly
<1> QED
  BY <1>1 DEF Own, Given

\* The block of a NODE_ITER b tells of the block of the method where it is written.
LEMMA OwnBlockOf ==
  ASSUME NEW s, NEW g, Linked(s, g), NEW n \in 2 .. Len(s), Below(s, n), NEW b \in 1 .. n - 1, s[b].kind = "iter",
         NEW u, u.scope = s[b].blk.scope, Plainly(s, u, n)
  PROVE  /\ s[u.scope].given # T!Unsaid =>
              /\ s[b].blk.fiter # 0 <=> s[u.scope].given > 0
              /\ s[b].blk.fiter # 0 => s[b].blk.prev = s[u.scope].given
         /\ s[b].blk.iter # 0 => s[b].blk.fiter # 0
<1> DEFINE v == s[b].old
<1>1. /\ Len(s) \in Nat /\ b \in 1 .. Len(s) /\ T!HasBlock(s[b]) /\ Says(s, s[b], b)
  BY LinkedIs DEF Below, T!HasBlock
<1>2. b \in 2 .. Len(s) /\ s[b].blk.prev = v.block /\ b - 1 \in 1 .. n - 1
  BY <1>1, BlockBelow
<1>3. v = After(s, b - 1) /\ Names(s, v, b - 1) /\ Keeps(s, b)
  BY <1>1, <1>2, LinkedIs
<1>4. s[b].blk.scope = v.scope /\ v.scope \in 0 .. b - 1
  BY <1>3 DEF Keeps, Names
<1>5. /\ T!Evaluates(s[b - 1]) /\ s[b].blk.fiter = s[v.frame].fiter /\ s[b].blk.iter = s[v.iter].iter
  BY <1>1 DEF Says
<1>6. s[b - 1].kind \notin {"cfunc", "catch", "proc", "iter"}
  BY <1>5 DEF T!Evaluates
<1>7. Own(s, v, b - 1)
  BY <1>2, <1>3 DEF Below
<1> HIDE DEF v
<1>8. Plainly(s, v, b - 1)
  <2>1. \A k \in v.scope .. b - 1 : k \in u.scope .. n
    BY <1>1, <1>4
  <2> QED
    BY <1>4, <2>1 DEF Plainly
<1> QED
  BY <1>2, <1>4, <1>5, <1>6, <1>7, <1>8 DEF Own, Given

\* What the activation n says, and what holds below, makes it hold of n.
LEMMA OwnFollows ==
  ASSUME NEW s, NEW g, Linked(s, g), NEW n \in 2 .. Len(s), Below(s, n), Says(s, s[n], n)
  PROVE  Own(s, After(s, n), n)
<1> DEFINE r == s[n]
           u == After(s, n)
           v == s[n].old
<1>1. /\ Len(s) \in Nat /\ n \in Nat /\ n \in 1 .. Len(s) /\ n - 1 \in 1 .. n - 1 /\ n - 1 \in 1 .. n
      /\ n - 1 \in Nat /\ n # 1
  BY LinkedIs
<1>2. v = After(s, n - 1) /\ Names(s, v, n - 1) /\ Keeps(s, n) /\ r \in Acts
  BY <1>1, LinkedIs
<1>3. v.frame \in 1 .. n - 1 /\ v.iter \in 1 .. n - 1 /\ v.scope \in 0 .. n - 1
  BY <1>2 DEF Names
<1>4. Own(s, v, n - 1)
  BY <1>1, <1>2 DEF Below
<1>5. r.kind # "top"
  BY <1>1, <1>2 DEF Keeps
<1>7. CASE r.kind \in {"while", "rescue", "ensure"}
  <2>1. u.frame = v.frame /\ u.iter = v.iter /\ u.block = v.block /\ u.scope = v.scope
    BY <1>7 DEF After, Made, T!HasFrame, T!HasIter, T!HasBlock, T!HasScope
  <2>2. T!Evaluates(s[n - 1])
    BY <1>7 DEF Says
  <2>3. s[n - 1].kind \notin {"cfunc", "catch", "proc", "iter"}
    BY <2>2 DEF T!Evaluates
  <2> HIDE DEF u, v
  <2>4. s[u.iter].kind # "iter"
    BY <1>4, <2>1, <2>3 DEF Own
  <2>5. Plainly(s, u, n) => Given(s, u) /\ (s[v.iter].iter # 0 => s[u.frame].fiter # 0)
    BY <1>1, <1>3, <1>4, <2>1, <2>2, <2>3, OwnInherits
  <2>6. Own(s, u, n)
    BY <2>1, <2>4, <2>5 DEF Own
  <2> QED
    BY <2>6 DEF u
<1>8. CASE r.kind = "args"
  <2>1. u.frame = v.frame /\ u.iter = n /\ u.block = v.block /\ u.scope = v.scope
    BY <1>8 DEF After, Made, T!HasFrame, T!HasIter, T!HasBlock, T!HasScope
  <2>2. r.iter = 0 /\ (T!Evaluates(s[n - 1]) \/ s[n - 1].kind \in {"iter", "yield"})
    BY <1>8 DEF Says
  <2> HIDE DEF u, v
  <2>3. Plainly(s, u, n) => s[n - 1].kind # "iter"
    BY <1>1, <1>3, <1>8, <2>1 DEF Plainly
  <2>4. Plainly(s, u, n) => s[n - 1].kind \notin {"cfunc", "catch", "proc", "iter"}
    BY <2>2, <2>3 DEF T!Evaluates
  <2>5. Plainly(s, u, n) => Given(s, u)
    BY <1>1, <1>3, <1>4, <2>1, <2>4, OwnInherits
  <2>6. Own(s, u, n)
    BY <2>1, <2>2, <2>5 DEF Own
  <2> QED
    BY <2>6 DEF u
<1>9. CASE r.kind \in {"iter", "cfunc", "catch", "proc"}
  <2>1. u.iter = n
    BY <1>9 DEF After, Made, T!HasIter
  <2> HIDE DEF u
  <2>2. Own(s, u, n)
    BY <1>9, <2>1 DEF Own
  <2> QED
    BY <2>2 DEF u
<1>10. CASE r.kind = "meth"
  <2>1. u.frame = n /\ u.iter = n /\ u.scope = n /\ u.block = v.block
    BY <1>10 DEF After, Made, T!HasFrame, T!HasIter, T!HasBlock, T!HasScope
  <2>2. /\ r.iter = r.fiter
        /\ r.given # T!Unsaid => /\ r.fiter # 0 <=> r.given > 0
                                 /\ r.fiter # 0 => v.block = r.given
    BY <1>10 DEF Says
  <2> HIDE DEF u, v
  <2>3. Own(s, u, n)
    BY <1>10, <2>1, <2>2 DEF Own, Given
  <2> QED
    BY <2>3 DEF u
<1>11. CASE r.kind = "yield"
  <2> DEFINE b == v.block
  <2>1. /\ u.frame = n /\ u.block = s[b].blk.prev /\ u.scope = s[b].blk.scope
        /\ u.iter = IF r.phase = "body" THEN n ELSE v.iter
    BY <1>11 DEF After, Made, T!HasFrame, T!HasIter, T!HasBlock, T!HasScope
  <2>2. /\ s[n - 1].kind # "iter" /\ r.fiter = s[b].blk.fiter
        /\ r.phase = "body" => r.iter = s[b].blk.iter
    BY <1>11 DEF Says
  <2>3. b \in 1 .. n - 1 /\ T!HasBlock(s[b])
    BY <1>1, <1>11, YieldBlock
  <2>4. s[b].kind = "proc" => b = n - 1
    BY <1>2, <2>3 DEF Names
  <2>5. s[b].blk.scope \in 0 .. b - 1
    <3>1. b \in 1 .. Len(s)
      BY <1>1, <2>3
    <3> QED
      BY <2>3, <3>1, BlockBelow
  <2>6. T!Evaluates(r) => r.phase = "body"
    BY <1>11 DEF T!Evaluates
  <2> HIDE DEF u, v, b
  <2>7. s[u.iter].kind = "iter" => u.iter = n
    BY <1>4, <1>11, <2>1, <2>2 DEF Own
  <2>8. ASSUME Plainly(s, u, n) PROVE s[b].kind = "iter"
    <3>1. b \in u.scope .. n /\ u.scope > 0
      BY <1>1, <2>1, <2>3, <2>5, <2>8 DEF Plainly
    <3>2. s[b].kind # "proc"
      BY <2>8, <3>1 DEF Plainly
    <3> QED
      BY <2>3, <3>2 DEF T!HasBlock
  <2>9. Plainly(s, u, n) =>
          /\ s[u.scope].given # T!Unsaid =>
               /\ s[b].blk.fiter # 0 <=> s[u.scope].given > 0
               /\ s[b].blk.fiter # 0 => s[b].blk.prev = s[u.scope].given
          /\ s[b].blk.iter # 0 => s[b].blk.fiter # 0
    BY <2>1, <2>3, <2>8, OwnBlockOf
  <2>10. Own(s, u, n)
    BY <1>11, <2>1, <2>2, <2>6, <2>7, <2>9 DEF Own, Given
  <2> QED
    BY <2>10 DEF u
<1> QED
  BY <1>2, <1>5, <1>7, <1>8, <1>9, <1>10, <1>11 DEF Acts

-----------------------------------------------------------------------------
\* Activations end or go on.
LEMMA OwnStands ==
  ASSUME TagsInv, OwnInv, ~stray, Len(t_stack) > 0, NEW m \in 1 .. Len(t_stack), Len(t_stack') = m,
         \A i \in 1 .. m : Same(t_stack'[i], t_stack[i]), proc'.iter # 1
  PROVE  OwnInv'
<1>1. Linked(t_stack, reg) /\ Owned(t_stack)
  BY InvIs DEF OwnInv
<1>2. \A n \in 1 .. m : Says(t_stack', t_stack'[n], n) /\ Own(t_stack', After(t_stack', n), n)
  BY <1>1, OwnBelow
<1>3. Owned(t_stack')
  BY <1>2 DEF Owned
<1> QED
  BY <1>3 DEF OwnInv

\* The activation f begins, or goes on in another way.
LEMMA OwnPuts ==
  ASSUME TagsInv, OwnInv, ~stray, Len(t_stack) > 0, TagsInv', UNCHANGED stray,
         NEW n \in 2 .. Len(t_stack) + 1, NEW f, Len(t_stack') = n, t_stack'[n] = f,
         \A i \in 1 .. n - 1 : Same(t_stack'[i], t_stack[i]), Says(t_stack, f, n), proc'.iter # 1
  PROVE  OwnInv'
<1> DEFINE r == t_stack'
           m == n - 1
<1>1. Linked(t_stack, reg) /\ Owned(t_stack) /\ Len(t_stack) \in Nat
  BY InvIs DEF OwnInv
<1>2. Linked(r, reg') /\ n \in Nat /\ m \in 1 .. Len(t_stack) /\ m \in 1 .. m /\ n \in 2 .. Len(r) /\ n \in 1 .. Len(r)
  <2>1. n \in Nat /\ n > 0
    BY <1>1
  <2>2. Linked(r, reg')
    BY <2>1 DEF TagsInv
  <2> QED
    BY <1>1, <2>1, <2>2
<1>3. \A i \in 1 .. m : Says(r, r[i], i) /\ Own(r, After(r, i), i)
  <2>1. \A i \in 1 .. m : Same(r[i], t_stack[i])
    OBVIOUS
  <2> HIDE DEF m, r
  <2> QED
    BY <1>1, <1>2, <2>1, OwnBelow
<1>4. Below(r, n)
  BY <1>3 DEF Below
<1>5. f.old.frame \in 1 .. m /\ f.old.iter \in 1 .. m
  <2>1. Names(r, r[n].old, m)
    BY <1>2, LinkedIs
  <2> QED
    BY <2>1 DEF Names
<1>6. f.kind = "yield" => f.old.block \in 1 .. m
  BY <1>2, YieldBlock
<1>7. Says(r, f, n)
  <2>1. \A i \in 1 .. n - 1 : Same(r[i], t_stack[i])
    OBVIOUS
  <2> HIDE DEF r
  <2> QED
    BY <1>2, <1>5, <1>6, <2>1, SaysSame
<1>8. Own(r, After(r, n), n)
  BY <1>2, <1>4, <1>7, OwnFollows
<1>9. Owned(r)
  <2>1. \A i \in 1 .. Len(r) : i = n \/ i \in 1 .. m
    BY <1>1
  <2> QED
    BY <1>3, <1>7, <1>8, <2>1 DEF Owned
<1> QED
  BY <1>9 DEF OwnInv

\* The activation f begins on top.
LEMMA OwnEnters ==
  ASSUME TagsInv, OwnInv, ~stray, Len(t_stack) > 0, TagsInv', UNCHANGED stray,
         NEW s \in Seq(Acts), Len(s) = Len(t_stack), \A i \in 1 .. Len(t_stack) : Same(s[i], t_stack[i]),
         NEW f \in Acts, t_stack' = Append(s, f), Says(t_stack, f, Len(t_stack) + 1), proc'.iter # 1
  PROVE  OwnInv'
<1> DEFINE m == Len(t_stack)
           n == m + 1
<1>1. m \in Nat /\ m > 0 /\ n \in 2 .. m + 1 /\ n - 1 = m
  BY InvIs
<1>2. Len(t_stack') = n /\ t_stack'[n] = f /\ \A i \in 1 .. m : t_stack'[i] = s[i]
  BY Appended
<1>3. \A i \in 1 .. n - 1 : Same(t_stack'[i], t_stack[i])
  BY <1>1, <1>2
<1>4. Says(t_stack, f, n)
  OBVIOUS
<1> HIDE DEF n
<1> QED
  BY <1>1, <1>2, <1>3, <1>4, OwnPuts

\* The activation d and those above it end.
LEMMA OwnPops ==
  ASSUME TagsInv, OwnInv, ~stray, Len(t_stack) > 0, NEW d \in 2 .. Len(t_stack), NEW u, NEW j, T!Pop(d, u, j)
  PROVE  OwnInv'
<1>1. t_stack \in Seq(Acts) /\ Len(t_stack) \in Nat /\ d - 1 \in 0 .. Len(t_stack) /\ d - 1 \in 1 .. Len(t_stack)
  BY InvIs
<1>2. t_stack' = SubSeq(t_stack, 1, d - 1) /\ proc' = T!Survives(d)
  BY DEF T!Pop
<1>3. Len(t_stack') = d - 1 /\ \A i \in 1 .. d - 1 : Same(t_stack'[i], t_stack[i])
  BY <1>1, <1>2, CutOff, SameAll
<1>4. proc'.iter # 1
  <2>1. proc \in Blks /\ proc.iter # 1
    BY InvIs DEF OwnInv
  <2> QED
    BY <1>2, <2>1 DEF T!Survives, Blks
<1> QED
  BY <1>1, <1>3, <1>4, OwnStands

\* A jump goes on with the activation whose tag it comes to.
LEMMA OwnStays ==
  ASSUME TagsInv, OwnInv, ~stray, Len(t_stack) > 0, NEW r \in Acts, Same(r, T!at), T!Stays(r, T!landed)
  PROVE  OwnInv'
<1> DEFINE p == reg.tag
<1>1. t_stack \in Seq(Acts) /\ p \in 1 .. Len(t_stack) /\ T!at = t_stack[p] /\ T!prot_tag = p
  BY InvIs DEF T!at, T!prot_tag
<1>2. t_stack' = Append(SubSeq(t_stack, 1, p - 1), r) /\ proc' = T!Survives(p + 1)
  BY <1>1 DEF T!Stays
<1>3. Len(t_stack') = p /\ t_stack'[p] = r /\ \A i \in 1 .. p - 1 : t_stack'[i] = t_stack[i]
  BY <1>1, <1>2, Restacked
<1>4. \A i \in 1 .. p : Same(t_stack'[i], t_stack[i])
  <2>1. \A i \in 1 .. p : i = p \/ i \in 1 .. p - 1
    BY <1>1, InvIs
  <2> QED
    BY <1>1, <1>3, <2>1, SameAll
<1>5. proc'.iter # 1
  <2>1. proc \in Blks /\ proc.iter # 1
    BY InvIs DEF OwnInv
  <2> QED
    BY <1>2, <2>1 DEF T!Survives, Blks
<1> QED
  BY <1>1, <1>3, <1>4, <1>5, OwnStands

\* Nothing happens to the activations.
LEMMA OwnSame ==
  ASSUME TagsInv, OwnInv, UNCHANGED <<t_stack, reg, proc>>, stray' \in {stray, TRUE}
  PROVE  OwnInv'
BY DEF OwnInv

-----------------------------------------------------------------------------
\* What is said on top.
LEMMA OwnTop ==
  ASSUME TagsInv, OwnInv, ~stray, Len(t_stack) > 0
  PROVE  /\ Owned(t_stack) /\ proc.iter # 1 /\ T!top = t_stack[Len(t_stack)] /\ T!depth = Len(t_stack)
         /\ Says(t_stack, T!top, Len(t_stack)) /\ Own(t_stack, reg, Len(t_stack))
         /\ \A n \in 1 .. Len(t_stack) + 1 : Below(t_stack, n)
         /\ T!top.kind # "iter" => t_stack[reg.iter].iter # 1
<1>1. /\ Linked(t_stack, reg) /\ Len(t_stack) \in Nat /\ Len(t_stack) \in 1 .. Len(t_stack)
      /\ reg = After(t_stack, Len(t_stack))
  BY InvIs
<1>2. Owned(t_stack) /\ proc.iter # 1 /\ T!top = t_stack[Len(t_stack)] /\ T!depth = Len(t_stack)
  BY DEF OwnInv, T!top, T!depth
<1>3. Says(t_stack, T!top, Len(t_stack)) /\ Own(t_stack, reg, Len(t_stack))
  BY <1>1, <1>2 DEF Owned
<1>4. ASSUME NEW n \in 1 .. Len(t_stack) + 1 PROVE Below(t_stack, n)
  <2>1. \A i \in 1 .. n - 1 : i \in 1 .. Len(t_stack)
    BY <1>1
  <2> QED
    BY <1>2, <2>1 DEF Owned, Below
<1>5. ASSUME T!top.kind # "iter" PROVE t_stack[reg.iter].iter # 1
  <2> DEFINE n == Len(t_stack) + 1
  <2>1. n \in 2 .. Len(t_stack) + 1 /\ n \in 1 .. Len(t_stack) + 1 /\ n - 1 = Len(t_stack)
    BY <1>1
  <2>2. Below(t_stack, n)
    BY <1>4, <2>1
  <2> HIDE DEF n
  <2> QED
    BY <1>1, <1>2, <1>5, <2>1, <2>2, NoCall
<1> QED
  BY <1>2, <1>3, <1>4, <1>5

\* A fresh activation tells of no block.
LEMMA Blank ==
  ASSUME NEW k
  PROVE  LET a == T!Activation(k) IN
         a.kind = k /\ a.phase = "body" /\ a.old = reg /\ a.iter = 0 /\ a.fiter = 0 /\ a.given = 0 /\ a.blk.iter = 0
BY DEF T!Activation, T!NoBlk, T!ITER_NOT

\* Constructs begin.
LEMMA OwnBegins ==
  ASSUME TagsInv, OwnInv, TagsInv', T!Runs, NEW k \in {"while", "rescue", "ensure", "args"},
         T!Evaluates(T!top) \/ (k = "args" /\ T!top.kind \in {"iter", "yield"}),
         T!Push(T!Activation(k)), UNCHANGED <<jump, proc, stray>>
  PROVE  OwnInv'
<1> DEFINE f == T!Activation(k)
           m == Len(t_stack)
           n == m + 1
<1>1. ~stray /\ Len(t_stack) > 0
  BY RunsIs
<1>2. /\ Linked(t_stack, reg) /\ t_stack \in Seq(Acts) /\ m \in Nat /\ reg \in Regs /\ n - 1 = m
  BY <1>1, InvIs
<1>3. f \in Acts
  BY <1>2, Fresh
<1>4. f.kind = k /\ f.iter = 0 /\ f.given = 0 /\ f.blk.iter = 0 /\ f.old = reg
  BY Blank
<1>5. t_stack' = Append(t_stack, f)
  BY DEF T!Push
<1>6. T!top = t_stack[m] /\ proc.iter # 1
  BY <1>1, OwnTop
<1> HIDE DEF f, n
<1>7. Says(t_stack, f, n)
  BY <1>2, <1>4, <1>6 DEF Says, T!HasBlock
<1>8. \A i \in 1 .. m : Same(t_stack[i], t_stack[i])
  BY SameAll
<1> QED
  BY <1>1, <1>2, <1>3, <1>5, <1>6, <1>7, <1>8, OwnEnters DEF n

\* while, begin-rescue and begin-ensure keep what is said of blocks.
LEMMA OwnBegin == ASSUME TagsInv, OwnInv, NEW k \in {"while", "rescue", "ensure"}, T!Begin(k) PROVE OwnInv'
<1>1. TagsInv'
  BY BeginKeeps
<1> QED
  BY <1>1, OwnBegins DEF T!Begin, T!Ruby

\* The arguments of a call keep what is said of blocks.
LEMMA OwnArgs == ASSUME TagsInv, OwnInv, T!SetupArgs PROVE OwnInv'
<1>1. TagsInv'
  BY SetupArgsKeeps
<1> QED
  BY <1>1, OwnBegins DEF T!SetupArgs, T!Calls

\* The block of a NODE_ITER is told of where it is written.
LEMMA IterSays ==
  ASSUME NEW n, NEW u, T!Evaluates(t_stack[n - 1]), t_stack[u.iter].iter # 1
  PROVE  Says(t_stack, T!IterAt(n, u), n)
<1> DEFINE f == T!IterAt(n, u)
<1>1. f.kind = "iter" /\ f.phase = "pre" /\ f.old = u /\ f.iter = 1
      /\ f.blk.fiter = t_stack[u.frame].fiter /\ f.blk.iter = t_stack[u.iter].iter
  BY DEF T!IterAt, T!Activation, T!NoBlk, T!ITER_PRE
<1> HIDE DEF f
<1>2. Says(t_stack, f, n)
  BY <1>1 DEF Says
<1> QED
  BY <1>2 DEF f

\* A call with a block begins.
LEMMA OwnNodeIter == ASSUME TagsInv, OwnInv, T!NODE_ITER PROVE OwnInv'
<1> DEFINE m == Len(t_stack)
           n == m + 1
           f == T!IterAt(n, reg)
<1>0. TagsInv'
  BY NodeIterKeeps
<1>1. ~stray /\ m > 0 /\ m + 1 < MaxDepth /\ T!Evaluates(T!top) /\ UNCHANGED <<jump, proc, stray>>
  BY RunsIs DEF T!NODE_ITER, T!Ruby, T!depth
<1>2. t_stack \in Seq(Acts) /\ m \in Nat /\ MaxDepth \in Nat
  BY <1>1, InvIs
<1>3. n \in 2 .. MaxDepth /\ n <= m + 1 /\ n - 1 = m
  BY <1>1, <1>2
<1>4. T!top = t_stack[m] /\ proc.iter # 1 /\ t_stack[reg.iter].iter # 1
  BY <1>1, OwnTop DEF T!Evaluates
<1>5. t_stack' = Append(t_stack, f)
  BY DEF T!NODE_ITER, T!Push, T!Here, T!depth
<1> HIDE DEF n
<1>6. Says(t_stack, f, n)
  BY <1>1, <1>3, <1>4, IterSays
<1>7. f \in Acts
  <2>1. t_stack[n - 1].kind # "proc" /\ reg = At(t_stack, reg, n - 1)
    BY <1>1, <1>3, <1>4 DEF T!Evaluates, At
  <2> QED
    BY <1>1, <1>3, <2>1, IterFits DEF Fits
<1> HIDE DEF f
<1>8. \A i \in 1 .. m : Same(t_stack[i], t_stack[i])
  BY SameAll
<1>9. proc'.iter # 1
  BY <1>1, <1>4
<1> QED
  BY <1>0, <1>1, <1>2, <1>5, <1>6, <1>7, <1>8, <1>9, OwnEnters DEF n

\* The Proc that is there tells of no block for a call.
LEMMA OwnSurvives ==
  ASSUME TagsInv, OwnInv, ~stray, Len(t_stack) > 0, NEW d, proc' = T!Survives(d)
  PROVE  proc'.iter # 1
<1>1. proc \in Blks /\ proc.iter # 1
  BY InvIs DEF OwnInv
<1> QED
  BY <1>1 DEF T!Survives, Blks

\* A jump lands at a call with a block, which a retry makes again.
LEMMA OwnLandIter == ASSUME TagsInv, OwnInv, T!LandIter PROVE OwnInv'
<1> DEFINE p == T!prot_tag
           regs == T!Popped(T!at, T!landed)
           f == T!IterAt(p, regs)
<1>1. /\ ~stray /\ Len(t_stack) > 0 /\ ~T!Lost /\ T!at.kind = "iter" /\ UNCHANGED stray /\ TagsInv'
  BY LandsIs, LandIterKeeps DEF T!LandIter
<1>2. /\ Linked(t_stack, reg) /\ t_stack \in Seq(Acts) /\ Len(t_stack) \in Nat /\ MaxDepth \in Nat
      /\ Len(t_stack) <= MaxDepth /\ T!at = t_stack[p] /\ p = reg.tag
  BY <1>1, InvIs DEF T!at, T!prot_tag
<1>3. /\ p \in 2 .. Len(t_stack) /\ T!landed \in Regs /\ Shows(t_stack, T!landed, p)
      /\ t_stack[p].old = At(t_stack, reg, p - 1)
  BY <1>1, <1>2, Landed
<1>4. CASE \E j : T!Pop(p, regs, j)
  <2> HIDE DEF regs, p
  <2> QED
    BY <1>1, <1>3, <1>4, OwnPops
<1>5. CASE t_stack' = Append(SubSeq(t_stack, 1, p - 1), f) /\ proc' = T!Survives(p)
  <2>1. regs = At(t_stack, reg, p - 1) /\ regs = After(t_stack, p - 1)
    BY <1>2, <1>3, PoppedOld, LinkedIs
  <2>2. p \in 2 .. MaxDepth /\ p <= Len(t_stack) + 1 /\ p \in 1 .. Len(t_stack) /\ p \in Nat
        /\ p \in 2 .. Len(t_stack) + 1 /\ p \in 1 .. Len(t_stack) + 1
    BY <1>2, <1>3
  <2>3. Below(t_stack, p) /\ Says(t_stack, t_stack[p], p)
    BY <1>1, <2>2, OwnTop DEF Owned
  <2>4. T!Evaluates(t_stack[p - 1]) /\ t_stack[p - 1].kind # "iter" /\ t_stack[p - 1].kind # "proc"
    BY <1>1, <1>2, <2>3 DEF Says, T!Evaluates
  <2> HIDE DEF p, regs
  <2>5. t_stack[regs.iter].iter # 1
    BY <1>2, <2>1, <2>2, <2>3, <2>4, NoCall
  <2>6. Says(t_stack, f, p)
    BY <2>4, <2>5, IterSays
  <2>7. f \in Acts
    BY <1>1, <2>1, <2>2, <2>4, IterFits DEF Fits
  <2> HIDE DEF f
  <2>8. /\ Len(t_stack') = p /\ t_stack'[p] = f
        /\ \A i \in 1 .. p - 1 : t_stack'[i] = t_stack[i]
    BY <1>2, <1>5, <2>2, <2>7, Restacked
  <2>9. \A i \in 1 .. p - 1 : Same(t_stack'[i], t_stack[i])
    BY <2>8, SameAll
  <2>10. proc'.iter # 1
    BY <1>1, <1>5, OwnSurvives
  <2> QED
    BY <1>1, <2>2, <2>6, <2>8, <2>9, <2>10, OwnPuts
<1> QED
  BY <1>4, <1>5 DEF T!LandIter

\* Activations come to their end, and jumps land.
LEMMA OwnEnds == ASSUME TagsInv, OwnInv, T!Ends PROVE OwnInv'
<1>1. ~stray /\ Len(t_stack) > 0 /\ Len(t_stack) > 1 /\ T!Pop(Len(t_stack), T!Popped(T!top, reg), T!top.pend)
  BY RunsIs DEF T!Ends, T!depth
<1>2. Len(t_stack) \in 2 .. Len(t_stack)
  <2>1. Len(t_stack) \in Nat
    BY <1>1, InvIs
  <2> QED
    BY <1>1, <2>1
<1> QED
  BY <1>1, <1>2, OwnPops

\* A jump ends the activation whose tag it comes to.
LEMMA OwnLeft ==
  ASSUME TagsInv, OwnInv, NEW k, k # "top", T!Lands(k), NEW u, NEW j, T!Pop(T!prot_tag, u, j)
  PROVE  OwnInv'
<1>1. ~stray /\ Len(t_stack) > 0 /\ ~T!Lost /\ T!at.kind = k
  BY LandsIs
<1>2. T!prot_tag \in 2 .. Len(t_stack)
  BY <1>1, InvIs, Landed DEF T!at, T!prot_tag
<1> QED
  BY <1>1, <1>2, OwnPops

\* Jumps that land elsewhere.
LEMMA OwnLands ==
  ASSUME TagsInv, OwnInv,
         T!LandWhile \/ T!LandCall \/ T!LandYield \/ T!LandRescue \/ T!LandCatch \/ T!LandProc
  PROVE  OwnInv'
<1>1. PICK k \in {"while", "meth", "yield", "rescue", "catch", "proc"} :
        /\ T!Lands(k)
        /\ \/ \E u, j : T!Pop(T!prot_tag, u, j)
           \/ T!Stays(T!at, T!landed)
           \/ k = "rescue" /\ \E p \in {"body", "clause"} : T!Stays([T!at EXCEPT !.phase = p], T!landed)
  <2>1. CASE T!LandWhile
    BY <2>1 DEF T!LandWhile
  <2>2. CASE T!LandCall
    BY <2>2 DEF T!LandCall
  <2>3. CASE T!LandYield
    BY <2>3 DEF T!LandYield
  <2>4. CASE T!LandRescue
    BY <2>4 DEF T!LandRescue
  <2>5. CASE T!LandCatch
    BY <2>5 DEF T!LandCatch
  <2>6. CASE T!LandProc
    BY <2>6 DEF T!LandProc
  <2> QED
    BY <2>1, <2>2, <2>3, <2>4, <2>5, <2>6
<1>2. ~stray /\ Len(t_stack) > 0 /\ T!at.kind = k /\ T!at \in Acts
  BY <1>1, LandsIs
<1>3. CASE \E u, j : T!Pop(T!prot_tag, u, j)
  BY <1>1, <1>3, OwnLeft
<1>4. CASE T!Stays(T!at, T!landed)
  BY <1>2, <1>4, SameAll, OwnStays
<1>5. ASSUME k = "rescue", NEW p \in {"body", "clause"}, T!Stays([T!at EXCEPT !.phase = p], T!landed) PROVE OwnInv'
  <2> DEFINE r == [T!at EXCEPT !.phase = p]
  <2>1. r \in Acts /\ Same(r, T!at)
    BY <1>2, <1>5 DEF Acts, Same, Like
  <2>2. T!Stays(r, T!landed)
    BY <1>5
  <2> HIDE DEF r
  <2> QED
    BY <1>2, <2>1, <2>2, OwnStays
<1> QED
  BY <1>1, <1>3, <1>4, <1>5

\* The clause of the ensure at d begins.
LEMMA OwnClause ==
  ASSUME TagsInv, OwnInv, ~stray, Len(t_stack) > 0, TagsInv', UNCHANGED stray, NEW d \in 2 .. Len(t_stack),
         t_stack[d].kind = "ensure", NEW g, NEW j \in Jumps, T!Clause(d, g, j)
  PROVE  OwnInv'
<1> DEFINE r == t_stack[d]
           f == [r EXCEPT !.phase = "clause", !.pend = j]
           q == SubSeq(t_stack, 1, d)
<1>1. /\ Linked(t_stack, reg) /\ t_stack \in Seq(Acts) /\ Len(t_stack) \in Nat
  BY InvIs
<1>2. r \in Acts /\ d \in 1 .. Len(t_stack) /\ d \in 0 .. Len(t_stack) /\ d \in 1 .. d /\ d \in 2 .. Len(t_stack) + 1
      /\ d \in Nat
  BY <1>1, LinkedIs
<1>3. f \in Acts /\ f.kind = "ensure" /\ f.iter = r.iter /\ f.blk = r.blk
  BY <1>2 DEF Acts
<1>4. q \in Seq(Acts) /\ Len(q) = d /\ \A i \in 1 .. d : q[i] = t_stack[i]
  BY <1>1, <1>2, CutOff
<1>5. t_stack' = [q EXCEPT ![d] = f]
  <2>1. t_stack' = [q EXCEPT ![d] = [[q[d] EXCEPT !.phase = "clause"] EXCEPT !.pend = j]]
    <3>1. t_stack' = [q EXCEPT ![d].phase = "clause", ![d].pend = j]
      BY DEF T!Clause
    <3> HIDE DEF q
    <3> QED
      BY <1>2, <1>4, <3>1
  <2> HIDE DEF q
  <2> QED
    BY <1>2, <1>4, <2>1
<1>6. proc' = proc
  BY DEF T!Clause
<1> HIDE DEF q, f
<1>7. Len(t_stack') = d /\ t_stack'[d] = f /\ \A i \in 1 .. d : i # d => t_stack'[i] = q[i]
  <2>1. LET r0 == [q EXCEPT ![d] = f] IN
        /\ r0 \in Seq(Acts) /\ Len(r0) = Len(q) /\ r0[d] = f
        /\ \A i \in 1 .. Len(q) : i # d => r0[i] = q[i]
    BY <1>2, <1>3, <1>4, Changed
  <2> QED
    BY <1>4, <1>5, <2>1
<1>8. \A i \in 1 .. d - 1 : Same(t_stack'[i], t_stack[i])
  <2>1. \A i \in 1 .. d - 1 : i \in 1 .. d /\ i # d
    BY <1>2
  <2> QED
    BY <1>4, <1>7, <2>1, SameAll
<1>9. Says(t_stack, f, d)
  <2>1. Says(t_stack, r, d)
    BY <1>2, OwnTop DEF Owned
  <2> QED
    BY <1>3, <2>1 DEF Says, T!HasIter, T!HasBlock
<1>10. proc'.iter # 1
  BY <1>6, OwnTop
<1> QED
  BY <1>2, <1>7, <1>8, <1>9, <1>10, OwnPuts

\* The clause of an ensure begins after its body.
LEMMA OwnEnsureBegins == ASSUME TagsInv, OwnInv, T!EnsureBegins PROVE OwnInv'
<1> DEFINE d == Len(t_stack)
<1>1. /\ ~stray /\ d > 0 /\ t_stack[d].kind = "ensure" /\ T!Clause(d, reg, T!NoJump) /\ UNCHANGED stray /\ TagsInv'
  BY RunsIs, EnsureBeginsKeeps DEF T!EnsureBegins, T!top, T!depth
<1>2. d \in Nat /\ Keeps(t_stack, d)
  BY <1>1, InvIs
<1>3. d # 1
  BY <1>1, <1>2 DEF Keeps
<1>4. d \in 2 .. d
  <2>1. d \in Nat /\ d > 0 /\ d # 1
    BY <1>1, <1>2, <1>3
  <2> HIDE DEF d
  <2> QED
    BY <2>1
<1> QED
  BY <1>1, <1>4, Nothing, OwnClause

\* The clause of an ensure begins after a jump out of the body.
LEMMA OwnLandEnsure == ASSUME TagsInv, OwnInv, T!LandEnsure PROVE OwnInv'
<1>1. /\ ~stray /\ Len(t_stack) > 0 /\ ~T!Lost /\ T!at.kind = "ensure" /\ UNCHANGED stray
      /\ jump \in Jumps /\ TagsInv'
  BY LandsIs, LandEnsureKeeps DEF T!LandEnsure
<1>2. T!at = t_stack[T!prot_tag] /\ T!prot_tag = reg.tag
  BY DEF T!at, T!prot_tag
<1>3. T!prot_tag \in 2 .. Len(t_stack)
  BY <1>1, <1>2, InvIs, Landed
<1>4. T!Clause(T!prot_tag, T!landed, jump)
  BY DEF T!LandEnsure
<1> QED
  BY <1>1, <1>2, <1>3, <1>4, OwnClause

\* The program is left.
LEMMA OwnLandTop == ASSUME TagsInv, OwnInv, T!LandTop PROVE OwnInv'
<1>1. ~stray /\ Len(t_stack) > 0
  BY DEF T!LandTop, T!Lands, T!depth
<1>2. t_stack' = SubSeq(t_stack, 1, 0) /\ proc' = T!Survives(1)
  BY DEF T!LandTop, T!Pop
<1>3. Len(t_stack') = 0
  BY <1>1, <1>2, InvIs, CutOff
<1>4. proc'.iter # 1
  BY <1>1, <1>2, OwnSurvives
<1> QED
  BY <1>3, <1>4 DEF OwnInv

-----------------------------------------------------------------------------
\* The activation on top comes on.
LEMMA MarkSame ==
  ASSUME TagsInv, ~stray, Len(t_stack) > 0, T!top.kind \notin {"yield", "ensure"},
         NEW s, s = [t_stack EXCEPT ![T!depth].phase = "called"]
  PROVE  s \in Seq(Acts) /\ Len(s) = Len(t_stack) /\ \A i \in 1 .. Len(t_stack) : Same(s[i], t_stack[i])
<1> DEFINE d == Len(t_stack)
           r == t_stack[d]
           a == [r EXCEPT !.phase = "called"]
<1>1. d \in 1 .. d /\ d \in Nat /\ r \in Acts /\ t_stack \in Seq(Acts)
  BY InvIs
<1>2. a \in Acts /\ Same(a, r)
  BY <1>1 DEF Acts, Same, Like, T!top, T!depth
<1>3. s = [t_stack EXCEPT ![d] = a]
  BY DEF T!depth
<1> HIDE DEF a
<1>4. /\ s \in Seq(Acts) /\ Len(s) = d /\ s[d] = a
      /\ \A i \in 1 .. d : i # d => s[i] = t_stack[i]
  <2>1. LET r0 == [t_stack EXCEPT ![d] = a] IN
        /\ r0 \in Seq(Acts) /\ Len(r0) = d /\ r0[d] = a
        /\ \A i \in 1 .. d : i # d => r0[i] = t_stack[i]
    BY <1>1, <1>2, Changed
  <2> QED
    BY <1>3, <2>1
<1>5. \A i \in 1 .. d : Same(s[i], t_stack[i])
  BY <1>2, <1>4, SameAll
<1> QED
  BY <1>4, <1>5

\* A call leaves the activations below the same.
LEMMA EnterSame ==
  ASSUME TagsInv, ~stray, Len(t_stack) > 0, NEW f, T!Enter(f)
  PROVE  \E s \in Seq(Acts) : /\ Len(s) = Len(t_stack) /\ t_stack' = Append(s, f)
                              /\ \A i \in 1 .. Len(t_stack) : Same(s[i], t_stack[i])
<1>1. CASE T!top.kind = "iter"
  <2> DEFINE s == [t_stack EXCEPT ![T!depth].phase = "called"]
  <2>1. t_stack' = Append(s, f) /\ T!top.kind \notin {"yield", "ensure"}
    BY <1>1 DEF T!Enter
  <2>2. s \in Seq(Acts) /\ Len(s) = Len(t_stack) /\ \A i \in 1 .. Len(t_stack) : Same(s[i], t_stack[i])
    <3> DEFINE q == s
    <3>1. q = [t_stack EXCEPT ![T!depth].phase = "called"]
      OBVIOUS
    <3> HIDE DEF q
    <3>2. q \in Seq(Acts) /\ Len(q) = Len(t_stack) /\ \A i \in 1 .. Len(t_stack) : Same(q[i], t_stack[i])
      BY <2>1, <3>1, MarkSame
    <3> QED
      BY <3>1, <3>2
  <2> HIDE DEF s
  <2> QED
    BY <2>1, <2>2
<1>2. CASE T!top.kind # "iter"
  BY <1>2, InvIs, SameAll DEF T!Enter
<1> QED
  BY <1>1, <1>2

\* The frame of a call tells of the block that the call is given.
LEMMA CallSays ==
  ASSUME TagsInv, OwnInv, ~stray, Len(t_stack) > 0, NEW k \in {"meth", "cfunc", "catch"}, NEW i,
         T!top.kind = "iter" => i = 1,
         T!top.kind # "iter" /\ i = 1 => T!Evaluates(T!top) /\ t_stack[reg.iter].iter # 0,
         NEW f, f.kind = k, f.iter = T!Itr(i), f.fiter = T!Itr(i), f.old = reg, f.given = T!Called(k, i).given
  PROVE  Says(t_stack, f, Len(t_stack) + 1)
<1> DEFINE m == Len(t_stack)
           g == IF T!top.kind = "iter" THEN m
                ELSE IF i # 1 THEN 0
                ELSE IF T!Plain THEN t_stack[reg.scope].given ELSE T!Unsaid
<1>1. m \in Nat /\ T!top = t_stack[m] /\ Own(t_stack, reg, m) /\ reg = After(t_stack, m)
  BY InvIs, OwnTop
<1>2. f.given = g
  BY DEF T!Called, T!depth, T!ITER_PRE
<1>3. f.iter # 1 /\ (f.fiter # 0 <=> i = 1)
  BY DEF T!Itr, T!ITER_PRE, T!ITER_CUR, T!ITER_NOT
<1>4. ASSUME g # T!Unsaid
      PROVE  (i = 1 <=> g > 0) /\ (i = 1 => reg.block = g)
  <2>1. CASE T!top.kind = "iter"
    <3>1. reg.block = m
      BY <1>1, <2>1 DEF After, Made, T!HasBlock
    <3> QED
      BY <1>1, <2>1, <3>1
  <2>2. CASE T!top.kind # "iter" /\ i # 1
    BY <2>2
  <2>3. CASE T!top.kind # "iter" /\ i = 1
    <3>1. T!Plain /\ g = t_stack[reg.scope].given
      BY <1>4, <2>3
    <3>2. Plainly(t_stack, reg, m)
      BY <3>1 DEF T!Plain, Plainly, T!depth
    <3>3. T!top.kind \notin {"cfunc", "catch", "proc", "iter"}
      BY <2>3 DEF T!Evaluates
    <3>4. Given(t_stack, reg) /\ t_stack[reg.frame].fiter # 0
      BY <1>1, <2>3, <3>2, <3>3 DEF Own
    <3> QED
      BY <1>4, <2>3, <3>1, <3>4 DEF Given
  <2> QED
    BY <2>1, <2>2, <2>3
<1> HIDE DEF g
<1> QED
  BY <1>2, <1>3, <1>4 DEF Says, T!HasBlock

\* A call of a method tells its frame of its block.
LEMMA OwnCall ==
  ASSUME TagsInv, OwnInv, TagsInv', T!Runs, NEW k \in {"meth", "cfunc", "catch"}, NEW i,
         T!top.kind = "iter" => i = 1,
         T!top.kind # "iter" /\ i = 1 => T!Evaluates(T!top) /\ t_stack[reg.iter].iter # 0,
         NEW m \in Name \cup {"none"}, NEW p \in {"call", "body"},
         NEW f, f = [T!Called(k, i) EXCEPT !.name = m, !.phase = p], T!Enter(f), UNCHANGED <<jump, proc, stray>>
  PROVE  OwnInv'
<1> DEFINE c == T!Called(k, i)
<1>1. ~stray /\ Len(t_stack) > 0
  BY RunsIs
<1>2. c \in Acts /\ c.kind = k /\ c.old = reg
  BY <1>1, CalledIs
<1>3. c.iter = T!Itr(i) /\ c.fiter = T!Itr(i)
  BY DEF T!Called, T!Activation
<1>4. f = [c EXCEPT !.name = m, !.phase = p]
  OBVIOUS
<1> HIDE DEF c
<1>5. f \in Acts /\ f.kind = k /\ f.iter = T!Itr(i) /\ f.fiter = T!Itr(i) /\ f.old = reg /\ f.given = c.given
  BY <1>2, <1>3, <1>4 DEF Acts
<1>6. Says(t_stack, f, Len(t_stack) + 1)
  BY <1>1, <1>5, CallSays DEF c
<1>7. PICK s \in Seq(Acts) : /\ Len(s) = Len(t_stack) /\ t_stack' = Append(s, f)
                             /\ \A j \in 1 .. Len(t_stack) : Same(s[j], t_stack[j])
  BY <1>1, EnterSame
<1>8. proc'.iter # 1
  BY <1>1, OwnTop
<1> QED
  BY <1>1, <1>5, <1>6, <1>7, <1>8, OwnEnters

\* A call of any kind of method keeps what is said of blocks.
LEMMA OwnRbCall ==
  ASSUME TagsInv, OwnInv, NEW k \in {"meth", "cfunc", "catch"}, NEW m \in Name \cup {"none"}, T!rb_call(k, m)
  PROVE  OwnInv'
<1> DEFINE i == t_stack[reg.iter].iter
           p == IF k = "catch" THEN "call" ELSE "body"
           f == [T!Called(k, i) EXCEPT !.name = m, !.phase = p]
<1>1. T!Runs /\ T!Enter(f) /\ UNCHANGED <<jump, proc, stray>> /\ p \in {"call", "body"} /\ TagsInv'
  BY RbCallKeeps DEF T!rb_call, T!Calls
<1>2. ~stray /\ Len(t_stack) > 0
  BY <1>1, RunsIs
<1>3. T!top.kind # "iter" => i # 1
  BY <1>2, OwnTop
<1>4. ASSUME T!top.kind = "iter" PROVE i = 1
  <2>1. T!top = t_stack[Len(t_stack)] /\ Says(t_stack, T!top, Len(t_stack)) /\ reg = After(t_stack, Len(t_stack))
    BY <1>2, OwnTop, InvIs
  <2>2. reg.iter = Len(t_stack)
    BY <1>4, <2>1 DEF After, Made, T!HasIter
  <2> QED
    BY <1>4, <2>1, <2>2 DEF Says
<1> HIDE DEF i, p
<1> QED
  BY <1>1, <1>3, <1>4, OwnCall

\* super hands on the block of the method it is in.
LEMMA OwnZsuper == ASSUME TagsInv, OwnInv, T!NODE_ZSUPER PROVE OwnInv'
<1> DEFINE i == IF t_stack[reg.iter].iter = T!ITER_NOT THEN T!ITER_NOT ELSE T!ITER_PRE
           f == T!Called("meth", i)
<1>1. T!Runs /\ T!Evaluates(T!top) /\ T!Enter(f) /\ UNCHANGED <<jump, proc, stray>> /\ TagsInv'
  BY ZsuperKeeps DEF T!NODE_ZSUPER, T!Ruby
<1>2. ~stray /\ Len(t_stack) > 0
  BY <1>1, RunsIs
<1>3. T!top.kind # "iter"
  BY <1>1 DEF T!Evaluates
<1>4. i = 1 => t_stack[reg.iter].iter # 0
  BY DEF T!ITER_NOT, T!ITER_PRE
<1> HIDE DEF i
<1>5. f \in Acts /\ f.kind = "meth" /\ f.old = reg
  BY <1>2, CalledIs
<1>6. f.iter = T!Itr(i) /\ f.fiter = T!Itr(i)
  BY DEF T!Called, T!Activation
<1>7. Says(t_stack, f, Len(t_stack) + 1)
  <2> DEFINE h == f
  <2>1. h.kind = "meth" /\ h.iter = T!Itr(i) /\ h.fiter = T!Itr(i) /\ h.old = reg /\ h.given = T!Called("meth", i).given
    BY <1>5, <1>6
  <2> HIDE DEF h
  <2>2. Says(t_stack, h, Len(t_stack) + 1)
    BY <1>1, <1>2, <1>3, <1>4, <2>1, CallSays
  <2> QED
    BY <2>2 DEF h
<1> HIDE DEF f
<1>8. PICK s \in Seq(Acts) : /\ Len(s) = Len(t_stack) /\ t_stack' = Append(s, f)
                             /\ \A j \in 1 .. Len(t_stack) : Same(s[j], t_stack[j])
  BY <1>1, <1>2, EnterSame
<1>9. proc'.iter # 1
  BY <1>1, <1>2, OwnTop
<1> QED
  BY <1>1, <1>2, <1>5, <1>7, <1>8, <1>9, OwnEnters

\* A Proc tells of no block for a call.
LEMMA OwnProcNew == ASSUME TagsInv, OwnInv, T!proc_s_new PROVE OwnInv'
<1> DEFINE m == Len(t_stack)
           c == t_stack[reg.block].blk
<1>1. ~stray /\ m > 0
  BY RunsIs DEF T!proc_s_new, T!Calls
<1>2. m \in Nat /\ m \in 1 .. m /\ t_stack \in Seq(Acts) /\ reg = After(t_stack, m) /\ Linked(t_stack, reg)
      /\ (reg.block > 0 => reg.block \in 1 .. m)
  BY <1>1, InvIs
<1>3. reg.block > 0 /\ Len(t_stack') = m /\ \A i \in 1 .. m : Same(t_stack'[i], t_stack[i])
  <2>1. CASE T!top.kind = "iter" /\ t_stack' = [t_stack EXCEPT ![T!depth].phase = "called"]
    <3>1. reg.block = m
      BY <1>2, <2>1 DEF After, Made, T!HasBlock, T!top, T!depth
    <3>2. T!top.kind \notin {"yield", "ensure"}
      BY <2>1
    <3> QED
      BY <1>1, <2>1, <3>1, <3>2, MarkSame
  <2>2. CASE reg.block > 0 /\ UNCHANGED t_stack
    BY <2>2, SameAll
  <2> QED
    BY <2>1, <2>2 DEF T!proc_s_new
<1>4. c \in Blks
  BY <1>2, <1>3, LinkedIs
<1>5. proc' = [c EXCEPT !.iter = IF T!iterator_p THEN 2 ELSE 0]
  BY DEF T!proc_s_new, T!ITER_CUR, T!ITER_NOT
<1> HIDE DEF c
<1>6. proc'.iter # 1
  BY <1>4, <1>5 DEF Blks
<1> QED
  BY <1>1, <1>2, <1>3, <1>6, OwnStands

\* Proc#call pushes the block of the Proc.
LEMMA OwnProcCall == ASSUME TagsInv, OwnInv, T!proc_call PROVE OwnInv'
<1> DEFINE m == Len(t_stack)
           n == m + 1
           c == T!Called("proc", t_stack[reg.iter].iter)
           data == [proc EXCEPT !.fiter = IF proc.scope = 0 THEN c.iter ELSE proc.fiter]
           b == [data EXCEPT !.prev = reg.block]
           f == [c EXCEPT !.blk = b, !.phase = "call", !.iter = T!ITER_CUR, !.fiter = T!ITER_CUR, !.titer = n]
<1>1. ~stray /\ m > 0 /\ UNCHANGED <<jump, stray>> /\ TagsInv'
  BY RunsIs, ProcCallKeeps DEF T!proc_call, T!Calls
<1>2. m \in Nat /\ n \in Nat /\ proc \in Blks /\ reg.block \in Nat
  BY <1>1, InvIs, RegIs
<1>3. c \in Acts /\ c.kind = "proc" /\ c.iter \in 0 .. 2
  BY <1>1, CalledIs
<1>4. T!Enter(f) /\ proc' = data
  BY DEF T!proc_call, T!Here, T!depth
<1>5. proc.iter # 1 /\ proc.fiter \in 0 .. 2
  BY <1>1, <1>2, OwnTop, BlkIs
<1> HIDE DEF c
<1>6. data \in Blks /\ data.iter = proc.iter
  <2>1. (IF proc.scope = 0 THEN c.iter ELSE proc.fiter) \in 0 .. 2
    BY <1>3, <1>5
  <2> QED
    BY <1>2, <2>1 DEF Blks
<1> HIDE DEF data
<1>7. b \in Blks /\ b.iter = proc.iter
  BY <1>2, <1>6 DEF Blks
<1> HIDE DEF b
<1>8. f = [c EXCEPT !.blk = b, !.phase = "call", !.iter = 2, !.fiter = 2, !.titer = n]
  BY DEF T!ITER_CUR
<1> HIDE DEF f, n
<1>9. f \in Acts /\ f.kind = "proc" /\ f.iter = 2 /\ f.blk = b
  <2>1. c.given \in Nat /\ c.pend \in Jumps /\ c.name \in Name \cup {"none"} /\ c.tframe \in Nat /\ c.old \in Regs
    BY <1>3, ActIs
  <2>2. c = [kind |-> c.kind, phase |-> c.phase, old |-> c.old, tframe |-> c.tframe, titer |-> c.titer,
             iter |-> c.iter, fiter |-> c.fiter, blk |-> c.blk, given |-> c.given, pend |-> c.pend,
             name |-> c.name]
    BY <1>3 DEF Acts
  <2>3. f = [kind |-> c.kind, phase |-> "call", old |-> c.old, tframe |-> c.tframe, titer |-> n,
             iter |-> 2, fiter |-> 2, blk |-> b, given |-> c.given, pend |-> c.pend, name |-> c.name]
    BY <1>8, <2>2
  <2>4. f \in Acts
    BY <1>2, <1>3, <1>7, <2>1, <2>3 DEF Acts
  <2> QED
    BY <1>3, <2>3, <2>4
<1>10. Says(t_stack, f, n)
  BY <1>5, <1>7, <1>9 DEF Says
<1>11. PICK s \in Seq(Acts) : /\ Len(s) = m /\ t_stack' = Append(s, f)
                              /\ \A j \in 1 .. m : Same(s[j], t_stack[j])
  BY <1>1, <1>4, EnterSame
<1>12. proc'.iter # 1
  BY <1>4, <1>5, <1>6
<1> QED
  BY <1>1, <1>9, <1>10, <1>11, <1>12, OwnEnters DEF n

\* Blocks are entered.
LEMMA OwnYieldBegin == ASSUME TagsInv, OwnInv, T!YieldBegin PROVE OwnInv'
<1> DEFINE m == Len(t_stack)
           n == m + 1
           b == t_stack[reg.block].blk
           a == T!Activation("yield")
           f == [a EXCEPT !.phase = "assign", !.fiter = b.fiter]
           s == IF T!top.phase = "call" THEN [t_stack EXCEPT ![T!depth].phase = "called"] ELSE t_stack
<1>1. ~stray /\ m > 0 /\ reg.block > 0 /\ UNCHANGED <<jump, proc, stray>> /\ TagsInv'
      /\ (T!Evaluates(T!top) \/ T!top.kind = "cfunc" \/ T!top.phase = "call")
  BY RunsIs, YieldBeginKeeps DEF T!YieldBegin
<1>2. /\ m \in Nat /\ reg \in Regs /\ Keeps(t_stack, m) /\ Linked(t_stack, reg) /\ t_stack \in Seq(Acts)
      /\ reg.block \in 1 .. m /\ n - 1 = m
  BY <1>1, InvIs
<1>3. t_stack' = Append(s, f)
  BY DEF T!YieldBegin
<1>4. b.fiter \in 0 .. 2
  BY <1>2, LinkedIs, BlkIs
<1>5. a \in Acts /\ a.kind = "yield" /\ a.old = reg
  BY <1>2, Fresh
<1>6. T!top = t_stack[m] /\ Says(t_stack, T!top, m) /\ proc'.iter # 1
  BY <1>1, OwnTop
<1>7. T!top.kind # "iter"
  BY <1>1, <1>6 DEF Says, T!Evaluates
<1>8. s \in Seq(Acts) /\ Len(s) = m /\ \A i \in 1 .. m : Same(s[i], t_stack[i])
  <2>1. CASE T!top.phase = "call"
    <3>1. s = [t_stack EXCEPT ![T!depth].phase = "called"] /\ T!top.kind \notin {"yield", "ensure"}
      BY <1>2, <1>6, <2>1 DEF Keeps
    <3> HIDE DEF s
    <3> QED
      BY <1>1, <3>1, MarkSame
  <2>2. CASE T!top.phase # "call"
    <3>1. s = t_stack
      BY <2>2
    <3> HIDE DEF s
    <3> QED
      BY <1>2, <3>1, SameAll
  <2> QED
    BY <2>1, <2>2
<1>9. f = [a EXCEPT !.phase = "assign", !.fiter = b.fiter]
  OBVIOUS
<1> HIDE DEF s, a, f, n
<1>10. f \in Acts /\ f.kind = "yield" /\ f.phase = "assign" /\ f.old = reg /\ f.fiter = b.fiter
  BY <1>4, <1>5, <1>9 DEF Acts
<1>11. Says(t_stack, f, n)
  BY <1>2, <1>6, <1>7, <1>10 DEF Says, T!HasIter, T!HasBlock
<1> QED
  BY <1>1, <1>3, <1>6, <1>8, <1>10, <1>11, OwnEnters DEF n

\* The iter of its body is that of where it is written.
LEMMA OwnYieldBody == ASSUME TagsInv, OwnInv, T!YieldBody PROVE OwnInv'
<1> DEFINE n == Len(t_stack)
           r == t_stack[n]
           q == r.old.block
           i == t_stack[q].blk.iter
           f == [r EXCEPT !.phase = "body", !.iter = i, !.tframe = reg.frame, !.titer = n]
<1>1. ~stray /\ n > 0 /\ r.kind = "yield" /\ UNCHANGED <<jump, proc, stray>> /\ TagsInv'
  BY RunsIs, YieldBodyKeeps DEF T!YieldBody, T!top, T!depth
<1>2. /\ n \in Nat /\ r \in Acts /\ Linked(t_stack, reg) /\ t_stack \in Seq(Acts)
      /\ n \in 1 .. n /\ reg.frame \in Nat
  BY <1>1, InvIs
<1>3. t_stack' = [t_stack EXCEPT ![n] = f]
  BY DEF T!YieldBody, T!top, T!depth
<1>4. n \in 2 .. n /\ q \in 1 .. n - 1 /\ T!HasBlock(t_stack[q])
  BY <1>1, <1>2, YieldBlock
<1>5. i \in 0 .. 2 /\ q \in 1 .. n /\ n \in 2 .. n + 1
  <2>1. q \in 1 .. n /\ n \in 2 .. n + 1
    BY <1>2, <1>4
  <2> QED
    BY <1>2, <2>1, LinkedIs, BlkIs
<1>6. Says(t_stack, r, n) /\ Says(t_stack, t_stack[q], q) /\ proc'.iter # 1
  BY <1>1, <1>2, <1>5, OwnTop DEF Owned
<1>7. i # 1
  BY <1>4, <1>6 DEF Says
<1>8. f = [r EXCEPT !.phase = "body", !.iter = i, !.tframe = reg.frame, !.titer = n]
  OBVIOUS
<1> HIDE DEF f, i
<1>9. f \in Acts /\ f.kind = "yield" /\ f.old = r.old /\ f.iter = i /\ f.fiter = r.fiter
  BY <1>1, <1>2, <1>5, <1>8 DEF Acts
<1>10. Says(t_stack, f, n)
  BY <1>1, <1>6, <1>7, <1>9 DEF Says, T!HasBlock, i
<1> HIDE DEF r, q
<1>11. Len(t_stack') = n /\ t_stack'[n] = f /\ \A j \in 1 .. n : j # n => t_stack'[j] = t_stack[j]
  <2>1. LET r0 == [t_stack EXCEPT ![n] = f] IN
        /\ r0 \in Seq(Acts) /\ Len(r0) = n /\ r0[n] = f
        /\ \A j \in 1 .. n : j # n => r0[j] = t_stack[j]
    BY <1>2, <1>9, Changed
  <2> QED
    BY <1>3, <2>1
<1>12. \A j \in 1 .. n - 1 : Same(t_stack'[j], t_stack[j])
  <2>1. \A j \in 1 .. n - 1 : j \in 1 .. n /\ j # n
    BY <1>2
  <2> QED
    BY <1>11, <2>1, SameAll
<1> QED
  BY <1>1, <1>5, <1>6, <1>10, <1>11, <1>12, OwnPuts

-----------------------------------------------------------------------------
\* What is said of blocks holds.
LEMMA OwnInit == T!Init => OwnInv
<1> SUFFICES ASSUME T!Init PROVE OwnInv
  OBVIOUS
<1> DEFINE r == t_stack[1]
<1>1. /\ reg = [frame |-> 1, iter |-> 1, block |-> 0, scope |-> 1, tag |-> 1] /\ proc = T!NoBlk
      /\ t_stack = << [kind |-> "top", phase |-> "body",
                       old |-> [frame |-> 0, iter |-> 0, block |-> 0, scope |-> 0, tag |-> 0],
                       tframe |-> 1, titer |-> 1, iter |-> 0, fiter |-> 0,
                       blk |-> T!NoBlk, given |-> 0, pend |-> T!NoJump, name |-> "none"] >>
  BY DEF T!Init, T!ITER_NOT
<1>2. Len(t_stack) = 1 /\ r.kind = "top" /\ r.iter = 0 /\ r.fiter = 0 /\ r.given = 0
  BY <1>1
<1>3. proc.iter # 1
  BY <1>1 DEF T!NoBlk
<1> HIDE DEF r
<1>4. Says(t_stack, r, 1)
  BY <1>2 DEF Says, T!HasBlock
<1> DEFINE u == After(t_stack, 1)
<1>5. u.frame = 1 /\ u.iter = 1 /\ u.scope = 1
  BY <1>2 DEF After, Made, T!HasFrame, T!HasIter, T!HasScope, r
<1> HIDE DEF u
<1>6. Own(t_stack, u, 1)
  BY <1>2, <1>5 DEF Own, Given, r
<1>7. Owned(t_stack)
  BY <1>2, <1>4, <1>6 DEF Owned, r, u
<1> QED
  BY <1>3, <1>7 DEF OwnInv

\* Every step keeps what is said of blocks.
LEMMA OwnNext == ASSUME TagsInv, OwnInv, T!Next PROVE OwnInv'
<1>1. CASE T!NODE_WHILE \/ T!NODE_RESCUE \/ T!NODE_ENSURE
  BY <1>1, OwnBegin DEF T!NODE_WHILE, T!NODE_RESCUE, T!NODE_ENSURE
<1>2. CASE T!SetupArgs
  BY <1>2, OwnArgs
<1>3. CASE T!NODE_ITER
  BY <1>3, OwnNodeIter
<1>4. CASE T!rb_call("meth", "none") \/ T!rb_call("cfunc", "none") \/ \E n \in Name : T!rb_call("catch", n)
  BY <1>4, OwnRbCall
<1>5. CASE T!NODE_ZSUPER
  BY <1>5, OwnZsuper
<1>6. CASE T!proc_s_new
  BY <1>6, OwnProcNew
<1>7. CASE T!proc_call
  BY <1>7, OwnProcCall
<1>8. CASE T!YieldBegin
  BY <1>8, OwnYieldBegin
<1>9. CASE T!YieldOutOfIterator \/ T!YieldNull \/ T!LandAstray \/ T!Over
  BY <1>9, OwnSame DEF T!YieldOutOfIterator, T!YieldNull, T!LandAstray, T!Over, T!vars
<1>10. CASE T!YieldBody
  BY <1>10, OwnYieldBody
<1>11. CASE T!Ends
  BY <1>11, OwnEnds
<1>12. CASE T!EnsureBegins
  BY <1>12, OwnEnsureBegins
<1>13. CASE \/ T!f_break \/ T!f_next \/ T!f_redo \/ T!f_retry \/ T!NODE_RETURN \/ T!rb_raise
            \/ \E n \in Name : T!f_throw(n)
  <2>1. UNCHANGED <<t_stack, reg, proc, stray>>
    BY <1>13 DEF T!f_break, T!f_next, T!f_redo, T!f_retry, T!NODE_RETURN, T!rb_raise, T!f_throw, T!Jump
  <2> QED
    BY <2>1, OwnSame
<1>14. CASE T!LandIter
  BY <1>14, OwnLandIter
<1>15. CASE T!LandEnsure
  BY <1>15, OwnLandEnsure
<1>16. CASE T!LandTop
  BY <1>16, OwnLandTop
<1>17. CASE T!LandWhile \/ T!LandCall \/ T!LandYield \/ T!LandRescue \/ T!LandCatch \/ T!LandProc
  BY <1>17, OwnLands
<1> QED
  BY <1>1, <1>2, <1>3, <1>4, <1>5, <1>6, <1>7, <1>8, <1>9, <1>10, <1>11, <1>12, <1>13, <1>14, <1>15,
     <1>16, <1>17 DEF T!Next

\* What is said of blocks always holds.
LEMMA OwnHolds == Spec => []OwnInv
<1>1. Init => OwnInv
  BY OwnInit DEF Init
<1>2. TagsInv /\ OwnInv /\ [Next]_vars => OwnInv'
  <2> SUFFICES ASSUME TagsInv, OwnInv, [Next]_vars PROVE OwnInv'
    OBVIOUS
  <2>1. CASE T!Next
    BY <2>1, OwnNext
  <2>2. CASE UNCHANGED tvars
    BY <2>2, OwnSame DEF tvars
  <2> QED
    BY <2>1, <2>2 DEF Next, vars
<1> QED
  BY <1>1, <1>2, TagsHold, PTL DEF Spec

\* In the body of a method, and in the blocks in it, yield and iterator? find the
\* block that the caller wrote behind this very call, however deep the calls are
\* (rb_call(), rb_yield_0(), f_iterator_p() and NODE_ZSUPER, eval.c).
THEOREM ControlYields == Spec => []YieldsOwn
<1>1. TagsInv /\ OwnInv => YieldsOwn
  <2> SUFFICES ASSUME TagsInv, OwnInv, T!Ruby, T!Plain, t_stack[reg.scope].given # T!Unsaid
               PROVE  /\ T!iterator_p <=> t_stack[reg.scope].given > 0
                      /\ T!iterator_p => reg.block = t_stack[reg.scope].given
    BY DEF YieldsOwn, T!YieldsOwn
  <2>1. ~stray /\ Len(t_stack) > 0 /\ T!Evaluates(T!top)
    BY RunsIs DEF T!Ruby
  <2>2. Own(t_stack, reg, Len(t_stack)) /\ T!top = t_stack[Len(t_stack)]
    BY <2>1, OwnTop
  <2>3. Plainly(t_stack, reg, Len(t_stack))
    BY DEF T!Plain, Plainly, T!depth
  <2>4. T!top.kind \notin {"cfunc", "catch", "proc", "iter"}
    BY <2>1 DEF T!Evaluates
  <2>5. Given(t_stack, reg)
    BY <2>2, <2>3, <2>4 DEF Own
  <2> QED
    BY <2>5 DEF Given, T!iterator_p, T!ITER_NOT
<1> QED
  BY <1>1, TagsHold, OwnHolds, PTL

=============================================================================
