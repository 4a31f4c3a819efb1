-------------------------------- MODULE Tags --------------------------------
(***************************************************************************)
(* Jumps in the evaluator, eval.c: break, next, redo, retry, return, raise *)
(* and throw through loops, methods, blocks, rescue, ensure, catch and     *)
(* Procs that may outlive their method.                                    *)
(*                                                                         *)
(* stack holds the C activations that matter, and addresses on the C stack *)
(* are depths in it: a struct tag, FRAME, iter or BLOCK is named by the    *)
(* depth of the activation that keeps it.  Where PUSH and POP restore a    *)
(* global from a local, the local is the field old of the activation, the  *)
(* globals when it began.  What Ruby program runs is left open.            *)
(***************************************************************************)
EXTENDS Naturals, Sequences, FiniteSets

CONSTANTS
  MaxDepth,   \* bound on the number of activations
  MaxEnsure,  \* bound on those with an ensure clause
  Mixes,      \* the sets of constructs that programs are made of
  Name        \* names to throw and catch

VARIABLES
  kinds,      \* the one of Mixes for this program
  stack,
  reg,        \* the_frame, the_iter, the_block, the_scope and prot_tag
  jump,       \* the NODE_TAG that a longjmp() carries, or NoJump
  proc,       \* a Proc: its BLOCK, see Blk, or NoBlk
  stray       \* the_block is wrong: a jump left rb_yield_0() before it had pushed
              \* its tag, or a frame that has no block was taken to have one

vars == <<kinds, stack, reg, jump, proc, stray>>

ITER_NOT == 0
ITER_PRE == 1
ITER_CUR == 2

Tag == {"RETURN", "BREAK", "NEXT", "RETRY", "REDO", "RAISE", "THROW"}

\* in says IN_BLOCK, tlev is nd_tlev.  scope, home and proc say, for the
\* properties, in which method the jump was written, to which NODE_ITER a block
\* belongs that it left, and that it came out of a Proc.
NoJump == [tag |-> "none", in |-> FALSE, tlev |-> 0, name |-> "none",
           scope |-> 0, home |-> 0, proc |-> FALSE]
Raised == [NoJump EXCEPT !.tag = "RAISE"]

\* struct BLOCK.  fiter is frame.iter, and scope is 0 when it is SCOPE_NOSTACK;
\* home is the NODE_ITER the block was written for, 0 when that is over.
NoBlk == [level |-> 0, scope |-> 0, fiter |-> 0, iter |-> 0, prev |-> 0, home |-> 0]

-----------------------------------------------------------------------------
\* Activations.

depth == Len(stack)
top == stack[depth]

\* given is, for the properties, the BLOCK of the call.
Activation(kind) ==
  [kind |-> kind, phase |-> "body", old |-> reg, tframe |-> reg.frame, titer |-> reg.iter,
   iter |-> ITER_NOT, fiter |-> ITER_NOT, blk |-> NoBlk, given |-> 0, pend |-> NoJump,
   name |-> "none"]

\* Which activations keep which structure.
HasTag(r) ==
  \/ r.kind \in {"top", "while", "iter", "meth", "rescue", "catch", "proc"}
  \/ r.kind \in {"yield", "ensure"} /\ r.phase = "body"
HasIter(r) ==
  \/ r.kind \in {"top", "iter", "args", "meth", "cfunc", "catch", "proc"}
  \/ r.kind = "yield" /\ r.phase = "body"
HasFrame(r) == r.kind \in {"top", "meth", "cfunc", "catch", "proc", "yield"}
HasBlock(r) == r.kind \in {"iter", "proc"}
HasScope(r) == r.kind \in {"top", "meth"}

Here == depth + 1

\* The globals after r was pushed at depth d.
Pushed(r, d) ==
  [frame |-> IF HasFrame(r) THEN d ELSE reg.frame,
   iter |-> IF HasIter(r) THEN d ELSE reg.iter,
   block |-> IF HasBlock(r) THEN d ELSE reg.block,
   scope |-> IF HasScope(r) THEN d ELSE reg.scope,
   tag |-> IF HasTag(r) THEN d ELSE reg.tag]

\* A Proc that survives the activations from d on: POP_SCOPE() of its method.
Survives(d) ==
  [proc EXCEPT !.home = IF @ >= d THEN 0 ELSE @, !.scope = IF @ >= d THEN 0 ELSE @]

\* The activation d ends, with the globals regs, and the jump j goes on.
Pop(d, regs, j) ==
  /\ stack' = SubSeq(stack, 1, d - 1)
  /\ reg' = regs /\ jump' = j
  /\ proc' = Survives(d)

Push(r) == stack' = Append(stack, r) /\ reg' = Pushed(r, Here)

iterator_p == stack[reg.frame].fiter # ITER_NOT

\* Where Ruby code is evaluated, and no jump is under way.
Evaluates(r) ==
  \/ r.kind \in {"top", "while", "meth", "args", "rescue", "ensure"}
  \/ r.kind = "yield" /\ r.phase = "body"
Runs == ~stray /\ depth > 0 /\ jump = NoJump
Ruby == Runs /\ Evaluates(top)
\* ... where a method may be called: for a NODE_ITER, or to assign to a block
\* parameter, too.
Calls == Runs /\ (Evaluates(top) \/ (top.kind = "iter" /\ top.phase = "pre")
                                 \/ (top.kind = "yield" /\ top.phase = "assign"))

-----------------------------------------------------------------------------
\* Constructs begin.

Begin(kind) ==
  /\ Ruby /\ depth < MaxDepth /\ kind \in kinds
  /\ Push(Activation(kind))
  /\ UNCHANGED <<kinds, jump, proc, stray>>

NODE_WHILE == Begin("while")
NODE_RESCUE == Begin("rescue")
NODE_ENSURE ==
  /\ Cardinality({n \in 1..depth : stack[n].kind = "ensure"}) < MaxEnsure
  /\ Begin("ensure")

\* SETUP_ARGS() between PUSH_ITER(ITER_NOT) and POP_ITER().
SetupArgs ==
  /\ Calls /\ top.kind # "args" /\ depth < MaxDepth /\ "args" \in kinds
  /\ Push(Activation("args"))
  /\ UNCHANGED <<kinds, jump, proc, stray>>

\* PUSH_BLOCK(), PUSH_TAG() and PUSH_ITER(ITER_PRE) on the globals regs, at d.
IterAt(d, regs) ==
  [Activation("iter") EXCEPT
     !.phase = "pre", !.old = regs, !.tframe = regs.frame, !.titer = regs.iter,
     !.iter = ITER_PRE,
     !.blk = [NoBlk EXCEPT !.level = regs.tag, !.scope = regs.scope, !.prev = regs.block,
                           !.fiter = stack[regs.frame].fiter, !.iter = stack[regs.iter].iter,
                           !.home = d]]

NODE_ITER ==
  /\ Ruby /\ depth + 1 < MaxDepth
  /\ Push(IterAt(Here, reg))
  /\ UNCHANGED <<kinds, jump, proc, stray>>

\* Mutant: calls in a method that has a block get it, too.
Itr_cur(i) == IF i = ITER_NOT THEN ITER_NOT ELSE ITER_CUR

\* rb_call() from the_iter = i: the frame has a block to yield to after ITER_PRE.
Itr(i) == IF i = ITER_PRE THEN ITER_CUR ELSE ITER_NOT

\* Ruby code in which yield means the block of the method around it.  In a Proc
\* it is the block of the method that calls it, and in the arguments of a call
\* that has a block it is that block.
Plain ==
  /\ reg.scope > 0
  /\ \A n \in reg.scope..depth :
       stack[n].kind # "proc" /\ ~(stack[n].kind = "args" /\ stack[n - 1].kind = "iter")

Unsaid == MaxDepth + 1

Called(kind, i) ==
  LET d == Here IN
  [Activation(kind) EXCEPT
     !.iter = Itr(i), !.fiter = Itr(i), !.tframe = d, !.titer = d,
     !.given = IF top.kind = "iter" THEN depth
               ELSE IF i # ITER_PRE THEN 0
               ELSE IF Plain THEN stack[reg.scope].given ELSE Unsaid]

\* A NODE_ITER has made its call when an activation is pushed on it.
Enter(r) ==
  /\ stack' = Append(IF top.kind = "iter" THEN [stack EXCEPT ![depth].phase = "called"]
                     ELSE stack, r)
  /\ reg' = Pushed(r, Here)

\* Methods in Ruby, in C, and catch.
rb_call(kind, name) ==
  /\ Calls /\ kind \in kinds
  /\ depth < MaxDepth - (IF kind = "catch" THEN 1 ELSE 0)
  /\ Enter([Called(kind, stack[reg.iter].iter) EXCEPT
             !.name = name, !.phase = IF kind = "catch" THEN "call" ELSE "body"])
  /\ UNCHANGED <<kinds, jump, proc, stray>>

\* super hands on the block of the method it is in.
NODE_ZSUPER ==
  /\ Ruby /\ depth < MaxDepth /\ reg.scope # 1 /\ "meth" \in kinds
  /\ Enter(Called("meth", IF stack[reg.iter].iter = ITER_NOT THEN ITER_NOT ELSE ITER_PRE))
  /\ UNCHANGED <<kinds, jump, proc, stray>>

\* proc { }, which is a NODE_ITER and a call, and Proc.new for the block of the
\* method it is in.
proc_s_new ==
  /\ Calls /\ "proc" \in kinds
  /\ \/ /\ top.kind = "iter"
        /\ stack' = [stack EXCEPT ![depth].phase = "called"]
     \/ /\ Ruby /\ iterator_p /\ reg.block > 0
        /\ UNCHANGED stack
  /\ proc' = [stack[reg.block].blk EXCEPT !.iter = IF iterator_p THEN ITER_CUR ELSE ITER_NOT]
  /\ UNCHANGED <<kinds, reg, jump, stray>>

\* Proc#call.  PUSH_BLOCK2() puts the block of the caller behind the Proc's own;
\* the frame of an orphan has a block if the call has one.
proc_call ==
  /\ Calls /\ proc # NoBlk /\ depth + 1 < MaxDepth
  /\ LET r == Called("proc", stack[reg.iter].iter)
         data == [proc EXCEPT !.fiter = IF proc.scope = 0 THEN r.iter ELSE @]
     IN
     /\ Enter([r EXCEPT !.blk = [data EXCEPT !.prev = reg.block], !.phase = "call",
                        !.iter = ITER_CUR, !.fiter = ITER_CUR, !.titer = Here])
     /\ proc' = data
  /\ UNCHANGED <<kinds, jump, stray>>

-----------------------------------------------------------------------------
\* Blocks are entered.

\* rb_yield_0() up to the assignment of the block's parameters.
YieldBegin ==
  /\ Runs /\ depth < MaxDepth
  /\ Evaluates(top) \/ top.kind = "cfunc" \/ top.phase = "call"
  /\ iterator_p /\ reg.block > 0
  /\ LET b == stack[reg.block].blk
         r == [Activation("yield") EXCEPT !.phase = "assign", !.fiter = b.fiter]
     IN
     /\ stack' = Append(IF top.phase = "call" THEN [stack EXCEPT ![depth].phase = "called"]
                        ELSE stack, r)
     /\ reg' = [reg EXCEPT !.frame = Here, !.scope = b.scope, !.block = b.prev]
  /\ UNCHANGED <<kinds, jump, proc, stray>>

YieldOutOfIterator ==
  /\ Runs /\ ~iterator_p
  /\ Evaluates(top) \/ top.kind = "cfunc" \/ top.phase = "call"
  /\ jump' = Raised
  /\ UNCHANGED <<kinds, stack, reg, proc, stray>>

YieldNull ==
  /\ Runs /\ iterator_p /\ reg.block = 0
  /\ Evaluates(top) \/ top.kind = "cfunc" \/ top.phase = "call"
  /\ stray' = TRUE
  /\ UNCHANGED <<kinds, stack, reg, jump, proc>>

\* PUSH_ITER(block->iter) and PUSH_TAG(): the body begins.
YieldBody ==
  /\ Runs /\ top.kind = "yield" /\ top.phase = "assign"
  /\ stack' = [stack EXCEPT ![depth] =
                 [@ EXCEPT !.phase = "body", !.iter = stack[top.old.block].blk.iter,
                           !.tframe = reg.frame, !.titer = depth]]
  /\ reg' = [reg EXCEPT !.iter = depth, !.tag = depth]
  /\ UNCHANGED <<kinds, jump, proc, stray>>

-----------------------------------------------------------------------------
\* Constructs come to their end.

\* POP_BLOCK(): what the_block is by now, whoever pushed it.
POP_BLOCK(regs) == [regs EXCEPT !.block = stack[regs.block].blk.prev]
tag_level(regs) == stack[regs.block].blk.level

\* The globals after the POPs of the activation r, from the globals regs.
Popped(r, regs) ==
  CASE r.kind \in {"while", "rescue"} -> [regs EXCEPT !.tag = r.old.tag]
    [] r.kind = "ensure" -> regs
    [] r.kind = "args" -> [regs EXCEPT !.iter = r.old.iter]
    [] r.kind = "iter" -> POP_BLOCK([regs EXCEPT !.iter = r.old.iter, !.tag = r.old.tag])
    [] r.kind = "meth" -> [r.old EXCEPT !.block = regs.block]
    [] r.kind \in {"cfunc", "catch"} -> [r.old EXCEPT !.block = regs.block, !.scope = regs.scope]
    [] r.kind = "proc" ->
         POP_BLOCK([r.old EXCEPT !.block = regs.block, !.scope = regs.scope])
    [] r.kind = "yield" -> r.old

\* The body was evaluated: the construct returns.
Ends ==
  /\ Runs /\ depth > 1
  /\ \/ top.kind \in {"while", "rescue", "args", "meth", "cfunc"}
     \/ top.kind \in {"iter", "catch", "proc"} /\ top.phase = "called"
     \/ top.kind = "yield" /\ top.phase = "body"
     \/ top.kind = "ensure" /\ top.phase = "clause"
  /\ Pop(depth, Popped(top, reg), top.pend)
  /\ UNCHANGED <<kinds, stray>>

\* Mutant: the tag is popped when the clause is over.
Clause_tagged(d, regs, pend) ==
  /\ stack' = [SubSeq(stack, 1, d) EXCEPT ![d].phase = "clause", ![d].pend = pend]
  /\ reg' = regs
  /\ jump' = NoJump
  /\ UNCHANGED proc

\* The ensure clause begins, after the body or a jump out of it: POP_TAG().
Clause(d, regs, pend) ==
  /\ stack' = [SubSeq(stack, 1, d) EXCEPT ![d].phase = "clause", ![d].pend = pend]
  /\ reg' = [regs EXCEPT !.tag = stack[d].old.tag]
  /\ jump' = NoJump
  /\ UNCHANGED proc

EnsureBegins ==
  /\ Runs /\ top.kind = "ensure" /\ top.phase = "body"
  /\ Clause(depth, reg, NoJump)
  /\ UNCHANGED <<kinds, stray>>

-----------------------------------------------------------------------------
\* JUMP_TAG()

Jump(tag, name) ==
  /\ jump' = [NoJump EXCEPT !.tag = tag, !.name = name, !.scope = reg.scope]
  /\ UNCHANGED <<kinds, stack, reg, proc, stray>>

f_break == Ruby /\ Jump("BREAK", "none")
f_next == Ruby /\ Jump("NEXT", "none")
f_redo == Ruby /\ Jump("REDO", "none")
f_retry == Ruby /\ Jump("RETRY", "none")
NODE_RETURN == Ruby /\ Jump("RETURN", "none")
f_throw(name) == Ruby /\ Jump("THROW", name)
rb_raise == (Calls \/ (Runs /\ top.kind = "cfunc")) /\ Jump("RAISE", "none")

\* Where longjmp() ends, and the globals it restores.
prot_tag == reg.tag
at == stack[prot_tag]
landed == [reg EXCEPT !.frame = at.tframe, !.iter = at.titer]

\* An activation above that changed the_block and the_scope and has no tag to
\* restore them leaves them astray.
Lost == \E n \in (prot_tag + 1)..depth : stack[n].kind = "yield" /\ stack[n].phase = "assign"

Lands(kind) ==
  ~stray /\ depth > 0 /\ jump # NoJump /\ at.kind = kind /\ ~Lost /\ UNCHANGED <<kinds, stray>>

LandAstray ==
  /\ ~stray /\ depth > 0 /\ jump # NoJump /\ Lost
  /\ stray' = TRUE
  /\ UNCHANGED <<kinds, stack, reg, jump, proc>>

Stays(r, regs) ==
  /\ stack' = Append(SubSeq(stack, 1, prot_tag - 1), r)
  /\ reg' = regs /\ jump' = NoJump
  /\ proc' = Survives(prot_tag + 1)

LandWhile ==
  /\ Lands("while")
  /\ IF jump.tag \in {"REDO", "NEXT"} THEN Stays(at, landed)
     ELSE Pop(prot_tag, Popped(at, landed), IF jump.tag = "BREAK" /\ ~jump.in THEN NoJump ELSE jump)

\* Mutant: any break out of a block is taken.
LandIter_any ==
  /\ Lands("iter")
  /\ LET regs == Popped(at, landed) IN
       IF jump.tag = "BREAK" /\ jump.in THEN Pop(prot_tag, regs, NoJump)
       ELSE Pop(prot_tag, regs, jump)

\* The tag level of the block tells whose break or return it is.
LandIter ==
  /\ Lands("iter")
  /\ LET regs == Popped(at, landed)
         mine == jump.in /\ jump.tlev = tag_level(landed)
     IN
     CASE jump.tag = "RETRY" ->
            LET r == IterAt(prot_tag, regs) IN
              /\ stack' = Append(SubSeq(stack, 1, prot_tag - 1), r)
              /\ reg' = [regs EXCEPT !.iter = prot_tag, !.block = prot_tag, !.tag = prot_tag]
              /\ jump' = NoJump /\ proc' = Survives(prot_tag)
       [] jump.tag = "BREAK" /\ mine -> Pop(prot_tag, regs, NoJump)
       [] jump.tag = "RETURN" /\ mine -> Pop(prot_tag, regs, [jump EXCEPT !.in = FALSE])
       [] OTHER -> Pop(prot_tag, regs, jump)

LandCall ==
  /\ Lands("meth")
  /\ CASE jump.tag \in {"NEXT", "REDO"} -> Pop(prot_tag, Popped(at, landed), Raised)
       [] jump.tag = "BREAK" /\ ~jump.in -> Pop(prot_tag, Popped(at, landed), Raised)
       [] jump.tag = "RETURN" /\ ~jump.in -> Pop(prot_tag, Popped(at, landed), NoJump)
       [] jump.tag = "RETRY" /\ at.fiter = ITER_NOT -> Pop(prot_tag, Popped(at, landed), Raised)
       [] OTHER -> Pop(prot_tag, Popped(at, landed), jump)

\* Mutant: the_block stays the one behind the block.
LandYield_block ==
  /\ Lands("yield")
  /\ LET b == stack[at.old.block].blk
         regs == [at.old EXCEPT !.block = landed.block]
     IN
     CASE jump.tag = "REDO" -> Stays(at, landed)
       [] jump.tag = "NEXT" -> Pop(prot_tag, regs, NoJump)
       [] jump.tag \in {"BREAK", "RETURN"} /\ ~jump.in ->
            Pop(prot_tag, regs, [jump EXCEPT !.in = TRUE, !.tlev = b.level, !.home = b.home])
       [] OTHER -> Pop(prot_tag, regs, jump)

LandYield ==
  /\ Lands("yield")
  /\ LET b == stack[at.old.block].blk IN
     CASE jump.tag = "REDO" -> Stays(at, landed)
       [] jump.tag = "NEXT" -> Pop(prot_tag, at.old, NoJump)
       [] jump.tag \in {"BREAK", "RETURN"} /\ ~jump.in ->
            Pop(prot_tag, at.old, [jump EXCEPT !.in = TRUE, !.tlev = b.level, !.home = b.home])
       [] OTHER -> Pop(prot_tag, at.old, jump)

\* A rescue clause takes it or not; the clause has a tag of its own.
LandRescue ==
  /\ Lands("rescue")
  /\ \/ /\ at.phase = "body" /\ jump.tag = "RAISE"
        /\ Stays([at EXCEPT !.phase = "clause"], landed)
     \/ /\ at.phase = "clause" /\ jump.tag = "RETRY"
        /\ Stays([at EXCEPT !.phase = "body"], landed)
     \/ /\ ~(at.phase = "clause" /\ jump.tag = "RETRY")
        /\ Pop(prot_tag, Popped(at, landed), jump)

LandEnsure ==
  /\ Lands("ensure")
  /\ Clause(prot_tag, landed, jump)

LandCatch ==
  /\ Lands("catch")
  /\ Pop(prot_tag, Popped(at, landed), IF jump.tag = "THROW" /\ jump.name = at.name THEN NoJump ELSE jump)

\* An orphan's jumps are errors, and those of other Procs go on as if they had
\* been made by the caller of Proc#call.
LandProc ==
  /\ Lands("proc")
  /\ LET regs == Popped(at, landed)
         mine == jump.tlev = tag_level(landed)
         orphan == at.blk.scope = 0
     IN
     CASE orphan /\ (jump.tag = "RETRY" \/ (jump.tag \in {"BREAK", "RETURN"} /\ mine)) ->
            Pop(prot_tag, regs, Raised)
       [] ~orphan /\ mine -> Pop(prot_tag, regs, [jump EXCEPT !.in = FALSE, !.proc = TRUE])
       [] OTHER -> Pop(prot_tag, regs, jump)

\* ruby_run() reports the jump and exits.
LandTop ==
  /\ Lands("top")
  /\ Pop(1, reg, NoJump)

\* The program is over.
Over ==
  /\ stray \/ depth = 0 \/ (jump = NoJump /\ depth = 1)
  /\ UNCHANGED vars

-----------------------------------------------------------------------------
Init ==
  /\ reg = [frame |-> 1, iter |-> 1, block |-> 0, scope |-> 1, tag |-> 1]
  /\ stack = << [kind |-> "top", phase |-> "body",
                 old |-> [frame |-> 0, iter |-> 0, block |-> 0, scope |-> 0, tag |-> 0],
                 tframe |-> 1, titer |-> 1, iter |-> ITER_NOT, fiter |-> ITER_NOT,
                 blk |-> NoBlk, given |-> 0, pend |-> NoJump, name |-> "none"] >>
  /\ jump = NoJump /\ proc = NoBlk /\ stray = FALSE /\ kinds \in Mixes

Next ==
  \/ NODE_WHILE \/ NODE_RESCUE \/ NODE_ENSURE \/ SetupArgs \/ NODE_ITER
  \/ rb_call("meth", "none") \/ rb_call("cfunc", "none")
  \/ \E n \in Name : rb_call("catch", n)
  \/ NODE_ZSUPER \/ proc_s_new \/ proc_call
  \/ YieldBegin \/ YieldOutOfIterator \/ YieldNull \/ YieldBody
  \/ Ends \/ EnsureBegins
  \/ f_break \/ f_next \/ f_redo \/ f_retry \/ NODE_RETURN \/ rb_raise
  \/ \E n \in Name : f_throw(n)
  \/ LandWhile \/ LandIter \/ LandCall \/ LandYield \/ LandRescue \/ LandEnsure
  \/ LandCatch \/ LandProc \/ LandTop \/ LandAstray
  \/ Over

Spec == Init /\ [][Next]_vars

-----------------------------------------------------------------------------
\* Every variable keeps its type, and the globals name activations that are
\* there and have what is looked for in them.
TypeOK ==
  /\ depth <= MaxDepth
  /\ jump.tag \in Tag \cup {"none"} /\ jump.in \in BOOLEAN /\ jump.tlev \in 0..MaxDepth
  /\ proc.level \in 0..MaxDepth /\ proc.scope \in 0..depth /\ proc.home \in 0..depth
  /\ depth > 0 /\ jump = NoJump /\ ~stray =>
       /\ HasTag(stack[reg.tag]) /\ HasFrame(stack[reg.frame]) /\ HasIter(stack[reg.iter])
       /\ reg.block = 0 \/ HasBlock(stack[reg.block])
       /\ reg.scope = 0 \/ HasScope(stack[reg.scope])

\* What the globals should be after the first n activations.
View ==
  LET v[n \in 0..depth] ==
        IF n = 0 THEN [frame |-> 0, iter |-> 0, block |-> 0, scope |-> 0, tag |-> 0]
        ELSE LET r == stack[n]
                 u == v[n - 1]
             IN  [frame |-> IF HasFrame(r) THEN n ELSE u.frame,
                  iter |-> IF HasIter(r) THEN n ELSE u.iter,
                  tag |-> IF HasTag(r) THEN n ELSE u.tag,
                  block |-> IF HasBlock(r) THEN n
                            ELSE IF r.kind = "yield" THEN v[u.block - 1].block ELSE u.block,
                  scope |-> IF HasScope(r) THEN n
                            ELSE IF r.kind = "yield" THEN stack[u.block].blk.scope
                            ELSE u.scope]
  IN  v

\* However a construct was left, by its end or by a jump that others handed on,
\* the evaluator goes on with the frame, the iter, the block, the scope and the
\* tag of the innermost activation that is left.
Restored == (jump = NoJump /\ ~stray) => (depth = 0 \/ reg = View[depth])

\* In the body of a method, and in the blocks in it, yield and iterator? find
\* the block that the caller wrote behind this very call, however many calls
\* with and without blocks are under way, where it is Plain.
YieldsOwn ==
  (Ruby /\ Plain /\ stack[reg.scope].given # Unsaid) =>
    /\ iterator_p <=> stack[reg.scope].given > 0
    /\ iterator_p => reg.block = stack[reg.scope].given

\* A break out of a block ends the call that the block is written for, and a
\* return the method it is written in, through every block, ensure clause and
\* C function between.
JumpsHome ==
  [][/\ (LandIter /\ jump.tag = "BREAK" /\ jump' = NoJump) => jump.home = prot_tag
     /\ (LandCall /\ jump.tag = "RETURN" /\ jump' = NoJump)
          => jump.proc \/ jump.scope = prot_tag]_vars

=============================================================================
