------------------------------- MODULE Regex -------------------------------
(***************************************************************************)
(* regex.c: a pattern is compiled to a program for a small machine, the    *)
(* program is walked once to find the characters a match can begin with    *)
(* (the fastmap), and the machine runs at each position of the text the    *)
(* fastmap does not rule out.                                              *)
(*                                                                         *)
(* Characters are one-character strings.  A command of the program, which  *)
(* takes one to 35 bytes in the code, is one cell; jumps are relative to   *)
(* the cell they are in, as in the code they are to the byte after them.   *)
(* The syntax is the one re.c:849 chooses.  Multi-byte characters are left *)
(* out, and so is the growth of the buffers.                               *)
(***************************************************************************)
EXTENDS Integers, Sequences, SequencesExt, FiniteSets, FiniteSetsExt, TLC

CONSTANTS
  Subjects,     \* what to compile: [re, pat, fold], see Ends for re
  Texts,        \* what to search
  MaxNest,      \* how many groups may be open at a time (10 in the code)
  MaxExact,     \* characters in one exactn (127 in the code)
  DupMax,       \* RE_DUP_MAX
  MaxFailures   \* re_max_failures

VARIABLES
  subject,      \* the pattern, and whether it is compiled with translate
  at,           \* what is running, and what it returned
  buf,          \* bufp->buffer
  comp,         \* the locals of re_compile_pattern()
  walk,         \* those of re_compile_fastmap(), fastmap and can_be_null
  text, startpos,
  m             \* the locals of re_match()
revars == <<subject, at, buf, comp, walk, text, startpos, m>>

-----------------------------------------------------------------------------
(* Characters *)

\* In the order of their codes.  "^A" stands for those only \x and \0 can name.
Codes == <<"^A", "\n", " ", "-", "1", "A", "a", "b", "x">>
Char  == ToSet(Codes)
Code(c) == IF c \in Char THEN CHOOSE i \in 1..Len(Codes) : Codes[i] = c ELSE Len(Codes) + 1
Word  == {"1", "A", "a", "b", "x"}
Space == {" ", "\n"}
Digit == {"1"}
DigitValue == ("0" :> 0) @@ ("1" :> 1) @@ ("2" :> 2) @@ ("3" :> 3)
Repeats == {"*", "+", "?"}
Empty == [op |-> "none"]

\* translate[], the table of small letters, when there is one
translate(c) == IF subject.fold /\ c = "A" THEN "a" ELSE c

pattern == subject.pat
Raw(i) == IF i \in 1..Len(pattern) THEN pattern[i] ELSE ""
Fetched(i) == translate(Raw(i))                                  \* PATFETCH
Escaped == Fetched(comp.p) = "\\"

\* GET_UNSIGNED_NUMBER from i on: the number, -1 if there is none, and the
\* first place behind it.
Number(i) ==
  LET q == Min({j \in i..Len(pattern) + 1 : Raw(j) \notin DOMAIN DigitValue})
  IN  [q |-> q,
       n |-> IF q = i THEN -1
             ELSE FoldLeft(LAMBDA a, c : 10 * a + DigitValue[c], 0, SubSeq(pattern, i, q - 1))]

-----------------------------------------------------------------------------
(* re_compile_pattern *)

b == Len(buf) + 1
Cell(op) == [op |-> op]
Jump(op, off) == [op |-> op, off |-> off]
Count(op, off, n) == [op |-> op, off |-> off, n |-> n]
Mem(op, r) == [op |-> op, r |-> r]
Cls(op, set) == [op |-> op, set |-> set]
IsOp(i, ops) == i \in 1..Len(buf) /\ buf[i].op \in ops

\* store_jump() into the cell left for it, if one was
Fixup(code, to) ==
  IF comp.fix = 0 THEN code ELSE [code EXCEPT ![comp.fix] = Jump("jump", to - comp.fix)]

Compiling == at.in = "compile" /\ comp.p <= Len(pattern)
Compiled(code, c) ==
  buf' = code /\ comp' = c /\ UNCHANGED <<subject, at, walk, text, startpos, m>>
Refuse(err) ==
  at' = [in |-> "error", val |-> err] /\ UNCHANGED <<subject, buf, comp, walk, text, startpos, m>>
\* A command that is an operand, and one that is none.
Operand(cell, p)  == Compiled(Append(buf, cell), [comp EXCEPT !.p = p, !.last = b])
NoOperand(cell, p) == Compiled(Append(buf, cell), [comp EXCEPT !.p = p])

\* normal_char and numeric_char: c, and p is behind it.
NormalChar(c, p) ==
  IF \/ comp.pend = 0 \/ comp.pend # Len(buf)
     \/ Len(buf[comp.pend].s) >= MaxExact
     \/ Raw(p) \in Repeats \cup {"^", "{"}
  THEN Compiled(Append(buf, [op |-> "exactn", s |-> <<c>>]),
                [comp EXCEPT !.p = p, !.last = b, !.pend = b])
  ELSE Compiled([buf EXCEPT ![comp.pend].s = Append(@, c)], [comp EXCEPT !.p = p])

Dollar ==
  LET RECURSIVE Past(_)
      Past(i) == IF Raw(i) = "\\" /\ Raw(i + 1) \in {"b", "B"} THEN Past(i + 2) ELSE i
  IN  /\ Compiling /\ Fetched(comp.p) = "$"
      /\ IF Raw(Past(comp.p + 1)) \in {"", "\n", ")", "|"}
         THEN NoOperand(Cell("endline"), comp.p + 1)
         ELSE NormalChar("$", comp.p + 1)

Hat ==
  /\ Compiling /\ Fetched(comp.p) = "^"
  /\ IF comp.last # 0 THEN Refuse("invalid") ELSE NoOperand(Cell("begline"), comp.p + 1)

\* A run of them is collapsed into one.
Repeat ==
  /\ Compiling /\ Fetched(comp.p) \in Repeats
  /\ IF comp.last = 0 THEN Refuse("invalid")
     ELSE LET q    == Min({j \in comp.p..Len(pattern) + 1 : Raw(j) \notin Repeats})
              run  == {Raw(j) : j \in comp.p..q - 1}
              zero == run # {"+"}
              many == run # {"?"}
              l    == comp.last
              back == IF many THEN Append(buf, Jump("maybe_finalize_jump", l - 1 - b)) ELSE buf
              loop == InsertAt(back, l, Jump("on_failure_jump", Len(back) + 2 - l))
          IN  Compiled(IF zero THEN loop ELSE InsertAt(loop, l, Jump("dummy_failure_jump", 2)),
                       [comp EXCEPT !.p = q, !.pend = 0])

AnyChar == Compiling /\ Fetched(comp.p) = "." /\ Operand(Cell("anychar"), comp.p + 1)

ClassOf ==
  ("w" :> Word) @@ ("W" :> Char \ Word) @@ ("s" :> Space) @@ ("S" :> Char \ Space)
  @@ ("d" :> Digit) @@ ("D" :> Char \ Digit)

\* The characters and ranges of a list: p is the next character, last the
\* beginning of a range that waits for its end.
RECURSIVE List(_, _, _, _)
List(p, p0, last, set) ==
  LET esc == Fetched(p) = "\\"
      c   == IF esc THEN Fetched(p + 1) ELSE Fetched(p)
      q   == IF esc THEN p + 2 ELSE p + 1
  IN  IF p > Len(pattern) \/ (esc /\ p = Len(pattern)) THEN [err |-> "premature", p |-> p, set |-> set]
      ELSE IF ~esc /\ c = "]" /\ p # p0 THEN [err |-> "", p |-> p + 1, set |-> set]
      ELSE IF esc /\ c \in DOMAIN ClassOf
           THEN List(q, p0, IF last = "" THEN "" ELSE "none", set \cup ClassOf[c])
      ELSE IF last # ""
           THEN IF last = "none" \/ Code(last) > Code(c) THEN [err |-> "invalid", p |-> p, set |-> set]
                ELSE List(q, p0, "", set \cup {x \in Char : Code(x) \in Code(last)..Code(c)})
      ELSE IF Raw(q) = "-" /\ Raw(q + 1) # "]" THEN List(q + 1, p0, c, set)
      ELSE List(q, p0, "", set \cup ({c} \cap Char))

Bracket ==
  /\ Compiling /\ Fetched(comp.p) = "["
  /\ IF comp.p = Len(pattern) THEN Refuse("invalid")
     ELSE LET not == Raw(comp.p + 1) = "^"
              p0  == comp.p + IF not THEN 2 ELSE 1
              l   == List(p0, p0, "", {})
          IN  IF l.err # "" THEN Refuse(l.err)
              ELSE Operand(Cls(IF not THEN "charset_not" ELSE "charset", l.set), l.p)

\* The regnum in front of the limit of a byte is left out: MaxNest comes first.
Open ==
  /\ Compiling /\ Fetched(comp.p) = "("
  /\ IF Len(comp.stk) = MaxNest THEN Refuse("nesting")
     ELSE Compiled(Append(buf, Mem("start_memory", comp.num)),
                   [comp EXCEPT !.p = @ + 1, !.fix = 0, !.last = 0, !.beg = b + 1, !.num = @ + 1,
                                !.stk = Append(@, [b |-> b, fix |-> comp.fix, num |-> comp.num,
                                                   beg |-> comp.beg])])

Close ==
  /\ Compiling /\ Fetched(comp.p) = ")"
  /\ IF comp.stk = <<>> THEN Refuse("close")
     ELSE LET t == Last(comp.stk)
          IN  Compiled(Append(Fixup(buf, b), Mem("stop_memory", t.num)),
                       [comp EXCEPT !.p = @ + 1, !.stk = Front(@), !.beg = t.beg, !.fix = t.fix,
                                    !.last = t.b])

Bar ==
  /\ Compiling /\ Fetched(comp.p) = "|"
  /\ LET ins == InsertAt(buf, comp.beg, Jump("on_failure_jump", b + 2 - comp.beg))
     IN  Compiled(Append(Fixup(ins, b + 1), Jump("jump", 0)),
                  [comp EXCEPT !.p = @ + 1, !.pend = 0, !.fix = b + 1, !.last = 0, !.beg = b + 2])

\* What {n}, {n,} and {n,m} can follow
Countable ==
  \/ IsOp(comp.last, {"anychar", "charset", "charset_not", "wordchar", "notwordchar",
                      "start_memory", "duplicate"})
  \/ IsOp(comp.last, {"exactn"}) /\ Len(buf[comp.last].s) = 1

\* Its bounds and the place behind it, or ok = FALSE: then it is literal.
Interval ==
  LET lo == Number(comp.p + 1)
      up == Number(lo.q + 1)
      comma == Raw(lo.q) = ","
      q  == IF comma THEN up.q ELSE lo.q
      hi == IF ~comma THEN lo.n ELSE IF up.n < 0 THEN DupMax ELSE up.n
  IN  [ok |-> Raw(q) = "}" /\ lo.n >= 0 /\ hi <= DupMax /\ lo.n <= hi /\ Raw(q + 1) # "{",
       lo |-> lo.n, hi |-> hi, p |-> q + 1]

\* insert_jump_n(), insert_op_2() and store_jump_n(): the loop is entered through
\* set_number_at cells, which give the two counters in the program their values.
Counted(code, l, lo, hi) ==
  LET skip == Len(code) + (IF hi = 1 THEN 2 ELSE 3) - l
      once == InsertAt(InsertAt(code, l, Count("succeed_n", skip, lo)), l, Count("set_number_at", 1, lo))
      e    == Len(once) + 1
  IN  IF hi = 0 THEN InsertAt(code, l, Jump("jump", Len(code) + 2 - l))
      ELSE IF hi = 1 THEN once
      ELSE InsertAt(Append(once, Count("jump_n", l + 1 - e, hi - 1)), l,
                    Count("set_number_at", e + 1 - l, hi - 1))
           \o <<Count("set_number_at", -1, hi - 1)>>

Brace ==
  /\ Compiling /\ Fetched(comp.p) = "{"
  /\ IF comp.last = 0 THEN Refuse("invalid")
     ELSE IF ~Countable \/ ~Interval.ok THEN NormalChar("{", comp.p + 1)
     ELSE Compiled(Counted(buf, comp.last, Interval.lo, Interval.hi),
                   [comp EXCEPT !.p = Interval.p, !.pend = 0])

\* \s \d \w and the like, and what stands for no character
EscapeClass ==
  /\ Compiling /\ Escaped
  /\ LET c == Raw(comp.p + 1)
     IN  \/ c \in {"s", "d"} /\ Operand(Cls("charset", ClassOf[c]), comp.p + 2)
         \/ c = "S" /\ Operand(Cls("charset_not", ClassOf["s"]), comp.p + 2)
         \/ c = "D" /\ Operand(Cls("charset_not", ClassOf["d"]), comp.p + 2)
         \/ c = "w" /\ Operand(Cell("wordchar"), comp.p + 2)
         \/ c = "W" /\ Operand(Cell("notwordchar"), comp.p + 2)
         \/ c = "b" /\ NoOperand(Cell("wordbound"), comp.p + 2)
         \/ c = "B" /\ NoOperand(Cell("notwordbound"), comp.p + 2)

\* \1: a group that is closed, or a character in octal.  The character behind
\* the number is read to find its end, and put back unless it is the last.
EscapeDigit ==
  LET i == comp.p + 1
      n == Number(i)
      p == IF n.q >= Len(pattern) THEN Len(pattern) + 1 ELSE n.q
      c == IF n.q > Len(pattern) THEN Last(pattern) ELSE Fetched(n.q)
  IN  /\ Compiling /\ Escaped /\ Raw(i) \in DOMAIN DigitValue
      /\ IF Raw(i) = "0" \/ n.n >= comp.num
         THEN NormalChar("^A", Min({n.q, i + IF Raw(i) = "0" THEN 4 ELSE 3}))
         ELSE IF \E t \in ToSet(comp.stk) : t.num = n.n THEN NormalChar(c, p)
         ELSE Operand(Mem("duplicate", n.n), p)

\* \x and at most two digits
EscapeHex ==
  /\ Compiling /\ Escaped /\ Raw(comp.p + 1) = "x"
  /\ NormalChar("^A", Min({j \in comp.p + 2..comp.p + 4 :
                             j = comp.p + 4 \/ Raw(j) \notin DOMAIN DigitValue \cup {"A", "a", "b"}}))

EscapeOther ==
  /\ Compiling /\ Escaped
  /\ LET c == Raw(comp.p + 1)
     IN  IF c = "" THEN Refuse("invalid")
         ELSE /\ c \notin DOMAIN ClassOf \cup DOMAIN DigitValue \cup {"b", "B", "x"}
              /\ NormalChar(c, comp.p + 2)

Ordinary ==
  /\ Compiling
  /\ Fetched(comp.p) \notin Repeats \cup {"$", "^", ".", "[", "(", ")", "|", "{", "\\"}
  /\ NormalChar(Fetched(comp.p), comp.p + 1)

CompileEnds ==
  /\ at.in = "compile" /\ comp.p = Len(pattern) + 1
  /\ IF comp.stk # <<>> THEN Refuse("open")
     ELSE /\ buf' = Fixup(buf, b)
          /\ at' = [in |-> "fastmap", val |-> 0]
          /\ walk' = [p |-> 1, stk |-> <<>>, map |-> {}, null |-> 0]
          /\ UNCHANGED <<subject, comp, text, startpos, m>>

re_compile_pattern ==
  \/ Dollar \/ Hat \/ Repeat \/ AnyChar \/ Bracket \/ Open \/ Close \/ Bar \/ Brace
  \/ EscapeClass \/ EscapeDigit \/ EscapeHex \/ EscapeOther \/ Ordinary \/ CompileEnds

-----------------------------------------------------------------------------
(* re_compile_fastmap *)

Walking(ops) == at.in = "fastmap" /\ IsOp(walk.p, ops)
Walk(w) == walk' = w /\ UNCHANGED <<subject, at, buf, comp, text, startpos, m>>
MapDone(w) ==
  /\ walk' = w /\ at' = [in |-> "ready", val |-> 0]
  /\ UNCHANGED <<subject, buf, comp, text, startpos, m>>
\* A path has shown what it begins with: the next one on the stack.
NextPath(w) ==
  IF w.stk = <<>> THEN MapDone(w) ELSE Walk([w EXCEPT !.p = Last(w.stk), !.stk = Front(w.stk)])

MapChars ==
  /\ Walking({"exactn", "endline", "wordchar", "notwordchar", "charset", "charset_not"})
  /\ LET c == buf[walk.p]
         first == CASE c.op = "exactn"      -> {translate(c.s[1])}
                    [] c.op = "endline"     -> {"\n"}
                    [] c.op = "wordchar"    -> Word
                    [] c.op = "notwordchar" -> Char \ Word
                    [] c.op = "charset"     -> {translate(x) : x \in c.set}
                    [] c.op = "charset_not" -> Char \ c.set
     IN  NextPath([walk EXCEPT !.map = @ \cup first,
                               !.null = IF c.op = "endline" /\ @ = 0 THEN 2 ELSE @])

\* anychar, and duplicate, which may be empty and may begin with a newline
MapAny ==
  /\ Walking({"anychar", "duplicate"})
  /\ LET dup == buf[walk.p].op = "duplicate"
         w == [walk EXCEPT !.map = @ \cup (IF dup THEN Char ELSE Char \ {"\n"}),
                           !.null = IF dup THEN 1 ELSE @]
     IN  IF w.null # 0 THEN MapDone(w) ELSE NextPath(w)

\* A jump backward closes a loop that matched nothing: it is left, and if its
\* failure point is on the stack still, that is taken off.
MapJump ==
  /\ Walking({"jump_n", "finalize_jump", "maybe_finalize_jump", "jump", "dummy_failure_jump"})
  /\ LET to  == walk.p + buf[walk.p].off
         out == to + buf[to].off
     IN  IF buf[walk.p].off > 0 \/ ~IsOp(to, {"on_failure_jump", "succeed_n"})
         THEN Walk([walk EXCEPT !.p = to])
         ELSE Walk([walk EXCEPT !.p = out,
                                !.stk = IF @ # <<>> /\ Last(@) = out THEN Front(@) ELSE @])

\* Mutant: where an alternative may fail, only what comes next is mapped.
MapFork_one ==
  /\ Walking({"on_failure_jump", "succeed_n"})
  /\ Walk([walk EXCEPT !.p = @ + 1])

MapFork ==
  /\ Walking({"on_failure_jump", "succeed_n"})
  /\ LET c == buf[walk.p]
     IN  IF c.op = "succeed_n" /\ c.n # 0 THEN Walk([walk EXCEPT !.p = @ + 1])
         ELSE Walk([walk EXCEPT !.p = @ + 1, !.stk = Append(@, walk.p + c.off)])

MapPass ==
  /\ Walking({"begline", "wordbound", "notwordbound", "set_number_at", "start_memory", "stop_memory"})
  /\ Walk([walk EXCEPT !.p = @ + 1])

MapNull == at.in = "fastmap" /\ walk.p = b /\ MapDone([walk EXCEPT !.null = 1])

re_compile_fastmap == MapChars \/ MapAny \/ MapJump \/ MapFork \/ MapPass \/ MapNull

-----------------------------------------------------------------------------
(* re_search, forwards: str.c and re.c never search backwards *)

size == Len(text)
anchor == IsOp(1, {"begline"})
Group == 1..comp.num - 1
Unset == [g \in Group |-> -1]
No    == [g \in Group |-> FALSE]

\* A search: also of a program that an earlier one has run, and changed.
Search ==
  /\ at.in \in {"ready", "found", "none"}
  /\ \E t \in Texts : \E s \in 0..Len(t) : text' = t /\ startpos' = s
  /\ at' = [in |-> "search", val |-> 0]
  /\ m' = [m EXCEPT !.begun = startpos']
  /\ UNCHANGED <<subject, buf, comp, walk>>

\* Where the fastmap lets a match begin, from s on
Skipped(s) ==
  IF s < size /\ walk.null # 1 /\ ~(anchor /\ s = 0)
  THEN Min({i \in s..size : i = size \/ translate(text[i + 1]) \in walk.map}) ELSE s

Advance(s) ==
  IF s = size
  THEN /\ at' = [in |-> "none", val |-> -1] /\ startpos' = s
       /\ UNCHANGED <<subject, buf, comp, walk, text, m>>
  ELSE /\ at' = [in |-> "search", val |-> 0] /\ startpos' = s + 1
       /\ UNCHANGED <<subject, buf, comp, walk, text, m>>

SearchStep ==
  /\ at.in = "search"
  /\ LET s == Skipped(startpos)
     IN  IF anchor /\ s > 0 /\ s < size /\ text[s] # "\n" THEN Advance(s)
         ELSE IF s = size /\ (walk.null = 0 \/ (walk.null = 2 /\ size > 0 /\ text[s] = "\n"))
         THEN Advance(size)
         ELSE /\ startpos' = s /\ at' = [in |-> "match", val |-> 0]
              /\ m' = [m EXCEPT !.p = 1, !.d = s, !.stk = <<>>, !.rs = Unset, !.re = Unset,
                                !.act = No, !.got = No, !.best = Empty]
              /\ UNCHANGED <<subject, buf, comp, walk, text>>

SearchAdvance == at.in = "failed" /\ Advance(startpos)

re_search == Search \/ SearchStep \/ SearchAdvance

-----------------------------------------------------------------------------
(* re_match *)

Matching(ops) == at.in = "match" /\ IsOp(m.p, ops)
Here == buf[m.p]
Run(mm) == m' = mm /\ UNCHANGED <<subject, at, buf, comp, walk, text, startpos>>
Ends(state, v, mm) ==
  /\ at' = [in |-> state, val |-> v] /\ m' = mm
  /\ UNCHANGED <<subject, buf, comp, walk, text, startpos>>
Succeed(d, rs, re) ==
  Ends("found", startpos, [m EXCEPT !.d = d, !.rs = rs,
                                    !.re = re, !.stk = <<>>, !.best = Empty, !.p = 0])

\* PUSH_FAILURE_POINT: the registers up to the last one in use.  reg_info is
\* pushed as a pointer, so that popping it changes nothing.
Point(p, mm) ==
  [p |-> p, d |-> mm.d, rs |-> mm.rs, re |-> mm.re,
   used |-> Max({g \in Group : mm.rs[g] # -1} \cup {0})]
Pushed(p) == [m EXCEPT !.stk = Append(@, Point(p, m))]
Full == Len(m.stk) >= MaxFailures
\* The failure stack is full: re_search() returns -2 as well.
Overflow == Ends("none", -2, [m EXCEPT !.stk = <<>>, !.p = 0])

\* fail: resume at the last failure point that is no dummy.
Fail(mm) ==
  LET k == Max({i \in 1..Len(mm.stk) : mm.stk[i].p # 0} \cup {0})
      f == mm.stk[k]
      Kept(new, none) == [g \in Group |-> IF g <= f.used THEN new[g] ELSE none]
  IN  IF k > 0
      THEN Run([mm EXCEPT !.p = f.p, !.d = f.d, !.stk = SubSeq(@, 1, k - 1),
                          !.rs = Kept(f.rs, -1), !.re = Kept(f.re, -1),
                          !.act = Kept(mm.act, FALSE), !.got = Kept(mm.got, FALSE)])
      ELSE IF mm.best # Empty THEN Succeed(mm.best.d, mm.best.rs, mm.best.re)
      ELSE Ends("failed", -1, [mm EXCEPT !.stk = <<>>, !.p = 0])

\* The end of the program: a match, but a longer one is looked for.
MatchEnd ==
  /\ at.in = "match" /\ m.p = b
  /\ LET new == [op |-> "best", d |-> m.d, rs |-> m.rs, re |-> m.re]
     IN  IF m.d # size /\ m.stk # <<>>
         THEN Fail(IF m.best = Empty \/ m.d > m.best.d THEN [m EXCEPT !.best = new] ELSE m)
         ELSE IF m.d # size /\ m.best # Empty THEN Succeed(m.best.d, m.best.rs, m.best.re)
         ELSE Succeed(m.d, m.rs, m.re)

StartMemory ==
  /\ Matching({"start_memory"})
  /\ Run([m EXCEPT !.p = @ + 1, !.rs[Here.r] = m.d, !.act[Here.r] = TRUE, !.got[Here.r] = FALSE])

\* A group that matched nothing, and that a loop repeats: out of the loop.
StopMemory ==
  /\ Matching({"stop_memory"})
  /\ LET r  == Here.r
         mm == [m EXCEPT !.re[r] = m.d, !.act[r] = FALSE]
         to == m.p + 1 + buf[m.p + 1].off
     IN  IF /\ ~m.got[r] \/ IsOp(m.p - 1, {"start_memory"})
            /\ IsOp(m.p + 1, {"finalize_jump", "maybe_finalize_jump", "jump", "dummy_failure_jump"})
            /\ to <= m.p /\ IsOp(to, {"on_failure_jump"})
         THEN Fail([mm EXCEPT !.stk = Append(@, Point(to + buf[to].off, mm))])
         ELSE Run([mm EXCEPT !.p = @ + 1])

\* SET_REGS_MATCHED and the characters passed
Took(n) == Run([m EXCEPT !.p = @ + 1, !.d = @ + n, !.got = m.act])

\* The text of a group once more.  It is no SET_REGS_MATCHED.
Duplicate ==
  /\ Matching({"duplicate"})
  /\ LET n == m.re[Here.r] - m.rs[Here.r]
     IN  IF /\ m.d + n <= size
            /\ \A k \in 1..n : translate(text[m.rs[Here.r] + k]) = translate(text[m.d + k])
         THEN Run([m EXCEPT !.p = @ + 1, !.d = @ + n]) ELSE Fail(m)

OneChar ==
  /\ Matching({"anychar", "charset", "charset_not", "wordchar", "notwordchar"})
  /\ LET c == text[m.d + 1]
         t == translate(c)
     IN  IF m.d < size /\ CASE Here.op = "anychar"     -> t # "\n"
                            [] Here.op = "charset"     -> t \in Here.set
                            [] Here.op = "charset_not" -> t \notin Here.set
                            [] Here.op = "wordchar"    -> c \in Word
                            [] Here.op = "notwordchar" -> c \notin Word
         THEN Took(1) ELSE Fail(m)

Exactn ==
  /\ Matching({"exactn"})
  /\ LET n == Len(Here.s)
     IN  IF m.d + n <= size /\ \A k \in 1..n : translate(text[m.d + k]) = translate(Here.s[k])
         THEN Took(n) ELSE Fail(m)

\* begline, endline, and AT_WORD_BOUNDARY, which holds at both ends of the text
Bound(d) == d = 0 \/ d = size \/ (text[d] \in Word) # (text[d + 1] \in Word)
Assertion ==
  /\ Matching({"begline", "endline", "wordbound", "notwordbound"})
  /\ IF CASE Here.op = "begline"      -> m.d = 0 \/ text[m.d] = "\n"
          [] Here.op = "endline"      -> m.d = size \/ text[m.d + 1] = "\n"
          [] Here.op = "wordbound"    -> Bound(m.d)
          [] Here.op = "notwordbound" -> ~Bound(m.d)
     THEN Run([m EXCEPT !.p = @ + 1]) ELSE Fail(m)

OnFailure ==
  /\ Matching({"on_failure_jump"})
  /\ IF Full THEN Overflow ELSE Run([Pushed(m.p + Here.off) EXCEPT !.p = @ + 1])

\* Mutant: a set that has the character behind the loop is taken for one that has not.
Disjoint_set(i, next) ==
  LET c == IF next.op = "endline" THEN "\n" ELSE next.s[1]
      l == buf[i]
  IN  CASE l.op = "exactn"      -> l.s[1] # c
        [] l.op = "charset"     -> c \in l.set
        [] l.op = "charset_not" -> c \in l.set
        [] OTHER                -> FALSE

\* What the loop at i begins with cannot be what follows it.
Disjoint(i, next) ==
  LET c == IF next.op = "endline" THEN "\n" ELSE next.s[1]
      l == buf[i]
  IN  CASE l.op = "exactn"      -> l.s[1] # c
        [] l.op = "charset"     -> c \notin l.set
        [] l.op = "charset_not" -> c \in l.set
        [] OTHER                -> FALSE

\* The command is replaced for good by one of the two that follow.
MaybeFinalize ==
  /\ Matching({"maybe_finalize_jump"})
  /\ LET p2 == Min({i \in m.p + 1..b : ~IsOp(i, {"start_memory", "stop_memory"})})
         final == \/ p2 = b
                  \/ IsOp(p2, {"exactn", "endline"}) /\ Disjoint(m.p + Here.off + 1, buf[p2])
     IN  buf' = [buf EXCEPT ![m.p].op = IF final THEN "finalize_jump" ELSE "jump"]
  /\ UNCHANGED <<subject, at, comp, walk, text, startpos, m>>

\* POP_FAILURE_POINT, and the jump
Finalize ==
  Matching({"finalize_jump"}) /\ Run([m EXCEPT !.p = @ + Here.off, !.stk = Front(@)])
JumpTo == Matching({"jump"}) /\ Run([m EXCEPT !.p = @ + Here.off])
DummyFailure ==
  /\ Matching({"dummy_failure_jump"})
  /\ IF Full THEN Overflow ELSE Run([Pushed(0) EXCEPT !.p = @ + Here.off])

\* The counters are in the program: nothing puts them back when a match fails.
RunCounter(n, mm) ==
  /\ buf' = [buf EXCEPT ![m.p].n = n] /\ m' = mm
  /\ UNCHANGED <<subject, at, comp, walk, text, startpos>>
SucceedN ==
  /\ Matching({"succeed_n"})
  /\ IF Here.n # 0 THEN RunCounter(Here.n - 1, [m EXCEPT !.p = @ + 1])
     ELSE IF Full THEN Overflow ELSE Run([Pushed(m.p + Here.off) EXCEPT !.p = @ + 1])
JumpN ==
  /\ Matching({"jump_n"})
  /\ IF Here.n # 0 THEN RunCounter(Here.n - 1, [m EXCEPT !.p = @ + Here.off])
     ELSE Run([m EXCEPT !.p = @ + 1])
SetNumberAt ==
  /\ Matching({"set_number_at"})
  /\ buf' = [buf EXCEPT ![m.p + Here.off].n = Here.n] /\ m' = [m EXCEPT !.p = @ + 1]
  /\ UNCHANGED <<subject, at, comp, walk, text, startpos>>

re_match ==
  \/ MatchEnd \/ StartMemory \/ StopMemory \/ Duplicate \/ OneChar \/ Exactn \/ Assertion
  \/ OnFailure \/ MaybeFinalize \/ Finalize \/ JumpTo \/ DummyFailure \/ SucceedN \/ JumpN
  \/ SetNumberAt

-----------------------------------------------------------------------------
Init ==
  /\ subject \in Subjects
  /\ at = [in |-> "compile", val |-> 0] /\ buf = <<>>
  /\ comp = [p |-> 1, last |-> 0, pend |-> 0, fix |-> 0, beg |-> 1, num |-> 1, stk |-> <<>>]
  /\ walk = [p |-> 0, stk |-> <<>>, map |-> {}, null |-> 0]
  /\ text = <<>> /\ startpos = 0
  /\ m = [p |-> 0, d |-> 0, stk |-> <<>>, rs |-> <<>>, re |-> <<>>, act |-> <<>>, got |-> <<>>,
          best |-> Empty, begun |-> 0]

Next == re_compile_pattern \/ re_compile_fastmap \/ re_search \/ re_match
Spec == Init /\ [][Next]_revars

-----------------------------------------------------------------------------
(* What a regular expression means.  It is a tree whose nodes are tuples:  *)
(* <<"set", S>>, <<"bol">>, <<"eol">>, <<"wb">>, <<"nwb">>,                *)
(* <<"seq", x, y>>, <<"alt", x, y>>, <<"grp", n, x>>, <<"ref", n>> and     *)
(* <<"rep", x, lo, hi>>, hi < 0 for no bound; <<"err", e>> is refused.     *)

\* From a set of states, each the position and the groups matched so far, those
\* in which x may end
RECURSIVE After(_, _)
RECURSIVE Times(_, _, _, _)
After(x, S) ==
  CASE x[1] = "set" -> {[s EXCEPT !.d = @ + 1] :
                          s \in {r \in S : r.d < size /\ translate(text[r.d + 1]) \in x[2]}}
    [] x[1] = "bol" -> {s \in S : s.d = 0 \/ text[s.d] = "\n"}
    [] x[1] = "eol" -> {s \in S : s.d = size \/ text[s.d + 1] = "\n"}
    [] x[1] = "wb"  -> {s \in S : Bound(s.d)}
    [] x[1] = "nwb" -> {s \in S : ~Bound(s.d)}
    [] x[1] = "seq" -> After(x[3], After(x[2], S))
    [] x[1] = "alt" -> After(x[2], S) \cup After(x[3], S)
    [] x[1] = "grp" -> UNION {{[t EXCEPT !.g[x[2]] = <<s.d, t.d>>] : t \in After(x[3], {s})} : s \in S}
    [] x[1] = "ref" -> {[s EXCEPT !.d = @ + s.g[x[2]][2] - s.g[x[2]][1]] :
                          s \in {r \in S : LET n == r.g[x[2]][2] - r.g[x[2]][1]
                                           IN  /\ r.d + n <= size
                                               /\ \A k \in 1..n : text[r.g[x[2]][1] + k] = text[r.d + k]}}
    [] x[1] = "rep" -> Times(x[2], x[3], x[4], S)
Times(x, lo, hi, S) ==
  IF hi = 0 \/ S = {} THEN S
  ELSE LET T == After(x, S)
       IN  IF lo > 0 THEN Times(x, lo - 1, hi - 1, T)
           ELSE IF hi < 0 /\ T \subseteq S THEN S
           ELSE S \cup Times(x, 0, hi - 1, IF hi < 0 THEN S \cup T ELSE T)

MatchesAt(s) ==
  IF s > size THEN {} ELSE After(subject.re, {[d |-> s, g |-> [i \in Group |-> <<-1, -1>>]]})

\* A loop over a group in which there is something to choose
RECURSIVE Chooses(_)
Chooses(x) ==
  CASE x[1] \in {"alt", "rep"} -> TRUE
    [] x[1] = "seq" -> Chooses(x[2]) \/ Chooses(x[3])
    [] x[1] = "grp" -> Chooses(x[3])
    [] OTHER -> FALSE
RECURSIVE Tangled(_)
Tangled(x) ==
  CASE x[1] \in {"seq", "alt"} -> Tangled(x[2]) \/ Tangled(x[3])
    [] x[1] = "grp" -> Tangled(x[3])
    [] x[1] = "rep" -> (x[4] \notin {0, 1} /\ Chooses(x[2])) \/ Tangled(x[2])
    [] OTHER -> FALSE

\* The match that is reported is one of the expression, groups and all, and no
\* earlier place had one: none is lost by the fastmap, by the loops that give up
\* their failure points (maybe_finalize_jump), by the groups left because they
\* match nothing, or for what an earlier run left in the program.  Of a loop over
\* a group that has a choice inside, only that its matches are matches.
MatchExact ==
  subject.re[1] # "err" =>
    CASE at.in = "found" ->
           /\ [d |-> m.d, g |-> [i \in Group |-> <<m.rs[i], m.re[i]>>]] \in MatchesAt(at.val)
           /\ Tangled(subject.re) \/ \A s \in m.begun..at.val - 1 : MatchesAt(s) = {}
      [] at.in = "none" -> Tangled(subject.re) \/ \A s \in m.begun..size : MatchesAt(s) = {}
      [] at.in = "error" -> FALSE
      [] OTHER -> TRUE

\* matched_something tells whether the group has matched anything this time.
MatchedSomething ==
  Matching({"stop_memory"}) => (m.got[Here.r] <=> m.d # m.rs[Here.r])

=============================================================================
