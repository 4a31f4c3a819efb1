------------------------------- MODULE StrOps -------------------------------
(***************************************************************************)
(* string.c: what the methods of String compute.  A behaviour is one call: *)
(* job is the call, an action carries out the method's loop, and out is    *)
(* what it returns.  Positions count from 0, as in the code; the character *)
(* at position i is s[i + 1].                                              *)
(***************************************************************************)
EXTENDS Integers, Sequences, SequencesExt, FiniteSets, FiniteSetsExt, TLC

CONSTANTS
  Jobs          \* the calls: records with op, s and the arguments

VARIABLES job, out, done
ovars == <<job, out, done>>

\* Characters in the order of their codes, and the classes the methods tell apart
Order == <<"\n", "\r", " ", ",", "-", "0", "9", "A", "Z", "^", "a", "b", "c", "z">>
Ord(c) == CHOOSE i \in 1..Len(Order) : Order[i] = c
IsSpace(c) == c \in {"\n", " "}
IsAlnum(c) == c \in {"0", "9", "A", "Z", "a", "b", "c", "z"}

s == job.s
len == Len(s)
At(i) == IF i \in 0..len - 1 THEN s[i + 1] ELSE ""
Sub(i, n) == SubSeq(s, i + 1, Min({i + n, len}))
Calls(op) == ~done /\ job.op = op
Returns(v) == out' = v /\ done' = TRUE /\ UNCHANGED job

-----------------------------------------------------------------------------
(* Parts *)

substr(t, start, n) ==
  LET i == IF start < 0 THEN Len(t) + start ELSE start
  IN  IF Len(t) <= i \/ n < 0 THEN <<>> ELSE SubSeq(t, i + 1, Min({i + n, Len(t)}))

str_substr == Calls("substr") /\ Returns(substr(s, job.beg, job.n))

Crossed(beg, end) == ((beg > 0 /\ end > 0) \/ (beg < 0 /\ end < 0)) /\ beg > end
str_subseq ==
  /\ Calls("subseq")
  /\ LET beg == IF job.beg < 0 THEN Max({len + job.beg, 0}) ELSE job.beg
         end == IF job.end < 0 THEN Min({Max({len + job.end, -1}), len}) ELSE job.end
     IN  Returns(IF Crossed(job.beg, job.end) THEN <<"IndexError">>
                 ELSE IF beg >= len THEN <<>>
                 ELSE substr(s, beg, Max({end - beg + 1, 0})))

\* Mutant: what follows the part that is replaced begins one character late.
Spliced_late(beg, n, v) == SubSeq(s, 1, beg) \o v \o SubSeq(s, beg + n + 2, len)

\* str_replace(): beg and n are inside
Spliced(beg, n, v) == SubSeq(s, 1, beg) \o v \o SubSeq(s, beg + n + 1, len)

\* str[beg..end] = v.  An end before the string is position 0 here.
str_replace2 ==
  /\ Calls("replace2")
  /\ LET b0 == IF job.beg < 0 THEN Max({len + job.beg, 0}) ELSE job.beg
         beg == Min({b0, len})
         e0 == IF job.end < 0 THEN Max({len + job.end, 0}) ELSE job.end
         end == Min({e0, len - 1})
     IN  Returns(IF Crossed(job.beg, job.end) THEN <<"IndexError">>
                 ELSE Spliced(beg, Max({end - beg + 1, 0}), job.v))

\* str[beg, n] = v
str_aset_method ==
  /\ Calls("aset")
  /\ LET beg == IF job.beg < 0 THEN Max({len + job.beg, 0}) ELSE job.beg
     IN  Returns(IF job.n < 0 THEN <<"IndexError">> ELSE Spliced(beg, Min({job.n, len - beg}), job.v))

Occurs(sub, i) == i + Len(sub) <= len /\ SubSeq(s, i + 1, i + Len(sub)) = sub

\* The scan ends offset places too late: behind the string's end it compares
\* with whatever the buffer has there, and may find it.
str_index ==
  /\ Calls("index")
  /\ LET at == {i \in job.off..len : Occurs(job.v, i)}
         behind == {i \in len + 1..job.off + len - Len(job.v) : TRUE}
     IN  \E i \in (IF len - job.off < Len(job.v) THEN {-1}
                   ELSE IF at = {} THEN {-1} \cup behind ELSE {Min(at)}) : Returns(i)

str_rindex ==
  /\ Calls("rindex")
  /\ LET at == {i \in 0..Min({job.off, len}) - Len(job.v) : Occurs(job.v, i)}
     IN  Returns(IF at = {} THEN -1 ELSE Max(at))

-----------------------------------------------------------------------------
(* Changed characters *)

\* succ_char(): the character behind, and what is carried, "" for nothing
succ_char(c) ==
  CASE c = "9" -> <<"0", "1">> [] c = "z" -> <<"a", "a">> [] c = "Z" -> <<"A", "A">>
    [] OTHER -> <<CASE c = "0" -> "9" [] c = "A" -> "Z" [] c = "a" -> "b" [] c = "b" -> "c"
                    [] c = "c" -> "z", "">>

\* From the right, the first alphanumeric that carries nothing ends it.
RECURSIVE SuccFrom(_, _, _)
SuccFrom(t, i, c) ==
  IF i = 0
  THEN IF c = "none" /\ t # <<>> THEN [t EXCEPT ![Len(t)] = Order[(Ord(@) % Len(Order)) + 1]]
       ELSE <<c>> \o t
  ELSE IF ~IsAlnum(t[i]) THEN SuccFrom(t, i - 1, c)
  ELSE LET n == succ_char(t[i])
       IN  IF n[2] = "" THEN [t EXCEPT ![i] = n[1]]
           ELSE SuccFrom([t EXCEPT ![i] = n[1]], i - 1, n[2])
Succ(t) == SuccFrom(t, Len(t), "none")

\* "a".upto("z"): what the block gets
RECURSIVE UptoFrom(_, _)
UptoFrom(cur, acc) ==
  IF cur = job.v THEN Append(acc, cur)
  ELSE IF Len(Succ(cur)) > Len(job.v) THEN Append(acc, cur)
  ELSE UptoFrom(Succ(cur), Append(acc, cur))
str_upto == Calls("upto") /\ Returns(UptoFrom(s, <<>>))

\* trnext(): the characters of a description such as a-c, in turn
RECURSIVE trnext(_)
trnext(d) ==
  IF d = <<>> THEN <<>>
  ELSE IF Len(d) >= 3 /\ d[2] = "-"
       THEN LET up == SelectSeq(Order, LAMBDA c : Ord(c) \in Ord(d[1])..Ord(d[3]))
            IN  (IF Ord(d[1]) > Ord(d[3]) THEN <<>> ELSE IF d[1] = d[3] THEN <<d[1], d[1]>> ELSE up)
                \o trnext(SubSeq(d, 4, Len(d)))
  ELSE IF Len(d) = 2 /\ d[2] = "-" THEN <<d[1]>>
  ELSE <<d[1]>> \o trnext(Tail(d))
Negated(d, min) == Len(d) > min /\ d[1] = "^"

\* tr_setup_table(): the characters delete and squeeze are about
Table(d) ==
  IF Negated(d, 1) THEN ToSet(Order) \ ToSet(trnext(Tail(d))) ELSE ToSet(trnext(d))

\* trans[]: a later entry of the source overrides an earlier one, and when the
\* replacement is used up its last character goes on.
Trans(src, repl) ==
  LET r == trnext(repl)
      Nth(k) == r[Min({k, Len(r)})]
      from == trnext(src)
      not == ToSet(trnext(Tail(src)))
      rest == SelectSeq(Order, LAMBDA c : c \notin not)
  IN  [c \in ToSet(Order) |->
        IF Negated(src, 2)
        THEN IF c \in not THEN c ELSE Nth(CHOOSE k \in 1..Len(rest) : rest[k] = c)
        ELSE LET at == {k \in 1..Len(from) : from[k] = c}
             IN  IF at = {} THEN c ELSE Nth(Max(at))]

Deleted(t, d) == SelectSeq(t, LAMBDA c : c \notin Table(d))
str_delete_bang == Calls("delete") /\ Returns(Deleted(s, job.v))

\* With squeeze, of equal characters that were translated in a row one is kept.
tr_trans ==
  /\ Calls("tr")
  /\ LET trans == Trans(job.src, job.repl)
         Step(a, c) ==
           LET t == trans[c]
           IN  IF c = t \/ t # a.c0 THEN [r |-> Append(a.r, t), c0 |-> IF c = t THEN "" ELSE t] ELSE a
     IN  Returns(IF job.repl = <<>> THEN Deleted(s, job.src)
                 ELSE IF ~job.sflag THEN [i \in 1..len |-> trans[s[i]]]
                 ELSE FoldLeft(Step, [r |-> <<>>, c0 |-> ""], s).r)

tr_squeeze ==
  /\ Calls("squeeze")
  /\ LET set == IF job.v = <<>> THEN ToSet(Order) ELSE Table(job.v)
         Step(a, c) == IF a # <<>> /\ c = Last(a) /\ c \in set THEN a ELSE Append(a, c)
     IN  Returns(FoldLeft(Step, <<>>, s))

str_strip ==
  /\ Calls("strip")
  /\ LET in == {i \in 1..len : ~IsSpace(s[i])}
     IN  Returns(IF in = {} THEN <<>> ELSE SubSeq(s, Min(in), Max(in)))

\* The letters of both cases
UpperOf == ("a" :> "A") @@ ("z" :> "Z")
LowerOf == ("A" :> "a") @@ ("Z" :> "z")
By(tab, c) == IF c \in DOMAIN tab THEN tab[c] ELSE c
\* str_upcase_bang(), str_downcase_bang(), str_capitalize_bang(), str_swapcase_bang()
Case ==
  /\ Calls("case")
  /\ Returns([i \in 1..len |->
       CASE job.how = "up" \/ (job.how = "cap" /\ i = 1) -> By(UpperOf, s[i])
         [] job.how = "down" \/ (job.how = "cap" /\ i > 1) -> By(LowerOf, s[i])
         [] job.how = "swap" -> By(UpperOf @@ LowerOf, s[i])])

\* A newline takes the carriage return before it along; "\r" is a character here.
str_chop_bang ==
  /\ Calls("chop")
  /\ Returns(IF len = 0 THEN <<>>
             ELSE IF At(len - 1) = "\n" /\ At(len - 2) = "\r" THEN Sub(0, len - 2) ELSE Sub(0, len - 1))

str_times ==
  /\ Calls("times")
  /\ Returns(IF job.n < 0 THEN <<"ArgError">> ELSE FoldLeft(LAMBDA a, i : a \o s, <<>>, [i \in 1..job.n |-> i]))

\* The bytes as far as both go, then the one behind the shorter, which is 0 there; with
\* $= the bytes are compared as small letters.
Fold(c) == IF job.fold THEN By(LowerOf, c) ELSE c
OrdAt(t, i) == IF i <= Len(t) THEN Ord(Fold(t[i])) ELSE 0
str_cmp(t, u) ==
  LET n == Min({Len(t), Len(u)})
      differ == {i \in 1..n : Fold(t[i]) # Fold(u[i])}
      k == IF differ = {} THEN n + 1 ELSE Min(differ)
  IN  OrdAt(t, k) - OrdAt(u, k)
str_cmp_method ==
  /\ Calls("cmp")
  /\ Returns(LET r == str_cmp(s, job.v) IN IF r = 0 THEN 0 ELSE IF r < 0 THEN -1 ELSE 1)

\* str_ljust(), str_rjust(), str_center()
Justify ==
  /\ Calls("just")
  /\ LET w == Max({job.w - len, 0})
         l == CASE job.how = "l" -> 0 [] job.how = "r" -> w [] job.how = "c" -> w \div 2
         pad(n) == [i \in 1..n |-> " "]
     IN  Returns(pad(l) \o s \o pad(w - l))

-----------------------------------------------------------------------------
(* Patterns, as reg_search() finds them: one character, a run of it that may *)
(* be empty, or the end of a line                                            *)

EndOf(pat, i) ==
  CASE pat = "a"  -> IF At(i) = "a" THEN i + 1 ELSE -1
    [] pat = "a*" -> Min({j \in i..len : At(j) # "a"})
    [] pat = "$"  -> IF i = len \/ At(i) = "\n" THEN i ELSE -1
Hits(pat, off) == {i \in off..len : EndOf(pat, i) >= 0}

\* str_sub_s() and str_sub_iter_s(): "R" stands for the replacement.
RECURSIVE SubFrom(_, _)
SubFrom(off, acc) ==
  LET hits == IF off > len THEN {} ELSE Hits(job.pat, off)
      beg == Min(hits)
      end == EndOf(job.pat, beg)
      acc2 == acc \o Sub(off, beg - off) \o <<"R">>
      \* at least one character is consumed
      acc3 == IF end = off THEN acc2 \o Sub(end, 1) ELSE acc2
      off2 == IF end = off THEN end + 1 ELSE end
  IN  IF hits = {} THEN acc \o Sub(off, len - off)
      ELSE IF job.once \/ off2 >= len THEN acc3 \o Sub(off2, len - off2)
      ELSE SubFrom(off2, acc3)
str_gsub == Calls("gsub") /\ Returns(SubFrom(0, <<>>))

\* str_scan(): the matches the block gets
RECURSIVE ScanFrom(_, _)
ScanFrom(start, acc) ==
  LET hits == IF start > len THEN {} ELSE Hits(job.pat, start)
      beg == Min(hits)
      end == EndOf(job.pat, beg)
  IN  IF hits = {} THEN acc
      ELSE ScanFrom(IF end = start THEN end + 1 ELSE end, Append(acc, Sub(beg, end - beg)))
str_scan == Calls("scan") /\ Returns(ScanFrom(0, <<>>))

\* Mutant: the last character is no piece of its own.
Rest_longer(acc, beg) == IF len > beg + 1 THEN Append(acc, Sub(beg, len - beg)) ELSE acc

\* What is left of the string when the loops of split end: the last piece.
Rest(acc, beg) == IF len > beg THEN Append(acc, Sub(beg, len - beg)) ELSE acc
Limit(i) == job.lim > 0 /\ job.lim <= i

\* A separator of one character
RECURSIVE SplitChar(_, _, _, _)
SplitChar(end, beg, i, acc) ==
  IF end = len THEN Rest(acc, beg)
  ELSE IF At(end) # job.sep THEN SplitChar(end + 1, beg, i, acc)
  ELSE LET acc2 == Append(acc, Sub(beg, end - beg))
       IN  IF Limit(i + 1) THEN Rest(acc2, end + 1) ELSE SplitChar(end + 1, end + 1, i + 1, acc2)

\* A space: the words, as awk has them
RECURSIVE SplitAwk(_, _, _, _, _)
SplitAwk(k, beg, end, skip, a) ==
  IF k = len THEN Rest(a.r, beg)
  ELSE IF skip
       THEN IF IsSpace(At(k)) THEN SplitAwk(k + 1, beg + 1, end, TRUE, a)
            ELSE SplitAwk(k + 1, beg, beg + 1, FALSE, a)
  ELSE IF ~IsSpace(At(k)) THEN SplitAwk(k + 1, beg, end + 1, FALSE, a)
  ELSE LET a2 == [r |-> Append(a.r, Sub(beg, end - beg)), i |-> a.i + 1]
       IN  IF Limit(a2.i) THEN Rest(a2.r, end + 1) ELSE SplitAwk(k + 1, end + 1, end, TRUE, a2)

\* A pattern: an empty match where the search began is put off, and splits one
\* character off when the next search finds an empty one again.
RECURSIVE SplitReg(_, _, _, _, _)
SplitReg(start, beg, null, i, acc) ==
  LET hits == IF start > len THEN {} ELSE Hits(job.pat, start)
      end == Min(hits)
      e0 == EndOf(job.pat, end)
  IN  IF hits = {} THEN Rest(acc, beg)
      ELSE IF start = end /\ e0 = end
           THEN IF ~null THEN SplitReg(start + 1, beg, TRUE, i, acc)
                ELSE IF Limit(i + 1) THEN Rest(Append(acc, substr(s, beg, 1)), start)
                ELSE SplitReg(start, start, FALSE, i + 1, Append(acc, substr(s, beg, 1)))
      ELSE IF Limit(i + 1) THEN Rest(Append(acc, Sub(beg, end - beg)), e0)
      ELSE SplitReg(e0, e0, FALSE, i + 1, Append(acc, Sub(beg, end - beg)))

str_split_method ==
  /\ Calls("split")
  /\ Returns(IF job.lim = 1 THEN <<s>>
             ELSE IF job.sep = "" THEN SplitReg(0, 0, FALSE, 1, <<>>)
             ELSE IF job.sep = " " THEN SplitAwk(0, 0, 0, TRUE, [r |-> <<>>, i |-> 1])
             ELSE SplitChar(0, 0, 1, <<>>))

\* str_each_line(): the scan for the first separator begins behind where one
\* could have been.  Without a separator (<<>>) a line ends in empty lines.
RECURSIVE LinesFrom(_, _, _)
LinesFrom(b, p, acc) ==
  LET rs == job.rs
      n  == Len(rs)
      nl == IF n = 0 THEN "\n" ELSE Last(rs)
      run == Min({j \in p..len : At(j) # "\n"}) - 1
      q  == IF n = 0 /\ At(p) = "\n" THEN run ELSE p
  IN  IF p >= len THEN IF b < len THEN Append(acc, Sub(b, len - b)) ELSE acc
      ELSE IF n = 0 /\ At(p) = "\n" /\ At(p + 1) # "\n" THEN LinesFrom(b, p + 1, acc)
      ELSE IF At(q) = nl /\ (n <= 1 \/ Sub(q - n + 1, n) = rs)
           THEN LinesFrom(q + 1, q + 1, Append(acc, Sub(b, q - b + 1)))
      ELSE LinesFrom(b, q + 1, acc)
str_each_line == Calls("lines") /\ Returns(LinesFrom(0, Len(job.rs), <<>>))

-----------------------------------------------------------------------------
Init == job \in Jobs /\ out = <<>> /\ done = FALSE
Next ==
  \/ str_substr \/ str_subseq \/ str_replace2 \/ str_aset_method \/ str_index \/ str_rindex
  \/ str_upto \/ str_delete_bang \/ tr_trans \/ tr_squeeze \/ str_strip \/ Justify
  \/ Case \/ str_chop_bang \/ str_times \/ str_cmp_method
  \/ str_gsub \/ str_scan \/ str_split_method \/ str_each_line
Spec == Init /\ [][Next]_ovars

-----------------------------------------------------------------------------
(* What they should return *)

\* The positions a part names: from beg on n of them, or up to end
Whole == 0..len - 1
FromLen(beg, n) == Whole \cap {(IF beg < 0 THEN len + beg ELSE beg) + k : k \in 0..n - 1}
FromTo(beg, end) ==
  {i \in Whole : (IF beg < 0 THEN len + beg ELSE beg) <= i /\ i <= (IF end < 0 THEN len + end ELSE end)}
Taken(S) == LET lo == Min(S) IN IF S = {} THEN <<>> ELSE SubSeq(s, lo + 1, Max(S) + 1)
Without(S) == SelectSeq([i \in 1..len |-> <<i - 1, s[i]>>], LAMBDA x : x[1] \notin S)

\* A part is the characters at the positions the arguments name, and assigning to
\* a part replaces these and no others; a search finds the first place, or the
\* last, that there is; upto counts as an odometer does and ends; tr, delete and
\* squeeze agree with their descriptions read as sets.
EditExact ==
  done =>
    CASE job.op = "substr" -> out = Taken(FromLen(job.beg, job.n))
      [] job.op = "subseq" -> out \in {<<"IndexError">>, Taken(FromTo(job.beg, job.end))}
      [] job.op = "replace2" ->
           out # <<"IndexError">> =>
             /\ Len(out) = len - Cardinality(FromTo(job.beg, job.end)) + Len(job.v)
             /\ \E k \in 0..len : LET w == [i \in 1..Len(Without(FromTo(job.beg, job.end))) |->
                                              Without(FromTo(job.beg, job.end))[i][2]]
                                  IN  k <= Len(w) /\ out = SubSeq(w, 1, k) \o job.v \o SubSeq(w, k + 1, Len(w))
      [] job.op = "aset" ->
           out # <<"IndexError">> =>
             Len(out) = len - Cardinality(FromLen(Max({job.beg, -len}), job.n)) + Len(job.v)
      [] job.op = "index" ->
           LET at == {i \in job.off..len : Occurs(job.v, i)}
           IN  IF at = {} THEN out = -1 \/ (job.off > 0 /\ out > len) ELSE out = Min(at)
      [] job.op = "rindex" ->
           LET at == {i \in 0..job.off : i + Len(job.v) <= job.off /\ Occurs(job.v, i)}
           IN  out = IF at = {} THEN -1 ELSE Max(at)
      [] job.op = "upto" ->
           /\ \A i, j \in 1..Len(out) : i < j => out[i] # out[j] /\ Len(out[i]) <= Len(out[j])
           /\ \A i \in 1..Len(out) : Len(out[i]) <= Max({Len(job.v), len})
      [] job.op = "tr" -> job.sflag = FALSE /\ job.repl # <<>> => Len(out) = len
      [] job.op = "delete" -> ToSet(out) = ToSet(s) \ Table(job.v)
      [] job.op = "squeeze" ->
           /\ ToSet(out) = ToSet(s)
           /\ job.v = <<>> => \A i \in 1..Len(out) - 1 : out[i] # out[i + 1]
      [] job.op = "strip" -> \A c \in {out[i] : i \in {1, Len(out)} \cap DOMAIN out} : ~IsSpace(c)
      [] job.op = "case" ->
           \A i \in 1..len : out[i] # s[i] =>
             /\ By(UpperOf, out[i]) = By(UpperOf, s[i])
             /\ (out[i] \in DOMAIN LowerOf) = (job.how = "up" \/ (job.how = "cap" /\ i = 1)
                                              \/ (job.how = "swap" /\ s[i] \in DOMAIN UpperOf))
      [] job.op = "chop" -> \E t \in {<<>>, <<"\r", "\n">>} \cup {<<c>> : c \in ToSet(s)} : out \o t = s
      [] job.op = "times" -> job.n >= 0 => Len(out) = job.n * len /\ \A i \in 1..Len(out) : out[i] = s[((i - 1) % len) + 1]
      [] job.op = "cmp" ->
           LET f(t) == [i \in 1..Len(t) |-> Ord(Fold(t[i]))]
               below(a, b) == \E n \in 0..Min({Len(a), Len(b)}) :
                                /\ SubSeq(a, 1, n) = SubSeq(b, 1, n)
                                /\ (n = Len(a) /\ n < Len(b)) \/ (n < Len(a) /\ n < Len(b) /\ a[n + 1] < b[n + 1])
           IN  out = IF below(f(s), f(job.v)) THEN -1 ELSE IF below(f(job.v), f(s)) THEN 1 ELSE 0
      [] job.op = "just" -> Len(out) = Max({len, job.w}) /\ Deleted(out, <<" ">>) = Deleted(s, <<" ">>)
      [] OTHER -> TRUE

\* Characters of matches of the pattern
Matched == IF job.pat = "$" THEN {} ELSE {"a"}
Joined(lines) == FoldLeft(LAMBDA a, x : a \o x, <<>>, lines)
Strip(t, S) == SelectSeq(t, LAMBDA c : c \notin S)
JoinedBy(parts, c) ==
  FoldLeft(LAMBDA a, x : a \o <<c>> \o x, <<>>, parts)

\* What the loops over matches and separators leave out is what matched, and
\* nothing else: all pieces together are the string, whatever is empty, next to
\* another or at an end.
PiecesExact ==
  done =>
    CASE job.op = "gsub" -> ~job.once => Strip(out, {"R"}) = Strip(s, Matched)
      [] job.op = "scan" -> job.pat # "$" => Joined(out) = SelectSeq(s, LAMBDA c : c = "a")
      [] job.op = "lines" ->
           /\ Joined(out) = s
           /\ \A i \in 1..Len(out) - 1 : job.rs # <<>> => IsSuffix(job.rs, out[i])
           /\ \A i \in 2..Len(out) : Len(job.rs) = 1 => job.rs[1] \notin ToSet(Front(out[i]))
      [] job.op = "split" ->
           /\ job.lim > 0 => Len(out) <= job.lim
           /\ job.sep = "" /\ job.lim = 0 => Joined(out) = Strip(s, Matched)
           /\ job.sep = "," => \/ JoinedBy(out, ",") = <<",">> \o s
                               \/ JoinedBy(out, ",") \o <<",">> = <<",">> \o s
                               \/ out = <<>> /\ s = <<>>
           /\ job.sep = " " /\ job.lim = 0 =>
                /\ Joined(out) = Strip(s, {" ", "\n"})
                /\ \A i \in 1..Len(out) : out[i] # <<>>
      [] OTHER -> TRUE

=============================================================================
