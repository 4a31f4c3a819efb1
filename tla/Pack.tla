-------------------------------- MODULE Pack --------------------------------
(***************************************************************************)
(* pack.c: an array is packed into bytes as a template says, and unpacked. *)
(* A template is a sequence of [t, n], a letter and a count; n = Star is   *)
(* the `*'.  A string is a sequence of numbers 0..255.  Characters that    *)
(* stand for digits are the digits themselves.                             *)
(***************************************************************************)
EXTENDS Integers, Sequences, SequencesExt, FiniteSets, FiniteSetsExt

CONSTANTS
  Jobs,         \* [fmt, ary]
  Size          \* letter of an integer -> its bytes
Star == -1
Space == 32

VARIABLES job, packed, unpacked, phase
pkvars == <<job, packed, unpacked, phase>>

Signed == {"c", "s", "l"}
BigEndian == {"n", "N"}
Ints == DOMAIN Size
Fill(n, b) == [i \in 1..n |-> b]

-----------------------------------------------------------------------------
(* Packing: st is [res, ary, err] *)

PackText(t, n, v) ==
  LET len == IF n = Star THEN Len(v) ELSE n
  IN  IF Len(v) >= len THEN SubSeq(v, 1, len)
      ELSE v \o Fill(len - Len(v), IF t = "A" THEN Space ELSE 0)

\* Eight digits make a byte, from the low end for b; what is missing of the last
\* byte is 0.  Only the lowest bit of a character counts.
PackBits(t, n, v) ==
  LET len == IF n = Star THEN Len(v) ELSE n
      bit(i) == IF i <= len THEN v[i] % 2 ELSE 0
      weight(j) == IF t = "b" THEN 2^(j - 1) ELSE 2^(8 - j)
  IN  [k \in 1..(len + 7) \div 8 |->
        FoldLeft(LAMBDA a, j : a + bit(8 * (k - 1) + j) * weight(j), 0, [j \in 1..8 |-> j])]

\* Two digits make a byte.  The last of an odd number is left where the loop had
\* it: shifted down for h, shifted up for H.
PackHex(t, n, v) ==
  LET len == IF n = Star THEN Len(v) ELSE n
      dig(i) == IF i <= len THEN v[i] ELSE 0
  IN  [k \in 1..(len + 1) \div 2 |->
        IF t = "h" THEN dig(2 * k - 1) + 16 * dig(2 * k) ELSE 16 * dig(2 * k - 1) + dig(2 * k)]

PackInt(t, v) ==
  LET w == Size[t]
      x == v % 256^w
  IN  [i \in 1..w |-> (x \div 256^(IF t \in BigEndian THEN w - i ELSE i - 1)) % 256]

\* encodes(): a line of a length and groups of four characters for three bytes.
\* The last group reads on behind the string: the byte that ends it, then garbage g.
\* A space becomes a backquote, in all that was packed so far.
encodes(res, s, g) ==
  LET n == Len(s)
      at(i) == IF i <= n THEN s[i] ELSE IF i = n + 1 THEN 0 ELSE g
      hunk(k) == LET a == at(3 * k - 2)
                     b == at(3 * k - 1)
                     c == at(3 * k)
                 IN  <<a \div 4, (a % 4) * 16 + b \div 16, (b % 16) * 4 + c \div 64, c % 64>>
      line == <<n>> \o FlattenSeq([k \in 1..(n + 2) \div 3 |-> hunk(k)])
      all == res \o [i \in 1..Len(line) |-> Space + line[i]]
  IN  [i \in 1..Len(all) |-> IF all[i] = Space THEN 96 ELSE all[i]] \o <<10>>
PackU(res, n, v, g) ==
  LET len == IF n <= 1 THEN 45 ELSE (n \div 3) * 3
      lines == (Len(v) + len - 1) \div len
  IN  FoldLeft(LAMBDA a, k : encodes(a, SubSeq(v, len * (k - 1) + 1, Min({len * k, Len(v)})), g),
               res, [k \in 1..lines |-> k])

\* grow and shrink
PackMove(t, n, st) ==
  LET have == Len(st.res)
      len == IF n = Star THEN 0 ELSE n
      by == CASE t = "x" -> len [] t = "X" -> -len [] t = "@" -> len - have
  IN  IF have + by < 0 THEN [st EXCEPT !.err = "X outside of string"]
      ELSE [st EXCEPT !.res = IF by >= 0 THEN @ \o Fill(by, 0) ELSE SubSeq(@, 1, have + by)]

PackOne(st, d, g) ==
  LET v == Head(st.ary)
      Took(r) == [st EXCEPT !.res = r, !.ary = Tail(@)]
      TooFew == [st EXCEPT !.err = "too few arguments"]
      count == IF d.n = Star THEN Len(st.ary) ELSE d.n
  IN  IF st.err # "" THEN st
      ELSE IF d.t \in {"x", "X", "@"} THEN PackMove(d.t, d.n, st)
      ELSE IF d.t \in Ints
           THEN IF count > Len(st.ary) THEN TooFew
                ELSE [st EXCEPT !.res = @ \o FlattenSeq([i \in 1..count |-> PackInt(d.t, st.ary[i])]),
                                !.ary = SubSeq(@, count + 1, Len(@))]
      ELSE IF st.ary = <<>> THEN TooFew
      ELSE CASE d.t \in {"a", "A"} -> Took(st.res \o PackText(d.t, d.n, v))
             [] d.t \in {"b", "B"} -> Took(st.res \o PackBits(d.t, d.n, v))
             [] d.t \in {"h", "H"} -> Took(st.res \o PackHex(d.t, d.n, v))
             [] d.t = "u" -> Took(PackU(st.res, d.n, v, g))

pack_pack ==
  /\ phase = "pack"
  /\ \E g \in {0, 255} :
       packed' = FoldLeft(LAMBDA st, d : PackOne(st, d, g), [res |-> <<>>, ary |-> job.ary, err |-> ""], job.fmt)
  /\ phase' = IF packed'.err = "" THEN "unpack" ELSE "done"
  /\ UNCHANGED <<job, unpacked>>

-----------------------------------------------------------------------------
(* Unpacking: st is [s, pos, out, err] *)

UnpackText(t, s) ==
  LET kept == {i \in 1..Len(s) : s[i] \notin {Space, 0}}
  IN  IF t = "a" THEN s ELSE IF kept = {} THEN <<>> ELSE SubSeq(s, 1, Max(kept))

UnpackBits(t, len, s) ==
  [i \in 1..len |->
     LET j == (i - 1) % 8
     IN  (s[(i - 1) \div 8 + 1] \div 2^(IF t = "b" THEN j ELSE 7 - j)) % 2]

\* Mutant: h and H read the same half of a byte first.
UnpackHex_same(t, len, s) ==
  [i \in 1..len |-> LET c == s[(i + 1) \div 2] IN IF i % 2 = 1 THEN c % 16 ELSE c \div 16]

UnpackHex(t, len, s) ==
  [i \in 1..len |->
     LET c == s[(i + 1) \div 2]
     IN  IF (i % 2 = 1) = (t = "h") THEN c % 16 ELSE c \div 16]

UnpackInt(t, s) ==
  LET w == Size[t]
      x == FoldLeft(LAMBDA a, i : a * 256 + s[IF t \in BigEndian THEN i ELSE w + 1 - i], 0, [i \in 1..w |-> i])
  IN  IF t \in Signed /\ x >= 256^w \div 2 THEN x - 256^w ELSE x

\* A line at a time; it returns the bytes and where it ended.
RECURSIVE UnpackLine(_, _, _, _)
UnpackLine(s, p, len, out) ==
  LET at(i) == IF i <= Len(s) /\ s[i] >= Space THEN (s[i] - Space) % 64 ELSE 0
      hunk == <<(at(p) * 4 + at(p + 1) \div 16) % 256, (at(p + 1) * 16 + at(p + 2) \div 4) % 256,
                (at(p + 2) * 64 + at(p + 3)) % 256>>
      m == Min({3, len})
  IN  IF len <= 0 THEN <<p, out>> ELSE UnpackLine(s, p + 4, len - m, out \o SubSeq(hunk, 1, m))
\* room: what the string made for the result holds.  A byte before the line's end
\* may be a checksum.
RECURSIVE UnpackU(_, _, _, _)
UnpackU(s, p, out, room) ==
  IF p > Len(s) \/ s[p] <= Space \/ s[p] >= 97 THEN <<p, out>>
  ELSE LET l == UnpackLine(s, p + 1, Min({(s[p] - Space) % 64, room - Len(out)}), out)
           e == l[1]
           At(i, c) == i <= Len(s) /\ s[i] = c
           q == IF At(e, 13) THEN e + 1 ELSE e
       IN  UnpackU(s, IF At(q, 10) THEN q + 1
                      ELSE IF q <= Len(s) /\ (q = Len(s) \/ At(q + 1, 10)) THEN q + 2 ELSE q,
                   l[2], room)

UnpackMove(t, n, st) ==
  LET left == Len(st.s) - st.pos
      len == IF n = Star THEN left ELSE n
  IN  CASE t = "x" -> IF len > left THEN [st EXCEPT !.err = "x outside of string"] ELSE [st EXCEPT !.pos = @ + len]
        [] t = "X" -> IF len > st.pos THEN [st EXCEPT !.err = "X outside of string"] ELSE [st EXCEPT !.pos = @ - len]
        [] t = "@" -> [st EXCEPT !.pos = len]

\* A count is cut to what the string has; * is all of it.
UnpackOne(st, d) ==
  LET rest == SubSeq(st.s, st.pos + 1, Len(st.s))
      per == CASE d.t \in {"b", "B"} -> 8 [] d.t \in {"h", "H"} -> 2 [] OTHER -> 1
      w == IF d.t \in Ints THEN Size[d.t] ELSE 1
      most == (Len(rest) \div w) * per
      len == IF d.n = Star \/ d.n > most THEN most ELSE d.n
      Gets(v, used) == [st EXCEPT !.out = Append(@, v), !.pos = @ + used]
      u == UnpackU(st.s, st.pos + 1, <<>>, (Len(rest) * 3) \div 4)
  IN  IF st.err # "" THEN st
      ELSE CASE d.t \in {"x", "X", "@"} -> UnpackMove(d.t, d.n, st)
             [] d.t \in {"a", "A"} -> Gets(UnpackText(d.t, SubSeq(rest, 1, len)), len)
             [] d.t \in {"b", "B"} -> Gets(UnpackBits(d.t, len, rest), (len + 7) \div 8)
             [] d.t \in {"h", "H"} -> Gets(UnpackHex(d.t, len, rest), (len + 1) \div 2)
             [] d.t \in Ints ->
                  [st EXCEPT !.pos = @ + len * w,
                     !.out = @ \o [i \in 1..len |-> UnpackInt(d.t, SubSeq(rest, w * (i - 1) + 1, w * i))]]
             [] d.t = "u" -> Gets(u[2], u[1] - 1 - st.pos)

pack_unpack ==
  /\ phase = "unpack"
  /\ unpacked' = FoldLeft(UnpackOne, [s |-> packed.res, pos |-> 0, out |-> <<>>, err |-> ""], job.fmt)
  /\ phase' = "done"
  /\ UNCHANGED <<job, packed>>

Init ==
  /\ job \in Jobs /\ phase = "pack"
  /\ packed = [res |-> <<>>, ary |-> <<>>, err |-> ""]
  /\ unpacked = [s |-> <<>>, pos |-> 0, out |-> <<>>, err |-> ""]
Next == pack_pack \/ pack_unpack
Spec == Init /\ [][Next]_pkvars

-----------------------------------------------------------------------------
(* What should come back, from what is packed and not how *)

Wide(t) == 256^Size[t]
Wraps(t, v) ==
  LET x == v % Wide(t) IN IF t \in Signed /\ x >= Wide(t) \div 2 THEN x - Wide(t) ELSE x
Cut(n, v) == IF n = Star \/ n > Len(v) THEN v ELSE SubSeq(v, 1, n)
Trimmed(v) == LET K == {i \in 1..Len(v) : v[i] \notin {Space, 0}} IN IF K = {} THEN <<>> ELSE SubSeq(v, 1, Max(K))
\* A star does not know where the digits ended: it gets whole bytes.
Whole(per, n, v) == IF n = Star THEN v \o Fill((-Len(v)) % per, 0) ELSE v
Due(st, d) ==
  LET v == Head(st.ary)
      n == IF d.n = Star THEN Len(st.ary) ELSE d.n
      One(x) == [st EXCEPT !.ary = Tail(@), !.out = Append(@, x)]
  IN  CASE d.t \in {"x", "X", "@"} -> st
        [] d.t \in Ints -> [ary |-> SubSeq(st.ary, n + 1, Len(st.ary)),
                            out |-> st.out \o [i \in 1..n |-> Wraps(d.t, st.ary[i])]]
        [] d.t = "A" -> One(Trimmed(Cut(d.n, v)))
        [] d.t = "a" -> One(Cut(d.n, v) \o Fill(IF d.n = Star THEN 0 ELSE Max({d.n - Len(v), 0}), 0))
        [] d.t \in {"b", "B"} -> One(Whole(8, d.n, [i \in 1..Len(Cut(d.n, v)) |-> v[i] % 2]))
        [] d.t \in {"h", "H"} -> One(Whole(2, d.n, Cut(d.n, v)))
        [] d.t = "u" -> One(v)
\* encodes() has changed a space that was packed before.
Spoilt == \E i, j \in 1..Len(job.fmt) : i < j /\ job.fmt[j].t = "u" /\ job.fmt[i].t # "u"
            /\ 96 \in ToSet(packed.res)

\* What was packed is unpacked with the same template: numbers modulo their size
\* with their sign and byte order, texts cut or filled to their count, digits, and
\* a uuencoded text whatever the memory behind it holds.
Unpacks ==
  phase = "done" /\ packed.err = "" /\ ~Spoilt =>
    /\ unpacked.err = ""
    /\ unpacked.out = FoldLeft(Due, [ary |-> job.ary, out |-> <<>>], job.fmt).out

=============================================================================
