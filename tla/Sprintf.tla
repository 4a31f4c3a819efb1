------------------------------ MODULE Sprintf --------------------------------
(***************************************************************************)
(* sprintf.c: a format and arguments make a text.  A step is one turn of   *)
(* the loop over the format: a literal character, a flag, a number or a    *)
(* conversion.  Fixnums go through the C library's sprintf(), Bignums do   *)
(* not; the word has WordBits bits and a digit of a Bignum half of that.   *)
(* Floats, %O, the growth of the buffer and %b of negative numbers (which  *)
(* reads a variable that is not set) are left out.                         *)
(***************************************************************************)
EXTENDS Integers, SequencesExt, FiniteSetsExt

CONSTANTS
  Formats,   \* what is called: sequences of pieces, as Means reads them, and whether the
             \* last argument is missing
  WordBits

VARIABLES call_f, p, flags, width, prec, buf_f, argv, f_pc
fvars == <<call_f, p, flags, width, prec, buf_f, argv, f_pc>>

\* The characters of the format; "" behind its end
fmt == FlattenSeq([i \in DOMAIN call_f.pieces |-> call_f.pieces[i].text])
ch(i) == IF i <= Len(fmt) THEN fmt[i] ELSE ""
Numeral == <<"0", "1", "2", "3", "4", "5", "6", "7", "8", "9", "a", "b", "c", "d", "e", "f">>
Upper == <<"0", "1", "2", "3", "4", "5", "6", "7", "8", "9", "A", "B", "C", "D", "E", "F">>
Digit(c) == \E i \in 1..10 : Numeral[i] = c
Val(c) == (CHOOSE i \in 1..16 : Numeral[i] = c) - 1
Times(c, n) == [i \in 1..n |-> c]

\* big2str(), and the number conversions of the C library
Numerals(v, base, chars) ==
  LET n == CHOOSE n \in 1..32 : base^n > v /\ (n = 1 \/ base^(n - 1) <= v)
  IN  [i \in 1..n |-> chars[((v \div base^(n - i)) % base) + 1]]
Signed(v, base, chars) == IF v < 0 THEN <<"-">> \o Numerals(-v, base, chars) ELSE Numerals(v, base, chars)
FIXABLE(v) == v \in -(2^(WordBits - 2))..(2^(WordBits - 2) - 1)
BITSPERDIG == WordBits \div 2
\* big_2comp() of the digits of a Bignum
big_2comp(v) == LET n == CHOOSE n \in 1..16 : 2^(BITSPERDIG * n) > v /\ 2^(BITSPERDIG * (n - 1)) <= v
                IN  2^(BITSPERDIG * n) - v

\* sprintf() of the C library for %d and %X with the flags of fmt_setup()
c_sprintf(v, base, chars, fl, w, pr) ==
  LET n == Numerals(IF v < 0 THEN -v ELSE v, base, chars)
      zeros == IF "PREC" \in fl /\ pr > Len(n) THEN Times("0", pr - Len(n)) ELSE <<>>
      sign == IF v < 0 THEN <<"-">> ELSE IF "+" \in fl /\ base = 10 THEN <<"+">> ELSE <<>>
      hash == IF "#" \in fl /\ base = 16 /\ v # 0 THEN <<"0", "X">> ELSE <<>>
      room == IF "WIDTH" \in fl /\ w > Len(sign \o hash \o zeros \o n) THEN w - Len(sign \o hash \o zeros \o n) ELSE 0
  IN  IF "-" \in fl THEN sign \o hash \o zeros \o n \o Times(" ", room)
      ELSE IF "0" \in fl /\ "PREC" \notin fl THEN sign \o hash \o Times("0", room) \o zeros \o n
      ELSE Times(" ", room) \o sign \o hash \o zeros \o n

-----------------------------------------------------------------------------
Fails == f_pc' = "error" /\ UNCHANGED <<call_f, p, flags, width, prec, buf_f, argv>>
\* Behind a conversion: the text grows, the flags go.
Push(s, q) ==
  /\ buf_f' = buf_f \o s /\ p' = q + 1 /\ f_pc' = "loop" /\ flags' = {}
  /\ UNCHANGED <<call_f, prec>>
Retry(q) == p' = q /\ f_pc' = "retry" /\ UNCHANGED <<call_f, buf_f>>
TakesArg == argv # <<>> /\ argv' = Tail(argv)

\* The text up to the next `%'
Literal ==
  /\ f_pc = "loop" /\ p <= Len(fmt)
  /\ IF fmt[p] = "%" THEN Retry(p + 1) /\ UNCHANGED <<flags, width, prec, argv>>
     ELSE buf_f' = Append(buf_f, fmt[p]) /\ p' = p + 1 /\ UNCHANGED <<call_f, f_pc, flags, width, prec, argv>>

Flag ==
  /\ f_pc = "retry" /\ ch(p) \in {" ", "#", "+", "-", "0"}
  /\ flags' = flags \cup ({ch(p)} \ {" "}) /\ Retry(p + 1)
  /\ UNCHANGED <<width, prec, argv>>

\* The digits from q on: the place behind them and their value
Number(q) ==
  LET e == CHOOSE e \in q..(Len(fmt) + 1) : ~Digit(ch(e)) /\ \A i \in q..(e - 1) : Digit(ch(i))
  IN  <<e, FoldLeft(LAMBDA n, i : 10 * n + Val(ch(i)), 0, [i \in 1..(e - q) |-> q + i - 1])>>

Width ==
  /\ f_pc = "retry" /\ Digit(ch(p)) /\ ch(p) # "0"
  /\ IF Number(p)[1] > Len(fmt) THEN Fails
     ELSE /\ width' = Number(p)[2] /\ flags' = flags \cup {"WIDTH"} /\ Retry(Number(p)[1])
          /\ UNCHANGED <<prec, argv>>

StarWidth ==
  /\ f_pc = "retry" /\ ch(p) = "*"
  /\ IF "WIDTH" \in flags \/ argv = <<>> THEN Fails
     ELSE /\ TakesArg /\ Retry(p + 1) /\ UNCHANGED prec
          /\ width' = IF Head(argv).n < 0 THEN -Head(argv).n ELSE Head(argv).n
          /\ flags' = flags \cup {"WIDTH"} \cup IF Head(argv).n < 0 THEN {"-"} ELSE {}

\* A precision of 0 is none, and stands for the flag 0.
Precision ==
  LET zero == IF ch(p + 1) = "0" THEN {"0"} ELSE {}
      Is(n) == flags' = flags \cup zero \cup (IF n > 0 THEN {"PREC"} ELSE {}) /\ prec' = n
  IN
  /\ f_pc = "retry" /\ ch(p) = "."
  /\ IF "PREC" \in flags THEN Fails
     ELSE IF ch(p + 1) = "*"
     THEN IF argv = <<>> THEN Fails
          ELSE TakesArg /\ Is(Head(argv).n) /\ Retry(p + 2) /\ UNCHANGED width
     ELSE IF Number(p + 1)[1] > Len(fmt) THEN Fails
     ELSE Is(Number(p + 1)[2]) /\ Retry(Number(p + 1)[1]) /\ UNCHANGED <<width, argv>>

\* `%%', and a `%' at the end of the format or of a line
Percent ==
  /\ f_pc = "retry" /\ ch(p) \in {"%", "", "\n"}
  /\ Push(<<"%">>, IF ch(p) = "\n" THEN p - 1 ELSE p) /\ UNCHANGED <<width, argv>>

Malformed ==
  /\ f_pc = "retry" /\ ch(p) \notin {" ", "#", "+", "-", "*", ".", "%", "", "\n", "c", "s", "b", "B", "o", "x", "u", "d", "D", "X"}
  /\ ~Digit(ch(p)) /\ Fails

Conversion(C) == f_pc = "retry" /\ ch(p) \in C
TooFew == Conversion({"c", "s", "b", "B", "o", "x", "u", "d", "D", "X"}) /\ argv = <<>> /\ Fails

\* The character of a number is the number here.
Char == Conversion({"c"}) /\ TakesArg /\ Push(<<Head(argv).c>>, p) /\ UNCHANGED width

\* A text cut to the precision is not padded.
Str ==
  LET s == Head(argv).s IN
  /\ Conversion({"s"}) /\ TakesArg /\ UNCHANGED width
  /\ Push(IF "PREC" \in flags /\ prec < Len(s) THEN SubSeq(s, 1, prec)
          ELSE IF "WIDTH" \in flags /\ width > Len(s)
          THEN IF "-" \in flags THEN s \o Times(" ", width - Len(s)) ELSE Times(" ", width - Len(s)) \o s
          ELSE s, p)

\* The digits of s behind those that only repeat the sign, the first of them made
\* the full digit it is the rest of
Above8(s, i) == i < Len(s) /\ Val(s[i + 1]) > 8
Above3(s, i) == i < Len(s) /\ Val(s[i + 1]) > 3
remove_sign_bits(s, base) ==
  LET more(i) == IF base = 16 THEN s[i] \in {"f", "1", "3", "7"} /\ Above8(s, i)
                 ELSE s[i] \in {"7", "1", "3"} /\ Above3(s, i)
      t == CHOOSE i \in 1..Len(s) : ~more(i) /\ \A j \in 1..(i - 1) : more(j)
      c == s[t]
      d == IF base = 16
           THEN CASE c = "c" -> "8" [] c = "d" -> "9" [] c \in {"e", "2", "6"} -> "e" [] c \in {"f", "1", "3", "7"} -> "f"
                  [] c = "4" -> "c" [] c = "5" -> "d" [] OTHER -> c
           ELSE CASE c \in {"6", "2"} -> "6" [] c \in {"7", "1", "3"} -> "7" [] OTHER -> c
  IN  IF base \in {8, 16} THEN <<d>> \o SubSeq(s, t + 1, Len(s)) ELSE s
Filler(base) == CASE base = 16 -> <<"f">> [] base = 8 -> <<"7">> [] OTHER -> <<>>

\* `..' and the digits of a negative number
Dotted(s, base) ==
  LET r == remove_sign_bits(s, base)
  IN  <<".", ".">> \o (IF Filler(base) # <<>> /\ r[1] # Filler(base)[1] THEN Filler(base) ELSE <<>>) \o r

\* From place t on, characters that are blanks (or in also) become c.
Fill(b, t, also, c) ==
  [i \in DOMAIN b |-> IF i >= t /\ \A j \in t..i : b[j] \in {" "} \cup also THEN c ELSE b[i]]

\* Mutant: padding is not counted from the precision.
unsigned_format_width(s, neg, base) ==
  LET slen == IF "WIDTH" \in flags /\ width > Len(s) THEN width ELSE Len(s)
  IN  buf_f \o Times(IF "0" \in flags THEN "0" ELSE " ", slen - Len(s)) \o s

\* The text with s, padded; the place to fill from counts from the start of the
\* text when there are width and precision.
unsigned_format(s, neg, base) ==
  LET W == "WIDTH" \in flags /\ width > Len(s)
      P == "PREC" \in flags /\ prec > Len(s)
      wide == W /\ ~(P /\ prec >= width)
      slen == IF P /\ (~W \/ prec >= width) THEN prec ELSE IF W THEN width ELSE Len(s)
      b == buf_f \o Times(IF "0" \in flags THEN "0" ELSE " ", slen - Len(s)) \o s
      t == IF wide /\ P /\ prec < width THEN width - prec + 1 ELSE Len(buf_f) + 1
      dots == ~P \/ prec <= Len(s) - 2
      d == IF Filler(base) = <<>> THEN "." ELSE Filler(base)[1]
  IN  IF neg THEN IF dots THEN Fill([b EXCEPT ![t] = ".", ![t + 1] = "."], t + 2, {"."}, d) ELSE Fill(b, t, {"."}, d)
      ELSE IF P \/ "0" \in flags THEN Fill(b, t, {}, "0") ELSE b

Base(c) == CASE c = "x" -> 16 [] c = "o" -> 8 [] c = "u" -> 10 [] c \in {"b", "B"} -> 2
Replaced(b) == buf_f' = b /\ p' = p + 1 /\ f_pc' = "loop" /\ flags' = {} /\ UNCHANGED <<call_f, prec, width>>

Unsigned ==
  LET v == Head(argv).n
      base == Base(ch(p))
      s == IF v >= 0 THEN Numerals(v, base, Numeral)
           ELSE IF ch(p) = "B" THEN Signed(v, 2, Numeral)
           ELSE Dotted(Numerals(IF FIXABLE(v) THEN 2^WordBits + v ELSE big_2comp(-v), base, Numeral), base)
  IN
  /\ Conversion({"b", "B", "o", "x", "u"}) /\ TakesArg
  /\ ch(p) = "b" => v >= 0
  /\ Replaced(unsigned_format(s, v < 0 /\ ch(p) # "B", base))

\* The text with the Bignum s, padded: a sign stands in front of the zeros.
big_format(s) ==
  LET W == "WIDTH" \in flags /\ width > Len(s)
      P == "PREC" \in flags /\ prec > Len(s)
      wide == W /\ ~(P /\ prec >= width)
      slen == IF P /\ (~W \/ prec >= width) THEN prec ELSE IF W THEN width ELSE Len(s)
      b == buf_f \o Times(" ", slen - Len(s)) \o s
      start == Len(buf_f) + 1
      t == IF wide /\ P /\ prec < width THEN width - prec + 1 ELSE start
      sign == s[1] = "-"
      apart == slen > Len(s) /\ t # start
  IN  IF P \/ "0" \in flags
      THEN Fill(IF ~sign THEN b ELSE IF apart THEN [b EXCEPT ![t - 1] = "-"] ELSE [b EXCEPT ![t] = "-"],
                IF sign /\ ~apart THEN t + 1 ELSE t, {"-"}, "0")
      ELSE b

Integer ==
  LET v == Head(argv).n
      hex == ch(p) = "X"
  IN
  /\ Conversion({"d", "D", "X"}) /\ TakesArg
  /\ Replaced(IF ~FIXABLE(v) THEN big_format(Signed(v, IF hex THEN 16 ELSE 10, Numeral))
              ELSE IF hex /\ v < 0 THEN buf_f \o <<"-">> \o c_sprintf(-v, 16, Upper, flags, width, prec)
              ELSE buf_f \o c_sprintf(v, IF hex THEN 16 ELSE 10, Upper, flags, width, prec))

Ends ==
  /\ f_pc = "loop" /\ p > Len(fmt) /\ f_pc' = "done"
  /\ UNCHANGED <<call_f, p, flags, width, prec, buf_f, argv>>

-----------------------------------------------------------------------------
Init ==
  /\ call_f \in Formats
  /\ argv = LET all == FlattenSeq([i \in DOMAIN call_f.pieces |-> call_f.pieces[i].args])
            IN  IF call_f.short THEN Front(all) ELSE all
  /\ p = 1 /\ flags = {} /\ width = 0 /\ prec = 0 /\ buf_f = <<>> /\ f_pc = "loop"
Next ==
  \/ Literal \/ Flag \/ Width \/ StarWidth \/ Precision \/ Percent \/ Malformed \/ TooFew
  \/ Char \/ Str \/ Unsigned \/ Integer \/ Ends
Spec == Init /\ [][Next]_fvars

-----------------------------------------------------------------------------
\* What a piece [text, conv, fl, w, pr, args] stands for with its last argument; conv
\* is "" for a text that stands for itself.
Wide(s, w, left) == IF Len(s) >= w THEN s ELSE IF left THEN s \o Times(" ", w - Len(s)) ELSE Times(" ", w - Len(s)) \o s
Means(x, a) ==
  LET neg == a.n < 0
      mag == Numerals(IF neg THEN -a.n ELSE a.n, 
                      CASE x.conv \in {"x", "X"} -> 16 [] x.conv = "o" -> 8 [] x.conv \in {"b", "B"} -> 2 [] OTHER -> 10, Numeral)
      sign == IF neg THEN <<"-">> ELSE IF "+" \in x.fl THEN <<"+">> ELSE <<>>
      body == IF x.pr > Len(mag) THEN Times("0", x.pr - Len(mag)) \o mag ELSE mag
      zero == "0" \in x.fl /\ "-" \notin x.fl /\ x.pr = 0
  IN  CASE x.conv = "" -> x.text
        [] x.conv = "%" -> <<"%">>
        [] x.conv = "c" -> <<a.c>>
        [] x.conv = "s" -> IF x.pr > 0 /\ x.pr < Len(a.s) THEN SubSeq(a.s, 1, x.pr) ELSE Wide(a.s, x.w, "-" \in x.fl)
        [] OTHER -> IF zero /\ Len(sign \o body) < x.w THEN sign \o Times("0", x.w - Len(sign \o body)) \o body
                    ELSE Wide(sign \o body, x.w, "-" \in x.fl)

\* Digits behind `..' go on to the left for ever.
Reads(s, base) ==
  FoldLeft(LAMBDA v, i : v * base + Val(s[i]), -1, [i \in 1..(Len(s) - 2) |-> i + 2])

\* The text is what the directives stand for, whether an integer is a Fixnum or a
\* Bignum, and a negative number in base 8 or 16 reads back.  Of a call that fails
\* nothing is said.  (Formats has no case of these: - or + with a conversion other
\* than %s, and width with precision, of a Bignum and of %x; a negative %x whose
\* first digit is c or d.)
SprintfExact ==
  f_pc = "done" =>
    LET X == call_f.pieces
        A(i) == IF X[i].args = <<>> THEN [n |-> 0, s |-> <<>>, c |-> ""] ELSE Last(X[i].args)
    IN  IF Len(X) = 1 /\ X[1].conv \in {"x", "o"} /\ A(1).n < 0
        THEN /\ SubSeq(buf_f, 1, 2) = <<".", ".">> /\ Len(buf_f) >= X[1].w
             /\ \A i \in 3..Len(buf_f) : buf_f[i] \in ToSet(Numeral)
             /\ Reads(buf_f, Base(X[1].conv)) = A(1).n
        ELSE buf_f = FlattenSeq([i \in DOMAIN X |-> Means(X[i], A(i))])

=============================================================================
