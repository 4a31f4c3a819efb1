------------------------------ MODULE MCTextInputs ------------------------------
(***************************************************************************)
(* The bounded inputs of MCValues: patterns and subjects, calls of String  *)
(* methods, templates, conversions, formats and dates, one section each.   *)
(***************************************************************************)
EXTENDS Integers, Sequences, FiniteSetsExt, SequencesExt, TLC

-----------------------------------------------------------------------------
(***************************************************************************)
(* The patterns that MCValues has compiled and run: each with its text and *)
(* the tree it means (see Regex).  Groups that repeat bodies which may     *)
(* match nothing, with what makes each way of leaving a loop matter behind *)
(* them; intervals; every escape; a pattern for every refusal; and texts   *)
(* with newlines at both ends of a match.                                  *)
(***************************************************************************)

Chars == {"^A", "\n", " ", "-", "1", "A", "a", "b", "x"}
P(t, x) == [t |-> t, x |-> x]
Chr(c) == P(<<c>>, <<"set", {c}>>)
Dot == P(<<".">>, <<"set", Chars \ {"\n"}>>)
NotA == P(<<"[", "^", "a", "]">>, <<"set", Chars \ {"a"}>>)
Then(x, y) == P(x.t \o y.t, <<"seq", x.x, y.x>>)
Or(x, y) == P(x.t \o <<"|">> \o y.t, <<"alt", x.x, y.x>>)
Group(x) == P(<<"(">> \o x.t \o <<")">>, <<"grp", 1, x.x>>)
Rep(x, how, lo, hi) == P(x.t \o how, <<"rep", x.x, lo, hi>>)
Star(x) == Rep(x, <<"*">>, 0, -1)
Plus(x) == Rep(x, <<"+">>, 1, -1)
Opt(x) == Rep(x, <<"?">>, 0, 1)
Intervals(x) ==
  {Rep(x, <<"{", "2", "}">>, 2, 2), Rep(x, <<"{", "1", ",", "2", "}">>, 1, 2),
   Rep(x, <<"{", "1", ",", "}">>, 1, -1), Rep(x, <<"{", "0", "}">>, 0, 0)}
Bol == P(<<"^">>, <<"bol">>)
Eol == P(<<"$">>, <<"eol">>)
Boundary == P(<<"\\", "b">>, <<"wb">>)
Inside == P(<<"\\", "B">>, <<"nwb">>)
Again == P(<<"\\", "1">>, <<"ref", 1>>)

ca == Chr("a")
cb == Chr("b")
Repeats(x) == {x, Star(x), Plus(x), Opt(x)}
Single == UNION {Repeats(x) : x \in {ca, cb, NotA}} \cup {Dot, Star(Dot)}
Bodies == Single \cup {Then(ca, cb), Or(ca, cb), Or(ca, Then(ca, cb)), Or(Then(ca, cb), ca),
                       Then(Star(ca), cb), Then(Opt(ca), Star(cb)), Or(ca, Star(cb))}
Followed(g) ==
  {g, Then(g, cb), Then(g, Eol), Then(Bol, g), Then(g, Boundary), Then(g, Then(Again, Star(cb)))}
Loops == UNION {Followed(g) : g \in UNION {Repeats(Group(x)) : x \in Bodies}}
Counted ==
  UNION {{i, Then(i, cb), Then(Bol, Then(i, Eol))} :
           i \in UNION {Intervals(x) : x \in {ca, Dot, Group(Dot), Group(Then(ca, cb))}}}

\* A loop over a set in front of a character that may be in it
Range2 == P(<<"[", "a", "-", "b", "]">>, <<"set", {"a", "b"}>>)
Ahead == {Then(r, e) : r \in UNION {Repeats(x) : x \in {Range2, NotA, ca}}, e \in {ca, cb, Eol}}

Class(c, S) == P(<<"\\", c>>, <<"set", S>>)
Word == {"1", "A", "a", "b", "x"}
Others ==
  {Class("w", Word), Class("W", Chars \ Word), Class("s", {" ", "\n"}), Class("S", Chars \ {" ", "\n"}),
   Class("d", {"1"}), Class("D", Chars \ {"1"}), Then(ca, Inside), Then(Inside, cb),
   P(<<"\\", "0", "1">>, <<"set", {"^A"}>>), P(<<"\\", "x", "1">>, <<"set", {"^A"}>>), Class("-", {"-"}),
   Range2,
   P(<<"[", "^", "\\", "w", "]">>, <<"set", Chars \ Word>>),
   P(<<"a", "{">>, <<"seq", <<"set", {"a"}>>, <<"set", {}>>>>)}
Bad(t) == P(t, <<"err">>)
Refused ==
  {Bad(<<"*">>), Bad(<<"a", "^">>), Bad(<<"[">>), Bad(<<"[", "a">>), Bad(<<"[", "b", "-", "a", "]">>),
   Bad(<<"(", "(", "(", "(">>), Bad(<<")">>), Bad(<<"(", "a">>), Bad(<<"{">>), Bad(<<"a", "\\">>)}

Subject(p, fold) == [re |-> p.x, pat |-> p.t, fold |-> fold]
RegexSubjects ==
  {Subject(p, FALSE) : p \in Loops \cup Counted \cup Ahead \cup Others \cup Refused}
  \cup {Subject(p, TRUE) : p \in {ca, Star(ca), Group(ca), Then(ca, cb)}}
RegexTexts ==
  {<<>>, <<"a">>, <<"a", "b">>, <<"a", "a", "b">>, <<"b", "a", "a">>, <<"a", "\n", "b">>, <<"A", "b", " ">>}

-----------------------------------------------------------------------------
(***************************************************************************)
(* The calls of String methods that MCValues makes (see StrOps): every     *)
(* string of up to some length over the characters a method tells apart,   *)
(* with indices from before the string to behind its end.                  *)
(***************************************************************************)

Strs(A, n) == UNION {[1..k -> A] : k \in 0..n}

\* Parts of strings, and characters
Parts ==
  {[op |-> "substr", s |-> t, beg |-> b, n |-> n] :
       t \in [1..2 -> {"a","b"}], b \in -2..3, n \in -1..3}
  \cup {[op |-> "subseq", s |-> t, beg |-> b, end |-> n] :
       t \in Strs({"a","b"}, 3), b \in -4..4, n \in -4..4}
  \cup {[op |-> "replace2", s |-> t, beg |-> b, end |-> n, v |-> v] :
       t \in [1..3->{"a","b"}], b \in -4..4, n \in -3..4, v \in {<<>>, <<"z","z">>}}
  \cup {[op |-> "aset", s |-> t, beg |-> b, n |-> n, v |-> v] :
       t \in [1..3 -> {"a","b"}], b \in -4..3, n \in -1..4, v \in {<<>>, <<"z","z">>}}
  \cup {[op |-> o, s |-> t, off |-> b, v |-> v] :
       o \in {"index", "rindex"}, t \in Strs({"a","b"}, 3), b \in 0..4,
       v \in Strs({"a","b"}, 2)}
  \cup {[op |-> "upto", s |-> t, v |-> v] :
       t \in Strs({"a","z","9","-"}, 2) \ {<<>>},
       v \in {<<"z">>, <<"z","z">>, <<"9", "z">>}}
  \cup {[op |-> "tr", s |-> t, src |-> x, repl |-> y, sflag |-> f] :
       t \in Strs({"a","b","c"}, 3),
       x \in {<<"a">>, <<"a","-","b">>, <<"^","a","b">>, <<"c","-","a","b">>},
       y \in {<<>>, <<"b">>, <<"b","-","z">>}, f \in BOOLEAN}
  \cup {[op |-> o, s |-> t, v |-> y] :
       o \in {"delete", "squeeze"}, t \in Strs({"a","b","c"}, 3),
       y \in {<<>>, <<"b">>, <<"a","-","c">>, <<"^", "b">>}}
  \cup {[op |-> "strip", s |-> t] : t \in Strs({" ", "a", "\n"}, 4)}
  \cup {[op |-> "just", s |-> t, w |-> w, how |-> h] :
       t \in Strs({"a"}, 2), w \in 0..5, h \in {"l", "r", "c"}}

\* Loops over matches and separators
Pieces ==
  {[op |-> "gsub", s |-> t, pat |-> p, once |-> o] :
       t \in Strs({"a","b","\n"}, 4), p \in {"a","a*","$"}, o \in BOOLEAN}
  \cup {[op |-> "scan", s |-> t, pat |-> p] :
       t \in Strs({"a","b","\n"}, 4), p \in {"a","a*","$"}}
  \cup {[op |-> "split", s |-> t, sep |-> c, pat |-> p, lim |-> l] :
       t \in Strs({"a",",", " "}, 4), c \in {"", " ", ","}, p \in {"a", "a*"}, l \in 0..3}
  \cup {[op |-> "lines", s |-> t, rs |-> r] :
       t \in Strs({"a","\n","b"}, 5), r \in {<<>>, <<"\n">>, <<"a", "\n">>}}

\* Strings as wholes
Whole ==
  {[op |-> "case", s |-> t, how |-> h] :
       t \in Strs({"a","Z","9"}, 3), h \in {"up", "down", "cap", "swap"}}
  \cup {[op |-> "chop", s |-> t] : t \in Strs({"a","\r","\n"}, 3)}
  \cup {[op |-> "times", s |-> t, n |-> n] : t \in Strs({"a","b"}, 2), n \in -1..3}
  \cup {[op |-> "cmp", s |-> t, v |-> u, fold |-> f] :
       t \in Strs({"a","Z"}, 2), u \in Strs({"A", "a", "z"}, 3), f \in BOOLEAN}
StringJobs == Parts \cup Pieces \cup Whole

-----------------------------------------------------------------------------
(***************************************************************************)
(* The templates and values that MCValues packs and unpacks (see Pack).    *)
(* Numbers at the ends of each width, texts with the bytes that uuencode   *)
(* and padding treat apart, and bit and hex strings of every length around *)
(* a byte; counts that are short, exact, too long, and "*".                *)
(***************************************************************************)

All == -1
Sizes == ("c" :> 1) @@ ("C" :> 1) @@ ("s" :> 2) @@ ("n" :> 2) @@ ("S" :> 2) @@ ("v" :> 2) @@ ("l" :> 3) @@ ("N" :> 3)
Dir(t, n) == [t |-> t, n |-> n]
Nums ==
  {0, -1, 128, 255, 258, 32768, -32769, 65535}
Bytes == UNION {[1..k -> {0, 32, 65, 255}] :
       k \in 0..3} \cup {<<65, 255, 32, 1>>, <<1,2,3,4,5,6,7>>}
DigitStrings == UNION {[1..k -> {0, 9, 15}] :
       k \in 0..3} \cup {<<1,0,1,1,1,0,1,1,1>>, <<0,0,0,0,0,0,0,1>>}
NumberJobs ==
  {[fmt |-> <<Dir(t, n), Dir(u, 1)>>, ary |-> <<a, b>>] :
       t \in DOMAIN Sizes, n \in {1, 2}, u \in DOMAIN Sizes, a \in Nums, b \in {-1, 258}}
  \cup {[fmt |-> <<Dir(t, All)>>, ary |-> <<a, b>>] :
       t \in DOMAIN Sizes, a \in Nums, b \in {-1, 258}}
TextJobs ==
  {[fmt |-> <<Dir(t, n), Dir("u", k)>>, ary |-> <<a, b>>] :
       t \in {"a"}, n \in {0, 2, 5}, k \in {1, 3, 5, All}, a \in Bytes,
       b \in {<<65>>, <<32, 65, 255, 0, 7>>}}
  \cup {[fmt |-> <<Dir("n", 1), Dir("u", k)>>, ary |-> <<8224, a>>] :
       k \in {1, 3, 5}, a \in Bytes}
  \cup {[fmt |-> <<Dir(t, n), Dir("x", 2), Dir("X", 1), Dir("@", 4), Dir("C", 1)>>, ary |-> <<a, 7>>] :
       t \in {"a", "A"}, n \in {0, 2, 3}, a \in Bytes}
DigitJobs ==
  {[fmt |-> <<Dir("c", 1), Dir(t, n)>>, ary |-> <<-3, a>>] :
       t \in {"b", "B", "h", "H"}, n \in {All}, a \in DigitStrings}
  \cup {[fmt |-> <<Dir("c", 1), Dir(t, n)>>, ary |-> <<-3, a>>] :
       t \in {"a", "A"}, n \in {All}, a \in Bytes}
  \cup {j \in {[fmt |-> <<Dir(t, n), Dir("X", 9)>>, ary |-> <<a>>] :
       t \in {"b", "B", "h", "H"}, n \in 0..3,
       a \in DigitStrings} : j.fmt[1].n <= Len(j.ary[1])}
  \cup {j \in {[fmt |-> <<Dir(t, n), Dir("C", 1)>>, ary |-> <<a, 5>>] :
       t \in {"b", "B", "h", "H"}, n \in 0..3,
       a \in DigitStrings} : j.fmt[1].n <= Len(j.ary[1])}
PackJobs == NumberJobs \cup TextJobs \cup DigitJobs

-----------------------------------------------------------------------------
(***************************************************************************)
(* What MCValues converts (see Kconv): short texts in each code, those     *)
(* longer than the hold buffer, and MIME words between texts and after     *)
(* calls that left something behind.                                       *)
(***************************************************************************)

ascii(c) == [t |-> "ascii", c |-> c]
kanji(c2, c1) == [t |-> "kanji", c2 |-> c2, c1 |-> c1]
kana(c) == [t |-> "kana", c |-> c]
Eq == ascii(61)
Qm == ascii(63)

\* Five half-width kana, two that take a voiced mark (222), one a half-voiced one
KanaTable == (177 :> <<37, 34>>) @@ (182 :> <<37, 43>>) @@ (202 :> <<37, 79>>)
             @@ (222 :> <<33, 43>>) @@ (223 :> <<33, 44>>)
VoicedTable == (182 :> <<37, 44>>) @@ (202 :> <<37, 80>>)
HalfVoicedTable == 202 :> <<37, 81>>

\* "8?Q?", "2?B?" and "2?Q?" for ISO-8859-1, ISO-2022-JP and ISO-2022-JP
Patterns == <<<<56, 63, 81, 63>>, <<50, 63, 66, 63>>, <<50, 63, 81, 63>>>>
Encodings == <<"Q", "B", "Q">>

Digit64(x) ==
  IF x < 26 THEN x + 65 ELSE IF x < 52 THEN x + 71 ELSE IF x < 62 THEN x - 4 ELSE IF x = 62 THEN 43 ELSE 47
Group64(g) ==
  LET x(i) == IF i <= Len(g) THEN g[i] ELSE 0
  IN  <<Digit64(x(1) \div 4), Digit64((x(1) % 4) * 16 + x(2) \div 16),
        IF Len(g) < 2 THEN 61 ELSE Digit64((x(2) % 16) * 4 + x(3) \div 64),
        IF Len(g) < 3 THEN 61 ELSE Digit64(x(3) % 64)>>
Join(ss) == FoldLeft(LAMBDA x, y : x \o y, <<>>, ss)
Base64(g) == Join([i \in 1..(Len(g) + 2) \div 3 |-> Group64(SubSeq(g, 3 * i - 2, Min({3 * i, Len(g)})))])

\* A text in JIS: each run of one character set behind the sequence that turns it on
Turns(ch) == CASE ch.t = "kanji" -> <<27, 36, 66>> [] ch.t = "kana" -> <<27, 40, 73>> [] OTHER -> <<27, 40, 66>>
JisText(t) ==
  LET n == Len(t)
      on(i) == IF i \in 1..n THEN Turns(t[i]) ELSE <<27, 40, 66>>
      esc(i) == IF on(i) # on(i - 1) THEN on(i) ELSE <<>>
      code(ch) == CASE ch.t = "kanji" -> <<ch.c2, ch.c1>> [] ch.t = "kana" -> <<ch.c - 128>> [] OTHER -> <<ch.c>>
  IN  Join([i \in 1..n |-> esc(i) \o code(t[i])]) \o esc(n + 1)

WordB(t) ==
  [t |-> "word", text |-> t,
   bytes |-> <<61, 63, 50, 63, 98, 63>> \o Base64(JisText(t)) \o <<63, 61>>]
WordQ(set, t, bytes) ==
  [t |-> "word", text |-> t, bytes |-> <<61, 63, set, 63, 81, 63>> \o bytes \o <<63, 61>>]
Txt(t) == [t |-> "text", text |-> t]
Unclosed(t) == [t |-> "open", text |-> t]
Words ==
  {WordB(t) : t \in [1..2 -> {ascii(97), kanji(48, 33), kanji(116, 38), kana(177)}]}
  \cup {WordQ(56, <<ascii(97), ascii(32), Qm, ascii(98), Eq>>, <<97, 95, 63, 98, 61, 51, 100>>),
        WordQ(50, <<ascii(75)>>, <<61, 52, 66>>)}

Code == {"JIS", "EUC", "SJIS"}
Conv(t, src, inc, outc) == [text |-> t, src |-> src, inc |-> inc, outc |-> outc]

\* One text, of any code, taken for what it is or found out; not one that ends in
\* what may be the beginning of a MIME word
Letters == {ascii(97), Eq, Qm, kanji(48, 33), kanji(49, 96), kanji(94, 126), kanji(95, 95),
            kanji(112, 33), kanji(116, 38), kana(177), kana(182), kana(222)}
Ends(t) == Len(t) > 1 /\ t[Len(t) - 1] = Eq /\ t[Len(t)] = Qm
Short == {t \in UNION {[1..n -> Letters] : n \in 0..2} \cup [1..3 -> {Eq, Qm, kana(182), kana(222)}] : ~Ends(t)}
Known == {<<"JIS", "AUTO">>, <<"EUC", "AUTO">>, <<"SJIS", "AUTO">>, <<"EUC", "EUC">>,
          <<"JIS", "SJIS">>, <<"SJIS", "SJIS">>}
Alone == {<<Conv(<<Txt(t)>>, s[1], s[2], o)>> : t \in Short, s \in Known, o \in Code}

\* More than the hold buffer has room for
Long == {<<Conv(<<Txt(t)>>, s, "AUTO", "JIS")>> :
          t \in [1..4 -> {ascii(97), kanji(112, 33), kanji(116, 38), kanji(48, 33)}], s \in Code}

\* MIME words between texts, and after a call that left something behind
Around == {<<>>, <<ascii(97)>>, <<kanji(48, 33)>>}
Mime == {<<Conv(<<Txt(a), w, Txt(b)>>, s, i, o)>> :
          a \in Around, b \in Around, w \in Words, s \in {"EUC", "JIS"}, i \in {"AUTO", "EUC"}, o \in {"JIS", "SJIS"}}
Before ==
  {<<Txt(<<ascii(97), kana(177)>>)>>, <<Unclosed(<<Eq, Qm>>)>>,
   <<Unclosed(<<Eq, Qm, ascii(56), Qm, ascii(81), Qm, ascii(97)>>)>>,
   <<Unclosed(<<Eq, Qm, ascii(50), Qm, ascii(66), Qm, ascii(97)>>)>>,
   <<WordB(<<kanji(48, 33)>>)>>, <<Txt(<<kanji(116, 38)>>)>>}
Twice == {<<Conv(x, "EUC", "AUTO", "JIS"), Conv(<<Txt(<<kanji(48, 33), ascii(97)>>), w>>, s, "AUTO", o)>> :
           x \in Before, w \in Words, s \in Code, o \in {"JIS", "EUC"}}
KconvJobs == UNION {Alone, Long, Mime, Twice}

-----------------------------------------------------------------------------
(***************************************************************************)
(* Formats for Sprintf, and dates and a zone for Time.                     *)
(***************************************************************************)

Arg(n) == [n |-> n, s |-> <<"h", "i">>, c |-> "h"]
Piece(text, conv, fl, w, pr, args) ==
  [text |-> text, conv |-> conv, fl |-> fl, w |-> w, pr |-> pr, args |-> args]
PlainPiece == Piece(<<"x">>, "", {}, 0, 0, <<>>)
WholeFormat(pieces) == [pieces |-> pieces, short |-> FALSE]

\* Both ends of Fixnum (a word has 8 bits) and Bignums of two and three digits
Ints == {0, 1, 9, 10, 63, 64, 65, 100, 300, -1, -9, -10, -63, -64, -65, -100, -300}
Fields == {<<<<>>, {}, 0, 0>>, <<<<"4">>, {}, 4, 0>>, <<<<"0", "5">>, {"0"}, 5, 0>>, <<<<" ", ".", "5">>, {}, 0, 5>>}
OfInt(conv, ints) ==
  {Piece(<<"%">> \o f[1] \o <<conv>>, IF conv = "D" THEN "d" ELSE conv, f[2], f[3], f[4], <<Arg(n)>>) :
     f \in Fields, n \in ints}
\* The precision counts a Bignum's sign as a digit, and that is not asked for.
Decimal == {x \in OfInt("d", Ints) : x.pr = 0 \/ x.args[1].n >= -64}
Natural == UNION {OfInt(c, {n \in Ints : n >= 0}) : c \in {"x", "o", "u", "b", "B"}}
\* %X has the digits of the C library for a Fixnum and those of %x for a Bignum.
Capital == OfInt("X", {1, 9, 100}) \cup {Piece(<<"%", "X">>, "X", {}, 0, 0, <<Arg(-9)>>)}
\* Without the flag 0; in base 16, without those whose first digit is c or d; of
\* Bignums those whose complement has its first bit set.
Negative ==
  {Piece(<<"%">> \o f[1] \o <<c>>, c, f[2], f[3], f[4], <<Arg(n)>>) :
     c \in {"x", "o"}, f \in {<<<<>>, {}, 0, 0>>, <<<<"7">>, {}, 7, 0>>}, n \in {-1, -2, -7, -8, -9, -15, -16, -17, -31, -32}}
  \cup {Piece(<<"%", "o">>, "o", {}, 0, 0, <<Arg(n)>>) : n \in {-62, -63, -64, -65, -70}}
  \cup {Piece(<<"%", "x">>, "x", {}, 0, 0, <<Arg(n)>>) : n \in {-65, -70, -80, -100}}
Signs ==
  {Piece(<<"%", "+", "d">>, "d", {"+"}, 0, 0, <<Arg(7)>>), Piece(<<"%", "-", "5", "d">>, "d", {"-"}, 5, 0, <<Arg(-7)>>),
   Piece(<<"%", "-", "0", "5", "d">>, "d", {"-", "0"}, 5, 0, <<Arg(7)>>), Piece(<<"%", "6", ".", "3", "d">>, "d", {}, 6, 3, <<Arg(-7)>>),
   Piece(<<"%", "*", "d">>, "d", {}, 5, 0, <<Arg(5), Arg(12)>>), Piece(<<"%", "*", "d">>, "d", {"-"}, 5, 0, <<Arg(-5), Arg(12)>>),
   Piece(<<"%", ".", "*", "d">>, "d", {}, 0, 4, <<Arg(4), Arg(12)>>)}
Textual ==
  {Piece(<<"%", "s">>, "s", {}, 0, 0, <<Arg(0)>>), Piece(<<"%", "4", "s">>, "s", {}, 4, 0, <<Arg(0)>>),
   Piece(<<"%", "-", "4", "s">>, "s", {"-"}, 4, 0, <<Arg(0)>>), Piece(<<"%", ".", "1", "s">>, "s", {}, 0, 1, <<Arg(0)>>),
   Piece(<<"%", "4", ".", "2", "s">>, "s", {}, 4, 2, <<Arg(0)>>), Piece(<<"%", "c">>, "c", {}, 0, 0, <<Arg(0)>>),
   Piece(<<"%", "%">>, "%", {}, 0, 0, <<>>)}
PercentLine == <<Piece(<<"%">>, "%", {}, 0, 0, <<>>), Piece(<<"\n">>, "", {}, 0, 0, <<>>)>>
BadFormats == {Piece(<<"%", "k">>, "", {}, 0, 0, <<>>), Piece(<<"%", "5">>, "", {}, 0, 0, <<>>), Piece(<<"%", ".", "5">>, "", {}, 0, 0, <<>>),
        Piece(<<"%", "5", "*", "d">>, "d", {}, 0, 0, <<Arg(1), Arg(2)>>), Piece(<<"%", ".", "5", ".", "5", "d">>, "d", {}, 0, 0, <<Arg(1)>>)}
SprintfJobs ==
  {WholeFormat(<<PlainPiece, x>>) : x \in Decimal \cup Natural \cup Capital \cup Textual} \cup {WholeFormat(<<x>>) : x \in Negative \cup BadFormats}
  \cup {WholeFormat(<<x, y>>) : x \in Textual \cup Signs, y \in Signs \cup {PlainPiece}}
  \cup {WholeFormat(PercentLine), WholeFormat(<<PlainPiece, PercentLine[1]>>)}
  \cup {[pieces |-> <<x>>, short |-> TRUE] : x \in {y \in Signs \cup Textual : y.args # <<>>}}

-----------------------------------------------------------------------------
\* Leap years and the years beside them, both ends of months, days a month does not
\* have, years of two digits, and what is out of range
TimeDates ==
  {<<y, <<"num", m>>, d, 12, 0, 0>> : y \in {1996, 97, 1972, 2000}, m \in {0, 1, 2, 3, 9, 11}, d \in {1, 31}}
  \cup {<<70, <<"nil">>, 1, 0, 0, 0>>, <<37, <<"text", 1>>, 2, 3, 4, 5>>, <<1999, <<"name", 11>>, 31, 23, 59, 61>>,
        <<2038, <<"num", 11>>, 1, 0, 0, 0>>, <<69, <<"num", 12>>, 1, 0, 0, 0>>, <<1969, <<"num", 0>>, 1, 0, 0, 0>>,
        <<97, <<"num", 0>>, 0, 0, 0, 0>>}
\* Noon of 31 December 1996, of 1 January and 29 February 1996, of 30 June 1997
TimeNows == {852033600, 820497600, 825595200, 867672000}
\* An hour ahead, and two from 31 March to 27 October of 1996
ZoneOffset(t) == IF t >= 828234000 /\ t < 846378000 THEN 7200 ELSE 3600
TimeSpans ==
  {[type |-> "Integer", sec |-> 100, usec |-> 0], [type |-> "Integer", sec |-> -1, usec |-> 0],
   [type |-> "Float", sec |-> 1, usec |-> 500000], [type |-> "Time", sec |-> 100, usec |-> 999999]}

=============================================================================
