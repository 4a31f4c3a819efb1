------------------------------- MODULE Kconv -------------------------------
(***************************************************************************)
(* ext/kconv/kconv.c: conversion between JIS, EUC and Shift JIS, with the  *)
(* input code detected as the text is read and MIME words decoded.  Bytes  *)
(* are numbers; a step is one turn of the main loop.  The flags do_kconv() *)
(* always turns off (folding, rot13, alphabet conversion, repair of broken *)
(* JIS) are left out with the code behind them.                            *)
(***************************************************************************)
EXTENDS Integers, Sequences, SequencesExt, FiniteSetsExt

CONSTANTS
  Jobs,          \* sequences of calls [text, src, inc, outc]
  Cv, Dv, Ev,    \* the kana tables: kana -> <<c2, c1>>; Dv, Ev partial
  MimePattern,   \* sequence of byte sequences, after "=?"
  MimeEncode,    \* as many letters "B", "Q"
  HoldSize       \* HOLD_SIZE

EOF == -1
ESC == 27
SP == 32
AT == 64
DEL == 127
SSO == 142
SSP == 160
SI == 15
SO == 14
EQ == 61        \* =
QM == 63        \* ?
Intro == [X0208 |-> <<ESC, 36, 66>>, X0201 |-> <<ESC, 40, 73>>, ASCII |-> <<ESC, 40, 66>>]

VARIABLES job, call, k
kcvars == <<job, call, k>>

-----------------------------------------------------------------------------
(* Output *)

\* PUTCHAR() keeps a byte for the NUL and drops what does not fit.
Put(s, bytes) == [s EXCEPT !.out = SubSeq(@ \o bytes, 1, Min({Len(@ \o bytes), s.room - 1}))]
InRange(c) == c \in 32..126

e_oconv(s, c2, c1) ==
  CASE c2 = EOF -> s
    [] c2 = 0 -> Put(s, IF c1 % 256 >= 128 THEN <<SSO, c1 % 256>> ELSE <<c1>>)
    [] OTHER -> IF InRange(c1) /\ InRange(c2) THEN Put(s, <<c2 + 128, c1 + 128>>)
                ELSE [s EXCEPT !.estab = FALSE]
s_oconv(s, c2, c1) ==
  CASE c2 = EOF -> s
    [] c2 = 0 -> Put(s, <<c1 % 256>>)
    [] OTHER ->
         IF InRange(c1) /\ InRange(c2)
         THEN Put(s, <<((c2 - 1) \div 2) + (IF c2 <= 94 THEN 113 ELSE 177),
                       c1 + (IF c2 % 2 = 1 THEN IF c1 < 96 THEN 31 ELSE 32 ELSE 126)>>)
         ELSE [s EXCEPT !.estab = FALSE]
\* Change to a mode with its escape sequence.
Mode(s, m) == IF s.omode = m THEN s ELSE [Put(s, Intro[m]) EXCEPT !.omode = m]
j_oconv(s, c2, c1) ==
  CASE c2 = EOF -> IF s.omode # "ASCII" THEN Put(s, Intro.ASCII) ELSE s
    [] c2 = 0 /\ c1 % 256 >= 128 ->
         IF s.imode = "X0201" \/ ~s.iso THEN Put(Mode(s, "X0201"), <<c1 % 128>>) ELSE Put(s, <<c1 % 256>>)
    [] c2 = 0 -> Put(Mode(s, "ASCII"), <<c1>>)
    [] OTHER -> LET t == Mode(s, "X0208") IN IF InRange(c1) /\ InRange(c2) THEN Put(t, <<c2, c1>>) ELSE t

\* pre_convert() takes the eighth bits off, then the output code's converter.
oconv(s, c2, c1) ==
  LET d2 == IF c2 = EOF THEN EOF ELSE c2 % 128
      d1 == IF c2 # 0 THEN c1 % 128 ELSE c1
  IN  CASE s.outc = "EUC" -> e_oconv(s, d2, d1)
        [] s.outc = "SJIS" -> s_oconv(s, d2, d1)
        [] OTHER -> j_oconv(s, d2, d1)

s_iconv(s, c2, c1) ==
  IF c2 \in {EOF, 0} THEN oconv(s, c2, c1)
  ELSE LET d2 == 2 * c2 - (IF c2 <= 159 THEN 225 ELSE 353)
       IN  IF c1 < 159 THEN oconv(s, d2, c1 - (IF c1 > DEL THEN 32 ELSE 31)) ELSE oconv(s, d2 + 1, c1 - 126)
iconv(s, c2, c1) == IF s.sjis THEN s_iconv(s, c2, c1) ELSE oconv(s, c2, c1)
Sent(s, c2, c1) == [(IF s.imode = "X0208" THEN oconv(s, c2, c1) ELSE iconv(s, c2, c1)) EXCEPT !.c2 = 0]

-----------------------------------------------------------------------------
(* Input.  The byte read is left in c. *)

GETC0(s) == IF s.p <= Len(s.in) THEN [s EXCEPT !.c = s.in[s.p], !.p = @ + 1] ELSE [s EXCEPT !.c = EOF]
\* It writes into the string that is converted, also when the byte is EOF.
UNGETC0(s, c) == [s EXCEPT !.p = @ - 1, !.in[s.p - 1] = c % 256]

base64decode(c) ==
  IF c > 64 THEN IF c < 91 THEN c - 65 ELSE c - 71
  ELSE IF c > 47 THEN c + 4 ELSE IF c = 43 THEN 62 ELSE 63
RECURSIVE SkipSpaces(_)
SkipSpaces(s) == IF s.c = SP THEN SkipSpaces(GETC0(s)) ELSE s

\* Four characters of the checked word, whose length is a multiple of four, or its end.
MimeB(s) ==
  LET u == s.und
      t(i) == base64decode(u[i])
      three == <<(t(1) * 4 + t(2) \div 16) % 256, (t(2) * 16 + t(3) \div 4) % 256, (t(3) * 64 + t(4)) % 256>>
      n == IF u[3] = EQ THEN 1 ELSE IF u[4] = EQ THEN 2 ELSE 3
      rest == [s EXCEPT !.und = SubSeq(@, 5, Len(@))]
  IN  IF u[1] = QM /\ u[2] = EQ
      THEN SkipSpaces(GETC0([s EXCEPT !.mime = "no", !.imode = "ASCII", !.und = SubSeq(@, 3, Len(@))]))
      ELSE IF u[2] = EQ THEN [rest EXCEPT !.c = u[1]]
      ELSE [rest EXCEPT !.c = three[1], !.fifo = SubSeq(three, 2, n)]

HexDigit(c) ==
  CASE c \in 48..57 -> c - 48 [] c \in 65..70 -> c - 55 [] c \in 97..102 -> c - 87 [] OTHER -> 0
MimeQ(s) ==
  LET a == GETC0(s)
      b == GETC0(a)
      d == GETC0(b)
      Quit(t) == [t EXCEPT !.mime = "no"]
  IN  CASE a.c = EOF -> a
        [] a.c = 95 -> [a EXCEPT !.c = SP]
        [] a.c \notin {EOF, 95, EQ, QM} -> a
        [] a.c \in {EQ, QM} /\ b.c <= SP -> Quit(b)
        [] a.c = QM /\ b.c = EQ -> GETC0([Quit(b) EXCEPT !.imode = "ASCII", !.iso = s.isosave])
        [] a.c = QM /\ b.c > SP /\ b.c # EQ -> [UNGETC0(b, b.c) EXCEPT !.c = QM]
        [] a.c = EQ /\ b.c > SP -> IF d.c = EOF THEN Quit(d)
                                   ELSE [d EXCEPT !.c = HexDigit(b.c) * 16 + HexDigit(d.c)]

mime_getc(s) ==
  IF s.fifo # <<>> THEN [s EXCEPT !.c = Head(s.fifo), !.fifo = Tail(@)]
  ELSE CASE s.mime = "Q" -> MimeQ(s) [] s.mime = "B" -> MimeB(s) [] OTHER -> GETC0([s EXCEPT !.mime = "no"])
GETC(s) == IF s.mime = "no" THEN GETC0(s) ELSE mime_getc(s)
\* In a MIME word the byte goes behind the decoded ones that are still to be read.
UNGETC(s, c) == IF s.mime = "no" THEN UNGETC0(s, c) ELSE [s EXCEPT !.fifo = Append(@, c % 256)]

\* The word is read to its end; without one it is given back undecoded.
IsBase64(c) == c \in ((48..57) \cup (65..90) \cup (97..122) \cup {43, 47, EQ, QM})
RECURSIVE mime_integrity(_, _, _)
mime_integrity(s, header, got) ==
  LET g == GETC0(s)
  IN  IF g.c = EQ /\ got # <<>> /\ Last(got) = QM
      THEN [g EXCEPT !.und = Append(got, EQ), !.fifo = <<>>]
      ELSE IF g.c = EOF \/ ~IsBase64(g.c)
           THEN [g EXCEPT !.und = <<>>, !.fifo = header \o got \o <<g.c % 256>>, !.mime = "1"]
           ELSE mime_integrity(g, header, Append(got, g.c))

\* After =? each pattern is tried in turn; r holds what was read.  When all fail it
\* is put out as it is, and a byte too many goes back.
Upper(c) == IF c \in 97..122 THEN c - 32 ELSE c
RECURSIVE MimeMatch(_, _, _)
MimeMatch(s, j, r) ==
  LET P == MimePattern
      i == Len(r) + 1
      g == GETC0(s)
      Fits(m) == SubSeq(P[m], 1, i - 1) = SubSeq(P[j], 1, i - 1) /\ P[m][i] = Upper(g.c)
      later == {m \in j + 1..Len(P) : Fits(m)}
      Plain(t) == FoldLeft(LAMBDA a, c : oconv(a, 0, c), t, <<EQ, QM>> \o r)
  IN  IF i > Len(P[j])
      THEN LET f == [s EXCEPT !.isosave = s.iso, !.iso = @ \/ j = 1, !.mime = MimeEncode[j]]
           IN  IF MimeEncode[j] = "B" THEN mime_integrity(f, <<EQ, QM>> \o P[j], <<>>) ELSE f
      ELSE IF P[j][i] = Upper(g.c) THEN MimeMatch(g, j, Append(r, g.c))
      ELSE IF later # {} THEN MimeMatch(g, Min(later), Append(r, g.c))
      ELSE [Plain(UNGETC0(g, g.c)) EXCEPT !.pc = IF g.c = EOF THEN "last" ELSE "loop"]
mime_begin(s) == MimeMatch(s, 1, <<>>)

-----------------------------------------------------------------------------
(* The main loop; c is the byte just read *)

\* A half-width kana becomes a full-width one, with the mark that follows it.
Kana(s, kana, bits) ==
  LET c == kana
      g == GETC(s)
      Wide(t, tab) == oconv(t, tab[c][1], tab[c][2])
      Marks == c \in DOMAIN Dv \/ c \in DOMAIN Ev
  IN  IF ~Marks THEN Wide(s, Cv)
      ELSE CASE g.c = EOF -> [Wide(g, Cv) EXCEPT !.pc = "last"]
             [] g.c = 222 % bits /\ c \in DOMAIN Dv -> Wide(g, Dv)
             [] g.c = 223 % bits /\ c \in DOMAIN Ev -> Wide(g, Ev)
             [] OTHER -> Wide(UNGETC(g, g.c), Cv)

\* The bytes up to DEL go through as they are.
Tight(s) == s.c2 = 0 /\ s.imode = "ASCII" /\ s.mime = "no" /\ s.omode = "ASCII" /\ ~s.shift
              /\ s.c < DEL /\ s.c \notin {EQ, SO, EOF, ESC, 36, 13, 10}

\* The byte of an earlier first byte.
SecondByte(s) ==
  LET c == s.c
      Ignored == [s EXCEPT !.c2 = 0]
  IN  CASE s.c2 > DEL /\ ~s.estab /\ c > SSP ->
             [s EXCEPT !.hold = <<<<s.c2, c>>>>, !.c2 = 0, !.h2 = 0, !.pc = "hold"]
        [] s.c2 > DEL /\ c < AT -> Ignored
        [] s.c2 > DEL /\ ~s.estab /\ c \in AT..SSP -> Sent([s EXCEPT !.estab = TRUE, !.sjis = TRUE], s.c2, c)
        [] s.c2 > DEL /\ s.estab /\ c >= AT -> Sent(s, s.c2, c)
        [] s.c2 <= DEL -> IF c = DEL \/ c <= SP THEN Ignored ELSE Sent(s, s.c2, c)

HighByte(s) ==
  LET c == s.c
      Waits(t) == [t EXCEPT !.c2 = c]
      g == GETC(s)
  IN  CASE ~s.estab /\ ~s.iso ->
             Waits(IF c < SSP THEN [s EXCEPT !.estab = TRUE, !.sjis = TRUE]
                   ELSE IF c < 224 THEN [s EXCEPT !.estab = TRUE, !.sjis = FALSE] ELSE s)
        [] s.iso -> Sent(s, 0, c)
        [] s.estab /\ ~s.iso /\ c \in SSP..223 /\ s.sjis -> IF s.x0201 THEN Kana(s, c, 256) ELSE Sent(s, 0, c)
        [] s.estab /\ ~s.iso /\ c = SSO /\ ~s.sjis -> Sent(g, 0, g.c)
        [] s.estab /\ ~s.iso /\ c < SSP /\ c # SSO /\ ~s.sjis -> Waits([s EXCEPT !.sjis = TRUE])
        [] OTHER -> Waits(s)

Roman(s) ==
  LET c == s.c
      g == GETC0(s)
  IN  CASE s.shift -> IF s.x0201 /\ (~s.iso \/ s.imode = "X0201") /\ c + 128 < 224
                      THEN Kana(s, c + 128, 128) ELSE Sent(s, 0, c + 128)
        [] ~s.shift /\ s.imode = "X0208" -> [s EXCEPT !.c2 = c]
        [] ~s.shift /\ s.imode # "X0208" /\ c = EQ /\ s.mime = "no" ->
             CASE g.c = EOF -> [oconv(g, 0, EQ) EXCEPT !.pc = "last"]
               [] g.c = QM -> mime_begin(g)
               [] OTHER -> UNGETC0(oconv(g, 0, EQ), g.c)
        [] OTHER -> Sent(s, 0, c)

Escape(s) ==
  LET g == GETC(s)
      h == GETC(g)
      Out(t, cs) == FoldLeft(LAMBDA a, c : oconv(a, 0, c), t, cs)
      Stop(t) == [t EXCEPT !.pc = "last"]
      To(t, mode) == [t EXCEPT !.imode = mode, !.shift = (mode = "X0201")]
  IN  CASE g.c = EOF -> Stop(Out(g, <<ESC>>))
        [] g.c = 36 -> IF h.c = EOF THEN Stop(Out(h, <<ESC, 36>>))
                       ELSE IF h.c \in {64, 66} THEN To(h, "X0208") ELSE Out(h, <<ESC, 36, h.c>>)
        [] g.c = 40 -> IF h.c = EOF THEN Stop(Out(h, <<ESC, 40>>))
                       ELSE IF h.c = 73 THEN To(h, "X0201")
                       ELSE IF h.c \in {66, 72, 74} THEN To(h, "ASCII") ELSE Sent(Out(h, <<ESC, 40>>), 0, h.c)
        [] OTHER -> Sent(Out(g, <<ESC>>), 0, g.c)

FirstByte(s) ==
  CASE s.c > DEL -> HighByte(s)
    [] s.c > SP /\ s.c < DEL -> Roman(s)
    [] s.c = SI -> [s EXCEPT !.shift = FALSE]
    [] s.c = SO -> [s EXCEPT !.shift = TRUE]
    [] s.c = ESC -> Escape(s)
    [] OTHER -> Sent(s, 0, s.c)

\* Mutant: the word that fills the buffer or settles the code is forgotten.
Flush_short(s) ==
  [FoldLeft(LAMBDA a, w : iconv(a, w[1], w[2]), s, Front(s.hold)) EXCEPT !.hold = <<>>, !.pc = "loop"]

\* h_conv(): words are held until the code is known, the buffer full or the text at
\* its end.
Flush(s) == [FoldLeft(LAMBDA a, w : iconv(a, w[1], w[2]), s, s.hold) EXCEPT !.hold = <<>>, !.pc = "loop"]
h_conv(s) ==
  LET c == s.c
      Held(t, c2) == LET u == [t EXCEPT !.hold = Append(@, <<c2, c>>), !.h2 = 0]
                     IN  IF u.estab \/ Len(u.hold) >= HoldSize THEN Flush(u) ELSE u
  IN  IF c = EOF THEN Flush(s)
      ELSE IF s.h2 # 0
           THEN IF s.estab \/ c > SSP THEN Held(s, s.h2)
                ELSE IF c < AT THEN Held(s, 0) ELSE Held([s EXCEPT !.estab = TRUE, !.sjis = TRUE], s.h2)
           ELSE IF c > DEL THEN [s EXCEPT !.h2 = c, !.estab = @ \/ c < 224, !.sjis = IF c < 224 THEN c < SSP ELSE @]
           ELSE Held(s, 0)

-----------------------------------------------------------------------------
\* do_kconv()'s preamble: the statics it does not set keep what the last call left.
Begin(s, c, in) ==
  [in |-> in, p |-> 1, c |-> 0, c2 |-> 0, out |-> <<>>, room |-> 3 * Len(in) + 10,
   outc |-> c.outc, x0201 |-> c.inc = "SJIS", estab |-> c.inc # "AUTO", sjis |-> c.inc = "SJIS",
   imode |-> "ASCII", omode |-> "ASCII", shift |-> FALSE, mime |-> "no", hold |-> <<>>, h2 |-> 0, pc |-> "loop",
   fifo |-> s.fifo, und |-> s.und, iso |-> s.iso, isosave |-> s.isosave]

Loop ==
  /\ k.pc = "loop"
  /\ LET g == GETC(k)
     IN  k' = CASE g.c = EOF -> [g EXCEPT !.pc = "last"]
                [] g.c # EOF /\ Tight(g) -> Put(g, <<g.c>>)
                [] g.c # EOF /\ ~Tight(g) /\ k.c2 # 0 -> SecondByte(g)
                [] OTHER -> FirstByte(g)
  /\ UNCHANGED <<job, call>>
Hold ==
  /\ k.pc = "hold"
  /\ k' = h_conv(GETC(k))
  /\ UNCHANGED <<job, call>>
Epilogue ==
  /\ k.pc = "last"
  /\ k' = [iconv(k, EOF, 0) EXCEPT !.pc = "done"]
  /\ UNCHANGED <<job, call>>

-----------------------------------------------------------------------------
(* The three codes, from their definition.  A text is a sequence of        *)
(* [t |-> "ascii", c], [t |-> "kanji", c2, c1] and [t |-> "kana", c].      *)

Row(ch) == ch.c2 - 33
Cell(ch) == ch.c1 - 33
CharSet(ch) == CASE ch.t = "ascii" -> "ASCII" [] ch.t = "kanji" -> "X0208" [] OTHER -> "X0201"
EncChar(code, ch) ==
  CASE ch.t = "ascii" -> <<ch.c>>
    [] code = "EUC" /\ ch.t = "kanji" -> <<ch.c2 + 128, ch.c1 + 128>>
    [] code = "EUC" /\ ch.t = "kana" -> <<142, ch.c>>
    [] code = "SJIS" /\ ch.t = "kana" -> <<ch.c>>
    [] code = "SJIS" /\ ch.t = "kanji" ->
         <<Row(ch) \div 2 + (IF Row(ch) < 62 THEN 129 ELSE 193),
           IF Row(ch) % 2 = 1 THEN 159 + Cell(ch) ELSE 64 + Cell(ch) + (IF Cell(ch) >= 63 THEN 1 ELSE 0)>>
    [] code = "JIS" /\ ch.t = "kanji" -> <<ch.c2, ch.c1>>
    [] code = "JIS" /\ ch.t = "kana" -> <<ch.c - 128>>
Concat(ss) == FoldLeft(LAMBDA a, b : a \o b, <<>>, ss)
Encode(code, text) ==
  LET n == Len(text)
      set(i) == IF i = 0 \/ i = n + 1 THEN "ASCII" ELSE CharSet(text[i])
      esc(i) == IF code = "JIS" /\ set(i) # set(i - 1) THEN Intro[set(i)] ELSE <<>>
  IN  Concat([i \in 1..n |-> esc(i) \o EncChar(code, text[i])]) \o esc(n + 1)

\* A call's text is a sequence of [t |-> "text", text], of MIME words [t |-> "word",
\* bytes, text], and of [t |-> "open", text], a word that is not closed.
Source(c) == Concat([i \in 1..Len(c.text) |->
               IF c.text[i].t = "word" THEN c.text[i].bytes ELSE Encode(c.src, c.text[i].text)])
Plain(c) == Concat([i \in 1..Len(c.text) |-> c.text[i].text])
\* Half-width kana are widened when the input is said to be Shift JIS.
RECURSIVE Widened(_)
Widened(t) ==
  IF t = <<>> THEN <<>>
  ELSE LET ch == Head(t)
           W(tab) == [t |-> "kanji", c2 |-> tab[ch.c][1], c1 |-> tab[ch.c][2]]
           Next2(m) == Len(t) > 1 /\ t[2].t = "kana" /\ t[2].c = m
       IN  IF ch.t # "kana" THEN <<ch>> \o Widened(Tail(t))
           ELSE IF ch.c \in DOMAIN Dv /\ Next2(222) THEN <<W(Dv)>> \o Widened(SubSeq(t, 3, Len(t)))
           ELSE IF ch.c \in DOMAIN Ev /\ Next2(223) THEN <<W(Ev)>> \o Widened(SubSeq(t, 3, Len(t)))
           ELSE <<W(Cv)>> \o Widened(Tail(t))
Expected(c) == Encode(c.outc, IF c.inc = "SJIS" THEN Widened(Plain(c)) ELSE Plain(c))

\* Whether the bytes tell the code: [inc] is right, or what is read settles it.
Ambiguous(ch) == ch.t = "ascii" \/ (ch.t = "kanji" /\ EncChar("SJIS", ch)[1] >= 224 /\ EncChar("SJIS", ch)[2] > SSP)
Decided(c) ==
  CASE c.inc = "AUTO" /\ c.src = "SJIS" ->
         \E i \in 1..Len(Plain(c)) :
           /\ LET ch == Plain(c)[i] IN ch.t = "kanji" /\ ~Ambiguous(ch)
           /\ \A j \in 1..i - 1 : Ambiguous(Plain(c)[j])
           /\ \A j \in 1..i - 1 : Plain(c)[j].t = "kanji" => i - j < HoldSize
    [] c.inc = "AUTO" /\ c.src = "EUC" -> \A i \in 1..Len(Plain(c)) : Plain(c)[i].t # "kana"
    [] c.src = "JIS" -> TRUE
    [] OTHER -> c.inc = c.src
\* A text that ends in what may begin a MIME word: the byte given back at its end is
\* written into it, and an open ISO-8859 word is still open in the next call.
Open(c) == \E i \in 1..Len(c.text) : c.text[i].t = "open"

Init ==
  /\ job \in Jobs /\ call = 0
  /\ k = [pc |-> "done", fifo |-> <<>>, und |-> <<>>, iso |-> FALSE, isosave |-> FALSE]
kconv_kconv ==
  /\ k.pc = "done" /\ call < Len(job)
  /\ call' = call + 1
  /\ k' = Begin(k, job[call'], Source(job[call']))
  /\ UNCHANGED job
Next == Loop \/ Hold \/ Epilogue \/ kconv_kconv
Spec == Init /\ [][Next]_kcvars

\* A text whose code is given, or is settled by what the text holds while no more than
\* the hold buffer is undecided, comes out as the same characters in the other code,
\* whatever was converted before; MIME words come out decoded; and the string that is
\* converted stays as it was.  The output must fit into three times the input.
Converts ==
  k.pc = "done" /\ call > 0 /\ (\A i \in 1..call : ~Open(job[i])) /\ Decided(job[call]) =>
    /\ Len(Expected(job[call])) < k.room => k.out = Expected(job[call])
    /\ k.in = Source(job[call])

=============================================================================
