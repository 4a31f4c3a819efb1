-------------------------------- MODULE Argf --------------------------------
(***************************************************************************)
(* io.c: reading the files named on the command line as one stream (gets,  *)
(* ARGF, $<), with -i also writing each of them anew, and how gets finds   *)
(* the end of a line.  A byte is <<file, position, character>>; the line   *)
(* numbers $. are left out.                                                *)
(***************************************************************************)
EXTENDS Integers, Sequences, SequencesExt, FiniteSets, FiniteSetsExt

CONSTANTS
  Name,         \* names of files; "-" is the standard input
  Content,      \* Name \cup {"-"} -> the characters in it
  Absent,       \* names no file has
  Stuck,        \* files whose directory cannot be written: renaming them fails
  ArgvMax,      \* arguments on the command line
  BufLen,       \* characters gets() puts in its buffer at a time
  PrintMax      \* bytes that are printed

VARIABLES
  a,            \* the statics of io.c, see Init
  hist          \* got, opened, cut: what was read, in order, the files opened, and
                \* those skipped or closed before their end; printed: to whom
avars == <<a, hist>>

Bytes(n) == [i \in 1..Len(Content[n]) |-> <<n, i, Content[n][i]>>]
Ch(b) == b[3]

-----------------------------------------------------------------------------
(* A line *)

\* Mutant: of the lines between two paragraphs all but the last are skipped.
Newlines_less(t) == Max({Min({i \in 1..Len(t) + 1 : i > Len(t) \/ Ch(t[i]) # "\n"}) - 2, 0})

\* io_gets_method(): rs is <<>> for nil, <<"">> for a paragraph.  The line grows by
\* buffers; a buffer ends behind the separator's last character or when it is full.
Newlines(t) == Min({i \in 1..Len(t) + 1 : i > Len(t) \/ Ch(t[i]) # "\n"}) - 1
SepOf(rs) == IF rs = <<"">> THEN <<"\n", "\n">> ELSE rs
EndsIn(t, sep) == Len(t) >= Len(sep) /\ \A i \in 1..Len(sep) : Ch(t[Len(t) - Len(sep) + i]) = sep[i]
RECURSIVE Grow(_, _, _)
Grow(line, rest, sep) ==
  LET stop == {i \in 1..Len(rest) : i = BufLen \/ (sep # <<>> /\ Ch(rest[i]) = Last(sep))}
      n == IF stop = {} THEN Len(rest) ELSE Min(stop)
      l2 == line \o SubSeq(rest, 1, n)
      r2 == SubSeq(rest, n + 1, Len(rest))
  IN  IF stop = {} \/ (sep # <<>> /\ EndsIn(l2, sep)) THEN <<l2, r2>> ELSE Grow(l2, r2, sep)
GetsLine(rest, rs) ==
  LET para == rs = <<"">>
      r0 == IF para THEN SubSeq(rest, Newlines(rest) + 1, Len(rest)) ELSE rest
      g == Grow(<<>>, r0, SepOf(rs))
  IN  IF ~para THEN g ELSE <<g[1], SubSeq(g[2], Newlines(g[2]) + 1, Len(g[2]))>>

-----------------------------------------------------------------------------
(* The statics: file is the name of the file being read, open and rest are it, *)
(* in and sopen the standard input                                             *)

Rest(s) == IF s.file = "-" THEN s.in ELSE s.rest
IsOpen(s) == IF s.file = "-" THEN s.sopen ELSE s.open
\* Mutant: what is left is that of the file named last, also for the standard input.
SetRest_file(s, r) == [s EXCEPT !.rest = r]

SetRest(s, r) == IF s.file = "-" THEN [s EXCEPT !.in = r] ELSE [s EXCEPT !.rest = r]
Closed(s) == IF s.file = "-" THEN [s EXCEPT !.sopen = FALSE] ELSE [s EXCEPT !.open = FALSE]
Raise(s) == [s EXCEPT !.raised = TRUE]

\* Mutant: the default output stays the file that was written before.
Inplace_out(s, n) ==
  LET s1 == IF s.out = "stdout" THEN s ELSE [s EXCEPT !.closed = @ \cup {s.out}]
  IN  IF n \in Stuck THEN [s1 EXCEPT !.kept = TRUE] ELSE [s1 EXCEPT !.new[n] = <<>>, !.closed = @ \ {n}]

\* With -i: the old file gets another name or is removed, the new one is the
\* default output.  If that fails file stays what it was, and so does next_p.
Inplace(s, n) ==
  LET s1 == IF s.out = "stdout" THEN s ELSE [s EXCEPT !.closed = @ \cup {s.out}]
  IN  IF n \in Stuck THEN [s1 EXCEPT !.kept = TRUE]
      ELSE [s1 EXCEPT !.new[n] = <<>>, !.out = n, !.closed = @ \ {n}]

next_argv(s) ==
  LET s1 == IF s.init THEN s
            ELSE [s EXCEPT !.init = TRUE,
                           !.next = IF s.argv # <<>> THEN 1 ELSE -1,
                           !.file = IF s.argv # <<>> THEN @ ELSE "-"]
      s2 == [s1 EXCEPT !.next = 0, !.argv = Tail(s1.argv)]
      n  == Head(s1.argv)
      s3 == IF s2.inplace THEN Inplace([s2 EXCEPT !.kept = FALSE], n) ELSE [s2 EXCEPT !.kept = FALSE]
  IN  IF s1.next # 1 THEN [s1 EXCEPT !.ok = TRUE]
      ELSE IF s1.argv = <<>> THEN [s1 EXCEPT !.init = FALSE, !.next = 0, !.ok = FALSE, !.over = TRUE]
      ELSE IF n = "-" THEN [s2 EXCEPT !.file = "-", !.ok = TRUE,
                                      !.out = IF s2.inplace THEN "stdout" ELSE @]
      ELSE IF n \in Absent THEN Raise([s2 EXCEPT !.ok = FALSE])
      ELSE IF s3.kept THEN [s3 EXCEPT !.ok = TRUE]
      ELSE [s3 EXCEPT !.file = n, !.rest = Bytes(n), !.open = TRUE, !.ok = TRUE, !.seen = Append(@, n)]

\* A loop of the readers: op reads from the file that is open, with nothing there
\* the file is closed and the next one is tried; without arguments it is not.
\* An op is a number of bytes, or a line's separator in a record.
Taken(s, op) ==
  IF op.kind = "line" THEN GetsLine(Rest(s), op.rs)
  ELSE LET k == IF op.n = -1 THEN Len(Rest(s)) ELSE Min({op.n, Len(Rest(s))})
       IN  <<SubSeq(Rest(s), 1, k), SubSeq(Rest(s), k + 1, Len(Rest(s)))>>
Nothing(s) == [s |-> s, got |-> <<>>]
RECURSIVE Loop(_, _)
Loop(s0, op) ==
  LET s == next_argv(s0)
      t == Taken(s, op)
      s2 == SetRest(s, t[2])
  IN  IF s.raised \/ ~s.ok THEN Nothing(s)
      ELSE IF ~IsOpen(s) THEN Nothing(Raise(s))
      ELSE IF t[1] = <<>> /\ s.next # -1 THEN Loop([Closed(s2) EXCEPT !.next = 1], op)
      ELSE [s |-> s2, got |-> t[1]]

NoLine == [rs |-> <<>>, was |-> <<>>, then |-> <<>>]
Note(r) == [hist EXCEPT !.line = NoLine, !.got = @ \o r.got, !.back = IF r.got = <<>> THEN @ ELSE TRUE]
Does(r) == a' = r.s /\ hist' = Note(r)
Line(rs) == [kind |-> "line", rs |-> rs, n |-> 0]
Some(n) == [kind |-> "some", rs |-> <<>>, n |-> n]
Going == ~a.raised

-----------------------------------------------------------------------------
(* gets, readline, each_line, readlines: one line each time *)

f_gets_method ==
  /\ Going
  /\ \E rs \in {<<>>, <<"">>, <<"\n">>, <<"x", "\n">>} :
       LET r == Loop(a, Line(rs))
       IN  /\ a' = r.s
           /\ hist' = [Note(r) EXCEPT !.line = [rs |-> rs, was |-> r.got, then |-> Rest(r.s)]]

arg_getc == Going /\ Does(Loop(a, Some(1)))

\* read: all that is left, file after file, or n bytes
RECURSIVE ReadFrom(_, _, _)
ReadFrom(s, n, acc) ==
  LET r == Loop(s, Some(n))
      k == Len(r.got)
      acc2 == [s |-> r.s, got |-> acc \o r.got]
  IN  IF k = 0 THEN acc2
      ELSE IF n = -1 THEN ReadFrom(r.s, -1, acc2.got)
      ELSE IF k < n THEN ReadFrom(r.s, n - k, acc2.got)
      ELSE acc2
arg_read == Going /\ \E n \in {-1, 2} : Does(ReadFrom(a, n, <<>>))

\* readchar does not go to the next file, and before the first one reads the input.
arg_readchar ==
  /\ Going
  /\ LET t == Taken(a, Some(1))
     IN  IF ~IsOpen(a) \/ t[1] = <<>> THEN Does(Nothing(Raise(a)))
         ELSE Does([s |-> SetRest(a, t[2]), got |-> t[1]])

\* The byte that was read last
f_ungetc ==
  /\ Going /\ hist.back /\ a.init /\ IsOpen(a) /\ hist.got # <<>>
  /\ LET s == next_argv(a) IN
     /\ s.ok /\ Last(hist.got)[1] = s.file
     /\ a' = SetRest(s, <<Last(hist.got)>> \o Rest(s))
     /\ hist' = [hist EXCEPT !.line = NoLine, !.got = Front(@), !.back = FALSE]

f_eof ==
  /\ Going
  /\ LET s == IF a.init THEN a ELSE next_argv(a)
     IN  Does(Nothing(
           IF s.raised \/ (~a.init /\ ~s.ok) THEN s
           ELSE IF ~IsOpen(s) THEN Raise(s)
           ELSE IF Rest(s) = <<>> THEN [s EXCEPT !.next = 1] ELSE s))

\* skip and close let go of the file that is open; before the first one that is
\* the standard input.
Leaves(s) ==
  /\ a' = s
  /\ hist' = [hist EXCEPT !.line = NoLine, !.cut = @ \cup {a.file}, !.back = FALSE]
arg_skip == Going /\ a.next # -1 /\ Leaves([Closed(a) EXCEPT !.next = 1])
arg_close ==
  Going /\ Leaves([Closed(a) EXCEPT !.next = IF @ = -1 THEN -1 ELSE 1])

\* print, to the default output
io_print ==
  /\ Going /\ Len(hist.printed) < PrintMax
  /\ LET b == Len(hist.printed) + 1
         to == a.out
     IN  IF a.out \in a.closed THEN a' = Raise(a) /\ UNCHANGED hist
         ELSE /\ a' = IF to = "stdout" THEN a ELSE [a EXCEPT !.new[to] = Append(@, b)]
              /\ hist' = [hist EXCEPT !.line = NoLine, !.printed = Append(@, IF a.over THEN to ELSE IF a.file = "-" THEN "stdout" ELSE a.file)]

-----------------------------------------------------------------------------
Argvs == UNION {[1..n -> Name \cup {"-"}] : n \in 0..ArgvMax}
Init ==
  /\ \E v \in Argvs, i \in BOOLEAN :
       /\ \A j, k \in 1..Len(v) : v[j] = v[k] => j = k
       /\ a = [argv |-> v, inplace |-> i, init |-> FALSE, next |-> 0, ok |-> TRUE, kept |-> FALSE,
               file |-> "-", rest |-> <<>>, open |-> FALSE, in |-> Bytes("-"), sopen |-> TRUE,
               raised |-> FALSE, out |-> "stdout", closed |-> {},
               new |-> [n \in Name |-> <<>>], seen |-> <<>>, over |-> FALSE]
  /\ hist = [got |-> <<>>, cut |-> {}, printed |-> <<>>, back |-> FALSE,
             line |-> NoLine]
Next ==
  \/ f_gets_method \/ arg_getc \/ arg_read \/ arg_readchar \/ f_ungetc \/ f_eof
  \/ arg_skip \/ arg_close \/ io_print
Spec == Init /\ [][Next]_avars

-----------------------------------------------------------------------------
From(n) == SelectSeq(hist.got, LAMBDA b : b[1] = n)
\* Around a paragraph newlines are dropped.
Stripped(t) == SelectSeq(t, LAMBDA b : Ch(b) # "\n")

\* The files arrive one after the other and each from its first byte on, none
\* twice and no byte left out: a file that was left, and not by skip or close,
\* was read to its end.
ArgfInOrder ==
  /\ \A n \in ToSet(a.seen) :
       LET all == IF n = a.file THEN From(n) \o a.rest ELSE From(n)
       IN  n \notin hist.cut => Stripped(all) = Stripped(Bytes(n))
  /\ \A i, j \in 1..Len(hist.got) : i < j =>
       LET x == hist.got[i]
           y == hist.got[j]
       IN  x[1] = y[1] => x[2] < y[2]

\* With -i a file's new contents are what was printed while it was read.  Behind
\* the end of the last file the default output stays that file.
InplaceOwn ==
  \A n \in Name :
    a.inplace /\ n \in ToSet(a.seen) =>
      a.new[n] = SelectSeq([k \in 1..Len(hist.printed) |-> k], LAMBDA k : hist.printed[k] = n)

\* gets ends a line at the first separator in the file, whatever the buffers it
\* was read in, and else at the end of the file.  No newlines are left in front of
\* a paragraph or behind it.
LineExact ==
  LET l == hist.line
      sep == SepOf(l.rs)
  IN  l.was # <<>> =>
        /\ sep = <<>> => l.then = <<>>
        /\ \A k \in 1..Len(l.was) - 1 : sep # <<>> => ~EndsIn(SubSeq(l.was, 1, k), sep)
        /\ sep # <<>> /\ ~EndsIn(l.was, sep) => l.then = <<>>
        /\ l.rs = <<"">> => \A t \in {l.was, l.then} : t # <<>> => Ch(t[1]) # "\n"

=============================================================================
