------------------------------ MODULE ArrayOps -------------------------------
(***************************************************************************)
(* array.c: what the methods that leave their array alone compute.  A      *)
(* behaviour is one call: job is the call, with the receiver in a, and out *)
(* what it returns.  An object is a tuple whose first component tells its  *)
(* type: nil, an integer, a float or an array of those.                    *)
(***************************************************************************)
EXTENDS Integers, Sequences, SequencesExt, FiniteSets, FiniteSetsExt

CONSTANTS
  Calls        \* the calls: records with op, a and the arguments

VARIABLES job, out, done
avars == <<job, out, done>>

nil == <<"nil">>
Fix(n) == <<"int", n>>
Flo(n) == <<"float", n>>
Ary(items) == <<"ary">> \o items
IsAry(x) == x[1] = "ary"
Of(x) == Tail(x)                       \* the elements of an array
Number(x) == x[1] \in {"int", "float"}

a == job.a
len == Len(a)
Call(op) == ~done /\ job.op = op
Gives(v) == out' = v /\ done' = TRUE /\ UNCHANGED job

-----------------------------------------------------------------------------
(* == and eql?  An integer equals the float of its value; only objects of  *)
(* one type are eql.  Arrays are compared element by element.              *)

SameNumber(x, y) == Number(x) /\ Number(y) /\ x[2] = y[2]
Equals(x, y) == SameNumber(x, y) \/ x = y
Eql(x, y) == x = y

ary_equal(x, y) == Len(x) = Len(y) /\ \A i \in 1..Len(x) : Equals(x[i], y[i])
ary_eql(x, y) == Len(x) = Len(y) /\ \A i \in 1..Len(x) : Eql(x[i], y[i])
rb_equal(x, y) ==
  IF IsAry(x) THEN IsAry(y) /\ ary_equal(Of(x), Of(y)) ELSE Equals(x, y)

\* The hash values of the elements are combined with exclusive or: what comes
\* twice is gone, and the order does not count.
ary_hash(x) ==
  <<Len(x), FoldLeft(LAMBDA h, e : (h \ {e}) \cup ({e} \ h), {}, x)>>

ary_includes(x, item) == \E i \in 1..Len(x) : rb_equal(x[i], item)

Compared ==
  /\ Call("compare")
  /\ Gives([equal |-> ary_equal(a, job.b), eql |-> ary_eql(a, job.b),
            hash |-> <<ary_hash(a), ary_hash(job.b)>>])

-----------------------------------------------------------------------------
(* Elements and parts *)

ary_entry(x, offset) ==
  LET i == IF offset < 0 THEN Len(x) + offset ELSE offset
  IN  IF i \in 0..Len(x) - 1 THEN x[i + 1] ELSE nil

\* A part that would begin behind the end has a negative length, which
\* ary_new2() refuses.
ary_subseq(beg0, n0) ==
  LET beg == IF beg0 < 0 THEN Max({len + beg0, 0}) ELSE beg0
      n == IF beg + n0 > len THEN len - beg ELSE n0
  IN  IF n0 <= 0 THEN <<>>
      ELSE IF n < 0 THEN <<<<"ArgError">>>>
      ELSE SubSeq(a, beg + 1, beg + n)

ary_aref ==
  \/ Call("entry") /\ Gives(ary_entry(a, job.i))
  \/ Call("subseq") /\ Gives(ary_subseq(job.beg, job.n))

ary_indexes ==
  Call("indexes") /\ Gives([i \in 1..Len(job.at) |-> ary_entry(a, job.at[i])])

ary_index ==
  /\ Call("index")
  /\ LET at == {i \in 1..len : rb_equal(a[i], job.item)}
     IN  Gives(IF at = {} THEN -1 ELSE Min(at) - 1)

\* An array of one element is no pair.
Pair(x, n, key) == IsAry(x) /\ Len(Of(x)) > 1 /\ rb_equal(Of(x)[n], key)
FirstPair(n) ==
  LET at == {i \in 1..len : Pair(a[i], n, job.item)}
  IN  IF at = {} THEN nil ELSE a[Min(at)]
ary_assoc == Call("assoc") /\ Gives(FirstPair(1))
ary_rassoc == Call("rassoc") /\ Gives(FirstPair(2))

ary_nitems == Call("nitems") /\ Gives(FoldLeft(LAMBDA n, x : IF x = nil THEN n ELSE n + 1, 0, a))
ary_compact == Call("compact") /\ Gives(SelectSeq(a, LAMBDA x : x # nil))

-----------------------------------------------------------------------------
(* New arrays *)

ary_plus(x, y) == x \o y
Plus == Call("plus") /\ Gives(ary_plus(a, job.b))

ary_times ==
  /\ Call("times")
  /\ Gives(IF job.n < 0 /\ len > 0 THEN <<<<"ArgError">>>>
           ELSE FoldLeft(LAMBDA s, i : s \o a, <<>>, [i \in 1..Max({job.n, 0}) |-> i]))

\* Mutant: what comes twice is pushed twice.
PushNew_all(res, x) == Append(res, x)

\* What is in keep and not in the result yet is pushed to it
PushNew(res, x) == IF ary_includes(res, x) THEN res ELSE Append(res, x)

ary_diff ==
  /\ Call("diff")
  /\ Gives(FoldLeft(LAMBDA r, x : IF ary_includes(job.b, x) THEN r ELSE PushNew(r, x), <<>>, a))
ary_and ==
  /\ Call("and")
  /\ Gives(FoldLeft(LAMBDA r, x : IF ary_includes(job.b, x) THEN PushNew(r, x) ELSE r, <<>>, a))

\* An argument that is no array is added, or not, without a look at duplicates.
ary_or ==
  /\ Call("or")
  /\ Gives(IF job.item # nil THEN IF ary_includes(a, job.item) THEN a ELSE ary_plus(a, <<job.item>>)
           ELSE FoldLeft(PushNew, FoldLeft(PushNew, <<>>, a), job.b))

\* A string is the sequence of its parts: the text of an element is the element.
\* nil is written as nothing.  An array inside is joined with the same separator.
Text(x) == IF x = nil THEN <<>> ELSE <<x>>
Glue(parts, sep) ==
  IF parts = <<>> THEN <<>> ELSE FoldLeft(LAMBDA r, p : r \o sep \o p, parts[1], Tail(parts))
TextOf(x, sep) ==
  IF IsAry(x) THEN Glue([i \in 1..Len(Of(x)) |-> Text(Of(x)[i])], sep) ELSE Text(x)
ary_join == Call("join") /\ Gives(Glue([i \in 1..len |-> TextOf(a[i], job.sep)], job.sep))

-----------------------------------------------------------------------------
Init == job \in Calls /\ out = <<>> /\ done = FALSE
Next == \/ Compared \/ ary_aref \/ ary_indexes \/ ary_index \/ ary_assoc \/ ary_rassoc
        \/ ary_nitems \/ ary_compact \/ Plus \/ ary_times \/ ary_diff \/ ary_and \/ ary_or \/ ary_join
Spec == Init /\ [][Next]_avars

-----------------------------------------------------------------------------
OneOfEach(s) == \A i, j \in 1..Len(s) : i # j => ~rb_equal(s[i], s[j])
Found(x, s) == \E y \in ToSet(s) : rb_equal(x, y)
Atoms(s) == FlattenSeq([i \in 1..Len(s) |-> IF IsAry(s[i]) THEN Of(s[i]) ELSE <<s[i]>>])
Ordered(s, t) ==   \* s keeps the order of t
  \E f \in [1..Len(s) -> 1..Len(t)] :
    \A i \in 1..Len(s) : s[i] = t[f[i]] /\ (i < Len(s) => f[i] < f[i + 1])

\* Set operations, searches and parts of arrays mean what they say whatever the
\* mix of types: results hold no two equal elements, keep the order of the
\* receiver and its own objects; arrays that are eql have one hash value and are
\* equal; joining loses no element but nil.
ArrayMeans ==
  done =>
    CASE job.op = "compare" ->
           /\ out.eql => out.equal /\ out.hash[1] = out.hash[2]
           /\ a = job.b => out.eql
      [] job.op \in {"diff", "and"} ->
           /\ OneOfEach(out) /\ Ordered(out, a)
           /\ \A x \in ToSet(a) : Found(x, out) = (Found(x, job.b) = (job.op = "and"))
      [] job.op = "or" ->
           /\ job.item = nil => OneOfEach(out) /\ Ordered(out, a \o job.b)
           /\ \A x \in ToSet(a) : Found(x, out)
           /\ job.item = nil => \A x \in ToSet(job.b) : Found(x, out)
           /\ job.item # nil => Found(job.item, out)
      [] job.op = "subseq" ->
           \A i \in 0..job.n - 1 : job.beg >= 0 /\ job.beg + i < len => out[i + 1] = ary_entry(a, job.beg + i)
      [] job.op = "index" ->
           IF out = -1 THEN ~Found(job.item, a)
           ELSE rb_equal(a[out + 1], job.item) /\ ~Found(job.item, SubSeq(a, 1, out))
      [] job.op \in {"assoc", "rassoc"} ->
           out = nil \/ (Contains(a, out) /\ rb_equal(out[IF job.op = "assoc" THEN 2 ELSE 3], job.item))
      [] job.op = "nitems" -> out = Len(SelectSeq(a, LAMBDA x : x # nil))
      [] job.op = "times" ->
           job.n >= 0 => Len(out) = job.n * len /\ \A i \in 1..Len(out) : out[i] = a[((i - 1) % len) + 1]
      [] job.op = "join" ->
           /\ SelectSeq(out, LAMBDA x : x # job.sep[1]) = SelectSeq(Atoms(a), LAMBDA x : x # nil)
           /\ a # <<>> => Len(SelectSeq(out, LAMBDA x : x = job.sep[1])) >= len - 1
      [] OTHER -> TRUE

=============================================================================
