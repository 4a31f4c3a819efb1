------------------------------- MODULE Array --------------------------------
(***************************************************************************)
(* Array objects: the allocated cells and the length that array.c keeps,   *)
(* beside the sequence a program means.                                    *)
(*                                                                         *)
(* All methods that change an array are here.  delete_if runs a block      *)
(* between its steps, and the block may change the array.  Indices count   *)
(* from 0, as in the code; cell k of the code is ptr[k + 1].               *)
(***************************************************************************)
EXTENDS Integers, Sequences, SequencesExt, FiniteSets

CONSTANTS
  Val,           \* elements: numbers, nil (-1) among them
  DEFAULT_SIZE,  \* ARY_DEFAULT_SIZE
  Sizes,         \* what Array.new may be called with
  MaxLen         \* bound on indices, and on the length

VARIABLES
  ptr,      \* the cells
  len,
  frozen,   \* ARY_FREEZE
  loop,     \* the delete_if under way, or NoLoop
  seq,      \* the sequence meant; during delete_if, with what it deletes
  upset     \* what happened that the code has no provision for

vars == <<ptr, len, frozen, loop, seq, upset>>

nil == -1
Junk == -2          \* what malloc() and realloc() leave in a cell
NoLoop == [i1 |-> -1, i2 |-> -1, kept |-> <<>>]
capa == Len(ptr)
Index == (0 - MaxLen - 1)..MaxLen
Piece == UNION {[1..n -> Val] : n \in 0..2}

\* An array is followed up to the first upset.
Sane == upset = {}

-----------------------------------------------------------------------------
\* Memory.  An array is passed on as a record of its cells and its length.

ary == [ptr |-> ptr, len |-> len]

REALLOC_N(p, n) == [i \in 1..n |-> IF i <= Len(p) THEN p[i] ELSE Junk]

MEMMOVE(p, to, from, n) ==
  [i \in DOMAIN p |-> IF i \in (to + 1)..(to + n) THEN p[i - to + from] ELSE p[i]]

MEMCPY(p, to, q) ==
  [i \in DOMAIN p |-> IF i \in (to + 1)..(to + Len(q)) THEN q[i - to] ELSE p[i]]

memclear(p, to, n) == MEMCPY(p, to, [i \in 1..n |-> nil])

\* A sequence of n elements at least, and the elements from beg on replaced.
Pad(s, n) == s \o [i \in 1..(IF n > Len(s) THEN n - Len(s) ELSE 0) |-> nil]
Splice(s, beg, n, rpl) ==
  LET t == Pad(s, beg) IN SubSeq(t, 1, beg) \o rpl \o SubSeq(t, beg + n + 1, Len(t))

\* An index counted from the end; a start that is still negative counts as 0.
FromEnd(i) == IF i < 0 THEN len + i ELSE i
Start(i) == IF FromEnd(i) < 0 THEN 0 ELSE FromEnd(i)

\* The array becomes a, which should be s, by a method that touches nothing in
\* front of index at.  realloc() of a block to 0 bytes frees it, and xrealloc()
\* takes the 0 it returns for a failure.
Becomes(a, s, at) ==
  /\ ptr' = a.ptr /\ len' = a.len /\ seq' = s
  /\ upset' = {u \in {"realloc"} : a.ptr = <<>> /\ ptr # <<>>}
              \cup {u \in {"block"} : loop # NoLoop /\ at <= loop.i1}
  /\ UNCHANGED <<frozen, loop>>

ary_modify == Sane /\ ~frozen

-----------------------------------------------------------------------------
\* Elements.

\* Mutant: the cells between the old end and the index are not cleared.
Stored_gap(a, idx, v) ==
  LET p == IF idx >= Len(a.ptr) THEN REALLOC_N(a.ptr, idx + DEFAULT_SIZE) ELSE a.ptr
  IN  [ptr |-> [p EXCEPT ![idx + 1] = v],
       len |-> IF idx >= a.len THEN idx + 1 ELSE a.len]

Stored(a, idx, v) ==
  LET p == IF idx >= Len(a.ptr) THEN REALLOC_N(a.ptr, idx + DEFAULT_SIZE) ELSE a.ptr
      q == IF idx > a.len THEN memclear(p, a.len, idx - a.len + 1) ELSE p
  IN  [ptr |-> [q EXCEPT ![idx + 1] = v],
       len |-> IF idx >= a.len THEN idx + 1 ELSE a.len]

\* a[i] = v and push; a negative index that is too small raises IndexError.
\* A block may store into the element it was called for.
ary_store(i, v) ==
  /\ ary_modify /\ FromEnd(i) \in 0..(MaxLen - 1)
  /\ Becomes(Stored(ary, FromEnd(i), v), Splice(seq, FromEnd(i), 1, <<v>>), FromEnd(i) + 1)

Shrunk(p, n) == IF n * 10 < Len(p) /\ Len(p) > DEFAULT_SIZE THEN REALLOC_N(p, n * 2) ELSE p

\* pop and shift do not look at ARY_FREEZE.
ary_pop ==
  /\ Sane /\ len > 0
  /\ Becomes([ptr |-> Shrunk(ptr, len), len |-> len - 1], Front(seq), len - 1)

ary_shift ==
  /\ Sane /\ len > 0
  /\ Becomes([ptr |-> Shrunk(MEMMOVE(ptr, 0, 1, len - 1), len - 1), len |-> len - 1],
             Tail(seq), 0)

ary_unshift(v) ==
  /\ ary_modify /\ len < MaxLen
  /\ LET p == IF len >= capa THEN REALLOC_N(ptr, capa + DEFAULT_SIZE) ELSE ptr
     IN  Becomes([ptr |-> MEMCPY(MEMMOVE(p, 1, 0, len), 0, <<v>>), len |-> len + 1],
                 <<v>> \o seq, 0)

-----------------------------------------------------------------------------
\* Pieces.

Replaced(beg, n, rpl) ==
  LET alen == len + Len(rpl) - n
      p == IF alen >= capa THEN REALLOC_N(ptr, alen) ELSE ptr
  IN  [ptr |-> MEMCPY(IF n = Len(rpl) THEN p
                      ELSE MEMMOVE(p, beg + Len(rpl), beg + n, len - (beg + n)), beg, rpl),
       len |-> alen]

Beyond(beg, rpl) ==
  LET n == beg + Len(rpl)
      p == IF n >= capa THEN REALLOC_N(ptr, n) ELSE ptr
  IN  [ptr |-> MEMCPY(memclear(p, len, beg - len), beg, rpl), len |-> n]

\* a[i, n] = rpl, rpl another array.  A start behind the end ignores n; a
\* negative n raises IndexError otherwise.
ary_replace(i, n, rpl) ==
  /\ ary_modify
  /\ LET beg == Start(i)
         m == IF beg + n > len THEN len - beg ELSE n
     IN
     /\ beg + Len(rpl) <= MaxLen /\ len + Len(rpl) <= MaxLen
     /\ IF beg >= len THEN Becomes(Beyond(beg, rpl), Pad(seq, beg) \o rpl, beg)
        ELSE m >= 0 /\ Becomes(Replaced(beg, m, rpl), Splice(seq, beg, m, rpl), beg)

\* beg_len(): the number of elements a range stands for, when its start is not
\* behind the end.  An end behind the last element counts as one more.
Backwards(b, e) == ((b > 0 /\ e > 0) \/ (b < 0 /\ e < 0)) /\ b > e

RangeLen(b, e) ==
  LET beg == Start(b)
      low == IF e >= 0 THEN e ELSE IF len + e < 0 THEN -1 ELSE len + e
      end == IF low > len THEN len ELSE low
  IN  IF beg > len \/ beg > end THEN 0 ELSE end - beg + 1

\* The elements of the array with an index in the range.
Chosen(b, e) == {k \in 0..(len - 1) : Start(b) <= k /\ k <= FromEnd(e)}

\* a[b..e] = rpl
AsetRange(b, e, rpl) ==
  /\ ary_modify /\ ~Backwards(b, e)
  /\ LET beg == Start(b)
         n == RangeLen(b, e)
     IN
     /\ beg + Len(rpl) <= MaxLen /\ len + Len(rpl) <= MaxLen
     /\ IF beg >= len THEN Becomes(Beyond(beg, rpl), Pad(seq, beg) \o rpl, beg)
        ELSE Becomes(Replaced(beg, IF beg + n > len THEN len - beg ELSE n, rpl),
                     Splice(seq, beg, Cardinality(Chosen(b, e)), rpl), beg)

\* fill(v, i, n) does not look at ARY_FREEZE.
Filled(beg, n, v) ==
  LET end == beg + n
      p == IF end > len /\ end >= capa THEN REALLOC_N(ptr, end) ELSE ptr
      q == IF end > len /\ beg > len THEN memclear(p, len, end - len) ELSE p
  IN  [ptr |-> MEMCPY(q, beg, [k \in 1..n |-> v]), len |-> IF end > len THEN end ELSE len]

ary_fill(i, n, v) ==
  /\ Sane /\ n >= 0 /\ Start(i) + n <= MaxLen
  /\ LET beg == Start(i)
     IN  Becomes(Filled(beg, n, v),
                 IF beg + n > len THEN Splice(seq, beg, n, [k \in 1..n |-> v])
                 ELSE [k \in 1..len |-> IF k \in (beg + 1)..(beg + n) THEN v ELSE seq[k]],
                 beg)

\* fill(v, b..e): an end behind the last element makes the array one longer, and
\* a start behind it makes it grow up to there.
FillRange(b, e, v) ==
  /\ Sane /\ ~Backwards(b, e)
  /\ LET beg == Start(b)
         n == RangeLen(b, e)
         s == [k \in 1..len |-> IF k - 1 \in Chosen(b, e) THEN v ELSE seq[k]]
     IN  IF beg + n > len THEN upset' = {"range"} /\ UNCHANGED <<ptr, len, frozen, loop, seq>>
         ELSE Becomes(Filled(beg, n, v), s, beg)

\* concat: with itself, the elements are read where the array was before
\* ary_store() moved it.
ary_concat(y) ==
  /\ ary_modify /\ len + Len(y) <= MaxLen
  /\ Becomes(FoldLeft(LAMBDA a, v : Stored(a, a.len, v), ary, y), seq \o y, len)

ConcatSelf ==
  /\ ary_modify /\ len + len <= MaxLen
  /\ LET y == SubSeq(ptr, 1, len) IN
     IF capa - len + 1 < len
     THEN upset' = {"moved"} /\ UNCHANGED <<ptr, len, frozen, loop, seq>>
     ELSE Becomes(FoldLeft(LAMBDA a, v : Stored(a, a.len, v), ary, y), seq \o seq, len)

-----------------------------------------------------------------------------
\* The whole array.

\* The elements of p other than v, pushed together at the front.
Together(p, n, v) ==
  LET s == SelectSeq(SubSeq(p, 1, n), LAMBDA x : x # v) IN [ptr |-> MEMCPY(p, 0, s), len |-> Len(s)]

ary_delete(v) ==
  /\ ary_modify
  /\ Becomes(Together(ptr, len, v), SelectSeq(seq, LAMBDA x : x # v), 0)

ary_delete_at(pos) ==
  /\ ary_modify /\ pos \in 0..(len - 1)
  /\ Becomes([ptr |-> MEMMOVE(ptr, pos, pos + 1, len - pos - 1), len |-> len - 1],
             RemoveAt(seq, pos + 1), pos)

ary_clear ==
  /\ Sane
  /\ Becomes([ptr |-> IF DEFAULT_SIZE * 3 < capa THEN REALLOC_N(ptr, DEFAULT_SIZE * 2) ELSE ptr,
              len |-> 0], <<>>, 0)

ary_compact_bang ==
  /\ ary_modify
  /\ LET a == Together(ptr, len, nil)
     IN  Becomes([a EXCEPT !.ptr = REALLOC_N(@, a.len)], SelectSeq(seq, LAMBDA x : x # nil), 0)

ary_reverse ==
  /\ Sane
  /\ Becomes([ptr |-> [i \in 1..capa |-> IF i <= len THEN ptr[len + 1 - i] ELSE ptr[i]],
              len |-> len], Reverse(seq), 0)

\* sort! without a block; qsort() is taken at its word.
ary_sort_bang ==
  /\ ary_modify
  /\ \A k \in 1..len : ptr[k] # nil
  /\ LET s == SortSeq(SubSeq(ptr, 1, len), <)
     IN  Becomes([ptr |-> MEMCPY(ptr, 0, s), len |-> len], SortSeq(seq, <), 0)

ary_freeze ==
  /\ Sane
  /\ frozen' = TRUE
  /\ UNCHANGED <<ptr, len, loop, seq, upset>>

-----------------------------------------------------------------------------
\* delete_if, with its block running for element i1.

DeleteIf ==
  /\ ary_modify /\ loop = NoLoop /\ len > 0
  /\ loop' = [i1 |-> 0, i2 |-> 0, kept |-> <<>>]
  /\ UNCHANGED <<ptr, len, frozen, seq, upset>>

\* The for loop goes on, with what ptr, i2 and kept are now, or ends.
Continue(p, i2, kept) ==
  /\ ptr' = p
  /\ IF loop.i1 + 1 < len
     THEN /\ loop' = [i1 |-> loop.i1 + 1, i2 |-> i2, kept |-> kept]
          /\ UNCHANGED <<len, seq>>
     ELSE loop' = NoLoop /\ len' = i2 /\ seq' = kept
  /\ UNCHANGED <<frozen, upset>>

BlockTrue ==
  /\ Sane /\ loop # NoLoop
  /\ Continue(ptr, loop.i2, loop.kept)

BlockFalse ==
  /\ Sane /\ loop # NoLoop
  /\ Continue([ptr EXCEPT ![loop.i2 + 1] = ptr[loop.i1 + 1]], loop.i2 + 1,
              Append(loop.kept, seq[loop.i1 + 1]))

\* The block is left by break or an exception: the length stays, and so do the
\* elements behind i2, kept ones moved to the front and there a second time.
BlockLeft ==
  /\ Sane /\ loop # NoLoop
  /\ loop' = NoLoop
  /\ seq' = SubSeq(ptr, 1, len)
  /\ UNCHANGED <<ptr, len, frozen, upset>>

-----------------------------------------------------------------------------
\* Array.new(n), [...] and methods that make arrays: n cleared cells.
Init ==
  /\ \E n \in Sizes : ptr = [i \in 1..n |-> nil]
  /\ len = 0 /\ frozen = FALSE /\ loop = NoLoop /\ seq = <<>> /\ upset = {}

Next ==
  \/ \E i \in Index, v \in Val : ary_store(i, v)
  \/ ary_pop \/ ary_shift
  \/ \E v \in Val : ary_unshift(v)
  \/ \E i, n \in Index, rpl \in Piece : ary_replace(i, n, rpl)
  \/ \E b, e \in Index, rpl \in Piece : AsetRange(b, e, rpl)
  \/ \E i, n \in Index, v \in Val : ary_fill(i, n, v)
  \/ \E b, e \in Index, v \in Val : FillRange(b, e, v)
  \/ \E y \in Piece : ary_concat(y)
  \/ ConcatSelf
  \/ \E v \in Val : ary_delete(v)
  \/ \E pos \in Index : ary_delete_at(pos)
  \/ ary_clear \/ ary_compact_bang \/ ary_reverse \/ ary_sort_bang \/ ary_freeze
  \/ DeleteIf \/ BlockTrue \/ BlockFalse \/ BlockLeft

Spec == Init /\ [][Next]_vars

-----------------------------------------------------------------------------
\* Every variable keeps its type, and the length is within the allocated cells.
TypeOK ==
  /\ \A i \in 1..capa : ptr[i] \in Val \cup {Junk}
  /\ len \in 0..capa /\ len <= MaxLen
  /\ frozen \in BOOLEAN
  /\ loop = NoLoop \/ (loop.i1 \in 0..MaxLen /\ loop.i2 \in 0..loop.i1)
  /\ upset \subseteq {"realloc", "block", "moved", "range"}

\* After any sequence of methods the first len cells hold the sequence they
\* mean, whatever was allocated, grown, shrunk and left behind before.  In the
\* middle of delete_if, the cells before i2 hold what its block refused and
\* those from i1 on what is still to come, also when the block appends, stores,
\* replaces or pops behind the element it was called for.
SeqAgrees ==
  Sane =>
    IF loop = NoLoop THEN SubSeq(ptr, 1, len) = seq
    ELSE /\ SubSeq(ptr, 1, loop.i2) = loop.kept
         /\ SubSeq(ptr, loop.i1 + 1, len) = SubSeq(seq, loop.i1 + 1, Len(seq))

=============================================================================
