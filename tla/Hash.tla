-------------------------------- MODULE Hash --------------------------------
(***************************************************************************)
(* Hash objects: the chained table of st.c and the iteration of hash.c.    *)
(*                                                                         *)
(* While a block runs for an entry (Hash#each, delete_if and their kind),  *)
(* the block may change the hash it iterates over, or iterate again.       *)
(* hash_foreach() counts the iterations in iter_lev; deletions then leave  *)
(* the entry in its chain with nil for a key, and Hash#rehash ends all     *)
(* iterations.                                                             *)
(***************************************************************************)
EXTENDS Naturals, Sequences, SequencesExt, FiniteSetsExt

CONSTANTS
  Key, Val,     \* positive numbers; a key is its own hash value
  InitBins,     \* ST_DEFAULT_INIT_TABLE_SIZE
  MaxDensity,   \* ST_DEFAULT_MAX_DENSITY: entries per bin before the table grows
  Load,         \* 100 * 0.87 * ST_DEFAULT_MAX_DENSITY, for a table made to measure
  MaxEntries,   \* bound on the entries allocated for a key
  MaxIter       \* bound on the nesting of iterations

VARIABLES
  bins,         \* the chains, sequences of entries
  ent,          \* the key and the record of every entry
  num_entries,
  rehashed,     \* HASH_REHASHED of the status
  iters,        \* the iterations under way, see Frame
  map,          \* what the hash should hold: a value, or nil, for every key
  upset         \* what happened that the code has no provision for

vars == <<bins, ent, num_entries, rehashed, iters, map, upset>>

nil == 0
Ent == Key \X (1..MaxEntries)
NoEnt == <<0, 0>>
Free == [key |-> nil, record |-> nil, used |-> FALSE]
Entry(k, v) == [key |-> k, record |-> v, used |-> TRUE]
Never == Entry(nil, nil)

num_bins == Len(bins)
iter_lev == Len(iters)
do_hash(k, n) == (k % n) + 1

\* A hash is followed to the first upset, or to the end of the iterations in
\* which a block deleted from it: the count of entries is wrong from then on.
Sane == upset = {} \/ (upset = {"deleted"} /\ iter_lev > 0)

\* FIND_ENTRY: the place of a key in a chain, 0 if it is not there.
Find(chain, k) == SelectInSeq(chain, LAMBDA e : ent[e].key = k)

st_lookup(k) ==
  LET chain == bins[do_hash(k, num_bins)]
      at == Find(chain, k)
  IN  IF at = 0 THEN nil ELSE ent[chain[at]].record

\* The chains of n bins after entries were put in front of their chain one by
\* one; a deleted one goes by the key nil.
Relink(entries, n, keys) ==
  FoldLeft(LAMBDA b, e : [b EXCEPT ![do_hash(keys[e].key, n)] = <<e>> \o @],
           [i \in 1..n |-> <<>>], entries)

Odd(n) == IF n % 2 = 0 THEN n + 1 ELSE n
rehash == Relink(FlattenSeq(bins), Odd((179 * num_bins) \div 100), ent)

\* st_init_table_with_size()
Sized(size) ==
  LET n == (100 * size) \div Load IN IF n < InitBins THEN InitBins ELSE n

-----------------------------------------------------------------------------
\* Iterations.  A frame stands in the block for the entry ptr, reached in chain
\* i behind last.  seen and kept are the keys yielded and the keys there since
\* the beginning, grown says that st.c rebuilt the table meanwhile.

Frame == [kind : {"each", "delete_if"}, i : Nat,
          ptr : Ent \cup {NoEnt}, last : Ent \cup {NoEnt},
          seen : SUBSET Key, kept : SUBSET Key, grown : BOOLEAN]

it == iters[iter_lev]

\* st_foreach() from place p of chain b[j], as chain i, and then in the chains
\* after i: the places it looks at, in order, and the first with a key.
Ahead(b, i, j, p) ==
  [x \in 1..(IF p > Len(b[j]) THEN 0 ELSE Len(b[j]) + 1 - p) |-> <<i, j, p + x - 1>>]
    \o FlattenSeq([y \in 1..(IF i > Len(b) THEN 0 ELSE Len(b) - i) |->
                     [x \in 1..Len(b[i + y]) |-> <<i + y, i + y, x>>]])

Yielded(b, ahead) == SelectInSeq(ahead, LAMBDA x : ent[b[x[2]][x[3]]].key # nil)

Enter(f, b, x, last) ==
  LET e == b[x[2]][x[3]] IN
    [f EXCEPT !.i = x[1], !.ptr = e, !.seen = @ \cup {ent[e].key},
              !.last = IF x[3] = 1 THEN last ELSE b[x[2]][x[3] - 1]]

\* hash_foreach_ensure(): the iteration ends, stops, or is left by an exception.
\* HASH_DELETED is never set, so that deleted entries stay in their chains.
Leave == iters' = SubSeq(iters, 1, iter_lev - 1) /\ rehashed' = (rehashed /\ iter_lev > 1)

\* hash_foreach() on a hash that is not empty.
hash_foreach(kind) ==
  /\ Sane /\ iter_lev < MaxIter
  /\ LET ahead == Ahead(bins, 1, 1, 1)
         at == Yielded(bins, ahead)
     IN
     /\ at > 0
     /\ iters' = Append(iters, Enter([kind |-> kind, i |-> 1, ptr |-> NoEnt, last |-> NoEnt,
                                      seen |-> {}, kept |-> {k \in Key : map[k] # nil},
                                      grown |-> FALSE], bins, ahead[at], NoEnt))
  /\ UNCHANGED <<bins, ent, num_entries, rehashed, map, upset>>

\* The chain and the place of an entry, wherever it is now.
Spot(e) ==
  LET j == SelectInSeq(bins, LAMBDA chain : Contains(chain, e))
  IN  <<j, SelectInSeq(bins[j], LAMBDA x : x = e)>>

\* Mutant: the chain of the entry is left for the next one.
EachContinue_skip ==
  /\ Sane /\ iter_lev > 0 /\ ~rehashed
  /\ LET at == Spot(it.ptr)
         ahead == Ahead(bins, it.i, at[1], Len(bins[at[1]]) + 1)
         next == Yielded(bins, ahead)
     IN  IF next = 0 THEN Leave
         ELSE /\ iters' = [iters EXCEPT ![iter_lev] = Enter(it, bins, ahead[next], NoEnt)]
              /\ UNCHANGED rehashed
  /\ UNCHANGED <<bins, ent, num_entries, map, upset>>

\* The block returns and the callback says ST_CONTINUE.
EachContinue ==
  /\ Sane /\ iter_lev > 0 /\ ~rehashed
  /\ LET at == Spot(it.ptr)
         ahead == Ahead(bins, it.i, at[1], at[2] + 1)
         next == Yielded(bins, ahead)
     IN  IF next = 0 THEN Leave
         ELSE /\ iters' = [iters EXCEPT ![iter_lev] = Enter(it, bins, ahead[next], NoEnt)]
              /\ UNCHANGED rehashed
  /\ UNCHANGED <<bins, ent, num_entries, map, upset>>

\* The block of delete_if says yes: ST_DELETE.  The entry is taken out by way of
\* last, or of the head of chain i when it was the first one.
EachDelete ==
  /\ Sane /\ iter_lev > 0 /\ ~rehashed /\ it.kind = "delete_if"
  /\ LET e == it.ptr
         at == Spot(e)
         chain == bins[at[1]]
         rest == SubSeq(chain, at[2] + 1, Len(chain))
         mid == IF it.last = NoEnt THEN <<>> ELSE SubSeq(chain, 1, at[2] - 1)
         cut == [bins EXCEPT ![at[1]] = mid \o rest]
         ahead == Ahead(cut, it.i, at[1], Len(mid) + 1)
         next == Yielded(cut, ahead)
         k == ent[e].key
     IN
     /\ upset' = upset \cup {u \in {"freed"} : iter_lev > 1}
                       \cup {u \in {"dropped"} : it.grown \/ (it.last = NoEnt /\ at[2] > 1)}
     /\ bins' = cut
     /\ ent' = [ent EXCEPT ![e] = Free]
     /\ num_entries' = num_entries - 1
     /\ map' = IF k = nil THEN map ELSE [map EXCEPT ![k] = nil]
     /\ IF next = 0 THEN Leave
        ELSE /\ iters' = [iters EXCEPT ![iter_lev] =
                            Enter([it EXCEPT !.kept = @ \ {k}], cut, ahead[next],
                                  IF mid = <<>> THEN NoEnt ELSE Last(mid))]
             /\ UNCHANGED rehashed

\* ST_STOP after Hash#rehash, and a block left by break or an exception.
EachStop ==
  /\ Sane /\ iter_lev > 0
  /\ Leave
  /\ UNCHANGED <<bins, ent, num_entries, map, upset>>

-----------------------------------------------------------------------------
\* Operations, from a block or outside all iterations.

Gone(k) == [n \in 1..iter_lev |-> [iters[n] EXCEPT !.kept = @ \ {k}, !.seen = @ \ {k}]]

New(k) == {e \in {<<k, g>> : g \in 1..MaxEntries} : ~ent[e].used}
Fresh(k) == CHOOSE e \in New(k) : \A x \in New(k) : e[2] <= x[2]

\* Hash#[]= with a value: st_insert().
StInsertOld(k, v) ==
  /\ Sane /\ st_lookup(k) # nil
  /\ LET chain == bins[do_hash(k, num_bins)]
     IN  ent' = [ent EXCEPT ![chain[Find(chain, k)]].record = v]
  /\ map' = [map EXCEPT ![k] = v]
  /\ UNCHANGED <<bins, num_entries, rehashed, iters, upset>>

\* Mutant: the bin is not computed again when the table grows.
StInsertNew_bin(k, v) ==
  /\ Sane /\ st_lookup(k) = nil /\ New(k) # {}
  /\ LET grows == num_entries \div num_bins > MaxDensity
         b == IF grows THEN rehash ELSE bins
     IN
     /\ bins' = [b EXCEPT ![do_hash(k, num_bins)] = <<Fresh(k)>> \o @]
     /\ num_entries' = num_entries + 1
     /\ iters' = [m \in 1..iter_lev |-> [iters[m] EXCEPT !.grown = @ \/ grows]]
  /\ ent' = [ent EXCEPT ![Fresh(k)] = Entry(k, v)]
  /\ map' = [map EXCEPT ![k] = v]
  /\ UNCHANGED <<rehashed, upset>>

StInsertNew(k, v) ==
  /\ Sane /\ st_lookup(k) = nil /\ New(k) # {}
  /\ LET grows == num_entries \div num_bins > MaxDensity
         b == IF grows THEN rehash ELSE bins
         n == IF grows THEN Len(FlattenSeq(bins)) ELSE num_entries
         h == do_hash(k, Len(b))
     IN
     /\ bins' = [b EXCEPT ![h] = <<Fresh(k)>> \o @]
     /\ num_entries' = n + 1
     /\ iters' = [m \in 1..iter_lev |-> [iters[m] EXCEPT !.grown = @ \/ grows]]
  /\ ent' = [ent EXCEPT ![Fresh(k)] = Entry(k, v)]
  /\ map' = [map EXCEPT ![k] = v]
  /\ UNCHANGED <<rehashed, upset>>

\* Hash#delete and Hash#[]= with nil, outside iterations: st_delete().
st_delete(k) ==
  /\ Sane /\ iter_lev = 0 /\ st_lookup(k) # nil
  /\ LET h == do_hash(k, num_bins)
         at == Find(bins[h], k)
     IN
     /\ bins' = [bins EXCEPT ![h] = RemoveAt(@, at)]
     /\ ent' = [ent EXCEPT ![bins[h][at]] = Free]
  /\ num_entries' = num_entries - 1
  /\ map' = [map EXCEPT ![k] = nil]
  /\ UNCHANGED <<rehashed, iters, upset>>

\* The same during an iteration.  When the key is not the first of its chain,
\* the entry before it is the one that gets nil for a key.  One deletion is
\* followed.
st_delete_safe(k) ==
  /\ upset = {} /\ iter_lev > 0 /\ st_lookup(k) # nil
  /\ LET chain == bins[do_hash(k, num_bins)]
         at == Find(chain, k)
     IN  ent' = [ent EXCEPT ![chain[IF at = 1 THEN 1 ELSE at - 1]] = Never]
  /\ num_entries' = num_entries - 1
  /\ map' = [map EXCEPT ![k] = nil]
  /\ iters' = Gone(k)
  /\ upset' = upset \cup {"deleted"}
  /\ UNCHANGED <<bins, rehashed>>

\* Hash#shift: the first entry with a key.
hash_shift ==
  /\ Sane
  /\ LET ahead == Ahead(bins, 1, 1, 1)
         at == Yielded(bins, ahead)
         e == bins[ahead[at][2]][ahead[at][3]]
     IN
     /\ at > 0
     /\ bins' = [bins EXCEPT ![ahead[at][2]] = RemoveAt(@, ahead[at][3])]
     /\ ent' = [ent EXCEPT ![e] = Free]
     /\ map' = [map EXCEPT ![ent[e].key] = nil]
     /\ iters' = Gone(ent[e].key)
  /\ num_entries' = num_entries - 1
  /\ upset' = upset \cup {u \in {"freed"} : iter_lev > 0}
  /\ UNCHANGED rehashed

\* Hash#clear takes the deleted entries out as well, and counts them again.
hash_clear ==
  /\ Sane /\ FlattenSeq(bins) # <<>>
  /\ bins' = [i \in 1..num_bins |-> <<>>]
  /\ ent' = [e \in Ent |-> Free]
  /\ num_entries' = num_entries - Len(FlattenSeq(bins))
  /\ map' = [k \in Key |-> nil]
  /\ upset' = upset \cup {u \in {"freed"} : iter_lev > 0}
  /\ UNCHANGED <<rehashed, iters>>

\* Mutant: the iterations are not told.
hash_rehash_untold ==
  /\ Sane
  /\ LET old == SelectSeq(FlattenSeq(bins), LAMBDA e : ent[e].key # nil)
         new == [x \in 1..Len(old) |-> <<ent[old[x]].key, 1>>]
         tbl == [e \in Ent |-> IF Contains(new, e) THEN Entry(e[1], st_lookup(e[1])) ELSE Free]
     IN
     /\ bins' = Relink(new, Sized(num_entries), tbl)
     /\ ent' = tbl
     /\ num_entries' = Len(old)
  /\ iters' = [n \in 1..iter_lev |-> [iters[n] EXCEPT !.ptr = NoEnt, !.last = NoEnt]]
  /\ UNCHANGED <<map, upset, rehashed>>

\* Hash#rehash: a new table of new entries.  The old ones are freed, and an
\* iteration that stood on one stands on nothing.
hash_rehash ==
  /\ Sane
  /\ LET old == SelectSeq(FlattenSeq(bins), LAMBDA e : ent[e].key # nil)
         new == [x \in 1..Len(old) |-> <<ent[old[x]].key, 1>>]
         tbl == [e \in Ent |-> IF Contains(new, e) THEN Entry(e[1], st_lookup(e[1])) ELSE Free]
     IN
     /\ bins' = Relink(new, Sized(num_entries), tbl)
     /\ ent' = tbl
     /\ num_entries' = Len(old)
  /\ rehashed' = (rehashed \/ iter_lev > 0)
  /\ iters' = [n \in 1..iter_lev |->
                [iters[n] EXCEPT !.ptr = NoEnt, !.last = NoEnt,
                                 !.seen = {}, !.kept = {}, !.grown = FALSE]]
  /\ UNCHANGED <<map, upset>>

-----------------------------------------------------------------------------
Init ==
  /\ bins = [i \in 1..InitBins |-> <<>>]
  /\ ent = [e \in Ent |-> Free]
  /\ num_entries = 0 /\ rehashed = FALSE /\ iters = <<>>
  /\ map = [k \in Key |-> nil]
  /\ upset = {}

Next ==
  \/ \E kind \in {"each", "delete_if"} : hash_foreach(kind)
  \/ EachContinue \/ EachDelete \/ EachStop
  \/ \E k \in Key, v \in Val : StInsertOld(k, v) \/ StInsertNew(k, v)
  \/ \E k \in Key : st_delete(k) \/ st_delete_safe(k)
  \/ hash_shift
  \/ hash_clear
  \/ hash_rehash

Spec == Init /\ [][Next]_vars

-----------------------------------------------------------------------------
\* Every variable keeps its type.
TypeOK ==
  /\ \A i \in 1..num_bins : \A p \in 1..Len(bins[i]) : bins[i][p] \in Ent
  /\ ent \in [Ent -> [key : Key \cup {nil}, record : Val \cup {nil}, used : BOOLEAN]]
  /\ rehashed \in BOOLEAN /\ iter_lev <= MaxIter
  /\ \A n \in 1..iter_lev : iters[n] \in Frame
  /\ map \in [Key -> Val \cup {nil}]
  /\ upset \subseteq {"deleted", "freed", "dropped"}

\* The chains, grown and rebuilt in between, hold what was put in and not taken
\* out, under the bin of its key, and length is their number: from blocks and
\* outside of them, as long as no block deletes from the hash.
HashAgrees ==
  upset = {} =>
    /\ \A k \in Key : st_lookup(k) = map[k]
    /\ num_entries = Cardinality({k \in Key : map[k] # nil})

\* An iteration never goes on from an entry that was freed under it: deleting
\* keeps the entry, and Hash#rehash stops the iterations.
EntryHeld ==
  ("freed" \notin upset /\ ~rehashed) =>
    \A n \in 1..iter_lev :
      /\ iters[n].ptr # NoEnt /\ ent[iters[n].ptr].used
      /\ iters[n].kind = "delete_if" /\ iters[n].last # NoEnt => ent[iters[n].last].used

\* An iteration that ends by itself has yielded every key that was there all
\* the time, unless the table grew or a block deleted from it.
EachVisits ==
  [][((EachContinue \/ EachDelete) /\ Len(iters') < iter_lev /\ upset' = {} /\ ~it.grown)
       => it.kept \subseteq it.seen]_vars

=============================================================================
