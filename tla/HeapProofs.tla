----------------------------- MODULE HeapProofs -----------------------------
(***************************************************************************)
(* Proofs about the object space and the garbage collector of gc.c, for    *)
(* heaps of any size, any number of them and any kinds of roots.           *)
(***************************************************************************)
EXTENDS MCHeap, WellFoundedInduction, TLAPS

-----------------------------------------------------------------------------
(***************************************************************************)
(* The inductive invariant.                                                *)
(***************************************************************************)

\* The cells of the heaps that are there.
Used == 1 .. heaps_used * Slots

\* The objects that the mutator may still use: in a sweep those that are marked
\* and those that it has passed.
Live == {c \in Cell : Object(c) /\ (phase = "sweep" => c \in mark \/ c < cursor)}

\* The cells from f on, by the links next.
ChainOf(next, f) ==
  {c \in Cell : \A S \in SUBSET Cell :
     /\ f \in Cell => f \in S
     /\ \A x \in S : next[x] \in Cell => next[x] \in S
     => c \in S}

\* The list from f holds the cells F, each once.
Lists(next, f, F) ==
  /\ f # Junk /\ ChainOf(next, f) = F
  /\ \A c \in F : c \notin ChainOf(next, next[c]) /\ next[c] # Junk

\* What the program reaches is live, and nodes of the parser are found by gc().
Closed ==
  /\ \A r \in Root : roots[r] \subseteq Live
  /\ \A c \in roots["parser"] : kind[c] = "node" /\ rb_in_compile
  /\ \A c \in Cell : ref[c] # Null => Object(c)
  /\ \A c \in Live : ref[c] \in Live \cup {Null}

\* Between collections.
Idle ==
  /\ mark = {}
  /\ phase = "mutator" => Lists(fnext, freelist, {c \in Cell : kind[c] = "free"})

\* In a sweep: behind the cursor a new free list is made, and at the end of each
\* heap it becomes the free list.
Swept ==
  /\ \A c \in mark : Object(c)
  /\ cursor <= heaps_used * Slots + 1
  /\ Lists(fnext, nfreelist, {c \in Cell : kind[c] = "free" /\ c < cursor})
  /\ (cursor - 1) % Slots = 0 => freelist = nfreelist
  /\ ~rb_in_compile => Live \subseteq Reachable

\* Until the first finalizer has run.
Sound ==
  /\ phase # "final"
  /\ \A c \in Cell : kind[c] = "none" <=> c \notin Used
  /\ Closed
  /\ phase # "sweep" => Idle
  /\ phase = "sweep" => Swept

\* Always: what finalizers do cannot disturb it.
Basic ==
  /\ TypeOK
  /\ cursor > 0 /\ finalized \in BOOLEAN
  /\ phase \in {"sweep", "final"} => dont_gc > 0 /\ \A c \in mark : c >= cursor
  /\ phase = "final" => cursor \in Used /\ cursor \notin mark
  /\ phase = "mutator" => cursor = 1 /\ nfreelist = Null

HeapInv == Basic /\ (~finalized => Sound)

-----------------------------------------------------------------------------
(***************************************************************************)
(* The heaps.                                                              *)
(***************************************************************************)

\* n heaps are whole, and less than the cells that there may be.
LEMMA WholeHeaps ==
  ASSUME NEW n \in Nat
  PROVE  /\ n * Slots \in Nat /\ (n + 1) * Slots = n * Slots + Slots /\ Slots \in Nat /\ Slots > 0
         /\ (n * Slots) % Slots = 0
         /\ n <= MaxHeaps => n * Slots <= Slots * MaxHeaps
<1>1. Slots \in Nat /\ Slots > 0 /\ MaxHeaps \in Nat
  BY HeapAssumption
<1>2. n * Slots \in Nat /\ (n + 1) * Slots = n * Slots + Slots
  BY <1>1
<1>3. n <= MaxHeaps => n * Slots <= Slots * MaxHeaps
  BY <1>1
<1>4. (n * Slots) % Slots = 0
  BY <1>1
<1> QED
  BY <1>1, <1>2, <1>3, <1>4

\* The cells in use are numbered first.
LEMMA CellsAre ==
  ASSUME TypeOK
  PROVE  /\ Used \subseteq Cell /\ Cell \subseteq Nat \ {0} /\ Null \notin Cell /\ Junk \notin Cell
         /\ Null # Junk
         /\ heaps_used * Slots \in Nat /\ (heaps_used * Slots) % Slots = 0 /\ heaps_used * Slots > 0
         /\ \A c \in Cell : c \in Used <=> c <= heaps_used * Slots
<1>1. heaps_used \in Nat /\ heaps_used > 0 /\ heaps_used <= MaxHeaps /\ MaxHeaps \in Nat
  BY HeapAssumption DEF TypeOK
<1>2. /\ heaps_used * Slots \in Nat /\ (heaps_used * Slots) % Slots = 0
      /\ heaps_used * Slots <= Slots * MaxHeaps /\ Slots \in Nat /\ Slots > 0
  BY <1>1, WholeHeaps
<1>3. heaps_used * Slots > 0
  BY <1>1, <1>2
<1>4. Cell \subseteq Nat \ {0} /\ Null \notin Cell /\ Junk \notin Cell /\ Null # Junk
  BY HeapAssumption DEF Cell
<1>5. Slots * MaxHeaps \in Nat
  BY <1>1, <1>2
<1> QED
  BY <1>2, <1>3, <1>4, <1>5 DEF Used, Cell

\* The cells of add_heap() are the next ones.
LEMMA NewCells ==
  ASSUME TypeOK, heaps_used < MaxHeaps
  PROVE  /\ NewHeap \subseteq Cell /\ HeapTop \in NewHeap /\ NewHeap \cap Used = {}
         /\ NewHeap = heaps_used * Slots + 1 .. HeapTop /\ HeapTop \in Nat
         /\ \A c \in Cell : c \in 1 .. HeapTop <=> c \in Used \cup NewHeap
<1>1. heaps_used \in Nat /\ heaps_used + 1 \in Nat /\ heaps_used + 1 <= MaxHeaps /\ MaxHeaps \in Nat
  BY HeapAssumption DEF TypeOK
<1>2. /\ heaps_used * Slots \in Nat /\ (heaps_used + 1) * Slots = heaps_used * Slots + Slots
      /\ (heaps_used + 1) * Slots <= Slots * MaxHeaps /\ Slots \in Nat /\ Slots > 0
  BY <1>1, WholeHeaps
<1>3. HeapTop = heaps_used * Slots + Slots /\ HeapTop \in Nat /\ HeapTop <= Slots * MaxHeaps
      /\ NewHeap = heaps_used * Slots + 1 .. HeapTop
  BY <1>2 DEF HeapTop, NewHeap
<1>4. Slots * MaxHeaps \in Nat
  BY <1>1, <1>2
<1> QED
  BY <1>2, <1>3, <1>4 DEF Used, Cell

-----------------------------------------------------------------------------
(***************************************************************************)
(* Lists of cells.                                                         *)
(***************************************************************************)

\* A free list has its head and what follows each of its cells.
LEMMA ChainHas ==
  ASSUME NEW g, NEW f
  PROVE  /\ ChainOf(g, f) \subseteq Cell /\ (f \in Cell => f \in ChainOf(g, f))
         /\ \A x \in ChainOf(g, f) : g[x] \in Cell => g[x] \in ChainOf(g, f)
BY DEF ChainOf

\* It has nothing else.
LEMMA ChainLeast ==
  ASSUME NEW g, NEW f, NEW S \in SUBSET Cell, f \in Cell => f \in S,
         \A x \in S : g[x] \in Cell => g[x] \in S
  PROVE  ChainOf(g, f) \subseteq S
BY DEF ChainOf

\* A list depends on its own links only.
LEMMA ChainSame ==
  ASSUME NEW g, NEW h, NEW f, \A x \in ChainOf(g, f) : h[x] = g[x]
  PROVE  ChainOf(h, f) = ChainOf(g, f)
<1>1. ChainOf(h, f) \subseteq ChainOf(g, f)
  <2>1. /\ ChainOf(g, f) \in SUBSET Cell /\ (f \in Cell => f \in ChainOf(g, f))
        /\ \A x \in ChainOf(g, f) : h[x] \in Cell => h[x] \in ChainOf(g, f)
    BY ChainHas
  <2> QED
    BY <2>1, ChainLeast
<1>2. ChainOf(g, f) \subseteq ChainOf(h, f)
  <2>1. /\ ChainOf(h, f) \in SUBSET Cell /\ (f \in Cell => f \in ChainOf(h, f))
        /\ \A x \in ChainOf(h, f) : h[x] \in Cell => h[x] \in ChainOf(h, f)
    BY ChainHas
  <2>2. \A x \in ChainOf(h, f) : h[x] = g[x]
    BY <1>1
  <2> QED
    BY <2>1, <2>2, ChainLeast
<1> QED
  BY <1>1, <1>2

\* The rest of a list is part of it.
LEMMA ChainTail ==
  ASSUME NEW g, NEW f, NEW x \in ChainOf(g, f)
  PROVE  ChainOf(g, g[x]) \subseteq ChainOf(g, f)
<1>1. ChainOf(g, f) \in SUBSET Cell /\ \A y \in ChainOf(g, f) : g[y] \in Cell => g[y] \in ChainOf(g, f)
  BY ChainHas
<1> QED
  BY <1>1, ChainLeast

\* A list is its head and the rest.
LEMMA ChainStep ==
  ASSUME NEW g, NEW f \in Cell
  PROVE  ChainOf(g, f) = {f} \cup ChainOf(g, g[f])
<1>1. f \in ChainOf(g, f) /\ ChainOf(g, g[f]) \subseteq ChainOf(g, f)
  BY ChainHas, ChainTail
<1>2. ChainOf(g, f) \subseteq {f} \cup ChainOf(g, g[f])
  <2> DEFINE S == {f} \cup ChainOf(g, g[f])
  <2>1. S \in SUBSET Cell /\ f \in S /\ \A x \in S : g[x] \in Cell => g[x] \in S
    BY ChainHas
  <2> HIDE DEF S
  <2>2. ChainOf(g, f) \subseteq S
    BY <2>1, ChainLeast
  <2> QED
    BY <2>2 DEF S
<1> QED
  BY <1>1, <1>2

\* A list is the same while its cells are linked the same way.
LEMMA ListsSame ==
  ASSUME NEW g, NEW h, NEW f, NEW F, Lists(g, f, F), \A x \in F : h[x] = g[x]
  PROVE  Lists(h, f, F)
<1>1. f # Junk /\ ChainOf(g, f) = F /\ \A c \in F : c \notin ChainOf(g, g[c]) /\ g[c] # Junk
  BY DEF Lists
<1>2. ChainOf(h, f) = F
  BY <1>1, ChainSame
<1>3. ASSUME NEW c \in F PROVE c \notin ChainOf(h, h[c]) /\ h[c] # Junk
  <2>1. ChainOf(g, g[c]) \subseteq F
    BY <1>1, ChainTail
  <2>2. ChainOf(h, g[c]) = ChainOf(g, g[c])
    BY <2>1, ChainSame
  <2> QED
    BY <1>1, <2>2
<1> QED
  BY <1>1, <1>2, <1>3 DEF Lists

\* There is nothing on an empty list.
LEMMA ListsNone == ASSUME NEW g, NEW f, f \notin Cell, f # Junk PROVE Lists(g, f, {})
<1> DEFINE S == {}
<1>1. S \in SUBSET Cell /\ \A x \in S : g[x] \in Cell => g[x] \in S
  OBVIOUS
<1> HIDE DEF S
<1>2. ChainOf(g, f) \subseteq S
  BY <1>1, ChainLeast
<1> QED
  BY <1>2 DEF Lists, S

\* The first cell is taken off a list.
LEMMA ListsPop ==
  ASSUME NEW g, NEW h, NEW f \in Cell, NEW F, Lists(g, f, F), \A x \in F \ {f} : h[x] = g[x]
  PROVE  f \in F /\ Lists(h, g[f], F \ {f})
<1>1. ChainOf(g, f) = F /\ \A c \in F : c \notin ChainOf(g, g[c]) /\ g[c] # Junk
  BY DEF Lists
<1>2. f \in F /\ ChainOf(g, g[f]) = F \ {f}
  BY <1>1, ChainStep
<1>3. Lists(g, g[f], F \ {f})
  BY <1>1, <1>2 DEF Lists
<1> QED
  BY <1>2, <1>3, ListsSame

\* A cell is put in front of a list.
LEMMA ListsPush ==
  ASSUME NEW g, NEW h, NEW f, NEW F, Lists(g, f, F), NEW c \in Cell, c \notin F,
         \A x \in F : h[x] = g[x], h[c] = f
  PROVE  Lists(h, c, F \cup {c})
<1>1. Lists(h, f, F)
  BY ListsSame
<1>2. f # Junk /\ ChainOf(h, f) = F /\ \A x \in F : x \notin ChainOf(h, h[x]) /\ h[x] # Junk
  BY <1>1 DEF Lists
<1>3. ChainOf(h, c) = F \cup {c}
  BY <1>2, ChainStep
<1>4. c # Junk
  BY HeapAssumption DEF Cell
<1> QED
  BY <1>2, <1>3, <1>4 DEF Lists

\* The least element of a set of naturals, from the well-founded order of the library.
Less == {p \in Nat \X Nat : p[1] < p[2]}

\* A set of numbers has a least one.
LEMMA Least ==
  ASSUME NEW S \in SUBSET Nat, S # {}
  PROVE  \E x \in S : \A y \in S : x <= y
<1>1. IsWellFoundedOn(Less, Nat)
  BY NatLessThanWellFounded DEF OpToRel, Less
<1>2. PICK x \in S : \A y \in S : ~ (<<y, x>> \in Less)
  BY <1>1, WFMin
<1>3. ASSUME NEW y \in S, ~(x <= y) PROVE FALSE
  <2>1. x \in Nat /\ y \in Nat /\ y < x
    BY <1>3
  <2>2. <<y, x>> \in Less
    BY <2>1 DEF Less
  <2> QED
    BY <2>2, <1>2
<1> QED
  BY <1>3

\* A heap is put in front of a list, its highest cell first.
LEMMA ListsHeap ==
  ASSUME NEW g, NEW h, NEW f, NEW F, Lists(g, f, F), NEW lo \in Nat, NEW hi \in Nat, lo <= hi,
         lo .. hi \subseteq Cell, (lo .. hi) \cap F = {},
         \A x \in F : h[x] = g[x], \A c \in lo .. hi : h[c] = IF c = lo THEN f ELSE c - 1
  PROVE  Lists(h, hi, F \cup (lo .. hi))
<1>1. Lists(h, f, F)
  BY ListsSame
<1>2. /\ f # Junk /\ ChainOf(h, f) = F /\ \A x \in F : x \notin ChainOf(h, h[x]) /\ h[x] # Junk
      /\ F \subseteq Cell /\ hi \in Cell /\ lo \in lo .. hi /\ hi \in lo .. hi
  BY <1>1, ChainHas DEF Lists
<1>3. ASSUME NEW c \in lo .. hi PROVE ChainOf(h, c) \subseteq F \cup (lo .. c)
  <2> DEFINE S == F \cup (lo .. c)
  <2>1. S \in SUBSET Cell /\ c \in S
    BY <1>2
  <2>2. ASSUME NEW x \in S, h[x] \in Cell PROVE h[x] \in S
    <3>1. CASE x \in F
      BY <1>2, <2>2, <3>1, ChainHas
    <3>2. CASE x \in lo .. c
      <4>1. x \in lo .. hi
        BY <3>2
      <4>2. CASE x = lo
        BY <1>2, <2>2, <4>1, <4>2, ChainHas
      <4>3. CASE x # lo
        <5>1. h[x] = x - 1 /\ x - 1 \in lo .. c
          BY <3>2, <4>1, <4>3
        <5> QED
          BY <5>1
      <4> QED
        BY <4>2, <4>3
    <3> QED
      BY <3>1, <3>2
  <2> HIDE DEF S
  <2>3. ChainOf(h, c) \subseteq S
    BY <2>1, <2>2, ChainLeast
  <2> QED
    BY <2>3 DEF S
<1>4. lo .. hi \subseteq ChainOf(h, hi)
  <2> DEFINE T == {k \in Nat : k <= hi - lo /\ hi - k \notin ChainOf(h, hi)}
  <2>1. ASSUME T # {} PROVE FALSE
    <3>1. T \in SUBSET Nat
      OBVIOUS
    <3>2. PICK k \in T : \A y \in T : k <= y
      BY <2>1, <3>1, Least
    <3>3. k \in Nat /\ k <= hi - lo /\ hi - k \notin ChainOf(h, hi) /\ k # 0
      BY <1>2, ChainHas
    <3>4. hi - (k - 1) \in ChainOf(h, hi)
      BY <3>2, <3>3
    <3>5. h[hi - (k - 1)] = hi - k /\ hi - k \in lo .. hi
      BY <3>3
    <3> QED
      BY <3>3, <3>4, <3>5, ChainHas
  <2>2. ASSUME NEW c \in lo .. hi PROVE c \in ChainOf(h, hi)
    <3>1. hi - c \in Nat /\ hi - c <= hi - lo /\ hi - (hi - c) = c
      OBVIOUS
    <3>2. hi - c \notin T
      BY <2>1
    <3> QED
      BY <3>1, <3>2
  <2> QED
    BY <2>2
<1>5. F \subseteq ChainOf(h, hi)
  <2>1. lo \in ChainOf(h, hi) /\ h[lo] = f
    BY <1>2, <1>4
  <2> QED
    BY <1>2, <2>1, ChainTail
<1>6. ChainOf(h, hi) = F \cup (lo .. hi)
  BY <1>2, <1>3, <1>4, <1>5
<1>7. ASSUME NEW c \in F \cup (lo .. hi) PROVE c \notin ChainOf(h, h[c]) /\ h[c] # Junk
  <2>1. CASE c \in F
    BY <1>2, <2>1
  <2>2. CASE c = lo
    BY <1>2, <2>2
  <2>3. CASE c \in lo .. hi /\ c # lo
    <3>1. h[c] = c - 1 /\ c - 1 \in lo .. hi /\ c \notin lo .. c - 1
      BY <2>3
    <3>2. ChainOf(h, h[c]) \subseteq F \cup (lo .. c - 1)
      BY <1>3, <3>1
    <3>3. c - 1 # Junk
      BY <3>1, HeapAssumption
    <3> QED
      BY <2>3, <3>1, <3>2, <3>3
  <2> QED
    BY <2>1, <2>2, <2>3
<1>8. hi # Junk
  BY HeapAssumption
<1> QED
  BY <1>6, <1>7, <1>8 DEF Lists

-----------------------------------------------------------------------------
(***************************************************************************)
(* The steps: types, and what holds also when a finalizer has run.         *)
(***************************************************************************)

\* add_heap() links the new cells to each other and to the free list.
LEMMA AddsHeap ==
  ASSUME TypeOK, NEW f \in Cell \cup {Null, Junk}, add_heap(f), heaps_used < MaxHeaps
  PROVE  /\ heaps_used' = heaps_used + 1 /\ heaps_used' \in 1 .. MaxHeaps /\ HeapTop \in Cell
         /\ kind' \in [Cell -> {"none", "free", "obj", "node"}]
         /\ \A c \in Cell : kind'[c] = IF c \in NewHeap THEN "free" ELSE kind[c]
         /\ fnext' \in [Cell -> Cell \cup {Null, Junk}]
         /\ \A c \in NewHeap : fnext'[c] = IF c = heaps_used * Slots + 1 THEN f ELSE c - 1
         /\ \A c \in Cell \ NewHeap : fnext'[c] = fnext[c]
         /\ Used \subseteq Used' /\ \A c \in Cell : c \in Used' <=> c \in Used \/ c \in NewHeap
<1>1. /\ heaps_used' = heaps_used + 1
      /\ kind' = [c \in Cell |-> IF c \in NewHeap THEN "free" ELSE kind[c]]
      /\ fnext' = [c \in Cell |-> IF c \notin NewHeap THEN fnext[c]
                                  ELSE IF c - 1 \in NewHeap THEN c - 1 ELSE f]
  BY DEF add_heap
<1>2. heaps_used' \in 1 .. MaxHeaps
  BY <1>1, HeapAssumption DEF TypeOK
<1>3. /\ NewHeap \subseteq Cell /\ HeapTop \in NewHeap /\ NewHeap \cap Used = {}
      /\ NewHeap = heaps_used * Slots + 1 .. HeapTop /\ HeapTop \in Nat /\ heaps_used * Slots \in Nat
      /\ \A c \in Cell : c \in 1 .. HeapTop <=> c \in Used \cup NewHeap
  BY NewCells, CellsAre
<1>4. \A c \in NewHeap : c - 1 \in NewHeap <=> c # heaps_used * Slots + 1
  BY <1>3
<1>5. \A c \in NewHeap : fnext'[c] = IF c = heaps_used * Slots + 1 THEN f ELSE c - 1
  BY <1>1, <1>3, <1>4
<1>6. kind' \in [Cell -> {"none", "free", "obj", "node"}] /\ fnext' \in [Cell -> Cell \cup {Null, Junk}]
  BY <1>1, <1>3 DEF TypeOK
<1>7. Used' = 1 .. HeapTop /\ Used = 1 .. heaps_used * Slots
  BY <1>1 DEF Used, HeapTop
<1>8. Used \subseteq Used' /\ \A c \in Cell : c \in Used' <=> c \in Used \/ c \in NewHeap
  BY <1>3, <1>7
<1> QED
  BY <1>1, <1>2, <1>3, <1>5, <1>6, <1>8

\* The steps of the program keep the types.
LEMMA MutatorBasic == ASSUME Basic, Mutator, UNCHANGED finalized PROVE Basic'
<1>1. TypeOK /\ Cell \subseteq Nat \ {0} /\ Null \notin Cell /\ Used \subseteq Cell
  BY CellsAre DEF Basic
<1>2. CASE \E k \in {"obj", "node"}, r \in Root : rb_newobj(k, r)
  <2>1. PICK k \in {"obj", "node"}, r \in Root : rb_newobj(k, r)
    BY <1>2
  <2>2. CASE freelist \in Cell
    <3>1. /\ freelist' = fnext[freelist] /\ kind' = [kind EXCEPT ![freelist] = k]
          /\ ref' = [ref EXCEPT ![freelist] = Null] /\ fnext' = [fnext EXCEPT ![freelist] = Junk]
          /\ roots' = [roots EXCEPT ![r] = @ \cup {freelist}] /\ finalize' = finalize \ {freelist}
          /\ UNCHANGED <<phase, heaps_used, mark, dont_gc, rb_in_compile, cursor, nfreelist, freed>>
      BY <2>1, <2>2 DEF rb_newobj, sweep
    <3>2. roots' \in [Root -> SUBSET Cell] /\ freelist' \in Cell \cup {Null, Junk}
      BY <1>1, <2>2, <3>1 DEF TypeOK
    <3>3. TypeOK'
      BY <1>1, <3>1, <3>2 DEF TypeOK
    <3> QED
      BY <3>1, <3>3 DEF Basic, Used
  <2>3. CASE freelist \notin Cell
    BY <1>1, <2>1, <2>3 DEF rb_newobj, Ruby, Running, Basic, TypeOK, sweep, Used
  <2> QED
    BY <2>2, <2>3
<1>3. CASE NewobjAddsHeap
  <2>1. CASE heaps_used < MaxHeaps
    <3>1. add_heap(Null) /\ freelist' = HeapTop /\ UNCHANGED phase
          /\ UNCHANGED <<ref, finalize, mark, roots, dont_gc, rb_in_compile, cursor, nfreelist, freed>>
      BY <1>3, <2>1 DEF NewobjAddsHeap, sweep
    <3>2. /\ heaps_used' \in 1 .. MaxHeaps /\ HeapTop \in Cell
          /\ kind' \in [Cell -> {"none", "free", "obj", "node"}]
          /\ fnext' \in [Cell -> Cell \cup {Null, Junk}] /\ Used \subseteq Used'
      BY <1>1, <2>1, <3>1, AddsHeap
    <3> QED
      BY <3>1, <3>2 DEF Basic, TypeOK
  <2>2. CASE ~(heaps_used < MaxHeaps)
    BY <1>3, <2>2 DEF NewobjAddsHeap, Basic, TypeOK, sweep, Used
  <2> QED
    BY <2>1, <2>2
<1>4. CASE \E c \in Cell, r \in Root : Drop(c, r) \/ Move(c, r) \/ Fetch(c, r)
  <2>1. PICK c \in Cell, r \in Root : Drop(c, r) \/ Move(c, r) \/ Fetch(c, r)
    BY <1>4
  <2>2. /\ UNCHANGED <<cells, mark, freelist, dont_gc, rb_in_compile, phase, sweep>>
        /\ roots' \in [Root -> SUBSET Cell]
    BY <1>1, <2>1 DEF Drop, Move, Fetch, TypeOK
  <2> QED
    BY <2>2 DEF Basic, TypeOK, cells, sweep, Used
<1>5. CASE \E c \in Cell, r \in Root : gc_force_recycle(c, r)
  BY <1>1, <1>5 DEF gc_force_recycle, Basic, TypeOK, sweep, Used
<1>6. CASE \E c, d \in Cell : Store(c, d)
  BY <1>1, <1>6 DEF Store, Basic, TypeOK, sweep, Used
<1>7. CASE \E c \in Cell : call_final(c)
  BY <1>1, <1>7 DEF call_final, Basic, TypeOK, sweep, Used
<1>8. CASE gc_s_enable \/ gc_s_disable
  <2>1. /\ UNCHANGED <<cells, mark, freelist, roots, rb_in_compile, phase, sweep>>
        /\ dont_gc' \in 0 .. 2 /\ (phase \in {"sweep", "final"} => dont_gc' > 0)
    BY <1>8 DEF gc_s_enable, gc_s_disable, Running, Ruby
  <2> QED
    BY <2>1 DEF Basic, TypeOK, cells, sweep, Used
<1>9. CASE CompileBegin \/ CompileEnd \/ CompileRaises
  BY <1>1, <1>9 DEF CompileBegin, CompileEnd, CompileRaises, Running, Ruby, Basic, TypeOK, cells, sweep, Used
<1> QED
  BY <1>2, <1>3, <1>4, <1>5, <1>6, <1>7, <1>8, <1>9 DEF Mutator

\* The cursor of a sweep that is not at its end is on a cell.
LEMMA CursorOnCell ==
  ASSUME Basic, (phase = "sweep" /\ cursor <= heaps_used * Slots) \/ phase = "final"
  PROVE  cursor \in Used /\ cursor \in Cell
<1>1. TypeOK /\ Used \subseteq Cell /\ cursor \in Nat /\ cursor > 0 /\ heaps_used * Slots \in Nat
      /\ (phase = "final" => cursor \in Used)
  BY CellsAre DEF Basic, TypeOK
<1> QED
  BY <1>1 DEF Used

\* The steps of the collector keep the types.
LEMMA CollectorBasic == ASSUME Basic, Collector, UNCHANGED finalized PROVE Basic'
<1>1. TypeOK /\ Cell \subseteq Nat \ {0} /\ Null \notin Cell /\ Used \subseteq Cell
  BY CellsAre DEF Basic
<1>2. CASE gc
  <2>1. mark' \subseteq Cell
    BY <1>1, <1>2 DEF gc, gc_mark, TypeOK
  <2>2. cursor > 0 /\ dont_gc' = 1 /\ phase' = "sweep" /\ freelist' = Null
        /\ UNCHANGED <<cells, roots, rb_in_compile, sweep>>
    BY <1>2 DEF gc, Basic
  <2>3. mark' \in SUBSET Cell /\ \A c \in mark' : c >= cursor
    BY <1>1, <1>2, <2>1 DEF gc, Running, Basic
  <2> QED
    BY <2>2, <2>3 DEF Basic, TypeOK, cells, sweep
<1>3. CASE SweepMarked
  <2>1. /\ cursor \in mark /\ mark' = mark \ {cursor} /\ cursor' = cursor + 1
        /\ freelist' \in {nfreelist, freelist} /\ phase = "sweep"
        /\ UNCHANGED <<cells, roots, dont_gc, rb_in_compile, phase, nfreelist, freed>>
    BY <1>3 DEF SweepMarked
  <2>2. \A c \in mark' : c >= cursor'
    BY <1>1, <2>1 DEF Basic, TypeOK
  <2> QED
    BY <2>1, <2>2 DEF Basic, TypeOK, cells
<1>4. CASE FinalReturns \/ SweepFree
  <2>1. phase \in {"sweep", "final"} /\ phase' = "sweep" /\ FreeCell /\ cursor \in Cell
        /\ cursor \notin mark
    BY <1>4, CursorOnCell DEF FinalReturns, SweepFree, Basic
  <2>2. \A c \in mark' : c >= cursor'
    BY <1>1, <2>1 DEF Basic, TypeOK, FreeCell
  <2> QED
    BY <1>1, <2>1, <2>2 DEF Basic, TypeOK, FreeCell
<1>5. CASE FinalRaises
  BY <1>1, <1>5 DEF FinalRaises, Basic, TypeOK, cells
<1>6. CASE SweepEnd
  <2>1. /\ dont_gc' = dont_gc - 1 /\ dont_gc' \in 0 .. 2 /\ cursor' = 1 /\ nfreelist' = Null /\ freed' = 0
        /\ phase' \in {"mutator", "fatal"} /\ UNCHANGED <<ref, finalize, mark, roots, rb_in_compile>>
    BY <1>6 DEF SweepEnd, Basic, TypeOK
  <2>2. CASE UNCHANGED <<heaps_used, kind, fnext, freelist>>
    BY <2>1, <2>2 DEF Basic, TypeOK
  <2>3. CASE heaps_used < MaxHeaps /\ add_heap(freelist) /\ freelist' = HeapTop
    <3>1. /\ heaps_used' \in 1 .. MaxHeaps /\ HeapTop \in Cell
          /\ kind' \in [Cell -> {"none", "free", "obj", "node"}]
          /\ fnext' \in [Cell -> Cell \cup {Null, Junk}]
      <4>1. freelist \in Cell \cup {Null, Junk}
        BY <1>1 DEF TypeOK
      <4> QED
        BY <1>1, <2>3, <4>1, AddsHeap
    <3> QED
      BY <2>1, <2>3, <3>1 DEF Basic, TypeOK
  <2> QED
    BY <1>6, <2>2, <2>3 DEF SweepEnd
<1> QED
  BY <1>2, <1>3, <1>4, <1>5, <1>6 DEF Collector

\* Types are kept.
LEMMA BasicStep == ASSUME Basic, [Next]_vars PROVE Basic'
<1>1. CASE (Mutator \/ Collector) /\ UNCHANGED finalized
  BY <1>1, MutatorBasic, CollectorBasic
<1>2. CASE run_final /\ finalized' = TRUE
  <2>1. cursor \in Used
    BY <1>2, CursorOnCell DEF run_final
  <2> QED
    BY <1>2, <2>1 DEF run_final, Basic, TypeOK, cells, sweep, Used
<1>3. CASE UNCHANGED vars
  BY <1>3 DEF Basic, TypeOK, vars, cells, sweep, Used
<1> QED
  BY <1>1, <1>2, <1>3 DEF Next, Over

-----------------------------------------------------------------------------
(***************************************************************************)
(* The steps before the first finalizer runs.                              *)
(***************************************************************************)

Free == {c \in Cell : kind[c] = "free"}

\* What the invariant says while the program runs.
LEMMA MutatorIs ==
  ASSUME HeapInv, Running
  PROVE  /\ TypeOK /\ Sound /\ ~finalized /\ phase = "mutator" /\ mark = {} /\ cursor = 1 /\ nfreelist = Null
         /\ Live = {c \in Cell : Object(c)} /\ Lists(fnext, freelist, Free)
         /\ Held \subseteq Live
<1>1. /\ TypeOK /\ Sound /\ ~finalized /\ phase = "mutator" /\ mark = {} /\ cursor = 1 /\ nfreelist = Null
      /\ Lists(fnext, freelist, Free)
  BY DEF HeapInv, Basic, Sound, Idle, Running, Free
<1>2. Live = {c \in Cell : Object(c)}
  BY <1>1 DEF Live
<1>3. Held \subseteq Live
  BY <1>1 DEF Held, Sound, Closed
<1> QED
  BY <1>1, <1>2, <1>3

\* A step that changes only what the program holds and refers to.
LEMMA KeepsSound ==
  ASSUME HeapInv, Running, UNCHANGED <<heaps_used, kind, fnext, mark, freelist, phase>>,
         \A r \in Root : roots'[r] \subseteq Live,
         \A c \in roots'["parser"] : kind[c] = "node" /\ rb_in_compile',
         \A c \in Cell : ref'[c] = ref[c] \/ (c \in Live /\ ref'[c] \in Live)
  PROVE  Sound'
<1>1. /\ TypeOK /\ Sound /\ ~finalized /\ phase = "mutator" /\ mark = {}
      /\ Live = {c \in Cell : Object(c)}
  BY MutatorIs
<1>2. Live' = Live /\ Used' = Used /\ \A c \in Cell : Object(c)' <=> Object(c)
  BY <1>1 DEF Live, Used, Object
<1>3. Closed'
  BY <1>1, <1>2 DEF Closed, Sound, Live
<1>4. Idle'
  BY <1>1 DEF Sound, Idle
<1> QED
  BY <1>1, <1>2, <1>3, <1>4 DEF Sound

\* Moving references between cells and roots keeps the cells sound.
LEMMA ProgramSound ==
  ASSUME HeapInv, Running,
         \/ \E c \in Cell, r \in Root : Drop(c, r) \/ Move(c, r) \/ Fetch(c, r)
         \/ \E c, d \in Cell : Store(c, d)
         \/ \E c \in Cell : call_final(c)
         \/ gc_s_enable \/ gc_s_disable
         \/ CompileBegin \/ CompileEnd \/ CompileRaises
  PROVE  Sound'
<1>1. /\ TypeOK /\ Sound /\ ~finalized /\ phase = "mutator" /\ mark = {} /\ "parser" \in Root
      /\ Live = {c \in Cell : Object(c)} /\ Held \subseteq Live /\ Null \notin Cell
  BY MutatorIs, HeapAssumption, CellsAre
<1>2. /\ \A r \in Root : roots[r] \subseteq Live
      /\ \A c \in roots["parser"] : kind[c] = "node" /\ rb_in_compile
      /\ \A c \in Live : ref[c] \in Live \cup {Null}
      /\ roots \in [Root -> SUBSET Cell] /\ ref \in [Cell -> Cell \cup {Null}]
  BY <1>1 DEF Sound, Closed, TypeOK
<1>3. CASE \E c \in Cell, r \in Root : Drop(c, r) \/ Move(c, r) \/ Fetch(c, r)
  <2>1. PICK c \in Cell, r \in Root : Drop(c, r) \/ Move(c, r) \/ Fetch(c, r)
    BY <1>3
  <2>2. /\ UNCHANGED <<heaps_used, kind, fnext, mark, freelist, phase, ref, rb_in_compile>>
        /\ \E d \in Live : /\ roots' = [roots EXCEPT ![r] = @ \ {c}] \/ roots' = [roots EXCEPT ![r] = @ \cup {d}]
                           /\ roots' # [roots EXCEPT ![r] = @ \ {c}] => MayHold(r, kind[d])
    BY <1>1, <1>2, <2>1 DEF Drop, Move, Fetch, cells
  <2>3. \A x \in Root : roots'[x] \subseteq Live
    BY <1>2, <2>2
  <2>4. \A x \in roots'["parser"] : kind[x] = "node" /\ rb_in_compile'
    BY <1>1, <1>2, <2>2 DEF MayHold
  <2> QED
    BY <2>2, <2>3, <2>4, KeepsSound
<1>4. CASE \E c, d \in Cell : Store(c, d)
  <2>1. PICK c \in Cell, d \in Cell : Store(c, d)
    BY <1>4
  <2>2. /\ UNCHANGED <<heaps_used, kind, fnext, mark, freelist, phase, roots, rb_in_compile>>
        /\ ref' = [ref EXCEPT ![c] = d] /\ c \in Live /\ d \in Live
    BY <1>1, <2>1 DEF Store
  <2>3. \A x \in Cell : ref'[x] = ref[x] \/ (x \in Live /\ ref'[x] \in Live)
    BY <1>2, <2>2
  <2> QED
    BY <1>2, <2>2, <2>3, KeepsSound
<1>5. CASE (\E c \in Cell : call_final(c)) \/ gc_s_enable \/ gc_s_disable
  <2>1. UNCHANGED <<heaps_used, kind, fnext, mark, freelist, phase, roots, ref, rb_in_compile>>
    BY <1>5 DEF call_final, gc_s_enable, gc_s_disable, cells
  <2> QED
    BY <1>2, <2>1, KeepsSound
<1>6. CASE CompileBegin \/ CompileEnd \/ CompileRaises
  <2>1. /\ UNCHANGED <<heaps_used, kind, fnext, mark, freelist, phase, ref>>
        /\ roots' = roots \/ roots' = [roots EXCEPT !["parser"] = {}]
        /\ roots'["parser"] = {}
    BY <1>1, <1>2, <1>6 DEF CompileBegin, CompileEnd, CompileRaises, cells
  <2>2. \A r \in Root : roots'[r] \subseteq Live
    BY <1>2, <2>1
  <2> QED
    BY <2>1, <2>2, KeepsSound
<1> QED
  BY <1>3, <1>4, <1>5, <1>6

\* The program ends for lack of memory.
LEMMA FatalSound ==
  ASSUME HeapInv, Running, UNCHANGED <<heaps_used, kind, ref, mark, roots, rb_in_compile>>, phase' = "fatal"
  PROVE  Sound'
<1>1. /\ TypeOK /\ Sound /\ ~finalized /\ phase = "mutator" /\ mark = {}
      /\ Live = {c \in Cell : Object(c)}
  BY MutatorIs
<1>2. Live' = Live /\ Used' = Used /\ \A c \in Cell : Object(c)' <=> Object(c)
  BY <1>1 DEF Live, Used, Object
<1>3. Closed'
  BY <1>1, <1>2 DEF Closed, Sound
<1> QED
  BY <1>1, <1>2, <1>3 DEF Sound, Idle

\* rb_newobj() takes a cell off the list that nobody refers to.
LEMMA NewobjSound ==
  ASSUME HeapInv, Running, NEW k \in {"obj", "node"}, NEW r \in Root, rb_newobj(k, r)
  PROVE  Sound'
<1>1. /\ TypeOK /\ Sound /\ ~finalized /\ phase = "mutator" /\ mark = {}
      /\ Live = {c \in Cell : Object(c)} /\ Lists(fnext, freelist, Free) /\ Null \notin Cell
  BY MutatorIs, CellsAre
<1>2. CASE freelist \notin Cell
  BY <1>2, FatalSound DEF rb_newobj
<1>3. CASE freelist \in Cell
  <2>1. /\ freelist' = fnext[freelist] /\ kind' = [kind EXCEPT ![freelist] = k]
        /\ ref' = [ref EXCEPT ![freelist] = Null] /\ fnext' = [fnext EXCEPT ![freelist] = Junk]
        /\ roots' = [roots EXCEPT ![r] = @ \cup {freelist}] /\ MayHold(r, k)
        /\ UNCHANGED <<phase, heaps_used, mark, rb_in_compile>>
    BY <1>3 DEF rb_newobj
  <2>2. freelist \in Free /\ Lists(fnext', freelist', Free \ {freelist})
    <3>1. \A x \in Free \ {freelist} : fnext'[x] = fnext[x]
      BY <1>1, <2>1 DEF TypeOK, Free
    <3> QED
      BY <1>1, <1>3, <2>1, <3>1, ListsPop
  <2>3. /\ \A c \in Cell : kind'[c] = IF c = freelist THEN k ELSE kind[c]
        /\ \A c \in Cell : ref'[c] = IF c = freelist THEN Null ELSE ref[c]
        /\ \A x \in Root : roots'[x] = IF x = r THEN roots[x] \cup {freelist} ELSE roots[x]
        /\ kind[freelist] = "free"
    BY <1>1, <2>1, <2>2 DEF TypeOK, Free
  <2>4. /\ Live' = Live \cup {freelist} /\ freelist \notin Live /\ Free' = Free \ {freelist}
        /\ \A c \in Cell : Object(c)' <=> c \in Live'
    BY <1>1, <1>3, <2>1, <2>3 DEF Live, Free, Object
  <2>5. Closed'
    <3>1. /\ \A x \in Root : roots[x] \subseteq Live
          /\ \A c \in roots["parser"] : kind[c] = "node" /\ rb_in_compile
          /\ \A c \in Cell : ref[c] # Null => c \in Live
          /\ \A c \in Live : ref[c] \in Live \cup {Null}
      BY <1>1 DEF Sound, Closed
    <3>2. \A x \in Root : roots'[x] \subseteq Live'
      BY <2>3, <2>4, <3>1
    <3>3. \A c \in roots'["parser"] : kind'[c] = "node" /\ rb_in_compile'
      <4>1. "parser" \in Root /\ roots["parser"] \subseteq Live /\ Live \subseteq Cell
        BY <3>1, HeapAssumption DEF Live
      <4> TAKE c \in roots'["parser"]
      <4>2. CASE c = freelist
        <5>1. r = "parser"
          BY <2>3, <2>4, <4>1, <4>2
        <5>2. kind'[freelist] = k
          BY <1>3, <2>3
        <5> QED
          BY <2>1, <4>2, <5>1, <5>2 DEF MayHold
      <4>3. CASE c # freelist
        <5>1. c \in roots["parser"] /\ c \in Cell
          BY <2>3, <4>1, <4>3
        <5> QED
          BY <2>1, <2>3, <3>1, <4>3, <5>1
      <4> QED
        BY <4>2, <4>3
    <3>4. \A c \in Cell : ref'[c] # Null => Object(c)'
      BY <2>3, <2>4, <3>1
    <3>5. \A c \in Live' : ref'[c] \in Live' \cup {Null}
      BY <2>3, <2>4, <3>1 DEF Live
    <3> QED
      BY <3>2, <3>3, <3>4, <3>5 DEF Closed
  <2>6. Idle'
    BY <1>1, <2>1, <2>2, <2>4 DEF Idle, Free
  <2>7. \A c \in Cell : kind'[c] = "none" <=> c \notin Used'
    BY <1>1, <2>1, <2>3 DEF Sound, Used
  <2> QED
    BY <1>1, <2>1, <2>5, <2>6, <2>7 DEF Sound
<1> QED
  BY <1>2, <1>3

\* A new heap changes what is free, and no object.
LEMMA HeapAdded ==
  ASSUME TypeOK, NEW f \in Cell \cup {Null, Junk}, heaps_used < MaxHeaps, add_heap(f),
         \A c \in Cell : kind[c] = "none" <=> c \notin Used,
         Lists(fnext, f, Free)
  PROVE  /\ \A c \in Cell : Object(c)' <=> Object(c)
         /\ \A c \in Cell : Object(c) => kind'[c] = kind[c]
         /\ \A c \in Cell : kind'[c] = "none" <=> c \notin Used'
         /\ Lists(fnext', HeapTop, Free')
<1>1. /\ \A c \in Cell : kind'[c] = IF c \in NewHeap THEN "free" ELSE kind[c]
      /\ \A c \in NewHeap : fnext'[c] = IF c = heaps_used * Slots + 1 THEN f ELSE c - 1
      /\ \A c \in Cell \ NewHeap : fnext'[c] = fnext[c]
      /\ \A c \in Cell : c \in Used' <=> c \in Used \/ c \in NewHeap
  BY AddsHeap
<1>2. /\ NewHeap \subseteq Cell /\ HeapTop \in NewHeap /\ NewHeap \cap Used = {} /\ heaps_used * Slots + 1 \in Nat
      /\ NewHeap = heaps_used * Slots + 1 .. HeapTop /\ HeapTop \in Nat /\ heaps_used * Slots + 1 <= HeapTop
  BY NewCells, CellsAre
<1>3. \A c \in NewHeap : kind[c] = "none"
  BY <1>2
<1>4. (\A c \in Cell : Object(c)' <=> Object(c)) /\ (\A c \in Cell : Object(c) => kind'[c] = kind[c])
  BY <1>1, <1>3 DEF Object
<1>5. \A c \in Cell : kind'[c] = "none" <=> c \notin Used'
  BY <1>1
<1>6. Free' = Free \cup NewHeap /\ NewHeap \cap Free = {}
  BY <1>1, <1>2, <1>3 DEF Free
<1>7. Lists(fnext', HeapTop, Free \cup NewHeap)
  <2>1. \A x \in Free : fnext'[x] = fnext[x]
    BY <1>1, <1>6 DEF Free
  <2> DEFINE lo == heaps_used * Slots + 1
  <2>2. /\ lo \in Nat /\ HeapTop \in Nat /\ lo <= HeapTop /\ NewHeap = lo .. HeapTop
        /\ lo .. HeapTop \subseteq Cell /\ (lo .. HeapTop) \cap Free = {}
        /\ \A c \in lo .. HeapTop : fnext'[c] = IF c = lo THEN f ELSE c - 1
    BY <1>1, <1>2, <1>6
  <2> HIDE DEF lo
  <2>3. Lists(fnext', HeapTop, Free \cup (lo .. HeapTop))
    BY <2>1, <2>2, ListsHeap
  <2> QED
    BY <2>2, <2>3
<1> QED
  BY <1>4, <1>5, <1>6, <1>7

\* add_heap() puts new cells on the list.
LEMMA AddsHeapSound == ASSUME HeapInv, Running, NewobjAddsHeap PROVE Sound'
<1>1. /\ TypeOK /\ Sound /\ ~finalized /\ phase = "mutator" /\ mark = {}
      /\ Live = {c \in Cell : Object(c)} /\ Lists(fnext, freelist, Free)
      /\ \A c \in Cell : kind[c] = "none" <=> c \notin Used
  BY MutatorIs DEF Sound
<1>2. CASE ~(heaps_used < MaxHeaps)
  BY <1>2, FatalSound DEF NewobjAddsHeap
<1>3. CASE heaps_used < MaxHeaps
  <2>1. /\ freelist = Null /\ add_heap(Null) /\ freelist' = HeapTop
        /\ UNCHANGED <<phase, ref, mark, roots, rb_in_compile>>
    BY <1>3 DEF NewobjAddsHeap
  <2>2. /\ \A c \in Cell : Object(c)' <=> Object(c)
        /\ \A c \in Cell : Object(c) => kind'[c] = kind[c]
        /\ \A c \in Cell : kind'[c] = "none" <=> c \notin Used'
        /\ Lists(fnext', freelist', Free')
    BY <1>1, <1>3, <2>1, HeapAdded
  <2>3. Live' = Live
    BY <1>1, <2>1, <2>2 DEF Live
  <2>4. Closed'
    BY <1>1, <2>1, <2>2, <2>3, HeapAssumption DEF Sound, Closed
  <2>5. Idle'
    BY <1>1, <2>1, <2>2 DEF Idle, Free
  <2> QED
    BY <1>1, <2>1, <2>2, <2>4, <2>5 DEF Sound
<1> QED
  BY <1>2, <1>3

\* gc_force_recycle() puts back a cell that nobody refers to.
LEMMA RecycleSound ==
  ASSUME HeapInv, Running, NEW c \in Cell, NEW r \in Root, gc_force_recycle(c, r)
  PROVE  Sound'
<1>1. /\ TypeOK /\ Sound /\ ~finalized /\ phase = "mutator" /\ mark = {}
      /\ Live = {x \in Cell : Object(x)} /\ Lists(fnext, freelist, Free) /\ Null \notin Cell
  BY MutatorIs, CellsAre
<1>2. /\ kind[c] = "obj" /\ \A x \in Root \ {r} : c \notin roots[x]
      /\ \A d \in Cell : Object(d) => ref[d] # c
      /\ roots' = [roots EXCEPT ![r] = @ \ {c}] /\ kind' = [kind EXCEPT ![c] = "free"]
      /\ ref' = [ref EXCEPT ![c] = Null] /\ fnext' = [fnext EXCEPT ![c] = freelist] /\ freelist' = c
      /\ UNCHANGED <<heaps_used, mark, rb_in_compile, phase>>
  BY DEF gc_force_recycle
<1>3. /\ \A x \in Cell : kind'[x] = IF x = c THEN "free" ELSE kind[x]
      /\ \A x \in Cell : ref'[x] = IF x = c THEN Null ELSE ref[x]
      /\ \A x \in Cell : fnext'[x] = IF x = c THEN freelist ELSE fnext[x]
      /\ \A x \in Root : roots'[x] \subseteq roots[x] \ {c}
  BY <1>1, <1>2 DEF TypeOK
<1>4. /\ Live' = Live \ {c} /\ Free' = Free \cup {c} /\ c \notin Free
      /\ \A x \in Cell : Object(x)' <=> x \in Live'
  BY <1>1, <1>2, <1>3 DEF Live, Free, Object
<1>5. Closed'
  <2>1. /\ \A x \in Root : roots[x] \subseteq Live
        /\ \A x \in roots["parser"] : kind[x] = "node" /\ rb_in_compile
        /\ \A x \in Cell : ref[x] # Null => x \in Live
        /\ \A x \in Live : ref[x] \in Live \cup {Null}
    BY <1>1 DEF Sound, Closed
  <2>2. \A x \in Root : roots'[x] \subseteq Live'
    BY <1>3, <1>4, <2>1
  <2>3. \A x \in roots'["parser"] : kind'[x] = "node" /\ rb_in_compile'
    BY <1>2, <1>3, <1>4, <2>1, <2>2, HeapAssumption DEF Live
  <2>4. \A x \in Cell : ref'[x] # Null => Object(x)'
    BY <1>3, <1>4, <2>1
  <2>5. \A x \in Live' : ref'[x] \in Live' \cup {Null}
    BY <1>1, <1>2, <1>3, <1>4, <2>1
  <2> QED
    BY <2>2, <2>3, <2>4, <2>5 DEF Closed
<1>6. Idle'
  <2>1. Lists(fnext', c, Free \cup {c})
    <3>1. (\A x \in Free : fnext'[x] = fnext[x]) /\ fnext'[c] = freelist
      BY <1>3, <1>4 DEF Free
    <3> QED
      BY <1>1, <1>4, <3>1, ListsPush
  <2> QED
    BY <1>1, <1>2, <1>4, <2>1 DEF Idle, Free
<1>7. \A x \in Cell : kind'[x] = "none" <=> x \notin Used'
  BY <1>1, <1>2, <1>3 DEF Sound, Used
<1> QED
  BY <1>1, <1>2, <1>5, <1>6, <1>7 DEF Sound

\* What gc_mark() marks when no mark is left from before: the objects of R and what
\* they refer to, and nothing else.
LEMMA MarkIs ==
  ASSUME HeapInv, Running, NEW R \in SUBSET Cell
  PROVE  /\ gc_mark(R) \subseteq Live
         /\ \A x \in R : Object(x) => x \in gc_mark(R)
         /\ \A x \in gc_mark(R) : ref[x] \in gc_mark(R) \cup {Null}
         /\ \A S \in SUBSET Cell :
              (\A x \in R : Object(x) => x \in S) /\ (\A x \in S : ref[x] \in S \cup {Null})
                => gc_mark(R) \subseteq S
<1>1. /\ TypeOK /\ Sound /\ mark = {} /\ Live = {x \in Cell : Object(x)} /\ Null \notin Cell
      /\ \A x \in Live : ref[x] \in Live \cup {Null}
  BY MutatorIs, CellsAre DEF Sound, Closed
<1>2. \A x : Markable(x) <=> x \in Live
  BY <1>1 DEF Markable
<1>3. gc_mark(R) = {c \in Cell : \A S \in SUBSET Cell :
                      /\ \A x \in R : x \in Live => x \in S
                      /\ \A x \in S : ref[x] \in Live => ref[x] \in S
                      => c \in S}
  BY <1>1, <1>2 DEF gc_mark
<1>4. gc_mark(R) \subseteq Live
  <2>1. Live \in SUBSET Cell
    BY <1>1
  <2> QED
    BY <1>3, <2>1
<1>5. \A x \in R : Object(x) => x \in gc_mark(R)
  BY <1>1, <1>3
<1>6. \A x \in gc_mark(R) : ref[x] \in gc_mark(R) \cup {Null}
  <2> TAKE x \in gc_mark(R)
  <2>1. x \in Live /\ ref[x] \in Live \cup {Null}
    BY <1>1, <1>4
  <2>2. CASE ref[x] \in Live
    BY <1>1, <1>3, <2>2
  <2> QED
    BY <2>1, <2>2
<1>7. ASSUME NEW S \in SUBSET Cell, \A x \in R : Object(x) => x \in S, \A x \in S : ref[x] \in S \cup {Null}
      PROVE  gc_mark(R) \subseteq S
  <2>1. \A x \in R : x \in Live => x \in S
    BY <1>1, <1>7
  <2>2. \A x \in S : ref[x] \in Live => ref[x] \in S
    BY <1>1, <1>7
  <2> QED
    BY <1>3, <2>1, <2>2
<1> QED
  BY <1>4, <1>5, <1>6, <1>7

\* gc() marks what is reachable.
LEMMA GcSound == ASSUME HeapInv, gc PROVE Sound'
<1> DEFINE R == Marked \cup (IF rb_in_compile THEN {c \in Cell : kind[c] = "node"} ELSE {})
<1>1. /\ Running /\ mark' = gc_mark(R) /\ phase' = "sweep" /\ freelist' = Null
      /\ UNCHANGED <<heaps_used, kind, ref, fnext, roots, rb_in_compile, cursor, nfreelist>>
  BY DEF gc, cells, sweep
<1>2. /\ TypeOK /\ Sound /\ ~finalized /\ cursor = 1 /\ nfreelist = Null /\ "parser" \in Root
      /\ Live = {x \in Cell : Object(x)} /\ Cell \subseteq Nat \ {0} /\ Null \notin Cell /\ Null # Junk
      /\ heaps_used * Slots \in Nat
  BY <1>1, MutatorIs, CellsAre, HeapAssumption
<1>3. R \in SUBSET Cell
  BY <1>2 DEF Marked, TypeOK
<1>4. /\ \A r \in Root : roots[r] \subseteq Live
      /\ \A c \in roots["parser"] : kind[c] = "node" /\ rb_in_compile
      /\ \A c \in Cell : ref[c] # Null => Object(c)
  BY <1>2 DEF Sound, Closed
<1>5. \A r \in Root : roots[r] \subseteq R
  <2>1. \A r \in Root \ {"parser"} : roots[r] \subseteq R
    BY DEF Marked
  <2>2. roots["parser"] \subseteq R
    BY <1>2, <1>4
  <2> QED
    BY <2>1, <2>2
<1> HIDE DEF R
<1>6. /\ mark' \subseteq Live /\ \A x \in R : Object(x) => x \in mark'
      /\ \A x \in mark' : ref[x] \in mark' \cup {Null}
      /\ \A S \in SUBSET Cell :
           (\A x \in R : Object(x) => x \in S) /\ (\A x \in S : ref[x] \in S \cup {Null}) => mark' \subseteq S
  BY <1>1, <1>3, MarkIs
<1>7. Live' = mark' /\ \A x \in Cell : Object(x)' <=> Object(x)
  <2>1. \A x \in Cell : Object(x)' <=> Object(x)
    BY <1>1 DEF Object
  <2>2. \A x \in Cell : ~(x < 1)
    BY <1>2
  <2> QED
    BY <1>1, <1>2, <1>6, <2>1, <2>2 DEF Live
<1>8. Closed'
  BY <1>1, <1>2, <1>4, <1>5, <1>6, <1>7 DEF Closed
<1>9. Swept'
  <2>1. (\A c \in mark' : Object(c)') /\ cursor' <= heaps_used' * Slots + 1
    BY <1>1, <1>2, <1>6, <1>7
  <2>2. Lists(fnext', nfreelist', {c \in Cell : kind'[c] = "free" /\ c < cursor'})
    <3>1. {c \in Cell : kind'[c] = "free" /\ c < cursor'} = {}
      <4>1. cursor' = 1 /\ \A c \in Cell : ~(c < 1)
        BY <1>1, <1>2
      <4> QED
        BY <4>1
    <3> QED
      BY <1>1, <1>2, <3>1, ListsNone
  <2>3. ~rb_in_compile => mark' \subseteq Reachable
    <3> SUFFICES ASSUME ~rb_in_compile, NEW c \in mark', NEW S \in SUBSET Cell, Held \subseteq S,
                        \A x \in S : ref[x] \in S \cup {Null}
                 PROVE  c \in S
      BY <1>2, <1>6 DEF Reachable
    <3>1. \A x \in R : x \in S
      BY DEF R, Marked, Held
    <3> QED
      BY <1>6, <3>1
  <2>4. Reachable' = Reachable
    BY <1>1 DEF Reachable, Held
  <2> QED
    BY <1>1, <1>2, <1>7, <2>1, <2>2, <2>3, <2>4 DEF Swept
<1>10. \A c \in Cell : kind'[c] = "none" <=> c \notin Used'
  BY <1>1, <1>2 DEF Sound, Used
<1> QED
  BY <1>1, <1>8, <1>9, <1>10 DEF Sound

\* What the invariant says in a sweep.
LEMMA SweepIs ==
  ASSUME HeapInv, ~finalized, phase = "sweep"
  PROVE  /\ TypeOK /\ Sound /\ Closed /\ Swept /\ cursor \in Nat /\ cursor > 0
         /\ Cell \subseteq Nat \ {0} /\ Null \notin Cell /\ heaps_used * Slots \in Nat
         /\ Live = {c \in Cell : Object(c) /\ (c \in mark \/ c < cursor)}
         /\ \A c \in mark : c >= cursor
BY CellsAre DEF HeapInv, Basic, Sound, TypeOK, Live

\* gc_sweep() leaves a marked cell alone.
LEMMA SweepMarkedSound == ASSUME HeapInv, ~finalized, SweepMarked PROVE Sound'
<1>1. /\ phase = "sweep" /\ cursor <= heaps_used * Slots /\ cursor \in mark
      /\ mark' = mark \ {cursor} /\ cursor' = cursor + 1
      /\ freelist' = IF cursor % Slots = 0 THEN nfreelist ELSE freelist
      /\ UNCHANGED <<heaps_used, kind, ref, fnext, roots, rb_in_compile, phase, nfreelist>>
  BY DEF SweepMarked, cells
<1>2. /\ TypeOK /\ Sound /\ Closed /\ Swept /\ cursor \in Nat /\ Cell \subseteq Nat \ {0}
      /\ heaps_used * Slots \in Nat
      /\ Live = {c \in Cell : Object(c) /\ (c \in mark \/ c < cursor)}
  BY <1>1, SweepIs
<1>3. /\ Object(cursor) /\ cursor \in Cell
      /\ \A c \in Cell : c < cursor + 1 <=> c < cursor \/ c = cursor
      /\ cursor + 1 - 1 = cursor
  BY <1>1, <1>2 DEF Swept, TypeOK
<1>4. \A c \in Cell : Object(c)' <=> Object(c)
  BY <1>1 DEF Object
<1>5. Live' = Live
  <2>1. Live' = {c \in Cell : Object(c) /\ (c \in mark \ {cursor} \/ c < cursor + 1)}
    BY <1>1, <1>4 DEF Live
  <2> QED
    BY <1>1, <1>2, <1>3, <2>1
<1>6. Closed'
  BY <1>1, <1>2, <1>4, <1>5 DEF Closed
<1>7. Swept'
  <2>1. {c \in Cell : kind'[c] = "free" /\ c < cursor'} = {c \in Cell : kind[c] = "free" /\ c < cursor}
    BY <1>1, <1>3 DEF Object
  <2>2. cursor' <= heaps_used' * Slots + 1 /\ \A c \in mark' : Object(c)'
    BY <1>1, <1>2, <1>4 DEF Swept, TypeOK
  <2>3. Lists(fnext', nfreelist', {c \in Cell : kind'[c] = "free" /\ c < cursor'})
    BY <1>1, <1>2, <2>1 DEF Swept
  <2>4. (cursor' - 1) % Slots = 0 => freelist' = nfreelist'
    <3>1. cursor' - 1 = cursor
      <4>1. cursor' = cursor + 1 /\ cursor \in Nat
        BY <1>1, <1>2
      <4> QED
        BY <4>1
    <3>2. cursor % Slots = 0 => freelist' = nfreelist'
      BY <1>1
    <3> QED
      BY <3>1, <3>2, Zenon
  <2>5. ~rb_in_compile' => Live' \subseteq Reachable'
    BY <1>1, <1>2, <1>5 DEF Swept, Reachable, Held
  <2> QED
    BY <2>2, <2>3, <2>4, <2>5 DEF Swept
<1> QED
  BY <1>1, <1>2, <1>6, <1>7 DEF Sound, Used

\* gc_sweep() puts an unmarked cell on the list.
LEMMA SweepFreeSound == ASSUME HeapInv, ~finalized, SweepFree PROVE Sound'
<1>1. /\ phase = "sweep" /\ cursor <= heaps_used * Slots /\ cursor \notin mark
      /\ kind' = [kind EXCEPT ![cursor] = "free"] /\ ref' = [ref EXCEPT ![cursor] = Null]
      /\ fnext' = [fnext EXCEPT ![cursor] = nfreelist] /\ nfreelist' = cursor /\ cursor' = cursor + 1
      /\ freelist' = IF cursor % Slots = 0 THEN cursor ELSE freelist
      /\ UNCHANGED <<heaps_used, mark, roots, rb_in_compile, phase>>
  BY DEF SweepFree, FreeCell
<1>2. /\ TypeOK /\ Sound /\ Closed /\ Swept /\ cursor \in Nat /\ Cell \subseteq Nat \ {0} /\ Null \notin Cell
      /\ heaps_used * Slots \in Nat
      /\ Live = {c \in Cell : Object(c) /\ (c \in mark \/ c < cursor)}
  BY <1>1, SweepIs
<1>3. /\ cursor \in Cell /\ cursor \in Used /\ ~(cursor < cursor)
      /\ \A c \in Cell : c < cursor + 1 <=> c < cursor \/ c = cursor
      /\ cursor + 1 - 1 = cursor
  <2>1. cursor \in Cell /\ cursor \in Used
    BY <1>1, CursorOnCell DEF HeapInv
  <2> QED
    BY <1>2, <2>1
<1>4. /\ \A x \in Cell : kind'[x] = IF x = cursor THEN "free" ELSE kind[x]
      /\ \A x \in Cell : ref'[x] = IF x = cursor THEN Null ELSE ref[x]
      /\ \A x \in Cell : fnext'[x] = IF x = cursor THEN nfreelist ELSE fnext[x]
  BY <1>1, <1>2 DEF TypeOK
<1>5. \A x \in Cell : Object(x)' <=> Object(x) /\ x # cursor
  BY <1>4 DEF Object
<1>6. Live' = Live /\ cursor \notin Live
  <2>1. Live' = {c \in Cell : Object(c) /\ c # cursor /\ (c \in mark \/ c < cursor + 1)}
    BY <1>1, <1>5 DEF Live
  <2>2. cursor \notin Live
    BY <1>1, <1>2, <1>3
  <2> QED
    BY <1>2, <1>3, <2>1, <2>2
<1>7. Closed'
  <2>1. \A r \in Root : roots'[r] \subseteq Live'
    BY <1>1, <1>2, <1>6 DEF Closed
  <2>2. \A c \in roots'["parser"] : kind'[c] = "node" /\ rb_in_compile'
    <3>1. \A c \in roots["parser"] : c \in Live
      BY <1>2, HeapAssumption DEF Closed
    <3> QED
      BY <1>1, <1>2, <1>4, <1>6, <3>1 DEF Closed
  <2>3. \A c \in Cell : ref'[c] # Null => Object(c)'
    BY <1>2, <1>4, <1>5 DEF Closed
  <2>4. \A c \in Live' : ref'[c] \in Live' \cup {Null}
    BY <1>2, <1>4, <1>6 DEF Closed
  <2> QED
    BY <2>1, <2>2, <2>3, <2>4 DEF Closed
<1>8. Swept'
  <2> DEFINE F == {c \in Cell : kind[c] = "free" /\ c < cursor}
  <2>1. {c \in Cell : kind'[c] = "free" /\ c < cursor'} = F \cup {cursor} /\ cursor \notin F
    BY <1>1, <1>3, <1>4
  <2>2. Lists(fnext', cursor, F \cup {cursor})
    <3>1. Lists(fnext, nfreelist, F)
      BY <1>2 DEF Swept
    <3>2. (\A x \in F : fnext'[x] = fnext[x]) /\ fnext'[cursor] = nfreelist
      BY <1>3, <1>4
    <3> HIDE DEF F
    <3> QED
      BY <1>3, <2>1, <3>1, <3>2, ListsPush
  <2>3. cursor' <= heaps_used' * Slots + 1 /\ \A c \in mark' : Object(c)'
    BY <1>1, <1>2, <1>5 DEF Swept, TypeOK
  <2>4. (cursor' - 1) % Slots = 0 => freelist' = nfreelist'
    <3>1. cursor' - 1 = cursor
      <4>1. cursor' = cursor + 1 /\ cursor \in Nat
        BY <1>1, <1>2
      <4> QED
        BY <4>1
    <3>2. cursor % Slots = 0 => freelist' = nfreelist'
      BY <1>1
    <3> QED
      BY <3>1, <3>2, Zenon
  <2>5. ~rb_in_compile' => Live' \subseteq Reachable'
    <3> SUFFICES ASSUME ~rb_in_compile, NEW c \in Live, NEW S \in SUBSET Cell, Held \subseteq S,
                        \A x \in S : ref'[x] \in S \cup {Null}
                 PROVE  c \in S
      <4>1. Held' = Held /\ Live \subseteq Cell /\ Live' = Live /\ rb_in_compile' = rb_in_compile
        BY <1>1, <1>2, <1>6 DEF Held
      <4> QED
        BY <4>1 DEF Reachable
    <3> DEFINE T == S \cap Live
    <3>1. Held \subseteq T /\ T \in SUBSET Cell
      BY <1>2 DEF Held, Closed
    <3>2. \A x \in T : ref[x] \in T \cup {Null}
      BY <1>2, <1>4, <1>6 DEF Closed
    <3>3. c \in Reachable
      BY <1>2 DEF Swept
    <3> HIDE DEF T
    <3>4. c \in T
      BY <3>1, <3>2, <3>3 DEF Reachable
    <3> QED
      BY <3>4 DEF T
  <2> QED
    BY <1>1, <2>1, <2>2, <2>3, <2>4, <2>5 DEF Swept
<1>9. \A x \in Cell : kind'[x] = "none" <=> x \notin Used'
  BY <1>1, <1>2, <1>3, <1>4 DEF Sound, Used
<1> QED
  BY <1>1, <1>7, <1>8, <1>9 DEF Sound

\* At its end a sweep has passed every object and put every free cell on the list.
LEMMA SweepDone ==
  ASSUME HeapInv, ~finalized, phase = "sweep", cursor > heaps_used * Slots
  PROVE  /\ mark = {} /\ Live = {c \in Cell : Object(c)}
         /\ Lists(fnext, freelist, Free)
<1>1. /\ TypeOK /\ Sound /\ Closed /\ Swept /\ cursor \in Nat /\ Cell \subseteq Nat \ {0}
      /\ heaps_used * Slots \in Nat
      /\ Live = {c \in Cell : Object(c) /\ (c \in mark \/ c < cursor)}
      /\ \A c \in mark : c >= cursor
  BY SweepIs
<1>2. cursor - 1 = heaps_used * Slots /\ (heaps_used * Slots) % Slots = 0
  BY <1>1, CellsAre DEF Swept
<1>3. \A c \in Cell : kind[c] # "none" => c < cursor
  <2>1. \A c \in Cell : c \in Used <=> c <= heaps_used * Slots
    BY <1>1, CellsAre
  <2> QED
    BY <1>1, <2>1 DEF Sound
<1>4. mark = {}
  <2>1. \A c \in mark : Object(c) /\ c \in Cell /\ c >= cursor
    BY <1>1 DEF Swept, TypeOK
  <2>2. \A c \in mark : kind[c] # "none"
    BY <2>1 DEF Object
  <2>3. ASSUME NEW c \in mark PROVE FALSE
    <3>1. c \in Cell /\ c < cursor /\ c >= cursor /\ c \in Nat
      BY <1>1, <1>3, <2>1, <2>2
    <3> QED
      BY <1>1, <3>1
  <2> QED
    BY <2>3
<1>5. Live = {c \in Cell : Object(c)}
  BY <1>1, <1>3 DEF Object
<1>6. {c \in Cell : kind[c] = "free" /\ c < cursor} = Free
  BY <1>3 DEF Free
<1>7. freelist = nfreelist
  BY <1>1, <1>2 DEF Swept
<1> QED
  BY <1>1, <1>4, <1>5, <1>6, <1>7 DEF Swept

\* gc_sweep() comes to its end.
LEMMA SweepEndSound == ASSUME HeapInv, ~finalized, SweepEnd PROVE Sound'
<1>1. /\ phase = "sweep" /\ cursor > heaps_used * Slots /\ phase' \in {"mutator", "fatal"}
      /\ \/ UNCHANGED <<heaps_used, kind, fnext, freelist>>
         \/ heaps_used < MaxHeaps /\ add_heap(freelist) /\ freelist' = HeapTop
      /\ UNCHANGED <<ref, mark, roots, rb_in_compile>>
  BY DEF SweepEnd
<1>2. /\ mark = {} /\ Live = {c \in Cell : Object(c)} /\ Lists(fnext, freelist, Free)
      /\ TypeOK /\ Closed /\ \A c \in Cell : kind[c] = "none" <=> c \notin Used
  BY <1>1, SweepDone, SweepIs DEF Sound
<1>3. /\ \A c \in Cell : Object(c)' <=> Object(c)
      /\ \A c \in Cell : Object(c) => kind'[c] = kind[c]
      /\ \A c \in Cell : kind'[c] = "none" <=> c \notin Used'
      /\ Lists(fnext', freelist', Free')
  <2>1. CASE UNCHANGED <<heaps_used, kind, fnext, freelist>>
    BY <1>2, <2>1 DEF Object, Used, Free
  <2>2. CASE heaps_used < MaxHeaps /\ add_heap(freelist) /\ freelist' = HeapTop
    <3>1. freelist \in Cell \cup {Null, Junk}
      BY <1>2 DEF TypeOK
    <3> QED
      BY <1>2, <2>2, <3>1, HeapAdded
  <2> QED
    BY <1>1, <2>1, <2>2
<1>4. Live' = Live
  BY <1>1, <1>2, <1>3 DEF Live
<1>5. Closed'
  <2>1. \A c \in roots["parser"] : Object(c) /\ c \in Cell
    BY <1>2, HeapAssumption DEF Closed
  <2> QED
    BY <1>1, <1>2, <1>3, <1>4, <2>1 DEF Closed
<1>6. Idle'
  BY <1>1, <1>2, <1>3 DEF Idle, Free
<1> QED
  BY <1>1, <1>3, <1>5, <1>6 DEF Sound

-----------------------------------------------------------------------------
(***************************************************************************)
(* The invariant holds, and with it what the run checks.                   *)
(***************************************************************************)

\* The invariant holds at first.
LEMMA HeapInit == Init => HeapInv
<1> SUFFICES ASSUME Init PROVE HeapInv
  OBVIOUS
<1>1. /\ heaps_used = 1 /\ mark = {} /\ finalize = {} /\ freelist = Slots
      /\ kind = [c \in Cell |-> IF c <= Slots THEN "free" ELSE "none"]
      /\ ref = [c \in Cell |-> Null] /\ roots = [r \in Root |-> {}]
      /\ fnext = [c \in Cell |-> IF c = 1 THEN Null ELSE IF c <= Slots THEN c - 1 ELSE Junk]
      /\ dont_gc = 0 /\ rb_in_compile = FALSE /\ phase = "mutator" /\ cursor = 1 /\ nfreelist = Null
      /\ freed = 0 /\ finalized = FALSE
  BY DEF Init
<1>2. /\ Slots \in Nat /\ Slots > 0 /\ MaxHeaps \in Nat /\ MaxHeaps > 0 /\ "parser" \in Root
      /\ 1 * Slots <= Slots * MaxHeaps /\ 1 * Slots = Slots /\ Null # Junk /\ Null \notin Nat
  <2>1. 1 <= MaxHeaps
    BY HeapAssumption
  <2> QED
    BY <2>1, HeapAssumption, WholeHeaps
<1>3. Slots * MaxHeaps \in Nat
  BY <1>2
<1>4. Used = 1 .. Slots /\ Used \subseteq Cell /\ Slots \in Cell /\ Cell \subseteq Nat \ {0}
      /\ \A c \in Cell : c \in 1 .. Slots <=> c <= Slots
  <2>1. Used = 1 .. Slots
    BY <1>1, <1>2 DEF Used
  <2>2. Slots <= Slots * MaxHeaps
    BY <1>2
  <2> QED
    BY <1>2, <1>3, <2>1, <2>2 DEF Cell
<1>5. \A c \in Cell : c # 1 /\ c <= Slots => c - 1 \in Cell
  BY <1>2, <1>3 DEF Cell
<1>6. TypeOK
  <2>1. fnext \in [Cell -> Cell \cup {Null, Junk}]
    BY <1>1, <1>5
  <2>2. heaps_used \in 1 .. MaxHeaps
    BY <1>1, <1>2
  <2>3. kind \in [Cell -> {"none", "free", "obj", "node"}] /\ ref \in [Cell -> Cell \cup {Null}]
    BY <1>1
  <2>4. roots \in [Root -> SUBSET Cell] /\ freelist \in Cell /\ mark \subseteq Cell /\ finalize \subseteq Cell
    BY <1>1, <1>4
  <2>5. dont_gc \in 0 .. 2 /\ rb_in_compile \in BOOLEAN /\ cursor \in Nat /\ freed \in Nat
    <3>1. dont_gc = 0 /\ rb_in_compile \in BOOLEAN /\ cursor = 1 /\ freed = 0
      BY <1>1, Zenon
    <3> QED
      BY <3>1
  <2> QED
    BY <1>1, <2>1, <2>2, <2>3, <2>4, <2>5 DEF TypeOK
<1>7. Basic
  <2>1. phase = "mutator" /\ cursor > 0 /\ finalized \in BOOLEAN /\ cursor = 1 /\ nfreelist = Null
    <3>1. phase = "mutator" /\ cursor = 1 /\ finalized \in BOOLEAN /\ nfreelist = Null
      BY <1>1, Zenon
    <3> QED
      BY <3>1
  <2> QED
    BY <1>6, <2>1 DEF Basic
<1>8. \A c \in Cell : ~Object(c) /\ ref[c] = Null
  BY <1>1 DEF Object
<1>9. Closed
  BY <1>1, <1>2, <1>8 DEF Closed, Live
<1>10. Lists(fnext, freelist, {c \in Cell : kind[c] = "free"})
  <2>1. {c \in Cell : kind[c] = "free"} = {} \cup (1 .. Slots)
    BY <1>1, <1>4
  <2>2. Lists(fnext, Null, {})
    BY <1>2, <1>4, ListsNone
  <2>3. /\ 1 \in Nat /\ 1 <= Slots /\ 1 .. Slots \subseteq Cell /\ (1 .. Slots) \cap {} = {}
        /\ \A x \in {} : fnext[x] = fnext[x]
        /\ \A c \in 1 .. Slots : fnext[c] = IF c = 1 THEN Null ELSE c - 1
    BY <1>1, <1>2, <1>4
  <2>4. Lists(fnext, Slots, {} \cup (1 .. Slots))
    BY <1>2, <2>2, <2>3, ListsHeap
  <2> QED
    BY <1>1, <2>1, <2>4
<1>11. \A c \in Cell : kind[c] = "none" <=> c \notin Used
  BY <1>1, <1>4
<1> QED
  BY <1>1, <1>7, <1>9, <1>10, <1>11 DEF HeapInv, Sound, Idle

\* Every step keeps it.
LEMMA HeapStep == HeapInv /\ [Next]_vars => HeapInv'
<1> SUFFICES ASSUME HeapInv, [Next]_vars PROVE HeapInv'
  OBVIOUS
<1>1. Basic'
  BY BasicStep DEF HeapInv
<1> SUFFICES ASSUME ~finalized' PROVE Sound'
  BY <1>1 DEF HeapInv
<1>2. CASE (Mutator \/ Collector) /\ UNCHANGED finalized
  <2>1. ~finalized /\ phase # "final" /\ (Ruby => Running)
    BY <1>2 DEF HeapInv, Sound, Ruby, Running
  <2>2. CASE Mutator
    <3>1. CASE \E k \in {"obj", "node"}, r \in Root : rb_newobj(k, r)
      BY <2>1, <3>1, NewobjSound DEF rb_newobj
    <3>2. CASE NewobjAddsHeap
      BY <2>1, <3>2, AddsHeapSound DEF NewobjAddsHeap
    <3>3. CASE \E c \in Cell, r \in Root : gc_force_recycle(c, r)
      BY <2>1, <3>3, RecycleSound DEF gc_force_recycle
    <3>4. CASE \/ \E c \in Cell, r \in Root : Drop(c, r) \/ Move(c, r) \/ Fetch(c, r)
               \/ \E c, d \in Cell : Store(c, d)
               \/ \E c \in Cell : call_final(c)
               \/ gc_s_enable \/ gc_s_disable
               \/ CompileBegin \/ CompileEnd \/ CompileRaises
      <4>1. Running
        BY <2>1, <3>4 DEF Drop, Move, Fetch, Store, call_final, gc_s_enable, gc_s_disable,
                          CompileBegin, CompileEnd, CompileRaises
      <4> QED
        BY <3>4, <4>1, ProgramSound
    <3> QED
      BY <2>2, <3>1, <3>2, <3>3, <3>4 DEF Mutator
  <2>3. CASE Collector
    <3>1. ~FinalReturns /\ ~FinalRaises
      BY <2>1 DEF FinalReturns, FinalRaises
    <3> QED
      BY <2>1, <2>3, <3>1, GcSound, SweepMarkedSound, SweepFreeSound, SweepEndSound DEF Collector
  <2> QED
    BY <1>2, <2>2, <2>3
<1>3. CASE run_final /\ finalized' = TRUE
  BY <1>3
<1>4. CASE UNCHANGED vars
  <2>1. Sound
    BY <1>4 DEF HeapInv, vars
  <2>2. Live' = Live /\ Reachable' = Reachable /\ Used' = Used
    BY <1>4 DEF vars, cells, sweep, Live, Object, Reachable, Held, Used
  <2> QED
    BY <1>4, <2>1, <2>2 DEF vars, cells, sweep, Sound, Closed, Idle, Swept, Object
<1> QED
  BY <1>2, <1>3, <1>4 DEF Next, Over

\* It always holds.
LEMMA HeapAlways == Spec => []HeapInv
BY HeapInit, HeapStep, PTL DEF Spec

\* No object that the program can reach is freed (gc.c: gc_mark, gc_sweep), also while
\* a sweep is under way: for heaps of any size, any number of them and any kinds of
\* roots, as long as no finalizer has run.
THEOREM HeapKeeps == Spec => []CellsSound
<1>1. HeapInv => CellsSound
  <2> SUFFICES ASSUME HeapInv PROVE CellsSound
    OBVIOUS
  <2>1. TypeOK
    BY DEF HeapInv, Basic
  <2>2. ASSUME ~finalized, NEW c \in Reachable PROVE Object(c)
    <3>1. Closed
      BY <2>2 DEF HeapInv, Sound
    <3>2. Live \in SUBSET Cell /\ Held \subseteq Live /\ \A x \in Live : ref[x] \in Live \cup {Null}
      BY <3>1 DEF Closed, Held, Live
    <3> HIDE DEF Live
    <3>3. c \in Live
      BY <2>2, <3>2 DEF Reachable
    <3> QED
      BY <3>3 DEF Live
  <2> QED
    BY <2>1, <2>2 DEF CellsSound, LiveKept
<1> QED
  BY <1>1, HeapAlways, PTL

\* Between collections the free list holds every free cell once, and no mark outlives
\* its sweep (gc.c: add_heap, gc_sweep, gc_force_recycle).
THEOREM HeapClean == Spec => []ListsClean
<1>1. HeapInv => ListsClean
  <2> SUFFICES ASSUME HeapInv PROVE ListsClean
    OBVIOUS
  <2>1. Running => Lists(fnext, freelist, Free) /\ mark = {}
    BY MutatorIs
  <2>2. \A f : FreeChain(f) = ChainOf(fnext, f)
    BY DEF FreeChain, ChainOf
  <2>3. FreeListExact
    BY <2>1, <2>2 DEF FreeListExact, Lists, Free
  <2>4. MarksClear
    BY <2>1 DEF MarksClear, HeapInv, Basic
  <2> QED
    BY <2>3, <2>4 DEF ListsClean
<1> QED
  BY <1>1, HeapAlways, PTL

\* A collection leaves no garbage behind, while nothing is compiled (gc.c: gc, gc_sweep).
THEOREM HeapCollects == Spec => CollectsGarbage
<1>1. HeapInv /\ HeapInv' /\ [Next]_vars =>
        [phase = "sweep" /\ Running' /\ ~rb_in_compile => \A c \in Cell : Object(c) => c \in Reachable]_vars
  <2> SUFFICES ASSUME HeapInv, Next, phase = "sweep", Running', ~rb_in_compile, NEW c \in Cell, Object(c)
               PROVE  c \in Reachable
    OBVIOUS
  <2>1. phase' = "mutator" /\ ~finalized'
    BY DEF Running
  <2>2. SweepEnd /\ ~finalized
    <3>1. ~Ruby /\ ~Running
      BY DEF Ruby, Running
    <3>2. ~Mutator
      BY <3>1 DEF Mutator, rb_newobj, NewobjAddsHeap, Drop, Move, Fetch, gc_force_recycle, Store, call_final,
                  gc_s_enable, gc_s_disable, CompileBegin, CompileEnd, CompileRaises
    <3>3. ~gc /\ ~SweepMarked /\ ~FinalReturns /\ ~FinalRaises /\ ~SweepFree /\ ~Over
      BY <2>1, <3>1 DEF gc, SweepMarked, FinalReturns, FinalRaises, SweepFree, Over
    <3> QED
      BY <2>1, <3>2, <3>3 DEF Next, Collector
  <2>3. cursor > heaps_used * Slots
    BY <2>2 DEF SweepEnd
  <2>4. Live = {x \in Cell : Object(x)}
    BY <2>2, <2>3, SweepDone
  <2>5. Live \subseteq Reachable
    BY <2>2, SweepIs DEF Swept
  <2> QED
    BY <2>4, <2>5
<1> QED
  BY <1>1, HeapAlways, PTL DEF Spec, CollectsGarbage

=============================================================================
