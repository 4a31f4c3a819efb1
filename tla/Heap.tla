-------------------------------- MODULE Heap --------------------------------
(***************************************************************************)
(* The object space of gc.c: heaps of cells, the free list threaded        *)
(* through the free cells, and the mark and sweep collector.               *)
(*                                                                         *)
(* An object has one reference here; what the program holds is divided     *)
(* into the kinds of roots gc() marks.  The mark phase is one step, as no  *)
(* Ruby code runs in it; the sweep takes one cell at a time, because       *)
(* obj_free() may call a finalizer, which is Ruby code.                    *)
(***************************************************************************)
EXTENDS Integers, FiniteSets

CONSTANTS
  Slots,       \* HEAP_SLOTS
  MaxHeaps,    \* bound on heaps_used: malloc() fails after that
  FreeMin,     \* FREE_MIN
  Root,        \* the kinds of roots: the stack, globals, the parser's values
  Null, Junk,  \* the null pointer; object data read as a pointer
  Uses         \* what the program does: among Features

Features == {"finalizer", "compile"}

ASSUME HeapAssumption ==
  /\ Slots \in Nat \ {0} /\ MaxHeaps \in Nat \ {0} /\ FreeMin \in Nat \ {0}
  /\ Uses \subseteq Features /\ "parser" \in Root
  /\ Null \notin Nat /\ Junk \notin Nat /\ Null # Junk

Cell == 1 .. Slots * MaxHeaps

VARIABLES
  heaps_used,
  kind,          \* "none" outside the heaps, "free" (flags = 0), "obj" or "node"
  ref,           \* the object a cell refers to
  fnext,         \* as.free.next of a free cell
  mark,          \* the cells with FL_MARK
  finalize,      \* the cells with FL_FINALIZE
  freelist,
  roots,         \* [Root -> cells the program holds directly]
  dont_gc,
  rb_in_compile,
  phase,         \* "mutator", "sweep", "final" (a finalizer runs), "fatal"
  cursor, nfreelist, freed,  \* locals of gc_sweep()
  finalized      \* a finalizer has run

cells == <<heaps_used, kind, ref, fnext, finalize>>
sweep == <<cursor, nfreelist, freed>>
vars  == <<cells, mark, freelist, roots, dont_gc, rb_in_compile, phase, sweep, finalized>>

-----------------------------------------------------------------------------
Object(c) == kind[c] \in {"obj", "node"}

\* yyparse() keeps its nodes on a value stack that gc() cannot see.
MayHold(r, k) == r = "parser" => k = "node" /\ rb_in_compile

Held == UNION {roots[r] : r \in Root}

\* What gc() marks from: frames, scopes, registers and the C stack, the other
\* threads, the registered C variables, the global table, the classes, traps.
Marked == UNION {roots[r] : r \in Root \ {"parser"}}

\* The objects the program can still reach.
Reachable ==
  {c \in Cell : \A S \in SUBSET Cell :
     Held \subseteq S /\ (\A x \in S : ref[x] \in S \cup {Null}) => c \in S}

(***************************************************************************)
(* gc_mark() from the cells of R: free cells and cells already marked stop *)
(* the traversal.                                                          *)
(***************************************************************************)
Markable(x) == x \in Cell /\ Object(x) /\ x \notin mark

\* A mutant: references of marked cells are not followed.
gc_mark_shallow(R) == mark \cup {x \in R : Markable(x)}

gc_mark(R) ==
  mark \cup {c \in Cell : \A S \in SUBSET Cell :
               /\ \A x \in R : Markable(x) => x \in S
               /\ \A x \in S : Markable(ref[x]) => ref[x] \in S
               => c \in S}

\* The cells on the free list that starts at f.
FreeChain(f) ==
  {c \in Cell : \A S \in SUBSET Cell :
     /\ f \in Cell => f \in S
     /\ \A x \in S : fnext[x] \in Cell => fnext[x] \in S
     => c \in S}

\* The cells of the heap add_heap() allocates, chained in front of f.
NewHeap == heaps_used * Slots + 1 .. (heaps_used + 1) * Slots
HeapTop == (heaps_used + 1) * Slots

\* add_heap(), with the free list f: the new cells are put on it in order.
add_heap(f) ==
  /\ heaps_used' = heaps_used + 1
  /\ kind' = [c \in Cell |-> IF c \in NewHeap THEN "free" ELSE kind[c]]
  /\ fnext' = [c \in Cell |-> IF c \notin NewHeap THEN fnext[c]
                              ELSE IF c - 1 \in NewHeap THEN c - 1 ELSE f]

(***************************************************************************)
(* The program.  It is followed to the end of the first collection in      *)
(* which a finalizer runs.                                                 *)
(***************************************************************************)
Running == phase = "mutator" /\ ~finalized

Ruby == Running \/ phase = "final"

\* rb_newobj() takes the first free cell, OBJSETUP makes it an object of kind
\* k held by r.  Its class and data overwrite the link.
rb_newobj(k, r) ==
  /\ Ruby /\ freelist # Null
  /\ MayHold(r, k) /\ (k = "node" => "compile" \in Uses)
  /\ IF freelist \in Cell
     THEN /\ freelist' = fnext[freelist]
          /\ kind' = [kind EXCEPT ![freelist] = k]
          /\ ref' = [ref EXCEPT ![freelist] = Null]
          /\ fnext' = [fnext EXCEPT ![freelist] = Junk]
          /\ roots' = [roots EXCEPT ![r] = @ \cup {freelist}]
          /\ finalize' = finalize \ {freelist}
          /\ UNCHANGED phase
     ELSE phase' = "fatal" /\ UNCHANGED <<kind, ref, fnext, roots, finalize, freelist>>
  /\ UNCHANGED <<heaps_used, mark, dont_gc, rb_in_compile, sweep>>

\* rb_newobj() with an empty free list while the collector must not run.
NewobjAddsHeap ==
  /\ Ruby /\ freelist = Null /\ dont_gc # 0
  /\ IF heaps_used < MaxHeaps
     THEN add_heap(Null) /\ freelist' = HeapTop /\ UNCHANGED phase
     ELSE phase' = "fatal" /\ UNCHANGED <<heaps_used, kind, fnext, freelist>>
  /\ UNCHANGED <<ref, finalize, mark, roots, dont_gc, rb_in_compile, sweep>>

\* Mutants of gc(): nodes not marked while compiling; nodes always marked.
gc_nonodes ==
  /\ Running /\ dont_gc = 0
  /\ dont_gc' = dont_gc + 1
  /\ mark' = gc_mark(Marked)
  /\ phase' = "sweep" /\ freelist' = Null
  /\ UNCHANGED <<cells, roots, rb_in_compile, sweep>>

gc_allnodes ==
  /\ Running /\ dont_gc = 0
  /\ dont_gc' = dont_gc + 1
  /\ mark' = gc_mark(Marked \cup {c \in Cell : kind[c] = "node"})
  /\ phase' = "sweep" /\ freelist' = Null
  /\ UNCHANGED <<cells, roots, rb_in_compile, sweep>>

\* gc(), entered by rb_newobj() for lack of a free cell, by xmalloc() at its
\* limit, or by GC.start: mark from every kind of root; while compiling, from
\* every node as well.
gc ==
  /\ Running /\ dont_gc = 0
  /\ dont_gc' = dont_gc + 1
  /\ mark' = gc_mark(Marked \cup (IF rb_in_compile
                                  THEN {c \in Cell : kind[c] = "node"} ELSE {}))
  /\ phase' = "sweep"
  /\ freelist' = Null
  /\ UNCHANGED <<cells, roots, rb_in_compile, sweep>>

\* A mutant: the mark is kept.
SweepMarked_keeps ==
  /\ phase = "sweep" /\ cursor <= heaps_used * Slots /\ cursor \in mark
  /\ cursor' = cursor + 1
  /\ freelist' = IF cursor % Slots = 0 THEN nfreelist ELSE freelist
  /\ UNCHANGED <<cells, mark, roots, dont_gc, rb_in_compile, phase, nfreelist, freed>>

\* A cell with FL_MARK survives and loses the mark.
SweepMarked ==
  /\ phase = "sweep" /\ cursor <= heaps_used * Slots /\ cursor \in mark
  /\ mark' = mark \ {cursor}
  /\ cursor' = cursor + 1
  /\ freelist' = IF cursor % Slots = 0 THEN nfreelist ELSE freelist
  /\ UNCHANGED <<cells, roots, dont_gc, rb_in_compile, phase, nfreelist, freed>>

\* obj_free() of a cell with FL_FINALIZE calls the finalizers first: with the
\* object's id only, and with dont_gc set.
run_final ==
  /\ phase = "sweep" /\ cursor <= heaps_used * Slots /\ cursor \notin mark
  /\ cursor \in finalize
  /\ phase' = "final"
  /\ UNCHANGED <<cells, mark, freelist, roots, dont_gc, rb_in_compile, sweep>>

\* A mutant: each heap starts a free list of its own.
FreeCell_perheap ==
  /\ kind' = [kind EXCEPT ![cursor] = "free"]
  /\ ref' = [ref EXCEPT ![cursor] = Null]
  /\ fnext' = [fnext EXCEPT ![cursor] =
                 IF (cursor - 1) % Slots = 0 THEN Null ELSE nfreelist]
  /\ finalize' = finalize \ {cursor}
  /\ nfreelist' = cursor
  /\ freed' = freed + 1
  /\ cursor' = cursor + 1
  /\ freelist' = IF cursor % Slots = 0 THEN cursor ELSE freelist
  /\ UNCHANGED <<heaps_used, mark, roots, dont_gc, rb_in_compile>>

\* A cell without FL_MARK goes on the new free list.
FreeCell ==
  /\ kind' = [kind EXCEPT ![cursor] = "free"]
  /\ ref' = [ref EXCEPT ![cursor] = Null]
  /\ fnext' = [fnext EXCEPT ![cursor] = nfreelist]
  /\ finalize' = finalize \ {cursor}
  /\ nfreelist' = cursor
  /\ freed' = freed + 1
  /\ cursor' = cursor + 1
  /\ freelist' = IF cursor % Slots = 0 THEN cursor ELSE freelist
  /\ UNCHANGED <<heaps_used, mark, roots, dont_gc, rb_in_compile>>

SweepFree ==
  /\ phase = "sweep" /\ cursor <= heaps_used * Slots
  /\ cursor \notin mark /\ cursor \notin finalize
  /\ FreeCell
  /\ UNCHANGED phase

FinalReturns ==
  /\ phase = "final" /\ phase' = "sweep"
  /\ FreeCell

\* An exception in a finalizer leaves gc_sweep() and gc() by longjmp().
FinalRaises ==
  /\ phase = "final" /\ phase' = "mutator"
  /\ cursor' = 1 /\ nfreelist' = Null /\ freed' = 0
  /\ UNCHANGED <<cells, mark, freelist, roots, dont_gc, rb_in_compile>>

\* The end of gc_sweep() and of gc(); too few free cells call for a new heap.
SweepEnd ==
  /\ phase = "sweep" /\ cursor > heaps_used * Slots
  /\ IF freed >= FreeMin
     THEN phase' = "mutator" /\ UNCHANGED <<heaps_used, kind, fnext, freelist>>
     ELSE IF heaps_used < MaxHeaps
     THEN add_heap(freelist) /\ freelist' = HeapTop /\ phase' = "mutator"
     ELSE phase' = "fatal" /\ UNCHANGED <<heaps_used, kind, fnext, freelist>>
  /\ dont_gc' = dont_gc - 1
  /\ cursor' = 1 /\ nfreelist' = Null /\ freed' = 0
  /\ UNCHANGED <<ref, finalize, mark, roots, rb_in_compile>>

\* The program drops a root, stores a reference, or moves one to other roots.
Drop(c, r) ==
  /\ Ruby /\ c \in roots[r]
  /\ roots' = [roots EXCEPT ![r] = @ \ {c}]
  /\ UNCHANGED <<cells, mark, freelist, dont_gc, rb_in_compile, phase, sweep>>

Move(c, r) ==
  /\ Ruby /\ c \in Held /\ c \notin roots[r] /\ MayHold(r, kind[c])
  /\ roots' = [roots EXCEPT ![r] = @ \cup {c}]
  /\ UNCHANGED <<cells, mark, freelist, dont_gc, rb_in_compile, phase, sweep>>

Store(c, d) ==
  /\ Ruby /\ c \in Held /\ d \in Held /\ ref[c] # d
  /\ ref' = [ref EXCEPT ![c] = d]
  /\ UNCHANGED <<heaps_used, kind, fnext, finalize, mark, freelist, roots, dont_gc,
                 rb_in_compile, phase, sweep>>

\* Load: the program fetches the object c refers to.
Fetch(c, r) ==
  /\ Ruby /\ c \in Held /\ ref[c] \in Cell /\ ref[c] \notin roots[r]
  /\ MayHold(r, kind[ref[c]])
  /\ roots' = [roots EXCEPT ![r] = @ \cup {ref[c]}]
  /\ UNCHANGED <<cells, mark, freelist, dont_gc, rb_in_compile, phase, sweep>>

\* gc_force_recycle(): POP_SCOPE gives back a scope, an object that only the
\* frame holds.
gc_force_recycle(c, r) ==
  /\ Running /\ c \in roots[r] /\ kind[c] = "obj" /\ c \notin finalize
  /\ \A x \in Root \ {r} : c \notin roots[x]
  /\ \A d \in Cell : Object(d) => ref[d] # c
  /\ roots' = [roots EXCEPT ![r] = @ \ {c}]
  /\ kind' = [kind EXCEPT ![c] = "free"]
  /\ ref' = [ref EXCEPT ![c] = Null]
  /\ fnext' = [fnext EXCEPT ![c] = freelist]
  /\ freelist' = c
  /\ UNCHANGED <<heaps_used, finalize, mark, dont_gc, rb_in_compile, phase, sweep>>

\* ObjectSpace.call_finalizer(c)
call_final(c) ==
  /\ "finalizer" \in Uses /\ Ruby /\ c \in Held /\ kind[c] = "obj" /\ c \notin finalize
  /\ finalize' = finalize \cup {c}
  /\ UNCHANGED <<heaps_used, kind, ref, fnext, mark, freelist, roots, dont_gc,
                 rb_in_compile, phase, sweep>>

\* GC.enable and GC.disable.  A finalizer that calls GC.enable, and so lets a
\* collection start inside the sweep, is outside the model.
gc_s_enable ==
  /\ Running /\ dont_gc' = 0 /\ dont_gc # 0
  /\ UNCHANGED <<cells, mark, freelist, roots, rb_in_compile, phase, sweep>>

\* A mutant: GC.disable nests.
gc_s_disable_nests ==
  /\ Ruby /\ dont_gc' = dont_gc + 2
  /\ UNCHANGED <<cells, mark, freelist, roots, rb_in_compile, phase, sweep>>

gc_s_disable ==
  /\ Ruby /\ dont_gc' = 2 /\ dont_gc # 2
  /\ UNCHANGED <<cells, mark, freelist, roots, rb_in_compile, phase, sweep>>

\* yyparse() begins, ends, or is left by an exception, which does not reset
\* rb_in_compile.  It is not entered again while it holds nodes.
CompileBegin ==
  /\ "compile" \in Uses /\ Running /\ roots["parser"] = {}
  /\ ~rb_in_compile /\ rb_in_compile' = TRUE
  /\ UNCHANGED <<cells, mark, freelist, roots, dont_gc, phase, sweep>>

CompileEnd ==
  /\ Running /\ rb_in_compile /\ rb_in_compile' = FALSE
  /\ roots' = [roots EXCEPT !["parser"] = {}]
  /\ UNCHANGED <<cells, mark, freelist, dont_gc, phase, sweep>>

CompileRaises ==
  /\ Running /\ rb_in_compile
  /\ roots' = [roots EXCEPT !["parser"] = {}]
  /\ UNCHANGED <<cells, mark, freelist, dont_gc, rb_in_compile, phase, sweep>>

Over == ~Ruby /\ phase \in {"mutator", "fatal"} /\ UNCHANGED vars

-----------------------------------------------------------------------------
\* init_heap()
Init ==
  /\ heaps_used = 1
  /\ kind = [c \in Cell |-> IF c <= Slots THEN "free" ELSE "none"]
  /\ ref = [c \in Cell |-> Null]
  /\ fnext = [c \in Cell |-> IF c = 1 THEN Null ELSE IF c <= Slots THEN c - 1 ELSE Junk]
  /\ mark = {} /\ finalize = {}
  /\ freelist = Slots
  /\ roots = [r \in Root |-> {}]
  /\ dont_gc = 0 /\ rb_in_compile = FALSE
  /\ phase = "mutator"
  /\ cursor = 1 /\ nfreelist = Null /\ freed = 0
  /\ finalized = FALSE

Mutator ==
  \/ \E k \in {"obj", "node"}, r \in Root : rb_newobj(k, r)
  \/ NewobjAddsHeap
  \/ \E c \in Cell, r \in Root : 
       Drop(c, r) \/ Move(c, r) \/ Fetch(c, r) \/ gc_force_recycle(c, r)
  \/ \E c, d \in Cell : Store(c, d)
  \/ \E c \in Cell : call_final(c)
  \/ gc_s_enable \/ gc_s_disable
  \/ CompileBegin \/ CompileEnd \/ CompileRaises

Collector ==
  \/ gc \/ SweepMarked \/ FinalReturns \/ FinalRaises \/ SweepFree
  \/ SweepEnd

Next ==
  \/ (Mutator \/ Collector) /\ UNCHANGED finalized
  \/ run_final /\ finalized' = TRUE
  \/ Over

Spec == Init /\ [][Next]_vars

-----------------------------------------------------------------------------
(***************************************************************************)
(* Properties.                                                             *)
(***************************************************************************)

\* Every variable keeps its type.
TypeOK ==
  /\ heaps_used \in 1 .. MaxHeaps
  /\ kind \in [Cell -> {"none", "free", "obj", "node"}]
  /\ ref \in [Cell -> Cell \cup {Null}]
  /\ fnext \in [Cell -> Cell \cup {Null, Junk}]
  /\ mark \subseteq Cell /\ finalize \subseteq Cell
  /\ freelist \in Cell \cup {Null, Junk} /\ nfreelist \in Cell \cup {Null, Junk}
  /\ roots \in [Root -> SUBSET Cell]
  /\ dont_gc \in 0 .. 2 /\ rb_in_compile \in BOOLEAN
  /\ phase \in {"mutator", "sweep", "final", "fatal"}
  /\ cursor \in Nat /\ freed \in Nat

\* No object the program can reach is ever freed, also while the collector is
\* half way through the heaps and cells are marked, unmarked and recycled.
LiveKept == ~finalized => \A c \in Reachable : Object(c)

\* Between collections the free list holds every free cell, once, and no other:
\* nothing is leaked, and rb_newobj() never returns a cell twice.
FreeListExact ==
  Running =>
    /\ FreeChain(freelist) = {c \in Cell : kind[c] = "free"}
    /\ \A c \in FreeChain(freelist) : c \notin FreeChain(fnext[c]) /\ fnext[c] # Junk

\* The sweep leaves no mark behind it, whatever the finalizers it calls do, and
\* none outlives it: gc_mark() would stop at it in the next collection.
MarksClear ==
  /\ phase \in {"sweep", "final"} => \A c \in mark : c >= cursor
  /\ Running => mark = {}

\* A collection leaves no unreachable object behind (while nothing is compiled).
CollectsGarbage ==
  [][phase = "sweep" /\ Running' /\ ~rb_in_compile =>
       \A c \in Cell : Object(c) => c \in Reachable]_vars

\* "always 0 for freed obj": a cell on the free list is not an object.
FreedFlag ==
  phase = "mutator" => \A c \in FreeChain(freelist) : kind[c] = "free"

=============================================================================
