------------------------------- MODULE MCHeap -------------------------------
(* Heap for TLC: heaps of one cell, so that every collection may add a heap. *)
EXTENDS Heap

\* No object in use is freed (gc.c: gc_mark, gc_sweep).
CellsSound == TypeOK /\ LiveKept

\* The free list holds the free cells, and no mark outlives its sweep (gc.c).
ListsClean == FreeListExact /\ MarksClear
=============================================================================
