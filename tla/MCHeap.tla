------------------------------ MODULE MCHeap -------------------------------
(* Heap with a small address space for TLC.                                *)
EXTENDS Heap

(* A few words, the largest size that leaves no room for another block,    *)
(* less than a word, and the first size that wraps around to 0 when it is  *)
(* rounded up.                                                             *)
HeapRequests == {7, 24, HEAP_SIZE - 2 * HDR - 8, WORD - 3}
=============================================================================
