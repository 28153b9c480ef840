----------------------------- MODULE Allocator -----------------------------
(* What malloc and free promise their callers: blocks in use lie inside    *)
(* the heap, on 4-byte boundaries, and no two of them overlap.             *)
EXTENDS Integers

CONSTANTS
  HeapStart, HeapEnd, \* first address of the heap, first one after it
  Requests            \* sizes callers ask for

VARIABLE live \* pointers handed out and not yet freed, with their sizes

Disjoint(p, n, q, m) == p + n <= q \/ q + m <= p

(* A request that is not served changes nothing: a step that stutters.     *)
Alloc(p, n) ==
  /\ p \in HeapStart..HeapEnd /\ p + n <= HeapEnd /\ p % 4 = 0
  /\ \A q \in DOMAIN live : p # q /\ Disjoint(p, n, q, live[q])
  /\ live' = [q \in DOMAIN live \union {p} |-> IF q = p THEN n ELSE live[q]]

Dealloc(p) ==
  /\ p \in DOMAIN live
  /\ live' = [q \in DOMAIN live \ {p} |-> live[q]]

Init == live = <<>>

Next ==
  \/ \E p \in HeapStart..HeapEnd, n \in Requests : Alloc(p, n)
  \/ \E p \in DOMAIN live : Dealloc(p)

Spec == Init /\ [][Next]_live
=============================================================================
