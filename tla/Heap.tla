------------------------------- MODULE Heap --------------------------------
(***************************************************************************)
(* The kernel heap of src/utils.c: a list of blocks, each a header and its *)
(* data, kept in address order; malloc takes the first free block that is  *)
(* large enough and splits it, free merges a block with the free ones that *)
(* follow it.  Every iteration of their loops is a step.  Memory is the    *)
(* set of headers in the list; the data between them belongs to callers.   *)
(***************************************************************************)
EXTENDS Integers

CONSTANTS
  HEAP_START, HEAP_SIZE,
  HDR,     \* sizeof(MemBlock)
  WORD,    \* uint32 arithmetic is modulo WORD
  Requests \* sizes callers ask for

HEAP_END == HEAP_START + HEAP_SIZE
NULL == 0

ASSUME HeapAssumption ==
  /\ HEAP_START \in Nat \ {0} /\ HEAP_SIZE \in Nat /\ HDR \in Nat /\ WORD \in Nat
  /\ 0 < HDR /\ HDR < HEAP_SIZE
  /\ HEAP_START % 4 = 0 /\ HEAP_SIZE % 4 = 0 /\ HDR % 4 = 0 /\ WORD % 4 = 0
  /\ HEAP_END + HDR + 8 < WORD
  /\ Requests \subseteq 0..WORD - 1

VARIABLES
  initialized,
  blocks,  \* the headers in the list, by address
  live,    \* the size asked for, by pointer that callers hold
  call,    \* "idle" or the function being executed
  request, \* the size asked for in the running call of malloc
  current  \* the block malloc or free looks at

vars == <<initialized, blocks, live, call, request, current>>

Block == [size : 0..HEAP_SIZE, used : BOOLEAN, next : {NULL} \union HEAP_START..HEAP_END]

(* "Align size to 4 bytes": (size + 3) & ~3 in a uint32.                   *)
AlignDown(n) == n - (n % 4)

Align(n) ==
  LET up == IF n + 3 < WORD THEN n + 3 ELSE n + 3 - WORD
  IN  up - (up % 4)

(* The first address after block a.                                        *)
End(a) == a + HDR + blocks[a].size

Init ==
  /\ initialized = FALSE
  /\ blocks = <<>>
  /\ live = <<>>
  /\ call = "idle" /\ request = 0 /\ current = NULL

(* init_heap.                                                              *)
OneFreeBlock ==
  [a \in {HEAP_START} |-> [size |-> HEAP_SIZE - HDR, used |-> FALSE, next |-> NULL]]

Malloc(n) ==
  /\ call = "idle"
  /\ call' = "malloc"
  /\ request' = n
  /\ current' = HEAP_START
  /\ initialized' = TRUE
  /\ blocks' = IF initialized THEN blocks ELSE OneFreeBlock
  /\ UNCHANGED live

(* The locals of a call die with it.                                       *)
Returns == call' = "idle" /\ request' = 0 /\ current' = NULL

(* The loop conditions of malloc and of free.                              *)
InList == current # NULL /\ current < HEAP_END

LargerThan(a, n) == ~blocks[a].used /\ blocks[a].size > n

Fits(a, n) == ~blocks[a].used /\ blocks[a].size >= n

SkipBlockRestarts ==
  /\ call = "malloc"
  /\ InList
  /\ ~Fits(current, Align(request))
  /\ current' = HEAP_START
  /\ UNCHANGED <<initialized, blocks, live, call, request>>

SkipBlock ==
  /\ call = "malloc"
  /\ InList
  /\ ~Fits(current, Align(request))
  /\ current' = blocks[current].next
  /\ UNCHANGED <<initialized, blocks, live, call, request>>

(* Is there "enough space for new block plus minimal allocation"?          *)
SplitsTooEarly(a, n) == blocks[a].size > n

Splits(a, n) == blocks[a].size > n + HDR + 8

(* The list after current is cut to n bytes, with a free block behind it.  *)
SplitKeepsHeader(n) ==
  LET new == current + HDR + n
  IN  [a \in DOMAIN blocks \union {new} |->
         IF a = new
         THEN [size |-> blocks[current].size - n, used |-> FALSE,
               next |-> blocks[current].next]
         ELSE IF a = current THEN [size |-> n, used |-> TRUE, next |-> new]
         ELSE blocks[a]]

Split(n) ==
  LET new == current + HDR + n
  IN  [a \in DOMAIN blocks \union {new} |->
         IF a = new
         THEN [size |-> blocks[current].size - n - HDR, used |-> FALSE,
               next |-> blocks[current].next]
         ELSE IF a = current THEN [size |-> n, used |-> TRUE, next |-> new]
         ELSE blocks[a]]

TakeWithoutMark == UNCHANGED blocks

(* The list after current is taken as it is.                               *)
Take == blocks' = [blocks EXCEPT ![current].used = TRUE]

TakeBlock ==
  /\ call = "malloc"
  /\ InList
  /\ Fits(current, Align(request))
  /\ IF Splits(current, Align(request))
     THEN blocks' = Split(Align(request))
     ELSE Take
  /\ live' = [p \in DOMAIN live \union {current + HDR} |->
                IF p = current + HDR THEN request ELSE live[p]]
  /\ Returns
  /\ UNCHANGED initialized

(* malloc returns NULL.                                                    *)
OutOfMemory ==
  /\ call = "malloc"
  /\ ~InList
  /\ Returns
  /\ UNCHANGED <<initialized, blocks, live>>

(* Callers free a pointer they hold, once; free refuses one outside the    *)
(* heap, which NULL is.                                                    *)
Free(ptr) ==
  /\ call = "idle"
  /\ HEAP_START <= ptr /\ ptr < HEAP_END
  /\ HEAP_START <= ptr - HDR /\ ptr - HDR < HEAP_END
  /\ blocks' = [blocks EXCEPT ![ptr - HDR].used = FALSE]
  /\ live' = [p \in DOMAIN live \ {ptr} |-> live[p]]
  /\ current' = ptr - HDR
  /\ call' = "free"
  /\ UNCHANGED <<initialized, request>>

NextIsFree ==
  LET n == blocks[current].next
  IN  n # NULL /\ n < HEAP_END /\ ~blocks[n].used

MergeNext ==
  /\ call = "free"
  /\ NextIsFree
  /\ LET n == blocks[current].next
     IN  blocks' = [a \in DOMAIN blocks \ {n} |->
                      IF a = current
                      THEN [size |-> blocks[a].size + HDR + blocks[n].size,
                            used |-> blocks[a].used,
                            next |-> blocks[n].next]
                      ELSE blocks[a]]
  /\ UNCHANGED <<initialized, live, call, request, current>>

FreeReturns ==
  /\ call = "free"
  /\ ~NextIsFree
  /\ Returns
  /\ UNCHANGED <<initialized, blocks, live>>

Step == SkipBlock \/ TakeBlock \/ OutOfMemory \/ MergeNext \/ FreeReturns

Next ==
  \/ \E n \in Requests : Malloc(n)
  \/ \E ptr \in DOMAIN live : Free(ptr)
  \/ Step

Spec == Init /\ [][Next]_vars

(* A call that has begun is executed; nobody owes another call.            *)
FairSpec == Spec /\ WF_vars(Step)

-----------------------------------------------------------------------------
TypeOK ==
  /\ initialized \in BOOLEAN
  /\ DOMAIN blocks \subseteq HEAP_START..HEAP_END - 1
  /\ \A a \in DOMAIN blocks : blocks[a] \in Block
  /\ DOMAIN live \subseteq HEAP_START..HEAP_END
  /\ \A p \in DOMAIN live : live[p] \in 0..WORD - 1
  /\ call \in {"idle", "malloc", "free"}
  /\ request \in 0..WORD - 1
  /\ current \in {NULL} \union HEAP_START..HEAP_END - 1

(* The blocks of the list tile the heap: each one ends where its next one  *)
(* begins, the last one where the heap ends, and none reaches into another.*)
BlocksTile ==
  /\ initialized => HEAP_START \in DOMAIN blocks
  /\ \A a \in DOMAIN blocks :
       \/ End(a) = HEAP_END /\ blocks[a].next = NULL
       \/ End(a) \in DOMAIN blocks /\ blocks[a].next = End(a)
  /\ \A a, b \in DOMAIN blocks : a < b => End(a) <= b

(* Callers hold exactly the blocks marked as used, each at least as large  *)
(* as what was asked for, if rounding up did not wrap around: no block is  *)
(* lost and none can be handed out twice.                                  *)
LiveBlocks ==
  /\ \A p \in DOMAIN live :
       /\ p - HDR \in DOMAIN blocks /\ blocks[p - HDR].used
       /\ live[p] + 3 < WORD => live[p] <= blocks[p - HDR].size
  /\ \A a \in DOMAIN blocks : blocks[a].used => a + HDR \in DOMAIN live

(* malloc gives up or goes on only past blocks that cannot serve it, so it *)
(* returns NULL only when no free block of the list is large enough.       *)
NoneSkipped ==
  call = "malloc" =>
    \A a \in DOMAIN blocks :
      (a < current \/ ~InList) =>
         blocks[a].used \/ blocks[a].size < Align(request)

(* Every call returns: the list never becomes a cycle.                     *)
CallsReturn == call # "idle" ~> call = "idle"

(* The pointers whose size did not wrap around when it was rounded up.     *)
Served == [p \in {p \in DOMAIN live : live[p] + 3 < WORD} |-> live[p]]

(* For those the heap keeps what Allocator promises to its callers: blocks *)
(* inside the heap, on 4-byte boundaries, that share no byte.              *)
Abstract == INSTANCE Allocator
              WITH HeapStart <- HEAP_START, HeapEnd <- HEAP_END, live <- Served

ImplementsAllocator == Abstract!Spec
=============================================================================
