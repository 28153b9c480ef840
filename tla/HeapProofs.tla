----------------------------- MODULE HeapProofs -----------------------------
(* Proofs about module Heap, for heaps, words and requests of any size.    *)
EXTENDS Heap, TLAPS

(* Where the running call stands in the list.                              *)
CallInv ==
  /\ ~initialized => DOMAIN blocks = {}
  /\ call # "idle" => initialized
  /\ call = "malloc" => /\ request \in Requests
                        /\ current = NULL \/ current \in DOMAIN blocks
  /\ call = "free" => current \in DOMAIN blocks /\ ~blocks[current].used

(* Headers, and so the pointers behind them, lie on 4-byte boundaries.     *)
BlocksAligned ==
  \A a \in DOMAIN blocks : a % 4 = 0 /\ blocks[a].size % 4 = 0

HeapInv ==
  TypeOK /\ BlocksTile /\ LiveBlocks /\ NoneSkipped /\ CallInv /\ BlocksAligned

LEMMA Constants ==
  /\ HEAP_START \in Nat /\ HEAP_SIZE \in Nat /\ HDR \in Nat /\ WORD \in Nat
  /\ HEAP_END \in Nat /\ HEAP_START < HEAP_END
  /\ 0 < HDR /\ 0 < HEAP_START /\ HDR < HEAP_SIZE /\ HEAP_END < WORD
  /\ HEAP_START % 4 = 0 /\ HEAP_SIZE % 4 = 0 /\ HDR % 4 = 0 /\ WORD % 4 = 0
  BY HeapAssumption DEF HEAP_END

LEMMA AlignRounds ==
  ASSUME NEW n \in 0..WORD - 1
  PROVE  /\ Align(n) \in 0..WORD - 1
         /\ Align(n) % 4 = 0
         /\ n + 3 < WORD => n <= Align(n)
<1> DEFINE up == IF n + 3 < WORD THEN n + 3 ELSE n + 3 - WORD
<1>1. up \in 0..WORD - 1 /\ (n + 3 < WORD => up = n + 3)
  BY Constants
<1> HIDE DEF up
<1>2. up - (up % 4) \in 0..up /\ (up - (up % 4)) % 4 = 0 /\ up <= up - (up % 4) + 3
  BY <1>1
<1>3. Align(n) = up - (up % 4)
  BY DEF Align, up
<1>4. QED
  BY <1>1, <1>2, <1>3, Constants

LEMMA InitInv == Init => HeapInv
<1> SUFFICES ASSUME Init PROVE HeapInv
  OBVIOUS
<1>1. DOMAIN blocks = {} /\ DOMAIN live = {}
  BY DEF Init
<1>2. TypeOK
  <2>1. 0 \in 0..WORD - 1
    BY Constants
  <2>2. QED
    BY <1>1, <2>1 DEF Init, TypeOK
<1>3. BlocksTile /\ LiveBlocks /\ NoneSkipped /\ CallInv /\ BlocksAligned
  BY <1>1 DEF Init, BlocksTile, LiveBlocks, NoneSkipped, CallInv, BlocksAligned
<1>4. QED
  BY <1>2, <1>3 DEF HeapInv

LEMMA MallocInv ==
  ASSUME HeapInv, NEW n \in Requests, Malloc(n)
  PROVE  HeapInv'
<1>1. n \in 0..WORD - 1
  BY HeapAssumption
<1>2. CASE initialized
  <2>1. UNCHANGED <<blocks, live, initialized>>
    BY <1>2 DEF Malloc
  <2>2. TypeOK'
    BY <1>1, <2>1, Constants DEF HeapInv, TypeOK, Malloc
  <2>3. BlocksTile' /\ LiveBlocks' /\ BlocksAligned'
    BY <2>1 DEF HeapInv, BlocksTile, LiveBlocks, BlocksAligned, End
  <2>4. CallInv'
    BY <1>2, <2>1 DEF HeapInv, CallInv, Malloc, BlocksTile
  <2>5. NoneSkipped'
    BY <2>1, Constants DEF HeapInv, TypeOK, NoneSkipped, Malloc, InList, NULL
  <2>6. QED
    BY <2>2, <2>3, <2>4, <2>5 DEF HeapInv
<1>3. CASE ~initialized
  <2>1. /\ DOMAIN blocks = {} /\ DOMAIN live = {}
        /\ blocks' = OneFreeBlock /\ live' = live /\ initialized' = TRUE
    BY <1>3 DEF HeapInv, CallInv, LiveBlocks, Malloc
  <2>2. /\ DOMAIN blocks' = {HEAP_START}
        /\ blocks'[HEAP_START]
             = [size |-> HEAP_SIZE - HDR, used |-> FALSE, next |-> NULL]
    BY <2>1 DEF OneFreeBlock
  <2>3. HEAP_SIZE - HDR \in 0..HEAP_SIZE /\ (HEAP_SIZE - HDR) % 4 = 0
    BY Constants
  <2>4. TypeOK'
    <3>1. HEAP_START \in HEAP_START..HEAP_END - 1
      BY Constants
    <3>2. blocks'[HEAP_START] \in Block
      BY <2>2, <2>3 DEF Block
    <3>3. QED
      BY <1>1, <2>1, <2>2, <3>1, <3>2 DEF HeapInv, TypeOK, Malloc
  <2>5. BlocksTile' /\ LiveBlocks' /\ BlocksAligned'
    BY <2>1, <2>2, <2>3, Constants
    DEF BlocksTile, LiveBlocks, BlocksAligned, End, HEAP_END
  <2>6. CallInv'
    BY <2>1, <2>2 DEF CallInv, Malloc
  <2>7. NoneSkipped'
    BY <2>2, Constants DEF NoneSkipped, Malloc, InList, NULL
  <2>8. QED
    BY <2>4, <2>5, <2>6, <2>7 DEF HeapInv
<1>4. QED
  BY <1>2, <1>3

LEMMA SkipInv ==
  ASSUME HeapInv, SkipBlock
  PROVE  HeapInv'
<1>1. UNCHANGED <<initialized, blocks, live, call, request>>
  BY DEF SkipBlock
<1>2. /\ current \in DOMAIN blocks /\ current' = blocks[current].next
      /\ call = "malloc" /\ InList /\ initialized
      /\ blocks[current].used \/ ~(blocks[current].size >= Align(request))
  BY DEF SkipBlock, HeapInv, CallInv, InList, Fits
<1>3. \/ End(current) = HEAP_END /\ current' = NULL
      \/ End(current) \in DOMAIN blocks /\ current' = End(current)
  BY <1>2 DEF HeapInv, BlocksTile
<1>4. TypeOK'
  BY <1>1, <1>3 DEF HeapInv, TypeOK
<1>5. BlocksTile' /\ LiveBlocks' /\ BlocksAligned'
  BY <1>1 DEF HeapInv, BlocksTile, LiveBlocks, BlocksAligned, End
<1>6. CallInv'
  BY <1>1, <1>2, <1>3 DEF HeapInv, CallInv
<1>7. NoneSkipped'
  <2> SUFFICES ASSUME NEW a \in DOMAIN blocks, a < current' \/ ~InList'
               PROVE  blocks[a].used \/ blocks[a].size < Align(request)
    BY <1>1, <1>2 DEF NoneSkipped
  <2>1. /\ a \in Nat /\ a < HEAP_END /\ current \in Nat
        /\ blocks[a].size \in Nat /\ blocks[current].size \in Nat
        /\ current < a => End(current) <= a
        /\ Align(request) \in Nat
    BY <1>2, Constants, AlignRounds DEF HeapInv, BlocksTile, TypeOK, Block
  <2>2. a <= current
    BY <1>3, <2>1, Constants DEF HeapInv, TypeOK, InList, NULL
  <2>3. QED
    BY <1>2, <2>1, <2>2 DEF HeapInv, NoneSkipped
<1>8. QED
  BY <1>4, <1>5, <1>6, <1>7 DEF HeapInv

(* What malloc knows of the block it takes.                                *)
LEMMA TakenBlock ==
  ASSUME HeapInv, TakeBlock
  PROVE  /\ current \in DOMAIN blocks /\ ~blocks[current].used
         /\ current \in Nat /\ current % 4 = 0 /\ current + HDR \notin DOMAIN live
         /\ HEAP_START <= current /\ current < HEAP_END
         /\ current + HDR + blocks[current].size <= HEAP_END
         /\ blocks[current] \in Block
         /\ Align(request) \in Nat /\ Align(request) % 4 = 0
         /\ Align(request) <= blocks[current].size
         /\ request \in Requests /\ request \in 0..WORD - 1 /\ initialized
         /\ request + 3 < WORD => request <= Align(request)
<1>1. /\ current \in DOMAIN blocks /\ ~blocks[current].used /\ initialized
      /\ blocks[current].size >= Align(request) /\ request \in Requests
  BY DEF TakeBlock, HeapInv, CallInv, InList, Fits
<1>2. /\ current \in HEAP_START..HEAP_END - 1 /\ blocks[current] \in Block
      /\ request \in 0..WORD - 1 /\ current % 4 = 0
  BY <1>1, HeapAssumption DEF HeapInv, TypeOK, BlocksAligned
<1>3. current + HDR \notin DOMAIN live
  <2> SUFFICES ASSUME NEW p \in DOMAIN live, p = current + HDR
               PROVE  FALSE
    OBVIOUS
  <2>1. p - HDR = current
    BY <1>2, Constants
  <2>2. blocks[p - HDR].used
    BY DEF HeapInv, LiveBlocks
  <2>3. QED
    BY <1>1, <2>1, <2>2
<1>4. End(current) <= HEAP_END
  BY <1>1, Constants DEF HeapInv, BlocksTile, TypeOK
<1>5. QED
  BY <1>1, <1>2, <1>3, <1>4, AlignRounds, Constants DEF Block, End

(* Callers hold the same pointers as before and the one malloc returns.    *)
LEMMA TakeLive ==
  ASSUME HeapInv, TakeBlock,
         current \in DOMAIN blocks',
         blocks'[current].used, blocks'[current].size \in Nat,
         Align(request) <= blocks'[current].size,
         \A a \in DOMAIN blocks \ {current} :
            a \in DOMAIN blocks' /\ blocks'[a] = blocks[a],
         \A a \in DOMAIN blocks' : blocks'[a].used => a \in DOMAIN blocks
  PROVE  /\ LiveBlocks'
         /\ DOMAIN live' \subseteq HEAP_START..HEAP_END
         /\ \A p \in DOMAIN live' : live'[p] \in 0..WORD - 1
<1>1. /\ DOMAIN live' = DOMAIN live \union {current + HDR}
      /\ live'[current + HDR] = request
      /\ \A p \in DOMAIN live : live'[p] = live[p]
  BY TakenBlock DEF TakeBlock
<1>3. ASSUME NEW p \in DOMAIN live'
      PROVE  /\ p - HDR \in DOMAIN blocks' /\ blocks'[p - HDR].used
             /\ live'[p] + 3 < WORD => live'[p] <= blocks'[p - HDR].size
             /\ live'[p] \in 0..WORD - 1
  <2>1. CASE p = current + HDR
    <3>1. p - HDR = current /\ live'[p] = request
      <4>1. p - HDR = current
        BY <2>1, TakenBlock, Constants
      <4>2. live'[p] = request
        BY <1>1, <2>1
      <4>3. QED
        BY <4>1, <4>2
    <3>2. request \in 0..WORD - 1 /\ Align(request) \in Nat
          /\ (request + 3 < WORD => request <= Align(request))
      BY TakenBlock
    <3>3. request + 3 < WORD => request <= blocks'[current].size
      BY <3>2, Constants
    <3>4. QED
      BY <3>1, <3>2, <3>3
  <2>2. CASE p # current + HDR
    <3>1. /\ p \in DOMAIN live /\ live'[p] = live[p]
          /\ p - HDR \in DOMAIN blocks /\ blocks[p - HDR].used
      BY <1>1, <2>2 DEF HeapInv, LiveBlocks
    <3>2. p - HDR # current
      BY <3>1, TakenBlock
    <3>3. QED
      BY <3>1, <3>2 DEF HeapInv, LiveBlocks, TypeOK
  <2>3. QED
    BY <2>1, <2>2
<1>4. ASSUME NEW a \in DOMAIN blocks', blocks'[a].used
      PROVE  a + HDR \in DOMAIN live'
  BY <1>1, <1>4 DEF HeapInv, LiveBlocks
<1>5. DOMAIN live' \subseteq HEAP_START..HEAP_END
  <2>1. current + HDR \in HEAP_START..HEAP_END
    BY TakenBlock, Constants DEF Block
  <2>2. QED
    BY <1>1, <2>1 DEF HeapInv, TypeOK
<1>6. QED
  BY <1>3, <1>4, <1>5 DEF LiveBlocks

LEMMA TakeWholeInv ==
  ASSUME HeapInv, TakeBlock, Take
  PROVE  HeapInv'
<1>1. /\ DOMAIN blocks' = DOMAIN blocks
      /\ blocks'[current] = [blocks[current] EXCEPT !.used = TRUE]
      /\ \A a \in DOMAIN blocks \ {current} : blocks'[a] = blocks[a]
      /\ UNCHANGED initialized /\ call' = "idle" /\ request' = 0 /\ current' = NULL
  BY TakenBlock DEF Take, TakeBlock, Returns
<1>2. /\ blocks'[current] \in Block /\ blocks'[current].used
      /\ blocks'[current].size = blocks[current].size
      /\ blocks'[current].next = blocks[current].next
  BY <1>1, TakenBlock DEF Block
<1>3. \A a \in DOMAIN blocks : /\ blocks'[a].size = blocks[a].size
                               /\ blocks'[a].next = blocks[a].next
                               /\ blocks'[a] \in Block
  BY <1>1, <1>2 DEF HeapInv, TypeOK
<1>4. /\ LiveBlocks' /\ DOMAIN live' \subseteq HEAP_START..HEAP_END
      /\ \A p \in DOMAIN live' : live'[p] \in 0..WORD - 1
  BY <1>1, <1>2, TakenBlock, TakeLive DEF Block
<1>5. TypeOK'
  <2>1. 0 \in 0..WORD - 1
    BY Constants
  <2>2. QED
    BY <1>1, <1>3, <1>4, <2>1 DEF HeapInv, TypeOK
<1>6. BlocksTile' /\ BlocksAligned'
  BY <1>1, <1>3 DEF HeapInv, BlocksTile, BlocksAligned, End
<1>7. CallInv' /\ NoneSkipped'
  BY <1>1, TakenBlock DEF HeapInv, CallInv, NoneSkipped
<1>8. QED
  BY <1>4, <1>5, <1>6, <1>7 DEF HeapInv

LEMMA TakeSplitInv ==
  ASSUME HeapInv, TakeBlock, Splits(current, Align(request)),
         blocks' = Split(Align(request))
  PROVE  HeapInv'
<1> DEFINE n == Align(request)
           new == current + HDR + n
<1>1. /\ n \in Nat /\ n % 4 = 0 /\ new \in Nat /\ current < new /\ new % 4 = 0
      /\ new < End(current) /\ End(current) <= HEAP_END /\ End(current) \in Nat
      /\ n <= HEAP_SIZE
      /\ blocks[current].size - n - HDR \in 0..HEAP_SIZE
      /\ (blocks[current].size - n - HDR) % 4 = 0
  <2>1. End(current) = HEAP_END \/ End(current) \in HEAP_START..HEAP_END - 1
    BY TakenBlock DEF HeapInv, BlocksTile, TypeOK
  <2>2. blocks[current].size % 4 = 0 /\ blocks[current].size \in 0..HEAP_SIZE
    BY TakenBlock DEF HeapInv, BlocksAligned, Block
  <2>3. blocks[current].size > n + HDR + 8
    BY DEF Splits
  <2>4. n \in Nat /\ n % 4 = 0 /\ current \in Nat /\ current % 4 = 0
    BY TakenBlock
  <2>5. End(current) = current + HDR + blocks[current].size
    BY DEF End
  <2> HIDE DEF n
  <2>6. /\ End(current) \in Nat /\ End(current) <= HEAP_END
        /\ new < End(current) /\ current < new /\ new \in Nat
    BY <2>1, <2>2, <2>3, <2>4, <2>5, Constants
  <2>7. n <= HEAP_SIZE /\ blocks[current].size - n - HDR \in 0..HEAP_SIZE
    BY <2>2, <2>3, <2>4, Constants
  <2>8. new % 4 = 0
    BY <2>4, Constants
  <2>9. (blocks[current].size - n - HDR) % 4 = 0
    BY <2>2, <2>3, <2>4, Constants
  <2>10. QED
    BY <2>4, <2>6, <2>7, <2>8, <2>9
<1>2. \A b \in DOMAIN blocks : /\ b \in Nat /\ End(b) \in Nat /\ b < HEAP_END
                               /\ current < b => End(current) <= b
                               /\ b < current => End(b) <= current
  BY TakenBlock, Constants DEF HeapInv, TypeOK, BlocksTile, End, Block
<1> HIDE DEF n
<1>3. new \notin DOMAIN blocks
  BY <1>1, <1>2, TakenBlock
<1>4. /\ DOMAIN blocks' = DOMAIN blocks \union {new}
      /\ blocks'[new] = [size |-> blocks[current].size - n - HDR, used |-> FALSE,
                         next |-> blocks[current].next]
      /\ blocks'[current] = [size |-> n, used |-> TRUE, next |-> new]
      /\ \A a \in DOMAIN blocks \ {current} : blocks'[a] = blocks[a]
  BY <1>1, <1>3, TakenBlock DEF Split, n
<1>5. UNCHANGED initialized /\ call' = "idle" /\ request' = 0 /\ current' = NULL
  BY DEF TakeBlock, Returns
<1>6. /\ LiveBlocks' /\ DOMAIN live' \subseteq HEAP_START..HEAP_END
      /\ \A p \in DOMAIN live' : live'[p] \in 0..WORD - 1
  <2>1. \A a \in DOMAIN blocks' : blocks'[a].used => a \in DOMAIN blocks
    BY <1>4
  <2>2. /\ current \in DOMAIN blocks' /\ blocks'[current].used
        /\ blocks'[current].size \in Nat
        /\ Align(request) <= blocks'[current].size
        /\ \A a \in DOMAIN blocks \ {current} :
              a \in DOMAIN blocks' /\ blocks'[a] = blocks[a]
    BY <1>1, <1>4, TakenBlock DEF n
  <2>3. QED
    BY <2>1, <2>2, TakeLive
<1>7. TypeOK'
  <2>1. new \in HEAP_START..HEAP_END - 1 /\ 0 \in 0..WORD - 1
    BY <1>1, TakenBlock, Constants
  <2>2. blocks'[new] \in Block /\ blocks'[current] \in Block
    BY <1>1, <1>4, <2>1, TakenBlock, Constants DEF Block
  <2>3. QED
    BY <1>4, <1>5, <1>6, <2>1, <2>2 DEF HeapInv, TypeOK
<1>8. BlocksTile'
  <2> DEFINE E(a) == a + HDR + blocks'[a].size
  <2>1. E(current) = new /\ E(new) = End(current)
    <3>1. blocks[current].size \in Nat
      BY TakenBlock DEF Block
    <3>2. E(current) = new
      BY <1>4
    <3>3. E(new) = current + HDR + blocks[current].size
      BY <1>1, <1>4, <3>1, TakenBlock, Constants
    <3>4. QED
      BY <3>2, <3>3 DEF End
  <2>2. \A a \in DOMAIN blocks \ {current} : E(a) = End(a)
    BY <1>4 DEF End
  <2> HIDE DEF E
  <2>3. initialized' => HEAP_START \in DOMAIN blocks'
    BY <1>4, <1>5 DEF HeapInv, BlocksTile
  <2>4. ASSUME NEW a \in DOMAIN blocks'
        PROVE  \/ E(a) = HEAP_END /\ blocks'[a].next = NULL
               \/ E(a) \in DOMAIN blocks' /\ blocks'[a].next = E(a)
    BY <1>4, <2>1, <2>2, TakenBlock DEF HeapInv, BlocksTile
  <2>5. ASSUME NEW a \in DOMAIN blocks', NEW b \in DOMAIN blocks', a < b
        PROVE  E(a) <= b
    <3>1. CASE a = current
      BY <1>1, <1>2, <1>4, <2>1, <2>5, <3>1
    <3>2. CASE a = new
      <4>1. b \in DOMAIN blocks
        BY <1>4, <2>5, <3>2, <1>1
      <4>2. current < b
        BY <1>1, <1>2, <2>5, <3>2, <4>1, TakenBlock
      <4>3. QED
        BY <1>2, <2>1, <3>2, <4>1, <4>2
    <3>3. CASE a \in DOMAIN blocks /\ a # current
      <4>1. E(a) = End(a) /\ End(a) \in Nat
        BY <1>2, <2>2, <3>3
      <4>2. CASE b = new
        <5>1. a < current
          BY <1>1, <1>2, <2>5, <3>3, <4>2, TakenBlock
        <5>2. QED
          BY <1>1, <1>2, <3>3, <4>1, <4>2, <5>1, TakenBlock
      <4>3. CASE b # new
        BY <1>4, <2>5, <3>3, <4>1, <4>3 DEF HeapInv, BlocksTile
      <4>4. QED
        BY <4>2, <4>3
    <3>4. QED
      BY <1>4, <3>1, <3>2, <3>3
  <2>6. QED
    BY <2>3, <2>4, <2>5 DEF BlocksTile, End, E
<1>9. BlocksAligned'
  BY <1>1, <1>4 DEF HeapInv, BlocksAligned
<1>10. CallInv' /\ NoneSkipped'
  BY <1>5, TakenBlock DEF CallInv, NoneSkipped
<1>11. QED
  BY <1>6, <1>7, <1>8, <1>9, <1>10 DEF HeapInv

LEMMA TakeInv ==
  ASSUME HeapInv, TakeBlock
  PROVE  HeapInv'
<1>1. CASE Splits(current, Align(request))
  BY <1>1, TakeSplitInv DEF TakeBlock
<1>2. CASE ~Splits(current, Align(request))
  BY <1>2, TakeWholeInv DEF TakeBlock
<1>3. QED
  BY <1>1, <1>2

LEMMA ReturnInv ==
  ASSUME HeapInv, OutOfMemory \/ FreeReturns
  PROVE  HeapInv'
<1>1. /\ UNCHANGED <<initialized, blocks, live>>
      /\ call' = "idle" /\ request' = 0 /\ current' = NULL
  BY DEF OutOfMemory, FreeReturns, Returns
<1>2. TypeOK'
  <2>1. 0 \in 0..WORD - 1
    BY Constants
  <2>2. QED
    BY <1>1, <2>1 DEF HeapInv, TypeOK
<1>3. BlocksTile' /\ LiveBlocks' /\ BlocksAligned'
  BY <1>1 DEF HeapInv, BlocksTile, LiveBlocks, BlocksAligned, End
<1>4. CallInv' /\ NoneSkipped'
  BY <1>1 DEF HeapInv, CallInv, NoneSkipped
<1>5. QED
  BY <1>2, <1>3, <1>4 DEF HeapInv

LEMMA FreeInv ==
  ASSUME HeapInv, NEW ptr \in DOMAIN live, Free(ptr)
  PROVE  HeapInv'
<1> DEFINE cur == ptr - HDR
<1>1. /\ cur \in DOMAIN blocks /\ blocks[cur].used /\ blocks[cur] \in Block
      /\ cur \in Nat /\ cur < HEAP_END
  BY Constants DEF HeapInv, LiveBlocks, TypeOK
<1> HIDE DEF cur
<1>2. /\ DOMAIN blocks' = DOMAIN blocks
      /\ blocks'[cur] = [blocks[cur] EXCEPT !.used = FALSE]
      /\ \A a \in DOMAIN blocks \ {cur} : blocks'[a] = blocks[a]
      /\ UNCHANGED <<initialized, request>> /\ call' = "free" /\ current' = cur
      /\ DOMAIN live' = DOMAIN live \ {ptr}
      /\ \A p \in DOMAIN live \ {ptr} : live'[p] = live[p]
  BY <1>1 DEF Free, cur
<1>3. \A a \in DOMAIN blocks : /\ blocks'[a].size = blocks[a].size
                               /\ blocks'[a].next = blocks[a].next
                               /\ blocks'[a] \in Block
                               /\ a # cur => blocks'[a].used = blocks[a].used
  <2>1. /\ blocks'[cur] \in Block
        /\ blocks'[cur].size = blocks[cur].size /\ blocks'[cur].next = blocks[cur].next
    BY <1>1, <1>2 DEF Block
  <2>2. QED
    BY <1>2, <2>1 DEF HeapInv, TypeOK
<1>4. ~blocks'[cur].used
  BY <1>1, <1>2 DEF Block
<1>5. TypeOK'
  BY <1>1, <1>2, <1>3 DEF HeapInv, TypeOK
<1>6. BlocksTile' /\ BlocksAligned'
  BY <1>2, <1>3 DEF HeapInv, BlocksTile, BlocksAligned, End
<1>7. LiveBlocks'
  <2>1. ASSUME NEW p \in DOMAIN live'
        PROVE  /\ p - HDR \in DOMAIN blocks' /\ blocks'[p - HDR].used
               /\ live'[p] + 3 < WORD => live'[p] <= blocks'[p - HDR].size
    <3>1. p \in DOMAIN live /\ p # ptr /\ live'[p] = live[p]
      BY <1>2
    <3>2. p - HDR # cur
      BY <3>1, Constants DEF HeapInv, TypeOK, cur
    <3>3. QED
      BY <1>2, <1>3, <3>1, <3>2 DEF HeapInv, LiveBlocks
  <2>2. ASSUME NEW a \in DOMAIN blocks', blocks'[a].used
        PROVE  a + HDR \in DOMAIN live'
    <3>1. a \in DOMAIN blocks /\ blocks[a].used /\ a # cur
      BY <1>2, <1>3, <1>4, <2>2
    <3>2. a + HDR # ptr
      BY <3>1, Constants DEF HeapInv, TypeOK, cur
    <3>3. QED
      BY <1>2, <3>1, <3>2 DEF HeapInv, LiveBlocks
  <2>3. QED
    BY <2>1, <2>2 DEF LiveBlocks
<1>8. CallInv' /\ NoneSkipped'
  BY <1>1, <1>2, <1>4 DEF HeapInv, CallInv, NoneSkipped
<1>9. QED
  BY <1>5, <1>6, <1>7, <1>8 DEF HeapInv

LEMMA MergeInv ==
  ASSUME HeapInv, MergeNext
  PROVE  HeapInv'
<1> DEFINE n == blocks[current].next
<1>1. /\ current \in DOMAIN blocks /\ blocks[current] \in Block /\ current \in Nat
      /\ ~blocks[current].used /\ initialized /\ call = "free"
  <2>1. current \in DOMAIN blocks /\ ~blocks[current].used /\ initialized /\ call = "free"
    BY DEF MergeNext, HeapInv, CallInv
  <2>2. QED
    BY <2>1, Constants DEF HeapInv, TypeOK
<1>2. /\ n \in DOMAIN blocks /\ n = End(current) /\ ~blocks[n].used
      /\ blocks[n] \in Block /\ n \in Nat /\ current < n
  <2>1. n \in DOMAIN blocks /\ n = End(current) /\ ~blocks[n].used
    BY <1>1 DEF MergeNext, NextIsFree, HeapInv, BlocksTile
  <2>2. blocks[n] \in Block /\ n \in Nat
    BY <2>1, Constants DEF HeapInv, TypeOK
  <2>3. current < n
    BY <1>1, <2>1, Constants DEF End, Block
  <2>4. QED
    BY <2>1, <2>2, <2>3
<1> DEFINE size == blocks[current].size + HDR + blocks[n].size
<1>3. /\ DOMAIN blocks' = DOMAIN blocks \ {n}
      /\ blocks'[current] = [size |-> size, used |-> FALSE, next |-> blocks[n].next]
      /\ \A a \in DOMAIN blocks \ {n, current} : blocks'[a] = blocks[a]
      /\ UNCHANGED <<initialized, live, call, request, current>>
  <2>1. blocks[current].used = FALSE
    BY <1>1 DEF Block
  <2>2. /\ DOMAIN blocks' = DOMAIN blocks \ {n}
        /\ blocks'[current] = [size |-> size, used |-> FALSE, next |-> blocks[n].next]
    <3>1. blocks' = [a \in DOMAIN blocks \ {n} |->
                       IF a = current
                       THEN [size |-> blocks[a].size + HDR + blocks[n].size,
                             used |-> blocks[a].used, next |-> blocks[n].next]
                       ELSE blocks[a]]
      BY DEF MergeNext
    <3>2. current \in DOMAIN blocks \ {n}
      BY <1>1, <1>2
    <3> HIDE DEF n
    <3>3. QED
      BY <2>1, <3>1, <3>2
  <2>3. \A a \in DOMAIN blocks \ {n, current} : blocks'[a] = blocks[a]
    BY DEF MergeNext
  <2>4. UNCHANGED <<initialized, live, call, request, current>>
    BY DEF MergeNext
  <2>5. QED
    BY <2>1, <2>2, <2>3, <2>4
<1>4. \A b \in DOMAIN blocks :
        /\ b \in Nat /\ End(b) \in Nat /\ b < HEAP_END /\ End(b) <= HEAP_END
        /\ HEAP_START <= b
        /\ \A a \in DOMAIN blocks : a < b => End(a) <= b
  BY Constants DEF HeapInv, TypeOK, BlocksTile, End, Block
<1>5. /\ size \in 0..HEAP_SIZE /\ size % 4 = 0
      /\ current + HDR + size = End(n)
  <2>1. /\ blocks[current].size \in Nat /\ blocks[n].size \in Nat
        /\ blocks[current].size % 4 = 0 /\ blocks[n].size % 4 = 0
    BY <1>1, <1>2 DEF Block, HeapInv, BlocksAligned
  <2>2. End(n) <= HEAP_END /\ HEAP_START <= current
    BY <1>1, <1>2, <1>4
  <2>3. n = current + HDR + blocks[current].size /\ End(n) = n + HDR + blocks[n].size
    BY <1>2 DEF End
  <2>4. HEAP_END = HEAP_START + HEAP_SIZE
    BY DEF HEAP_END
  <2> HIDE DEF n
  <2>5. current + HDR + size = End(n) /\ size \in 0..HEAP_SIZE
    BY <1>1, <1>2, <2>1, <2>2, <2>3, <2>4, Constants
  <2>6. size % 4 = 0
    BY <2>1, Constants
  <2>7. QED
    BY <2>5, <2>6
<1> HIDE DEF n, size
<1>6. TypeOK'
  <2>1. blocks'[current] \in Block
    BY <1>2, <1>3, <1>5 DEF Block
  <2>2. QED
    BY <1>3, <2>1 DEF HeapInv, TypeOK
<1>7. BlocksTile'
  <2> DEFINE E(a) == a + HDR + blocks'[a].size
  <2>1. E(current) = End(n) /\ \A a \in DOMAIN blocks \ {n, current} : E(a) = End(a)
    BY <1>3, <1>5 DEF End
  <2> HIDE DEF E
  <2>2. initialized' => HEAP_START \in DOMAIN blocks'
    BY <1>1, <1>2, <1>3, <1>4 DEF HeapInv, BlocksTile
  <2>3. ASSUME NEW a \in DOMAIN blocks'
        PROVE  \/ E(a) = HEAP_END /\ blocks'[a].next = NULL
               \/ E(a) \in DOMAIN blocks' /\ blocks'[a].next = E(a)
    <3>1. CASE a = current
      <4>1. End(n) # n
        BY <1>2, Constants DEF End, Block
      <4>2. QED
        BY <1>2, <1>3, <2>1, <3>1, <4>1 DEF HeapInv, BlocksTile
    <3>2. CASE a # current
      <4>1. a \in DOMAIN blocks /\ a # n /\ E(a) = End(a) /\ blocks'[a] = blocks[a]
        BY <1>3, <2>1, <3>2
      <4>2. End(a) # n
        <5>1. CASE a < current
          BY <1>1, <1>2, <1>4, <4>1, <5>1
        <5>2. CASE current < a
          <6>1. n < a /\ a < End(a)
            BY <1>1, <1>2, <1>4, <4>1, <5>2, Constants DEF HeapInv, TypeOK, End, Block
          <6>2. QED
            BY <1>2, <1>4, <4>1, <6>1
        <5>3. QED
          BY <1>1, <1>4, <3>2, <4>1, <5>1, <5>2
      <4>3. QED
        BY <1>3, <4>1, <4>2 DEF HeapInv, BlocksTile
    <3>3. QED
      BY <3>1, <3>2
  <2>4. ASSUME NEW a \in DOMAIN blocks', NEW b \in DOMAIN blocks', a < b
        PROVE  E(a) <= b
    <3>1. a \in DOMAIN blocks /\ b \in DOMAIN blocks /\ a # n /\ b # n
      BY <1>3
    <3>2. CASE a = current
      BY <1>1, <1>2, <1>4, <2>1, <2>4, <3>1, <3>2
    <3>3. CASE a # current
      BY <1>4, <2>1, <2>4, <3>1, <3>3
    <3>4. QED
      BY <3>2, <3>3
  <2>5. QED
    BY <2>2, <2>3, <2>4 DEF BlocksTile, End, E
<1>8. BlocksAligned'
  BY <1>3, <1>5 DEF HeapInv, BlocksAligned
<1>9. LiveBlocks'
  <2>1. ASSUME NEW p \in DOMAIN live
        PROVE  p - HDR \in DOMAIN blocks \ {n, current}
    BY <1>1, <1>2 DEF HeapInv, LiveBlocks
  <2>2. QED
    BY <1>3, <2>1 DEF HeapInv, LiveBlocks
<1>10. CallInv' /\ NoneSkipped'
  BY <1>1, <1>2, <1>3 DEF CallInv, NoneSkipped
<1>11. QED
  BY <1>6, <1>7, <1>8, <1>9, <1>10 DEF HeapInv

LEMMA NextInv == HeapInv /\ [Next]_vars => HeapInv'
<1> SUFFICES ASSUME HeapInv, [Next]_vars PROVE HeapInv'
  OBVIOUS
<1>1. CASE \E n \in Requests : Malloc(n)
  BY <1>1, MallocInv
<1>2. CASE \E ptr \in DOMAIN live : Free(ptr)
  BY <1>2, FreeInv
<1>3. CASE SkipBlock
  BY <1>3, SkipInv
<1>4. CASE TakeBlock
  BY <1>4, TakeInv
<1>5. CASE OutOfMemory \/ FreeReturns
  BY <1>5, ReturnInv
<1>6. CASE MergeNext
  BY <1>6, MergeInv
<1>7. CASE UNCHANGED vars
  BY <1>7 DEF HeapInv, TypeOK, BlocksTile, LiveBlocks, NoneSkipped, CallInv,
              BlocksAligned, End, InList, vars
<1>8. QED
  BY <1>1, <1>2, <1>3, <1>4, <1>5, <1>6, <1>7 DEF Next, Step

(* The blocks of the list tile the heap without gap or overlap, between    *)
(* any two steps of malloc and free.                                       *)
THEOREM HeapTiled == Spec => []BlocksTile
<1>1. HeapInv => BlocksTile
  BY DEF HeapInv
<1>2. QED
  BY <1>1, InitInv, NextInv, PTL DEF Spec

(* Every block of the list has a header inside the heap and a size that    *)
(* fits a uint32: malloc never writes a header where there is no room.     *)
THEOREM HeapTyped == Spec => []TypeOK
<1>1. HeapInv => TypeOK
  BY DEF HeapInv
<1>2. QED
  BY <1>1, InitInv, NextInv, PTL DEF Spec

(* Callers hold exactly the used blocks, and got at least what they asked  *)
(* for.                                                                    *)
THEOREM CallersOwnBlocks == Spec => []LiveBlocks
<1>1. HeapInv => LiveBlocks
  BY DEF HeapInv
<1>2. QED
  BY <1>1, InitInv, NextInv, PTL DEF Spec

(* malloc fails only if no free block of the list could serve the request. *)
THEOREM NoSpuriousFailure == Spec => []NoneSkipped
<1>1. HeapInv => NoneSkipped
  BY DEF HeapInv
<1>2. QED
  BY <1>1, InitInv, NextInv, PTL DEF Spec

-----------------------------------------------------------------------------
(* What malloc returns is what Allocator lets it return.                   *)
LEMMA TakeAllocates ==
  ASSUME HeapInv, TakeBlock, request + 3 < WORD
  PROVE  Abstract!Alloc(current + HDR, request)
<1> DEFINE p == current + HDR
<1>1. /\ p \in Nat /\ HEAP_START <= p /\ p % 4 = 0 /\ request \in Nat
      /\ p + request <= End(current) /\ End(current) <= HEAP_END
      /\ p \notin DOMAIN live /\ End(current) \in Nat
  <2>1. /\ current \in Nat /\ current % 4 = 0 /\ blocks[current].size \in Nat
        /\ request \in Nat /\ request <= Align(request) /\ Align(request) \in Nat
        /\ Align(request) <= blocks[current].size
    BY TakenBlock DEF Block
  <2>2. (current + HDR) % 4 = 0
    BY <2>1, Constants
  <2>3. QED
    BY <2>1, <2>2, TakenBlock, Constants DEF End
<1>2. ASSUME NEW q \in DOMAIN live, live[q] + 3 < WORD
      PROVE  p # q /\ Abstract!Disjoint(p, request, q, live[q])
  <2> DEFINE b == q - HDR
  <2>1. /\ b \in DOMAIN blocks /\ blocks[b].used /\ q \in Nat /\ live[q] \in Nat
        /\ live[q] <= blocks[b].size
    BY <1>2, Constants DEF HeapInv, LiveBlocks, TypeOK
  <2>2. /\ b # current /\ b \in Nat /\ b + HDR = q /\ blocks[b].size \in Nat
    BY <2>1, TakenBlock, Constants DEF HeapInv, TypeOK, Block
  <2>3. End(b) = q + blocks[b].size
    BY <2>1, <2>2, Constants DEF End
  <2>4. CASE b < current
    <3>1. End(b) <= current
      BY <2>1, <2>4, TakenBlock DEF HeapInv, BlocksTile
    <3>2. q + live[q] <= p
      BY <2>1, <2>2, <2>3, <3>1, TakenBlock, Constants
    <3>3. QED
      BY <1>1, <3>2 DEF Abstract!Disjoint
  <2>5. CASE current < b
    <3>1. End(current) <= b
      BY <2>1, <2>5, TakenBlock DEF HeapInv, BlocksTile
    <3> HIDE DEF p, b
    <3>2. p + request <= q
      BY <1>1, <2>1, <2>2, <3>1, Constants
    <3>3. QED
      BY <1>1, <3>2 DEF Abstract!Disjoint
  <2>6. QED
    BY <2>2, <2>4, <2>5, TakenBlock
<1>3. Served' = [q \in DOMAIN Served \union {p} |-> IF q = p THEN request ELSE Served[q]]
  <2>1. live' = [q \in DOMAIN live \union {p} |-> IF q = p THEN request ELSE live[q]]
    BY DEF TakeBlock
  <2> HIDE DEF p
  <2>2. DOMAIN live' = DOMAIN live \union {p} /\ live'[p] = request
        /\ \A q \in DOMAIN live : q # p => live'[q] = live[q]
    BY <2>1
  <2>3. {q \in DOMAIN live' : live'[q] + 3 < WORD}
          = {q \in DOMAIN live : live[q] + 3 < WORD} \union {p}
    BY <1>1, <2>2 DEF p
  <2>4. \A q \in {q \in DOMAIN live : live[q] + 3 < WORD} \union {p} :
          live'[q] = IF q = p THEN request ELSE Served[q]
    BY <2>2 DEF Served
  <2>5. DOMAIN Served = {q \in DOMAIN live : live[q] + 3 < WORD}
    BY DEF Served
  <2>6. Served' = [q \in {q \in DOMAIN live' : live'[q] + 3 < WORD} |-> live'[q]]
    BY DEF Served
  <2>7. QED
    BY <2>3, <2>4, <2>5, <2>6
<1>4. p \in HEAP_START..HEAP_END /\ p + request <= HEAP_END
  BY <1>1, Constants
<1>5. \A q \in DOMAIN Served : p # q /\ Abstract!Disjoint(p, request, q, Served[q])
  BY <1>2 DEF Served
<1>6. QED
  BY <1>1, <1>3, <1>4, <1>5 DEF Abstract!Alloc

(* A block whose size wrapped around is not among those served.            *)
LEMMA WrappedIsNotServed ==
  ASSUME HeapInv, TakeBlock, ~(request + 3 < WORD)
  PROVE  Served' = Served
<1> DEFINE p == current + HDR
<1>1. live' = [q \in DOMAIN live \union {p} |-> IF q = p THEN request ELSE live[q]]
  BY DEF TakeBlock
<1>2. p \notin DOMAIN live
  BY TakenBlock
<1> HIDE DEF p
<1>3. DOMAIN live' = DOMAIN live \union {p} /\ live'[p] = request
      /\ \A q \in DOMAIN live : live'[q] = live[q]
  BY <1>1, <1>2
<1>4. {q \in DOMAIN live' : live'[q] + 3 < WORD} = {q \in DOMAIN live : live[q] + 3 < WORD}
  BY <1>2, <1>3
<1>5. QED
  BY <1>3, <1>4 DEF Served

LEMMA FreeDeallocates ==
  ASSUME NEW ptr \in DOMAIN live, Free(ptr)
  PROVE  Abstract!Dealloc(ptr) \/ Served' = Served
<1>1. live' = [q \in DOMAIN live \ {ptr} |-> live[q]]
  BY DEF Free
<1>2. DOMAIN live' = DOMAIN live \ {ptr} /\ \A q \in DOMAIN live' : live'[q] = live[q]
  BY <1>1
<1>3. {q \in DOMAIN live' : live'[q] + 3 < WORD}
        = {q \in DOMAIN live : live[q] + 3 < WORD} \ {ptr}
  BY <1>2
<1>4. DOMAIN Served = {q \in DOMAIN live : live[q] + 3 < WORD}
  BY DEF Served
<1>5. Served' = [q \in DOMAIN Served \ {ptr} |-> Served[q]]
  <2>1. Served' = [q \in {q \in DOMAIN live' : live'[q] + 3 < WORD} |-> live'[q]]
    BY DEF Served
  <2>2. \A q \in DOMAIN Served \ {ptr} : live'[q] = Served[q]
    BY <1>2, <1>4 DEF Served
  <2>3. QED
    BY <1>3, <1>4, <2>1, <2>2
<1>6. CASE ptr \in DOMAIN Served
  BY <1>5, <1>6 DEF Abstract!Dealloc
<1>7. CASE ptr \notin DOMAIN Served
  <2>1. {q \in DOMAIN live' : live'[q] + 3 < WORD} = {q \in DOMAIN live : live[q] + 3 < WORD}
    BY <1>3, <1>4, <1>7
  <2>2. QED
    BY <1>2, <2>1 DEF Served
<1>8. QED
  BY <1>6, <1>7

(* Every step of the heap is a step of Allocator or leaves it alone.       *)
THEOREM HeapImplementsAllocator == Spec => ImplementsAllocator
<1>1. Init => Abstract!Init
  <2>1. live = <<>> => Served = <<>>
    BY DEF Served
  <2>2. QED
    BY <2>1 DEF Init, Abstract!Init
<1>2. HeapInv /\ [Next]_vars => [Abstract!Next]_Served
  <2> SUFFICES ASSUME HeapInv, [Next]_vars
               PROVE  [Abstract!Next]_Served
    OBVIOUS
  <2>1. CASE TakeBlock
    <3>1. current + HDR \in HEAP_START..HEAP_END /\ request \in Requests
      BY <2>1, TakenBlock, Constants DEF Block
    <3>2. CASE request + 3 < WORD
      BY <2>1, <3>1, <3>2, TakeAllocates DEF Abstract!Next
    <3>3. CASE ~(request + 3 < WORD)
      BY <2>1, <3>3, WrappedIsNotServed
    <3>4. QED
      BY <3>2, <3>3
  <2>2. ASSUME NEW ptr \in DOMAIN live, Free(ptr) PROVE [Abstract!Next]_Served
    <3>1. CASE Served' = Served
      BY <3>1
    <3>2. CASE Abstract!Dealloc(ptr)
      BY <3>2 DEF Abstract!Next, Abstract!Dealloc
    <3>3. QED
      BY <2>2, <3>1, <3>2, FreeDeallocates
  <2>3. CASE UNCHANGED live
    BY <2>3 DEF Served
  <2>4. QED
    BY <2>1, <2>2, <2>3 DEF Next, Step, Malloc, SkipBlock, OutOfMemory, MergeNext,
                            FreeReturns, vars
<1>3. QED
  BY <1>1, <1>2, InitInv, NextInv, PTL DEF Spec, ImplementsAllocator, Abstract!Spec
=============================================================================
