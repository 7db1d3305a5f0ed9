-------------------------- MODULE MMExplicitProofs --------------------------
(* mm-explicit.c: the structural invariant, payload safety, that it           *)
(* implements HeapSpec, that find_fit misses no block and that its walks meet *)
(* every block, for every size of heap, header and alignment.                 *)
EXTENDS MMExplicit, MemLibProofs, WellFoundedInduction, FiniteSetTheorems

\* mm_init establishes the inductive invariant.
LEMMA InitInv == mm_init => IInv
<1> SUFFICES ASSUME mm_init PROVE IInv
  OBVIOUS
<1> USE MemLibConstants, HeaderFits DEF MemLibConstants, HeaderFits, mm_init, HEAD, mem_heap_lo, NULL, NoCall
<1>1. /\ DOMAIN size = {0} /\ size[0] = BLK_HDR_SIZE
      /\ DOMAIN next_p = {0} /\ next_p[0] = 0
      /\ DOMAIN prior_p = {0} /\ prior_p[0] = 0
      /\ size = [x \in {0} |-> BLK_HDR_SIZE]
      /\ next_p = [x \in {0} |-> 0] /\ prior_p = [x \in {0} |-> 0]
  BY SMT
<1>2. DOMAIN live = {} /\ live \in [DOMAIN live -> Sizes]
  BY SMT
<1>3. BLK_HDR_SIZE % 2 = 0 /\ 0 % ALIGNMENT = 0
  BY AlignedSum, ZeroAligned, SMT
<1>4. Sz(0) = BLK_HDR_SIZE /\ ~Used(0) /\ blocks = {0} /\ FreeNodes = {0}
  BY <1>1, <1>3, SMT DEF Sz, Used, blocks, FreeNodes
<1>5. TypeOK
  BY <1>1, <1>2, SMT DEF TypeOK, blocks
<1>6. BlocksDisjoint
  BY <1>1, <1>3, <1>4, SMT DEF BlocksDisjoint
<1>7. LinksInverse
  BY <1>1, <1>4, SMT DEF LinksInverse
<1>8. LiveInUsedBlocks /\ CallConsistent
  BY <1>2, <1>4, SMT DEF LiveInUsedBlocks, CallConsistent
<1> QED
  BY <1>5, <1>6, <1>7, <1>8 DEF IInv

\* Two multiples of the alignment are that far apart.
LEMMA AlignedApart ==
    ASSUME NEW s \in Nat, NEW t \in Nat, s % ALIGNMENT = 0, t % ALIGNMENT = 0, s < t
    PROVE  s + ALIGNMENT <= t
<1>1. CASE ALIGNMENT = 2
  BY <1>1, SMT
<1>2. CASE ALIGNMENT = 4
  BY <1>2, SMT
<1>3. CASE ALIGNMENT = 8
  BY <1>3, SMT
<1>4. CASE ALIGNMENT = 16
  BY <1>4, SMT
<1> QED
  BY <1>1, <1>2, <1>3, <1>4, MemLibConstants DEF MemLibConstants

\* What IInv says of one block.
LEMMA BlockFacts ==
    ASSUME IInv, NEW b \in blocks
    PROVE  /\ b \in Nat /\ size[b] \in Nat /\ Sz(b) \in Nat
           /\ Sz(b) % 2 = 0 /\ Sz(b) % ALIGNMENT = 0 /\ b % ALIGNMENT = 0
           /\ BLK_HDR_SIZE <= Sz(b) /\ b + Sz(b) <= brk
           /\ Sz(b) <= size[b] /\ size[b] <= Sz(b) + 1
           /\ ~Used(b) => size[b] = Sz(b)
           /\ brk \in Nat /\ brk <= MAX_HEAP
           /\ b < brk
<1>1. b \in Nat /\ size[b] \in Nat /\ brk \in Nat /\ brk <= MAX_HEAP
      /\ BLK_HDR_SIZE \in Nat \ {0}
  BY MemLibConstants, HeaderFits, SMT DEF IInv, TypeOK, MemLibConstants, HeaderFits
<1>2. /\ Sz(b) \in Nat /\ Sz(b) % 2 = 0 /\ Sz(b) <= size[b] /\ size[b] <= Sz(b) + 1
      /\ ~Used(b) => size[b] = Sz(b)
  BY <1>1, BitFacts, SMT DEF Sz, Used
<1>3. /\ Sz(b) % ALIGNMENT = 0 /\ b % ALIGNMENT = 0
      /\ BLK_HDR_SIZE <= Sz(b) /\ b + Sz(b) <= brk
  BY DEF IInv, BlocksDisjoint
<1> QED
  BY <1>1, <1>2, <1>3, SMT

\* The sentinel is never marked as allocated.
LEMMA HeadIsFree ==
    ASSUME IInv
    PROVE  HEAD \in blocks /\ ~Used(HEAD) /\ HEAD \in FreeNodes
<1>1. BLK_HDR_SIZE % 2 = 0
  BY AlignedSum, MemLibConstants, HeaderFits, SMT DEF MemLibConstants, HeaderFits
<1>2. HEAD \in blocks /\ size[HEAD] = BLK_HDR_SIZE
  BY DEF IInv, BlocksDisjoint
<1>3. ~Used(HEAD)
  BY <1>1, <1>2, SMT DEF Used
<1> QED
  BY <1>2, <1>3 DEF FreeNodes

\* Marking a block keeps every extent, and changes one bit.
LEMMA MarkFacts ==
    ASSUME IInv, NEW b \in blocks, NEW bit \in {0, 1},
           size' = [size EXCEPT ![b] = Sz(b) + bit]
    PROVE  /\ blocks' = blocks
           /\ size' \in [blocks -> Nat]
           /\ \A c \in blocks : Sz(c)' = Sz(c)
           /\ \A c \in blocks \ {b} : Used(c)' <=> Used(c)
           /\ Used(b)' <=> bit = 1
<1>1. blocks' = blocks /\ size' \in [blocks -> Nat]
  BY BlockFacts, SMT DEF IInv, TypeOK, blocks
<1>2. \A c \in blocks \ {b} : size'[c] = size[c]
  BY SMT DEF IInv, TypeOK, blocks
<1>3. size'[b] = Sz(b) + bit
  BY SMT DEF IInv, TypeOK, blocks
<1>4. Sz(b)' = Sz(b) /\ (Used(b)' <=> bit = 1)
  <2>1. Sz(b) \in Nat /\ Sz(b) % 2 = 0
    BY BlockFacts
  <2> HIDE DEF Sz
  <2>2. (Sz(b) + bit) % 2 = bit
    BY <2>1, SMT
  <2>3. Sz(b)' = size'[b] - (size'[b] % 2) /\ (Used(b)' <=> size'[b] % 2 = 1)
    BY DEF Sz, Used
  <2> QED
    BY <1>3, <2>1, <2>2, <2>3, SMT
<1>5. \A c \in blocks \ {b} : Sz(c)' = Sz(c) /\ (Used(c)' <=> Used(c))
  BY <1>2 DEF Sz, Used
<1> QED
  BY <1>1, <1>4, <1>5

\* mm_free's header updates keep the free list a doubly linked circle.
LEMMA FreeBlockFacts ==
    ASSUME IInv, NEW b \in blocks, Used(b), FreeBlock(b)
    PROVE  /\ blocks' = blocks
           /\ size' \in [blocks -> Nat]
           /\ next_p' \in [blocks -> blocks \cup {NULL}]
           /\ prior_p' \in [blocks -> blocks \cup {NULL}]
           /\ \A c \in blocks : Sz(c)' = Sz(c)
           /\ \A c \in blocks \ {b} : Used(c)' <=> Used(c)
           /\ ~Used(b)'
           /\ LinksInverse'
<1>1. size' = [size EXCEPT ![b] = Sz(b) + 0]
  <2>1. Sz(b) + 0 = Sz(b)
    BY BlockFacts, SMT
  <2> QED
    BY <2>1 DEF FreeBlock
<1>a. 0 \in {0, 1} /\ 0 # 1
  OBVIOUS
<1>2. /\ blocks' = blocks
      /\ size' \in [blocks -> Nat]
      /\ \A c \in blocks : Sz(c)' = Sz(c)
      /\ \A c \in blocks \ {b} : Used(c)' <=> Used(c)
      /\ ~Used(b)'
  BY <1>1, <1>a, MarkFacts
<1>3. FreeNodes' = FreeNodes \cup {b} /\ b \notin FreeNodes
  BY <1>2 DEF FreeNodes
<1>4. /\ HEAD \in blocks /\ HEAD \in FreeNodes /\ b # HEAD
      /\ FreeNodes \subseteq blocks
      /\ next_p[HEAD] \in FreeNodes
  BY HeadIsFree, <1>3 DEF FreeNodes, IInv, LinksInverse
<1>5. /\ next_p \in [blocks -> blocks \cup {NULL}]
      /\ prior_p \in [blocks -> blocks \cup {NULL}]
  BY DEF IInv, TypeOK
<1>6. /\ next_p' \in [blocks -> blocks \cup {NULL}]
      /\ prior_p' \in [blocks -> blocks \cup {NULL}]
  BY <1>4, <1>5, SMT DEF FreeBlock
<1>7. LinksInverse'
  <2> SUFFICES ASSUME NEW c \in FreeNodes'
               PROVE  /\ next_p'[c] \in FreeNodes' /\ prior_p'[c] \in FreeNodes'
                      /\ prior_p'[next_p'[c]] = c
                      /\ next_p'[prior_p'[c]] = c
    BY DEF LinksInverse
  <2> DEFINE first == next_p[HEAD]
  <2>1. \A d \in blocks :
          /\ next_p'[d] = IF d = HEAD THEN b
                          ELSE IF d = b THEN first ELSE next_p[d]
          /\ prior_p'[d] = IF d = first THEN b
                           ELSE IF d = b THEN HEAD ELSE prior_p[d]
    BY <1>4, <1>5, SMT DEF FreeBlock
  <2>2. \A d \in FreeNodes :
          /\ next_p[d] \in FreeNodes /\ prior_p[d] \in FreeNodes
          /\ prior_p[next_p[d]] = d /\ next_p[prior_p[d]] = d
    BY DEF IInv, LinksInverse
  <2> QED
    BY <1>3, <1>4, <2>1, <2>2, SMT
<1> QED
  BY <1>2, <1>6, <1>7

\* Steps that keep every extent keep the blocks aligned and disjoint.
LEMMA SameGeometry ==
    ASSUME IInv, blocks' = blocks, \A c \in blocks : Sz(c)' = Sz(c), brk' = brk,
           ~Used(HEAD)', size' \in [blocks -> Nat]
    PROVE  BlocksDisjoint'
<1>1. size'[HEAD] = Sz(HEAD)' /\ size[HEAD] = Sz(HEAD)
  <2>1. HEAD \in blocks /\ ~Used(HEAD)
    BY HeadIsFree
  <2>2. size'[HEAD] \in Nat
    BY <2>1
  <2> QED
    BY <2>1, <2>2, BlockFacts, BitFacts, SMT DEF Sz, Used
<1> QED
  BY <1>1 DEF IInv, BlocksDisjoint

\* The steps that leave the heap and its headers alone.
LEMMA HeapUnchanged ==
    ASSUME IInv, UNCHANGED <<brk, size, next_p, prior_p>>
    PROVE  /\ blocks' = blocks /\ FreeNodes' = FreeNodes
           /\ BlocksDisjoint' /\ LinksInverse'
           /\ \A c : (Sz(c)' = Sz(c)) /\ (Used(c)' <=> Used(c))
<1>1. /\ blocks' = blocks
      /\ \A c : (Sz(c)' = Sz(c)) /\ (Used(c)' <=> Used(c))
  BY DEF blocks, Sz, Used
<1>2. FreeNodes' = FreeNodes
  BY <1>1 DEF FreeNodes
<1>3. BlocksDisjoint'
  BY <1>1 DEF IInv, BlocksDisjoint
<1> QED
  BY <1>1, <1>2, <1>3 DEF IInv, LinksInverse

\* The size of the call in progress is one that callers may ask for.
LEMMA CallSize ==
    ASSUME IInv, pc # "idle"
    PROVE  call.size \in Nat \ {0} /\ call.size <= INT_MAX
           /\ BLK_HDR_SIZE + call.size \in Int
<1>1. call.size \in Sizes
  BY DEF IInv, CallConsistent
<1>2. call.size \in 1 .. INT_MAX /\ BLK_HDR_SIZE \in Nat /\ INT_MAX \in Nat
  BY <1>1, MemLibConstants, HeaderFits DEF MemLibConstants, HeaderFits
<1> QED
  BY <1>2, SMT

\* A newsize that is not negative did not overflow, and covers the request.
LEMMA NewsizeFacts ==
    ASSUME IInv, pc # "idle"
    PROVE  /\ newsize \in Int
           /\ newsize >= 0 => /\ newsize % ALIGNMENT = 0 /\ newsize % 2 = 0
                              /\ BLK_HDR_SIZE + call.size <= newsize
                              /\ newsize < BLK_HDR_SIZE + call.size + ALIGNMENT
<1> DEFINE need == BLK_HDR_SIZE + call.size
<1>1. /\ call.size \in Nat /\ call.size <= INT_MAX /\ need \in Nat
      /\ INT_MAX \in Nat /\ ALIGNMENT \in {2, 4, 8, 16}
      /\ need + ALIGNMENT < 2 * (INT_MAX + 1)
  <2>1. call.size \in Sizes
    BY DEF IInv, CallConsistent
  <2>2. call.size \in 1 .. INT_MAX /\ INT_MAX \in Nat /\ BLK_HDR_SIZE \in Nat
        /\ ALIGNMENT \in {2, 4, 8, 16} /\ BLK_HDR_SIZE + 2 * ALIGNMENT < INT_MAX
    BY <2>1, MemLibConstants, HeaderFits DEF MemLibConstants, HeaderFits
  <2> QED
    BY <2>2, SMT
<1>2. ALIGN(need) \in Nat /\ need <= ALIGN(need) /\ ALIGN(need) < need + ALIGNMENT
      /\ ALIGN(need) % ALIGNMENT = 0
  BY <1>1, AlignFacts
<1>3. ALIGN(need) % 2 = 0
  BY <1>2, AlignedSum
<1>4. newsize = IF ALIGN(need) <= INT_MAX THEN ALIGN(need)
                ELSE ALIGN(need) - 2 * (INT_MAX + 1)
  BY DEF newsize, ToInt
<1> HIDE DEF need
<1>5. newsize \in Int /\ (newsize >= 0 => newsize = ALIGN(need))
  BY <1>1, <1>2, <1>4, SMT
<1> QED
  BY <1>2, <1>3, <1>5 DEF need

\* mm_malloc and mm_realloc up to the loop of find_fit keep the invariant.
LEMMA EnterMallocInv ==
    ASSUME IInv, NEW ptr \in DOMAIN live \cup {NULL}, NEW n \in Sizes,
           EnterMalloc(ptr, n)
    PROVE  IInv'
<1>1. next_p[HEAD] \in FreeNodes /\ FreeNodes \subseteq blocks
  BY HeadIsFree DEF IInv, LinksInverse, FreeNodes
<1>2. /\ blocks' = blocks /\ FreeNodes' = FreeNodes
      /\ BlocksDisjoint' /\ LinksInverse'
      /\ \A c : (Sz(c)' = Sz(c)) /\ (Used(c)' <=> Used(c))
  BY HeapUnchanged DEF EnterMalloc
<1>3. TypeOK'
  <2>1. call' \in [ptr : DOMAIN live' \cup {NULL}, size : Sizes \cup {0}]
    BY DEF EnterMalloc
  <2> QED
    BY <1>1, <1>2, <2>1 DEF EnterMalloc, IInv, TypeOK
<1>4. LiveInUsedBlocks'
  BY <1>2 DEF EnterMalloc, IInv, LiveInUsedBlocks
<1>5. CallConsistent'
  BY <1>1, <1>2, SMT DEF EnterMalloc, CallConsistent
<1> QED
  BY <1>2, <1>3, <1>4, <1>5 DEF IInv

\* One turn of find_fit's loop keeps the invariant.
LEMMA FindNextInv ==
    ASSUME IInv, FindNext
    PROVE  IInv'
<1>1. next_p[bp] \in FreeNodes /\ FreeNodes \subseteq blocks /\ call.size \in Sizes
  BY DEF IInv, LinksInverse, FreeNodes, CallConsistent, FindNext
<1>2. /\ blocks' = blocks /\ FreeNodes' = FreeNodes
      /\ BlocksDisjoint' /\ LinksInverse'
      /\ \A c : (Sz(c)' = Sz(c)) /\ (Used(c)' <=> Used(c))
  BY HeapUnchanged DEF FindNext
<1>3. TypeOK'
  BY <1>1, <1>2 DEF FindNext, IInv, TypeOK
<1>4. LiveInUsedBlocks'
  BY <1>2 DEF FindNext, IInv, LiveInUsedBlocks
<1>5. CallConsistent'
  BY <1>1, <1>2 DEF FindNext, CallConsistent
<1> QED
  BY <1>2, <1>3, <1>4, <1>5 DEF IInv

\* mm_malloc answering NULL when mem_sbrk fails keeps the invariant.
LEMMA OutOfMemoryInv ==
    ASSUME IInv, OutOfMemory
    PROVE  IInv'
<1>1. HEAD \in blocks
  BY HeadIsFree
<1>2. /\ blocks' = blocks /\ FreeNodes' = FreeNodes
      /\ BlocksDisjoint' /\ LinksInverse'
      /\ \A c : (Sz(c)' = Sz(c)) /\ (Used(c)' <=> Used(c))
  BY HeapUnchanged DEF OutOfMemory
<1>3. TypeOK'
  <2>1. call' \in [ptr : DOMAIN live' \cup {NULL}, size : Sizes \cup {0}]
    BY DEF OutOfMemory, Back, NoCall
  <2> QED
    BY <1>1, <1>2, <2>1 DEF OutOfMemory, Back, IInv, TypeOK
<1>4. LiveInUsedBlocks'
  BY <1>2 DEF OutOfMemory, IInv, LiveInUsedBlocks
<1>5. CallConsistent'
  BY <1>1, <1>2 DEF OutOfMemory, Back, CallConsistent
<1> QED
  BY <1>2, <1>3, <1>4, <1>5 DEF IInv

\* A store of the caller in its own payload keeps the invariant.
LEMMA StoreInv ==
    ASSUME IInv, NEW p \in DOMAIN live, NEW i \in 0 .. live[p] - 1, NEW v \in Byte,
           Store(p, i, v)
    PROVE  IInv'
<1>2. /\ blocks' = blocks /\ FreeNodes' = FreeNodes
      /\ BlocksDisjoint' /\ LinksInverse'
      /\ \A c : (Sz(c)' = Sz(c)) /\ (Used(c)' <=> Used(c))
  BY HeapUnchanged DEF Store
<1>3. TypeOK'
  <2>1. mem' \in [0 .. MAX_HEAP -> Byte]
    BY DEF IInv, TypeOK, Store
  <2> QED
    BY <1>2, <2>1 DEF Store, IInv, TypeOK
<1>4. LiveInUsedBlocks'
  BY <1>2 DEF Store, IInv, LiveInUsedBlocks
<1>5. CallConsistent'
  BY <1>2 DEF Store, IInv, CallConsistent
<1> QED
  BY <1>2, <1>3, <1>4, <1>5 DEF IInv

\* mm_free keeps the invariant.
LEMMA FreeInv ==
    ASSUME IInv, NEW ptr \in DOMAIN live, mm_free(ptr)
    PROVE  IInv'
<1> DEFINE b == ptr - BLK_HDR_SIZE
<1>1. b \in blocks /\ Used(b)
  BY DEF IInv, LiveInUsedBlocks
<1>2. /\ blocks' = blocks
      /\ size' \in [blocks -> Nat]
      /\ next_p' \in [blocks -> blocks \cup {NULL}]
      /\ prior_p' \in [blocks -> blocks \cup {NULL}]
      /\ \A c \in blocks : Sz(c)' = Sz(c)
      /\ \A c \in blocks \ {b} : Used(c)' <=> Used(c)
      /\ ~Used(b)'
      /\ LinksInverse'
  BY <1>1, FreeBlockFacts DEF mm_free
<1>3. DOMAIN live' = DOMAIN live \ {ptr} /\ \A q \in DOMAIN live' : live'[q] = live[q]
  BY DEF mm_free, Without
<1>4. TypeOK'
  <2>1. live' \in [DOMAIN live' -> Sizes]
    BY DEF IInv, TypeOK, mm_free, Without
  <2>2. call' \in [ptr : DOMAIN live' \cup {NULL}, size : Sizes \cup {0}]
    BY DEF IInv, CallConsistent, mm_free, NoCall
  <2> QED
    BY <1>2, <1>3, <2>1, <2>2 DEF mm_free, IInv, TypeOK
<1>5. BlocksDisjoint'
  <2>1. ~Used(HEAD)'
    BY HeadIsFree, <1>1, <1>2
  <2> QED
    BY <1>2, <2>1, SameGeometry DEF mm_free
<1>6. LiveInUsedBlocks'
  <2> SUFFICES ASSUME NEW q \in DOMAIN live'
               PROVE  /\ q - BLK_HDR_SIZE \in blocks
                      /\ Used(q - BLK_HDR_SIZE)'
                      /\ BLK_HDR_SIZE + live'[q] <= Sz(q - BLK_HDR_SIZE)'
    BY <1>2 DEF LiveInUsedBlocks
  <2>1. q - BLK_HDR_SIZE # b
    BY <1>3, MemLibConstants, HeaderFits, SMT DEF IInv, TypeOK, MemLibConstants, HeaderFits
  <2> QED
    BY <1>2, <1>3, <2>1 DEF IInv, LiveInUsedBlocks
<1>7. CallConsistent'
  BY DEF mm_free, IInv, CallConsistent
<1> QED
  BY <1>2, <1>4, <1>5, <1>6, <1>7 DEF IInv

\* mm_malloc returning a used block b that no live payload occupies.
LEMMA ObtainedFacts ==
    ASSUME IInv, pc = "find_fit", NEW b \in blocks', b \in Nat,
           Obtained(b), Used(b)', b + BLK_HDR_SIZE \notin DOMAIN live,
           BLK_HDR_SIZE + call.size <= Sz(b)',
           b + BLK_HDR_SIZE \in 0 .. MAX_HEAP,
           blocks \subseteq blocks', HEAD \in blocks',
           \A c \in blocks : Sz(c)' = Sz(c) /\ (Used(c) => Used(c)')
    PROVE  /\ DOMAIN live' \subseteq 0 .. MAX_HEAP
           /\ live' \in [DOMAIN live' -> Sizes]
           /\ pc' \in {"idle", "find_fit", "copy"}
           /\ call' \in [ptr : DOMAIN live' \cup {NULL}, size : Sizes \cup {0}]
           /\ bp' \in blocks'
           /\ LiveInUsedBlocks'
           /\ CallConsistent'
<1>1. call.size \in Sizes
  BY DEF IInv, CallConsistent
<1>2. \A q \in DOMAIN live :
         /\ q - BLK_HDR_SIZE \in blocks'
         /\ Used(q - BLK_HDR_SIZE)'
         /\ BLK_HDR_SIZE + live[q] <= Sz(q - BLK_HDR_SIZE)'
  BY DEF IInv, LiveInUsedBlocks
<1>3. CASE call.ptr = NULL
  <2>1. live' = With(live, b + BLK_HDR_SIZE, call.size) /\ Back
    BY <1>3 DEF Obtained
  <2>2. /\ DOMAIN live' = DOMAIN live \cup {b + BLK_HDR_SIZE}
        /\ live'[b + BLK_HDR_SIZE] = call.size
        /\ \A q \in DOMAIN live : live'[q] = live[q]
    BY <2>1 DEF With
  <2>3. live' \in [DOMAIN live' -> Sizes] /\ DOMAIN live' \subseteq 0 .. MAX_HEAP
    BY <1>1, <2>1, <2>2 DEF With, IInv, TypeOK
  <2>4. LiveInUsedBlocks'
    <3> SUFFICES ASSUME NEW q \in DOMAIN live'
                 PROVE  /\ q - BLK_HDR_SIZE \in blocks'
                        /\ Used(q - BLK_HDR_SIZE)'
                        /\ BLK_HDR_SIZE + live'[q] <= Sz(q - BLK_HDR_SIZE)'
      BY DEF LiveInUsedBlocks
    <3>1. CASE q \in DOMAIN live
      BY <1>2, <2>2, <3>1
    <3>2. CASE q = b + BLK_HDR_SIZE
      <4>1. q - BLK_HDR_SIZE = b
        BY <3>2, MemLibConstants, HeaderFits, SMT DEF MemLibConstants, HeaderFits
      <4> QED
        BY <2>2, <3>2, <4>1 DEF Used, Sz
    <3> QED
      BY <2>2, <3>1, <3>2
  <2> QED
    BY <2>1, <2>3, <2>4 DEF Back, NoCall, CallConsistent
<1>4. CASE call.ptr # NULL
  <2>1. pc' = "copy" /\ bp' = b /\ UNCHANGED <<call, live>>
    BY <1>4 DEF Obtained
  <2>2. LiveInUsedBlocks'
    BY <1>2, <2>1 DEF LiveInUsedBlocks
  <2>3. CallConsistent'
    BY <1>1, <1>4, <2>1 DEF CallConsistent
  <2> QED
    BY <2>1, <2>2, <2>3 DEF IInv, TypeOK
<1> QED
  BY <1>3, <1>4

\* mm_malloc taking a block off the free list keeps the invariant.
LEMMA TakeFitInv ==
    ASSUME IInv, TakeFit
    PROVE  IInv'
<1> PICK b : b = bp
  OBVIOUS
<1>1. b \in FreeNodes /\ b \in blocks /\ ~Used(b) /\ b # HEAD
  BY DEF TakeFit, IInv, CallConsistent, FreeNodes
<1>2. size' = [size EXCEPT ![b] = Sz(b) + 1] /\ 1 \in {0, 1}
  BY DEF TakeFit
<1>3. /\ blocks' = blocks
      /\ size' \in [blocks -> Nat]
      /\ \A c \in blocks : Sz(c)' = Sz(c)
      /\ \A c \in blocks \ {b} : Used(c)' <=> Used(c)
      /\ Used(b)'
  BY <1>1, <1>2, MarkFacts
<1>4. FreeNodes' = FreeNodes \ {b}
  BY <1>3 DEF FreeNodes
<1>5. HEAD \in blocks /\ ~Used(HEAD)'
  BY HeadIsFree, <1>1, <1>3
<1>6. /\ next_p \in [blocks -> blocks \cup {NULL}]
      /\ prior_p \in [blocks -> blocks \cup {NULL}]
      /\ FreeNodes \subseteq blocks
      /\ \A d \in FreeNodes :
          /\ next_p[d] \in FreeNodes /\ prior_p[d] \in FreeNodes
          /\ prior_p[next_p[d]] = d /\ next_p[prior_p[d]] = d
  BY DEF IInv, TypeOK, LinksInverse, FreeNodes
<1>7. /\ next_p' = [next_p EXCEPT ![prior_p[b]] = next_p[b]]
      /\ prior_p' = [prior_p EXCEPT ![next_p[b]] = prior_p[b]]
  BY DEF TakeFit
<1>8. /\ next_p' \in [blocks -> blocks \cup {NULL}]
      /\ prior_p' \in [blocks -> blocks \cup {NULL}]
  BY <1>1, <1>6, <1>7
<1>9. LinksInverse'
  <2> SUFFICES ASSUME NEW c \in FreeNodes'
               PROVE  /\ next_p'[c] \in FreeNodes' /\ prior_p'[c] \in FreeNodes'
                      /\ prior_p'[next_p'[c]] = c
                      /\ next_p'[prior_p'[c]] = c
    BY DEF LinksInverse
  <2>1. \A d \in blocks :
          /\ next_p'[d] = IF d = prior_p[b] THEN next_p[b] ELSE next_p[d]
          /\ prior_p'[d] = IF d = next_p[b] THEN prior_p[b] ELSE prior_p[d]
    BY <1>6, <1>7
  <2> QED
    BY <1>1, <1>4, <1>6, <2>1
<1>10. BlocksDisjoint'
  BY <1>3, <1>5, SameGeometry DEF TakeFit
<1>11. b + BLK_HDR_SIZE \notin DOMAIN live
  <2> SUFFICES ASSUME b + BLK_HDR_SIZE \in DOMAIN live PROVE FALSE
    OBVIOUS
  <2>1. Used((b + BLK_HDR_SIZE) - BLK_HDR_SIZE)
    BY DEF IInv, LiveInUsedBlocks
  <2>2. (b + BLK_HDR_SIZE) - BLK_HDR_SIZE = b
    BY <1>1, BlockFacts, MemLibConstants, HeaderFits, SMT DEF MemLibConstants, HeaderFits
  <2> QED
    BY <1>1, <2>1, <2>2
<1>12. BLK_HDR_SIZE + call.size <= Sz(b)
  <2>1. newsize \in Int /\ size[b] \in Nat /\ size[b] = Sz(b) /\ pc # "idle"
    BY <1>1, BlockFacts, NewsizeFacts DEF TakeFit
  <2>2. ~(newsize < 0 \/ size[b] < newsize)
    BY DEF TakeFit, TooSmall
  <2>3. BLK_HDR_SIZE + call.size <= newsize /\ BLK_HDR_SIZE + call.size \in Int
    <3>1. newsize >= 0
      BY <2>1, <2>2, SMT
    <3>3. BLK_HDR_SIZE + call.size \in Int
      BY <2>1, CallSize
    <3> QED
      BY <2>1, <3>1, <3>3, NewsizeFacts
  <2> HIDE DEF newsize
  <2> QED
    BY <2>1, <2>2, <2>3, SMT
<1>13. b \in Nat /\ b + BLK_HDR_SIZE \in 0 .. MAX_HEAP
  BY <1>1, BlockFacts, MemLibConstants, HeaderFits, SMT DEF MemLibConstants, HeaderFits
<1>14. /\ DOMAIN live' \subseteq 0 .. MAX_HEAP
       /\ live' \in [DOMAIN live' -> Sizes]
       /\ pc' \in {"idle", "find_fit", "copy"}
       /\ call' \in [ptr : DOMAIN live' \cup {NULL}, size : Sizes \cup {0}]
       /\ bp' \in blocks'
       /\ LiveInUsedBlocks'
       /\ CallConsistent'
  BY <1>1, <1>3, <1>5, <1>11, <1>12, <1>13, ObtainedFacts DEF TakeFit
<1>15. TypeOK'
  BY <1>3, <1>8, <1>14 DEF TakeFit, IInv, TypeOK
<1> QED
  BY <1>9, <1>10, <1>14, <1>15 DEF IInv

\* mm_malloc extending the heap by a new block keeps the invariant.
LEMMA ExtendHeapInv ==
    ASSUME IInv, ExtendHeap
    PROVE  IInv'
<1> PICK b : b = brk
  OBVIOUS
<1> PICK n : n = newsize
  OBVIOUS
<1>1. /\ n \in Nat /\ n % ALIGNMENT = 0 /\ n % 2 = 0
      /\ BLK_HDR_SIZE + call.size <= n
      /\ call.size \in Nat \ {0}
      /\ brk' = b + n /\ b + n <= MAX_HEAP
      /\ BLK_HDR_SIZE \in Nat \ {0} /\ MAX_HEAP \in Nat
  <2>1. newsize \in Int /\ ~(newsize < 0 \/ brk + newsize > MAX_HEAP)
    BY NewsizeFacts DEF ExtendHeap, mem_sbrk, mem_sbrk_fails
  <2>2. brk \in Nat /\ MAX_HEAP \in Nat /\ BLK_HDR_SIZE \in Nat \ {0}
    BY MemLibConstants, HeaderFits, SMT DEF IInv, TypeOK, MemLibConstants, HeaderFits
  <2>3. newsize >= 0 /\ brk + newsize <= MAX_HEAP /\ newsize \in Nat
    BY <2>1, <2>2, SMT
  <2>4. newsize % ALIGNMENT = 0 /\ newsize % 2 = 0
        /\ BLK_HDR_SIZE + call.size <= newsize
    BY <2>3, NewsizeFacts DEF ExtendHeap
  <2>5. call.size \in Nat \ {0}
    BY CallSize DEF ExtendHeap
  <2> QED
    BY <2>2, <2>3, <2>4, <2>5 DEF ExtendHeap, mem_sbrk
<1>2. /\ b \in Nat /\ b % ALIGNMENT = 0 /\ HEAD \in blocks
      /\ \A c \in blocks : c + Sz(c) <= b /\ c < b /\ c # b
  <2>1. b \in Nat /\ b % ALIGNMENT = 0
    BY MemLibConstants, HeaderFits, SMT DEF IInv, TypeOK, BlocksDisjoint, MemLibConstants, HeaderFits
  <2>2. \A c \in blocks : c + Sz(c) <= b /\ c < b /\ c \in Nat
    BY BlockFacts
  <2> QED
    BY <2>1, <2>2, HeadIsFree, SMT
<1>3. /\ blocks' = blocks \cup {b}
      /\ size' \in [blocks' -> Nat] /\ size'[b] = n + 1
      /\ next_p' \in [blocks' -> blocks' \cup {NULL}]
      /\ prior_p' \in [blocks' -> blocks' \cup {NULL}]
      /\ \A c \in blocks : /\ size'[c] = size[c]
                           /\ next_p'[c] = next_p[c]
                           /\ prior_p'[c] = prior_p[c]
  <2>1. /\ size' = With(size, b, n + 1) /\ next_p' = With(next_p, b, NULL)
        /\ prior_p' = With(prior_p, b, NULL)
    BY DEF ExtendHeap
  <2>2. /\ size \in [blocks -> Nat] /\ next_p \in [blocks -> blocks \cup {NULL}]
        /\ prior_p \in [blocks -> blocks \cup {NULL}]
    BY DEF IInv, TypeOK
  <2>3. n + 1 \in Nat
    BY <1>1
  <2>4. blocks' = blocks \cup {b}
    BY <2>1 DEF With, blocks
  <2> HIDE DEF blocks
  <2> QED
    BY <1>2, <2>1, <2>2, <2>3, <2>4 DEF With
<1>4. \A c \in blocks : Sz(c)' = Sz(c) /\ (Used(c)' <=> Used(c))
  BY <1>3 DEF Sz, Used
<1>5. Sz(b)' = n /\ Used(b)'
  <2>1. (n + 1) % 2 = 1
    BY <1>1, BitFacts
  <2> QED
    BY <1>1, <1>3, <2>1, SMT DEF Sz, Used
<1>6. BlocksDisjoint'
  <2>1. HEAD \in blocks' /\ size'[HEAD] = BLK_HDR_SIZE
    BY <1>2, <1>3 DEF IInv, BlocksDisjoint
  <2>2. brk' % ALIGNMENT = 0
    <3>0. b \in Int /\ n \in Int /\ b % ALIGNMENT = 0 /\ n % ALIGNMENT = 0
      BY <1>1, <1>2, SMT
    <3>1. (b + n) % ALIGNMENT = 0
      BY <3>0, AlignedSum
    <3> QED
      BY <1>1, <3>1
  <2>3. ASSUME NEW c \in blocks'
        PROVE  /\ c % ALIGNMENT = 0 /\ Sz(c)' % ALIGNMENT = 0
               /\ BLK_HDR_SIZE <= Sz(c)' /\ c + Sz(c)' <= brk'
               /\ \A d \in blocks' : c < d => c + Sz(c)' <= d
    <3>1. CASE c = b
      BY <1>1, <1>2, <1>3, <1>5, <3>1, SMT
    <3>2. CASE c \in blocks
      <4>1. /\ c % ALIGNMENT = 0 /\ Sz(c) % ALIGNMENT = 0
            /\ BLK_HDR_SIZE <= Sz(c) /\ c + Sz(c) <= brk
            /\ \A d \in blocks : c < d => c + Sz(c) <= d
        BY <3>2 DEF IInv, BlocksDisjoint
      <4>2. Sz(c)' = Sz(c) /\ Sz(c) \in Nat /\ c \in Nat
        BY <1>4, <3>2, BlockFacts
      <4>3. c + Sz(c) <= b
        BY <1>2, <3>2
      <4>4. c + Sz(c) <= brk'
        BY <1>1, <1>2, <4>2, <4>3, SMT
      <4> QED
        BY <1>3, <4>1, <4>2, <4>3, <4>4
    <3> QED
      BY <1>3, <3>1, <3>2
  <2> QED
    BY <2>1, <2>2, <2>3 DEF BlocksDisjoint
<1>7. LinksInverse'
  <2>1. FreeNodes' = FreeNodes /\ FreeNodes \subseteq blocks
    BY <1>3, <1>4, <1>5 DEF FreeNodes
  <2> QED
    BY <1>3, <2>1 DEF IInv, LinksInverse
<1>8. b + BLK_HDR_SIZE \notin DOMAIN live
  <2> SUFFICES ASSUME b + BLK_HDR_SIZE \in DOMAIN live PROVE FALSE
    OBVIOUS
  <2>1. (b + BLK_HDR_SIZE) - BLK_HDR_SIZE \in blocks
    BY DEF IInv, LiveInUsedBlocks
  <2>2. (b + BLK_HDR_SIZE) - BLK_HDR_SIZE = b
    BY <1>1, <1>2, SMT
  <2> QED
    BY <1>2, <2>1, <2>2
<1>9. b + BLK_HDR_SIZE \in 0 .. MAX_HEAP /\ b + n \in Nat
  BY <1>1, <1>2, SMT
<1>10. /\ DOMAIN live' \subseteq 0 .. MAX_HEAP
       /\ live' \in [DOMAIN live' -> Sizes]
       /\ pc' \in {"idle", "find_fit", "copy"}
       /\ call' \in [ptr : DOMAIN live' \cup {NULL}, size : Sizes \cup {0}]
       /\ bp' \in blocks'
       /\ LiveInUsedBlocks'
       /\ CallConsistent'
  BY <1>1, <1>2, <1>3, <1>4, <1>5, <1>8, <1>9, ObtainedFacts DEF ExtendHeap
<1>11. TypeOK'
  <2>1. brk' \in BLK_HDR_SIZE .. MAX_HEAP
    BY <1>1, <1>2, <1>9, SMT DEF IInv, TypeOK
  <2>2. blocks' \subseteq 0 .. MAX_HEAP
    BY <1>1, <1>2, <1>3, SMT DEF IInv, TypeOK
  <2> QED
    BY <1>3, <1>10, <2>1, <2>2 DEF ExtendHeap, IInv, TypeOK
<1> QED
  BY <1>6, <1>7, <1>10, <1>11 DEF IInv

\* The copy and the free at the end of mm_realloc keep the invariant.
LEMMA CopyAndFreeInv ==
    ASSUME IInv, CopyAndFree
    PROVE  IInv'
<1> PICK nb : nb = bp
  OBVIOUS
<1> PICK ptr : ptr = call.ptr
  OBVIOUS
<1> PICK n : n = call.size
  OBVIOUS
<1> DEFINE b == ptr - BLK_HDR_SIZE
<1> DEFINE newptr == nb + BLK_HDR_SIZE
<1>1. /\ pc = "copy" /\ n \in Sizes /\ ptr \in DOMAIN live
      /\ nb \in blocks /\ Used(nb) /\ newptr \notin DOMAIN live
      /\ BLK_HDR_SIZE + n <= Sz(nb)
  BY DEF CopyAndFree, IInv, TypeOK, CallConsistent
<1>2. b \in blocks /\ Used(b) /\ BLK_HDR_SIZE + live[ptr] <= Sz(b)
  BY <1>1 DEF IInv, LiveInUsedBlocks
<1>3. FreeBlock(b)
  BY DEF CopyAndFree
<1>4. /\ BLK_HDR_SIZE \in Nat /\ n \in Nat /\ ptr \in Int /\ b \in Nat
      /\ nb \in Nat /\ Sz(nb) \in Nat /\ nb + Sz(nb) <= MAX_HEAP
      /\ MAX_HEAP \in Nat
  <2>1. ptr \in 0 .. MAX_HEAP /\ n \in 1 .. INT_MAX
    BY <1>1, MemLibConstants, HeaderFits DEF IInv, TypeOK, MemLibConstants, HeaderFits
  <2>2. BLK_HDR_SIZE \in Nat /\ MAX_HEAP \in Nat /\ INT_MAX \in Nat
    BY MemLibConstants, HeaderFits DEF MemLibConstants, HeaderFits
  <2>3. b \in Nat /\ nb \in Nat /\ Sz(nb) \in Nat /\ nb + Sz(nb) <= brk
        /\ brk \in Nat /\ brk <= MAX_HEAP
    BY <1>1, <1>2, BlockFacts
  <2> QED
    BY <2>1, <2>2, <2>3, SMT
<1>5. /\ blocks' = blocks
      /\ size' \in [blocks -> Nat]
      /\ next_p' \in [blocks -> blocks \cup {NULL}]
      /\ prior_p' \in [blocks -> blocks \cup {NULL}]
      /\ \A c \in blocks : Sz(c)' = Sz(c)
      /\ \A c \in blocks \ {b} : Used(c)' <=> Used(c)
      /\ ~Used(b)'
      /\ LinksInverse'
  BY <1>2, <1>3, FreeBlockFacts
<1>6. nb # b
  BY <1>1, <1>4, SMT
<1>7. /\ DOMAIN live' = (DOMAIN live \ {ptr}) \cup {newptr}
      /\ live'[newptr] = n
      /\ \A q \in DOMAIN live \ {ptr} : live'[q] = live[q]
  BY <1>1 DEF CopyAndFree, With, Without
<1>8. mem' \in [0 .. MAX_HEAP -> Byte]
  <2>1. mem \in [0 .. MAX_HEAP -> Byte] /\ DOMAIN mem = 0 .. MAX_HEAP
    BY DEF IInv, TypeOK
  <2>2. copySize \in Int /\ ptr + copySize <= MAX_HEAP + 1
    <3>1. size[b] \in Nat /\ Sz(b) \in Nat /\ b + Sz(b) <= brk
          /\ size[b] <= Sz(b) + 1 /\ brk <= MAX_HEAP /\ brk \in Nat
      BY <1>2, BlockFacts
    <3>2. copySize = IF n < size[b] - BLK_HDR_SIZE THEN n ELSE size[b] - BLK_HDR_SIZE
      BY DEF copySize
    <3> QED
      BY <1>4, <3>1, <3>2, SMT
  <2>3. ASSUME NEW a \in 0 .. MAX_HEAP, a \in newptr .. newptr + copySize - 1
        PROVE  ptr + (a - newptr) \in 0 .. MAX_HEAP
    BY <1>4, <2>2, <2>3, SMT
  <2>4. mem' = [a \in DOMAIN mem |->
                  IF a \in newptr .. newptr + copySize - 1
                  THEN mem[ptr + (a - newptr)] ELSE mem[a]]
    BY DEF CopyAndFree, memcpy
  <2> HIDE DEF newptr, copySize
  <2> QED
    BY <2>1, <2>3, <2>4
<1>9. TypeOK'
  <2>1. live' \in [DOMAIN live' -> Sizes]
    BY <1>1, <1>7 DEF CopyAndFree, With, IInv, TypeOK
  <2>2. DOMAIN live' \subseteq 0 .. MAX_HEAP
    <3>1. newptr \in 0 .. MAX_HEAP
      BY <1>1, <1>4, SMT
    <3> QED
      BY <1>7, <3>1 DEF IInv, TypeOK
  <2>3. call' \in [ptr : DOMAIN live' \cup {NULL}, size : Sizes \cup {0}]
    BY DEF CopyAndFree, Back, NoCall
  <2>4. HEAD \in blocks'
    BY <1>5, HeadIsFree
  <2> QED
    BY <1>5, <1>8, <2>1, <2>2, <2>3, <2>4 DEF CopyAndFree, Back, IInv, TypeOK
<1>10. BlocksDisjoint'
  <2>1. ~Used(HEAD)'
    BY HeadIsFree, <1>2, <1>5
  <2> QED
    BY <1>5, <2>1, SameGeometry DEF CopyAndFree
<1>11. LiveInUsedBlocks'
  <2> SUFFICES ASSUME NEW q \in DOMAIN live'
               PROVE  /\ q - BLK_HDR_SIZE \in blocks
                      /\ Used(q - BLK_HDR_SIZE)'
                      /\ BLK_HDR_SIZE + live'[q] <= Sz(q - BLK_HDR_SIZE)'
    BY <1>5 DEF LiveInUsedBlocks
  <2>1. CASE q = newptr
    <3>1. q - BLK_HDR_SIZE = nb
      BY <1>4, <2>1, SMT
    <3>2. Used(nb)' /\ Sz(nb)' = Sz(nb)
      BY <1>1, <1>5, <1>6
    <3> QED
      BY <1>1, <1>7, <2>1, <3>1, <3>2 DEF Used, Sz
  <2>2. CASE q \in DOMAIN live \ {ptr}
    <3>1. q - BLK_HDR_SIZE # b
      BY <1>4, <2>2, SMT DEF IInv, TypeOK
    <3> QED
      BY <1>5, <1>7, <2>2, <3>1 DEF IInv, LiveInUsedBlocks
  <2> QED
    BY <1>7, <2>1, <2>2
<1>12. CallConsistent'
  BY DEF CopyAndFree, Back, CallConsistent
<1> QED
  BY <1>5, <1>9, <1>10, <1>11, <1>12 DEF IInv

\* Every step of the allocator and of its caller keeps the invariant.
LEMMA StepInv == IInv /\ [Next]_vars => IInv'
<1> SUFFICES ASSUME IInv, [Next]_vars PROVE IInv'
  OBVIOUS
<1>1. ASSUME NEW n \in Sizes, mm_malloc(n) PROVE IInv'
  BY <1>1, EnterMallocInv DEF mm_malloc
<1>2. ASSUME NEW p \in DOMAIN live, mm_free(p) PROVE IInv'
  BY <1>2, FreeInv
<1>3. ASSUME NEW p \in DOMAIN live, NEW n \in Sizes, mm_realloc(p, n) PROVE IInv'
  BY <1>3, EnterMallocInv DEF mm_realloc
<1>4. ASSUME NEW p \in DOMAIN live, NEW i \in 0 .. live[p] - 1, NEW v \in Byte,
             Store(p, i, v)
      PROVE  IInv'
  BY <1>4, StoreInv
<1>5. CASE FindNext
  BY <1>5, FindNextInv
<1>6. CASE TakeFit
  BY <1>6, TakeFitInv
<1>7. CASE ExtendHeap
  BY <1>7, ExtendHeapInv
<1>8. CASE OutOfMemory
  BY <1>8, OutOfMemoryInv
<1>9. CASE CopyAndFree
  BY <1>9, CopyAndFreeInv
<1>10. CASE UNCHANGED vars
  <2>1. /\ blocks' = blocks /\ FreeNodes' = FreeNodes
        /\ BlocksDisjoint' /\ LinksInverse'
        /\ \A c : (Sz(c)' = Sz(c)) /\ (Used(c)' <=> Used(c))
    BY <1>10, HeapUnchanged DEF vars
  <2> QED
    BY <1>10, <2>1 DEF vars, IInv, TypeOK, LiveInUsedBlocks, CallConsistent
<1> QED
  BY <1>1, <1>2, <1>3, <1>4, <1>5, <1>6, <1>7, <1>8, <1>9, <1>10
  DEF Next, Caller, Package

-----------------------------------------------------------------------------

\* The invariant is enough for the payloads: blocks are apart, and each payload
\* is in a block of its own that is large enough for it.
LEMMA LivePayloads == ASSUME IInv PROVE PayloadsSafe
<1> SUFFICES ASSUME NEW p \in DOMAIN live
             PROVE  /\ p % ALIGNMENT = 0
                    /\ p + live[p] <= brk
                    /\ \A q \in DOMAIN live : p < q => p + live[p] <= q
                    /\ \A b \in blocks : p + live[p] <= b \/ b + BLK_HDR_SIZE <= p
  BY DEF PayloadsSafe
<1> DEFINE pb == p - BLK_HDR_SIZE
<1>1. /\ BLK_HDR_SIZE \in Nat \ {0} /\ BLK_HDR_SIZE % ALIGNMENT = 0
      /\ INT_MAX \in Nat /\ Sizes \subseteq 1 .. INT_MAX
      /\ MAX_HEAP \in Nat
  BY MemLibConstants, HeaderFits DEF MemLibConstants, HeaderFits
<1>2. ASSUME NEW q \in DOMAIN live
      PROVE  /\ q \in Nat /\ live[q] \in Nat
             /\ q - BLK_HDR_SIZE \in blocks
             /\ BLK_HDR_SIZE + live[q] <= Sz(q - BLK_HDR_SIZE)
             /\ Sz(q - BLK_HDR_SIZE) \in Nat
             /\ (q - BLK_HDR_SIZE) + Sz(q - BLK_HDR_SIZE) <= brk
             /\ brk \in Nat
             /\ (q - BLK_HDR_SIZE) % ALIGNMENT = 0
  <2>1. q - BLK_HDR_SIZE \in blocks
        /\ BLK_HDR_SIZE + live[q] <= Sz(q - BLK_HDR_SIZE)
    BY DEF IInv, LiveInUsedBlocks
  <2>2. q \in 0 .. MAX_HEAP /\ live[q] \in 1 .. INT_MAX
    BY <1>1 DEF IInv, TypeOK
  <2>3. q \in Nat /\ live[q] \in Nat
    BY <1>1, <2>2, SMT
  <2> QED
    BY <2>1, <2>3, BlockFacts
<1>3. \A b, c \in blocks : b < c => b + Sz(b) <= c
  BY DEF IInv, BlocksDisjoint
<1>4. p % ALIGNMENT = 0
  <2>1. (pb + BLK_HDR_SIZE) % ALIGNMENT = 0
    BY <1>1, <1>2, AlignedSum
  <2>2. pb + BLK_HDR_SIZE = p
    BY <1>1, <1>2, SMT
  <2> QED
    BY <2>1, <2>2
<1>5. p + live[p] <= brk
  BY <1>1, <1>2, SMT
<1>6. ASSUME NEW q \in DOMAIN live, p < q PROVE p + live[p] <= q
  <2>1. pb < q - BLK_HDR_SIZE
    BY <1>1, <1>2, <1>6, SMT
  <2>2. pb + Sz(pb) <= q - BLK_HDR_SIZE
    BY <1>2, <1>3, <2>1
  <2> QED
    BY <1>1, <1>2, <2>2, SMT
<1>7. ASSUME NEW b \in blocks PROVE p + live[p] <= b \/ b + BLK_HDR_SIZE <= p
  <2>1. b \in Nat /\ Sz(b) \in Nat /\ pb \in blocks /\ pb \in Nat
    BY <1>2, BlockFacts
  <2>2. CASE b <= pb
    BY <1>1, <1>2, <2>1, <2>2, SMT
  <2>3. CASE pb < b
    <3>1. pb + Sz(pb) <= b
      BY <1>3, <2>1, <2>3
    <3> QED
      BY <1>1, <1>2, <2>1, <3>1, SMT
  <2> QED
    BY <1>1, <1>2, <2>1, <2>2, <2>3, SMT
<1> QED
  BY <1>4, <1>5, <1>6, <1>7

\* The inductive invariant holds for every heap size, header size and
\* alignment: blocks tile the heap without overlap, the free list is a doubly
\* linked circle of free blocks, and every live payload fits in its block.
THEOREM Invariant == Spec => []IInv
<1>1. IInv /\ [Next]_vars => IInv'
  BY StepInv
<1> QED
  BY InitInv, <1>1, PTL DEF Spec

\* Type correctness of the allocator.
THEOREM TypeCorrect == Spec => []TypeOK
<1>1. IInv => TypeOK
  BY DEF IInv
<1> QED
  BY Invariant, <1>1, PTL

\* mm_malloc, mm_realloc and mm_free keep the caller's payloads aligned, inside
\* the heap, and disjoint from each other and from every header.
THEOREM PayloadSafety == Spec => []PayloadsSafe
<1>1. IInv => PayloadsSafe
  BY LivePayloads
<1> QED
  BY Invariant, <1>1, PTL

-----------------------------------------------------------------------------
(* mm-explicit.c implements HeapSpec: the free list, the headers and the      *)
(* steps of a search are invisible to the caller.                             *)

\* What holds of the payloads before a step holds of them after it.
LEMMA NextPayloads == IInv' => PayloadsSafe'
<1>1. IInv => PayloadsSafe
  BY LivePayloads
<1> QED
  BY <1>1, PTL

\* What the invariant says of one live payload.
LEMMA PayloadFacts ==
    ASSUME IInv, NEW p \in DOMAIN live
    PROVE  /\ p \in Nat /\ live[p] \in Nat \ {0} /\ live[p] \in Sizes
           /\ p + live[p] <= brk /\ brk \in Nat /\ brk <= MAX_HEAP /\ MAX_HEAP \in Nat
           /\ BLK_HDR_SIZE \in Nat \ {0}
           /\ p - BLK_HDR_SIZE \in blocks /\ Used(p - BLK_HDR_SIZE)
<1>1. /\ p \in 0 .. MAX_HEAP /\ live[p] \in Sizes /\ brk \in BLK_HDR_SIZE .. MAX_HEAP
      /\ p - BLK_HDR_SIZE \in blocks /\ Used(p - BLK_HDR_SIZE)
  BY DEF IInv, TypeOK, LiveInUsedBlocks
<1>2. /\ Sizes \subseteq 1 .. INT_MAX /\ INT_MAX \in Nat /\ MAX_HEAP \in Nat
      /\ BLK_HDR_SIZE \in Nat \ {0}
  BY MemLibConstants, HeaderFits DEF MemLibConstants, HeaderFits
<1>3. p + live[p] <= brk
  BY LivePayloads DEF PayloadsSafe
<1>4. live[p] \in 1 .. INT_MAX
  BY <1>1, <1>2
<1> QED
  BY <1>1, <1>2, <1>3, <1>4, SMT

\* The conjuncts of the invariant that a step to it establishes.
LEMMA NextFacts ==
    ASSUME IInv'
    PROVE  /\ brk' \in Nat /\ brk' <= MAX_HEAP /\ MAX_HEAP \in Nat
           /\ mem' \in [0 .. MAX_HEAP -> Byte]
           /\ DOMAIN live' \subseteq 0 .. MAX_HEAP
           /\ live' \in [DOMAIN live' -> Sizes]
           /\ BLK_HDR_SIZE \in Nat \ {0} /\ Sizes \subseteq 1 .. INT_MAX /\ INT_MAX \in Nat
<1>1. /\ MAX_HEAP \in Nat /\ BLK_HDR_SIZE \in Nat \ {0} /\ Sizes \subseteq 1 .. INT_MAX
      /\ INT_MAX \in Nat
  BY MemLibConstants, HeaderFits DEF MemLibConstants, HeaderFits
<1>2. brk' \in BLK_HDR_SIZE .. MAX_HEAP
  BY DEF IInv, TypeOK
<1>3. /\ mem' \in [0 .. MAX_HEAP -> Byte] /\ DOMAIN live' \subseteq 0 .. MAX_HEAP
      /\ live' \in [DOMAIN live' -> Sizes]
  BY DEF IInv, TypeOK
<1> QED
  BY <1>1, <1>2, <1>3, SMT

\* A payload that mm_malloc or mm_realloc returns is where HeapSpec allows it:
\* K are the payloads that stay.
LEMMA Placement ==
    ASSUME IInv', NEW q \in DOMAIN live', brk \in Nat, brk <= brk',
           NEW K \in SUBSET DOMAIN live, DOMAIN live' = K \cup {q}, q \notin K,
           \A r \in K : live'[r] = live[r]
    PROVE  /\ q \in 0 .. MAX_HEAP - 1
           /\ Heap!Placed(q, live'[q])
           /\ \A r \in K : Heap!Apart(q, live'[q], r, live[r])
<1> PICK lv : lv = live'
  OBVIOUS
<1>1. /\ brk' \in Nat /\ brk' <= MAX_HEAP /\ MAX_HEAP \in Nat
      /\ lv \in [DOMAIN lv -> 1 .. INT_MAX] /\ DOMAIN lv \subseteq 0 .. MAX_HEAP /\ INT_MAX \in Nat
  BY NextFacts
<1>2. /\ \A p \in DOMAIN lv : /\ p % ALIGNMENT = 0 /\ p + lv[p] <= brk'
                              /\ \A r \in DOMAIN lv : p < r => p + lv[p] <= r
  BY NextPayloads DEF PayloadsSafe
<1>3. q \in 0 .. MAX_HEAP /\ lv[q] \in 1 .. INT_MAX /\ q + lv[q] <= brk' /\ q % ALIGNMENT = 0
  BY <1>1, <1>2
<1>4. q \in 0 .. MAX_HEAP - 1 /\ brk' \in brk .. MAX_HEAP
  BY <1>1, <1>3, SMT
<1>5. ASSUME NEW r \in K PROVE q + lv[q] <= r \/ r + lv[r] <= q
  <2>1. r \in DOMAIN lv /\ r # q /\ r \in 0 .. MAX_HEAP
    BY <1>1
  <2>2. q < r \/ r < q
    BY <1>1, <1>3, <2>1, SMT
  <2> QED
    BY <1>2, <2>1, <2>2
<1> QED
  BY <1>3, <1>4, <1>5 DEF Heap!Placed, Heap!Apart

\* A payload of n bytes at q joins the caller's: what mm_malloc does for it when
\* it takes a free block, and when it extends the heap.
LEMMA NewPayload ==
    ASSUME IInv, IInv', NEW q \in Nat, q \notin DOMAIN live, NEW n \in Sizes,
           live' = With(live, q, n), mem' = mem, brk <= brk'
    PROVE  Heap!Malloc(n)
<1>1. /\ DOMAIN live' = DOMAIN live \cup {q} /\ live'[q] = n
      /\ \A r \in DOMAIN live : live'[r] = live[r]
      /\ live' = Heap!With(live, q, n)
  BY DEF With, Heap!With
<1>2. brk \in Nat
  BY MemLibConstants, HeaderFits, SMT DEF IInv, TypeOK, MemLibConstants, HeaderFits
<1>3. /\ q \in 0 .. MAX_HEAP - 1
      /\ Heap!Placed(q, n)
      /\ \A r \in DOMAIN live : Heap!Apart(q, n, r, live[r])
  <2>1. /\ q \in 0 .. MAX_HEAP - 1
        /\ Heap!Placed(q, live'[q])
        /\ \A r \in DOMAIN live : Heap!Apart(q, live'[q], r, live[r])
    BY <1>1, <1>2, Placement
  <2> QED
    BY <1>1, <2>1
<1> DEFINE d == [i \in 0 .. n - 1 |-> mem[q + i]]
<1>4. d \in [0 .. n - 1 -> Byte]
  <2>1. n \in 1 .. INT_MAX /\ INT_MAX \in Nat /\ MAX_HEAP \in Nat /\ q + n <= MAX_HEAP
    BY <1>3, NextFacts, SMT DEF Heap!Placed
  <2>2. \A i \in 0 .. n - 1 : q + i \in 0 .. MAX_HEAP
    BY <2>1, SMT
  <2> QED
    BY <2>2 DEF IInv, TypeOK
<1>5. data' = Heap!With(data, q, d)
  BY <1>1 DEF data, Heap!With
<1> QED
  BY <1>1, <1>3, <1>4, <1>5 DEF Heap!Malloc

\* Taking a block off the free list is a Malloc of HeapSpec, or invisible when
\* mm_realloc asked for the block.
LEMMA TakeFitImplements ==
    ASSUME IInv, IInv', TakeFit
    PROVE  Heap!Next \/ UNCHANGED Heap!hvars
<1>1. mem' = mem /\ brk' = brk
  BY DEF TakeFit
<1>2. CASE call.ptr # NULL
  <2>1. live' = live
    BY <1>2 DEF TakeFit, Obtained
  <2> QED
    BY <1>1, <2>1 DEF Heap!hvars, data
<1>3. CASE call.ptr = NULL
  <2> DEFINE q == bp + BLK_HDR_SIZE
  <2>1. call.size \in Sizes /\ bp \in blocks /\ ~Used(bp)
    BY DEF IInv, CallConsistent, FreeNodes, TakeFit
  <2>2. live' = With(live, q, call.size)
    BY <1>3 DEF TakeFit, Obtained
  <2>3. /\ bp \in Nat /\ BLK_HDR_SIZE \in Nat /\ brk \in Nat /\ brk <= brk'
        /\ q \in Nat /\ q - BLK_HDR_SIZE = bp
    <3>1. bp \in Nat /\ brk \in Nat
      BY <2>1, BlockFacts
    <3>2. BLK_HDR_SIZE \in Nat
      BY NextFacts
    <3> QED
      BY <1>1, <3>1, <3>2, SMT
  <2>4. q \notin DOMAIN live
    BY <2>1, <2>3 DEF IInv, LiveInUsedBlocks
  <2> HIDE DEF q
  <2>5. Heap!Malloc(call.size)
    BY <1>1, <2>1, <2>2, <2>3, <2>4, NewPayload
  <2> QED
    BY <2>1, <2>5 DEF Heap!Next
<1> QED
  BY <1>2, <1>3

\* A new block at the break is a Malloc of HeapSpec, or an Sbrk when mm_realloc
\* asked for the block.
LEMMA ExtendHeapImplements ==
    ASSUME IInv, IInv', ExtendHeap
    PROVE  Heap!Next \/ UNCHANGED Heap!hvars
<1>1. mem' = mem
  BY DEF ExtendHeap
<1>2. brk \in Nat /\ brk' \in Nat /\ brk' <= MAX_HEAP /\ MAX_HEAP \in Nat /\ BLK_HDR_SIZE \in Nat \ {0}
  <2>1. brk \in Nat
    BY HeadIsFree, BlockFacts
  <2> QED
    BY <2>1, NextFacts
<1>3. brk <= brk'
  <2>1. newsize \in Int
    BY NewsizeFacts DEF ExtendHeap
  <2>2. ~(newsize < 0) /\ brk' = brk + newsize
    BY DEF ExtendHeap, mem_sbrk, mem_sbrk_fails
  <2> QED
    BY <1>2, <2>1, <2>2, SMT
<1>4. CASE call.ptr # NULL
  <2>1. live' = live
    BY <1>4 DEF ExtendHeap, Obtained
  <2>2. data' = data
    BY <1>1, <2>1 DEF data
  <2>3. brk' \in brk .. MAX_HEAP
    BY <1>2, <1>3, SMT
  <2> QED
    BY <2>1, <2>2, <2>3 DEF Heap!Next, Heap!Sbrk
<1>5. CASE call.ptr = NULL
  <2> DEFINE q == brk + BLK_HDR_SIZE
  <2>1. call.size \in Sizes
    BY DEF IInv, CallConsistent, ExtendHeap
  <2>2. live' = With(live, q, call.size)
    BY <1>5 DEF ExtendHeap, Obtained
  <2>3. q \in Nat
    BY <1>2, SMT
  <2>4. q \notin DOMAIN live
    <3>1. ASSUME NEW r \in DOMAIN live PROVE r # q
      <4>1. r \in Nat /\ live[r] \in Nat \ {0} /\ r + live[r] <= brk
        BY PayloadFacts
      <4> QED
        BY <1>2, <4>1, SMT
    <3> QED
      BY <3>1
  <2> HIDE DEF q
  <2>5. Heap!Malloc(call.size)
    BY <1>1, <1>3, <2>1, <2>2, <2>3, <2>4, NewPayload
  <2> QED
    BY <2>1, <2>5 DEF Heap!Next
<1> QED
  BY <1>4, <1>5

\* The end of mm_realloc is a Realloc of HeapSpec: the new payload starts with
\* the old one's bytes, though copySize may be one more than the old block's
\* capacity, and no other payload changes.
LEMMA CopyAndFreeImplements ==
    ASSUME IInv, IInv', CopyAndFree
    PROVE  Heap!Next
<1> PICK p : p = call.ptr
  OBVIOUS
<1> PICK n : n = call.size
  OBVIOUS
<1> PICK q : q = bp + BLK_HDR_SIZE
  OBVIOUS
<1> PICK m : m = copySize
  OBVIOUS
<1>1. /\ p \in DOMAIN live /\ n \in Sizes /\ q \notin DOMAIN live
      /\ mem' = memcpy(q, p, m)
      /\ live' = With(Without(live, p), q, n)
      /\ brk' = brk
  BY DEF CopyAndFree, IInv, TypeOK, CallConsistent
<1>2. /\ DOMAIN live' = (DOMAIN live \ {p}) \cup {q} /\ live'[q] = n
      /\ \A r \in DOMAIN live \ {p} : live'[r] = live[r] /\ r # q
      /\ live' = Heap!With(Heap!Without(live, p), q, n)
  BY <1>1 DEF With, Without, Heap!With, Heap!Without
<1>3. /\ q \in 0 .. MAX_HEAP - 1 /\ q \notin DOMAIN live \ {p}
      /\ Heap!Placed(q, n)
      /\ \A r \in DOMAIN live \ {p} : Heap!Apart(q, n, r, live[r])
  <2> PICK K : K = DOMAIN live \ {p}
    OBVIOUS
  <2>1. brk \in Nat /\ brk <= brk'
    <3>1. brk \in Nat
      BY PayloadFacts, <1>1
    <3> QED
      BY <1>1, <3>1, SMT
  <2>2. /\ q \in DOMAIN live' /\ K \in SUBSET DOMAIN live /\ q \notin K
        /\ DOMAIN live' = K \cup {q} /\ \A r \in K : live'[r] = live[r]
    BY <1>1, <1>2
  <2>3. /\ q \in 0 .. MAX_HEAP - 1
        /\ Heap!Placed(q, live'[q])
        /\ \A r \in K : Heap!Apart(q, live'[q], r, live[r])
    BY <2>1, <2>2, Placement
  <2> QED
    BY <1>1, <1>2, <2>3
<1>4. /\ n \in Nat \ {0} /\ q \in Nat /\ q + n <= MAX_HEAP /\ MAX_HEAP \in Nat
      /\ p \in Nat /\ live[p] \in Nat \ {0} /\ p + live[p] <= MAX_HEAP
  <2>1. n \in 1 .. INT_MAX /\ INT_MAX \in Nat /\ MAX_HEAP \in Nat
    BY <1>1, NextFacts
  <2>2. p \in Nat /\ live[p] \in Nat \ {0} /\ p + live[p] <= brk /\ brk <= MAX_HEAP
        /\ brk \in Nat
    BY <1>1, PayloadFacts
  <2>3. q + n <= brk' /\ brk' \in brk .. MAX_HEAP
    BY <1>3 DEF Heap!Placed
  <2> QED
    BY <1>3, <2>1, <2>2, <2>3, SMT
<1>5. m \in Nat /\ m <= n /\ (n <= m \/ live[p] <= m)
  <2> PICK c : c = p - BLK_HDR_SIZE
    OBVIOUS
  <2>1. /\ c \in blocks /\ BLK_HDR_SIZE + live[p] <= Sz(c)
    BY <1>1 DEF IInv, LiveInUsedBlocks
  <2>2. size[c] \in Nat /\ Sz(c) \in Nat /\ Sz(c) <= size[c]
    BY <2>1, BlockFacts
  <2>3. m = IF n < size[c] - BLK_HDR_SIZE THEN n ELSE size[c] - BLK_HDR_SIZE
    BY DEF copySize
  <2>4. BLK_HDR_SIZE \in Nat
    BY NextFacts
  <2> QED
    BY <1>4, <2>1, <2>2, <2>3, <2>4, SMT
<1>6. \A a \in 0 .. MAX_HEAP :
         mem'[a] = IF a \in q .. q + m - 1 THEN mem[p + (a - q)] ELSE mem[a]
  <2>1. DOMAIN mem = 0 .. MAX_HEAP
    BY DEF IInv, TypeOK
  <2> QED
    BY <1>1, <2>1 DEF memcpy
<1> DEFINE d == [i \in 0 .. n - 1 |-> mem'[q + i]]
<1>7. d \in [0 .. n - 1 -> Byte]
  <2>1. \A i \in 0 .. n - 1 : q + i \in 0 .. MAX_HEAP
    BY <1>4, SMT
  <2>2. mem' \in [0 .. MAX_HEAP -> Byte]
    BY NextFacts
  <2> QED
    BY <2>1, <2>2
<1>8. ASSUME NEW i \in 0 .. n - 1, i < live[p] PROVE d[i] = data[p][i]
  <2> PICK l : l = live[p]
    OBVIOUS
  <2>1. i \in 0 .. l - 1 /\ q + i \in q .. q + m - 1 /\ (q + i) - q = i
        /\ q + i \in 0 .. MAX_HEAP
    <3>1. i \in Int /\ 0 <= i /\ i < n /\ i < l /\ l \in Nat
      BY <1>4, <1>8, SMT
    <3> HIDE DEF d
    <3> QED
      BY <1>4, <1>5, <3>1, SMT
  <2>2. mem'[q + i] = mem[p + i]
    BY <1>6, <2>1
  <2> QED
    BY <1>1, <2>1, <2>2 DEF data
<1>9. ASSUME NEW r \in DOMAIN live \ {p}, NEW i \in 0 .. live[r] - 1
      PROVE  mem'[r + i] = mem[r + i]
  <2>1. r \in Nat /\ live[r] \in Nat \ {0} /\ r + live[r] <= brk /\ brk <= MAX_HEAP /\ brk \in Nat
    BY PayloadFacts
  <2>2. q + n <= r \/ r + live[r] <= q
    BY <1>3 DEF Heap!Apart
  <2>3. r + i \in 0 .. MAX_HEAP /\ r + i \notin q .. q + m - 1
    BY <1>4, <1>5, <1>9, <2>1, <2>2, SMT
  <2> QED
    BY <1>6, <2>3
<1>10. data' = Heap!With(Heap!Without(data, p), q, d)
  <2>1. data' = [r \in DOMAIN live' |-> [i \in 0 .. live'[r] - 1 |-> mem'[r + i]]]
    BY DEF data
  <2>2. ASSUME NEW r \in DOMAIN live \ {p}
        PROVE  [i \in 0 .. live'[r] - 1 |-> mem'[r + i]] = data[r]
    BY <1>2, <1>9 DEF data
  <2> QED
    BY <1>2, <2>1, <2>2 DEF Heap!With, Heap!Without, data
<1>11. Heap!Realloc(p, n)
  BY <1>1, <1>2, <1>3, <1>7, <1>8, <1>10 DEF Heap!Realloc
<1> QED
  BY <1>1, <1>11 DEF Heap!Next

\* A store of the caller is a Store of HeapSpec.
LEMMA StoreImplements ==
    ASSUME IInv, NEW p \in DOMAIN live, NEW i \in 0 .. live[p] - 1,
           NEW v \in Byte, Store(p, i, v)
    PROVE  Heap!Store(p, i, v)
<1>1. live' = live /\ brk' = brk /\ mem' = [mem EXCEPT ![p + i] = v]
  BY DEF Store
<1>2. p \in Nat /\ live[p] \in Nat
  BY PayloadFacts
<1>3. ASSUME NEW r \in DOMAIN live, NEW j \in 0 .. live[r] - 1
      PROVE  mem'[r + j] = IF r = p /\ j = i THEN v ELSE mem[r + j]
  <2>1. r \in Nat /\ live[r] \in Nat /\ r + live[r] <= brk /\ brk <= MAX_HEAP
        /\ MAX_HEAP \in Nat /\ brk \in Nat
    BY PayloadFacts
  <2>2. r + j \in 0 .. MAX_HEAP
    BY <1>3, <2>1, SMT
  <2>3. (r < p => r + live[r] <= p) /\ (p < r => p + live[p] <= r)
    BY LivePayloads DEF PayloadsSafe
  <2>4. r + j = p + i => r = p /\ j = i
    BY <1>2, <1>3, <2>1, <2>3, SMT
  <2> QED
    BY <1>1, <2>2, <2>4 DEF IInv, TypeOK
<1>4. data' = [data EXCEPT ![p][i] = v]
  <2>1. data' = [r \in DOMAIN live |-> [j \in 0 .. live[r] - 1 |-> mem'[r + j]]]
    BY <1>1 DEF data
  <2>2. ASSUME NEW r \in DOMAIN live
        PROVE  [j \in 0 .. live[r] - 1 |-> mem'[r + j]]
                 = IF r = p THEN [data[p] EXCEPT ![i] = v] ELSE data[r]
    BY <1>3 DEF data
  <2> QED
    BY <2>1, <2>2 DEF data
<1> QED
  BY <1>1, <1>4 DEF Heap!Store

\* mm-explicit.c keeps every promise of HeapSpec, for every heap size, header
\* size and alignment: payloads are placed apart, mm_realloc keeps the common
\* prefix, and no step changes a byte of another payload.
THEOREM ExplicitImplementsHeap == Spec => ImplementsHeap
<1>1. mm_init => Heap!Init
  <2> SUFFICES ASSUME mm_init PROVE Heap!Init
    OBVIOUS
  <2>1. brk \in 0 .. MAX_HEAP /\ live = [p \in {} |-> 0]
    BY MemLibConstants, HeaderFits, SMT DEF MemLibConstants, HeaderFits, mm_init
  <2>2. data = [p \in {} |-> << >>]
    BY <2>1 DEF data
  <2> QED
    BY <2>1, <2>2 DEF Heap!Init
<1>2. IInv /\ IInv' /\ [Next]_vars => [Heap!Next]_(Heap!hvars)
  <2> SUFFICES ASSUME IInv, IInv', [Next]_vars
               PROVE  Heap!Next \/ UNCHANGED Heap!hvars
    OBVIOUS
  <2>1. CASE UNCHANGED <<brk, mem, live>>
    BY <2>1 DEF Heap!hvars, data
  <2>2. ASSUME NEW n \in Sizes, mm_malloc(n) \/ \E p \in DOMAIN live : mm_realloc(p, n)
        PROVE  UNCHANGED <<brk, mem, live>>
    BY <2>2 DEF mm_malloc, mm_realloc, EnterMalloc
  <2>3. ASSUME NEW p \in DOMAIN live, mm_free(p) PROVE Heap!Next
    <3>1. /\ live' = Heap!Without(live, p) /\ brk' = brk
          /\ data' = Heap!Without(data, p)
      BY <2>3 DEF mm_free, Without, Heap!Without, data
    <3> QED
      BY <3>1 DEF Heap!Next, Heap!Free
  <2>4. ASSUME NEW p \in DOMAIN live, NEW i \in 0 .. live[p] - 1, NEW v \in Byte,
               Store(p, i, v)
        PROVE  Heap!Next
    BY <2>4, StoreImplements DEF Heap!Next
  <2>5. CASE Caller
    BY <2>1, <2>2, <2>3, <2>4, <2>5 DEF Caller
  <2>6. CASE FindNext \/ OutOfMemory
    BY <2>1, <2>6 DEF FindNext, OutOfMemory
  <2>7. CASE TakeFit \/ ExtendHeap \/ CopyAndFree
    BY <2>7, TakeFitImplements, ExtendHeapImplements, CopyAndFreeImplements
  <2>8. CASE UNCHANGED vars
    BY <2>1, <2>8 DEF vars
  <2> QED
    BY <2>5, <2>6, <2>7, <2>8 DEF Next, Package
<1> QED
  BY <1>1, <1>2, Invariant, PTL DEF Spec, ImplementsHeap, Heap!HeapSpec

-----------------------------------------------------------------------------
(* The free list is one circle, and find_fit goes round all of it             *)

Closed(S) == HEAD \in S /\ \A n \in S : next_p[n] \in S

\* LinksInverse allows several circles; there is one, through the sentinel.
OneCircle == \A S \in SUBSET FreeNodes : Closed(S) => S = FreeNodes

\* V is what find_fit has looked at before bp: the sentinel, and blocks that
\* are too small.
Visited(V) ==
    /\ HEAD \in V /\ \A n \in V : next_p[n] \in V \cup {bp}
    /\ \A n \in V \ {HEAD} : TooSmall(n)
Searched == pc = "find_fit" => \E V \in SUBSET FreeNodes : Visited(V)

\* There is no gap between two blocks, nor before the break.
NoGaps == \A b \in blocks : b + Sz(b) = brk \/ b + Sz(b) \in blocks

WInv == IInv /\ OneCircle /\ Searched /\ NoGaps

\* A heap with the sentinel only.
LEMMA WalkInit == mm_init => WInv
<1> SUFFICES ASSUME mm_init PROVE WInv
  OBVIOUS
<1>1. IInv
  BY InitInv
<1>2. blocks = {HEAD} /\ size[HEAD] = BLK_HDR_SIZE /\ brk = BLK_HDR_SIZE /\ pc = "idle"
  BY DEF mm_init, blocks
<1>3. HEAD \in FreeNodes /\ FreeNodes = {HEAD}
  BY <1>1, <1>2, HeadIsFree DEF FreeNodes
<1>4. OneCircle
  BY <1>3 DEF OneCircle, Closed
<1>5. HEAD + Sz(HEAD) = brk
  <2>1. Sz(HEAD) = size[HEAD]
    BY <1>1, HeadIsFree, BlockFacts
  <2> QED
    BY <1>2, <2>1, HeaderFits DEF HEAD, mem_heap_lo, HeaderFits
<1> QED
  BY <1>1, <1>2, <1>4, <1>5 DEF WInv, NoGaps, Searched

\* Steps that leave the heap and its headers alone.
LEMMA SameWalks ==
    ASSUME WInv, UNCHANGED <<brk, size, next_p, prior_p>>
    PROVE  OneCircle' /\ NoGaps'
<1>1. IInv
  BY DEF WInv
<1>2. /\ blocks' = blocks /\ FreeNodes' = FreeNodes
      /\ \A c : (Sz(c)' = Sz(c)) /\ (Used(c)' <=> Used(c))
  BY <1>1, HeapUnchanged
<1>3. OneCircle'
  BY <1>2 DEF WInv, OneCircle, Closed
<1>4. NoGaps'
  BY <1>2 DEF WInv, NoGaps
<1> QED
  BY <1>3, <1>4

\* mm_free puts its block between the sentinel and what was first.
LEMMA FreeBlockWalks ==
    ASSUME WInv, NEW b \in blocks, Used(b), FreeBlock(b), brk' = brk
    PROVE  OneCircle' /\ NoGaps'
<1>1. IInv
  BY DEF WInv
<1>2. /\ blocks' = blocks
      /\ \A c \in blocks : Sz(c)' = Sz(c)
      /\ \A c \in blocks \ {b} : Used(c)' <=> Used(c)
      /\ ~Used(b)'
  BY <1>1, FreeBlockFacts
<1>3. FreeNodes' = FreeNodes \cup {b} /\ b \notin FreeNodes /\ HEAD \in FreeNodes
      /\ FreeNodes \subseteq blocks
  BY <1>1, <1>2, HeadIsFree DEF FreeNodes
<1>4. \A d \in blocks : next_p'[d] = IF d = HEAD THEN b
                                     ELSE IF d = b THEN next_p[HEAD] ELSE next_p[d]
  BY <1>1, <1>3, SMT DEF FreeBlock, IInv, TypeOK
<1>5. \A d \in FreeNodes : next_p[d] \in FreeNodes
  BY <1>1 DEF IInv, LinksInverse
<1>6. ASSUME NEW S \in SUBSET FreeNodes', Closed(S)'
      PROVE  S = FreeNodes'
  <2>1. HEAD \in S /\ \A n \in S : next_p'[n] \in S
    BY <1>6 DEF Closed, HEAD, mem_heap_lo
  <2>2. b \in S /\ next_p[HEAD] \in S
    BY <1>3, <1>4, <2>1
  <2>3. S \ {b} \in SUBSET FreeNodes
    BY <1>3
  <2>4. Closed(S \ {b})
    BY <1>3, <1>4, <1>5, <2>1, <2>2, <2>3 DEF Closed
  <2>5. S \ {b} = FreeNodes
    BY <2>3, <2>4 DEF WInv, OneCircle
  <2> QED
    BY <1>3, <2>2, <2>5
<1>7. NoGaps'
  BY <1>2 DEF WInv, NoGaps
<1> QED
  BY <1>6, <1>7 DEF OneCircle

\* mm_malloc takes a block out of the circle.
LEMMA TakeFitWalks ==
    ASSUME WInv, TakeFit
    PROVE  OneCircle' /\ NoGaps'
<1> PICK b : b = bp
  OBVIOUS
<1>1. IInv
  BY DEF WInv
<1>2. b \in FreeNodes /\ b \in blocks /\ ~Used(b) /\ b # HEAD
  BY <1>1 DEF TakeFit, IInv, CallConsistent, FreeNodes
<1>3. size' = [size EXCEPT ![b] = Sz(b) + 1] /\ 1 \in {0, 1}
  BY DEF TakeFit
<1>4. /\ blocks' = blocks
      /\ \A c \in blocks : Sz(c)' = Sz(c)
      /\ \A c \in blocks \ {b} : Used(c)' <=> Used(c)
      /\ Used(b)'
  BY <1>1, <1>2, <1>3, MarkFacts
<1>5. FreeNodes' = FreeNodes \ {b} /\ HEAD \in FreeNodes /\ FreeNodes \subseteq blocks
  BY <1>1, <1>4, HeadIsFree DEF FreeNodes
<1>6. \A d \in FreeNodes : /\ next_p[d] \in FreeNodes /\ prior_p[d] \in FreeNodes
                           /\ prior_p[next_p[d]] = d /\ next_p[prior_p[d]] = d
  BY <1>1 DEF IInv, LinksInverse
<1>7. \A d \in blocks : next_p'[d] = IF d = prior_p[b] THEN next_p[b] ELSE next_p[d]
  BY <1>1, SMT DEF TakeFit, IInv, TypeOK
<1>8. ASSUME NEW S \in SUBSET FreeNodes', Closed(S)'
      PROVE  S = FreeNodes'
  <2>1. HEAD \in S /\ \A n \in S : next_p'[n] \in S
    BY <1>8 DEF Closed, HEAD, mem_heap_lo
  <2>2. CASE prior_p[b] \in S
    <3>1. next_p[b] \in S
      BY <1>5, <1>7, <2>1, <2>2
    <3>2. Closed(S \cup {b}) /\ S \cup {b} \in SUBSET FreeNodes
      BY <1>2, <1>5, <1>6, <1>7, <2>1, <3>1 DEF Closed
    <3>3. S \cup {b} = FreeNodes
      BY <3>2 DEF WInv, OneCircle
    <3> QED
      BY <1>5, <3>3
  <2>3. CASE prior_p[b] \notin S
    <3>1. Closed(S) /\ S \in SUBSET FreeNodes
      BY <1>5, <1>7, <2>1, <2>3 DEF Closed
    <3>2. S = FreeNodes
      BY <3>1 DEF WInv, OneCircle
    <3> QED
      BY <1>2, <1>5, <3>2
  <2> QED
    BY <2>2, <2>3
<1>9. NoGaps'
  <2>1. brk' = brk
    BY DEF TakeFit
  <2> QED
    BY <1>4, <2>1 DEF WInv, NoGaps
<1> QED
  BY <1>8, <1>9 DEF OneCircle

\* What mm_malloc adds at the break.
LEMMA ExtendFacts ==
    ASSUME IInv, ExtendHeap
    PROVE  /\ newsize \in Nat /\ BLK_HDR_SIZE + call.size <= newsize
           /\ brk' = brk + newsize /\ brk \notin blocks /\ blocks' = blocks \cup {brk}
           /\ FreeNodes' = FreeNodes
           /\ \A c \in blocks : Sz(c)' = Sz(c) /\ next_p'[c] = next_p[c]
           /\ size'[brk] = newsize + 1
<1> PICK b : b = brk
  OBVIOUS
<1> PICK n : n = newsize
  OBVIOUS
<1>1. /\ n \in Nat /\ n % 2 = 0 /\ BLK_HDR_SIZE + call.size <= n /\ brk' = b + n
  <2>1. newsize \in Int /\ ~(newsize < 0 \/ brk + newsize > MAX_HEAP)
    BY NewsizeFacts DEF ExtendHeap, mem_sbrk, mem_sbrk_fails
  <2>3. newsize >= 0 /\ newsize \in Nat
    BY <2>1, SMT
  <2>4. newsize % 2 = 0 /\ BLK_HDR_SIZE + call.size <= newsize
    BY <2>3, NewsizeFacts DEF ExtendHeap
  <2> QED
    BY <2>3, <2>4 DEF ExtendHeap, mem_sbrk
<1>2. b \notin blocks
  <2>1. \A c \in blocks : c < b /\ c \in Nat
    BY BlockFacts
  <2>2. \A c \in blocks : c # b
    BY <2>1, SMT
  <2> QED
    BY <2>2
<1>3. /\ size' = With(size, b, n + 1) /\ next_p' = With(next_p, b, NULL)
  BY DEF ExtendHeap
<1>4. /\ size \in [blocks -> Nat] /\ next_p \in [blocks -> blocks \cup {NULL}]
  BY DEF IInv, TypeOK
<1>5. blocks' = blocks \cup {b}
  BY <1>3 DEF With, blocks
<1>6. \A c \in blocks : size'[c] = size[c] /\ next_p'[c] = next_p[c]
  <2> HIDE DEF blocks
  <2> QED
    BY <1>2, <1>3, <1>4 DEF With
<1>7. size'[b] = n + 1
  BY <1>3 DEF With
<1>8. \A c \in blocks : Sz(c)' = Sz(c) /\ (Used(c)' <=> Used(c))
  BY <1>6 DEF Sz, Used
<1>9. Used(b)'
  <2>1. (n + 1) % 2 = 1
    BY <1>1, BitFacts
  <2> QED
    BY <1>7, <2>1 DEF Used
<1>10. FreeNodes' = FreeNodes
  BY <1>5, <1>8, <1>9 DEF FreeNodes
<1> QED
  BY <1>1, <1>2, <1>5, <1>6, <1>7, <1>8, <1>10

\* The new block fills the heap from the old break to the new one.
LEMMA ExtendHeapWalks ==
    ASSUME WInv, ExtendHeap
    PROVE  OneCircle' /\ NoGaps'
<1> PICK b : b = brk
  OBVIOUS
<1> PICK n : n = newsize
  OBVIOUS
<1>1. IInv
  BY DEF WInv
<1>2. /\ n \in Nat /\ brk' = b + n /\ blocks' = blocks \cup {b} /\ FreeNodes' = FreeNodes
      /\ \A c \in blocks : Sz(c)' = Sz(c) /\ next_p'[c] = next_p[c]
      /\ size'[b] = n + 1
  BY <1>1, ExtendFacts
<1>3. FreeNodes \subseteq blocks
  BY DEF FreeNodes
<1>4. OneCircle'
  <2> SUFFICES ASSUME NEW S \in SUBSET FreeNodes', Closed(S)'
               PROVE  S = FreeNodes'
    BY DEF OneCircle
  <2>1. HEAD \in S /\ \A k \in S : next_p'[k] \in S
    BY DEF Closed, HEAD, mem_heap_lo
  <2>2. Closed(S) /\ S \in SUBSET FreeNodes
    BY <1>2, <1>3, <2>1 DEF Closed
  <2> QED
    BY <1>2, <2>2 DEF WInv, OneCircle
<1>5. Sz(b)' = n
  <2>1. (n + 1) % 2 = 1
    <3>1. n % 2 = 0
      <4>1. newsize >= 0 /\ pc # "idle"
        BY <1>2, SMT DEF ExtendHeap
      <4> QED
        BY <1>1, <4>1, NewsizeFacts
    <3> QED
      BY <1>2, <3>1, BitFacts
  <2> QED
    BY <1>2, <2>1, SMT DEF Sz
<1>6. NoGaps'
  <2> SUFFICES ASSUME NEW c \in blocks'
               PROVE  c + Sz(c)' = brk' \/ c + Sz(c)' \in blocks'
    BY DEF NoGaps
  <2>1. CASE c = b
    BY <1>2, <1>5, <2>1
  <2>2. CASE c \in blocks
    <3>1. c + Sz(c) = brk \/ c + Sz(c) \in blocks
      BY <2>2 DEF WInv, NoGaps
    <3> QED
      BY <1>2, <2>2, <3>1
  <2> QED
    BY <1>2, <2>1, <2>2
<1> QED
  BY <1>4, <1>6

\* find_fit's search so far.
LEMMA SearchStep ==
    ASSUME WInv, FindNext
    PROVE  Searched'
<1> PICK b : b = bp
  OBVIOUS
<1>1. PICK V \in SUBSET FreeNodes : Visited(V)
  BY DEF WInv, Searched, FindNext
<1>2. /\ b \in FreeNodes /\ FreeNodes' = FreeNodes /\ b # HEAD /\ TooSmall(b)
      /\ bp' = next_p[b] /\ next_p' = next_p
  <2>1. IInv
    BY DEF WInv
  <2>2. FreeNodes' = FreeNodes
    BY <2>1, HeapUnchanged DEF FindNext
  <2> QED
    BY <2>1, <2>2 DEF FindNext, IInv, CallConsistent
<1>3. \A n : TooSmall(n)' <=> TooSmall(n)
  BY DEF FindNext, TooSmall, newsize
<1>4. HEAD' = HEAD
  BY DEF HEAD, mem_heap_lo
<1>5. Visited(V \cup {b})'
  BY <1>1, <1>2, <1>3, <1>4 DEF Visited
<1>6. V \cup {b} \in SUBSET FreeNodes'
  BY <1>1, <1>2
<1> QED
  BY <1>5, <1>6 DEF Searched

\* find_fit starts behind the sentinel.
LEMMA SearchStart ==
    ASSUME WInv, NEW ptr, NEW n, EnterMalloc(ptr, n)
    PROVE  Searched'
<1>1. IInv
  BY DEF WInv
<1>2. FreeNodes' = FreeNodes /\ HEAD \in FreeNodes
  BY <1>1, HeadIsFree, HeapUnchanged DEF EnterMalloc
<1>3. Visited({HEAD})'
  BY DEF Visited, EnterMalloc, HEAD, mem_heap_lo
<1> QED
  BY <1>2, <1>3 DEF Searched

\* Every step keeps the one circle, the search and the tiling.
LEMMA WalkStep == WInv /\ [Next]_vars => WInv'
<1> SUFFICES ASSUME WInv, [Next]_vars PROVE WInv'
  OBVIOUS
<1>1. IInv /\ IInv'
  BY StepInv DEF WInv
<1> SUFFICES OneCircle' /\ NoGaps' /\ Searched'
  BY <1>1 DEF WInv
<1>2. ASSUME NEW ptr, NEW n, EnterMalloc(ptr, n) PROVE OneCircle' /\ NoGaps' /\ Searched'
  BY <1>2, SameWalks, SearchStart DEF EnterMalloc
<1>3. ASSUME NEW p \in DOMAIN live, mm_free(p) PROVE OneCircle' /\ NoGaps' /\ Searched'
  <2>1. p - BLK_HDR_SIZE \in blocks /\ Used(p - BLK_HDR_SIZE)
    BY <1>1 DEF IInv, LiveInUsedBlocks
  <2>2. FreeBlock(p - BLK_HDR_SIZE) /\ brk' = brk /\ pc' # "find_fit"
    BY <1>3 DEF mm_free
  <2> QED
    BY <2>1, <2>2, FreeBlockWalks DEF Searched
<1>4. ASSUME NEW p \in DOMAIN live, NEW i \in 0 .. live[p] - 1, NEW v \in Byte,
             Store(p, i, v)
      PROVE  OneCircle' /\ NoGaps' /\ Searched'
  BY <1>4, SameWalks DEF Store, Searched
<1>5. CASE FindNext
  BY <1>5, SameWalks, SearchStep DEF FindNext
<1>6. CASE TakeFit
  <2>1. pc' # "find_fit"
    BY <1>6 DEF TakeFit, Obtained, Back
  <2> QED
    BY <1>6, <2>1, TakeFitWalks DEF Searched
<1>7. CASE ExtendHeap
  <2>1. pc' # "find_fit"
    BY <1>7 DEF ExtendHeap, Obtained, Back
  <2> QED
    BY <1>7, <2>1, ExtendHeapWalks DEF Searched
<1>8. CASE OutOfMemory
  BY <1>8, SameWalks DEF OutOfMemory, Back, Searched
<1>9. CASE CopyAndFree
  <2>1. call.ptr - BLK_HDR_SIZE \in blocks /\ Used(call.ptr - BLK_HDR_SIZE)
    BY <1>1, <1>9 DEF IInv, TypeOK, CallConsistent, LiveInUsedBlocks, CopyAndFree
  <2>2. FreeBlock(call.ptr - BLK_HDR_SIZE) /\ brk' = brk /\ pc' # "find_fit"
    BY <1>9 DEF CopyAndFree, Back
  <2> QED
    BY <2>1, <2>2, FreeBlockWalks DEF Searched
<1>10. CASE UNCHANGED vars
  <2>1. OneCircle' /\ NoGaps'
    BY <1>10, SameWalks DEF vars
  <2>2. FreeNodes' = FreeNodes
    BY <1>1, <1>10, HeapUnchanged DEF vars
  <2>3. Searched'
    BY <1>10, <2>2 DEF vars, WInv, Searched, Visited, TooSmall, newsize, HEAD, mem_heap_lo
  <2> QED
    BY <2>1, <2>3
<1> QED
  BY <1>2, <1>3, <1>4, <1>5, <1>6, <1>7, <1>8, <1>9, <1>10
  DEF Next, Caller, Package, mm_malloc, mm_realloc

\* The circle, the search and the tiling hold in every state.
LEMMA WalkInvariant == Spec => []WInv
<1> QED
  BY WalkInit, WalkStep, PTL DEF Spec

\* When find_fit has come back to the sentinel, it has been everywhere.
LEMMA AllTooSmall ==
    ASSUME WInv, pc = "find_fit", bp = HEAD
    PROVE  \A n \in FreeNodes \ {HEAD} : TooSmall(n)
<1>1. PICK V \in SUBSET FreeNodes : Visited(V)
  BY DEF WInv, Searched
<1>2. Closed(V)
  BY <1>1 DEF Visited, Closed
<1> QED
  BY <1>1, <1>2 DEF WInv, OneCircle, Visited

\* mm_malloc, mm-explicit.c: the heap grows only when no free block has room
\* for the header and the payload asked for.
THEOREM FindsWhatFits == Spec => GrowOnlyWhenNothingFits
<1>1. WInv /\ [Next]_vars
        => (brk' # brk => \A b \in FreeNodes \ {HEAD} : Sz(b) < BLK_HDR_SIZE + call.size)
  <2> SUFFICES ASSUME WInv, Next, brk' # brk, NEW b \in FreeNodes \ {HEAD}
               PROVE  Sz(b) < BLK_HDR_SIZE + call.size
    BY DEF vars
  <2>1. ExtendHeap
    BY DEF Next, Caller, Package, mm_malloc, mm_realloc, EnterMalloc, mm_free, Store,
        FindNext, TakeFit, OutOfMemory, CopyAndFree
  <2>2. IInv /\ b \in blocks /\ ~Used(b)
    BY DEF WInv, FreeNodes
  <2>3. newsize \in Nat /\ BLK_HDR_SIZE + call.size \in Nat /\ newsize % ALIGNMENT = 0
        /\ newsize < BLK_HDR_SIZE + call.size + ALIGNMENT
    <3>1. newsize \in Nat /\ newsize >= 0 /\ pc # "idle"
      BY <2>1, <2>2, ExtendFacts, SMT DEF ExtendHeap
    <3>2. call.size \in Nat /\ BLK_HDR_SIZE \in Nat
      BY <2>2, <3>1, CallSize, HeaderFits DEF HeaderFits
    <3>3. BLK_HDR_SIZE + call.size \in Nat
      BY <3>2, SMT
    <3> QED
      BY <2>2, <3>1, <3>3, NewsizeFacts
  <2>4. TooSmall(b)
    BY <2>1, AllTooSmall DEF ExtendHeap
  <2>5. size[b] = Sz(b) /\ Sz(b) \in Nat /\ Sz(b) % ALIGNMENT = 0
    BY <2>2, BlockFacts
  <2>6. PICK n : n = newsize
    OBVIOUS
  <2>7. PICK need : need = BLK_HDR_SIZE + call.size
    OBVIOUS
  <2>8. PICK z : z = Sz(b)
    OBVIOUS
  <2>9. n \in Nat /\ z \in Nat /\ need \in Nat /\ n < need + ALIGNMENT
        /\ n % ALIGNMENT = 0 /\ z % ALIGNMENT = 0
    BY <2>3, <2>5, <2>6, <2>7, <2>8
  <2>10. z < n
    <3>1. n < 0 \/ z < n
      BY <2>4, <2>5, <2>6, <2>8 DEF TooSmall
    <3> QED
      BY ONLY <3>1, <2>9, SMT
  <2>11. z + ALIGNMENT <= n /\ ALIGNMENT \in Nat
    BY <2>9, <2>10, AlignedApart, MemLibConstants DEF MemLibConstants
  <2>12. z < need
    BY ONLY <2>9, <2>11, SMT
  <2> QED
    BY <2>7, <2>8, <2>12
<1> QED
  BY <1>1, WalkInvariant, PTL DEF Spec, GrowOnlyWhenNothingFits

-----------------------------------------------------------------------------
(* The walks of find_fit and print_heap, as functions of the number of steps  *)

\* A set of numbers has a smallest one.
LEMMA Smallest ==
    ASSUME NEW S \in SUBSET Nat, S # {}
    PROVE  \E m \in S : \A k \in S : m <= k
<1>1. PICK m \in S : \A k \in S : <<k, m>> \notin OpToRel(<, Nat)
  BY NatLessThanWellFounded, WFMin
<1>2. ASSUME NEW k \in S, k < m
      PROVE  FALSE
  <2>1. <<k, m>> \in OpToRel(<, Nat)
    BY <1>2 DEF OpToRel
  <2> QED
    BY <1>1, <2>1
<1> QED
  BY <1>2, SMT

\* The first n steps of the walk from x along f.
Walks(n, x, f, S) == {h \in [0 .. n -> S] : h[0] = x /\ \A k \in 1 .. n : h[k] = f[h[k - 1]]}

\* There are walks of every length.
LEMMA WalkExists ==
    ASSUME NEW S, NEW f, NEW x \in S, \A s \in S : f[s] \in S, NEW n \in Nat
    PROVE  Walks(n, x, f, S) # {}
<1> DEFINE bad == {m \in Nat : Walks(m, x, f, S) = {}}
<1> SUFFICES ASSUME bad # {} PROVE FALSE
  OBVIOUS
<1>1. PICK m \in bad : \A k \in bad : m <= k
  BY Smallest
<1>2. CASE m = 0
  <2>1. [k \in 0 .. 0 |-> x] \in Walks(0, x, f, S)
    BY DEF Walks
  <2> QED
    BY <1>2, <2>1
<1>3. CASE m # 0
  <2>1. m - 1 \in Nat /\ ~(m <= m - 1) /\ m \in Nat
    BY <1>3, SMT
  <2>2. PICK h : h \in Walks(m - 1, x, f, S)
    BY <1>1, <2>1
  <2>3. h \in [0 .. m - 1 -> S] /\ h[0] = x /\ \A k \in 1 .. m - 1 : h[k] = f[h[k - 1]]
    BY <2>2 DEF Walks
  <2> DEFINE g == [k \in 0 .. m |-> IF k = m THEN f[h[m - 1]] ELSE h[k]]
  <2>4. m - 1 \in 0 .. m - 1 /\ h[m - 1] \in S
    BY <2>1, <2>3, SMT
  <2>5. g \in [0 .. m -> S] /\ g[0] = x
    BY <1>3, <2>1, <2>3, <2>4, SMT
  <2>6. \A k \in 1 .. m : g[k] = f[g[k - 1]]
    <3> SUFFICES ASSUME NEW k \in 1 .. m PROVE g[k] = f[g[k - 1]]
      OBVIOUS
    <3>1. k - 1 \in 0 .. m - 1 /\ k - 1 # m /\ k \in 0 .. m /\ k - 1 \in 0 .. m
      BY <2>1, SMT
    <3>2. g[k - 1] = h[k - 1]
      BY <3>1
    <3>3. CASE k = m
      BY <3>1, <3>2, <3>3
    <3>4. CASE k # m
      <4>1. k \in 1 .. m - 1
        BY <2>1, <3>4, SMT
      <4> QED
        BY <2>3, <3>1, <3>2, <3>4, <4>1
    <3> QED
      BY <3>3, <3>4
  <2>7. g \in Walks(m, x, f, S)
    BY <2>5, <2>6 DEF Walks
  <2> QED
    BY <2>7
<1> QED
  BY <1>2, <1>3

\* Walks agree as far as they both go.
LEMMA WalkUnique ==
    ASSUME NEW S, NEW f, NEW x \in S, NEW m \in Nat, NEW n \in Nat,
           NEW g \in Walks(m, x, f, S), NEW h \in Walks(n, x, f, S),
           NEW j \in Nat, j <= m, j <= n
    PROVE  g[j] = h[j]
<1> DEFINE bad == {k \in Nat : k <= m /\ k <= n /\ g[k] # h[k]}
<1> SUFFICES ASSUME bad # {} PROVE FALSE
  OBVIOUS
<1>1. PICK k \in bad : \A l \in bad : k <= l
  BY Smallest
<1>2. k # 0
  BY DEF Walks
<1>3. k - 1 \in Nat /\ ~(k <= k - 1) /\ k - 1 <= m /\ k - 1 <= n /\ k \in 1 .. m /\ k \in 1 .. n
  BY <1>2, SMT
<1>4. g[k - 1] = h[k - 1]
  BY <1>1, <1>3
<1> QED
  BY <1>3, <1>4 DEF Walks

\* g is the walk from x along f, which does not leave S.
IsWalk(g, S, f, x) == g \in [Nat -> S] /\ g[0] = x /\ \A k \in Nat \ {0} : g[k] = f[g[k - 1]]
Stays(S, f) == \A s \in S : f[s] \in S

\* A walk exists: what the recursive definition of one defines.
LEMMA WalkFunction ==
    ASSUME NEW S, NEW f, NEW x \in S, Stays(S, f)
    PROVE  \E g : IsWalk(g, S, f, x)
<1> DEFINE H(n) == CHOOSE h \in Walks(n, x, f, S) : TRUE
<1>1. \A n \in Nat : H(n) \in Walks(n, x, f, S)
  BY WalkExists DEF Stays
<1> DEFINE g == [k \in Nat |-> H(k)[k]]
<1> HIDE DEF H
<1>2. ASSUME NEW k \in Nat PROVE g[k] \in S
  BY <1>1, SMT DEF Walks
<1>3. g[0] = x
  BY <1>1 DEF Walks
<1>4. ASSUME NEW k \in Nat \ {0} PROVE g[k] = f[g[k - 1]]
  <2>1. k - 1 \in Nat /\ k - 1 <= k /\ k - 1 <= k - 1 /\ k \in 1 .. k /\ k \in Nat
    BY SMT
  <2>2. H(k)[k] = f[H(k)[k - 1]]
    BY <1>1, <2>1 DEF Walks
  <2>3. H(k)[k - 1] = H(k - 1)[k - 1]
    BY <1>1, <2>1, WalkUnique
  <2> QED
    BY <2>1, <2>2, <2>3
<1>5. g \in [Nat -> S]
  BY <1>2
<1>6. IsWalk(g, S, f, x)
  BY <1>3, <1>4, <1>5 DEF IsWalk
<1> QED
  BY <1>6

\* The nodes that find_fit's loop meets.
LEMMA NodesFrom ==
    ASSUME IInv
    PROVE  /\ NodeAt \in [Nat -> FreeNodes] /\ NodeAt[0] = HEAD
           /\ \A k \in Nat \ {0} : NodeAt[k] = next_p[NodeAt[k - 1]]
<1> PICK S : S = FreeNodes
  OBVIOUS
<1> PICK f : f = next_p
  OBVIOUS
<1> PICK x : x = HEAD
  OBVIOUS
<1>1. x \in S /\ Stays(S, f)
  BY HeadIsFree DEF IInv, LinksInverse, Stays
<1>2. PICK g : IsWalk(g, S, f, x)
  BY <1>1, WalkFunction
<1>3. g = [k \in Nat |-> IF k = 0 THEN x ELSE f[g[k - 1]]]
  BY <1>2 DEF IsWalk
<1>4. NodeAt = [k \in Nat |-> IF k = 0 THEN x ELSE f[NodeAt[k - 1]]]
  BY <1>3 DEF NodeAt
<1>5. NodeAt[0] = x /\ \A k \in Nat \ {0} : NodeAt[k] = f[NodeAt[k - 1]]
  BY <1>4
<1>6. ASSUME NEW k \in Nat PROVE NodeAt[k] \in S
  <2> DEFINE bad == {m \in Nat : NodeAt[m] \notin S}
  <2> SUFFICES ASSUME bad # {} PROVE FALSE
    OBVIOUS
  <2>1. PICK m \in bad : \A l \in bad : m <= l
    BY Smallest
  <2>2. m # 0
    BY <1>1, <1>5, <2>1
  <2>3. m - 1 \in Nat /\ ~(m <= m - 1) /\ m \in Nat \ {0}
    BY <2>2, SMT
  <2>4. NodeAt[m - 1] \in S
    BY <2>1, <2>3
  <2> QED
    BY <1>1, <1>5, <2>3, <2>4 DEF Stays
<1>7. NodeAt \in [Nat -> S]
  BY <1>4, <1>6
<1> QED
  BY <1>5, <1>7

\* A walk that repeats nothing meets as many places as it has steps.
LEMMA WalkCount ==
    ASSUME NEW K \in Nat, NEW g, \A j, k \in 0 .. K - 1 : g[j] = g[k] => j = k
    PROVE  Cardinality({g[k] : k \in 0 .. K - 1}) = K
<1> DEFINE T == {g[k] : k \in 0 .. K - 1}
<1> DEFINE h == [k \in 0 .. K - 1 |-> g[k]]
<1>1. IsFiniteSet(0 .. K - 1) /\ Cardinality(0 .. K - 1) = K
  <2>1. 0 \in Int /\ K - 1 \in Int
    BY SMT
  <2>2. IsFiniteSet(0 .. K - 1) /\ Cardinality(0 .. K - 1) = IF 0 > K - 1 THEN 0 ELSE (K - 1) - 0 + 1
    BY <2>1, FS_Interval
  <2>3. (IF 0 > K - 1 THEN 0 ELSE (K - 1) - 0 + 1) = K
    BY SMT
  <2> QED
    BY <2>2, <2>3
<1>2. h \in Bijection(0 .. K - 1, T)
  <2>1. h \in [0 .. K - 1 -> T]
    OBVIOUS
  <2>2. \A t \in T : \E k \in 0 .. K - 1 : h[k] = t
    OBVIOUS
  <2>3. \A j, k \in 0 .. K - 1 : h[j] = h[k] => j = k
    OBVIOUS
  <2> QED
    BY <2>1, <2>2, <2>3 DEF Bijection, Injection, Surjection, IsInjective
<1>3. ExistsBijection(0 .. K - 1, T)
  BY <1>2 DEF ExistsBijection
<1> QED
  BY <1>1, <1>3, FS_Bijection

\* p undoes f; x is in no smaller closed set; g has met the n places of S after
\* n steps, and is then at e.
Undoes(S, f, p) == \A s \in S : p[s] \in S /\ p[f[s]] = s /\ f[p[s]] = s
Connected(S, f, x) == \A T \in SUBSET S : x \in T /\ Stays(T, f) => T = S
Covers(g, S, e) ==
    LET n == Cardinality(S)
    IN  n \in Nat /\ g[n] = e /\ {g[k] : k \in 0 .. n - 1} = S

\* A walk round a circle is back where it started as soon as it has been
\* everywhere, and repeats nothing before.
LEMMA CircleWalk ==
    ASSUME NEW S, NEW f, NEW p, NEW x \in S, NEW g,
           Stays(S, f), Undoes(S, f, p), Connected(S, f, x), IsWalk(g, S, f, x)
    PROVE  Covers(g, S, x)
<1>1. g[0] = x /\ \A k \in Nat : g[k] \in S /\ k + 1 \in Nat /\ g[k + 1] = f[g[k]]
  <2>1. \A k \in Nat : k + 1 \in Nat \ {0} /\ (k + 1) - 1 = k
    BY SMT
  <2> QED
    BY <2>1 DEF IsWalk
<1>2. \E m \in Nat : g[m] = p[x]
  <2> DEFINE T == {g[k] : k \in Nat}
  <2>1. T \in SUBSET S /\ x \in T
    BY <1>1
  <2>2. Stays(T, f)
    BY <1>1 DEF Stays
  <2>3. T = S
    BY <2>1, <2>2 DEF Connected
  <2> QED
    BY <2>3 DEF Undoes
<1> DEFINE back == {m \in Nat : g[m + 1] = x}
<1>3. back # {}
  <2>1. f[p[x]] = x
    BY DEF Undoes
  <2> QED
    BY <1>1, <1>2, <2>1
<1>4. PICK m \in back : \A k \in back : m <= k
  BY <1>3, Smallest
<1> DEFINE K == m + 1
<1>5. K \in Nat /\ g[K] = x /\ m \in Nat /\ K - 1 = m
  BY <1>1, <1>4, SMT
<1>6. {g[k] : k \in 0 .. m} = S
  <2> DEFINE T == {g[k] : k \in 0 .. m}
  <2>1. T \in SUBSET S /\ x \in T
    <3>1. 0 \in 0 .. m /\ \A k \in 0 .. m : k \in Nat
      BY <1>5, SMT
    <3> QED
      BY <1>1, <3>1
  <2>2. ASSUME NEW k \in 0 .. m PROVE f[g[k]] \in T
    <3>1. k \in Nat /\ (k = m \/ k + 1 \in 0 .. m)
      BY <1>5, SMT
    <3>2. CASE k = m
      BY <1>1, <1>5, <2>1, <3>2
    <3>3. CASE k + 1 \in 0 .. m
      BY <1>1, <3>1, <3>3
    <3> QED
      BY <3>1, <3>2, <3>3
  <2>3. Stays(T, f)
    BY <2>2 DEF Stays
  <2> QED
    BY <2>1, <2>3 DEF Connected
<1>7. \A j, k \in 0 .. m : g[j] = g[k] => j = k
  <2> DEFINE bad == {j \in Nat : \E k \in 0 .. m : j < k /\ g[j] = g[k]}
  <2>1. bad = {}
    <3> SUFFICES ASSUME bad # {} PROVE FALSE
      OBVIOUS
    <3>1. PICK j \in bad : \A l \in bad : j <= l
      BY Smallest
    <3>2. PICK k \in 0 .. m : j < k /\ g[j] = g[k]
      OBVIOUS
    <3>3. k - 1 \in Nat /\ k \in Nat /\ (k - 1) + 1 = k /\ k - 1 \in 0 .. m /\ ~(m <= k - 1)
      BY <1>5, <3>2, SMT
    <3>4. CASE j = 0
      <4>1. k - 1 \in back
        BY <1>1, <3>2, <3>3, <3>4
      <4> QED
        BY <1>4, <3>3, <4>1
    <3>5. CASE j # 0
      <4>1. j - 1 \in Nat /\ (j - 1) + 1 = j /\ j - 1 < k - 1 /\ ~(j <= j - 1)
        BY <3>2, <3>3, <3>5, SMT
      <4>2. g[j] = f[g[j - 1]] /\ g[k] = f[g[k - 1]] /\ g[j - 1] \in S /\ g[k - 1] \in S
        BY <1>1, <3>3, <4>1
      <4>3. g[j - 1] = g[k - 1]
        <5>1. PICK a \in S : a = g[j - 1]
          BY <4>2
        <5>2. PICK b \in S : b = g[k - 1]
          BY <4>2
        <5>3. f[a] = f[b]
          BY <3>2, <4>2, <5>1, <5>2
        <5>4. a = b
          BY <5>3 DEF Undoes
        <5> QED
          BY <5>1, <5>2, <5>4
      <4>4. j - 1 \in bad
        BY <3>3, <4>1, <4>3
      <4> QED
        BY <3>1, <4>1, <4>4
    <3> QED
      BY <3>4, <3>5
  <2> SUFFICES ASSUME NEW j \in 0 .. m, NEW k \in 0 .. m, g[j] = g[k], j # k PROVE FALSE
    OBVIOUS
  <2>2. j \in Nat /\ k \in Nat /\ (j < k \/ k < j)
    BY <1>5, SMT
  <2>3. j \in bad \/ k \in bad
    BY <2>2
  <2> QED
    BY <2>1, <2>3
<1>8. Cardinality({g[k] : k \in 0 .. K - 1}) = K
  <2>1. \A j, k \in 0 .. K - 1 : g[j] = g[k] => j = k
    BY <1>5, <1>7
  <2> HIDE DEF K
  <2> QED
    BY <1>5, <2>1, WalkCount
<1> HIDE DEF K
<1>9. Cardinality(S) = K
  BY <1>5, <1>6, <1>8
<1> QED
  BY <1>5, <1>6, <1>9 DEF Covers

\* Blocks B of the sizes z fill the numbers below e; f steps over one of them.
Tiles(B, z, e) ==
    /\ 0 \in B /\ \A b \in B : b \in Nat /\ z[b] \in Nat \ {0} /\ b < e
    /\ \A b \in B : b + z[b] = e \/ b + z[b] \in B
    /\ \A b, c \in B : b < c => b + z[b] <= c
StepsOver(B, z, e, f) == f[e] = e /\ \A b \in B : f[b] = b + z[b]

\* A walk over blocks without gaps that starts at the first of them meets each
\* of them and stops at the end.
LEMMA LineWalk ==
    ASSUME NEW B, NEW z, NEW e \in Nat, NEW f, NEW g, Tiles(B, z, e),
           StepsOver(B, z, e, f), IsWalk(g, B \cup {e}, f, 0)
    PROVE  Covers(g, B, e)
<1>1. g[0] = 0 /\ \A k \in Nat : g[k] \in B \cup {e} /\ k + 1 \in Nat /\ g[k + 1] = f[g[k]]
  <2>1. \A k \in Nat : k + 1 \in Nat \ {0} /\ (k + 1) - 1 = k
    BY SMT
  <2> QED
    BY <2>1 DEF IsWalk
<1>2. ASSUME NEW k \in Nat, g[k] \in B
      PROVE  g[k] \in Nat /\ g[k + 1] \in Nat /\ g[k + 1] > g[k]
             /\ \A b \in B : g[k] < b => g[k + 1] <= b
  <2>1. PICK b \in B : b = g[k]
    BY <1>2
  <2>2. g[k + 1] = b + z[b] /\ b \in Nat /\ z[b] \in Nat /\ z[b] > 0
    BY <1>1, <2>1, SMT DEF Tiles, StepsOver
  <2>3. \A c \in B : b < c => b + z[b] <= c
    BY DEF Tiles
  <2> QED
    BY <2>1, <2>2, <2>3, SMT
<1> DEFINE ends == {k \in Nat : g[k] = e}
<1>3. ends # {}
  <2> SUFFICES ASSUME ends = {} PROVE FALSE
    OBVIOUS
  <2>1. \A k \in Nat : g[k] \in B
    BY <1>1
  <2> DEFINE bad == {k \in Nat : g[k] < k}
  <2>2. bad = {}
    <3> SUFFICES ASSUME bad # {} PROVE FALSE
      OBVIOUS
    <3>1. PICK m \in bad : \A k \in bad : m <= k
      BY Smallest
    <3>2. m # 0
      BY <1>1, <3>1, SMT
    <3>3. m - 1 \in Nat /\ (m - 1) + 1 = m /\ ~(m <= m - 1) /\ m \in Nat
      BY <3>2, SMT
    <3>4. ~(g[m - 1] < m - 1) /\ g[m] < m
      BY <3>1, <3>3
    <3>5. g[m - 1] \in Nat /\ g[m] \in Nat /\ g[m] > g[m - 1]
      BY <1>2, <2>1, <3>3
    <3> QED
      BY <3>3, <3>4, <3>5, SMT
  <2>3. ~(g[e] < e) /\ g[e] \in B
    BY <2>1, <2>2
  <2> QED
    BY <2>3 DEF Tiles
<1>4. PICK K \in ends : \A k \in ends : K <= k
  BY <1>3, Smallest
<1>5. K \in Nat /\ K # 0 /\ g[K] = e /\ K - 1 \in Nat
  <2>1. K \in Nat /\ g[K] = e
    BY <1>4
  <2>2. K # 0
    BY <1>1, <2>1, SMT DEF Tiles
  <2> QED
    BY <2>1, <2>2, SMT
<1>6. ASSUME NEW k \in 0 .. K - 1 PROVE k \in Nat /\ g[k] \in B
  <2>1. k \in Nat /\ ~(K <= k)
    BY <1>5, SMT
  <2> QED
    BY <1>1, <1>4, <2>1
<1>7. ASSUME NEW k \in Nat, k < K, NEW j \in Nat, j < k PROVE g[j] < g[k]
  <2> DEFINE bad == {n \in Nat : n < K /\ \E i \in Nat : i < n /\ ~(g[i] < g[n])}
  <2>1. bad = {}
    <3> SUFFICES ASSUME bad # {} PROVE FALSE
      OBVIOUS
    <3>1. PICK m \in bad : \A l \in bad : m <= l
      BY Smallest
    <3>2. PICK i \in Nat : i < m /\ ~(g[i] < g[m])
      OBVIOUS
    <3>3. m - 1 \in 0 .. K - 1 /\ m \in Nat /\ m < K /\ (m - 1) + 1 = m /\ ~(m <= m - 1) /\ m - 1 < K
          /\ i \in 0 .. K - 1 /\ (i = m - 1 \/ i < m - 1)
      BY <1>5, <3>1, <3>2, SMT
    <3>4. g[m - 1] \in Nat /\ g[m] \in Nat /\ g[m] > g[m - 1] /\ g[i] \in Nat /\ m - 1 \in Nat
      BY <1>2, <1>6, <3>3
    <3>5. CASE i = m - 1
      BY <3>2, <3>4, <3>5, SMT
    <3>6. CASE i < m - 1
      <4>1. g[i] < g[m - 1]
        BY <3>1, <3>3, <3>4, <3>6
      <4> QED
        BY <3>2, <3>4, <4>1, SMT
    <3> QED
      BY <3>3, <3>5, <3>6
  <2> QED
    BY <1>7, <2>1
<1>8. {g[k] : k \in 0 .. K - 1} = B
  <2>1. \A k \in 0 .. K - 1 : g[k] \in B
    BY <1>6
  <2>2. ASSUME NEW b \in B, \A k \in 0 .. K - 1 : g[k] # b PROVE FALSE
    <3> DEFINE bad == {k \in Nat : k <= K /\ ~(g[k] <= b)}
    <3>0. b \in Nat /\ b < e
      BY DEF Tiles
    <3>1. bad # {}
      <4>1. ~(e <= b) /\ K <= K
        BY <1>5, <3>0, SMT
      <4> QED
        BY <1>5, <4>1
    <3>2. PICK m \in bad : \A l \in bad : m <= l
      BY <3>1, Smallest
    <3>3. m # 0
      <4>1. 0 <= b
        BY <3>0, SMT
      <4> QED
        BY <1>1, <3>2, <4>1
    <3>4. m - 1 \in 0 .. K - 1 /\ m - 1 <= K /\ (m - 1) + 1 = m /\ ~(m <= m - 1) /\ m - 1 \in Nat
      BY <1>5, <3>2, <3>3, SMT
    <3>5. g[m - 1] <= b /\ g[m - 1] # b /\ g[m - 1] \in Nat
      BY <1>2, <1>6, <2>2, <3>2, <3>4
    <3>6. g[m - 1] < b
      BY <3>0, <3>5, SMT
    <3>7. g[m] <= b
      BY <1>2, <1>6, <3>4, <3>6
    <3> QED
      BY <3>2, <3>7
  <2> QED
    BY <2>1, <2>2
<1>9. Cardinality({g[k] : k \in 0 .. K - 1}) = K
  <2>1. ASSUME NEW j \in 0 .. K - 1, NEW k \in 0 .. K - 1, g[j] = g[k] PROVE j = k
    <3>1. j \in Nat /\ k \in Nat /\ j < K /\ k < K /\ g[j] \in Nat /\ ~(g[j] < g[k]) /\ ~(g[k] < g[j])
      <4>1. g[j] \in Nat
        BY <1>2, <1>6
      <4> QED
        BY <1>5, <2>1, <4>1, SMT
    <3>2. ~(j < k) /\ ~(k < j)
      BY <1>7, <3>1
    <3> QED
      BY <3>1, <3>2, SMT
  <2> QED
    BY <1>5, <2>1, WalkCount
<1> QED
  BY <1>5, <1>8, <1>9 DEF Covers

\* The blocks that print_heap meets.
LEMMA WalkFrom ==
    ASSUME WInv
    PROVE  LET n == Cardinality(blocks)
           IN  print_heap = blocks /\ WalkAt[n] = mem_heap_lo + mem_heapsize
<1> PICK B : B = blocks
  OBVIOUS
<1> PICK e : e = brk
  OBVIOUS
<1> DEFINE z == [b \in B |-> Sz(b)]
<1> DEFINE f == [s \in B \cup {e} |-> IF s >= e - 1 THEN s ELSE s + Sz(s)]
<1>1. IInv
  BY DEF WInv
<1>2. \A b \in B : b \in Nat /\ Sz(b) \in Nat /\ Sz(b) > 1 /\ b + Sz(b) <= e /\ b < e - 1 /\ b < e
  <2> TAKE b \in B
  <2>1. b \in Nat /\ Sz(b) \in Nat /\ BLK_HDR_SIZE <= Sz(b) /\ Sz(b) % 2 = 0 /\ b + Sz(b) <= brk
        /\ brk \in Nat
    BY <1>1, BlockFacts
  <2>2. BLK_HDR_SIZE \in Nat \ {0}
    BY HeaderFits DEF HeaderFits
  <2> QED
    BY <2>1, <2>2, SMT
<1>3. e \in Nat /\ 0 \in B
  BY <1>1, HeadIsFree, BlockFacts DEF HEAD, mem_heap_lo
<1>4. Tiles(B, z, e)
  <2>1. \A b \in B : z[b] = Sz(b) /\ z[b] \in Nat \ {0}
    BY <1>2, SMT
  <2>2. \A b \in B : b + Sz(b) = e \/ b + Sz(b) \in B
    BY DEF WInv, NoGaps
  <2>3. \A b, c \in B : b < c => b + Sz(b) <= c
    BY <1>1 DEF IInv, BlocksDisjoint
  <2> HIDE DEF z
  <2> QED
    BY <1>2, <1>3, <2>1, <2>2, <2>3 DEF Tiles
<1>5. f[e] = e /\ \A b \in B : f[b] = b + z[b]
  <2>1. e >= e - 1 /\ \A b \in B : ~(b >= e - 1)
    BY <1>2, <1>3, SMT
  <2> QED
    BY <2>1
<1>6. Stays(B \cup {e}, f) /\ 0 \in B \cup {e}
  <2>1. \A b \in B : f[b] \in B \cup {e}
    BY <1>4, <1>5 DEF Tiles
  <2> QED
    BY <1>3, <1>5, <2>1 DEF Stays
<1>7. \A s \in B \cup {e} : f[s] = IF s >= e - 1 THEN s ELSE s + Sz(s)
  OBVIOUS
<1> PICK ff : ff = f
  OBVIOUS
<1> PICK zz : zz = z
  OBVIOUS
<1>8. /\ Tiles(B, zz, e) /\ StepsOver(B, zz, e, ff)
      /\ Stays(B \cup {e}, ff)
      /\ \A s \in B \cup {e} : ff[s] = IF s >= e - 1 THEN s ELSE s + Sz(s)
  BY <1>4, <1>5, <1>6, <1>7 DEF StepsOver
<1> HIDE DEF z, f
<1>9. PICK h : IsWalk(h, B \cup {e}, ff, 0)
  BY <1>6, <1>8, WalkFunction
<1>10. h = [k \in Nat |-> IF k = 0 THEN 0 ELSE IF h[k - 1] >= e - 1 THEN h[k - 1]
                                            ELSE h[k - 1] + Sz(h[k - 1])]
  <2>1. \A k \in Nat \ {0} : k - 1 \in Nat
    BY SMT
  <2>2. \A k \in Nat \ {0} : h[k - 1] \in B \cup {e} /\ h[k] = ff[h[k - 1]]
    BY <1>9, <2>1 DEF IsWalk
  <2>3. \A k \in Nat \ {0} : h[k] = IF h[k - 1] >= e - 1 THEN h[k - 1] ELSE h[k - 1] + Sz(h[k - 1])
    BY <1>8, <2>2
  <2>4. h = [k \in Nat |-> h[k]] /\ h[0] = 0
    BY <1>9 DEF IsWalk
  <2> QED
    BY <2>3, <2>4
<1>11. WalkAt = [k \in Nat |-> IF k = 0 THEN 0 ELSE IF WalkAt[k - 1] >= e - 1 THEN WalkAt[k - 1]
                                            ELSE WalkAt[k - 1] + Sz(WalkAt[k - 1])]
  BY <1>10 DEF WalkAt, HEAD, mem_heap_lo, mem_heap_hi
<1> PICK w : w = WalkAt
  OBVIOUS
<1>12. w[0] = 0 /\ \A k \in Nat \ {0} : w[k] = IF w[k - 1] >= e - 1 THEN w[k - 1]
                                               ELSE w[k - 1] + Sz(w[k - 1])
  BY <1>11
<1>13. ASSUME NEW k \in Nat PROVE w[k] \in B \cup {e}
  <2> DEFINE bad == {m \in Nat : w[m] \notin B \cup {e}}
  <2> SUFFICES ASSUME bad # {} PROVE FALSE
    OBVIOUS
  <2>1. PICK m \in bad : \A l \in bad : m <= l
    BY Smallest
  <2>2. m # 0
    BY <1>3, <1>12, <2>1
  <2>3. m - 1 \in Nat /\ ~(m <= m - 1) /\ m \in Nat \ {0}
    BY <2>2, SMT
  <2>4. w[m - 1] \in B \cup {e}
    BY <2>1, <2>3
  <2>5. w[m] = ff[w[m - 1]]
    BY <1>8, <1>12, <2>3, <2>4
  <2> QED
    BY <1>8, <2>1, <2>4, <2>5 DEF Stays
<1>14. IsWalk(w, B \cup {e}, ff, 0)
  <2>1. ASSUME NEW k \in Nat \ {0} PROVE w[k] = ff[w[k - 1]]
    <3>1. k - 1 \in Nat
      BY SMT
    <3>2. w[k - 1] \in B \cup {e}
      BY <1>13, <3>1
    <3> QED
      BY <1>8, <1>12, <3>2
  <2>2. w \in [Nat -> B \cup {e}]
    BY <1>11, <1>13
  <2> QED
    BY <1>12, <2>1, <2>2 DEF IsWalk
<1>15. Covers(w, B, e)
  <2>1. e \in Nat /\ Tiles(B, zz, e) /\ StepsOver(B, zz, e, ff)
    BY <1>3, <1>8
  <2> QED
    BY <1>14, <2>1, LineWalk
<1>16. mem_heap_lo + mem_heapsize = e
  BY <1>3, SMT DEF mem_heap_lo, mem_heapsize
<1> QED
  BY <1>15, <1>16 DEF print_heap, Covers

\* find_fit's loop and print_heap's, mm-explicit.c: each meets every block it
\* is about, and stops where it should.
THEOREM NoBlockLost == Spec => []WalksComplete
<1>1. ASSUME WInv PROVE WalksComplete
  <2> PICK S : S = FreeNodes
    OBVIOUS
  <2> PICK f : f = next_p
    OBVIOUS
  <2> PICK p : p = prior_p
    OBVIOUS
  <2> PICK x : x = HEAD
    OBVIOUS
  <2> PICK g : g = NodeAt
    OBVIOUS
  <2>1. IInv
    BY <1>1 DEF WInv
  <2>2. x \in S /\ Stays(S, f) /\ Undoes(S, f, p)
    BY <2>1, HeadIsFree DEF IInv, LinksInverse, Stays, Undoes
  <2>3. Connected(S, f, x)
    BY <1>1 DEF WInv, OneCircle, Closed, Connected, Stays
  <2>4. IsWalk(g, S, f, x)
    BY <2>1, NodesFrom DEF IsWalk
  <2>5. Covers(g, S, x)
    BY <2>2, <2>3, <2>4, CircleWalk
  <2>6. print_heap = blocks /\ WalkAt[Cardinality(blocks)] = mem_heap_lo + mem_heapsize
    BY <1>1, WalkFrom
  <2> QED
    BY <2>5, <2>6 DEF WalksComplete, Covers
<1> QED
  BY <1>1, WalkInvariant, PTL

=============================================================================
