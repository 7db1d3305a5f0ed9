----------------------------- MODULE MMExplicit -----------------------------
(***************************************************************************)
(* cs351/mps/05/mm-explicit.c on top of memlib.c: an allocator whose free  *)
(* blocks are kept on a circular doubly linked list, first fit, LIFO       *)
(* insertion, no splitting and no coalescing.                              *)
(*                                                                         *)
(* Addresses are offsets from mem_start_brk.  A block is named by the      *)
(* address of its header; the three header fields are the functions size,  *)
(* next_p and prior_p over the addresses of headers written so far.  Bit 0 *)
(* of size is the "allocated" bit, as in the code.  The loop of find_fit   *)
(* takes one step per node, so that its termination is something to check. *)
(***************************************************************************)
EXTENDS MemLib, FiniteSets

CONSTANT BLK_HDR_SIZE     \* ALIGN(sizeof(blockHdr)): 24 in the code

ASSUME HeaderFits ==
    /\ BLK_HDR_SIZE \in Nat \ {0} /\ BLK_HDR_SIZE % ALIGNMENT = 0
    /\ BLK_HDR_SIZE <= MAX_HEAP
    /\ BLK_HDR_SIZE + 2 * ALIGNMENT < INT_MAX

VARIABLES size, next_p, prior_p,
          live,      \* the caller's payloads: address -> size asked for
          pc,        \* where the package is: "idle", "find_fit" or "copy"
          call,      \* arguments of the call in progress
          bp         \* the local p of find_fit, then the block obtained

vars == <<brk, mem, size, next_p, prior_p, live, pc, call, bp>>

NULL == -1
HEAD == mem_heap_lo
NoCall == [ptr |-> NULL, size |-> 0]

blocks == DOMAIN size
Sz(b) == size[b] - (size[b] % 2)         \* bp->size & ~1
Used(b) == size[b] % 2 = 1             \* bp->size & 1
Bug_newsize_no_header == ToInt(ALIGN(call.size))     \* variant: header forgotten
newsize == ToInt(ALIGN(BLK_HDR_SIZE + call.size))

-----------------------------------------------------------------------------
(* mm_init on a heap that mem_reset_brk has just emptied *)

mm_init ==
    /\ brk = BLK_HDR_SIZE
    /\ \E v \in Byte : mem = [a \in 0 .. MAX_HEAP |-> v]
    /\ size = [b \in {HEAD} |-> BLK_HDR_SIZE]
    /\ next_p = [b \in {HEAD} |-> HEAD]
    /\ prior_p = [b \in {HEAD} |-> HEAD]
    /\ live = [p \in {} |-> 0]
    /\ pc = "idle"
    /\ call = NoCall
    /\ bp = HEAD

-----------------------------------------------------------------------------
(* mm_malloc and the mm_malloc of mm_realloc: ptr is NULL in the former *)

EnterMalloc(ptr, n) ==
    /\ pc = "idle"
    /\ call' = [ptr |-> ptr, size |-> n]
    /\ bp' = next_p[HEAD]
    /\ pc' = "find_fit"
    /\ UNCHANGED <<brk, mem, size, next_p, prior_p, live>>

mm_malloc(n) == EnterMalloc(NULL, n)
mm_realloc(ptr, n) == ptr \in DOMAIN live /\ EnterMalloc(ptr, n)

Bug_TooSmall_exact(b) == newsize < 0 \/ size[b] <= newsize   \* variant: < as <=

\* p->size < size, where size is newsize converted to size_t: a negative
\* newsize is larger than every block.
TooSmall(b) == newsize < 0 \/ size[b] < newsize

Back == pc' = "idle" /\ call' = NoCall /\ bp' = HEAD

\* mm_malloc returns block b: to the caller, or to mm_realloc, which goes on.
Obtained(b) ==
    IF call.ptr = NULL
    THEN live' = With(live, b + BLK_HDR_SIZE, call.size) /\ Back
    ELSE pc' = "copy" /\ bp' = b /\ UNCHANGED <<call, live>>

FindNext ==
    /\ pc = "find_fit"
    /\ bp # HEAD /\ TooSmall(bp)
    /\ bp' = next_p[bp]
    /\ UNCHANGED <<brk, mem, size, next_p, prior_p, live, pc, call>>

TakeFit ==
    /\ pc = "find_fit"
    /\ bp # HEAD /\ ~TooSmall(bp)
    /\ size' = [size EXCEPT ![bp] = Sz(bp) + 1]
    /\ next_p' = [next_p EXCEPT ![prior_p[bp]] = next_p[bp]]
    /\ prior_p' = [prior_p EXCEPT ![next_p[bp]] = prior_p[bp]]
    /\ Obtained(bp)
    /\ UNCHANGED <<brk, mem>>

\* Only size is written in the new header: its links are not read before
\* mm_free writes them.
ExtendHeap ==
    /\ pc = "find_fit"
    /\ bp = HEAD
    /\ mem_sbrk(newsize)
    /\ size' = With(size, brk, newsize + 1)
    /\ next_p' = With(next_p, brk, NULL)
    /\ prior_p' = With(prior_p, brk, NULL)
    /\ Obtained(brk)
    /\ UNCHANGED mem

OutOfMemory ==
    /\ pc = "find_fit"
    /\ bp = HEAD
    /\ mem_sbrk_fails(newsize)
    /\ Back
    /\ UNCHANGED <<brk, mem, size, next_p, prior_p, live>>

-----------------------------------------------------------------------------

\* Variants of FreeBlock: the allocated bit is left set; the head is linked
\* before its old successor is read; the old list is dropped.
Bug_FreeBlock_bit(b) ==
    /\ size' = size
    /\ next_p' = [next_p EXCEPT ![b] = next_p[HEAD], ![HEAD] = b]
    /\ prior_p' = [prior_p EXCEPT ![b] = HEAD, ![next_p[HEAD]] = b]
Bug_FreeBlock_order(b) ==
    /\ size' = [size EXCEPT ![b] = Sz(b)]
    /\ next_p' = [next_p EXCEPT ![HEAD] = b, ![b] = b]
    /\ prior_p' = [prior_p EXCEPT ![b] = b]
Bug_FreeBlock_drop(b) ==
    /\ size' = [size EXCEPT ![b] = Sz(b)]
    /\ next_p' = [next_p EXCEPT ![b] = HEAD, ![HEAD] = b]
    /\ prior_p' = [prior_p EXCEPT ![b] = HEAD, ![HEAD] = b]

\* The header updates of mm_free for the block b.
FreeBlock(b) ==
    /\ size' = [size EXCEPT ![b] = Sz(b)]
    /\ next_p' = [next_p EXCEPT ![b] = next_p[HEAD], ![HEAD] = b]
    /\ prior_p' = [prior_p EXCEPT ![b] = HEAD, ![next_p[HEAD]] = b]

mm_free(ptr) ==
    /\ pc = "idle"
    /\ ptr \in DOMAIN live
    /\ FreeBlock(ptr - BLK_HDR_SIZE)
    /\ live' = Without(live, ptr)
    /\ UNCHANGED <<brk, mem, pc, call, bp>>

Bug_copySize_header ==                  \* variant: takes the header off twice
    LET capacity == size[call.ptr - BLK_HDR_SIZE] - 2 * BLK_HDR_SIZE
    IN  IF call.size < capacity THEN call.size ELSE capacity

\* int copySize: the allocated bit is still in bp->size, so a block of
\* capacity c that grows is copied with c + 1 bytes.
copySize ==
    LET capacity == size[call.ptr - BLK_HDR_SIZE] - BLK_HDR_SIZE
    IN  IF call.size < capacity THEN call.size ELSE capacity

\* The rest of mm_realloc once mm_malloc has returned the block bp.
CopyAndFree ==
    LET newptr == bp + BLK_HDR_SIZE
    IN  /\ pc = "copy"
        /\ mem' = memcpy(newptr, call.ptr, copySize)
        /\ FreeBlock(call.ptr - BLK_HDR_SIZE)
        /\ live' = With(Without(live, call.ptr), newptr, call.size)
        /\ Back
        /\ UNCHANGED brk

-----------------------------------------------------------------------------

\* The caller stores v in byte i of its payload p.
Store(p, i, v) ==
    /\ pc = "idle"
    /\ p \in DOMAIN live
    /\ i \in 0 .. live[p] - 1
    /\ mem' = [mem EXCEPT ![p + i] = v]
    /\ UNCHANGED <<brk, size, next_p, prior_p, live, pc, call, bp>>

Caller ==
    \/ \E n \in Sizes : mm_malloc(n)
    \/ \E p \in DOMAIN live :
        \/ mm_free(p)
        \/ \E n \in Sizes : mm_realloc(p, n)
        \/ \E i \in 0 .. live[p] - 1, v \in Byte : Store(p, i, v)

Package == FindNext \/ TakeFit \/ ExtendHeap \/ OutOfMemory \/ CopyAndFree

Next == Caller \/ Package

Spec == mm_init /\ [][Next]_vars

\* The package is sequential code that runs on once it is called; nothing
\* obliges the caller to call.
FairSpec == Spec /\ WF_vars(Package)

-----------------------------------------------------------------------------
(* Properties *)

\* Types: the break, the bytes, the headers, the caller's view and the call in
\* progress (mm-explicit.c's struct header and locals).
TypeOK ==
    /\ brk \in BLK_HDR_SIZE .. MAX_HEAP
    /\ mem \in [0 .. MAX_HEAP -> Byte]
    /\ blocks \subseteq 0 .. MAX_HEAP
    /\ size \in [blocks -> Nat]
    /\ next_p \in [blocks -> blocks \cup {NULL}]
    /\ prior_p \in [blocks -> blocks \cup {NULL}]
    /\ DOMAIN live \subseteq 0 .. MAX_HEAP
    /\ live \in [DOMAIN live -> Sizes]
    /\ pc \in {"idle", "find_fit", "copy"}
    /\ call \in [ptr : DOMAIN live \cup {NULL}, size : Sizes \cup {0}]
    /\ bp \in blocks

FreeNodes == {b \in blocks : ~Used(b)}       \* the sentinel included

\* Blocks are aligned, inside the heap and disjoint; the sentinel is block 0.
BlocksDisjoint ==
    /\ HEAD \in blocks /\ size[HEAD] = BLK_HDR_SIZE
    /\ brk % ALIGNMENT = 0
    /\ \A b \in blocks :
        /\ b % ALIGNMENT = 0 /\ Sz(b) % ALIGNMENT = 0
        /\ BLK_HDR_SIZE <= Sz(b) /\ b + Sz(b) <= brk
        /\ \A c \in blocks : b < c => b + Sz(b) <= c

\* next_p and prior_p are inverse permutations of the free blocks and the
\* sentinel: no link leads to an allocated block.
LinksInverse ==
    \A b \in FreeNodes :
        /\ next_p[b] \in FreeNodes /\ prior_p[b] \in FreeNodes
        /\ prior_p[next_p[b]] = b
        /\ next_p[prior_p[b]] = b

\* Every payload the caller holds is in an allocated block that is large
\* enough for it.
LiveInUsedBlocks ==
    \A p \in DOMAIN live :
        /\ p - BLK_HDR_SIZE \in blocks
        /\ Used(p - BLK_HDR_SIZE)
        /\ BLK_HDR_SIZE + live[p] <= Sz(p - BLK_HDR_SIZE)

\* What mm_malloc and mm_realloc rely on between their steps.
CallConsistent ==
    /\ pc = "idle" => call = NoCall
    /\ pc # "idle" => call.size \in Sizes
    /\ pc = "find_fit" => bp \in FreeNodes
    /\ pc = "copy" => /\ call.ptr # NULL
                      /\ bp \in blocks /\ Used(bp)
                      /\ bp + BLK_HDR_SIZE \notin DOMAIN live
                      /\ BLK_HDR_SIZE + call.size <= Sz(bp)

\* The invariant of the data structures of mm-explicit.c, which every step of
\* mm_malloc, mm_realloc and mm_free keeps.
IInv == TypeOK /\ BlocksDisjoint /\ LinksInverse /\ LiveInUsedBlocks
               /\ CallConsistent

\* The payloads the caller holds are aligned, lie between the sentinel and
\* the break, and share no byte with each other or with any block header.
PayloadsSafe ==
    \A p \in DOMAIN live :
        /\ p % ALIGNMENT = 0
        /\ p + live[p] <= brk
        /\ \A q \in DOMAIN live : p < q => p + live[p] <= q
        /\ \A b \in blocks : p + live[p] <= b \/ b + BLK_HDR_SIZE <= p

-----------------------------------------------------------------------------

\* The k-th node of the walk that find_fit makes from the sentinel.
NodeAt[k \in Nat] == IF k = 0 THEN HEAD ELSE next_p[NodeAt[k - 1]]

\* The k-th block of print_heap's walk, which stops at the last heap byte.
WalkAt[k \in Nat] ==
    IF k = 0 THEN HEAD
    ELSE IF WalkAt[k - 1] >= mem_heap_hi THEN WalkAt[k - 1]
         ELSE WalkAt[k - 1] + Sz(WalkAt[k - 1])

print_heap == {WalkAt[k] : k \in 0 .. Cardinality(blocks) - 1}

\* No block is lost.  The list from the sentinel passes through every free
\* block and comes back to the sentinel, where find_fit's loop stops; stepping
\* over sizes from mem_heap_lo meets every block once, no other address, and
\* ends exactly at the break.
WalksComplete ==
    LET n == Cardinality(FreeNodes)
    IN  /\ {NodeAt[k] : k \in 0 .. n - 1} = FreeNodes
        /\ NodeAt[n] = HEAD
        /\ print_heap = blocks
        /\ WalkAt[Cardinality(blocks)] = mem_heap_lo + mem_heapsize

\* The break moves only when no free block on the heap has room for the header
\* and the payload asked for: find_fit misses none.
GrowOnlyWhenNothingFits ==
    [][brk' # brk => \A b \in FreeNodes \ {HEAD} :
                        Sz(b) < BLK_HDR_SIZE + call.size]_vars

\* The search of find_fit ends, so every call returns.
CallsReturn == pc # "idle" ~> pc = "idle"

-----------------------------------------------------------------------------
(* Implementation of HeapSpec *)

data == [p \in DOMAIN live |-> [i \in 0 .. live[p] - 1 |-> mem[p + i]]]

Heap == INSTANCE HeapSpec

\* Whatever the calls, the caller sees disjoint payloads whose bytes only it
\* changes, and mm_realloc keeps the common prefix.
ImplementsHeap == Heap!HeapSpec

=============================================================================
