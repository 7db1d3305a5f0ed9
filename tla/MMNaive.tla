------------------------------ MODULE MMNaive -------------------------------
(***************************************************************************)
(* cs351/mps/05/mm.c on top of memlib.c: the break is all the state the    *)
(* package has, freed memory is never used again, and the word before a    *)
(* payload holds the size it was asked for.  Addresses are offsets from    *)
(* mem_start_brk.                                                          *)
(***************************************************************************)
EXTENDS MemLib

VARIABLES header,   \* header address -> the size_t stored there
          live      \* the caller's payloads: address -> size asked for

vars == <<brk, mem, header, live>>

Bug_newsize_unaligned(n) == ToInt(n + SIZE_T_SIZE)      \* variant: no ALIGN
newsize(n) == ToInt(ALIGN(n + SIZE_T_SIZE))

\* mm_init does nothing; mem_reset_brk has emptied the heap.
mm_init ==
    /\ mem_init
    /\ header = [b \in {} |-> 0]
    /\ live = [p \in {} |-> 0]

\* The part of mm_malloc that follows a successful mem_sbrk: the block at the
\* old break gets its header.
Bump(n) ==
    /\ mem_sbrk(newsize(n))
    /\ header' = With(header, brk, n)

mm_malloc(n) ==
    /\ Bump(n)
    /\ live' = With(live, brk + SIZE_T_SIZE, n)
    /\ UNCHANGED mem

mm_free(ptr) ==
    /\ live' = Without(live, ptr)          \* the caller's view: no code runs
    /\ UNCHANGED <<brk, mem, header>>

copySize(ptr, n) ==
    LET old == header[ptr - SIZE_T_SIZE] IN IF n < old THEN n ELSE old

\* Variant: the copy starts at the old header.
Bug_mm_realloc_header(ptr, n) ==
    LET newptr == brk + SIZE_T_SIZE
    IN  /\ Bump(n)
        /\ mem' = memcpy(newptr, ptr - SIZE_T_SIZE, copySize(ptr, n))
        /\ live' = With(Without(live, ptr), newptr, n)

mm_realloc(ptr, n) ==
    LET newptr == brk + SIZE_T_SIZE
    IN  /\ Bump(n)
        /\ mem' = memcpy(newptr, ptr, copySize(ptr, n))
        /\ live' = With(Without(live, ptr), newptr, n)

\* mm_malloc or mm_realloc returning NULL.
OutOfMemory(n) == mem_sbrk_fails(newsize(n)) /\ UNCHANGED vars

\* The caller stores v in byte i of its payload p.
Store(p, i, v) ==
    /\ mem' = [mem EXCEPT ![p + i] = v]
    /\ UNCHANGED <<brk, header, live>>

Next ==
    \/ \E n \in Sizes : mm_malloc(n) \/ OutOfMemory(n)
    \/ \E p \in DOMAIN live :
        \/ mm_free(p)
        \/ \E n \in Sizes : mm_realloc(p, n)
        \/ \E i \in 0 .. live[p] - 1, v \in Byte : Store(p, i, v)

Spec == mm_init /\ [][Next]_vars

-----------------------------------------------------------------------------
(* Properties *)

\* Types of mm.c's state: the break, the bytes, the size words and the caller's
\* payloads.
TypeOK ==
    /\ brk \in 0 .. MAX_HEAP
    /\ mem \in [0 .. MAX_HEAP -> Byte]
    /\ header \in [DOMAIN header -> Sizes]
    /\ live \in [DOMAIN live -> Sizes]

\* mm_malloc's layout: payloads lie behind their headers, below the break, and apart.
NaiveInv ==
    /\ TypeOK
    /\ brk % ALIGNMENT = 0
    /\ \A p \in DOMAIN live :
        /\ p \in Nat /\ p % ALIGNMENT = 0
        /\ p - SIZE_T_SIZE \in DOMAIN header
        /\ header[p - SIZE_T_SIZE] = live[p]
        /\ p + live[p] <= brk
        /\ \A q \in DOMAIN live : p < q => p + live[p] <= q - SIZE_T_SIZE

data == [p \in DOMAIN live |-> [i \in 0 .. live[p] - 1 |-> mem[p + i]]]

Heap == INSTANCE HeapSpec

\* mm.c keeps the promises of a malloc package.
NaiveRefinesHeap == Heap!HeapSpec

=============================================================================
