------------------------------- MODULE MemLib --------------------------------
(***************************************************************************)
(* cs351/mps/05/memlib.c and the arithmetic the two malloc packages share. *)
(* Addresses are offsets from mem_start_brk; mem_brk is one past the last  *)
(* byte of the heap and never retreats between two mem_reset_brk.          *)
(***************************************************************************)
EXTENDS Integers

CONSTANTS MAX_HEAP,    \* config.h: bytes of the simulated memory
          ALIGNMENT,   \* 8 in the code
          SIZE_T_SIZE, \* ALIGN(sizeof(size_t)): 8 in the code
          INT_MAX,     \* sizes and increments pass through int
          Sizes,       \* payload sizes the caller asks for
          Byte         \* values of a byte of memory

ASSUME MemLibConstants ==
    /\ MAX_HEAP \in Nat
    /\ ALIGNMENT \in {2, 4, 8, 16}      \* the mask of ALIGN needs a power of 2
    /\ INT_MAX \in Nat /\ MAX_HEAP <= INT_MAX
    /\ Sizes \subseteq 1 .. INT_MAX     \* the driver's sizes are positive ints

ASSUME WordFits ==
    /\ SIZE_T_SIZE \in Nat \ {0} /\ SIZE_T_SIZE % ALIGNMENT = 0
    /\ SIZE_T_SIZE + 2 * ALIGNMENT < INT_MAX

VARIABLES brk,    \* mem_brk
          mem     \* the bytes from mem_start_brk on, and the one past the end

mem_heap_lo == 0
mem_heap_hi == brk - 1
mem_heapsize == brk

\* The memory comes from malloc and mem_reset_brk does not clear it.
mem_init ==
    /\ brk = 0
    /\ \E v \in Byte : mem = [a \in 0 .. MAX_HEAP |-> v]

mem_sbrk_fails(incr) == incr < 0 \/ brk + incr > MAX_HEAP

mem_sbrk(incr) == ~mem_sbrk_fails(incr) /\ brk' = brk + incr

ALIGN(s) == ((s + (ALIGNMENT - 1)) \div ALIGNMENT) * ALIGNMENT

\* Conversion of a size_t below 2 * (INT_MAX + 1) to int.
ToInt(s) == IF s <= INT_MAX THEN s ELSE s - 2 * (INT_MAX + 1)

\* The memory after memcpy(dst, src, n).
memcpy(dst, src, n) ==
    [a \in DOMAIN mem |->
        IF a \in dst .. dst + n - 1 THEN mem[src + (a - dst)] ELSE mem[a]]

\* Functions with one more, or one fewer, point.
With(f, x, v) == [y \in DOMAIN f \cup {x} |-> IF y = x THEN v ELSE f[y]]
Without(f, x) == [y \in DOMAIN f \ {x} |-> f[y]]

=============================================================================
