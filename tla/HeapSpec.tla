------------------------------ MODULE HeapSpec ------------------------------
(***************************************************************************)
(* What a malloc package promises its caller, whatever its data            *)
(* structures: mm.c and mm-explicit.c (cs351/mps/05) are shown to          *)
(* implement it.  The caller sees its live payloads and their contents     *)
(* only.  A call that returns NULL is a stuttering step.                   *)
(***************************************************************************)
EXTENDS Integers

CONSTANTS MAX_HEAP,   \* config.h: bytes of the simulated memory
          ALIGNMENT,  \* payload addresses are multiples of it
          Sizes,      \* the payload sizes callers ask for
          Byte        \* the values of a byte

VARIABLES brk,    \* the heap is the bytes below it
          live,   \* payload address -> size the caller asked for
          data    \* payload address -> contents, indexed from 0

hvars == <<brk, live, data>>

\* The break never retreats, and covers a new payload of n bytes at p, which
\* is aligned.
Placed(p, n) ==
    /\ p % ALIGNMENT = 0
    /\ brk' \in brk .. MAX_HEAP
    /\ p + n <= brk'

Apart(p, n, q, m) == p + n <= q \/ q + m <= p

With(f, x, v) == [y \in DOMAIN f \cup {x} |-> IF y = x THEN v ELSE f[y]]
Without(f, x) == [y \in DOMAIN f \ {x} |-> f[y]]

Init ==
    /\ brk \in 0 .. MAX_HEAP
    /\ live = [p \in {} |-> 0]
    /\ data = [p \in {} |-> << >>]

Malloc(n) ==
    \E p \in 0 .. MAX_HEAP - 1 :
        /\ p \notin DOMAIN live
        /\ Placed(p, n)
        /\ \A q \in DOMAIN live : Apart(p, n, q, live[q])
        /\ live' = With(live, p, n)
        /\ \E d \in [0 .. n - 1 -> Byte] : data' = With(data, p, d)

Free(p) ==
    /\ p \in DOMAIN live
    /\ live' = Without(live, p)
    /\ data' = Without(data, p)
    /\ UNCHANGED brk

\* The package may extend the heap before it answers, or without an answer.
Sbrk == brk' \in brk .. MAX_HEAP /\ UNCHANGED <<live, data>>

\* The new payload starts with the old one's bytes, as many as both have.
Realloc(p, n) ==
    /\ p \in DOMAIN live
    /\ \E q \in 0 .. MAX_HEAP - 1 :
        /\ q \notin DOMAIN live \ {p}
        /\ Placed(q, n)
        /\ \A r \in DOMAIN live \ {p} : Apart(q, n, r, live[r])
        /\ live' = With(Without(live, p), q, n)
        /\ \E d \in [0 .. n - 1 -> Byte] :
            /\ \A i \in 0 .. n - 1 : i < live[p] => d[i] = data[p][i]
            /\ data' = With(Without(data, p), q, d)

\* The caller stores v in byte i of its payload p, and no other byte changes.
Store(p, i, v) ==
    /\ p \in DOMAIN live
    /\ i \in 0 .. live[p] - 1
    /\ data' = [data EXCEPT ![p][i] = v]
    /\ UNCHANGED <<brk, live>>

Next ==
    \/ Sbrk
    \/ \E n \in Sizes : Malloc(n)
    \/ \E p \in DOMAIN live :
        \/ Free(p)
        \/ \E n \in Sizes : Realloc(p, n)
        \/ \E i \in 0 .. live[p] - 1, v \in Byte : Store(p, i, v)

HeapSpec == Init /\ [][Next]_hvars

=============================================================================
