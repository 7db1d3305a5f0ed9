------------------------------ MODULE MapSpec -------------------------------
(***************************************************************************)
(* What a table of string keys promises: hashtable.c (cs351/mps/02) is     *)
(* shown to implement it.  Looking a key up, iterating and rehashing leave *)
(* the map alone.                                                          *)
(***************************************************************************)
CONSTANTS Keys, Vals

VARIABLE map      \* the value of each key that has one

Init == map = [k \in {} |-> k]

Put(k, v) == map' = [x \in DOMAIN map \cup {k} |-> IF x = k THEN v ELSE map[x]]
Del(k) == map' = [x \in DOMAIN map \ {k} |-> map[x]]
Clear == map' = [k \in {} |-> k]

Next == \/ \E k \in Keys : Del(k) \/ \E v \in Vals : Put(k, v)
        \/ Clear

MapSpec == Init /\ [][Next]_map

=============================================================================
