----------------------------- MODULE HashTable ------------------------------
(***************************************************************************)
(* cs351/mps/02/hashtable.c, driven by the directives of main.c: a chained *)
(* hash table that owns the strings handed to it.  Nodes are objects on    *)
(* the C heap with an identity, so that a lost, shared or twice freed one  *)
(* shows; strings are counted, and their bytes are a member of Keys or     *)
(* Vals.                                                                   *)
(* The loop of ht_rehash takes one step per node.                          *)
(* Two comments are older than the code below them: ht_put's "FIXME: the   *)
(* current implementation doesn't update existing entries" (25), where the *)
(* loop over the chain does update them, and free_hashtable's "must free   *)
(* all substructures!" (90), where they have just been freed.   The code   *)
(* is modelled.                                                            *)
(***************************************************************************)
EXTENDS Integers, FiniteSets

CONSTANTS Keys, Vals,   \* texts of keys and values
          hash,         \* the hash of a key's text, in [Keys -> Nat]
          TableSizes,   \* table sizes that trace files ask for
          Node,         \* addresses malloc may give to a bucket_t
          NULL          \* none of them

\* malloc finds an address for each node: there is one more than keys, for the
\* copy that ht_rehash makes.
ASSUME HashConstants ==
    /\ IsFiniteSet(Keys) /\ hash \in [Keys -> Nat]
    /\ TableSizes \subseteq Nat \ {0}
    /\ IsFiniteSet(Node) => Cardinality(Node) > Cardinality(Keys)
    /\ NULL \notin Node \cup Vals

VARIABLES h,      \* the allocated nodes: functions key, val and next of their
                  \* addresses; and strs, the number of allocated strings
          ht,     \* the table
          nht,    \* the new table of ht_rehash
          i, b,   \* its loop variables
          pc_hash      \* "idle", "rehash", "freed" (the program is over) or "crashed"

hashvars == <<h, ht, nht, i, b, pc_hash>>

With(f, x, v) == [y \in DOMAIN f \cup {x} |-> IF y = x THEN v ELSE f[y]]
Without(f, S) == [y \in DOMAIN f \ S |-> f[y]]

nodes == DOMAIN h.key
make_hashtable(n) == [size |-> n, buckets |-> [j \in 0 .. n - 1 |-> NULL]]
Bucket(t, k) == hash[k] % t.size

-----------------------------------------------------------------------------
(* The C heap: any free address will do *)

NewNode(m) == CHOOSE n \in Node : n \notin DOMAIN m.key

\* malloc of a key and of a value.
NewStrings(m) == [m EXCEPT !.strs = @ + 2]
\* free of nodes and both strings of each.
FreeNodes(m, S) ==
    [key |-> Without(m.key, S), val |-> Without(m.val, S),
     next |-> Without(m.next, S), strs |-> m.strs - 2 * Cardinality(S)]

\* The nodes that a walk along next comes to from p on: those that are in every
\* set with p that next does not lead out of.
Chain(m, p) ==
    {n \in DOMAIN m.next : \A S \in SUBSET DOMAIN m.next :
        {p} \ {NULL} \subseteq S /\ (\A q \in S : m.next[q] \in S \cup {NULL}) => n \in S}

\* The first node of the chain at p whose key reads k, and NULL without one.
Find(m, p, k) ==
    LET hits == {n \in Chain(m, p) : m.key[n] = k}
    IN  IF hits = {} THEN NULL ELSE CHOOSE n \in hits : hits \subseteq Chain(m, n)

-----------------------------------------------------------------------------
(* hashtable.c *)

\* Variants: the new node does not lead on to the old chain; an entry that is
\* there is not updated; the first entry of the chain is taken for the key's.
Bug_ht_put_chain(m, t, k, v) ==
    LET j == Bucket(t, k)
        n == Find(m, t.buckets[j], k)
        new == NewNode(m)
    IN  IF n # NULL
        THEN [ht |-> t,
              h  |-> [key |-> [m.key EXCEPT ![n] = k], val |-> [m.val EXCEPT ![n] = v],
                      next |-> m.next, strs |-> m.strs - 2]]
        ELSE [ht |-> [t EXCEPT !.buckets[j] = new],
              h  |-> [key |-> With(m.key, new, k), val |-> With(m.val, new, v),
                      next |-> With(m.next, new, NULL), strs |-> m.strs]]
Bug_ht_put_bucket(m, t, k, v) ==
    LET j == Bucket(t, k)
        n == t.buckets[j]
        new == NewNode(m)
    IN  IF n # NULL
        THEN [ht |-> t,
              h  |-> [key |-> [m.key EXCEPT ![n] = k], val |-> [m.val EXCEPT ![n] = v],
                      next |-> m.next, strs |-> m.strs - 2]]
        ELSE [ht |-> [t EXCEPT !.buckets[j] = new],
              h  |-> [key |-> With(m.key, new, k), val |-> With(m.val, new, v),
                      next |-> With(m.next, new, NULL), strs |-> m.strs]]

\* ht_put into t of two strings that have been allocated on the heap m; the
\* entry of a key that is there is updated, whatever the FIXME above says.
ht_put(m, t, k, v) ==
    LET j == Bucket(t, k)
        n == Find(m, t.buckets[j], k)
        new == NewNode(m)
    IN  IF n # NULL
        THEN [ht |-> t,
              h  |-> [key |-> [m.key EXCEPT ![n] = k], val |-> [m.val EXCEPT ![n] = v],
                      next |-> m.next, strs |-> m.strs - 2]]
        ELSE [ht |-> [t EXCEPT !.buckets[j] = new],
              h  |-> [key |-> With(m.key, new, k), val |-> With(m.val, new, v),
                      next |-> With(m.next, new, t.buckets[j]), strs |-> m.strs]]

\* Variant: only the first node of the chain is compared.
Bug_ht_get_first(k) ==
    LET n == ht.buckets[Bucket(ht, k)]
    IN  IF n = NULL \/ h.key[n] # k THEN NULL ELSE h.val[n]

ht_get(k) == LET n == Find(h, ht.buckets[Bucket(ht, k)], k)
             IN  IF n = NULL THEN NULL ELSE h.val[n]

\* ht_del of k from t, whose bucket for k is not empty.
ht_del(m, t, k) ==
    LET j == Bucket(t, k)
        n == Find(m, t.buckets[j], k)
    IN  IF n = NULL THEN [ht |-> t, h |-> m]
        ELSE IF n = t.buckets[j]
        THEN [ht |-> [t EXCEPT !.buckets[j] = m.next[n]], h |-> FreeNodes(m, {n})]
        ELSE LET prev == CHOOSE q \in Chain(m, t.buckets[j]) : m.next[q] = n
             IN  [ht |-> t, h |-> FreeNodes([m EXCEPT !.next[prev] = m.next[n]], {n})]

\* The nodes that ht_iter visits.
ht_iter(m, t) == UNION {Chain(m, t.buckets[j]) : j \in 0 .. t.size - 1}

-----------------------------------------------------------------------------
(* main.c *)

HashInit ==
    /\ h = [key |-> << >>, val |-> << >>, next |-> << >>, strs |-> 0]
    /\ \E n \in TableSizes : ht = make_hashtable(n)
    /\ nht = ht /\ i = 0 /\ b = NULL
    /\ pc_hash = "idle"

\* "p k v": two strdup, then ht_put.
Put(k, v) ==
    LET r == ht_put(NewStrings(h), ht, k, v)
    IN  /\ pc_hash = "idle"
        /\ h' = r.h /\ ht' = r.ht
        /\ UNCHANGED <<nht, i, b, pc_hash>>

\* "d k"
Del(k) ==
    /\ pc_hash = "idle"
    /\ ht.buckets[Bucket(ht, k)] # NULL
    /\ LET r == ht_del(h, ht, k) IN h' = r.h /\ ht' = r.ht
    /\ UNCHANGED <<nht, i, b, pc_hash>>

\* ht_del reads b->next before it looks whether there is a b.
DelFromEmptyBucket(k) ==
    /\ pc_hash = "idle"
    /\ ht.buckets[Bucket(ht, k)] = NULL
    /\ pc_hash' = "crashed"
    /\ UNCHANGED <<h, ht, nht, i, b>>

\* "r n"
Rehash(n) ==
    /\ pc_hash = "idle"
    /\ nht' = make_hashtable(n)
    /\ i' = 0 /\ b' = ht.buckets[0]
    /\ pc_hash' = "rehash"
    /\ UNCHANGED <<h, ht>>

\* Copies of the strings of b go into nht, and b and its strings are freed.
RehashNode ==
    LET r == ht_put(NewStrings(h), nht, h.key[b], h.val[b])
    IN  /\ pc_hash = "rehash" /\ b # NULL
        /\ nht' = r.ht
        /\ b' = h.next[b]
        /\ h' = FreeNodes(r.h, {b})
        /\ UNCHANGED <<ht, i, pc_hash>>

RehashNextBucket ==
    /\ pc_hash = "rehash" /\ b = NULL /\ i + 1 < ht.size
    /\ i' = i + 1 /\ b' = ht.buckets[i + 1]
    /\ UNCHANGED <<h, ht, nht, pc_hash>>

RehashReturn ==
    /\ pc_hash = "rehash" /\ b = NULL /\ i + 1 = ht.size
    /\ ht' = nht /\ i' = 0
    /\ pc_hash' = "idle"
    /\ UNCHANGED <<h, nht, b>>

\* Variant: the chains are not followed.
Bug_free_hashtable_heads ==
    /\ pc_hash = "idle"
    /\ h' = FreeNodes(h, {ht.buckets[j] : j \in 0 .. ht.size - 1} \ {NULL})
    /\ ht' = make_hashtable(0)
    /\ pc_hash' = "freed"
    /\ UNCHANGED <<nht, i, b>>

\* End of the trace file: free_hashtable frees what the chains reach.
free_hashtable ==
    /\ pc_hash = "idle"
    /\ h' = FreeNodes(h, ht_iter(h, ht))
    /\ ht' = make_hashtable(0)
    /\ pc_hash' = "freed"
    /\ UNCHANGED <<nht, i, b>>

HashOver == pc_hash \in {"freed", "crashed"} /\ UNCHANGED hashvars

HashNext ==
    \/ \E k \in Keys : Del(k) \/ DelFromEmptyBucket(k) \/ \E v \in Vals : Put(k, v)
    \/ \E n \in TableSizes : Rehash(n)
    \/ RehashNode \/ RehashNextBucket \/ RehashReturn
    \/ free_hashtable
    \/ HashOver

HashSpec == HashInit /\ [][HashNext]_hashvars

-----------------------------------------------------------------------------
(* Properties *)

\* Types of the two structs of hashtable.h and of ht_rehash's locals.
Table == UNION {[size : {n}, buckets : [0 .. n - 1 -> Node \cup {NULL}]] : n \in TableSizes \cup {0}}
HashTypeOK ==
    /\ nodes \subseteq Node
    /\ h \in [key : [nodes -> Keys], val : [nodes -> Vals],
              next : [nodes -> nodes \cup {NULL}], strs : Nat]
    /\ ht \in Table /\ nht \in Table
    /\ i \in Nat /\ b \in Node \cup {NULL}
    /\ pc_hash \in {"idle", "rehash", "freed", "crashed"}

\* The places where a chain begins: the buckets of ht, or while ht_rehash runs
\* its b, the buckets it has yet to come to, and those of nht.
Slots ==
    IF pc_hash = "rehash" THEN ({"ht"} \X (i .. ht.size - 1)) \cup ({"nht"} \X (0 .. nht.size - 1))
    ELSE {"ht"} \X (0 .. ht.size - 1)
HeadOf(s) ==
    IF s[1] = "nht" THEN nht.buckets[s[2]]
    ELSE IF pc_hash = "rehash" /\ s[2] = i THEN b ELSE ht.buckets[s[2]]

\* The pointers to a node.
Pointers(n) ==
    {s \in Slots : HeadOf(s) = n} \cup ({"next"} \X {q \in nodes : h.next[q] = n})

\* No memory is lost, shared or used after it is freed, in the middle of
\* ht_rehash too: the chains come to every allocated node, and to none twice,
\* since one pointer leads to it; and there are as many strings as the nodes
\* own.  After free_hashtable there is nothing left.
EverythingOwnedOnce ==
    /\ HashTypeOK
    /\ UNION {Chain(h, HeadOf(s)) : s \in Slots} = nodes
    /\ \A n \in nodes : Cardinality(Pointers(n)) = 1
    /\ h.strs = 2 * Cardinality(nodes)

\* What is in the table, whichever chain it is on.
map == [k \in {h.key[n] : n \in nodes} |->
            h.val[CHOOSE n \in nodes : h.key[n] = k]]

\* Between two directives ht_get finds every entry, after any mixture of
\* updates, deletions and rehashes to other sizes, and nothing else.
GetFindsAll ==
    pc_hash = "idle" =>
        \A k \in Keys : ht_get(k) = IF k \in DOMAIN map THEN map[k] ELSE NULL

Map == INSTANCE MapSpec

\* hashtable.c is a map: an update or a deletion changes the entry of its key,
\* and no step of a rehash changes any.
ImplementsMap == Map!MapSpec

=============================================================================
