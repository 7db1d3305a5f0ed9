---------------------------- MODULE MMNaiveProofs ----------------------------
EXTENDS MMNaive, MemLibProofs

\* What a successful mem_sbrk says of the block it returns.
LEMMA BumpFacts ==
    ASSUME NaiveInv, NEW n \in Sizes, Bump(n)
    PROVE  /\ n \in Nat \ {0} /\ brk \in Nat /\ brk' \in Nat
           /\ SIZE_T_SIZE \in Nat \ {0}
           /\ brk + SIZE_T_SIZE + n <= brk' /\ brk' <= MAX_HEAP
           /\ brk' % ALIGNMENT = 0
           /\ (brk + SIZE_T_SIZE) % ALIGNMENT = 0
           /\ MAX_HEAP \in Nat
<1>1. /\ n \in 1 .. INT_MAX /\ INT_MAX \in Nat /\ MAX_HEAP \in Nat
      /\ ALIGNMENT \in {2, 4, 8, 16}
      /\ SIZE_T_SIZE \in Nat \ {0} /\ SIZE_T_SIZE % ALIGNMENT = 0
      /\ SIZE_T_SIZE + 2 * ALIGNMENT < INT_MAX
  BY MemLibConstants, WordFits DEF MemLibConstants, WordFits
<1>2. brk \in Nat /\ brk % ALIGNMENT = 0
  BY <1>1, SMT DEF NaiveInv, TypeOK
<1> DEFINE need == n + SIZE_T_SIZE
<1>3. n \in Nat \ {0} /\ need \in Nat /\ need + ALIGNMENT < 2 * (INT_MAX + 1)
  BY <1>1, SMT
<1>4. ALIGN(need) \in Nat /\ need <= ALIGN(need) /\ ALIGN(need) < need + ALIGNMENT
      /\ ALIGN(need) % ALIGNMENT = 0
  BY <1>3, AlignFacts
<1>5. /\ newsize(n) = IF ALIGN(need) <= INT_MAX THEN ALIGN(need)
                      ELSE ALIGN(need) - 2 * (INT_MAX + 1)
      /\ ~(newsize(n) < 0 \/ brk + newsize(n) > MAX_HEAP)
      /\ brk' = brk + newsize(n)
  BY DEF newsize, ToInt, Bump, mem_sbrk, mem_sbrk_fails
<1> HIDE DEF need
<1>6. newsize(n) = ALIGN(need)
  BY <1>1, <1>3, <1>4, <1>5, SMT
<1>7. brk' = brk + ALIGN(need) /\ brk + ALIGN(need) <= MAX_HEAP
  BY <1>1, <1>2, <1>4, <1>5, <1>6, SMT
<1>8. (brk + ALIGN(need)) % ALIGNMENT = 0
  BY <1>2, <1>4, AlignedSum, SMT
<1>9. (brk + SIZE_T_SIZE) % ALIGNMENT = 0
  BY <1>1, <1>2, AlignedSum, SMT
<1>10. brk + SIZE_T_SIZE + n <= brk + ALIGN(need)
  BY <1>1, <1>2, <1>3, <1>4, SMT DEF need
<1>11. brk + ALIGN(need) \in Nat
  BY <1>2, <1>4, SMT
<1> QED
  BY <1>1, <1>2, <1>3, <1>7, <1>8, <1>9, <1>10, <1>11

\* mm_init of mm.c establishes its invariant.
LEMMA NaiveInitInv == mm_init => NaiveInv
<1> SUFFICES ASSUME mm_init PROVE NaiveInv
  OBVIOUS
<1>1. 0 % ALIGNMENT = 0
  BY ZeroAligned
<1>2. TypeOK
  BY MemLibConstants, WordFits, SMT DEF mm_init, mem_init, TypeOK, MemLibConstants, WordFits
<1> QED
  BY <1>1, <1>2 DEF mm_init, mem_init, NaiveInv

\* What the invariant says of one live payload.
LEMMA LiveFacts ==
    ASSUME NaiveInv, NEW p \in DOMAIN live
    PROVE  /\ p \in Nat /\ live[p] \in Nat \ {0} /\ live[p] \in Sizes
           /\ p + live[p] <= brk /\ brk \in Nat /\ brk <= MAX_HEAP
           /\ SIZE_T_SIZE \in Nat \ {0} /\ MAX_HEAP \in Nat
<1>1. live[p] \in Sizes /\ p \in Nat /\ p + live[p] <= brk /\ brk \in 0 .. MAX_HEAP
  BY DEF NaiveInv, TypeOK
<1>2. /\ Sizes \subseteq 1 .. INT_MAX /\ INT_MAX \in Nat /\ MAX_HEAP \in Nat
      /\ SIZE_T_SIZE \in Nat \ {0}
  BY MemLibConstants, WordFits DEF MemLibConstants, WordFits
<1>3. live[p] \in Nat \ {0} /\ brk \in Nat /\ brk <= MAX_HEAP
  <2>1. live[p] \in 1 .. INT_MAX /\ brk \in 0 .. MAX_HEAP
    BY <1>1, <1>2
  <2> QED
    BY <1>2, <2>1, SMT
<1> QED
  BY <1>1, <1>2, <1>3

\* A payload of n bytes at the old break joins those of a set K of the live
\* ones: what mm_malloc and mm_realloc have in common.
LEMMA NewPayloadInv ==
    ASSUME NaiveInv, NEW n \in Sizes, Bump(n), NEW K \in SUBSET DOMAIN live,
           mem' \in [0 .. MAX_HEAP -> Byte],
           live' = With([p \in K |-> live[p]], brk + SIZE_T_SIZE, n)
    PROVE  NaiveInv'
<1> DEFINE q == brk + SIZE_T_SIZE
<1>1. /\ n \in Nat \ {0} /\ brk \in Nat /\ brk' \in Nat
      /\ SIZE_T_SIZE \in Nat \ {0}
      /\ q + n <= brk' /\ brk' <= MAX_HEAP /\ brk' % ALIGNMENT = 0
      /\ q % ALIGNMENT = 0 /\ MAX_HEAP \in Nat
  BY BumpFacts
<1>2. /\ DOMAIN live' = K \cup {q} /\ live'[q] = n /\ q \notin K
      /\ \A p \in K : live'[p] = live[p] /\ p # q
  <2>1. \A p \in K : p # q
    BY <1>1, LiveFacts, SMT
  <2> QED
    BY <2>1 DEF With
<1>3. /\ DOMAIN header' = DOMAIN header \cup {brk} /\ header'[brk] = n
      /\ \A b \in DOMAIN header : b # brk => header'[b] = header[b]
      /\ header' \in [DOMAIN header' -> Sizes]
  BY DEF Bump, With, NaiveInv, TypeOK
<1>4. TypeOK'
  <2>1. live' \in [DOMAIN live' -> Sizes]
    BY <1>2, LiveFacts DEF With
  <2>2. brk' \in 0 .. MAX_HEAP
    BY <1>1, SMT
  <2> QED
    BY <1>3, <2>1, <2>2 DEF TypeOK
<1>5. ASSUME NEW p \in DOMAIN live'
      PROVE  /\ p \in Nat /\ p % ALIGNMENT = 0
             /\ p - SIZE_T_SIZE \in DOMAIN header'
             /\ header'[p - SIZE_T_SIZE] = live'[p]
             /\ p + live'[p] <= brk'
             /\ \A r \in DOMAIN live' : p < r => p + live'[p] <= r - SIZE_T_SIZE
  <2>1. CASE p = q
    <3>1. p - SIZE_T_SIZE = brk /\ p \in Nat
      BY <1>1, <2>1, SMT
    <3>2. \A r \in K : ~(p < r)
      BY <1>1, <2>1, LiveFacts, SMT
    <3>3. ~(p < q)
      BY <1>1, <2>1, SMT
    <3> QED
      BY <1>1, <1>2, <1>3, <2>1, <3>1, <3>2, <3>3
  <2>2. CASE p \in K
    <3>1. /\ p \in Nat /\ live[p] \in Nat \ {0} /\ p + live[p] <= brk
          /\ p % ALIGNMENT = 0 /\ p - SIZE_T_SIZE \in DOMAIN header
          /\ header[p - SIZE_T_SIZE] = live[p]
          /\ \A r \in DOMAIN live : p < r => p + live[p] <= r - SIZE_T_SIZE
      BY <2>2, LiveFacts DEF NaiveInv
    <3>2. p - SIZE_T_SIZE # brk
      BY <1>1, <3>1, SMT
    <3>3. header'[p - SIZE_T_SIZE] = live[p] /\ p - SIZE_T_SIZE \in DOMAIN header'
      BY <1>3, <3>1, <3>2
    <3>4. p + live[p] <= brk' /\ p + live[p] <= q - SIZE_T_SIZE
      BY <1>1, <3>1, SMT
    <3> QED
      BY <1>2, <2>2, <3>1, <3>3, <3>4
  <2> QED
    BY <1>2, <2>1, <2>2
<1> QED
  BY <1>1, <1>4, <1>5 DEF NaiveInv

\* mm_malloc of mm.c keeps its invariant.
LEMMA MallocInv ==
    ASSUME NaiveInv, NEW n \in Sizes, mm_malloc(n)
    PROVE  NaiveInv'
<1>1. live = [p \in DOMAIN live |-> live[p]] /\ mem \in [0 .. MAX_HEAP -> Byte]
  BY DEF NaiveInv, TypeOK
<1> QED
  BY <1>1, NewPayloadInv DEF mm_malloc

\* memcpy stays inside the memory: the old payload and the new one lie below
\* the break.
LEMMA CopyFacts ==
    ASSUME NaiveInv, NEW p \in DOMAIN live, NEW n \in Sizes, Bump(n)
    PROVE  LET newptr == brk + SIZE_T_SIZE
               m == copySize(p, n)
           IN  /\ m = IF n < live[p] THEN n ELSE live[p]
               /\ m \in Nat /\ newptr \in Nat
               /\ p + m <= MAX_HEAP
               /\ newptr + m <= MAX_HEAP
               /\ mem \in [0 .. MAX_HEAP -> Byte]
               /\ memcpy(newptr, p, m) \in [0 .. MAX_HEAP -> Byte]
<1> DEFINE newptr == brk + SIZE_T_SIZE
<1> DEFINE m == copySize(p, n)
<1>1. m = IF n < live[p] THEN n ELSE live[p]
  BY DEF copySize, NaiveInv
<1>2. /\ n \in Nat \ {0} /\ brk \in Nat /\ SIZE_T_SIZE \in Nat
      /\ newptr + n <= brk' /\ brk' <= MAX_HEAP /\ brk' \in Nat
      /\ p \in Nat /\ live[p] \in Nat /\ p + live[p] <= brk
      /\ brk <= MAX_HEAP /\ MAX_HEAP \in Nat
  BY BumpFacts, LiveFacts
<1>3. m \in Nat /\ newptr \in Nat /\ p + m <= MAX_HEAP /\ newptr + m <= MAX_HEAP
  BY <1>1, <1>2, SMT
<1>4. mem \in [0 .. MAX_HEAP -> Byte]
  BY DEF NaiveInv, TypeOK
<1> HIDE DEF newptr, m
<1>5. ASSUME NEW a \in 0 .. MAX_HEAP, a \in newptr .. newptr + m - 1
      PROVE  p + (a - newptr) \in 0 .. MAX_HEAP
  BY <1>2, <1>3, <1>5, SMT
<1>6. memcpy(newptr, p, m) \in [0 .. MAX_HEAP -> Byte]
  BY <1>4, <1>5 DEF memcpy
<1> QED
  BY <1>1, <1>3, <1>4, <1>6 DEF newptr, m

\* mm_realloc of mm.c keeps its invariant.
LEMMA ReallocInv ==
    ASSUME NaiveInv, NEW p \in DOMAIN live, NEW n \in Sizes, mm_realloc(p, n)
    PROVE  NaiveInv'
<1>1. Bump(n) /\ mem' \in [0 .. MAX_HEAP -> Byte]
  BY CopyFacts DEF mm_realloc
<1>2. live' = With([q \in DOMAIN live \ {p} |-> live[q]], brk + SIZE_T_SIZE, n)
  BY DEF mm_realloc, Without
<1> QED
  BY <1>1, <1>2, NewPayloadInv

\* Every step of mm.c and of its caller keeps the invariant.
LEMMA NaiveStep == NaiveInv /\ [Next]_vars => NaiveInv'
<1> SUFFICES ASSUME NaiveInv, [Next]_vars PROVE NaiveInv'
  OBVIOUS
<1>1. ASSUME NEW n \in Sizes, mm_malloc(n) PROVE NaiveInv'
  BY <1>1, MallocInv
<1>2. ASSUME NEW p \in DOMAIN live, NEW n \in Sizes, mm_realloc(p, n)
      PROVE  NaiveInv'
  BY <1>2, ReallocInv
<1>3. ASSUME NEW p \in DOMAIN live, mm_free(p) PROVE NaiveInv'
  <2>1. /\ DOMAIN live' = DOMAIN live \ {p} /\ UNCHANGED <<brk, mem, header>>
        /\ \A q \in DOMAIN live' : live'[q] = live[q]
        /\ live' \in [DOMAIN live' -> Sizes]
    BY <1>3 DEF mm_free, Without, NaiveInv, TypeOK
  <2> QED
    BY <2>1 DEF NaiveInv, TypeOK
<1>4. ASSUME NEW p \in DOMAIN live, NEW i \in 0 .. live[p] - 1, NEW v \in Byte,
             Store(p, i, v)
      PROVE  NaiveInv'
  BY <1>4 DEF Store, NaiveInv, TypeOK
<1>5. CASE UNCHANGED vars
  BY <1>5 DEF vars, NaiveInv, TypeOK
<1> QED
  BY <1>1, <1>2, <1>3, <1>4, <1>5 DEF Next, OutOfMemory

\* The invariant of mm.c, for every heap size and alignment.
THEOREM NaiveInvariant == Spec => []NaiveInv
  BY NaiveInitInv, NaiveStep, PTL DEF Spec

-----------------------------------------------------------------------------
(* Implementation of HeapSpec *)

\* Where mm.c puts the payload of n bytes is where HeapSpec allows it.
LEMMA NaivePlacement ==
    ASSUME NaiveInv, NEW n \in Sizes, Bump(n)
    PROVE  /\ brk + SIZE_T_SIZE \in 0 .. MAX_HEAP - 1
           /\ brk + SIZE_T_SIZE \notin DOMAIN live
           /\ Heap!Placed(brk + SIZE_T_SIZE, n)
           /\ \A r \in DOMAIN live :
                Heap!Apart(brk + SIZE_T_SIZE, n, r, live[r])
<1> DEFINE q == brk + SIZE_T_SIZE
<1>1. /\ n \in Nat \ {0} /\ brk \in Nat /\ brk' \in Nat
      /\ SIZE_T_SIZE \in Nat \ {0}
      /\ q + n <= brk' /\ brk' <= MAX_HEAP
      /\ q % ALIGNMENT = 0 /\ MAX_HEAP \in Nat
  BY BumpFacts
<1>2. q \in 0 .. MAX_HEAP - 1 /\ brk' \in brk .. MAX_HEAP
  BY <1>1, SMT
<1>3. \A r \in DOMAIN live : r + live[r] <= q /\ r # q
  BY <1>1, LiveFacts, SMT
<1> QED
  BY <1>1, <1>2, <1>3 DEF Heap!Placed, Heap!Apart

\* mm_malloc of mm.c is a Malloc of HeapSpec.
LEMMA MallocImplements ==
    ASSUME NaiveInv, NEW n \in Sizes, mm_malloc(n)
    PROVE  Heap!Malloc(n)
<1> PICK q : q = brk + SIZE_T_SIZE
  OBVIOUS
<1>1. /\ q \in 0 .. MAX_HEAP - 1 /\ q \notin DOMAIN live
      /\ Heap!Placed(q, n)
      /\ \A r \in DOMAIN live : Heap!Apart(q, n, r, live[r])
  <2>1. Bump(n)
    BY DEF mm_malloc
  <2>2. Heap!Placed(q, n)
    BY <2>1, NaivePlacement DEF Heap!Placed
  <2> QED
    BY <2>1, <2>2, NaivePlacement DEF Heap!Apart
<1>2. live' = Heap!With(live, q, n)
  BY DEF mm_malloc, With, Heap!With
<1> DEFINE d == [i \in 0 .. n - 1 |-> mem[q + i]]
<1>3. d \in [0 .. n - 1 -> Byte]
  <2>1. /\ n \in Nat /\ q \in Nat /\ q + n <= MAX_HEAP /\ MAX_HEAP \in Nat
    BY BumpFacts, SMT DEF mm_malloc
  <2>2. \A i \in 0 .. n - 1 : q + i \in 0 .. MAX_HEAP
    BY <2>1, SMT
  <2> QED
    BY <2>2 DEF NaiveInv, TypeOK
<1>4. data' = Heap!With(data, q, d)
  <2>1. /\ DOMAIN live' = DOMAIN live \cup {q} /\ live'[q] = n
        /\ \A r \in DOMAIN live : live'[r] = live[r]
        /\ mem' = mem
    BY <1>1, <1>2 DEF mm_malloc, Heap!With
  <2> QED
    BY <1>1, <2>1 DEF data, Heap!With
<1> QED
  BY <1>1, <1>2, <1>3, <1>4 DEF Heap!Malloc

\* mm_realloc of mm.c is a Realloc of HeapSpec.
LEMMA ReallocImplements ==
    ASSUME NaiveInv, NEW p \in DOMAIN live, NEW n \in Sizes, mm_realloc(p, n)
    PROVE  Heap!Realloc(p, n)
<1> PICK q : q = brk + SIZE_T_SIZE
  OBVIOUS
<1> PICK m : m = copySize(p, n)
  OBVIOUS
<1>1. /\ q \in 0 .. MAX_HEAP - 1 /\ q \notin DOMAIN live
      /\ Heap!Placed(q, n)
      /\ \A r \in DOMAIN live : Heap!Apart(q, n, r, live[r])
  <2>1. Bump(n)
    BY DEF mm_realloc
  <2>2. Heap!Placed(q, n)
    BY <2>1, NaivePlacement DEF Heap!Placed
  <2> QED
    BY <2>1, <2>2, NaivePlacement DEF Heap!Apart
<1>2. live' = Heap!With(Heap!Without(live, p), q, n)
  BY DEF mm_realloc, With, Without, Heap!With, Heap!Without
<1>3. /\ m = IF n < live[p] THEN n ELSE live[p]
      /\ m \in Nat /\ p + m <= MAX_HEAP /\ q + m <= MAX_HEAP
      /\ mem' = memcpy(q, p, m)
      /\ mem \in [0 .. MAX_HEAP -> Byte] /\ mem' \in [0 .. MAX_HEAP -> Byte]
  BY CopyFacts DEF mm_realloc
<1>4. /\ n \in Nat \ {0} /\ q \in Nat /\ q + n <= MAX_HEAP /\ MAX_HEAP \in Nat
      /\ brk \in Nat /\ brk <= q
  BY BumpFacts, SMT DEF mm_realloc
<1>5. /\ DOMAIN live' = (DOMAIN live \ {p}) \cup {q} /\ live'[q] = n
      /\ \A r \in DOMAIN live \ {p} : live'[r] = live[r] /\ r # q
  BY <1>1, <1>2 DEF Heap!With, Heap!Without
<1>6. \A a \in 0 .. MAX_HEAP :
         mem'[a] = IF a \in q .. q + m - 1 THEN mem[p + (a - q)] ELSE mem[a]
  BY <1>3 DEF memcpy
<1> DEFINE d == [i \in 0 .. n - 1 |-> mem'[q + i]]
<1>7. d \in [0 .. n - 1 -> Byte]
  <2>1. \A i \in 0 .. n - 1 : q + i \in 0 .. MAX_HEAP
    BY <1>4, SMT
  <2> QED
    BY <1>3, <2>1
<1>8. ASSUME NEW i \in 0 .. n - 1, i < live[p] PROVE d[i] = data[p][i]
  <2>1. live[p] \in Nat /\ p \in Nat
    BY LiveFacts
  <2> PICK l : l = live[p]
    OBVIOUS
  <2>2. i \in 0 .. l - 1 /\ q + i \in q .. q + m - 1 /\ (q + i) - q = i
        /\ q + i \in 0 .. MAX_HEAP
    <3>1. i \in Int /\ 0 <= i /\ i < n /\ i < l /\ i < m
      BY <1>3, <1>4, <1>8, <2>1
    <3>2. m \in Nat /\ q + m <= MAX_HEAP /\ MAX_HEAP \in Nat /\ q \in Nat /\ l \in Nat
      BY <1>3, <1>4, <2>1
    <3> HIDE DEF d
    <3> QED
      BY ONLY <3>1, <3>2, SMT
  <2>3. mem'[q + i] = mem[p + i]
    BY <1>6, <2>2
  <2> QED
    BY <2>2, <2>3 DEF data
<1>9. ASSUME NEW r \in DOMAIN live \ {p}, NEW i \in 0 .. live[r] - 1
      PROVE  mem'[r + i] = mem[r + i]
  <2>1. r \in Nat /\ live[r] \in Nat /\ r + live[r] <= brk
    BY LiveFacts
  <2>2. r + i \in 0 .. MAX_HEAP /\ r + i \notin q .. q + m - 1
    BY <1>3, <1>4, <1>9, <2>1, SMT
  <2> QED
    BY <1>6, <2>2
<1>10. data' = Heap!With(Heap!Without(data, p), q, d)
  <2>1. data' = [r \in DOMAIN live' |-> [i \in 0 .. live'[r] - 1 |-> mem'[r + i]]]
    BY DEF data
  <2>2. ASSUME NEW r \in DOMAIN live \ {p}
        PROVE  [i \in 0 .. live'[r] - 1 |-> mem'[r + i]] = data[r]
    BY <1>5, <1>9 DEF data
  <2> QED
    BY <1>5, <2>1, <2>2 DEF Heap!With, Heap!Without, data
<1> QED
  BY <1>1, <1>2, <1>7, <1>8, <1>10 DEF Heap!Realloc

\* A store of the caller is a Store of HeapSpec.
LEMMA StoreImplements ==
    ASSUME NaiveInv, NEW p \in DOMAIN live, NEW i \in 0 .. live[p] - 1,
           NEW v \in Byte, Store(p, i, v)
    PROVE  Heap!Store(p, i, v)
<1>1. live' = live /\ brk' = brk /\ mem' = [mem EXCEPT ![p + i] = v]
  BY DEF Store
<1>2. p \in Nat /\ live[p] \in Nat /\ p + live[p] <= MAX_HEAP
  BY LiveFacts, SMT
<1>3. ASSUME NEW r \in DOMAIN live, NEW j \in 0 .. live[r] - 1
      PROVE  mem'[r + j] = IF r = p /\ j = i THEN v ELSE mem[r + j]
  <2>1. r \in Nat /\ live[r] \in Nat /\ r + live[r] <= MAX_HEAP /\ MAX_HEAP \in Nat
    BY LiveFacts, SMT
  <2>2. r + j \in 0 .. MAX_HEAP
    BY <1>3, <2>1, SMT
  <2>3. r + j = p + i => r = p /\ j = i
    <3>1. SIZE_T_SIZE \in Nat
      BY LiveFacts
    <3>2. CASE r = p
      BY <1>2, <1>3, <3>2, SMT
    <3>3. CASE r < p
      <4>1. r + live[r] <= p - SIZE_T_SIZE
        BY <3>3 DEF NaiveInv
      <4> QED
        BY <1>2, <1>3, <2>1, <3>1, <4>1, SMT
    <3>4. CASE p < r
      <4>1. p + live[p] <= r - SIZE_T_SIZE
        BY <3>4 DEF NaiveInv
      <4> QED
        BY <1>2, <1>3, <2>1, <3>1, <4>1, SMT
    <3> QED
      BY <1>2, <2>1, <3>2, <3>3, <3>4, SMT
  <2> QED
    BY <1>1, <2>2, <2>3 DEF NaiveInv, TypeOK
<1>4. data' = [data EXCEPT ![p][i] = v]
  <2>1. data' = [r \in DOMAIN live |-> [j \in 0 .. live[r] - 1 |-> mem'[r + j]]]
    BY <1>1 DEF data
  <2>2. ASSUME NEW r \in DOMAIN live
        PROVE  [j \in 0 .. live[r] - 1 |-> mem'[r + j]]
                 = IF r = p THEN [data[p] EXCEPT ![i] = v] ELSE data[r]
    BY <1>3 DEF data
  <2> QED
    BY <2>1, <2>2 DEF data
<1> QED
  BY <1>1, <1>4 DEF Heap!Store

\* mm.c keeps every promise of HeapSpec, for every heap size and alignment:
\* payloads are placed apart, mm_realloc keeps the common prefix, and no step
\* changes a byte of another payload.
THEOREM NaiveImplementsHeap == Spec => NaiveRefinesHeap
<1>1. mm_init => Heap!Init
  <2> SUFFICES ASSUME mm_init PROVE Heap!Init
    OBVIOUS
  <2>1. brk \in 0 .. MAX_HEAP /\ live = [p \in {} |-> 0]
    BY MemLibConstants, SMT DEF MemLibConstants, mm_init, mem_init
  <2>2. data = [p \in {} |-> << >>]
    BY <2>1 DEF data
  <2> QED
    BY <2>1, <2>2 DEF Heap!Init
<1>2. NaiveInv /\ [Next]_vars => [Heap!Next]_(Heap!hvars)
  <2> SUFFICES ASSUME NaiveInv, [Next]_vars
               PROVE  Heap!Next \/ UNCHANGED Heap!hvars
    OBVIOUS
  <2>1. ASSUME NEW n \in Sizes, mm_malloc(n) PROVE Heap!Next
    BY <2>1, MallocImplements DEF Heap!Next
  <2>2. ASSUME NEW p \in DOMAIN live, NEW n \in Sizes, mm_realloc(p, n)
        PROVE  Heap!Next
    BY <2>2, ReallocImplements DEF Heap!Next
  <2>3. ASSUME NEW p \in DOMAIN live, mm_free(p) PROVE Heap!Next
    <3>1. /\ live' = Heap!Without(live, p) /\ brk' = brk
          /\ data' = Heap!Without(data, p)
      BY <2>3 DEF mm_free, Without, Heap!Without, data
    <3> QED
      BY <3>1 DEF Heap!Next, Heap!Free
  <2>4. ASSUME NEW p \in DOMAIN live, NEW i \in 0 .. live[p] - 1, NEW v \in Byte,
               Store(p, i, v)
        PROVE  Heap!Next
    BY <2>4, StoreImplements DEF Heap!Next
  <2>5. CASE UNCHANGED vars
    BY <2>5 DEF vars, Heap!hvars, data
  <2> QED
    BY <2>1, <2>2, <2>3, <2>4, <2>5 DEF Next, OutOfMemory
<1> QED
  BY <1>1, <1>2, NaiveInvariant, PTL DEF Spec, NaiveRefinesHeap, Heap!HeapSpec
=============================================================================
