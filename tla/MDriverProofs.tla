--------------------------- MODULE MDriverProofs ----------------------------
(* mdriver.c: what the range list of eval_mm_valid and the totals of          *)
(* eval_mm_util guarantee, for every heap size, alignment, set of traces and  *)
(* package.                                                                   *)
EXTENDS MDriver, SequenceTheorems, FiniteSetTheorems, TLAPS

Extents == {r \in [lo : Addresses, hi : Addresses] : r.lo <= r.hi}
Extent(x) == [lo |-> blocks[x], hi |-> blocks[x] + Asked(x, i) - 1]

\* Request j is the last one of block x among the first n - 1, and no free.
LastRequest(x, n, j) ==
    /\ j \in 1 .. n - 1
    /\ trace[j].index = x /\ trace[j].type # "FREE"
    /\ \A k \in j + 1 .. n - 1 : trace[k].index # x

\* What read_trace lets through, and that a live block has a last request.
TraceInv ==
    /\ ranges \in Seq(Extents)
    /\ \A n \in 1 .. Len(trace) :
        trace[n].type = "ALLOC" <=> trace[n].index \notin LiveBefore(n)
    /\ IsFiniteSet(LiveBefore(i))
    /\ \A x \in LiveBefore(i) : \E j \in 1 .. i - 1 : LastRequest(x, i, j)

\* While eval_mm_valid runs, the list has one range for each live block, no two
\* of which start at the same address.
ListInv ==
    phase = "valid" =>
        /\ Len(ranges) = Cardinality(LiveBefore(i))
        /\ \A x \in LiveBefore(i) : \E k \in DOMAIN ranges : ranges[k] = Extent(x)
        /\ \A k \in DOMAIN ranges : \E x \in LiveBefore(i) : ranges[k] = Extent(x)
        /\ \A x, y \in LiveBefore(i) : blocks[x] = blocks[y] => x = y

\* The size noted of a live block is the one last asked for, and the bytes of
\* a conforming package are those eval_mm_valid wrote.
BytesInv ==
    phase = "valid" =>
        \A x \in LiveBefore(i) :
            /\ block_sizes[x] = Asked(x, i)
            /\ conforming => \A a \in blocks[x] .. blocks[x] + Asked(x, i) - 1 : mem[a] = Fill(x)

\* A trace gets its verdict once.
VerdictInv ==
    /\ phase \in {"read", "valid"} => valid[tracenum] = "none"
    /\ phase \in {"util", "speed"} => valid[tracenum] = "valid"
    /\ phase \notin {"report", "exit"} =>
        \A t \in 1 .. NumTraces : t > tracenum => valid[t] = "none"

DInv == /\ TypeOK /\ TraceInv /\ ListInv /\ BytesInv /\ VerdictInv
        /\ SharedOnlyIfContained /\ NoFalseAlarm

-----------------------------------------------------------------------------
(* Requests and live blocks *)

\* Types of a request of the trace.
LEMMA RequestType ==
    ASSUME TypeOK, NEW j \in 1 .. Len(trace)
    PROVE  /\ trace[j].index \in Ids /\ trace[j].type \in {"ALLOC", "REALLOC", "FREE"}
           /\ trace[j].type # "FREE" => trace[j].size \in Sizes
           /\ Len(trace) \in Nat
<1>1. trace \in Seq(Request)
  BY DEF TypeOK
<1>2. trace[j] \in Request /\ Len(trace) \in Nat
  BY <1>1
<1> QED
  BY <1>2 DEF Request

\* Nothing is live before the first request.
LEMMA LiveFirst == LiveBefore(1) = {}
<1>1. 1 .. 1 - 1 = {}
  OBVIOUS
<1> QED
  BY <1>1 DEF LiveBefore

\* How a request changes the set of live blocks.
LEMMA LiveNext ==
    ASSUME TypeOK, i <= Len(trace)
    PROVE  LiveBefore(i + 1) = IF op.type = "FREE" THEN LiveBefore(i) \ {op.index}
                               ELSE LiveBefore(i) \cup {op.index}
<1>1. i \in Nat /\ i >= 1 /\ Len(trace) \in Nat /\ i \in 1 .. Len(trace)
  BY DEF TypeOK
<1>2. op.index \in Ids
  BY <1>1, RequestType DEF op
<1>3. (i + 1) - 1 = i /\ 1 .. i = (1 .. i - 1) \cup {i}
      /\ \A j \in 1 .. i - 1 : j + 1 .. i = (j + 1 .. i - 1) \cup {i}
      /\ i + 1 .. i = {}
  BY <1>1
<1>4. ASSUME NEW x \in LiveBefore(i + 1)
      PROVE  IF op.type = "FREE" THEN x \in LiveBefore(i) \ {op.index}
             ELSE x \in LiveBefore(i) \cup {op.index}
  <2>1. PICK j \in 1 .. i :
            /\ trace[j].index = x /\ trace[j].type # "FREE"
            /\ \A k \in j + 1 .. i : trace[k].index = x => trace[k].type # "FREE"
    BY <1>3, <1>4 DEF LiveBefore
  <2>2. x \in Ids
    BY <1>4 DEF LiveBefore
  <2>3. CASE j = i
    BY <2>1, <2>3 DEF op
  <2>4. CASE j # i
    <3>1. j \in 1 .. i - 1 /\ i \in j + 1 .. i
      BY <2>4, <1>1
    <3>2. x \in LiveBefore(i)
      BY <3>1, <2>1, <2>2, <1>3 DEF LiveBefore
    <3>3. trace[i].index = x => trace[i].type # "FREE"
      BY <2>1, <3>1
    <3> QED
      BY <3>2, <3>3 DEF op
  <2> QED
    BY <2>3, <2>4
<1>5. ASSUME NEW x \in LiveBefore(i), x = op.index => op.type # "FREE"
      PROVE  x \in LiveBefore(i + 1)
  <2>1. PICK j \in 1 .. i - 1 :
            /\ trace[j].index = x /\ trace[j].type # "FREE"
            /\ \A k \in j + 1 .. i - 1 : trace[k].index = x => trace[k].type # "FREE"
    BY <1>5 DEF LiveBefore
  <2>2. x \in Ids /\ j \in 1 .. i
    BY <1>5, <1>3 DEF LiveBefore
  <2>3. \A k \in j + 1 .. i : trace[k].index = x => trace[k].type # "FREE"
    BY <2>1, <1>3, <1>5 DEF op
  <2> QED
    BY <2>1, <2>2, <2>3, <1>3 DEF LiveBefore
<1>6. op.type # "FREE" => op.index \in LiveBefore(i + 1)
  BY <1>2, <1>3 DEF LiveBefore, op
<1> QED
  BY <1>4, <1>5, <1>6

\* A block's size is that of its last request.
LEMMA AskedIs ==
    ASSUME TypeOK, NEW n \in 1 .. Len(trace) + 1, NEW x, NEW j, LastRequest(x, n, j)
    PROVE  Asked(x, n) = trace[j].size /\ Asked(x, n) \in Sizes
<1> DEFINE Latest(l) == /\ trace[l].index = x /\ trace[l].type # "FREE"
                      /\ \A k \in l + 1 .. n - 1 : trace[k].index # x
<1>1. Len(trace) \in Nat /\ n \in Nat
  BY DEF TypeOK
<1>2. j \in 1 .. n - 1 /\ Latest(j)
  BY DEF LastRequest
<1>3. ASSUME NEW l \in 1 .. n - 1, Latest(l)
      PROVE  l = j
  <2>1. CASE l < j
    <3>1. j \in l + 1 .. n - 1
      BY <2>1, <1>1, <1>2
    <3> QED
      BY <3>1, <1>2, <1>3
  <2>2. CASE j < l
    <3>1. l \in j + 1 .. n - 1
      BY <2>2, <1>1, <1>2
    <3> QED
      BY <3>1, <1>2, <1>3
  <2> QED
    BY <2>1, <2>2, <1>1, <1>2
<1> DEFINE J == CHOOSE l \in 1 .. n - 1 : Latest(l)
<1>4. J \in 1 .. n - 1 /\ Latest(J)
  BY <1>2
<1>5. J = j
  BY <1>3, <1>4
<1>6. Asked(x, n) = trace[J].size
  BY DEF Asked
<1>7. j \in 1 .. Len(trace)
  BY <1>1, <1>2
<1> QED
  BY <1>2, <1>5, <1>6, <1>7, RequestType

\* How a request changes what the live blocks were last asked for.
LEMMA AskedNext ==
    ASSUME TypeOK, TraceInv, i <= Len(trace), NEW x \in LiveBefore(i + 1)
    PROVE  /\ \E j \in 1 .. i : LastRequest(x, i + 1, j)
           /\ Asked(x, i + 1) = IF x = op.index THEN op.size ELSE Asked(x, i)
           /\ x # op.index => x \in LiveBefore(i)
           /\ x = op.index => op.type # "FREE"
           /\ Asked(x, i + 1) \in Sizes
<1>1. i \in Nat /\ i >= 1 /\ Len(trace) \in Nat /\ i \in 1 .. Len(trace)
      /\ i \in 1 .. Len(trace) + 1 /\ i + 1 \in 1 .. Len(trace) + 1
  BY DEF TypeOK
<1>2. (i + 1) - 1 = i /\ i + 1 .. i = {}
      /\ \A j \in 1 .. i - 1 : j \in 1 .. i /\ j + 1 .. i = (j + 1 .. i - 1) \cup {i}
  BY <1>1
<1>3. CASE x = op.index
  <2>1. op.type # "FREE"
    BY <1>3, LiveNext
  <2>2. LastRequest(x, i + 1, i)
    BY <1>1, <1>2, <1>3, <2>1 DEF LastRequest, op
  <2>3. Asked(x, i + 1) = trace[i].size /\ Asked(x, i + 1) \in Sizes
    BY <2>2, <1>1, AskedIs
  <2> QED
    BY <1>1, <1>3, <2>1, <2>2, <2>3 DEF op
<1>4. CASE x # op.index
  <2>1. x \in LiveBefore(i)
    BY <1>4, LiveNext
  <2>2. PICK j \in 1 .. i - 1 : LastRequest(x, i, j)
    BY <2>1 DEF TraceInv
  <2>3. LastRequest(x, i + 1, j) /\ j \in 1 .. i
    BY <2>2, <1>2, <1>4 DEF LastRequest, op
  <2>4. Asked(x, i) = trace[j].size /\ Asked(x, i + 1) = trace[j].size
        /\ Asked(x, i + 1) \in Sizes
    BY <2>2, <2>3, <1>1, AskedIs
  <2> QED
    BY <1>4, <2>1, <2>3, <2>4
<1> QED
  BY <1>3, <1>4

-----------------------------------------------------------------------------
(* The range list *)

SharedIn(list) ==
    \A j, k \in DOMAIN list : j < k =>
        \/ list[j].hi < list[k].lo \/ list[k].hi < list[j].lo
        \/ list[j].lo < list[k].lo /\ list[k].hi < list[j].hi

\* No two ranges start at the same address.
LEMMA DistinctStarts ==
    ASSUME NEW list \in Seq(Extents), SharedIn(list),
           NEW j \in DOMAIN list, NEW k \in DOMAIN list, list[j].lo = list[k].lo
    PROVE  j = k
<1>1. /\ list[j].lo \in Int /\ list[j].hi \in Int /\ list[j].lo <= list[j].hi
      /\ list[k].lo \in Int /\ list[k].hi \in Int /\ list[k].lo <= list[k].hi
      /\ j \in Nat /\ k \in Nat
  <2>1. list[j] \in Extents /\ list[k] \in Extents /\ j \in Nat /\ k \in Nat
    OBVIOUS
  <2>2. MAX_HEAP \in Int
    BY DriverConstants DEF DriverConstants
  <2> QED
    BY <2>1, <2>2 DEF Extents, Addresses
<1>2. ~(j < k) /\ ~(k < j)
  BY <1>1 DEF SharedIn
<1> QED
  BY <1>1, <1>2

\* remove_range takes out the one range that starts at the address.
LEMMA Removed ==
    ASSUME NEW list \in Seq(Extents), SharedIn(list), NEW k \in DOMAIN list
    PROVE  LET s == remove_range(list, list[k].lo)
           IN  /\ s \in Seq(Extents) /\ Len(s) = Len(list) - 1
               /\ \A l \in 1 .. Len(list) - 1 : s[l] = list[IF l < k THEN l ELSE l + 1]
<1> DEFINE lo == list[k].lo
           I == {l \in 1 .. Len(list) : list[l].lo = lo}
<1>1. k \in 1 .. Len(list) /\ Len(list) \in Nat
  OBVIOUS
<1>2. I = {k}
  BY <1>1, DistinctStarts
<1>3. Min(I) = k
  BY <1>1, <1>2 DEF Min
<1>4. SelectInSeq(list, LAMBDA r : r.lo = lo) = k
  BY <1>2, <1>3 DEF SelectInSeq
<1>5. remove_range(list, lo) = SubSeq(list, 1, k - 1) \o SubSeq(list, k + 1, Len(list))
  BY <1>1, <1>4 DEF remove_range, RemoveFirstMatch, RemoveAt
<1> DEFINE s == SubSeq(list, 1, k - 1)
           t == SubSeq(list, k + 1, Len(list))
<1>6. s \in Seq(Extents) /\ Len(s) = k - 1 /\ \A l \in 1 .. k - 1 : s[l] = list[l]
  BY <1>1, SMT
<1>7. t \in Seq(Extents) /\ Len(t) = Len(list) - k /\ \A l \in 1 .. Len(list) - k : t[l] = list[k + l]
  BY <1>1, SMT
<1>8. /\ s \o t \in Seq(Extents) /\ Len(s \o t) = Len(list) - 1
      /\ \A l \in 1 .. Len(list) - 1 : (s \o t)[l] = IF l < k THEN s[l] ELSE t[l - (k - 1)]
  <2> HIDE DEF s, t
  <2>1. /\ s \o t \in Seq(Extents) /\ Len(s \o t) = Len(s) + Len(t)
        /\ \A l \in 1 .. Len(s) + Len(t) : (s \o t)[l] = IF l <= Len(s) THEN s[l] ELSE t[l - Len(s)]
    BY <1>6, <1>7, ConcatProperties
  <2>2. Len(s) + Len(t) = Len(list) - 1 /\ Len(s) = k - 1 /\ k \in Nat
    BY <1>1, <1>6, <1>7
  <2>3. \A l \in 1 .. Len(list) - 1 : l <= k - 1 <=> l < k
    BY <1>1
  <2> QED
    BY <2>1, <2>2, <2>3
<1>9. \A l \in 1 .. Len(list) - 1 : (s \o t)[l] = list[IF l < k THEN l ELSE l + 1]
  <2> TAKE l \in 1 .. Len(list) - 1
  <2> HIDE DEF s, t
  <2>1. CASE l < k
    <3>1. l \in 1 .. k - 1
      BY <2>1, <1>1
    <3> QED
      BY <3>1, <2>1, <1>6, <1>8
  <2>2. CASE ~(l < k)
    <3>1. l - (k - 1) \in 1 .. Len(list) - k /\ k + (l - (k - 1)) = l + 1
      BY <2>2, <1>1
    <3>2. t[l - (k - 1)] = list[k + (l - (k - 1))]
      BY <3>1, <1>7
    <3> QED
      BY <3>1, <3>2, <2>2, <1>8
  <2> QED
    BY <2>1, <2>2
<1> QED
  BY <1>5, <1>8, <1>9

\* Taking a range out leaves the others in order.
LEMMA RemovedShared ==
    ASSUME NEW list \in Seq(Extents), SharedIn(list), NEW k \in DOMAIN list
    PROVE  /\ SharedIn(remove_range(list, list[k].lo))
           /\ \A l \in DOMAIN remove_range(list, list[k].lo) :
                \E m \in DOMAIN list \ {k} : remove_range(list, list[k].lo)[l] = list[m]
           /\ \A m \in DOMAIN list \ {k} :
                \E l \in DOMAIN remove_range(list, list[k].lo) :
                    remove_range(list, list[k].lo)[l] = list[m]
<1> DEFINE s == remove_range(list, list[k].lo)
           at(l) == IF l < k THEN l ELSE l + 1
<1>1. /\ s \in Seq(Extents) /\ Len(s) = Len(list) - 1
      /\ \A l \in 1 .. Len(list) - 1 : s[l] = list[at(l)]
  BY Removed
<1>2. k \in 1 .. Len(list) /\ Len(list) \in Nat /\ DOMAIN list = 1 .. Len(list)
  OBVIOUS
<1> HIDE DEF s
<1>3. DOMAIN s = 1 .. Len(list) - 1
  BY <1>1, <1>2
<1>4. \A l \in DOMAIN s : at(l) \in DOMAIN list \ {k} /\ s[l] = list[at(l)]
  BY <1>1, <1>2, <1>3
<1>5. \A l, m \in DOMAIN s : l < m => at(l) < at(m)
  BY <1>2, <1>3
<1>6. SharedIn(s)
  <2> SUFFICES ASSUME NEW l \in DOMAIN s, NEW m \in DOMAIN s, l < m
               PROVE  \/ s[l].hi < s[m].lo \/ s[m].hi < s[l].lo
                      \/ s[l].lo < s[m].lo /\ s[m].hi < s[l].hi
    BY DEF SharedIn
  <2>1. at(l) \in DOMAIN list /\ at(m) \in DOMAIN list /\ at(l) < at(m)
        /\ s[l] = list[at(l)] /\ s[m] = list[at(m)]
    BY <1>4, <1>5
  <2> HIDE DEF at
  <2> QED
    BY <2>1 DEF SharedIn
<1>7. ASSUME NEW m \in DOMAIN list \ {k}
      PROVE  \E l \in DOMAIN s : s[l] = list[m]
  <2>1. CASE m < k
    <3>1. m \in DOMAIN s /\ at(m) = m
      BY <2>1, <1>2, <1>3
    <3> QED
      BY <3>1, <1>4
  <2>2. CASE ~(m < k)
    <3>1. m - 1 \in DOMAIN s /\ at(m - 1) = m
      BY <2>2, <1>2, <1>3
    <3>2. s[m - 1] = list[at(m - 1)]
      BY <3>1, <1>4
    <3> QED
      BY <3>1, <3>2
  <2> QED
    BY <2>1, <2>2
<1>8. \A l \in DOMAIN s : \E m \in DOMAIN list \ {k} : s[l] = list[m]
  BY <1>4
<1> QED
  BY <1>6, <1>7, <1>8 DEF s

\* What add_range makes of a list when its checks let the payload through.
LEMMA Added ==
    ASSUME NEW list \in Seq(Extents), SharedIn(list), NEW p \in Answers, NEW n \in Nat \ {0},
           NEW b \in 0 .. MAX_HEAP, add_range_ok(list, p, n, b)
    PROVE  LET s == add_range(list, p, n)
           IN  /\ s \in Seq(Extents) /\ SharedIn(s) /\ Len(s) = Len(list) + 1
               /\ s[1] = [lo |-> p, hi |-> p + n - 1]
               /\ \A l \in DOMAIN list : s[l + 1] = list[l]
               /\ p \in Addresses /\ p + n <= b
<1> DEFINE r == [lo |-> p, hi |-> p + n - 1]
           s == add_range(list, p, n)
<1>0. MAX_HEAP \in Nat \ {0} /\ ALIGNMENT \in Nat \ {0} /\ b \in Nat /\ b <= MAX_HEAP
  BY DriverConstants DEF DriverConstants
<1>1. p \in Int /\ 0 <= p /\ p + n <= b /\ p \in Addresses
  <2>1. p \in Int
    BY <1>0 DEF Answers, Addresses
  <2>2. 0 <= p /\ p + n <= b
    BY DEF add_range_ok, InHeap
  <2> QED
    BY <1>0, <2>1, <2>2 DEF Addresses
<1>2. r \in Extents
  BY <1>0, <1>1 DEF Extents, Addresses
<1>3. s = <<r>> \o list
  BY DEF add_range
<1>4. Len(list) \in Nat /\ DOMAIN list = 1 .. Len(list)
  OBVIOUS
<1>5. /\ s \in Seq(Extents) /\ Len(s) = Len(list) + 1 /\ s[1] = r
      /\ \A l \in DOMAIN list : s[l + 1] = list[l]
  <2> HIDE DEF r, s
  <2> QED
    BY <1>2, <1>3, <1>4, SMT
<1>6. ASSUME NEW k \in DOMAIN list
      PROVE  \/ r.hi < list[k].lo \/ list[k].hi < r.lo
             \/ r.lo < list[k].lo /\ list[k].hi < r.hi
  <2>1. list[k] \in Extents
    OBVIOUS
  <2>2. list[k].lo \in Int /\ list[k].hi \in Int
    BY <2>1, <1>0 DEF Extents, Addresses
  <2>3. ~Holds(list[k], p) /\ ~Holds(list[k], p + n - 1)
    BY DEF add_range_ok, Overlaps
  <2> QED
    BY <1>1, <2>2, <2>3 DEF Holds
<1>7. SharedIn(s)
  <2> SUFFICES ASSUME NEW j \in DOMAIN s, NEW k \in DOMAIN s, j < k
               PROVE  \/ s[j].hi < s[k].lo \/ s[k].hi < s[j].lo
                      \/ s[j].lo < s[k].lo /\ s[k].hi < s[j].hi
    BY DEF SharedIn
  <2>0. DOMAIN s = 1 .. Len(list) + 1
    BY <1>4, <1>5
  <2> HIDE DEF r, s
  <2>1. j \in Nat /\ k \in Nat /\ k - 1 \in DOMAIN list /\ (k - 1) + 1 = k
    BY <1>4, <2>0
  <2>2. s[k] = list[k - 1]
    BY <2>1, <1>5
  <2>3. CASE j = 1
    BY <2>1, <2>2, <2>3, <1>5, <1>6
  <2>4. CASE j # 1
    <3>1. j - 1 \in DOMAIN list /\ (j - 1) + 1 = j /\ j - 1 < k - 1
      BY <1>4, <2>0, <2>1, <2>4
    <3>2. s[j] = list[j - 1]
      BY <3>1, <1>5
    <3> QED
      BY <2>1, <2>2, <3>1, <3>2 DEF SharedIn
  <2> QED
    BY <2>3, <2>4
<1> QED
  BY <1>1, <1>5, <1>7

\* The ranges without that of a block reallocated or freed are those of the
\* other live blocks.
LEMMA OthersListed ==
    ASSUME DInv, phase = "valid", i <= Len(trace), op.type \in {"REALLOC", "FREE"}
    PROVE  LET list == remove_range(ranges, blocks[op.index])
               S == LiveBefore(i) \ {op.index}
           IN  /\ op.index \in LiveBefore(i)
               /\ list \in Seq(Extents) /\ SharedIn(list) /\ Len(list) = Cardinality(S)
               /\ \A l \in DOMAIN list : \E x \in S : list[l] = Extent(x)
               /\ \A x \in S : \E l \in DOMAIN list : list[l] = Extent(x)
<1> DEFINE list == remove_range(ranges, blocks[op.index])
           S == LiveBefore(i) \ {op.index}
<1>1. i \in 1 .. Len(trace) /\ ranges \in Seq(Extents) /\ SharedIn(ranges)
      /\ IsFiniteSet(LiveBefore(i))
  BY DEF DInv, TypeOK, TraceInv, SharedOnlyIfContained, SharedIn
<1>2. op.index \in LiveBefore(i)
  BY <1>1 DEF DInv, TraceInv, op
<1>3. PICK k \in DOMAIN ranges : ranges[k] = Extent(op.index)
  BY <1>2 DEF DInv, ListInv
<1>4. ranges[k].lo = blocks[op.index] /\ list = remove_range(ranges, ranges[k].lo)
  BY <1>3 DEF Extent
<1>5. /\ list \in Seq(Extents) /\ SharedIn(list) /\ Len(list) = Len(ranges) - 1
      /\ \A l \in DOMAIN list : \E m \in DOMAIN ranges \ {k} : list[l] = ranges[m]
      /\ \A m \in DOMAIN ranges \ {k} : \E l \in DOMAIN list : list[l] = ranges[m]
  <2> DEFINE r == remove_range(ranges, ranges[k].lo)
  <2>1. r \in Seq(Extents) /\ Len(r) = Len(ranges) - 1
    BY <1>1, Removed
  <2>2. /\ SharedIn(r)
        /\ \A l \in DOMAIN r : \E m \in DOMAIN ranges \ {k} : r[l] = ranges[m]
        /\ \A m \in DOMAIN ranges \ {k} : \E l \in DOMAIN r : r[l] = ranges[m]
    BY <1>1, RemovedShared
  <2>3. list = r
    BY <1>4
  <2> HIDE DEF list, r
  <2> QED
    BY <2>1, <2>2, <2>3
<1> HIDE DEF list
<1>6. Len(list) = Cardinality(S)
  <2>1. Cardinality(S) = Cardinality(LiveBefore(i)) - 1
    BY <1>1, <1>2, FS_RemoveElement
  <2>2. Len(ranges) = Cardinality(LiveBefore(i))
    BY DEF DInv, ListInv
  <2> QED
    BY <1>5, <2>1, <2>2
<1>7. ASSUME NEW m \in DOMAIN ranges \ {k}
      PROVE  \E x \in S : ranges[m] = Extent(x)
  <2>1. PICK x \in LiveBefore(i) : ranges[m] = Extent(x)
    BY <1>7 DEF DInv, ListInv
  <2>2. x # op.index
    <3>1. SUFFICES ASSUME x = op.index PROVE FALSE
      OBVIOUS
    <3>2. ranges[m].lo = ranges[k].lo
      BY <2>1, <3>1, <1>3
    <3> QED
      BY <3>2, <1>1, <1>7, DistinctStarts
  <2> QED
    BY <2>1, <2>2
<1>8. ASSUME NEW x \in S
      PROVE  \E m \in DOMAIN ranges \ {k} : ranges[m] = Extent(x)
  <2>1. PICK m \in DOMAIN ranges : ranges[m] = Extent(x)
    BY <1>8 DEF DInv, ListInv
  <2>2. blocks[x] # blocks[op.index]
    BY <1>2, <1>8 DEF DInv, ListInv
  <2>3. m # k
    BY <2>1, <2>2, <1>3 DEF Extent
  <2> QED
    BY <2>1, <2>3
<1>9. /\ \A l \in DOMAIN list : \E x \in S : list[l] = Extent(x)
      /\ \A x \in S : \E l \in DOMAIN list : list[l] = Extent(x)
  BY <1>5, <1>7, <1>8
<1> QED
  BY <1>2, <1>5, <1>6, <1>9 DEF list

-----------------------------------------------------------------------------
(* Steps *)

\* The live blocks of the first requests do not depend on later ones.
LEMMA LivePrefix ==
    ASSUME NEW n \in Nat, \A j \in 1 .. n - 1 : trace'[j] = trace[j]
    PROVE  LiveBefore(n)' = LiveBefore(n)
<1>1. \A j \in 1 .. n - 1 : \A k \in j + 1 .. n - 1 : k \in 1 .. n - 1
  OBVIOUS
<1> QED
  BY <1>1 DEF LiveBefore

\* The requests' part of the invariant, when no request is added.
LEMMA TraceStep ==
    ASSUME TypeOK, TraceInv, trace' = trace, ranges' \in Seq(Extents),
           i' = 1 \/ i' = i \/ (i' = i + 1 /\ i <= Len(trace))
    PROVE  TraceInv'
<1>1. /\ i \in Nat /\ i >= 1 /\ Len(trace) \in Nat
  BY DEF TypeOK
<1>2. ASSUME NEW n \in Nat
      PROVE  LiveBefore(n)' = LiveBefore(n)
  BY <1>2, LivePrefix
<1>3. LiveBefore(i)' = LiveBefore(i')
  BY DEF LiveBefore
<1>4. ASSUME NEW x, NEW j
      PROVE  LastRequest(x, i, j)' = LastRequest(x, i', j)
  BY DEF LastRequest
<1>5. IsFiniteSet(LiveBefore(i'))
  <2>1. CASE i' = i + 1 /\ i <= Len(trace)
    <3>1. IsFiniteSet(LiveBefore(i))
      BY DEF TraceInv
    <3>2. IsFiniteSet(LiveBefore(i) \cup {op.index}) /\ IsFiniteSet(LiveBefore(i) \ {op.index})
      BY <3>1, FS_AddElement, FS_RemoveElement
    <3> QED
      BY <2>1, <3>2, LiveNext
  <2>2. CASE i' = 1
    BY <2>2, LiveFirst, FS_EmptySet
  <2> QED
    BY <2>1, <2>2 DEF TraceInv
<1>6. \A x \in LiveBefore(i') : \E j \in 1 .. i' - 1 : LastRequest(x, i', j)
  <2>1. CASE i' = i + 1 /\ i <= Len(trace)
    <3>1. i' - 1 = i
      BY <2>1, <1>1
    <3> QED
      BY <2>1, <3>1, AskedNext
  <2>2. CASE i' = 1
    BY <2>2, LiveFirst
  <2>3. CASE i' = i
    BY <2>3 DEF TraceInv
  <2> QED
    BY <2>1, <2>2, <2>3
<1>7. \A n \in 1 .. Len(trace') :
        trace'[n].type = "ALLOC" <=> trace'[n].index \notin LiveBefore(n)'
  BY <1>1, <1>2 DEF TraceInv
<1> QED
  BY <1>3, <1>4, <1>5, <1>6, <1>7 DEF TraceInv

\* malloc_error and the end of the trace it is about.
LEMMA InvalidKeeps ==
    ASSUME DInv, phase \in {"read", "valid"}, Invalid, conforming' = conforming,
           nulls \subseteq nulls', high \subseteq high', high' \subseteq high \cup {tracenum},
           conforming => tracenum \in nulls' \cup high',
           brk' \in 0 .. MAX_HEAP, mem' \in [Addresses -> 0 .. JUNK],
           ranges' \in Seq(Extents), SharedIn(ranges')
    PROVE  DInv'
<1> DEFINE Bad == {t \in 1 .. NumTraces : valid[t] = "invalid"}
<1>0. /\ MAX_HEAP \in Nat \ {0} /\ NumTraces \in Nat \ {0} /\ MaxOps \in Nat /\ REPEAT \in Nat
      /\ 0 \in Answers
  BY DriverConstants DEF DriverConstants, Answers, Addresses
<1>1. /\ tracenum \in 1 .. NumTraces /\ valid \in [1 .. NumTraces -> {"none", "valid", "invalid"}]
      /\ errors \in 0 .. NumTraces
      /\ valid[tracenum] = "none" /\ \A t \in 1 .. NumTraces : t > tracenum => valid[t] = "none"
      /\ errors = Cardinality(Bad)
      /\ \A t \in 1 .. NumTraces : t \in high => valid[t] = "invalid"
      /\ conforming => \A t \in 1 .. NumTraces : valid[t] = "invalid" => t \in nulls \cup high
  BY DEF DInv, TypeOK, VerdictInv, NoFalseAlarm
<1>2. /\ errors' = errors + 1 /\ valid' = [valid EXCEPT ![tracenum] = "invalid"]
      /\ trace' = << >> /\ i' = 1 /\ run' = 0
      /\ blocks' = [x \in Ids |-> 0] /\ block_sizes' = [x \in Ids |-> 0]
      /\ total_size' = 0 /\ max_total_size' = 0
      /\ \/ tracenum < NumTraces /\ tracenum' = tracenum + 1 /\ phase' = "read"
         \/ tracenum' = tracenum /\ phase' = "report"
  BY DEF Invalid, Finish
<1>3. {t \in 1 .. NumTraces : valid'[t] = "invalid"} = Bad \cup {tracenum}
  BY <1>1, <1>2
<1>4. IsFiniteSet(Bad) /\ Cardinality(Bad \cup {tracenum}) = errors + 1
      /\ Cardinality(Bad \cup {tracenum}) <= NumTraces
  <2>1. IsFiniteSet(1 .. NumTraces) /\ Cardinality(1 .. NumTraces) = NumTraces
    <3>1. 1 \in Int /\ NumTraces \in Int
      BY <1>0
    <3>2. /\ IsFiniteSet(1 .. NumTraces)
          /\ Cardinality(1 .. NumTraces) = IF 1 > NumTraces THEN 0 ELSE NumTraces - 1 + 1
      BY <3>1, FS_Interval
    <3> QED
      BY <1>0, <3>2
  <2>2. IsFiniteSet(Bad)
    BY <2>1, FS_Subset
  <2>3. Cardinality(Bad \cup {tracenum}) = Cardinality(Bad) + 1
    <3>1. tracenum \notin Bad
      BY <1>1
    <3> QED
      BY <2>2, <3>1, FS_AddElement
  <2>4. Cardinality(Bad \cup {tracenum}) <= NumTraces
    <3>1. Bad \cup {tracenum} \in SUBSET (1 .. NumTraces)
      BY <1>1
    <3> QED
      BY <2>1, <3>1, FS_Subset
  <2> QED
    BY <1>1, <2>2, <2>3, <2>4
<1>5. TypeOK'
  <2>1. \A k \in DOMAIN ranges' : ranges'[k] \in [lo : Addresses, hi : Addresses]
    <3> DEFINE rs == ranges'
    <3>1. \A k \in DOMAIN rs : rs[k] \in Extents
      OBVIOUS
    <3> QED
      BY <3>1 DEF Extents
  <2>2. phase' \in {"read", "report"} /\ tracenum' \in 1 .. NumTraces
    BY <1>0, <1>1, <1>2
  <2>3. trace' \in Seq(Request) /\ Len(trace') = 0 /\ i' \in 1 .. Len(trace') + 1
    BY <1>2
  <2>4. blocks' \in [Ids -> Answers] /\ block_sizes' \in [Ids -> Sizes \cup {0}]
    BY <1>0, <1>2
  <2>5. errors' \in 0 .. NumTraces /\ valid' \in [1 .. NumTraces -> {"none", "valid", "invalid"}]
    BY <1>0, <1>1, <1>2, <1>4
  <2>6. total_size' \in Int /\ max_total_size' \in Nat /\ run' \in 0 .. REPEAT
    BY <1>0, <1>2
  <2> QED
    BY <1>0, <2>1, <2>2, <2>3, <2>4, <2>5, <2>6 DEF TypeOK
<1>6. TraceInv'
  <2>1. 1 .. 1 - 1 = {} /\ 1 .. Len(<< >>) = {}
    OBVIOUS
  <2>2. LiveBefore(i)' = {}
    BY <1>2, <2>1 DEF LiveBefore
  <2> QED
    BY <1>2, <2>1, <2>2, FS_EmptySet DEF TraceInv
<1>7. ListInv' /\ BytesInv'
  BY <1>2 DEF ListInv, BytesInv
<1>8. VerdictInv'
  <2>1. CASE phase' = "report"
    BY <2>1 DEF VerdictInv
  <2>2. CASE tracenum < NumTraces /\ tracenum' = tracenum + 1 /\ phase' = "read"
    <3>1. valid'[tracenum + 1] = "none"
          /\ \A t \in 1 .. NumTraces : t > tracenum + 1 => valid'[t] = "none"
      BY <1>0, <1>1, <1>2, <2>2
    <3> QED
      BY <2>2, <3>1 DEF VerdictInv
  <2> QED
    BY <1>2, <2>1, <2>2
<1>9. NoFalseAlarm'
  <2>1. errors' = Cardinality({t \in 1 .. NumTraces : valid'[t] = "invalid"})
    BY <1>1, <1>2, <1>3, <1>4
  <2>2. ASSUME NEW t \in 1 .. NumTraces
        PROVE  /\ t \in high' => valid'[t] = "invalid"
               /\ conforming /\ valid'[t] = "invalid" => t \in nulls' \cup high'
    BY <1>1, <1>2
  <2> QED
    BY <2>1, <2>2 DEF NoFalseAlarm
<1>10. SharedOnlyIfContained'
  BY DEF SharedOnlyIfContained, SharedIn
<1> QED
  BY <1>5, <1>6, <1>7, <1>8, <1>9, <1>10 DEF DInv

\* Steps outside eval_mm_valid that find no error.
LEMMA QuietKeeps ==
    ASSUME DInv, TypeOK', TraceInv', VerdictInv', phase' # "valid", ranges' = ranges,
           errors' = errors, conforming' = conforming, nulls \subseteq nulls',
           high' = high,
           \A t \in 1 .. NumTraces : valid'[t] = "invalid" <=> valid[t] = "invalid"
    PROVE  DInv'
<1>1. NoFalseAlarm'
  <2>1. {t \in 1 .. NumTraces : valid'[t] = "invalid"} = {t \in 1 .. NumTraces : valid[t] = "invalid"}
    OBVIOUS
  <2> QED
    BY <2>1 DEF DInv, NoFalseAlarm
<1>2. SharedOnlyIfContained'
  BY DEF DInv, SharedOnlyIfContained
<1> QED
  BY <1>1, <1>2 DEF DInv, ListInv, BytesInv

\* The constants as numbers.
LEMMA Numbers ==
    /\ MAX_HEAP \in Nat \ {0} /\ ALIGNMENT \in Nat \ {0} /\ NumTraces \in Nat \ {0}
    /\ MaxOps \in Nat /\ REPEAT \in Nat \ {0} /\ Ids \subseteq Nat /\ Sizes \subseteq Nat \ {0}
    /\ 0 \in Answers
  BY DriverConstants DEF DriverConstants, Answers, Addresses

\* read_trace adds a request.
LEMMA ReadRequestKeeps == ASSUME DInv, NEW r \in Request, ReadRequest(r), UNCHANGED conforming
                          PROVE  DInv'
<1>1. /\ phase = "read" /\ Len(trace) < MaxOps /\ trace' = Append(trace, r)
      /\ r.type = "ALLOC" <=> r.index \notin LiveBefore(Len(trace) + 1)
      /\ UNCHANGED <<phase, tracenum, i, blocks, block_sizes, ranges, errors,
                     valid, total_size, max_total_size, run, brk, mem, nulls, high>>
  BY DEF ReadRequest
<1>2. /\ trace \in Seq(Request) /\ Len(trace) \in Nat /\ i \in 1 .. Len(trace) + 1 /\ i \in Nat
  BY DEF DInv, TypeOK
<1>3. /\ trace' \in Seq(Request) /\ Len(trace') = Len(trace) + 1
      /\ \A j \in 1 .. Len(trace) : trace'[j] = trace[j]
      /\ trace'[Len(trace) + 1] = r
  BY <1>1, <1>2
<1>4. TypeOK'
  <2>1. i' \in 1 .. Len(trace') + 1 /\ Len(trace') <= MaxOps
    BY <1>1, <1>2, <1>3, Numbers
  <2>2. \A k \in DOMAIN ranges' : ranges'[k] \in [lo : Addresses, hi : Addresses]
    BY <1>1 DEF DInv, TypeOK
  <2> QED
    BY <1>1, <1>3, <2>1, <2>2 DEF DInv, TypeOK
<1>5. ASSUME NEW n \in 1 .. Len(trace) + 1
      PROVE  LiveBefore(n)' = LiveBefore(n)
  <2>1. n \in Nat /\ \A j \in 1 .. n - 1 : trace'[j] = trace[j]
    BY <1>2, <1>3
  <2> QED
    BY <2>1, LivePrefix
<1>6. TraceInv'
  <2>1. LiveBefore(i)' = LiveBefore(i)
    <3>1. PICK n \in 1 .. Len(trace) + 1 : n = i
      BY <1>2
    <3>2. LiveBefore(i)' = LiveBefore(n)'
      BY <1>1, <3>1 DEF LiveBefore
    <3> QED
      BY <1>5, <3>1, <3>2
  <2>2. ASSUME NEW n \in 1 .. Len(trace')
        PROVE  trace'[n].type = "ALLOC" <=> trace'[n].index \notin LiveBefore(n)'
    <3>1. CASE n = Len(trace) + 1
      BY <3>1, <1>1, <1>2, <1>3, <1>5
    <3>2. CASE n \in 1 .. Len(trace)
      <4>1. n \in 1 .. Len(trace) + 1
        BY <3>2, <1>2
      <4> QED
        BY <3>2, <4>1, <1>3, <1>5 DEF DInv, TraceInv
    <3> QED
      BY <3>1, <3>2, <1>2, <1>3
  <2>3. \A x \in LiveBefore(i) : \E j \in 1 .. i - 1 : LastRequest(x, i, j)'
    <3>1. \A j \in 1 .. i - 1 : j \in 1 .. Len(trace) /\ \A k \in j + 1 .. i - 1 : k \in 1 .. Len(trace)
      BY <1>2
    <3>2. \A x, j : LastRequest(x, i, j) => LastRequest(x, i, j)'
      BY <1>1, <1>3, <3>1 DEF LastRequest
    <3> QED
      BY <3>2 DEF DInv, TraceInv
  <2>4. IsFiniteSet(LiveBefore(i)) /\ ranges \in Seq(Extents)
    BY DEF DInv, TraceInv
  <2> QED
    BY <1>1, <2>1, <2>2, <2>3, <2>4 DEF TraceInv
<1>7. VerdictInv'
  BY <1>1 DEF DInv, VerdictInv
<1> QED
  BY <1>1, <1>4, <1>6, <1>7, QuietKeeps

\* eval_mm_valid begins with an empty list and nothing allocated.
LEMMA BeginValidKeeps == ASSUME DInv, BeginValid, UNCHANGED conforming PROVE DInv'
<1>1. /\ phase = "read" /\ brk' = 0 /\ ranges' = << >> /\ UNCHANGED <<mem, nulls, high>>
  BY DEF BeginValid, clear_ranges
<1>2. brk' \in 0 .. MAX_HEAP /\ mem' \in [Addresses -> 0 .. JUNK]
      /\ ranges' \in Seq(Extents) /\ SharedIn(ranges')
  BY <1>1, Numbers DEF DInv, TypeOK, SharedIn
<1>3. CASE ~conforming /\ Invalid
  BY <1>1, <1>2, <1>3, InvalidKeeps
<1>4. CASE /\ phase' = "valid" /\ i' = 1
           /\ UNCHANGED <<tracenum, trace, blocks, block_sizes, errors, valid,
                          total_size, max_total_size, run>>
  <2>1. DOMAIN ranges' = {} /\ Len(ranges') = 0
    BY <1>1
  <2>2. TypeOK'
    <3>1. i' \in 1 .. Len(trace') + 1
      BY <1>4 DEF DInv, TypeOK
    <3>2. \A k \in DOMAIN ranges' : ranges'[k] \in [lo : Addresses, hi : Addresses]
      BY <2>1
    <3> QED
      BY <1>2, <1>4, <3>1, <3>2 DEF DInv, TypeOK
  <2>3. TraceInv'
    BY <1>2, <1>4, TraceStep DEF DInv
  <2>4. LiveBefore(i)' = {}
    <3>1. 1 .. 1 - 1 = {}
      OBVIOUS
    <3> QED
      BY <1>4, <3>1 DEF LiveBefore
  <2>5. ListInv'
    BY <2>1, <2>4, FS_EmptySet DEF ListInv
  <2>6. BytesInv'
    BY <2>4 DEF BytesInv
  <2>7. VerdictInv' /\ SharedOnlyIfContained' /\ NoFalseAlarm'
    BY <1>1, <1>2, <1>4 DEF DInv, VerdictInv, SharedOnlyIfContained, SharedIn, NoFalseAlarm
  <2> QED
    BY <2>2, <2>3, <2>5, <2>6, <2>7 DEF DInv
<1> QED
  BY <1>3, <1>4 DEF BeginValid

\* The end of eval_mm_valid, or of the program when mm_init fails after it.
LEMMA VerdictKeeps ==
    ASSUME DInv, BeginUtil \/ InitFails, UNCHANGED conforming
    PROVE  DInv'
<1>1. /\ phase \in {"valid", "util", "speed"} /\ phase' \in {"util", "exit"}
      /\ phase' = "util" => phase = "valid"
      /\ valid' = [valid EXCEPT ![tracenum] = "valid"]
      /\ i' \in {1, i}
      /\ total_size' = 0 \/ total_size' = total_size
      /\ max_total_size' = 0 \/ max_total_size' = max_total_size
      /\ UNCHANGED <<tracenum, trace, blocks, block_sizes, ranges, errors, run, mem, nulls, high>>
  BY DEF BeginUtil, InitFails
<1>2. brk' = 0
  BY DEF BeginUtil, InitFails
<1>3. TypeOK'
  <2>1. i' \in 1 .. Len(trace') + 1 /\ total_size' \in Int /\ max_total_size' \in Nat
    BY <1>1 DEF DInv, TypeOK
  <2>2. \A k \in DOMAIN ranges' : ranges'[k] \in [lo : Addresses, hi : Addresses]
    BY <1>1 DEF DInv, TypeOK
  <2>3. brk' \in 0 .. MAX_HEAP
    BY <1>2, Numbers
  <2>4. valid' \in [1 .. NumTraces -> {"none", "valid", "invalid"}]
    BY <1>1 DEF DInv, TypeOK
  <2>5. phase' \in {"read", "valid", "util", "speed", "report", "exit"}
    BY <1>1
  <2> QED
    BY <1>1, <2>1, <2>2, <2>3, <2>4, <2>5 DEF DInv, TypeOK
<1>4. TraceInv'
  BY <1>1, TraceStep DEF DInv, TraceInv
<1>5. valid[tracenum] \in {"none", "valid"} /\ tracenum \in 1 .. NumTraces
      /\ valid \in [1 .. NumTraces -> {"none", "valid", "invalid"}]
  BY <1>1 DEF DInv, VerdictInv, TypeOK
<1>6. VerdictInv'
  <2>1. valid'[tracenum] = "valid" /\ \A t \in 1 .. NumTraces : t > tracenum => valid'[t] = valid[t]
    BY <1>1, <1>5
  <2> QED
    BY <1>1, <2>1 DEF DInv, VerdictInv
<1> QED
  BY <1>1, <1>3, <1>4, <1>5, <1>6, QuietKeeps

\* eval_mm_util and eval_mm_speed leave the list and the verdict alone.
LEMMA LaterKeeps ==
    ASSUME DInv, UNCHANGED conforming,
           \/ UtilNULL \/ UtilFree \/ BeginSpeed \/ EndTrace
           \/ \E p \in Answers : UtilAlloc(p) \/ UtilRealloc(p) \/ SpeedCall(p)
    PROVE  DInv'
<1> USE DEF DInv
<1>0. /\ Len(trace) \in Nat /\ i \in 1 .. Len(trace) + 1 /\ i \in Nat /\ brk \in 0 .. MAX_HEAP
      /\ total_size \in Int /\ max_total_size \in Nat /\ blocks \in [Ids -> Answers]
      /\ block_sizes \in [Ids -> Sizes \cup {0}] /\ tracenum \in 1 .. NumTraces
  BY DEF TypeOK
<1>1. i <= Len(trace) => /\ op.index \in Ids
                         /\ op.type # "FREE" => op.size \in Sizes
  BY <1>0, RequestType DEF op
<1>2. phase \in {"util", "speed"}
  BY DEF UtilNULL, UtilFree, BeginSpeed, EndTrace, UtilAlloc, UtilRealloc, SpeedCall, AtRequest
<1>3. UNCHANGED <<ranges, errors, valid, high>> /\ mem' = mem
  BY DEF UtilNULL, UtilFree, BeginSpeed, EndTrace, UtilAlloc, UtilRealloc, SpeedCall, Exit
<1>4. nulls \subseteq nulls'
  BY DEF UtilNULL, UtilFree, BeginSpeed, EndTrace, UtilAlloc, UtilRealloc, SpeedCall, AnswerNULL
<1>5. CASE UNCHANGED trace
  <2>1. \/ phase' \in {"util", "speed"} /\ tracenum' = tracenum
        \/ phase' \in {"report", "exit"} /\ tracenum' = tracenum
        \/ phase' = "read" /\ tracenum' = tracenum + 1 /\ tracenum < NumTraces
    BY <1>2 DEF UtilNULL, UtilFree, BeginSpeed, EndTrace, UtilAlloc, UtilRealloc, SpeedCall, AtRequest,
                Exit, Finish
  <2>2. i' = 1 \/ i' = i \/ (i' = i + 1 /\ i <= Len(trace))
    BY DEF UtilNULL, UtilFree, BeginSpeed, EndTrace, UtilAlloc, UtilRealloc, SpeedCall, AtRequest,
           Exit, Finish
  <2>3. i' \in 1 .. Len(trace') + 1
    BY <1>0, <1>5, <2>2
  <2>4. brk' \in 0 .. MAX_HEAP
    <3>1. \A b \in brk .. MAX_HEAP : b \in 0 .. MAX_HEAP
      BY <1>0, Numbers
    <3>2. 0 \in 0 .. MAX_HEAP
      BY Numbers
    <3> QED
      BY <1>0, <3>1, <3>2 DEF UtilNULL, UtilFree, BeginSpeed, EndTrace, UtilAlloc, UtilRealloc, SpeedCall,
           Answer, AnswerNULL
  <2>5. blocks' \in [Ids -> Answers] /\ block_sizes' \in [Ids -> Sizes \cup {0}]
    <3>1. CASE i <= Len(trace) /\ op.type # "FREE" /\ \E p \in Answers : Remember(p)
      BY <1>0, <1>1, <3>1 DEF Remember
    <3>2. CASE i <= Len(trace) /\ op.type # "FREE" /\ UNCHANGED block_sizes
               /\ \E p \in Answers : blocks' = [blocks EXCEPT ![op.index] = p]
      BY <1>0, <1>1, <3>2
    <3>3. CASE UNCHANGED <<blocks, block_sizes>>
      BY <1>0, <3>3
    <3>4. CASE Finish
      BY <3>4, Numbers DEF Finish
    <3> QED
      BY <3>1, <3>2, <3>3, <3>4 DEF UtilNULL, UtilFree, BeginSpeed, EndTrace, UtilAlloc, UtilRealloc,
           SpeedCall, AtRequest, Exit
  <2>6. total_size' \in Int /\ max_total_size' \in Nat
    <3>1. \A z \in Int : Larger(z, max_total_size) \in Nat
      BY <1>0 DEF Larger
    <3>2. i <= Len(trace) => /\ block_sizes[op.index] \in Int
                             /\ op.type # "FREE" => op.size \in Int
      <4>1. \A n \in Sizes \cup {0} : n \in Int
        BY Numbers
      <4>2. \A x \in Ids : block_sizes[x] \in Sizes \cup {0}
        BY <1>0
      <4> HIDE DEF op
      <4> QED
        BY <1>1, <4>1, <4>2
    <3>3. CASE \E z \in Int : Account(z)
      BY <3>3, <3>1 DEF Account
    <3>4. CASE UNCHANGED max_total_size /\ total_size' \in Int
      BY <1>0, <3>4
    <3>5. CASE Finish
      BY <3>5 DEF Finish
    <3>6. ASSUME NEW p \in Answers, UtilAlloc(p) PROVE \E z \in Int : Account(z)
      <4>1. total_size + op.size \in Int
        BY <1>0, <3>2, <3>6 DEF UtilAlloc, AtRequest
      <4> QED
        BY <4>1, <3>6 DEF UtilAlloc
    <3>7. ASSUME NEW p \in Answers, UtilRealloc(p) PROVE \E z \in Int : Account(z)
      <4>1. total_size + (op.size - block_sizes[op.index]) \in Int
        BY <1>0, <3>2, <3>7 DEF UtilRealloc, AtRequest
      <4> QED
        BY <4>1, <3>7 DEF UtilRealloc
    <3>8. UtilFree => UNCHANGED max_total_size /\ total_size' \in Int
      BY <1>0, <3>2 DEF UtilFree, AtRequest
    <3> QED
      BY <1>0, <3>3, <3>4, <3>5, <3>6, <3>7, <3>8
         DEF UtilNULL, BeginSpeed, EndTrace, SpeedCall, Exit
  <2>7. run' \in 0 .. REPEAT
    <3>1. run \in 0 .. REPEAT
      BY DEF TypeOK
    <3>2. 1 \in 0 .. REPEAT /\ 0 \in 0 .. REPEAT /\ (run < REPEAT => run + 1 \in 0 .. REPEAT)
      BY <3>1, Numbers
    <3> QED
      BY <3>1, <3>2 DEF UtilNULL, UtilFree, BeginSpeed, EndTrace, UtilAlloc, UtilRealloc, SpeedCall,
           Exit, Finish
  <2>8. tracenum' \in 1 .. NumTraces
    BY <1>0, <2>1, Numbers
  <2>9. TypeOK'
    <3>1. \A k \in DOMAIN ranges' : ranges'[k] \in [lo : Addresses, hi : Addresses]
      BY <1>3 DEF TypeOK
    <3> QED
      BY <1>3, <1>5, <2>1, <2>3, <2>4, <2>5, <2>6, <2>7, <2>8, <3>1 DEF TypeOK
  <2>10. TraceInv'
    BY <1>3, <1>5, <2>2, TraceStep DEF TraceInv
  <2>11. VerdictInv'
    BY <1>0, <1>2, <1>3, <2>1, Numbers DEF VerdictInv
  <2> QED
    BY <1>3, <1>4, <2>1, <2>9, <2>10, <2>11, QuietKeeps
<1>6. CASE EndTrace
  <2>1. /\ trace' = << >> /\ i' = 1 /\ run' = 0 /\ UNCHANGED brk
        /\ blocks' = [x \in Ids |-> 0] /\ block_sizes' = [x \in Ids |-> 0]
        /\ total_size' = 0 /\ max_total_size' = 0
        /\ \/ tracenum < NumTraces /\ tracenum' = tracenum + 1 /\ phase' = "read"
           \/ tracenum' = tracenum /\ phase' = "report"
    BY <1>6 DEF EndTrace, Finish
  <2>2. TypeOK'
    <3>1. \A k \in DOMAIN ranges' : ranges'[k] \in [lo : Addresses, hi : Addresses]
      BY <1>3 DEF TypeOK
    <3>2. trace' \in Seq(Request) /\ Len(trace') = 0 /\ i' \in 1 .. Len(trace') + 1
      BY <2>1
    <3>3. tracenum' \in 1 .. NumTraces /\ 0 \in 0 .. REPEAT /\ 0 <= MaxOps
      BY <1>0, <2>1, Numbers
    <3>4. blocks' \in [Ids -> Answers] /\ block_sizes' \in [Ids -> Sizes \cup {0}]
      BY <2>1, Numbers
    <3>5. phase' \in {"read", "valid", "util", "speed", "report", "exit"}
      BY <2>1
    <3> QED
      BY <1>3, <2>1, <3>1, <3>2, <3>3, <3>4, <3>5 DEF TypeOK
  <2>3. TraceInv'
    <3>1. 1 .. 1 - 1 = {} /\ 1 .. Len(<< >>) = {}
      OBVIOUS
    <3>2. LiveBefore(i)' = {}
      BY <2>1, <3>1 DEF LiveBefore
    <3> QED
      BY <1>3, <2>1, <3>1, <3>2, FS_EmptySet DEF TraceInv
  <2>4. VerdictInv'
    BY <1>0, <1>2, <1>3, <2>1, Numbers DEF VerdictInv
  <2>5. phase' # "valid"
    BY <2>1
  <2> QED
    BY <1>3, <1>4, <2>2, <2>3, <2>4, <2>5, QuietKeeps
<1>7. EndTrace \/ UNCHANGED trace
  BY DEF UtilNULL, UtilFree, BeginSpeed, UtilAlloc, UtilRealloc, SpeedCall, Exit
<1> QED
  BY <1>5, <1>6, <1>7

\* eval_mm_valid enters a payload in the list, in which the other live blocks
\* are, and fills it.
LEMMA PlacedKeeps ==
    ASSUME DInv, phase = "valid", i <= Len(trace), op.type # "FREE",
           NEW p \in Answers, NEW list \in Seq(Extents), SharedIn(list),
           NEW m \in [Addresses -> 0 .. JUNK],
           Len(list) = Cardinality(LiveBefore(i) \ {op.index}),
           \A l \in DOMAIN list : \E x \in LiveBefore(i) \ {op.index} : list[l] = Extent(x),
           \A x \in LiveBefore(i) \ {op.index} : \E l \in DOMAIN list : list[l] = Extent(x),
           conforming => \A x \in LiveBefore(i) \ {op.index} :
                            /\ Apart(p, op.size, blocks[x], Asked(x, i))
                            /\ \A a \in blocks[x] .. blocks[x] + Asked(x, i) - 1 : m[a] = Fill(x),
           brk' \in 0 .. MAX_HEAP, add_range_ok(list, p, op.size, brk'),
           ranges' = add_range(list, p, op.size), mem' = memset(m, p, op.index, op.size),
           Remember(p), i' = i + 1,
           UNCHANGED <<phase, tracenum, trace, errors, valid, total_size, max_total_size, run,
                       nulls, high, conforming>>
    PROVE  DInv'
<1>a. TypeOK /\ TraceInv /\ ListInv /\ BytesInv /\ VerdictInv /\ NoFalseAlarm
  BY DEF DInv
<1>b. /\ Len(trace) \in Nat /\ i \in 1 .. Len(trace) /\ i \in Nat
      /\ blocks \in [Ids -> Answers] /\ block_sizes \in [Ids -> Sizes \cup {0}]
  BY <1>a DEF TypeOK
<1>c. op.index \in Ids /\ op.size \in Sizes
  BY <1>a, <1>b, RequestType DEF op
<1>d. PICK b \in Ids : b = op.index
  BY <1>c
<1>e. PICK n \in Sizes : n = op.size
  BY <1>c
<1>f. PICK S : S = LiveBefore(i) \ {b}
  OBVIOUS
<1>g. /\ Len(list) = Cardinality(S)
      /\ \A l \in DOMAIN list : \E x \in S : list[l] = Extent(x)
      /\ \A x \in S : \E l \in DOMAIN list : list[l] = Extent(x)
      /\ conforming => \A x \in S :
                         /\ Apart(p, n, blocks[x], Asked(x, i))
                         /\ \A a \in blocks[x] .. blocks[x] + Asked(x, i) - 1 : m[a] = Fill(x)
      /\ add_range_ok(list, p, n, brk') /\ ranges' = add_range(list, p, n)
      /\ mem' = memset(m, p, b, n)
      /\ blocks' = [blocks EXCEPT ![b] = p] /\ block_sizes' = [block_sizes EXCEPT ![b] = n]
  BY <1>d, <1>e, <1>f DEF Remember
<1>h. n \in Nat \ {0} /\ n \in Int /\ b \in Nat
  BY Numbers
<1> DEFINE e == [lo |-> p, hi |-> p + n - 1]
<1>1. LiveBefore(i)' = S \cup {b} /\ LiveBefore(i + 1) = S \cup {b} /\ b \notin S
  <2>1. LiveBefore(i + 1) = S \cup {b}
    BY <1>a, <1>d, <1>f, LiveNext
  <2>2. LiveBefore(i)' = LiveBefore(i + 1)
    BY DEF LiveBefore
  <2> QED
    BY <1>f, <2>1, <2>2
<1>2. /\ \A x \in S : Asked(x, i)' = Asked(x, i) /\ blocks'[x] = blocks[x]
                      /\ block_sizes'[x] = block_sizes[x] /\ x \in LiveBefore(i) /\ x \in Ids
      /\ Asked(b, i)' = n /\ blocks'[b] = p /\ block_sizes'[b] = n
  <2>1. \A x \in S \cup {b} : Asked(x, i + 1) = IF x = b THEN n ELSE Asked(x, i)
    BY <1>1, <1>a, <1>d, <1>e, AskedNext
  <2>2. \A x : Asked(x, i)' = Asked(x, i + 1)
    BY DEF Asked
  <2>3. \A x \in S : x \in Ids /\ x # b /\ x \in LiveBefore(i)
    BY <1>f DEF LiveBefore
  <2>4. \A x \in S : Asked(x, i)' = Asked(x, i)
    BY <2>1, <2>2, <2>3
  <2>5. Asked(b, i)' = n
    BY <2>1, <2>2
  <2>6. \A x \in S : blocks'[x] = blocks[x] /\ block_sizes'[x] = block_sizes[x]
    BY <1>b, <1>g, <2>3
  <2>7. blocks'[b] = p /\ block_sizes'[b] = n
    BY <1>b, <1>g
  <2> QED
    BY <2>3, <2>4, <2>5, <2>6, <2>7
<1>3. /\ ranges' \in Seq(Extents) /\ SharedIn(ranges') /\ Len(ranges') = Len(list) + 1
      /\ ranges'[1] = e /\ \A l \in DOMAIN list : ranges'[l + 1] = list[l]
      /\ p \in Addresses /\ p + n <= brk'
  <2>1. PICK b2 \in 0 .. MAX_HEAP : b2 = brk'
    OBVIOUS
  <2>2. add_range_ok(list, p, n, b2)
    BY <1>g, <2>1
  <2> DEFINE s == add_range(list, p, n)
  <2>3. /\ s \in Seq(Extents) /\ SharedIn(s) /\ Len(s) = Len(list) + 1
        /\ s[1] = e /\ \A l \in DOMAIN list : s[l + 1] = list[l]
        /\ p \in Addresses /\ p + n <= b2
    BY <1>h, <2>2, Added
  <2>4. ranges' = s
    BY <1>g
  <2> HIDE DEF s
  <2> QED
    BY <2>1, <2>3, <2>4
<1>4. DOMAIN list = 1 .. Len(list) /\ Len(list) \in Nat
  OBVIOUS
<1>5. DOMAIN ranges' = 1 .. Len(list) + 1
  <2> DEFINE rs == ranges'
  <2>1. rs \in Seq(Extents) /\ Len(rs) = Len(list) + 1
    BY <1>3
  <2> HIDE DEF rs
  <2>2. DOMAIN rs = 1 .. Len(list) + 1
    BY <2>1
  <2> QED
    BY <2>2 DEF rs
<1>i. ASSUME NEW l \in DOMAIN list
      PROVE  /\ l + 1 \in DOMAIN ranges' /\ 1 \in DOMAIN ranges' /\ l + 1 # 1
             /\ ranges'[l + 1] = list[l]
  <2>1. l \in 1 .. Len(list) /\ l \in Nat
    BY <1>4
  <2>2. l + 1 \in 1 .. Len(list) + 1 /\ 1 \in 1 .. Len(list) + 1 /\ l + 1 # 1
    BY <1>4, <2>1
  <2>3. ranges'[l + 1] = list[l]
    BY <1>3
  <2> QED
    BY <1>5, <2>2, <2>3
<1>6. \A x \in S : Extent(x)' = Extent(x)
  BY <1>2 DEF Extent
<1>7. Extent(b)' = e
  BY <1>2 DEF Extent
<1> HIDE DEF e
<1>8. ListInv'
  <2>1. Len(ranges') = Cardinality(LiveBefore(i)')
    <3>1. IsFiniteSet(S)
      BY <1>a, <1>f, FS_RemoveElement DEF TraceInv
    <3>2. Cardinality(S \cup {b}) = Cardinality(S) + 1
      BY <1>1, <3>1, FS_AddElement
    <3> QED
      BY <1>1, <1>3, <1>g, <3>2
  <2>2. ASSUME NEW x \in S \cup {b}
        PROVE  \E k \in DOMAIN ranges' : ranges'[k] = Extent(x)'
    <3>1. CASE x = b
      <4>1. 1 \in DOMAIN ranges'
        BY <1>4, <1>5
      <4> QED
        BY <3>1, <4>1, <1>3, <1>7
    <3>2. CASE x \in S
      <4>1. PICK l \in DOMAIN list : list[l] = Extent(x)
        BY <3>2, <1>g
      <4>2. l + 1 \in DOMAIN ranges' /\ ranges'[l + 1] = list[l]
        BY <1>i
      <4> QED
        BY <3>2, <4>1, <4>2, <1>6
    <3> QED
      BY <3>1, <3>2
  <2>3. ASSUME NEW k \in DOMAIN ranges'
        PROVE  \E x \in S \cup {b} : ranges'[k] = Extent(x)'
    <3>1. CASE k = 1
      BY <3>1, <1>3, <1>7
    <3>2. CASE k # 1
      <4>1. k - 1 \in DOMAIN list /\ (k - 1) + 1 = k
        BY <3>2, <1>4, <1>5
      <4>2. ranges'[k] = list[k - 1]
        BY <4>1, <1>3
      <4>3. PICK x \in S : list[k - 1] = Extent(x)
        BY <4>1, <1>g
      <4> QED
        BY <4>2, <4>3, <1>6
    <3> QED
      BY <3>1, <3>2
  <2>4. ASSUME NEW x \in S PROVE blocks[x] # p
    <3>1. SUFFICES ASSUME blocks[x] = p PROVE FALSE
      OBVIOUS
    <3>2. PICK l \in DOMAIN list : list[l] = Extent(x)
      BY <1>g
    <3>3. l + 1 \in DOMAIN ranges' /\ 1 \in DOMAIN ranges' /\ l + 1 # 1
          /\ ranges'[l + 1] = list[l]
      BY <1>i
    <3>4. ranges'[l + 1].lo = ranges'[1].lo
      BY <3>1, <3>2, <3>3, <1>3 DEF Extent, e
    <3> DEFINE rs == ranges'
    <3>5. rs \in Seq(Extents) /\ SharedIn(rs) /\ l + 1 \in DOMAIN rs /\ 1 \in DOMAIN rs
          /\ rs[l + 1].lo = rs[1].lo
      BY <1>3, <3>3, <3>4
    <3> HIDE DEF rs
    <3>6. l + 1 = 1
      BY <3>5, DistinctStarts
    <3> QED
      BY <3>3, <3>6
  <2>5. \A x, y \in S \cup {b} : blocks'[x] = blocks'[y] => x = y
    BY <1>a, <1>2, <2>4 DEF ListInv
  <2> QED
    BY <1>1, <2>1, <2>2, <2>3, <2>5 DEF ListInv
<1>9. BytesInv'
  <2>1. ASSUME NEW x \in S \cup {b}
        PROVE  block_sizes'[x] = Asked(x, i)'
    BY <1>a, <1>2 DEF BytesInv
  <2>2. ASSUME conforming, NEW x \in S, NEW a \in blocks[x] .. blocks[x] + Asked(x, i) - 1
        PROVE  mem'[a] = Fill(x)
    <3>1. PICK l \in DOMAIN list : list[l] = Extent(x)
      BY <1>g
    <3>2. list[l] \in Extents
      OBVIOUS
    <3>3. blocks[x] \in Int /\ 0 <= blocks[x] /\ blocks[x] + Asked(x, i) - 1 \in Int
          /\ blocks[x] + Asked(x, i) - 1 <= MAX_HEAP - 1
      BY <3>1, <3>2, Numbers DEF Extents, Extent, Addresses
    <3>4. a \in Addresses /\ a \in Int
      BY <3>3, Numbers DEF Addresses
    <3>5. m[a] = Fill(x) /\ Apart(p, n, blocks[x], Asked(x, i))
      <4>1. \A y \in S : /\ Apart(p, n, blocks[y], Asked(y, i))
                        /\ \A c \in blocks[y] .. blocks[y] + Asked(y, i) - 1 : m[c] = Fill(y)
        BY <2>2, <1>g
      <4> QED
        BY <2>2, <4>1, Zenon
    <3>6. Asked(x, i) \in Int
      <4>1. PICK j \in 1 .. i - 1 : LastRequest(x, i, j)
        BY <1>a, <1>2 DEF TraceInv
      <4>2. PICK k \in 1 .. Len(trace) + 1 : k = i
        BY <1>b
      <4>3. Asked(x, k) \in Sizes
        BY <1>a, <4>1, <4>2, AskedIs
      <4>4. Asked(x, i) \in Sizes
        BY <4>2, <4>3
      <4>5. Sizes \subseteq Int
        BY Numbers
      <4> QED
        BY <4>4, <4>5
    <3>7. a \notin p .. p + n - 1
      <4>1. p \in Int /\ n \in Int
        BY <1>h, <1>3, Numbers DEF Addresses
      <4>2. PICK q \in Int, w \in Int : q = blocks[x] /\ w = Asked(x, i)
        BY <3>3, <3>6
      <4>3. a \in q .. q + w - 1 /\ (p + n <= q \/ q + w <= p)
        BY <2>2, <3>5, <4>2 DEF Apart
      <4> QED
        BY <3>4, <4>1, <4>3
    <3> QED
      BY <1>g, <3>4, <3>5, <3>7 DEF memset
  <2>3. \A a \in p .. p + n - 1 : mem'[a] = Fill(b)
    <3>1. \A a \in p .. p + n - 1 : a \in Addresses
      <4>1. p \in Nat /\ n \in Nat \ {0} /\ brk' \in Nat /\ brk' <= MAX_HEAP /\ p + n <= brk'
        BY <1>h, <1>3, Numbers DEF Addresses
      <4> QED
        BY <4>1, Numbers DEF Addresses
    <3> QED
      BY <1>g, <3>1 DEF memset
  <2>4. ASSUME conforming, NEW x \in S \cup {b}
        PROVE  \A a \in blocks'[x] .. blocks'[x] + Asked(x, i)' - 1 : mem'[a] = Fill(x)
    <3>1. CASE x = b
      BY <3>1, <1>2, <2>3
    <3>2. CASE x \in S
      BY <3>2, <1>2, <2>2, <2>4
    <3> QED
      BY <3>1, <3>2
  <2> QED
    BY <1>1, <2>1, <2>4 DEF BytesInv
<1>10. TypeOK'
  <2>1. i' \in 1 .. Len(trace') + 1
    BY <1>b
  <2>2. \A k \in DOMAIN ranges' : ranges'[k] \in [lo : Addresses, hi : Addresses]
    <3> DEFINE rs == ranges'
    <3>1. \A k \in DOMAIN rs : rs[k] \in Extents
      BY <1>3
    <3> QED
      BY <3>1 DEF Extents
  <2>3. blocks' \in [Ids -> Answers] /\ block_sizes' \in [Ids -> Sizes \cup {0}]
    BY <1>b, <1>g
  <2>4. mem' \in [Addresses -> 0 .. JUNK]
    <3>1. Fill(b) \in 0 .. JUNK
      BY <1>h DEF Fill, JUNK
    <3>2. \A a \in Addresses : (IF a \in p .. p + n - 1 THEN Fill(b) ELSE m[a]) \in 0 .. JUNK
      BY <3>1
    <3> QED
      BY <1>g, <3>2 DEF memset
  <2> QED
    BY <1>a, <2>1, <2>2, <2>3, <2>4 DEF TypeOK
<1>11. TraceInv'
  BY <1>a, <1>b, <1>3, TraceStep
<1>12. VerdictInv' /\ NoFalseAlarm'
  BY <1>a DEF VerdictInv, NoFalseAlarm
<1>13. SharedOnlyIfContained'
  BY <1>3 DEF SharedOnlyIfContained, SharedIn
<1> QED
  BY <1>8, <1>9, <1>10, <1>11, <1>12, <1>13 DEF DInv

\* The request of eval_mm_valid, and the break after an answer.
LEMMA AnswerFacts ==
    ASSUME DInv, NEW others, NEW p \in Answers, NEW n, Answer(p, n, others)
    PROVE  /\ brk' \in 0 .. MAX_HEAP
           /\ conforming => /\ p % ALIGNMENT = 0 /\ 0 <= p /\ p + n <= brk'
                            /\ \A x \in others : Apart(p, n, blocks[x], Asked(x, i))
<1>1. brk \in 0 .. MAX_HEAP
  BY DEF DInv, TypeOK
<1>2. \A b \in brk .. MAX_HEAP : b \in 0 .. MAX_HEAP
  BY <1>1, Numbers
<1> QED
  BY <1>2 DEF Answer

\* The list without the block of the request takes what a conforming package
\* answers.
LEMMA ConformingAccepted ==
    ASSUME DInv, conforming, i <= Len(trace), op.type # "FREE",
           NEW p \in Answers, NEW list \in Seq(Extents),
           NEW S \in SUBSET LiveBefore(i), NEW b \in 0 .. MAX_HEAP,
           \A l \in DOMAIN list : \E x \in S : list[l] = Extent(x),
           p % ALIGNMENT = 0, 0 <= p, p + op.size <= b,
           \A x \in S : Apart(p, op.size, blocks[x], Asked(x, i))
    PROVE  add_range_ok(list, p, op.size, b)
<1>1. i \in 1 .. Len(trace) /\ TypeOK /\ TraceInv
  BY DEF DInv, TypeOK
<1>2. PICK n \in Nat \ {0} : n = op.size
  BY <1>1, RequestType, Numbers DEF op
<1>3. p \in Int
  BY Numbers DEF Answers, Addresses
<1>4. ASSUME NEW l \in DOMAIN list
      PROVE  ~Overlaps(list[l], p, n)
  <2>1. PICK x \in S : list[l] = Extent(x)
    OBVIOUS
  <2>2. list[l] \in Extents
    OBVIOUS
  <2>3. PICK q \in Int, w \in Int : q = blocks[x] /\ w = Asked(x, i)
    <3>1. blocks[x] \in Int
      BY <2>1, <2>2, Numbers DEF Extents, Extent, Addresses
    <3>2. x \in LiveBefore(i)
      OBVIOUS
    <3>3. PICK j \in 1 .. i - 1 : LastRequest(x, i, j)
      BY <1>1, <3>2 DEF TraceInv
    <3>4. PICK k \in 1 .. Len(trace) + 1 : k = i
      BY <1>1 DEF TypeOK
    <3>5. Asked(x, k) \in Sizes
      BY <1>1, <3>3, <3>4, AskedIs
    <3>6. Asked(x, i) \in Sizes
      BY <3>4, <3>5
    <3>7. Sizes \subseteq Int
      BY Numbers
    <3> QED
      BY <3>1, <3>6, <3>7
  <2>4. list[l].lo = q /\ list[l].hi = q + w - 1 /\ list[l].lo <= list[l].hi
    BY <2>1, <2>2, <2>3 DEF Extent, Extents
  <2>5. p + n <= q \/ q + w <= p
    BY <1>2, <2>3 DEF Apart
  <2> QED
    BY <1>2, <1>3, <2>4, <2>5 DEF Overlaps, Holds
<1>5. add_range_ok(list, p, n, b)
  BY <1>2, <1>4 DEF add_range_ok, InHeap
<1> QED
  BY <1>2, <1>5

\* eval_mm_valid, case ALLOC.
LEMMA ValidAllocKeeps ==
    ASSUME DInv, NEW p \in Answers, ValidAlloc(p), UNCHANGED conforming
    PROVE  DInv'
<1>1. /\ phase = "valid" /\ i <= Len(trace) /\ op.type = "ALLOC" /\ op.type # "FREE"
      /\ Answer(p, op.size, LiveBefore(i)) /\ UNCHANGED <<nulls, high>>
  BY DEF ValidAlloc, AtRequest
<1>2. /\ brk' \in 0 .. MAX_HEAP
      /\ conforming => /\ p % ALIGNMENT = 0 /\ 0 <= p /\ p + op.size <= brk'
                       /\ \A x \in LiveBefore(i) : Apart(p, op.size, blocks[x], Asked(x, i))
  BY <1>1, AnswerFacts
<1>3. /\ ranges \in Seq(Extents) /\ SharedIn(ranges) /\ mem \in [Addresses -> 0 .. JUNK]
      /\ i \in 1 .. Len(trace)
  BY <1>1 DEF DInv, TypeOK, TraceInv, SharedOnlyIfContained, SharedIn
<1>4. op.index \notin LiveBefore(i)
  BY <1>1, <1>3 DEF DInv, TraceInv, op
<1>5. LiveBefore(i) \ {op.index} = LiveBefore(i)
  BY <1>4
<1>6. /\ Len(ranges) = Cardinality(LiveBefore(i))
      /\ \A x \in LiveBefore(i) : \E k \in DOMAIN ranges : ranges[k] = Extent(x)
      /\ \A k \in DOMAIN ranges : \E x \in LiveBefore(i) : ranges[k] = Extent(x)
  BY <1>1 DEF DInv, ListInv
<1>7. conforming => \A x \in LiveBefore(i) : \A a \in blocks[x] .. blocks[x] + Asked(x, i) - 1 : mem[a] = Fill(x)
  BY <1>1 DEF DInv, BytesInv
<1>8. CASE ~add_range_ok(ranges, p, op.size, brk') /\ Invalid /\ UNCHANGED <<ranges, mem>>
  <2>1. ~conforming
    <3>1. SUFFICES ASSUME conforming PROVE FALSE
      OBVIOUS
    <3>2. PICK b \in 0 .. MAX_HEAP : b = brk'
      BY <1>2
    <3>3. add_range_ok(ranges, p, op.size, b)
      BY <1>1, <1>2, <1>3, <1>6, <3>1, <3>2, ConformingAccepted
    <3> QED
      BY <1>8, <3>2, <3>3
  <2> QED
    BY <1>1, <1>2, <1>3, <1>8, <2>1, InvalidKeeps
<1>9. CASE /\ add_range_ok(ranges, p, op.size, brk')
           /\ ranges' = add_range(ranges, p, op.size)
           /\ mem' = memset(mem, p, op.index, op.size)
           /\ Remember(p) /\ i' = i + 1
           /\ UNCHANGED <<phase, tracenum, trace, errors, valid, total_size,
                          max_total_size, run>>
  BY <1>1, <1>2, <1>3, <1>5, <1>6, <1>7, <1>9, PlacedKeeps
<1> QED
  BY <1>8, <1>9 DEF ValidAlloc

\* eval_mm_valid, case FREE.
LEMMA ValidFreeKeeps == ASSUME DInv, ValidFree, UNCHANGED conforming PROVE DInv'
<1> DEFINE list == remove_range(ranges, blocks[op.index])
<1>1. /\ phase = "valid" /\ i <= Len(trace) /\ op.type = "FREE" /\ ranges' = list /\ i' = i + 1
      /\ UNCHANGED <<phase, tracenum, trace, blocks, block_sizes, errors, valid,
                     total_size, max_total_size, run, brk, mem, nulls, high>>
  BY DEF ValidFree, AtRequest
<1>2. PICK S : S = LiveBefore(i) \ {op.index}
  OBVIOUS
<1>3. /\ list \in Seq(Extents) /\ SharedIn(list) /\ Len(list) = Cardinality(S)
      /\ \A l \in DOMAIN list : \E x \in S : list[l] = Extent(x)
      /\ \A x \in S : \E l \in DOMAIN list : list[l] = Extent(x)
  BY <1>1, <1>2, OthersListed
<1> HIDE DEF list
<1>4. TypeOK /\ TraceInv /\ i \in 1 .. Len(trace) /\ i \in Nat /\ Len(trace) \in Nat
  BY <1>1 DEF DInv, TypeOK
<1>5. LiveBefore(i)' = S /\ LiveBefore(i + 1) = S
  <2>1. LiveBefore(i + 1) = S
    BY <1>1, <1>2, <1>4, LiveNext
  <2>2. LiveBefore(i)' = LiveBefore(i + 1)
    BY <1>1 DEF LiveBefore
  <2> QED
    BY <2>1, <2>2
<1>6. \A x \in S : Asked(x, i)' = Asked(x, i) /\ Extent(x)' = Extent(x) /\ x \in LiveBefore(i)
  <2>1. ASSUME NEW x \in S PROVE Asked(x, i)' = Asked(x, i) /\ x \in LiveBefore(i)
    <3>1. x # op.index /\ x \in LiveBefore(i)
      BY <1>2
    <3>2. Asked(x, i + 1) = Asked(x, i)
      BY <1>1, <1>4, <1>5, <3>1, AskedNext
    <3>3. Asked(x, i)' = Asked(x, i + 1)
      BY <1>1 DEF Asked
    <3> QED
      BY <3>1, <3>2, <3>3
  <2> QED
    BY <1>1, <2>1 DEF Extent
<1>7. ListInv'
  <2>1. \A x, y \in S : blocks'[x] = blocks'[y] => x = y
    BY <1>1, <1>6 DEF DInv, ListInv
  <2> QED
    BY <1>1, <1>3, <1>5, <1>6, <2>1 DEF ListInv
<1>8. BytesInv'
  BY <1>1, <1>5, <1>6 DEF DInv, BytesInv
<1>9. TypeOK'
  <2>1. \A k \in DOMAIN ranges' : ranges'[k] \in [lo : Addresses, hi : Addresses]
    <3>1. \A k \in DOMAIN list : list[k] \in Extents
      BY <1>3
    <3> QED
      BY <1>1, <3>1 DEF Extents
  <2>2. i' \in 1 .. Len(trace') + 1
    BY <1>1, <1>4
  <2> QED
    BY <1>1, <1>4, <2>1, <2>2 DEF TypeOK
<1>10. TraceInv'
  BY <1>1, <1>3, <1>4, TraceStep
<1>11. VerdictInv' /\ NoFalseAlarm'
  BY <1>1 DEF DInv, VerdictInv, NoFalseAlarm
<1>12. SharedOnlyIfContained'
  BY <1>1, <1>3 DEF SharedOnlyIfContained, SharedIn
<1> QED
  BY <1>7, <1>8, <1>9, <1>10, <1>11, <1>12 DEF DInv

\* The smaller of two sizes.
LEMMA MinOfTwo ==
    ASSUME NEW a \in Int, NEW b \in Int
    PROVE  Min({a, b}) \in {a, b} /\ Min({a, b}) <= a /\ Min({a, b}) <= b
<1>1. \E x \in {a, b} : \A y \in {a, b} : x <= y
  <2>1. CASE a <= b
    BY <2>1
  <2>2. CASE b <= a
    BY <2>2
  <2> QED
    BY <2>1, <2>2
<1> QED
  BY <1>1 DEF Min

\* What eval_mm_valid reads back, and the blocks other than the request's.
ReadBack(m, p, n) == \A j \in 0 .. n - 1 : m[p + j] = Fill(op.index)
OthersApart(p) == \A x \in LiveBefore(i) \ {op.index} : Apart(p, op.size, blocks[x], Asked(x, i))
OthersKept(m) ==
    \A x \in LiveBefore(i) \ {op.index} :
        \A a \in blocks[x] .. blocks[x] + Asked(x, i) - 1 : m[a] = Fill(x)

\* The comparison of a char with index & 0xFF.
LEMMA CharFacts ==
    ASSUME NEW b \in Ids
    PROVE  /\ Fill(b) \in 0 .. 255 /\ JUNK = 256
           /\ Fill(b) <= 127 => AsChar(Fill(b)) = Fill(b)
           /\ \A v \in 0 .. JUNK : AsChar(v) = Fill(b) => Fill(b) <= 127
<1>1. Fill(b) \in 0 .. 255
  BY Numbers DEF Fill
<1> QED
  BY <1>1 DEF AsChar, JUNK

\* What mm_realloc has copied: bytes of the old payload and, of a conforming
\* package, all that will be looked at, with the other payloads as they were.
LEMMA Copied ==
    ASSUME DInv, phase = "valid", i <= Len(trace), op.type = "REALLOC",
           NEW p \in Answers, NEW n \in Int, n = Min({op.size, block_sizes[op.index]}),
           NEW bytes, NEW copied \in BOOLEAN,
           bytes = IF copied THEN memmove(p, blocks[op.index], n) ELSE mem
    PROVE  /\ bytes \in [Addresses -> 0 .. JUNK] /\ n \in Nat \ {0}
           /\ conforming /\ copied /\ 0 <= p /\ p + op.size <= MAX_HEAP /\ OthersApart(p)
              => ReadBack(bytes, p, n) /\ OthersKept(bytes)
<1>1. /\ i \in 1 .. Len(trace) /\ i \in Nat /\ mem \in [Addresses -> 0 .. JUNK] /\ TypeOK
  BY DEF DInv, TypeOK
<1>2. PICK b \in Ids, w \in Nat \ {0} : b = op.index /\ w = op.size
  BY <1>1, RequestType, Numbers DEF op
<1>3. ASSUME NEW x \in LiveBefore(i)
      PROVE  /\ blocks[x] \in Nat /\ Asked(x, i) \in Nat \ {0} /\ blocks[x] + Asked(x, i) <= MAX_HEAP
             /\ block_sizes[x] = Asked(x, i)
             /\ conforming => \A a \in blocks[x] .. blocks[x] + Asked(x, i) - 1 : mem[a] = Fill(x)
  <2>1. PICK k \in DOMAIN ranges : ranges[k] = Extent(x)
    BY DEF DInv, ListInv
  <2>2. ranges[k] \in Extents
    BY DEF DInv, TraceInv
  <2>3. PICK j \in 1 .. i - 1 : LastRequest(x, i, j)
    BY DEF DInv, TraceInv
  <2>4. PICK m \in 1 .. Len(trace) + 1 : m = i
    BY <1>1 DEF TypeOK
  <2>5. Asked(x, m) \in Sizes
    BY <1>1, <2>3, <2>4, AskedIs
  <2>6. PICK s \in Nat \ {0} : s = Asked(x, i)
    <3>1. Asked(x, i) \in Sizes
      BY <2>4, <2>5
    <3> QED
      BY <3>1, Numbers
  <2>7. blocks[x] \in Addresses /\ blocks[x] + s - 1 \in Addresses
    BY <2>1, <2>2, <2>6 DEF Extents, Extent
  <2>8. blocks[x] \in Nat /\ blocks[x] + s <= MAX_HEAP
    BY <2>6, <2>7, Numbers DEF Addresses
  <2> QED
    BY <2>6, <2>8 DEF DInv, BytesInv
<1>4. b \in LiveBefore(i)
  BY <1>1, <1>2 DEF DInv, TraceInv, op
<1>5. PICK q \in Nat, o \in Nat \ {0} : q = blocks[b] /\ o = block_sizes[b] /\ o = Asked(b, i) /\ q + o <= MAX_HEAP
  BY <1>3, <1>4
<1>6. n <= w /\ n <= o /\ n \in Nat /\ n \in Nat \ {0}
  <2>1. n = Min({w, o})
    BY <1>2, <1>5
  <2>2. w \in Int /\ o \in Int
    OBVIOUS
  <2>3. n \in {w, o} /\ n <= w /\ n <= o
    BY <2>1, <2>2, MinOfTwo
  <2> QED
    BY <2>3
<1>m. PICK H \in Nat : H = MAX_HEAP
  BY Numbers
<1>n. \A z : z \in Addresses <=> z \in Int /\ 0 <= z /\ z <= H - 1
  BY <1>m DEF Addresses
<1>o. q + o <= H
  BY <1>5, <1>m
<1>7. p \in Int
  BY Numbers DEF Answers, Addresses
<1>8. bytes \in [Addresses -> 0 .. JUNK]
  <2>1. ASSUME NEW a \in Addresses, a \in p .. p + n - 1
        PROVE  mem[q + (a - p)] \in 0 .. JUNK
    <3>1. a \in Int /\ p <= a /\ a <= p + n - 1
      BY <2>1, <1>6, <1>7
    <3>2. q + (a - p) \in Int /\ 0 <= q + (a - p) /\ q + (a - p) <= H - 1
      BY <3>1, <1>6, <1>7, <1>o
    <3>3. q + (a - p) \in Addresses
      BY <3>2, <1>n
    <3> QED
      BY <1>1, <3>3
  <2>2. memmove(p, q, n) \in [Addresses -> 0 .. JUNK]
    BY <1>1, <2>1 DEF memmove
  <2> QED
    BY <1>1, <1>2, <1>5, <2>2
<1>9. ASSUME conforming, copied, 0 <= p, p + w <= MAX_HEAP,
             \A x \in LiveBefore(i) \ {b} : Apart(p, w, blocks[x], Asked(x, i))
      PROVE  /\ \A j \in 0 .. n - 1 : bytes[p + j] = Fill(b)
             /\ \A x \in LiveBefore(i) \ {b} :
                  \A a \in blocks[x] .. blocks[x] + Asked(x, i) - 1 : bytes[a] = Fill(x)
  <2>1. bytes = memmove(p, q, n)
    BY <1>2, <1>5, <1>9
  <2>2. ASSUME NEW j \in 0 .. n - 1
        PROVE  bytes[p + j] = Fill(b)
    <3>1. p + j \in Addresses /\ p + j \in p .. p + n - 1 /\ q + ((p + j) - p) = q + j
          /\ q + j \in q .. q + o - 1
      <4>1. j \in Nat /\ j < n /\ p + w <= H /\ 0 <= p
        BY <2>2, <1>6, <1>9, <1>m
      <4>2. p + j \in Int /\ 0 <= p + j /\ p + j <= H - 1
        BY <4>1, <1>6, <1>7
      <4>3. p + j \in p .. p + n - 1 /\ q + ((p + j) - p) = q + j /\ q + j \in q .. q + o - 1
        BY <4>1, <1>6, <1>7
      <4> QED
        BY <4>2, <4>3, <1>n
    <3>2. mem[q + j] = Fill(b)
      BY <1>3, <1>4, <1>5, <1>9, <3>1
    <3>3. bytes[p + j] = mem[q + ((p + j) - p)]
      BY <2>1, <3>1 DEF memmove
    <3> QED
      BY <3>1, <3>2, <3>3
  <2>3. ASSUME NEW x \in LiveBefore(i) \ {b}, NEW a \in blocks[x] .. blocks[x] + Asked(x, i) - 1
        PROVE  bytes[a] = Fill(x)
    <3>1. PICK u \in Nat, v \in Nat : u = blocks[x] /\ v = Asked(x, i) /\ u + v <= MAX_HEAP
      BY <1>3
    <3>2. p + w <= u \/ u + v <= p
      BY <1>9, <3>1 DEF Apart
    <3>3. a \in u .. u + v - 1
      BY <3>1
    <3>4. a \notin p .. p + n - 1 /\ a \in Addresses
      <4>1. a \in Int /\ u <= a /\ a <= u + v - 1 /\ u + v <= H
        BY <3>1, <3>3, <1>m
      <4>2. a \in Int /\ 0 <= a /\ a <= H - 1
        BY <4>1, <3>1
      <4>3. a \notin p .. p + n - 1
        BY <4>1, <3>2, <1>6, <1>7
      <4> QED
        BY <4>2, <4>3, <1>n
    <3>5. mem[a] = Fill(x)
      BY <1>3, <1>9
    <3> QED
      BY <2>1, <3>4, <3>5 DEF memmove
  <2> QED
    BY <2>2, <2>3
<1>10. ASSUME conforming, copied, 0 <= p, p + op.size <= MAX_HEAP, OthersApart(p)
       PROVE  ReadBack(bytes, p, n) /\ OthersKept(bytes)
  BY <1>2, <1>9, <1>10 DEF ReadBack, OthersKept, OthersApart
<1> QED
  BY <1>6, <1>8, <1>10

\* eval_mm_valid, case REALLOC.
LEMMA ValidReallocKeeps ==
    ASSUME DInv, NEW p \in Answers, NEW copied \in BOOLEAN, ValidRealloc(p, copied),
           UNCHANGED conforming
    PROVE  DInv'
<1>1. /\ phase = "valid" /\ i <= Len(trace) /\ op.type = "REALLOC" /\ op.type # "FREE"
      /\ conforming => copied
      /\ Answer(p, op.size, LiveBefore(i) \ {op.index}) /\ UNCHANGED nulls
      /\ high \subseteq high' /\ high' \subseteq high \cup {tracenum}
  BY DEF ValidRealloc, AtRequest
<1>2. i \in 1 .. Len(trace) /\ TypeOK
  BY <1>1 DEF DInv, TypeOK
<1>3. PICK n \in Int : n = Min({op.size, block_sizes[op.index]})
  <2>1. op.size \in Sizes /\ op.index \in Ids
    BY <1>1, <1>2, RequestType DEF op
  <2>2. block_sizes[op.index] \in Sizes \cup {0}
    BY <2>1, <1>2 DEF TypeOK
  <2>3. op.size \in Int /\ block_sizes[op.index] \in Int
    <3>1. Sizes \cup {0} \subseteq Int
      BY Numbers
    <3> HIDE DEF op
    <3> QED
      BY <2>1, <2>2, <3>1
  <2>4. Min({op.size, block_sizes[op.index]}) \in {op.size, block_sizes[op.index]}
    BY <2>3, MinOfTwo
  <2> QED
    BY <2>3, <2>4
<1>4. PICK bytes : bytes = IF copied THEN memmove(p, blocks[op.index], n) ELSE mem
  OBVIOUS
<1>5. PICK list : list = remove_range(ranges, blocks[op.index])
  OBVIOUS
<1>6. /\ op.index \in LiveBefore(i)
      /\ list \in Seq(Extents) /\ SharedIn(list)
      /\ Len(list) = Cardinality(LiveBefore(i) \ {op.index})
      /\ \A l \in DOMAIN list : \E x \in LiveBefore(i) \ {op.index} : list[l] = Extent(x)
      /\ \A x \in LiveBefore(i) \ {op.index} : \E l \in DOMAIN list : list[l] = Extent(x)
  BY <1>1, <1>5, OthersListed
<1>7. /\ brk' \in 0 .. MAX_HEAP
      /\ conforming => /\ p % ALIGNMENT = 0 /\ 0 <= p /\ p + op.size <= brk'
                       /\ \A x \in LiveBefore(i) \ {op.index} : Apart(p, op.size, blocks[x], Asked(x, i))
  BY <1>1, AnswerFacts
<1>8. conforming => p + op.size <= MAX_HEAP
  <2>1. PICK b \in Nat, m \in Nat, q \in Int : b = brk' /\ m = op.size /\ q = p /\ b <= MAX_HEAP
    <3>1. op.size \in Nat
      BY <1>1, <1>2, RequestType, Numbers DEF op
    <3>2. p \in Int
      BY Numbers DEF Answers, Addresses
    <3>3. brk' \in Nat /\ brk' <= MAX_HEAP
      BY <1>7, Numbers
    <3> QED
      BY <3>1, <3>2, <3>3
  <2>2. MAX_HEAP \in Nat
    BY Numbers
  <2>3. q + m <= b => q + m <= MAX_HEAP
    BY <2>1, <2>2
  <2> QED
    BY <1>7, <2>1, <2>3
<1>9. /\ bytes \in [Addresses -> 0 .. JUNK] /\ n \in Nat \ {0}
      /\ conforming => /\ \A j \in 0 .. n - 1 : bytes[p + j] = Fill(op.index)
                       /\ \A x \in LiveBefore(i) \ {op.index} :
                            \A a \in blocks[x] .. blocks[x] + Asked(x, i) - 1 : bytes[a] = Fill(x)
  <2>1. /\ bytes \in [Addresses -> 0 .. JUNK] /\ n \in Nat \ {0}
        /\ conforming /\ copied /\ 0 <= p /\ p + op.size <= MAX_HEAP /\ OthersApart(p)
           => ReadBack(bytes, p, n) /\ OthersKept(bytes)
    BY <1>1, <1>3, <1>4, Copied
  <2>2. conforming => copied /\ 0 <= p /\ p + op.size <= MAX_HEAP /\ OthersApart(p)
    BY <1>1, <1>7, <1>8 DEF OthersApart
  <2> QED
    BY <2>1, <2>2 DEF ReadBack, OthersKept
<1>10. PICK b \in 0 .. MAX_HEAP : b = brk'
  BY <1>7
<1>11. conforming => add_range_ok(list, p, op.size, b)
  <2>1. LiveBefore(i) \ {op.index} \in SUBSET LiveBefore(i)
    OBVIOUS
  <2> QED
    BY <1>1, <1>6, <1>7, <1>10, <2>1, ConformingAccepted
<1>12. PICK kept \in BOOLEAN : kept <=> \A j \in 0 .. n - 1 : AsChar(bytes[p + j]) = Fill(op.index)
  <2> DEFINE k == \A j \in 0 .. n - 1 : AsChar(bytes[p + j]) = Fill(op.index)
  <2>1. k \in BOOLEAN
    OBVIOUS
  <2> QED
    BY <2>1
<1>m. PICK moved : moved = IF Fill(op.index) > 127 THEN {tracenum} ELSE {}
  OBVIOUS
<1>13. \/ /\ ~add_range_ok(list, p, op.size, b) /\ ranges' = list /\ mem' = bytes /\ Invalid
          /\ UNCHANGED high
       \/ /\ add_range_ok(list, p, op.size, b) /\ ~kept
          /\ ranges' = add_range(list, p, op.size) /\ mem' = bytes /\ Invalid
          /\ high' = high \cup moved
       \/ /\ add_range_ok(list, p, op.size, b) /\ kept
          /\ high' = high \cup moved
          /\ ranges' = add_range(list, p, op.size)
          /\ mem' = memset(bytes, p, op.index, op.size)
          /\ Remember(p) /\ i' = i + 1
          /\ UNCHANGED <<phase, tracenum, trace, errors, valid, total_size,
                         max_total_size, run>>
  BY <1>3, <1>4, <1>5, <1>10, <1>12, <1>m DEF ValidRealloc
<1>i. op.index \in Ids
  BY <1>6 DEF LiveBefore
<1>14. CASE ~add_range_ok(list, p, op.size, b) /\ ranges' = list /\ mem' = bytes /\ Invalid
  BY <1>1, <1>6, <1>7, <1>9, <1>11, <1>14, InvalidKeeps
<1>15. CASE /\ add_range_ok(list, p, op.size, b) /\ ~kept
            /\ ranges' = add_range(list, p, op.size) /\ mem' = bytes /\ Invalid
            /\ high' = high \cup moved
  <2>1. conforming => tracenum \in high'
    <3>1. SUFFICES ASSUME conforming PROVE tracenum \in high'
      OBVIOUS
    <3>2. PICK j \in 0 .. n - 1 : AsChar(bytes[p + j]) # Fill(op.index)
      BY <1>12, <1>15
    <3>3. AsChar(Fill(op.index)) # Fill(op.index)
      BY <3>1, <3>2, <1>9
    <3>4. ~(Fill(op.index) <= 127) /\ Fill(op.index) \in 0 .. 255
      BY <3>3, <1>i, CharFacts
    <3>5. moved = {tracenum}
      BY <3>4, <1>m
    <3> QED
      BY <3>5, <1>15
  <2>2. PICK m \in Nat \ {0} : m = op.size
    BY <1>1, <1>2, RequestType, Numbers DEF op
  <2>3. add_range(list, p, m) \in Seq(Extents) /\ SharedIn(add_range(list, p, m))
    BY <1>6, <1>15, <2>2, Added
  <2>4. ranges' \in Seq(Extents) /\ SharedIn(ranges')
    BY <1>15, <2>2, <2>3
  <2> QED
    BY <1>1, <1>7, <1>9, <1>15, <2>1, <2>4, InvalidKeeps
<1>16. CASE /\ add_range_ok(list, p, op.size, b) /\ kept
            /\ high' = high \cup moved
            /\ ranges' = add_range(list, p, op.size)
            /\ mem' = memset(bytes, p, op.index, op.size)
            /\ Remember(p) /\ i' = i + 1
            /\ UNCHANGED <<phase, tracenum, trace, errors, valid, total_size,
                           max_total_size, run>>
  <2>1. add_range_ok(list, p, op.size, brk')
    BY <1>10, <1>16
  <2>2. UNCHANGED high
    <3>1. PICK w \in Nat \ {0} : w = op.size
      BY <1>1, <1>2, RequestType, Numbers DEF op
    <3>2. p \in Int /\ 0 <= p /\ p + w <= b
      BY <3>1, <1>16, Numbers DEF add_range_ok, InHeap, Answers, Addresses
    <3>3. p \in Addresses
      BY <3>1, <3>2, Numbers DEF Addresses
    <3>4. 0 \in 0 .. n - 1 /\ p + 0 = p
      BY <1>9, <3>2
    <3>5. AsChar(bytes[p]) = Fill(op.index)
      BY <3>4, <1>12, <1>16
    <3>6. bytes[p] \in 0 .. JUNK
      BY <3>3, <1>9
    <3>7. Fill(op.index) <= 127 /\ Fill(op.index) \in 0 .. 255
      BY <3>5, <3>6, <1>i, CharFacts
    <3>8. moved = {}
      BY <3>7, <1>m
    <3> QED
      BY <3>8, <1>16
  <2> QED
    BY <1>1, <1>6, <1>7, <1>9, <1>16, <2>1, <2>2, PlacedKeeps
<1> QED
  BY <1>13, <1>14, <1>15, <1>16

\* eval_mm_valid, a NULL answer.
LEMMA ValidNULLKeeps == ASSUME DInv, ValidNULL, UNCHANGED conforming PROVE DInv'
<1>1. /\ phase = "valid" /\ Invalid /\ UNCHANGED <<ranges, mem, high>>
      /\ brk' \in brk .. MAX_HEAP /\ nulls' = nulls \cup {tracenum}
  BY DEF ValidNULL, AnswerNULL
<1>2. brk \in 0 .. MAX_HEAP /\ mem \in [Addresses -> 0 .. JUNK]
      /\ ranges \in Seq(Extents) /\ SharedIn(ranges)
  BY DEF DInv, TypeOK, TraceInv, SharedOnlyIfContained, SharedIn
<1>3. brk' \in 0 .. MAX_HEAP
  BY <1>1, <1>2, Numbers
<1> QED
  BY <1>1, <1>2, <1>3, InvalidKeeps

-----------------------------------------------------------------------------

\* The driver starts with an empty list and no verdicts.
LEMMA DriverInit == Init => DInv
<1> SUFFICES ASSUME Init PROVE DInv
  OBVIOUS
<1> USE DEF Init
<1>1. TypeOK
  <2>1. << >> \in Seq(Request) /\ Len(<< >>) = 0 /\ 1 \in 1 .. 0 + 1
    OBVIOUS
  <2>2. \A k \in DOMAIN ranges : ranges[k] \in [lo : Addresses, hi : Addresses]
    OBVIOUS
  <2>3. 1 \in 1 .. NumTraces /\ 0 \in 0 .. NumTraces /\ 0 \in 0 .. REPEAT /\ 0 \in 0 .. MAX_HEAP
        /\ 0 <= MaxOps /\ JUNK \in 0 .. JUNK
    BY Numbers DEF JUNK
  <2> QED
    BY <2>1, <2>2, <2>3, Numbers DEF TypeOK
<1>2. LiveBefore(i) = {}
  BY LiveFirst
<1>3. TraceInv
  <2>1. ranges \in Seq(Extents)
    OBVIOUS
  <2>2. 1 .. Len(trace) = {}
    OBVIOUS
  <2>3. IsFiniteSet(LiveBefore(i)) /\ \A x \in LiveBefore(i) : \E j \in 1 .. i - 1 : LastRequest(x, i, j)
    BY <1>2, FS_EmptySet
  <2> QED
    BY ONLY <2>1, <2>2, <2>3 DEF TraceInv
<1>4. ListInv /\ BytesInv /\ SharedOnlyIfContained
  BY DEF ListInv, BytesInv, SharedOnlyIfContained
<1>5. VerdictInv
  <2>1. valid[tracenum] = "none"
    BY Numbers
  <2> QED
    BY <2>1 DEF VerdictInv
<1>6. NoFalseAlarm
  <2>1. {t \in 1 .. NumTraces : valid[t] = "invalid"} = {}
    OBVIOUS
  <2> QED
    BY <2>1, FS_EmptySet DEF NoFalseAlarm
<1> QED
  BY <1>1, <1>3, <1>4, <1>5, <1>6 DEF DInv

\* Every step of the driver keeps the invariant.
LEMMA DriverStep == DInv /\ [Next]_vars => DInv'
<1> SUFFICES ASSUME DInv, [Next]_vars PROVE DInv'
  OBVIOUS
<1>1. ASSUME UNCHANGED vars PROVE DInv'
  <2>1. UNCHANGED <<phase, tracenum, trace, i, blocks, block_sizes, ranges, errors, valid,
                    total_size, max_total_size, run, brk, mem, nulls, high, conforming>>
    BY <1>1 DEF vars
  <2>2. TypeOK'
    BY <2>1 DEF DInv, TypeOK
  <2>3. TraceInv'
    BY <2>1, TraceStep DEF DInv, TraceInv
  <2>4. LiveBefore(i)' = LiveBefore(i)
    BY <2>1 DEF LiveBefore
  <2>5. ASSUME NEW x
        PROVE  Asked(x, i)' = Asked(x, i) /\ Extent(x)' = Extent(x)
    BY <2>1 DEF Asked, Extent
  <2>6. ListInv'
    BY <2>1, <2>4, <2>5 DEF DInv, ListInv
  <2>7. BytesInv'
    BY <2>1, <2>4, <2>5 DEF DInv, BytesInv
  <2>8. VerdictInv'
    BY <2>1 DEF DInv, VerdictInv
  <2>9. SharedOnlyIfContained' /\ NoFalseAlarm'
    BY <2>1 DEF DInv, SharedOnlyIfContained, NoFalseAlarm
  <2> QED
    BY <2>2, <2>3, <2>6, <2>7, <2>8, <2>9 DEF DInv
<1>2. ASSUME Next PROVE DInv'
  <2>1. UNCHANGED conforming
    BY <1>2 DEF Next
  <2>2. ASSUME NEW r \in Request, ReadRequest(r) PROVE DInv'
    BY <2>1, <2>2, ReadRequestKeeps
  <2>3. CASE BeginValid
    BY <2>1, <2>3, BeginValidKeeps
  <2>4. CASE ValidNULL
    BY <2>1, <2>4, ValidNULLKeeps
  <2>5. CASE ValidFree
    BY <2>1, <2>5, ValidFreeKeeps
  <2>6. CASE BeginUtil \/ InitFails
    BY <2>1, <2>6, VerdictKeeps
  <2>7. CASE UtilNULL \/ UtilFree \/ BeginSpeed \/ EndTrace
    BY <2>1, <2>7, LaterKeeps
  <2>8. CASE Stopped
    BY <1>1, <2>8 DEF Stopped
  <2>9. ASSUME NEW p \in Answers, ValidAlloc(p) PROVE DInv'
    BY <2>1, <2>9, ValidAllocKeeps
  <2>10. ASSUME NEW p \in Answers, UtilAlloc(p) \/ UtilRealloc(p) \/ SpeedCall(p) PROVE DInv'
    BY <2>1, <2>10, LaterKeeps
  <2>11. ASSUME NEW p \in Answers, NEW copied \in BOOLEAN, ValidRealloc(p, copied) PROVE DInv'
    BY <2>1, <2>11, ValidReallocKeeps
  <2> QED
    BY <1>2, <2>2, <2>3, <2>4, <2>5, <2>6, <2>7, <2>8, <2>9, <2>10, <2>11 DEF Next
<1> QED
  BY <1>1, <1>2

\* The inductive invariant of the driver.
LEMMA DriverInvariant == Spec => []DInv
<1> QED
  BY DriverInit, DriverStep, PTL DEF Spec

\* mdriver.c: while eval_mm_valid runs, the range list is the payloads of the
\* blocks that are allocated, each once.
THEOREM ListIsLiveBlocks == Spec => []RangesMatchBlocks
<1>1. DInv => RangesMatchBlocks
  <2> SUFFICES ASSUME DInv, phase = "valid"
               PROVE  /\ Len(ranges) = Cardinality(LiveBefore(i))
                      /\ ToSet(ranges) = {Extent(x) : x \in LiveBefore(i)}
    BY DEF DInv, RangesMatchBlocks, Extent
  <2>1. ToSet(ranges) = {ranges[k] : k \in DOMAIN ranges}
    BY DEF ToSet
  <2> QED
    BY <2>1 DEF DInv, ListInv
<1> QED
  BY <1>1, DriverInvariant, PTL

\* add_range, which looks at the two ends of a payload only: payloads share
\* bytes only when the newer one contains the older one.
THEOREM OnlyContainedShared == Spec => []SharedOnlyIfContained
<1>1. DInv => SharedOnlyIfContained
  BY DEF DInv
<1> QED
  BY <1>1, DriverInvariant, PTL

\* eval_mm_valid, for a package that keeps its promises: a trace fails only by a
\* NULL answer or by the move of a block whose id has a low byte above 127, and
\* always by such a move.
THEOREM ConformingPasses == Spec => []NoFalseAlarm
<1>1. DInv => NoFalseAlarm
  BY DEF DInv
<1> QED
  BY <1>1, DriverInvariant, PTL

-----------------------------------------------------------------------------
(* The totals of eval_mm_util *)

\* While eval_mm_util runs: the total is that of the live blocks, whose sizes it
\* has noted, and the payloads of a conforming package lie apart below the break.
UtilInv ==
    phase = "util" =>
        /\ IsFiniteSet(PayloadBytes(i)) /\ total_size = Cardinality(PayloadBytes(i))
        /\ total_size <= max_total_size
        /\ \A x \in LiveBefore(i) : block_sizes[x] = Asked(x, i)
        /\ conforming =>
            /\ max_total_size <= brk
            /\ i > 1 => brk > 0
            /\ \A x \in LiveBefore(i) : 0 <= blocks[x] /\ blocks[x] + Asked(x, i) <= brk
            /\ \A x, y \in LiveBefore(i) :
                x # y => Apart(blocks[x], Asked(x, i), blocks[y], Asked(y, i))

\* A payload more.
LEMMA MoreBytes ==
    ASSUME NEW R, IsFiniteSet(R), NEW x, NEW n \in Nat, \A r \in R : r[1] # x
    PROVE  /\ IsFiniteSet(R \cup ({x} \X (1 .. n)))
           /\ Cardinality(R \cup ({x} \X (1 .. n))) = Cardinality(R) + n
<1> DEFINE P == {x} \X (1 .. n)
<1>1. IsFiniteSet({x}) /\ Cardinality({x}) = 1
  BY FS_Singleton
<1>2. IsFiniteSet(1 .. n) /\ Cardinality(1 .. n) = n
  <2>1. IsFiniteSet(1 .. n) /\ Cardinality(1 .. n) = IF 1 > n THEN 0 ELSE n - 1 + 1
    BY FS_Interval
  <2> QED
    BY <2>1
<1>3. IsFiniteSet(P) /\ Cardinality(P) = n
  <2>1. IsFiniteSet(P) /\ Cardinality(P) = Cardinality({x}) * Cardinality(1 .. n)
    BY <1>1, <1>2, FS_Product, Zenon
  <2> HIDE DEF P
  <2>2. Cardinality(P) = 1 * n
    BY <1>1, <1>2, <2>1, Zenon
  <2> QED
    BY <2>1, <2>2
<1>4. R \cap P = {}
  OBVIOUS
<1>5. Cardinality(R \cap P) = 0
  BY <1>4, FS_EmptySet
<1>6. IsFiniteSet(R \cup P) /\ Cardinality(R \cup P) = Cardinality(R) + Cardinality(P) - Cardinality(R \cap P)
  BY <1>3, FS_Union
<1>7. Cardinality(R) \in Nat
  BY FS_CardinalityType
<1> HIDE DEF P
<1> QED
  BY <1>3, <1>5, <1>6, <1>7 DEF P

\* The bytes of all blocks but one, and of that one.
Rest(n, x) == UNION {{y} \X (1 .. Asked(y, n)) : y \in LiveBefore(n) \ {x}}

\* They make up the whole.
LEMMA RestAnd ==
    ASSUME NEW n, NEW x, IsFiniteSet(PayloadBytes(n)) \/ IsFiniteSet(Rest(n, x)),
           x \in LiveBefore(n) => Asked(x, n) \in Nat
    PROVE  /\ IsFiniteSet(PayloadBytes(n)) /\ IsFiniteSet(Rest(n, x))
           /\ Cardinality(PayloadBytes(n))
                = Cardinality(Rest(n, x)) + (IF x \in LiveBefore(n) THEN Asked(x, n) ELSE 0)
           /\ Cardinality(Rest(n, x)) \in Nat
<1>1. Rest(n, x) \subseteq PayloadBytes(n)
  BY DEF Rest, PayloadBytes
<1>2. \A r \in Rest(n, x) : r[1] # x
  BY DEF Rest
<1>3. PayloadBytes(n) = IF x \in LiveBefore(n) THEN Rest(n, x) \cup ({x} \X (1 .. Asked(x, n)))
                        ELSE Rest(n, x)
  BY DEF Rest, PayloadBytes
<1>4. IsFiniteSet(Rest(n, x))
  BY <1>1, FS_Subset
<1>5. Cardinality(Rest(n, x)) \in Nat
  BY <1>4, FS_CardinalityType
<1>6. CASE x \in LiveBefore(n)
  <2>1. Asked(x, n) \in Nat
    BY <1>6
  <2>2. /\ IsFiniteSet(Rest(n, x) \cup ({x} \X (1 .. Asked(x, n))))
        /\ Cardinality(Rest(n, x) \cup ({x} \X (1 .. Asked(x, n)))) = Cardinality(Rest(n, x)) + Asked(x, n)
    BY <1>2, <1>4, <2>1, MoreBytes
  <2> QED
    BY <1>3, <1>4, <1>5, <1>6, <2>2
<1>7. CASE x \notin LiveBefore(n)
  BY <1>3, <1>4, <1>5, <1>7
<1> QED
  BY <1>6, <1>7

\* What a request does to the number of bytes.
LEMMA BytesNext ==
    ASSUME TypeOK, TraceInv, i <= Len(trace), IsFiniteSet(PayloadBytes(i))
    PROVE  /\ IsFiniteSet(PayloadBytes(i + 1))
           /\ Cardinality(PayloadBytes(i + 1))
                = Cardinality(PayloadBytes(i))
                    - (IF op.index \in LiveBefore(i) THEN Asked(op.index, i) ELSE 0)
                    + (IF op.type = "FREE" THEN 0 ELSE op.size)
<1> DEFINE x == op.index
<1>1. Rest(i + 1, x) = Rest(i, x)
  <2>1. LiveBefore(i + 1) \ {x} = LiveBefore(i) \ {x}
    BY LiveNext
  <2>2. \A y \in LiveBefore(i + 1) \ {x} : Asked(y, i + 1) = Asked(y, i)
    BY AskedNext
  <2> QED
    BY <2>1, <2>2 DEF Rest
<1>2. x \in LiveBefore(i) => Asked(x, i) \in Nat
  <2> SUFFICES ASSUME x \in LiveBefore(i)
               PROVE  Asked(x, i) \in Nat
    OBVIOUS
  <2>1. PICK j \in 1 .. i - 1 : LastRequest(x, i, j)
    BY DEF TraceInv
  <2>2. Asked(x, i) \in Sizes
    BY <2>1, AskedIs DEF TypeOK
  <2> QED
    BY <2>2, DriverConstants DEF DriverConstants
<1>3. x \in LiveBefore(i + 1) <=> op.type # "FREE"
  BY LiveNext
<1>4. x \in LiveBefore(i + 1) => Asked(x, i + 1) = op.size /\ Asked(x, i + 1) \in Nat
  BY AskedNext, DriverConstants DEF DriverConstants
<1>5. /\ IsFiniteSet(Rest(i, x)) /\ Cardinality(Rest(i, x)) \in Nat
      /\ Cardinality(PayloadBytes(i)) = Cardinality(Rest(i, x)) + (IF x \in LiveBefore(i) THEN Asked(x, i) ELSE 0)
  BY <1>2, RestAnd
<1>6. /\ IsFiniteSet(PayloadBytes(i + 1))
      /\ Cardinality(PayloadBytes(i + 1)) = Cardinality(Rest(i, x)) + (IF x \in LiveBefore(i + 1) THEN Asked(x, i + 1) ELSE 0)
  BY <1>1, <1>4, <1>5, RestAnd
<1> HIDE DEF x
<1>7. CASE op.type = "FREE"
  BY <1>2, <1>3, <1>5, <1>6, <1>7 DEF x
<1>8. CASE op.type # "FREE"
  BY <1>2, <1>3, <1>4, <1>5, <1>6, <1>8 DEF x
<1> QED
  BY <1>7, <1>8

\* Payloads that lie apart below an address hold no more bytes than it.
LEMMA BytesFit ==
    ASSUME NEW n, NEW bl, NEW b \in Nat,
           \A x \in LiveBefore(n) : /\ bl[x] \in Int /\ Asked(x, n) \in Nat
                                    /\ 0 <= bl[x] /\ bl[x] + Asked(x, n) <= b,
           \A x, y \in LiveBefore(n) : x # y => Apart(bl[x], Asked(x, n), bl[y], Asked(y, n))
    PROVE  Cardinality(PayloadBytes(n)) <= b
<1> DEFINE at == [r \in PayloadBytes(n) |-> bl[r[1]] + r[2]]
<1>1. ASSUME NEW r \in PayloadBytes(n)
      PROVE  /\ r[1] \in LiveBefore(n) /\ r[2] \in 1 .. Asked(r[1], n) /\ r = <<r[1], r[2]>>
  BY DEF PayloadBytes
<1>2. at \in [PayloadBytes(n) -> 1 .. b]
  BY <1>1
<1>3. ASSUME NEW r \in PayloadBytes(n), NEW s \in PayloadBytes(n), at[r] = at[s]
      PROVE  r = s
  <2>1. bl[r[1]] + r[2] = bl[s[1]] + s[2]
    BY <1>3
  <2>2. CASE r[1] = s[1]
    BY <1>1, <2>1, <2>2
  <2>3. CASE r[1] # s[1]
    BY <1>1, <2>1, <2>3 DEF Apart
  <2> QED
    BY <2>2, <2>3
<1>4. at \in Injection(PayloadBytes(n), 1 .. b)
  BY <1>2, <1>3 DEF Injection, IsInjective
<1>5. IsFiniteSet(1 .. b) /\ Cardinality(1 .. b) = b
  <2>1. IsFiniteSet(1 .. b) /\ Cardinality(1 .. b) = IF 1 > b THEN 0 ELSE b - 1 + 1
    BY FS_Interval
  <2> QED
    BY <2>1
<1> QED
  BY <1>4, <1>5, FS_Injection
\* eval_mm_util, cases ALLOC and REALLOC.
LEMMA Placed ==
    ASSUME DInv, UtilInv, NEW p \in Answers, UtilAlloc(p) \/ UtilRealloc(p), UNCHANGED conforming
    PROVE  UtilInv'
<1> USE DEF DInv
<1>1. /\ phase = "util" /\ phase' = "util" /\ i <= Len(trace) /\ i \in Nat /\ i > 0 /\ op.type # "FREE"
      /\ i' = i + 1 /\ trace' = trace /\ Remember(p)
      /\ brk \in Nat /\ total_size \in Int /\ max_total_size \in Nat
  BY Numbers DEF UtilAlloc, UtilRealloc, AtRequest, TypeOK
<1>2. /\ op.index \in Ids /\ op.size \in Nat /\ op.size > 0
      /\ (op.type = "ALLOC" <=> op.index \notin LiveBefore(i))
  <2>1. i \in 1 .. Len(trace)
    BY <1>1 DEF TypeOK
  <2>2. op.index \in Ids /\ op.size \in Sizes
    BY <1>1, <2>1, RequestType DEF op
  <2>3. op.type = "ALLOC" <=> op.index \notin LiveBefore(i)
    BY <2>1 DEF TraceInv, op
  <2>4. \A n \in Sizes : n \in Nat /\ n > 0
    BY Numbers
  <2> HIDE DEF op
  <2> QED
    BY <2>2, <2>3, <2>4
<1>3. Answer(p, op.size, LiveBefore(i) \ {op.index})
  BY <1>1, <1>2 DEF UtilAlloc, UtilRealloc, AtRequest
<1>4. /\ brk' \in Nat /\ brk <= brk'
      /\ conforming => /\ 0 <= p /\ p + op.size <= brk'
                       /\ \A x \in LiveBefore(i) \ {op.index} : Apart(p, op.size, blocks[x], Asked(x, i))
  BY <1>1, <1>3, Numbers DEF Answer
<1>5. /\ blocks \in [Ids -> Int] /\ block_sizes \in [Ids -> Int] /\ p \in Int
  <2>1. blocks \in [Ids -> Answers] /\ block_sizes \in [Ids -> Sizes \cup {0}]
    BY DEF TypeOK
  <2>2. \A a \in Answers : a \in Int
    BY Numbers DEF Answers, Addresses
  <2>3. \A a \in Sizes \cup {0} : a \in Int
    BY Numbers
  <2> QED
    BY <2>1, <2>2, <2>3
<1>6. /\ blocks'[op.index] = p /\ block_sizes'[op.index] = op.size
      /\ \A x \in Ids : x # op.index => blocks'[x] = blocks[x] /\ block_sizes'[x] = block_sizes[x]
  BY <1>1, <1>2, <1>5 DEF Remember
<1>7. /\ LiveBefore(i)' = LiveBefore(i + 1) /\ PayloadBytes(i)' = PayloadBytes(i + 1)
      /\ \A x : Asked(x, i)' = Asked(x, i + 1)
  BY <1>1 DEF LiveBefore, PayloadBytes, Asked
<1>8. /\ LiveBefore(i + 1) = LiveBefore(i) \cup {op.index} /\ LiveBefore(i) \subseteq Ids
      /\ Asked(op.index, i + 1) = op.size
      /\ \A x \in LiveBefore(i + 1) :
            /\ Asked(x, i + 1) \in Nat
            /\ x # op.index => x \in LiveBefore(i) /\ Asked(x, i + 1) = Asked(x, i)
  <2>1. LiveBefore(i + 1) = LiveBefore(i) \cup {op.index}
    BY <1>1, LiveNext
  <2>2. \A x \in LiveBefore(i + 1) : /\ Asked(x, i + 1) = IF x = op.index THEN op.size ELSE Asked(x, i)
                                     /\ x # op.index => x \in LiveBefore(i)
                                     /\ Asked(x, i + 1) \in Sizes
    BY <1>1, AskedNext
  <2>3. LiveBefore(i) \subseteq Ids
    BY DEF LiveBefore
  <2> QED
    BY <2>1, <2>2, <2>3, Numbers
<1>9. \A x \in LiveBefore(i + 1) : block_sizes'[x] = Asked(x, i + 1)
  BY <1>1, <1>6, <1>8 DEF UtilInv
<1>10. /\ IsFiniteSet(PayloadBytes(i + 1))
       /\ total_size' = Cardinality(PayloadBytes(i + 1)) /\ total_size' \in Int
       /\ max_total_size' = Larger(total_size', max_total_size)
  <2>0. /\ IsFiniteSet(PayloadBytes(i + 1))
        /\ Cardinality(PayloadBytes(i + 1))
             = Cardinality(PayloadBytes(i)) - (IF op.index \in LiveBefore(i) THEN Asked(op.index, i) ELSE 0) + op.size
    BY <1>1, BytesNext DEF UtilInv
  <2>1. op.index \in LiveBefore(i) => block_sizes[op.index] = Asked(op.index, i) /\ Asked(op.index, i) \in Int
    BY <1>1, <1>2, <1>5 DEF UtilInv
  <2>2. total_size = Cardinality(PayloadBytes(i))
    BY <1>1 DEF UtilInv
  <2>3. CASE UtilAlloc(p)
    <3>1. op.index \notin LiveBefore(i) /\ total_size' = total_size + op.size
          /\ max_total_size' = Larger(total_size', max_total_size)
      BY <1>2, <2>3 DEF UtilAlloc, AtRequest, Account
    <3> QED
      BY <1>1, <1>2, <2>0, <2>2, <3>1
  <2>4. CASE UtilRealloc(p)
    <3>1. op.index \in LiveBefore(i) /\ total_size' = total_size + (op.size - block_sizes[op.index])
          /\ max_total_size' = Larger(total_size', max_total_size)
      BY <1>2, <2>4 DEF UtilRealloc, AtRequest, Account
    <3> QED
      BY <1>1, <1>2, <2>0, <2>1, <2>2, <3>1
  <2> QED
    BY <2>3, <2>4
<1>11. ASSUME conforming
       PROVE  /\ \A x \in LiveBefore(i + 1) : 0 <= blocks'[x] /\ blocks'[x] + Asked(x, i + 1) <= brk'
              /\ \A x, y \in LiveBefore(i + 1) :
                    x # y => Apart(blocks'[x], Asked(x, i + 1), blocks'[y], Asked(y, i + 1))
  <2>1. ASSUME NEW x \in LiveBefore(i + 1)
        PROVE  0 <= blocks'[x] /\ blocks'[x] + Asked(x, i + 1) <= brk'
    <3>1. CASE x = op.index
      BY <1>4, <1>6, <1>8, <1>11, <3>1
    <3>2. CASE x # op.index
      <4>1. x \in LiveBefore(i) /\ x \in Ids /\ blocks'[x] = blocks[x] /\ Asked(x, i + 1) = Asked(x, i)
            /\ Asked(x, i) \in Nat
        BY <1>6, <1>8, <3>2
      <4>2. 0 <= blocks[x] /\ blocks[x] + Asked(x, i) <= brk
        BY <1>1, <1>11, <4>1 DEF UtilInv
      <4>3. blocks[x] \in Int
        BY <1>5, <4>1
      <4> QED
        BY <1>1, <1>4, <4>1, <4>2, <4>3
    <3> QED
      BY <3>1, <3>2
  <2>2. ASSUME NEW x \in LiveBefore(i + 1), NEW y \in LiveBefore(i + 1), x # y
        PROVE  Apart(blocks'[x], Asked(x, i + 1), blocks'[y], Asked(y, i + 1))
    <3>1. CASE x = op.index
      <4>1. y \in LiveBefore(i) \ {op.index} /\ y \in Ids /\ blocks'[y] = blocks[y] /\ Asked(y, i + 1) = Asked(y, i)
        BY <1>6, <1>8, <2>2, <3>1
      <4> QED
        BY <1>4, <1>6, <1>8, <1>11, <3>1, <4>1
    <3>2. CASE y = op.index
      <4>1. x \in LiveBefore(i) \ {op.index} /\ x \in Ids /\ blocks'[x] = blocks[x] /\ Asked(x, i + 1) = Asked(x, i)
        BY <1>6, <1>8, <2>2, <3>2
      <4>2. Apart(p, op.size, blocks[x], Asked(x, i))
        BY <1>4, <1>11, <4>1
      <4> QED
        BY <1>6, <1>8, <3>2, <4>1, <4>2 DEF Apart
    <3>3. CASE x # op.index /\ y # op.index
      <4>1. /\ x \in LiveBefore(i) /\ x \in Ids /\ blocks'[x] = blocks[x] /\ Asked(x, i + 1) = Asked(x, i)
            /\ y \in LiveBefore(i) /\ y \in Ids /\ blocks'[y] = blocks[y] /\ Asked(y, i + 1) = Asked(y, i)
        BY <1>6, <1>8, <3>3
      <4> QED
        BY <1>1, <1>11, <2>2, <4>1 DEF UtilInv
    <3> QED
      BY <3>1, <3>2, <3>3
  <2> QED
    BY <2>1, <2>2
<1>12. conforming => total_size' <= brk'
  <2> SUFFICES ASSUME conforming PROVE Cardinality(PayloadBytes(i + 1)) <= brk'
    BY <1>10
  <2>1. PICK bl : bl = blocks'
    OBVIOUS
  <2>2. \A x \in LiveBefore(i + 1) : bl[x] \in Int
    BY <1>2, <1>5, <1>6, <1>8, <2>1
  <2> QED
    BY <1>4, <1>8, <1>11, <2>1, <2>2, BytesFit
<1>13. /\ total_size' <= max_total_size'
       /\ conforming => max_total_size' <= brk' /\ brk' > 0
  BY <1>1, <1>2, <1>4, <1>5, <1>10, <1>12 DEF Larger, UtilInv
<1> QED
  BY <1>1, <1>7, <1>9, <1>10, <1>11, <1>13 DEF UtilInv

\* eval_mm_util, case FREE.
LEMMA Freed ==
    ASSUME DInv, UtilInv, UtilFree, UNCHANGED conforming
    PROVE  UtilInv'
<1> USE DEF DInv
<1>1. /\ phase = "util" /\ phase' = "util" /\ i <= Len(trace) /\ i \in Nat /\ i > 0 /\ op.type = "FREE"
      /\ i' = i + 1 /\ trace' = trace /\ UNCHANGED <<blocks, block_sizes, max_total_size, brk>>
      /\ total_size' = total_size - block_sizes[op.index]
      /\ total_size \in Int /\ max_total_size \in Nat
  BY DEF UtilFree, AtRequest, TypeOK
<1>2. op.index \in LiveBefore(i)
  <2>1. i \in 1 .. Len(trace)
    BY <1>1 DEF TypeOK
  <2> QED
    BY <1>1, <2>1 DEF TraceInv, op
<1>3. i > 1
  <2>1. PICK j \in 1 .. i - 1 : TRUE
    BY <1>2 DEF TraceInv
  <2> QED
    BY <1>1, <2>1
<1>4. /\ LiveBefore(i)' = LiveBefore(i + 1) /\ PayloadBytes(i)' = PayloadBytes(i + 1)
      /\ \A x : Asked(x, i)' = Asked(x, i + 1)
  BY <1>1 DEF LiveBefore, PayloadBytes, Asked
<1>5. \A x \in LiveBefore(i + 1) : x \in LiveBefore(i) /\ Asked(x, i + 1) = Asked(x, i)
  BY <1>1, AskedNext
<1>6. /\ IsFiniteSet(PayloadBytes(i + 1)) /\ total_size' = Cardinality(PayloadBytes(i + 1))
      /\ total_size' <= total_size
  <2>1. /\ IsFiniteSet(PayloadBytes(i + 1))
        /\ Cardinality(PayloadBytes(i + 1)) = Cardinality(PayloadBytes(i)) - Asked(op.index, i) + 0
    BY <1>1, <1>2, BytesNext DEF UtilInv
  <2>2. block_sizes[op.index] = Asked(op.index, i) /\ total_size = Cardinality(PayloadBytes(i))
    BY <1>1, <1>2 DEF UtilInv
  <2>3. block_sizes[op.index] \in Nat
    <3>1. op.index \in Ids /\ block_sizes \in [Ids -> Sizes \cup {0}]
      BY <1>2 DEF TypeOK, LiveBefore
    <3>2. block_sizes[op.index] \in Sizes \cup {0}
      BY <3>1
    <3>3. \A a \in Sizes \cup {0} : a \in Nat
      BY Numbers
    <3> QED
      BY <3>2, <3>3
  <2> QED
    BY <1>1, <2>1, <2>2, <2>3
<1>7. total_size' <= max_total_size /\ total_size' \in Int
  <2>1. total_size <= max_total_size
    BY <1>1 DEF UtilInv
  <2>2. block_sizes[op.index] \in Nat
    <3>1. op.index \in Ids /\ block_sizes \in [Ids -> Sizes \cup {0}]
      BY <1>2 DEF TypeOK, LiveBefore
    <3>2. block_sizes[op.index] \in Sizes \cup {0}
      BY <3>1
    <3>3. \A a \in Sizes \cup {0} : a \in Nat
      BY Numbers
    <3> QED
      BY <3>2, <3>3
  <2> QED
    BY <1>1, <1>6, <2>1, <2>2
<1> QED
  BY <1>1, <1>3, <1>4, <1>5, <1>6, <1>7 DEF UtilInv

\* eval_mm_util begins with an empty heap, and in the other functions the totals
\* are not used.
LEMMA UtilStep == DInv /\ UtilInv /\ [Next]_vars => UtilInv'
<1> SUFFICES ASSUME DInv, UtilInv, [Next]_vars, phase' = "util" PROVE UtilInv'
  BY DEF UtilInv
<1>1. CASE UNCHANGED vars
  <2>1. /\ UNCHANGED <<phase, trace, i, blocks, block_sizes, total_size, max_total_size, brk, conforming>>
    BY <1>1 DEF vars
  <2>2. /\ LiveBefore(i)' = LiveBefore(i) /\ PayloadBytes(i)' = PayloadBytes(i)
        /\ \A x : Asked(x, i)' = Asked(x, i)
    BY <2>1 DEF LiveBefore, PayloadBytes, Asked
  <2> QED
    BY <2>1, <2>2 DEF UtilInv
<1>2. ASSUME Next PROVE UtilInv'
  <2>1. UNCHANGED conforming
    BY <1>2 DEF Next
  <2>2. \/ BeginUtil \/ UtilFree \/ Stopped \/ \E p \in Answers : UtilAlloc(p) \/ UtilRealloc(p)
    BY <1>2 DEF Next, ReadRequest, BeginValid, ValidNULL, ValidFree, UtilNULL, BeginSpeed, InitFails, EndTrace,
                ValidAlloc, ValidRealloc, SpeedCall, Invalid, Finish, Exit, AtRequest
  <2>3. CASE BeginUtil
    <3>1. /\ i' = 1 /\ brk' = 0 /\ total_size' = 0 /\ max_total_size' = 0 /\ trace' = trace
      BY <2>3 DEF BeginUtil
    <3>2. LiveBefore(i)' = {}
      <4>1. 1 .. 1 - 1 = {}
        OBVIOUS
      <4> QED
        BY <3>1, <4>1 DEF LiveBefore
    <3>3. PayloadBytes(i)' = {}
      BY <3>2 DEF PayloadBytes
    <3> QED
      BY <3>1, <3>2, <3>3, FS_EmptySet DEF UtilInv
  <2>4. CASE Stopped
    BY <1>1, <2>4 DEF Stopped
  <2> QED
    BY <2>1, <2>2, <2>3, <2>4, Placed, Freed
<1> QED
  BY <1>1, <1>2

\* eval_mm_util: the running total is what the trace has allocated at that point,
\* it is at most the maximum, and the utilization of a package that keeps its
\* promises is at most 1, of a heap that is not empty.
THEOREM NoMoreThanTheHeap == Spec => []UtilizationAtMostOne
<1>1. Init => UtilInv
  BY DEF Init, UtilInv
<1>2. Spec => []UtilInv
  BY <1>1, DriverInit, DriverStep, UtilStep, PTL DEF Spec
<1>3. UtilInv => UtilizationAtMostOne
  BY DEF UtilInv, UtilizationAtMostOne
<1> QED
  BY <1>2, <1>3, PTL

=============================================================================
