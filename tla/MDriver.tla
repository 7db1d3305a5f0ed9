------------------------------- MODULE MDriver -------------------------------
(***************************************************************************)
(* cs351/mps/05/mdriver.c: the driver that replays trace files against a   *)
(* malloc package, first for correctness (eval_mm_valid, with the range    *)
(* list), then for utilization (eval_mm_util) and speed (eval_mm_speed).   *)
(*                                                                         *)
(* The package is the student's: if conforming it keeps the promises of    *)
(* HeapSpec, if not it may answer anything.   Only what the driver can see *)
(* of it is modelled: the answers, the break and the bytes of payloads.    *)
(***************************************************************************)
EXTENDS Integers, Sequences, FiniteSetsExt, SequencesExt

CONSTANTS MAX_HEAP, ALIGNMENT,
          Ids,          \* block ids of the trace files
          Sizes,        \* request sizes of the trace files
          MaxOps,       \* bound on the requests of one trace file
          NumTraces,    \* num_tracefiles
          REPEAT,       \* runs of eval_mm_speed per trace: 10 in ftimer_itimer
          Packages      \* TRUE: one that keeps the promises of HeapSpec,
                        \* FALSE: one that may answer anything

ASSUME DriverConstants ==
    /\ MAX_HEAP \in Nat \ {0} /\ ALIGNMENT \in Nat \ {0}
    /\ Ids \subseteq Nat
    /\ Sizes \subseteq Nat \ {0}     \* assert(size > 0) in add_range
    /\ MaxOps \in Nat /\ NumTraces \in Nat \ {0} /\ REPEAT \in Nat \ {0}
    /\ Packages \subseteq BOOLEAN

VARIABLES phase,                 \* the function the driver is in
          tracenum, trace,       \* the file being replayed and its requests
          i,                     \* index of the next request
          blocks, block_sizes,   \* trace->blocks, trace->block_sizes
          ranges,                \* the range list, newest first
          errors,                \* count of malloc_error calls
          valid,                 \* mm_stats[].valid, "none" before the verdict
          total_size, max_total_size,
          run,                   \* runs of eval_mm_speed so far
          brk, mem,              \* the heap as the driver sees it
          conforming,            \* the package keeps the promises of HeapSpec
          nulls,                 \* history: traces with a NULL answer
          high                   \* history: traces in which a block was moved
                                 \* whose id has a low byte above 127

vars == <<phase, tracenum, trace, i, blocks, block_sizes, ranges, errors,
          valid, total_size, max_total_size, run, brk, mem, nulls, high,
          conforming>>

Request == [type : {"ALLOC", "REALLOC"}, index : Ids, size : Sizes]
             \cup [type : {"FREE"}, index : Ids]
Fill(index) == index % 256         \* index & 0xFF
AsChar(b) == IF b \in 128 .. 255 THEN b - 256 ELSE b   \* char is signed on x86
JUNK == 256                        \* a byte the driver never wrote

\* The ids whose block is allocated when the first n - 1 requests are done,
\* and the size each was last asked for.
LiveBefore(n) ==
    {x \in Ids : \E j \in 1 .. n - 1 :
        /\ trace[j].index = x /\ trace[j].type # "FREE"
        /\ \A k \in j + 1 .. n - 1 : trace[k].index = x => trace[k].type # "FREE"}
Asked(x, n) ==
    trace[CHOOSE j \in 1 .. n - 1 :
            /\ trace[j].index = x /\ trace[j].type # "FREE"
            /\ \A k \in j + 1 .. n - 1 : trace[k].index # x].size

op == trace[i]

-----------------------------------------------------------------------------
(* The range list *)

Holds(r, a) == r.lo <= a /\ a <= r.hi

\* The checks of add_range for a payload of n bytes at lo on the heap below b.
InHeap(lo, n, b) == 0 <= lo /\ lo + n <= b
Bug_Overlaps_lo(r, lo, n) == Holds(r, lo)
Overlaps(r, lo, n) == Holds(r, lo) \/ Holds(r, lo + n - 1)
add_range_ok(list, lo, n, b) ==
    /\ lo % ALIGNMENT = 0
    /\ InHeap(lo, n, b)
    /\ \A k \in DOMAIN list : ~Overlaps(list[k], lo, n)
add_range(list, lo, n) == <<[lo |-> lo, hi |-> lo + n - 1]>> \o list

\* Variant: the old range of a reallocated or freed block stays.
Bug_remove_range_none(list, lo) == list

\* Removes the newest range that starts at lo, if there is one.
remove_range(list, lo) == RemoveFirstMatch(list, LAMBDA r : r.lo = lo)

-----------------------------------------------------------------------------
(* The package *)

Apart(p, n, q, m) == p + n <= q \/ q + m <= p

\* The package answers p to a request of n bytes; others are the ids whose
\* payloads it must leave alone.
Answer(p, n, others) ==
    /\ brk' \in brk .. MAX_HEAP
    /\ conforming => /\ p % ALIGNMENT = 0 /\ 0 <= p
                     /\ p + n <= brk'
                     /\ \A x \in others : Apart(p, n, blocks[x], Asked(x, i))
AnswerNULL ==
    /\ brk' \in brk .. MAX_HEAP
    /\ nulls' = nulls \cup {tracenum}

Addresses == 0 .. MAX_HEAP - 1
Answers == Addresses \cup {-ALIGNMENT}    \* one address below the heap

\* The bytes once mm_realloc has copied n of them from src to dst.
memmove(dst, src, n) ==
    [a \in Addresses |-> IF a \in dst .. dst + n - 1 THEN mem[src + (a - dst)]
                         ELSE mem[a]]
memset(m, p, index, n) ==
    [a \in Addresses |-> IF a \in p .. p + n - 1 THEN Fill(index) ELSE m[a]]

-----------------------------------------------------------------------------
(* main and read_trace *)

Init ==
    /\ phase = "read" /\ tracenum = 1 /\ trace = << >> /\ i = 1
    /\ blocks = [x \in Ids |-> 0] /\ block_sizes = [x \in Ids |-> 0]
    /\ ranges = << >> /\ errors = 0
    /\ valid = [t \in 1 .. NumTraces |-> "none"]
    /\ total_size = 0 /\ max_total_size = 0 /\ run = 0
    /\ brk = 0 /\ mem = [a \in Addresses |-> JUNK]
    /\ nulls = {} /\ high = {}
    /\ conforming \in Packages

\* A request of the file: what it frees or reallocates is allocated.
ReadRequest(r) ==
    /\ phase = "read" /\ Len(trace) < MaxOps
    /\ r.type = "ALLOC" <=> r.index \notin LiveBefore(Len(trace) + 1)
    /\ trace' = Append(trace, r)
    /\ UNCHANGED <<phase, tracenum, i, blocks, block_sizes, ranges, errors,
                   valid, total_size, max_total_size, run, brk, mem, nulls,
                   high>>

\* free_trace, and the next trace file or the report.
Finish ==
    /\ trace' = << >> /\ i' = 1 /\ run' = 0
    /\ blocks' = [x \in Ids |-> 0] /\ block_sizes' = [x \in Ids |-> 0]
    /\ total_size' = 0 /\ max_total_size' = 0
    /\ IF tracenum < NumTraces
       THEN tracenum' = tracenum + 1 /\ phase' = "read"
       ELSE phase' = "report" /\ UNCHANGED tracenum

\* malloc_error followed by return 0.
Invalid ==
    /\ errors' = errors + 1
    /\ valid' = [valid EXCEPT ![tracenum] = "invalid"]
    /\ Finish

\* app_error: the driver exits.
Exit ==
    /\ phase' = "exit"
    /\ UNCHANGED <<tracenum, trace, i, blocks, block_sizes, ranges, errors,
                   valid, total_size, max_total_size, run, mem, high>>

\* Variant: the ranges of the last trace stay.
Bug_clear_ranges_none == UNCHANGED ranges
clear_ranges == ranges' = << >>

\* End of file; eval_mm_valid resets the heap and the range list, and calls
\* mm_init, which a conforming package never fails.
BeginValid ==
    /\ phase = "read" /\ trace # << >>
    /\ brk' = 0 /\ clear_ranges
    /\ \/ /\ phase' = "valid" /\ i' = 1
          /\ UNCHANGED <<tracenum, trace, blocks, block_sizes, errors, valid,
                         total_size, max_total_size, run>>
       \/ ~conforming /\ Invalid
    /\ UNCHANGED <<mem, nulls, high>>

-----------------------------------------------------------------------------
(* eval_mm_valid *)

AtRequest(f, t) == phase = f /\ i <= Len(trace) /\ op.type = t

Remember(p) ==
    /\ blocks' = [blocks EXCEPT ![op.index] = p]
    /\ block_sizes' = [block_sizes EXCEPT ![op.index] = op.size]

ValidNULL ==
    /\ phase = "valid" /\ i <= Len(trace) /\ op.type # "FREE"
    /\ AnswerNULL
    /\ Invalid
    /\ UNCHANGED <<ranges, mem, high>>

ValidAlloc(p) ==
    /\ AtRequest("valid", "ALLOC")
    /\ Answer(p, op.size, LiveBefore(i))
    /\ \/ /\ ~add_range_ok(ranges, p, op.size, brk')
          /\ Invalid
          /\ UNCHANGED <<ranges, mem>>
       \/ /\ add_range_ok(ranges, p, op.size, brk')
          /\ ranges' = add_range(ranges, p, op.size)
          /\ mem' = memset(mem, p, op.index, op.size)
          /\ Remember(p)
          /\ i' = i + 1
          /\ UNCHANGED <<phase, tracenum, trace, errors, valid, total_size,
                         max_total_size, run>>
    /\ UNCHANGED <<nulls, high>>

\* The old range goes before the new payload is checked.   The bytes of the
\* payload are read through char *newp and compared with index & 0xFF, an int.
ValidRealloc(p, copied) ==
    LET oldp    == blocks[op.index]
        oldsize == Min({op.size, block_sizes[op.index]})
        list    == remove_range(ranges, oldp)
        bytes   == IF copied THEN memmove(p, oldp, oldsize) ELSE mem
        kept    == \A j \in 0 .. oldsize - 1 :
                     AsChar(bytes[p + j]) = Fill(op.index)
        moved   == IF Fill(op.index) > 127 THEN {tracenum} ELSE {}
    IN  /\ AtRequest("valid", "REALLOC")
        /\ conforming => copied
        /\ Answer(p, op.size, LiveBefore(i) \ {op.index})
        /\ \/ /\ ~add_range_ok(list, p, op.size, brk')
              /\ ranges' = list
              /\ mem' = bytes
              /\ Invalid
              /\ UNCHANGED high
           \/ /\ add_range_ok(list, p, op.size, brk') /\ ~kept
              /\ ranges' = add_range(list, p, op.size)
              /\ mem' = bytes
              /\ high' = high \cup moved
              /\ Invalid
           \/ /\ add_range_ok(list, p, op.size, brk') /\ kept
              /\ ranges' = add_range(list, p, op.size)
              /\ mem' = memset(bytes, p, op.index, op.size)
              /\ high' = high \cup moved
              /\ Remember(p)
              /\ i' = i + 1
              /\ UNCHANGED <<phase, tracenum, trace, errors, valid, total_size,
                             max_total_size, run>>
        /\ UNCHANGED nulls

ValidFree ==
    /\ AtRequest("valid", "FREE")
    /\ ranges' = remove_range(ranges, blocks[op.index])
    /\ i' = i + 1
    /\ UNCHANGED <<phase, tracenum, trace, blocks, block_sizes, errors, valid,
                   total_size, max_total_size, run, brk, mem, nulls,
                   high>>

\* return 1; eval_mm_util resets the heap and its totals.
BeginUtil ==
    /\ phase = "valid" /\ i > Len(trace)
    /\ valid' = [valid EXCEPT ![tracenum] = "valid"]
    /\ phase' = "util" /\ i' = 1 /\ brk' = 0
    /\ total_size' = 0 /\ max_total_size' = 0
    /\ UNCHANGED <<tracenum, trace, blocks, block_sizes, ranges, errors, run,
                   mem, nulls, high>>

\* mm_init fails in eval_mm_util or eval_mm_speed: app_error.
InitFails ==
    /\ ~conforming
    /\ i > Len(trace)
    /\ phase \in {"valid", "util"} \/ (phase = "speed" /\ run < REPEAT)
    /\ phase' = "exit" /\ brk' = 0
    /\ valid' = [valid EXCEPT ![tracenum] = "valid"]
    /\ UNCHANGED <<tracenum, trace, i, blocks, block_sizes, ranges, errors,
                   total_size, max_total_size, run, mem, nulls, high>>

-----------------------------------------------------------------------------
(* eval_mm_util: no range list, and a NULL answer ends the program *)

Larger(a, b) == IF a > b THEN a ELSE b

UtilNULL ==
    /\ phase \in {"util", "speed"} /\ i <= Len(trace) /\ op.type # "FREE"
    /\ AnswerNULL
    /\ Exit

Account(total) ==
    /\ total_size' = total
    /\ max_total_size' = Larger(total, max_total_size)

UtilAlloc(p) ==
    /\ AtRequest("util", "ALLOC")
    /\ Answer(p, op.size, LiveBefore(i))
    /\ Remember(p)
    /\ Account(total_size + op.size)
    /\ i' = i + 1
    /\ UNCHANGED <<phase, tracenum, trace, ranges, errors, valid, run, mem, nulls,
                   high>>

\* Variant: the old size stays in the total.
Bug_UtilRealloc_total(p) ==
    /\ AtRequest("util", "REALLOC")
    /\ Answer(p, op.size, LiveBefore(i) \ {op.index})
    /\ Remember(p)
    /\ Account(total_size + op.size)
    /\ i' = i + 1
    /\ UNCHANGED <<phase, tracenum, trace, ranges, errors, valid, run, mem, nulls,
                   high>>

UtilRealloc(p) ==
    /\ AtRequest("util", "REALLOC")
    /\ Answer(p, op.size, LiveBefore(i) \ {op.index})
    /\ Remember(p)
    /\ Account(total_size + (op.size - block_sizes[op.index]))
    /\ i' = i + 1
    /\ UNCHANGED <<phase, tracenum, trace, ranges, errors, valid, run, mem, nulls,
                   high>>

UtilFree ==
    /\ AtRequest("util", "FREE")
    /\ total_size' = total_size - block_sizes[op.index]
    /\ i' = i + 1
    /\ UNCHANGED <<phase, tracenum, trace, blocks, block_sizes, ranges, errors,
                   valid, max_total_size, run, brk, mem, nulls,
                   high>>

-----------------------------------------------------------------------------
(* eval_mm_speed, run REPEAT times by fsecs; block_sizes is not kept up *)

BeginSpeed ==
    /\ i > Len(trace)
    /\ \/ phase = "util" /\ run' = 1
       \/ phase = "speed" /\ run < REPEAT /\ run' = run + 1
    /\ phase' = "speed" /\ i' = 1 /\ brk' = 0
    /\ UNCHANGED <<tracenum, trace, blocks, block_sizes, ranges, errors, valid,
                   total_size, max_total_size, mem, nulls, high>>

SpeedCall(p) ==
    /\ phase = "speed" /\ i <= Len(trace)
    /\ \/ /\ op.type # "FREE"
          /\ Answer(p, op.size, LiveBefore(i) \ {op.index})
          /\ blocks' = [blocks EXCEPT ![op.index] = p]
       \/ op.type = "FREE" /\ UNCHANGED <<blocks, brk>>
    /\ i' = i + 1
    /\ UNCHANGED <<phase, tracenum, trace, block_sizes, ranges, errors, valid,
                   total_size, max_total_size, run, mem, nulls, high>>

EndTrace ==
    /\ phase = "speed" /\ i > Len(trace) /\ run = REPEAT
    /\ Finish
    /\ UNCHANGED <<ranges, errors, valid, brk, mem, nulls,
                   high>>

Stopped == phase \in {"report", "exit"} /\ UNCHANGED vars

\* What the package is does not change.
Next ==
    /\ UNCHANGED conforming
    /\ \/ \E r \in Request : ReadRequest(r)
       \/ BeginValid \/ ValidNULL \/ ValidFree \/ BeginUtil
       \/ UtilNULL \/ UtilFree \/ BeginSpeed \/ InitFails \/ EndTrace \/ Stopped
       \/ \E p \in Answers :
           \/ ValidAlloc(p) \/ UtilAlloc(p) \/ UtilRealloc(p) \/ SpeedCall(p)
           \/ \E copied \in BOOLEAN : ValidRealloc(p, copied)

Spec == Init /\ [][Next]_vars

-----------------------------------------------------------------------------
(* Properties *)

\* Types of the driver's locals, of the trace record and of the range list.
TypeOK ==
    /\ phase \in {"read", "valid", "util", "speed", "report", "exit"}
    /\ tracenum \in 1 .. NumTraces
    /\ trace \in Seq(Request) /\ Len(trace) <= MaxOps
    /\ i \in 1 .. Len(trace) + 1
    /\ blocks \in [Ids -> Answers]
    /\ block_sizes \in [Ids -> Sizes \cup {0}]
    /\ \A k \in DOMAIN ranges : ranges[k] \in [lo : Addresses, hi : Addresses]
    /\ errors \in 0 .. NumTraces
    /\ valid \in [1 .. NumTraces -> {"none", "valid", "invalid"}]
    /\ total_size \in Int /\ max_total_size \in Nat
    /\ run \in 0 .. REPEAT
    /\ brk \in 0 .. MAX_HEAP
    /\ mem \in [Addresses -> 0 .. JUNK]

\* "The range list keeps track of the extent of every allocated block payload":
\* while eval_mm_valid runs, it holds the live blocks and nothing else.
RangesMatchBlocks ==
    /\ TypeOK
    /\ phase = "valid" =>
        /\ Len(ranges) = Cardinality(LiveBefore(i))
        /\ ToSet(ranges) =
              {[lo |-> blocks[x], hi |-> blocks[x] + Asked(x, i) - 1]
                 : x \in LiveBefore(i)}

\* Whatever the package answers, add_range lets two payloads share bytes only
\* when the newer one contains the older one and more on both sides.
SharedOnlyIfContained ==
    \A j, k \in DOMAIN ranges : j < k =>
        \/ ranges[j].hi < ranges[k].lo \/ ranges[k].hi < ranges[j].lo
        \/ ranges[j].lo < ranges[k].lo /\ ranges[k].hi < ranges[j].hi

\* add_range: "The payload must not overlap any other payloads".
PayloadsDoNotOverlap ==
    \A j, k \in DOMAIN ranges : j < k =>
        ranges[j].hi < ranges[k].lo \/ ranges[k].hi < ranges[j].lo

\* When the package keeps the promises of HeapSpec, a trace fails only if the
\* package answered NULL in it or a block was moved in it whose id has a low
\* byte above 127: neither stale ranges of an earlier trace, nor a range left by
\* a realloc, nor stale bytes make the driver reject it.   The comparison after
\* such a move always fails, whatever the package did.
NoFalseAlarm ==
    /\ errors = Cardinality({t \in 1 .. NumTraces : valid[t] = "invalid"})
    /\ \A t \in 1 .. NumTraces :
        /\ t \in high => valid[t] = "invalid"
        /\ conforming /\ valid[t] = "invalid" => t \in nulls \cup high

\* eval_mm_valid: "Make sure that the new block contains the data from the old
\* block": a package that keeps the data and answers is not called wrong.
MovedDataIsRecognised ==
    conforming => \A t \in 1 .. NumTraces : valid[t] = "invalid" => t \in nulls

\* The bytes of the live blocks' payloads, by number.
PayloadBytes(n) == UNION {{x} \X (1 .. Asked(x, n)) : x \in LiveBefore(n)}

\* eval_mm_util's running total is what the trace has allocated at that point,
\* and the utilization max_total_size / mem_heapsize of a conforming package is
\* at most 1, of a heap that is not empty when it is computed.
UtilizationAtMostOne ==
    phase = "util" =>
        /\ total_size = Cardinality(PayloadBytes(i))
        /\ total_size <= max_total_size
        /\ conforming => max_total_size <= brk
        /\ conforming /\ i > 1 => brk > 0

=============================================================================
