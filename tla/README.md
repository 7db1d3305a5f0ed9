# TLA+ models of the systems code in IIT-classes

The repository collects the work of several courses. Its programs with state,
concurrency or a contract worth stating are the systems-programming ones in
`src/cs351`: an allocator, the driver that judges it and the package that times
it, a hash table, the job list and command line of a shell, the test program of
a cache lab, four echo servers, a producer with consumers, and about twenty
small programs on processes, signals, pipes, shared memory and locks; and the
simulator of digital circuits in `src/ECE449`. They are what is modelled. This file is the inventory of the code, the
guide to the modules, and the account of what is checked and what is proved.

Paths below are relative to the repository; `mps/05` stands for
`cs351/mps/05`, and so on. `PROJECT.json` maps each definition to its lines.

## 1. Inventory

### 1.1 The malloc lab (`mps/05`)

| part | state | operations | what it relies on |
|---|---|---|---|
| `memlib.c` | the break and the bytes below it | `mem_init`, `mem_reset_brk`, `mem_sbrk`, heap bounds | `malloc` once |
| `mm.c` | nothing but the heap; a size word before each payload | `mm_malloc`, `mm_free` (empty), `mm_realloc` | `mem_sbrk`, `memcpy` |
| `mm-explicit.c` | block headers with size, allocated bit and the two links of the free list; a sentinel | `mm_init`, `mm_malloc` with `find_fit`, `mm_free`, `mm_realloc`, `print_heap` | the same |
| `mdriver.c` | trace, block table, range list, totals | `read_trace`, `eval_mm_valid`, `eval_mm_util`, `eval_mm_speed`, main's loop | the package and `memlib.c` |
| `mdriver.c`, `main` | statistics of each trace for libc and for the package | the two evaluations, the table, the performance index | what the traces gave |
| `fcyc.c` | parameters, the sorted array of samples, the cache buffer | setters, `fcyc` with `init_sampler`, `add_sample`, `has_converged`, `clear` | a counter |
| `clock.c` | the counter's halves at the start, ticks, the calibration | `start_counter`, `get_counter`, `callibrate`, the compensated pair | the processor, `times` |
| `ftimer.c`, `fsecs.c` | nothing between calls | a difference of two clock readings | the system's clocks |

The driver calls a package through `mm_malloc`, `mm_free` and `mm_realloc`; a
package calls `mem_sbrk`; nothing runs concurrently. Hard to test here: a long
legal sequence of calls that corrupts a hand-linked list, `mm_realloc` that
allocates before it frees, sizes that pass through `int` and back to `size_t`,
the heap limit in the middle of a realloc, and state of one trace or one
evaluation that survives into the next. Correct means: payloads are aligned,
inside the heap and apart from each other and from headers; bytes are only
changed by their owner; no block is lost; every call returns; the driver
rejects a trace only when the package misbehaved; the array of samples holds
the smallest ones however its length is changed between calls; a difference of
counters survives the wrap of either half; and the score counts each trace for
what it is.

### 1.2 The hash table (`mps/02`)

An array of chains; each node owns two strings. `ht_put` updates in place or
inserts at the head, `ht_del` relinks by hand, `ht_rehash` fills a new table
while it frees the old chains, `free_hashtable` ends it; `main.c` runs
directives against it. Correct means: it is a map, rehashing does not change
it, and every allocation has exactly one owner at every step.

### 1.3 The shell's job list (`mps/03`)

`tsh.c` is the skeleton that students fill in: `eval`, `builtin_cmd`,
`do_bgfg`, `waitfg` and the signal handlers are empty. What works is the job
list (16 slots, `nextjid`), the read/eval loop and `parseline`. Correct means:
the list is the set of children, slots are stable, job IDs are distinct, and
the commands that are evaluated are those that were typed, whatever the
length of the line, with up to `MAXARGS - 1` words. More overrun `argv`, which
nobody counts (section 4).

### 1.4 The echo servers (`examples/networking`)

One protocol, four ways to serve it: one connection after the other
(`echoserver.c`), `select` in one process (`iomultserv.c`), a child per
connection (`multiprocserv.c`), a detached thread per connection
(`threadserv.c`). State: the backlog, the descriptor table of each process, the
set and high-water mark of `select`, children, signals and the handler, the
heap blocks that carry a descriptor to a thread. Hard: clients that say nothing,
leave or reset at any moment; descriptors that are reused during a sweep;
signals that merge; `fork` and `pthread_create` that fail without being looked
at. Correct means: each client is answered once, with its own bytes; nobody
waits for another's silence (but in `echoserver.c`); nothing leaks.

### 1.5 Threads, processes and I/O (`examples/threads`, `processes`, `io`)

`p_c.c` is a ring buffer with a mutex and a condition variable, and a producer
that spins on `count` without the mutex. The other programs each show one thing:
`shm-sync.c` and `shm-unsync.c` a shared segment with and without a signal,
`csapp_forks.c` ways to reap children, `pipe1.c` to `pipe3.c` who holds the ends
of a pipe, `filepipe-lock.c` and `sem-mutex.c` a file shared under a lock or a
semaphore, `simple_shell1.c` and `simple_shell2.c` a read-eval loop. Hard: the
order of every pair of processes, signals between a test and a `pause`, forks
that fail, names that outlive a killed run, and text that waits in the buffer
of `printf` when a process forks (`fork1` to `fork17` of `csapp_forks.c`).

### 1.6 The cache lab (`mps/04`)

`test-trans.c` runs `tracegen.c` under valgrind for each function that
`trans.c` registers, cuts the function's part out of the trace, and has
`csim-ref` simulate it. State: the list of functions with what is known of
each, the matrices, and files (`trace.tmp`, `trace.f<i>`, `.csim_results`) that
one program leaves for the next and nobody removes. Hard: a file of an earlier
turn that is read for a later one when a program in between has failed.
Correct means: each function is judged by its own run.

### 1.7 The EasyVL simulator (`ECE449/src`)

`lex.cpp` makes tokens of a line, `syn.cpp` a list of wires and of components
with pins, `net.cpp` a netlist, and `sim.cpp` simulates it for 1000 cycles:
each gate reads and writes bits in a table, in the order of the file, the
flip-flops move inside the same loop, and `evl_output` writes a file. Hard: the
order of the components, gates that write their output only when it goes one
way, flip-flops that are updated one after another and more than once a cycle,
pins that index past their wire. Correct means: tokens and netlist are those of
the text, and what is shown is what a synchronous circuit shows.

### 1.8 Not modelled

See section 6.

## 2. Modules

| module | models | composed with |
|---|---|---|
| `HeapSpec` | what any malloc package promises its caller | implemented by the next two |
| `MemLib` | `memlib.c`, the alignment and `int` arithmetic | extended by both packages |
| `MMNaive` | `mm.c` | `MemLib`, refines `HeapSpec` |
| `MMExplicit` | `mm-explicit.c` | `MemLib`, refines `HeapSpec` |
| `MDriver` | `mdriver.c`, one trace after another | a package described by its answers: one that keeps `HeapSpec`'s promises, or any answers at all |
| `DriverScore` | `main` of `mdriver.c`: which traces run on what, and the score | the verdicts of the traces, as `MDriver` leaves them |
| `Fcyc`, `CycleCounter` | `fcyc.c`; `clock.c` | |
| `MapSpec`, `HashTable` | a map; `hashtable.c` and `main.c` | `HashTable` refines `MapSpec` |
| `JobList`, `ParseLine` | the job list of `tsh.c`; its read/eval loop and `parseline` | |
| `CacheLab` | `test-trans.c` with `tracegen.c`, and what `csim-ref` leaves | |
| `EvlLex` | `lex.cpp` | |
| `EvlSyntax`, `EvlSim` | `syn.cpp` and `net.cpp`; `sim.cpp` | `EvlSim` extends `EvlSyntax`, and refines `CircuitSpec` on the netlists it simulates rightly |
| `CircuitSpec` | what a simulator of a netlist promises | implemented by `EvlSim` |
| `ProducerConsumer` | `p_c.c` | |
| `EchoSpec` | what an echo server promises | implemented by the four servers |
| `EchoSockets` | connections, backlog and clients, as the servers' calls use them | extended by the four servers |
| `EchoServer`, `SelectServer`, `ForkServer`, `ThreadServer` | the four servers | refine `EchoSpec` |
| `ShmExchange`, `ForkReap`, `ForkTree`, `Pipes`, `SharedFile`, `SimpleShell` | the small programs | one of them runs in `MCExamples` |
| `MCMMExplicit` | | extends `MMExplicit` and instantiates `MMNaive`: one of the packages runs |
| `MCSequential` | | extends hash table, job list, command line, lexer, timing, score and cache lab and instantiates the simulator: one of them runs |
| `MemLibProofs`, `MMNaiveProofs`, `MMExplicitProofs`, `MDriverProofs`, `ProducerConsumerProofs`, `SequentialProofs`, `EchoServersProofs`, `ExamplesProofs` | the proofs | each extends the module it is about; `EchoServersProofs` and `ExamplesProofs` the one that composes the servers, or the programs |
| `MC...` | instances for TLC | |

Correspondence, where it is not one handler to one action:

- `MMExplicit` names a block by the offset of its header; the header's fields
  are the functions `size`, `next_p`, `prior_p`. `mm_malloc` and the
  `mm_malloc` inside `mm_realloc` are `EnterMalloc`, then one `FindNext` per
  turn of `find_fit`'s loop, then `TakeFit`, `ExtendHeap` or `OutOfMemory`;
  `mm_realloc` goes on with `CopyAndFree`. The search has a step of its own for
  each node so that its end is something to check. Bit 0 of `size` is the
  allocated bit, as in the code, so `copySize` has the code's extra byte.
- `MDriver` keeps the driver's order inside a request (range removed, range
  added, bytes compared, bytes filled). A conforming package is every package
  whose answers `HeapSpec` allows; the other package answers any address.
- `HashTable` gives `ht_rehash` one step per node, since its intermediate
  states are where memory can be lost. A walk along a chain is not a recursion:
  `Chain` is what every set holds that holds the head and is closed under `next`,
  and the entry a walk finds first is the one whose own chain holds the others. `ht_del` of a key whose bucket is empty
  reads through `NULL` in the code (line 97): the model has that step,
  `DelFromEmptyBucket`, which ends the program.
- `ProducerConsumer` has an action for each statement that reads or writes
  shared state. `count` is a plain `int` read outside the mutex, and a compiler
  may read it once: `SpinForever` is that build.
- In the servers each system call is a step. `SelectServer` walks the sweep one
  descriptor at a time. `ForkServer` keeps what each process has open, and
  delivers `SIGCHLD` between any two steps of the parent; signals do not queue.
- In `ShmExchange` each byte is a step; `SharedFile` has the offset that the
  processes share, at which each write goes over what is there, and the
  `l_start` that `filepipe-lock.c` never sets, which is any value;
  `ForkReap` has `fork10` to `fork15` as the choices of `option`, `ForkTree`
  the others, each a sequence of steps; a process is named by the forks that
  led to it, and `fork` copies the buffer of `printf`.
- `EvlSim` gives each component of the list a step, as the loop does. A gate
  that names a whole wire reads the bit whose index is the position of the pin;
  beyond the end of the wire that is any `int`. `EvlSyntax` reads tokens, `EvlLex` characters.
- `ParseLine` and `EvlLex` come with a second reading of the same text, which
  looks at positions and not at what the code has done: where a line, an argument
  or a token begins is said of the neighbours of a position, and that the n-th
  result is that of the n-th beginning is said with the number of beginnings
  before it.
- `Fcyc` makes one step of a sample with its insertion: no other code runs
  between them. `CycleCounter` keeps the two halves of the counter below
  `Half`, and times in fractions that come out whole. A sum over the traces is, in
  `DriverScore`, the number of units that they have together.
- `CacheLab` has the files as variables: missing, or of a function and a turn.
  What a registered function does to the matrices is one of four kinds, and the
  part of the trace that is cut out is a set of positions of it.
- The modules that `MCSequential` and `SequentialProofs` extend together carry
  the name of their part in the variables they would share (`pc_hash`, `i_cache`).

Definitions named `Bug_...` are altered forms of the definition that follows
them, the way a slip in the code would alter it. No specification uses them;
`PROJECT.json` pairs each with the property that notices it.

## 3. Runs

| run | question | bounds |
|---|---|---|
| `explicit` | do the structures of `mm-explicit.c` stay whole, do calls return, does the caller see a `HeapSpec` heap; the layout and the heap of `mm.c` in its place | heap of 15 bytes, so that the limit is not aligned, header 2, alignment 2, `INT_MAX` 15 |
| `driver` | does the driver judge rightly | two traces of up to 3 requests, ids 0 and 128, heap of 4 |
| `driver_overlap` | does `add_range` reject every overlap (no) | one trace, an arbitrary package |
| `driver_alarm` | is a package that moves a block with its data always believed (no) | one trace of up to 2 requests, id 128, a package that keeps its promises |
| `producer_consumer` | overflow, order, lost wakeups, progress | ring of 3, two consumers, `int` of 7 values |
| `sequential` | is `hashtable.c` a map and memory owned once; is the job list the set of children; are tokens those of the line, and is what is shown what the circuit in the text does; are samples, counters and scores right; are commands as typed; is each function judged by its own run | below |
| `evl_gates` | is the output of the gates correct (no) | the circuits of `MCEvl`, 4 cycles |
| `joblist_reuse` | is `nextjid` a free ID (no) | 4 slots, 5 children, IDs up to 7 |
| `servers` | descriptors, zombies, argument blocks, who is harmed by whose end | each server, 3 clients, 1 byte each |
| `servers_live` | is it an echo server, is everyone served | each server, 2 clients, 2 bytes, buffer of 1 |
| `examples` | does each small program do what it shows, and end | see `MCExamples.cfg` |
| `examples_wakeup` | does the signal of `shm-sync.c` always wake the child (no) | segment of 3 bytes |

What each property says stands above it in its module.

**Why the bounds are enough.** The heap of `explicit` holds the sentinel and
up to three blocks, of two sizes, so a node of the free list has two distinct
neighbours, insertion and removal meet the head, the middle and the end, a
realloc can run out of memory, and the request of 15 wraps to a negative `int`.
In `sequential`, three keys of the hash table share a bucket at size 1, two do
at size 2: deletion meets the head, middle and end of a chain. Four children on
three slots (five on four in `joblist_reuse`) fill the list, leave one out, and
reuse slots and IDs after `nextjid` comes round. The lexer gets every line of
up to 5 characters, one of each class, which is every pair of tokens with and
without a comment or space between them. The simulator gets every triple of 16
components, in and out of the order it needs, and a handful of texts with a
shift register, wires declared late or not at all; 4 cycles are more
than the flip-flops of a circuit of three parts; an `int` of 2 bits loses the high bits of
a wire of 3, and the output file may be there already. The sampler keeps 1 or 3 of up
to 4 samples, out of 4 durations, and its parameters change between calls. The counter's halves have
four values each and start at any, so that either wraps between two readings. A line of 7 characters and 3 arguments is
filled and overrun by what is typed. The cache lab gets up to three functions,
of each kind, submitted or not, on matrices of up to 2 by 2, with dimensions
that are missing or too large; the score two traces of different length.
`fork3` has eight processes with four million interleavings, and is modelled
but not in the run of `examples`. The ring of
3 wraps, is full and is empty, with a range of `int` larger than the ring, as
it must be to tell items apart. Three clients give the servers a silent, a
resetting and an ordinary one at once; a buffer smaller than what is sent gives
a second, unread portion; descriptors are fewer than connections over a
behaviour, so that they are reused. Two traces are enough for state to leak
from one to the next; an id of 0 and one of 128 are bytes that `char` keeps and
turns negative. `mm.c`'s break is all it has: the caller's blocks and bytes are
what varies.

**Deadlock** is checked except where the system really stops: an echo server
that SIGPIPE has ended with all its clients gone, and the small programs
and those of `sequential`, which end.

**Fairness.** Weak fairness only. The malloc package is sequential code that
runs on once called (`WF(Package)`), and callers need not call. In `p_c.c` each
thread is scheduled; nothing is assumed of who gets a contended mutex, and
wakeups without a signal are not fair. Each server process and each thread runs
on, and so does every client that is not silent; `fork` and `pthread_create` may
fail at any time, which costs the client its answer (`refused`, `orphans`). In
`examples` one condition is enough, because no program takes steps for ever.

**Exceptions the liveness properties name** are behaviours of the code, found
while stating them: the lost wakeups of `shm-sync.c` and of `fork15`, `fork14`'s
handler that takes one child per signal, readers of a pipe that hold its write
end, a named semaphore that a killed run left at 0.

## 4. Disagreements found

- `driver_overlap`: the comment of `add_range` says a payload must not overlap
  any other; it tests the two ends of the new payload only, so a payload that
  contains an older one passes. `SharedOnlyIfContained` is what does hold.
- `driver_alarm`: `eval_mm_valid` reads the bytes of a reallocated payload as
  `char`, which is signed, and compares them with `index & 0xFF` (line 626). For
  a block id with a low byte above 127 they are never equal, so a package that moved
  the block and kept its data is reported not to have preserved it. `NoFalseAlarm`
  says that this and a `NULL` answer are the only ways to fail such a package, and
  that a trace with such a move always fails.
- `evl_gates`: the report of the project says that the gates give the correct
  output. An `and` gate of `sim.cpp` only ever clears its output and an `or`
  gate on single bits only ever sets it, so that on a netlist in order and
  without flip-flops an `and` of two ones shows 0. `SimulatesTheText` states
  for which netlists the simulator is right.
- `joblist_reuse`: the comment on `nextjid` calls it the next job ID to
  allocate; after it wraps it can be the ID of a live job.
- `examples_wakeup`: in `shm-sync.c` a signal between the test of `sig_recvd`
  and `pause` is lost, and the child it was to continue waits for ever.

Other disagreements have no run of their own. The model does what the code does,
and the module concerned says so at the top or at the definition:

- `mps/03/tsh.c:184-186`: "Characters enclosed in single quotes are treated as a
  single argument". Only a quote that begins an argument encloses anything; one inside a
  word is an ordinary character, so `a'b c'` is two arguments. A quoted last argument
  that begins with `&` is dropped like a bare one.
- `mps/03/tsh.c:228`: "ignore blank line". The 1 that is returned is `eval`'s
  `bg`: a blank line asks for the background, and `eval` reports a job.
- `mps/03/tsh.c:212` and `processes/simple_shell1.c:18-20` (and the same in
  `simple_shell2.c`): `argv` is filled without a count. A line of `MAXARGS`
  arguments, or of ten words, writes behind it. The models stop there
  (`"overrun"`); `CommandsAsTyped` says that it happens at no other line.
- `mps/02/hashtable.c:25`: "FIXME: the current implementation doesn't update
  existing entries". It does, in the lines below, and `ImplementsMap` says so. Line 90
  asks for substructures to be freed that have just been freed.
- `ECE449/src/sim.cpp:134,148`: the files of `evl_output` are opened to append
  and never emptied; what an earlier run has written stays in front. A component
  writes if `evl_output` is anywhere in its name (line 130). A wire is shown as an
  `int` (line 150): of one with more than 32 bits the high ones are lost.
  `SimulatesTheText` speaks of what this run has appended, and of the low bits.
- `mps/04/tracegen.c:75`: `M` and `N` of the command line are not compared with the
  256 by 256 of the arrays: `initMatrixOverrun`.

## 5. Proofs

TLAPS checks these for every value of the constants:

- `MMExplicitProofs`: `Invariant` (`Spec => []IInv`), and from it `TypeCorrect`
  and `PayloadSafety`. `PayloadsSafe` is not inductive: that two payloads are
  apart follows from the blocks being apart and each payload being in a used
  block large enough for it, and that a block taken by `find_fit` is not in use
  follows from the links leading to free blocks only. `IInv` is the
  conjunction: types, `BlocksDisjoint`, `LinksInverse` (the links are inverse
  permutations of the free blocks and the sentinel), `LiveInUsedBlocks`, and
  `CallConsistent` for what is known between the steps of a call. There is one
  lemma per action and one step per conjunct.
- `FindsWhatFits` and `NoBlockLost`, in the same module: the heap grows only
  when no free block fits, and the walks over the heap and over the free list
  reach every block. `LinksInverse` allows a second circle that no search comes
  to. `WInv` excludes it without following the links: every set that holds the
  sentinel and with a node its successor is the whole list (`OneCircle`), what
  `find_fit` has passed is such a set but for the node it is at (`Searched`),
  and a block ends where another begins or at the break (`NoGaps`).
- `ExplicitImplementsHeap`, again there. An allocation is a `Malloc`
  of `HeapSpec` when the caller asked and an `Sbrk` or nothing when
  `mm_realloc` did; the end of `mm_realloc` is a `Realloc`. Where a new payload
  lies follows from `PayloadsSafe` after the step; that the copy, one byte too
  long when a full block grows, touches no other payload follows from its being
  no longer than the request.
- `MMNaiveProofs`: `NaiveInvariant`, and `NaiveImplementsHeap`: `mm.c` refines
  `HeapSpec`, one lemma per operation. They are about `MMNaive` itself; the run `explicit`
  checks the same two formulas of its instance in `MCMMExplicit`.
- `MDriverProofs`: `ListIsLiveBlocks`, `OnlyContainedShared` and
  `ConformingPasses`, the soundness of the driver: whatever the traces, a package that keeps the
  promises of `HeapSpec` is called wrong only where it answered `NULL` or
  moved a block whose id has a low byte above 127. What the
  driver remembers is the list and `block_sizes`, what it ought to know is the
  prefix of the trace it has replayed; `DInv` ties them: a live block has a last
  request, whose size is the one noted and in the list; the list has one range for
  each live block, none twice; and the bytes of a conforming package are
  those last written, which is what the comparison before the next
  request relies on.
- `NoMoreThanTheHeap`, in the same module: the utilization of a package that keeps its
  promises is at most one. The total of the live payloads is the number of
  pairs of a live block and one of its bytes, so that no sum has to be unfolded:
  `UtilInv` says that `total_size` counts them through allocations, reallocations
  and frees, that a realloc finds the size it takes off in `block_sizes`, and
  that the payloads are apart and inside a heap that never shrinks, hence no more
  than its bytes.
- `ProducerConsumerProofs`: `PCInvariant`, and from it `NeverOverflows`,
  `FirstInFirstOut` and `WakeupsNotLost`. None of the three is inductive alone:
  that a put finds room needs that only the thread in its section changes
  `count` (`MutexHeld`), and that the last consumer does not go to sleep on an
  item needs that whoever is in its section does not wait (`Positions`).
- `SequentialProofs`, on `JobList`: `ListInvariant` (the list is the children, IDs differ until
  `nextjid` wraps), `SlotsKept` and `NextJidFreeUntilWrap`. The number of jobs and the
  set of their pids say nothing of one slot; the inductive invariant says which
  slot is whose: a pid is a child's if and only if a slot has it, no two slots
  have the same, and every other slot is clear. That the number of full slots
  is that of the children then follows from a bijection between them.
- `SequentialProofs`, on `Fcyc`: `SamplesBest`. `BestSamples` says that the filled part of
  `values` is sorted and names, for each place, the sample that it holds, all
  others being no smaller. So stated it is inductive with the types alone, and
  no induction over the samples is needed: an insertion moves the names along,
  and a sample that is dropped is no smaller than the last one kept.
- `SequentialProofs`, on `HashTable`: `HashInvariant`, and from it `NothingLostOrShared`,
  `EntriesAreFound` and `TableIsAMap` (it refines `MapSpec`), in the middle of a
  rehash too. `EverythingOwnedOnce` is not inductive: that a deletion relinks the one
  pointer to a node says nothing about where the rest of the chain goes. The
  invariant names for each node the chain it is on (`own`): every pointer stays on
  its chain, no two lead to one node, and a set that holds all heads and is
  closed under `next` holds all nodes (`Forest`), so that there is no circle
  off the chains; and each key is in the bucket of its hash, in whichever table.
  One lemma for each way a chain changes (a node in front, one taken out of
  the middle or off the head, a chain that moves to another place), and the
  operations of the code from these.
- `SequentialProofs`, on `CacheLab`: `OwnRun`. A file says nothing of the turn
  it was written in; the invariant (`LabInv`) says at each place of the loop which turn
  the trace, its part and `.csim_results` can be of, when a program in
  between may have failed (`Judged`), who has passed and at which place (`Turns`),
  and whose result will be emitted while the submission's own turn goes on (`Resulted`,
  `Earlier`).
- `SequentialProofs`, on `CycleCounter`: `MeasuresWhatPassed`. `ClockInv` says
  that since `start_counter` the counter has moved by `elapsed`, but for whole
  turns; the subtraction in two halves with its borrow then is `elapsed`,
  since no other number below `Half * Half` differs from it by whole turns. And the cost of
  a tick is the least of the ratios seen.
- `SequentialProofs`, on `DriverScore`: `FairScore`. `ScoreInv` ties `errors` to the
  verdicts of the traces that have run; the bounds and the monotonicity of the
  index are lemmas on the two sides of the fractions, for all numbers.
- `SequentialProofs`, on `ParseLine`: `CommandsRead`, for everything that can be typed up to a line that overruns `argv`.
  `ParseInv`: what `fgets` has left begins where a line begins, and as many lines
  begin before it as have been evaluated (`LinesRead`); within a line the
  arguments so far are those that begin before `buf`, where no argument
  is open (`LineParsed`). The mode after each character is a recursive
  function; that it has a value is shown by a shortest line that has none,
  which needs no theorem of induction.
- `SequentialProofs`, on `EvlLex`: `TokensRead`. The tokens are those that
  begin before the next character, each as long as it will be however the line
  goes on, no token goes on at the next character (`FreshAt`), and nothing
  illegal came before (`Scanned`). That a number has no letter in front needs the
  second: a digit after a letter would belong to the name.
- `EchoServersProofs`, on `iomultserv.c`: `SelectSeesAll`, `NobodyMadeToWait` and
  `SelectImplementsEcho` (it refines `EchoSpec`). None of them is
  inductive: that what the sweep has yet to come to is ready needs that
  a descriptor `accept` gives out was free, hence not in `set` and not in
  `read_set`; that an answer is the client's own first bytes needs that two
  descriptors are never the same connection and that a connection is open
  behind one until `close`; that closing the highest may lower the mark by only
  one needs the mark above all of `set`. `SelectInv` is the conjunction for
  sockets, control, descriptors, the sweep, and answers.
- `EchoServersProofs`, on all four, whichever was started (`ServersSpec`):
  `EachZombieHasSignal`, `OneClientsEndIsItsOwn`, `NoDescriptorLost`,
  `NoSweepWaits`, `EachBlockToOneThread` and `AllServersImplementEcho`.
  `ServersInv` has a conjunct per server. For `multiprocserv.c` it says what
  each process has open at each place of its code (`ForkFiles`) and how far a child is with its
  connection (`Progress`); for `threadserv.c` that a block of the heap has one owner
  (`main`, a thread, or an argument nobody freed), that a descriptor has one holder
  (a block, or the thread that has freed its block), and how far the thread is
  (`ThreadAnswers`). That a client is harmed by nobody's end but its own, and that a
  connection is open exactly as long as it has a descriptor, are not inductive
  even so: `FatesInv` adds, for each server, what became of each
  connection that is closed and what the process that went down was doing.
- `ExamplesProofs`: `ReadersGetWhatWasWritten`, `ReportsAreOfEachChild` and
  `CommandsInTurn`, for every number of processes and bytes. `ExamplesInv` has a
  conjunct per program: what a byte of the shared segment can be and in what
  order the two signals are sent; whose each report is, and that a pending
  `SIGCHLD` and a running handler stand for a zombie each (the handler of
  `fork14` never finds none); that a child whose number
  is in a pipe is past its write; who is in the section of a lock or semaphore,
  and that the digits of the child that is there are the end of the file; that all
  commands in the foreground but the one waited for have been reaped, in
  the order of the lines.
- `MemLibProofs`: the arithmetic of `ALIGN` and of bit 0.

Assumptions, each evaluated by TLC in the runs of the modules that extend its own:
`MemLibConstants` (the alignment is 2, 4, 8 or 16, the heap fits
in an `int`, requests are positive `int`s, as the driver's are), `HeaderFits`
and `WordFits` (the header is aligned, fits in the heap, and is far below
`INT_MAX`), `DriverConstants` (there is a trace, a heap and an alignment; requests are
positive, as `add_range` asserts), `PCConstants` (there is a consumer, threads are distinct, the ring
is shorter than the range of `int`), `SocketConstants` (a buffer and messages
have at least a byte; clients are finitely many, and none has the name of something else),
`DescriptorConstants` (descriptors are finitely many consecutive numbers),
`ThreadConstants` (no block is at `NULL`, thread IDs are finitely many positive numbers),
`JobListConstants` (there is a slot, no child has pid 0, the bound on job IDs is
beyond `MAXJOBS`), `FcycConstants` (parameters and times are integers, a call
keeps and takes at least one sample), `HashConstants` (keys are finitely many, their
hashes natural numbers, a table has a bucket, `malloc` finds an address for every key's
node and one more), `CacheConstants`, `ClockConstants` and `ScoreConstants`
(types; there is a trace, a trace has a request, the weights are both positive),
`ParseConstants` (a line has room for a character, `argv` for a word),
`LexConstants` (the bound on lines is a number), `ExampleConstants` (a segment, a message and
a number have at least a byte, `pipe3.c` has two children or more, `sem-mutex.c` one). How
many descriptors there are is left open; `accept` is only taken while one is free.

Every invariant that the passing runs check is proved, and every action property
and refinement but the one named last here. Only model-checked:

- liveness (`CallsReturn`, `KeepsGoing`, `EveryoneIsServed`, `ZombiesAreReaped`,
  `Ends`), which the prover cannot do; `LinesOfTheTree` inside `Ends` sums over processes;
- `SimulatesTheText`: the tokens of a text are concatenations, and what a component
  does to the wires and what a number shows are folds, over sequences of any length. What
  they compute would have to be proved by induction over the data, for which the
  library's theorems need an operator as a parameter. (The modes of a line,
  above, go without because each step of that recursion is a case distinction.)

## 6. What is not modelled, and what is left

Could be modelled next, in this order:

1. Texts that break the EasyVL grammar: `syn.cpp` reads past its tokens on
   some of them, and what it does then is undefined.
2. `iomultserv.c` when descriptors run out: `accept` returns -1, which goes to
   `FD_SET`. The model has a descriptor for every client.
3. The Clojure deque and doubly linked list (`cs331`), the stack machine of
   `cs440`'s `forth.hs`, the VHDL register file and ALU (`ECE485`), the
   behavioural datapath of `ECE429`, the command interpreter and block commands
   of the 68000 monitor (`ECE441`).

Where the models stop: at a line that overruns `argv`, in `tsh.c` and in the
simple shells, and at matrices that overrun `tracegen.c`'s arrays, since what a
program does after that is undefined. The simple shells read a terminal or a
pipe: with a file as input, a child whose `execvp` failed may move the offset
it shares with its parent when it exits. A byte of memory the driver never wrote is
equal to none it did.

Left out for good:

- `matrixmul.c` multiplies floating-point matrices in six orders of one loop:
  its results differ only in rounding, its point is the time it takes.
- `ftimer.c` and `fsecs.c` subtract two readings of a clock; `mhz` and `ovhd`
  of `clock.c` print one measurement.
- `csim.c` is an empty `main`; `driver.py` adds up what `test-trans` emits.
- Option parsing and usage texts of the drivers, `print_ht_stats`, the
  `.tokens`, `.syntax` and `.netlist` files of the simulator: output.
- `builtin_cmd`, `do_bgfg`, `waitfg` and the signal handlers of `tsh.c` are empty
  in the repository.
- Programs that print once or make one system call (`mps/01`, several files of
  `examples/io` and `examples/processes`), test scripts and helpers, reports,
  data, gate-level netlists, PDFs and tools.

`PROJECT.json` gives the reason for each component.
