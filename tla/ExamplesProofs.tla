---------------------------- MODULE ExamplesProofs ----------------------------
(* The small programs on processes: shm-sync.c and shm-unsync.c, fork10 to    *)
(* fork15 of csapp_forks.c, pipe1.c to pipe3.c, filepipe-lock.c, sem-mutex.c  *)
(* and the two shells, for every number of processes and bytes, under every   *)
(* interleaving, whichever forks fail.                                        *)
EXTENDS MCExamples, FiniteSetTheorems, SequenceTheorems, TLAPS

-----------------------------------------------------------------------------
(* The inductive invariants; each is kept by its program, and by the others,  *)
(* which leave its variables alone                                            *)

(* shm-sync.c and shm-unsync.c *)

Cells == 0 .. SHM_SIZE - 1
ParentPlaces == {"fork", "get", "memset", "fill", "kill", "detach", "test", "call", "pause",
                 "remove", "done"}
ChildPlaces == {"none", "test", "call", "pause", "get", "shmat", "print", "detach", "kill",
                "done", "failed", "killed"}
BeforePrinting == {"none", "test", "call", "pause", "get", "shmat"}
Waiting == {"test", "call", "pause"}
Told == {"detach", "remove", "done"} \cup Waiting

ShmTypes ==
    /\ sync \in BOOLEAN /\ leftover \in BOOLEAN /\ forked \in BOOLEAN
    /\ at \in [M!Procs -> ParentPlaces \cup ChildPlaces]
    /\ at["parent"] \in ParentPlaces /\ at["child"] \in ChildPlaces
    /\ sig_recvd \in [M!Procs -> BOOLEAN] /\ pending \in [M!Procs -> BOOLEAN]
    /\ i_shm \in [M!Procs -> Nat] /\ i_shm["parent"] \in Cells
    /\ shm \in [exists : BOOLEAN, data : [Cells -> Int], attached : SUBSET M!Procs]
    /\ printed \in Seq(Int)

\* A byte of the segment is what it was cleared to, or what was written there,
\* or comes from a run before; the part that the loop has passed is written.
SegmentInv ==
    /\ \A x \in Cells : shm.data[x] = x \/ shm.data[x] = 0 \/ (leftover /\ shm.data[x] = M!JUNK)
    /\ at["parent"] = "fill" => \A x \in Cells : x < i_shm["parent"] => shm.data[x] = x
    /\ at["parent"] \in Told \cup {"kill"} => \A x \in Cells : shm.data[x] = x
    /\ at["parent"] \notin {"fork", "get", "done"} => shm.exists

PrintedInv ==
    /\ i_shm["child"] = Len(printed)
    /\ at["child"] \in BeforePrinting => Len(printed) = 0
    /\ at["child"] = "print" => Len(printed) < SHM_SIZE
    /\ M!ChildPrintsWhatWasWritten

\* With the signals each process is past its wait only if the other has sent
\* its own: the child goes to the segment when it has been filled, the parent
\* removes it when the child has detached.
SignalInv ==
    /\ at["parent"] = "fork" => at["child"] = "none"
    /\ sync =>
        /\ at["child"] \notin {"none"} \cup Waiting => sig_recvd["child"]
        /\ pending["child"] \/ sig_recvd["child"] => at["parent"] \in Told
        /\ pending["parent"] \/ sig_recvd["parent"] => at["child"] = "done"
        /\ at["parent"] \in {"remove", "done"} => sig_recvd["parent"]

ShmInv == ShmTypes /\ SegmentInv /\ PrintedInv /\ SignalInv

(* fork10 to fork15 *)

Reaped == R!InState("reaped")
Zombies == R!InState("zombie")

ReapTypes ==
    /\ option \in 10 .. 15
    /\ pc_reap \in {"fork", "kill", "reap", "test", "call", "pause", "loop", "done"}
    /\ i_reap \in 1 .. N
    /\ child_reap \in [R!Children -> {"none", "running", "zombie", "reaped"}]
    /\ failed \subseteq R!Children
    /\ sigchld \in BOOLEAN /\ handler \in BOOLEAN /\ ccount \in Int
    /\ Len(reports) \in Nat
    /\ reports = [m \in 1 .. Len(reports) |-> [wpid |-> reports[m].wpid, status |-> reports[m].status]]

\* Children not yet forked, or of a fork that failed, are not there; a child is
\* reaped by the loop of the parent, one for each turn, or by a handler.
ChildrenInv ==
    /\ pc_reap = "fork" => \A c \in R!Children : c >= i_reap => child_reap[c] = "none"
    /\ pc_reap # "fork" => \A c \in R!Children : child_reap[c] = "none" => c \in failed
    /\ pc_reap = "fork" => \A c \in R!Children : c < i_reap /\ child_reap[c] = "none" => c \in failed
    /\ handler \/ pc_reap \in {"test", "call", "pause"} => R!Counting
    /\ pc_reap \in {"kill", "reap"} => ~R!Counting
    /\ pc_reap \in {"fork", "kill"} \/ R!Counting => reports = <<>>
    /\ pc_reap \in {"fork", "kill"} /\ ~R!Counting => Reaped = {}

\* In the loop that waits each turn has reaped one, in fork11 the child of that
\* turn.
TurnsInv ==
    /\ pc_reap = "reap" => Len(reports) = i_reap - 1
    /\ pc_reap = "reap" /\ failed = {} => Cardinality(Reaped) = i_reap - 1
    /\ pc_reap = "reap" /\ failed = {} /\ option = 11 => Reaped = 1 .. i_reap - 1

\* The status in a report is the one with which the child has ended.
AsEnded(m) == reports[m].status = R!Status(reports[m].wpid)

ReportsInv ==
    \A m \in 1 .. Len(reports) :
        /\ reports[m].wpid = -1 => failed # {}
        /\ reports[m].wpid # -1 => reports[m].wpid \in Reaped /\ AsEnded(m)
        /\ option = 11 /\ failed = {} => reports[m].wpid = m
        /\ \A n \in 1 .. Len(reports) :
             m # n /\ reports[m].wpid # -1 => reports[m].wpid # reports[n].wpid

\* A pending SIGCHLD of fork14, and its handler while it runs, each stand for a
\* zombie of their own, so that the handler never finds none.
CountInv ==
    /\ R!Counting => ccount = N - Cardinality(Reaped)
    /\ option = 14 =>
         Cardinality(Zombies) >= (IF sigchld THEN 1 ELSE 0) + (IF handler THEN 1 ELSE 0)

ReapInv == ReapTypes /\ ChildrenInv /\ TurnsInv /\ ReportsInv /\ CountInv

(* pipe1.c to pipe3.c *)

PipePlaces == {"none", "fork", "write", "read", "close", "waitpid", "exit", "end"}

PipeTypes ==
    /\ prog_pipe \in 1 .. 3 /\ i_pipe \in 1 .. K + 1
    /\ pc_pipe \in [P!Procs -> PipePlaces]
    /\ pipe \in Seq(1 .. K) /\ wrote \in Seq(1 .. K) /\ out \in Seq(1 .. K)

\* pipe1.c writes the numbers in order; in the others a child writes its own
\* number, and those that are not yet forked have not.
WritersInv ==
    /\ pc_pipe[0] = "close" => prog_pipe = 3
    /\ prog_pipe = 1 =>
        /\ pc_pipe[0] = "fork" => i_pipe = 1
        /\ \A m \in 1 .. Len(wrote) : wrote[m] < i_pipe
        /\ \A p \in 1 .. K : pc_pipe[p] # "write"
    /\ prog_pipe # 1 =>
        /\ pc_pipe[0] # "write"
        /\ pc_pipe[0] = "fork" => i_pipe <= K
        /\ prog_pipe = 3 /\ pc_pipe[0] \in {"fork", "close"} => i_pipe <= 2
        /\ \A p \in 1 .. K : p >= i_pipe => pc_pipe[p] = "none"
        /\ \A p \in 1 .. K : pc_pipe[p] \in {"none", "write"} =>
             \A m \in 1 .. Len(wrote) : wrote[m] # p

PipeInv == PipeTypes /\ WritersInv /\ P!PipeIsFIFO

(* filepipe-lock.c and sem-mutex.c *)

FilePlaces == {"none", "fork", "write", "unlock", "wait", "setlkw", "lseek", "read", "sem_wait",
               "digits", "sem_post", "end", "killed"}
Bytes == [by : {"old", "parent"} \cup Kids, digit : Nat]

FileTypes ==
    /\ prog_file \in {"lock", "mutex"} /\ lockable \in BOOLEAN
    /\ pc_file \in [F!Procs -> FilePlaces]
    /\ lock \in {"none"} \cup F!Procs
    /\ mutex \in 0 .. 1
    /\ file \in Seq(Bytes)
    /\ offset \in 0 .. Len(file)
    /\ j \in [Kids -> Nat]

\* Who has what place in which of the two programs.
PlacesInv ==
    /\ prog_file = "lock" =>
        /\ pc_file["parent"] \in {"fork", "write", "unlock", "end"}
        /\ \A k \in Kids : pc_file[k] \in {"none", "setlkw", "lseek", "read", "end"}
    /\ prog_file = "mutex" =>
        /\ pc_file["parent"] \in {"fork", "wait", "end"}
        /\ \A k \in Kids : pc_file[k] \in {"none", "sem_wait", "digits", "sem_post", "end", "killed"}

\* filepipe-lock.c, when the locks are granted: the parent has its lock until
\* it has written, so that the child comes after it.
LockInv ==
    prog_file = "lock" /\ lockable =>
        /\ pc_file["parent"] # "end" => lock = "parent"
        /\ pc_file[F!Reader] \in {"lseek", "read", "end"} => pc_file["parent"] = "end"
        /\ pc_file["parent"] \in {"fork", "write"} =>
             offset = 0 /\ \A x \in 1 .. Len(file) : file[x] = F!OLD
        /\ pc_file["parent"] \in {"unlock", "end"} =>
             /\ Len(file) >= MSG
             /\ \A x \in 1 .. MSG : file[x] = F!Message[x]
             /\ \A x \in MSG + 1 .. Len(file) : file[x] = F!OLD
        /\ pc_file[F!Reader] = "read" => offset = 0

InSection(k) == pc_file[k] \in {"digits", "sem_post"}

\* sem-mutex.c: one child at a time writes, and what it has written is the end
\* of what there is; a child that was killed has the semaphore for ever.
MutexInv ==
    prog_file = "mutex" =>
        /\ \A k \in Kids : InSection(k) => mutex = 0
        /\ \A k, l \in Kids : InSection(k) /\ InSection(l) => k = l
        /\ pc_file["parent"] = "fork" => \A k \in Kids : pc_file[k] = "none"
        /\ \A k \in Kids : pc_file[k] \in {"none", "sem_wait"} => j[k] = 0
        /\ \A k \in Kids : pc_file[k] = "digits" /\ j[k] > 0 =>
             offset > 0 /\ file[offset] = [by |-> k, digit |-> j[k] - 1]

FileInv ==
    FileTypes /\ PlacesInv /\ LockInv /\ MutexInv /\ F!ReaderSeesMessage /\ F!DigitsTogether

(* simple_shell1.c and simple_shell2.c *)

ShellTypes ==
    /\ shell \in 1 .. 2
    /\ pc \in {"loop", "parse", "fork", "waitpid", "end", "killed", "overrun"}
    /\ lines \in Nat /\ eof \in BOOLEAN
    /\ buf \in [line : Nat, kind : S!Kind] /\ buf.line <= lines
    /\ bg \in BOOLEAN /\ pid \in Int
    /\ child \in Seq({"running", "zombie", "reaped"})
    /\ ran \in Seq([line : Nat, bg : BOOLEAN])
    /\ Len(ran) = Len(child)

\* Of the commands in the foreground only the one that is waited for is there.
ForegroundInv ==
    /\ bg => shell = 2
    /\ pc = "waitpid" => ~bg
    /\ \A c \in 1 .. Len(ran) : ran[c].bg => shell = 2
    /\ \A c \in 1 .. Len(ran) : ~ran[c].bg =>
         child[c] = "reaped" \/ (pc = "waitpid" /\ pid = c)

\* The command in buf is newer than those that have run, until the input ends.
LinesInv ==
    /\ \A c \in 1 .. Len(ran) : ran[c].line <= buf.line
    /\ ~eof /\ pc \in {"parse", "fork"} => \A c \in 1 .. Len(ran) : ran[c].line < buf.line
    /\ ~eof \/ pc \in {"parse", "fork"} =>
         \A c \in 2 .. Len(ran) : ran[c - 1].line < ran[c].line
    /\ S!RunsInOrder

ShellInv == ShellTypes /\ ForegroundInv /\ LinesInv

ExamplesInv == ShmInv /\ ReapInv /\ PipeInv /\ FileInv /\ ShellInv

-----------------------------------------------------------------------------
(* shm-sync.c and shm-unsync.c *)

\* The first state of shm-sync.c and shm-unsync.c.
LEMMA ShmStart == M!Init => ShmInv
<1> SUFFICES ASSUME M!Init
             PROVE  ShmInv
  OBVIOUS
<1> USE ExampleConstants
<1>1. /\ sync \in BOOLEAN /\ leftover \in BOOLEAN /\ forked = TRUE
      /\ at = [parent |-> "fork", child |-> "none"]
      /\ i_shm = [p \in M!Procs |-> 0]
      /\ sig_recvd = [p \in M!Procs |-> FALSE] /\ pending = [p \in M!Procs |-> FALSE]
      /\ printed = <<>>
  BY DEF M!Init
<1>2. /\ shm \in [exists : BOOLEAN, data : [Cells -> Int], attached : SUBSET M!Procs]
      /\ \A x \in Cells : shm.data[x] = 0 \/ (leftover /\ shm.data[x] = M!JUNK)
  <2>1. /\ M!Bytes(0) \in [Cells -> Int] /\ \A x \in Cells : M!Bytes(0)[x] = 0
        /\ M!Bytes(M!JUNK) \in [Cells -> Int] /\ \A x \in Cells : M!Bytes(M!JUNK)[x] = M!JUNK
    BY DEF M!Bytes, M!JUNK, Cells
  <2>2. M!NoSegment \in [exists : BOOLEAN, data : [Cells -> Int], attached : SUBSET M!Procs]
        /\ M!NoSegment.data = M!Bytes(0)
    BY <2>1 DEF M!NoSegment
  <2>3. shm = IF leftover THEN [M!NoSegment EXCEPT !.exists = TRUE, !.data = M!Bytes(M!JUNK)]
              ELSE M!NoSegment
    BY DEF M!Init
  <2> QED
    BY <2>1, <2>2, <2>3
<1>3. at["parent"] = "fork" /\ at["child"] = "none"
  BY <1>1
<1>4. ShmTypes
  BY <1>1, <1>2, <1>3 DEF ShmTypes, M!Procs, Cells, ParentPlaces, ChildPlaces
<1>5. SegmentInv
  BY <1>2, <1>3 DEF SegmentInv, Told, Waiting
<1>6. PrintedInv
  BY <1>1, <1>3 DEF PrintedInv, M!ChildPrintsWhatWasWritten, M!Procs
<1>7. SignalInv
  BY <1>1, <1>3 DEF SignalInv, Waiting, M!Procs
<1> QED
  BY <1>4, <1>5, <1>6, <1>7 DEF ShmInv

\* The signal handler, which ends a pause.
LEMMA ShmHandler ==
    ASSUME ShmInv, NEW p \in M!Procs, M!sighandler(p)
    PROVE  ShmInv'
<1>1. /\ pending[p] /\ pending' = [pending EXCEPT ![p] = FALSE]
      /\ sig_recvd' = [sig_recvd EXCEPT ![p] = TRUE]
      /\ at' = at \/ (at[p] = "pause" /\ at' = [at EXCEPT ![p] = "test"])
      /\ UNCHANGED <<sync, i_shm, forked, shm, leftover, printed>>
  BY DEF M!sighandler, M!Go
<1>2. /\ at' \in [M!Procs -> ParentPlaces \cup ChildPlaces]
      /\ \A q \in M!Procs : at'[q] = at[q] \/ (at[q] = "pause" /\ at'[q] = "test")
  BY <1>1 DEF ShmInv, ShmTypes, M!Procs, ParentPlaces
<1>3. ShmTypes'
  BY <1>1, <1>2 DEF ShmInv, ShmTypes, M!Procs, ParentPlaces, ChildPlaces
<1>4. SegmentInv'
  BY <1>1, <1>2 DEF ShmInv, SegmentInv, M!Procs, Told, Waiting
<1>5. PrintedInv'
  BY <1>1, <1>2 DEF ShmInv, PrintedInv, M!ChildPrintsWhatWasWritten, BeforePrinting, M!Procs
<1>6. SignalInv'
  BY <1>1, <1>2 DEF ShmInv, ShmTypes, SignalInv, Waiting, Told, M!Procs
<1> QED
  BY <1>3, <1>4, <1>5, <1>6 DEF ShmInv

\* The wait of each process, and the signal to the other.
LEMMA ShmWaits ==
    ASSUME ShmInv,
           \/ M!Test("parent", "remove") \/ M!Test("child", "get")
           \/ M!kill("parent", "child", "detach") \/ M!kill("child", "parent", "done")
    PROVE  ShmInv'
<1>1. UNCHANGED <<sync, i_shm, forked, shm, leftover, printed, sig_recvd>>
  BY DEF M!Test, M!kill
<1>2. CASE M!Test("parent", "remove")
  <2>1. /\ pending' = pending /\ at'["child"] = at["child"]
        /\ at' \in [M!Procs -> ParentPlaces \cup ChildPlaces]
        /\ at["parent"] \in {"test", "call"} /\ at'["parent"] \in {"call", "pause", "remove"}
        /\ at'["parent"] = "remove" => sig_recvd["parent"]
    BY <1>2 DEF M!Test, M!Go, ShmInv, ShmTypes, M!Procs, ParentPlaces
  <2>2. ShmTypes'
    BY <1>1, <2>1 DEF ShmInv, ShmTypes, M!Procs, ParentPlaces
  <2>3. SegmentInv'
    BY <1>1, <2>1 DEF ShmInv, SegmentInv, Told, Waiting
  <2>4. PrintedInv'
    BY <1>1, <2>1 DEF ShmInv, PrintedInv, M!ChildPrintsWhatWasWritten
  <2>5. SignalInv'
    BY <1>1, <2>1 DEF ShmInv, SignalInv, Waiting, Told
  <2> QED
    BY <2>2, <2>3, <2>4, <2>5 DEF ShmInv
<1>3. CASE M!Test("child", "get")
  <2>1. /\ pending' = pending /\ at'["parent"] = at["parent"]
        /\ at' \in [M!Procs -> ParentPlaces \cup ChildPlaces]
        /\ at["child"] \in {"test", "call"} /\ at'["child"] \in {"call", "pause", "get"}
        /\ at'["child"] = "get" => sig_recvd["child"]
    BY <1>3 DEF M!Test, M!Go, ShmInv, ShmTypes, M!Procs, ChildPlaces
  <2>2. ShmTypes'
    BY <1>1, <2>1 DEF ShmInv, ShmTypes, M!Procs, ChildPlaces
  <2>3. SegmentInv'
    BY <1>1, <2>1 DEF ShmInv, SegmentInv, Told, Waiting
  <2>4. PrintedInv'
    BY <1>1, <2>1 DEF ShmInv, PrintedInv, M!ChildPrintsWhatWasWritten, BeforePrinting
  <2>5. SignalInv'
    BY <1>1, <2>1 DEF ShmInv, SignalInv, Waiting, Told
  <2> QED
    BY <2>2, <2>3, <2>4, <2>5 DEF ShmInv
<1>4. CASE M!kill("parent", "child", "detach")
  <2>1. /\ pending' = [pending EXCEPT !["child"] = forked] /\ at'["child"] = at["child"]
        /\ at' \in [M!Procs -> ParentPlaces \cup ChildPlaces]
        /\ at["parent"] = "kill" /\ at'["parent"] = "detach"
    BY <1>4 DEF M!kill, M!Go, ShmInv, ShmTypes, M!Procs, ParentPlaces
  <2>2. ShmTypes'
    BY <1>1, <2>1 DEF ShmInv, ShmTypes, M!Procs, ParentPlaces
  <2>3. SegmentInv'
    BY <1>1, <2>1 DEF ShmInv, SegmentInv, Told, Waiting
  <2>4. PrintedInv'
    BY <1>1, <2>1 DEF ShmInv, PrintedInv, M!ChildPrintsWhatWasWritten
  <2>5. SignalInv'
    BY <1>1, <2>1 DEF ShmInv, ShmTypes, SignalInv, Waiting, Told, M!Procs
  <2> QED
    BY <2>2, <2>3, <2>4, <2>5 DEF ShmInv
<1>5. CASE M!kill("child", "parent", "done")
  <2>1. /\ pending' = [pending EXCEPT !["parent"] = forked] /\ at'["parent"] = at["parent"]
        /\ at' \in [M!Procs -> ParentPlaces \cup ChildPlaces]
        /\ at["child"] = "kill" /\ at'["child"] = "done"
    BY <1>5 DEF M!kill, M!Go, ShmInv, ShmTypes, M!Procs, ChildPlaces
  <2>2. ShmTypes'
    BY <1>1, <2>1 DEF ShmInv, ShmTypes, M!Procs, ChildPlaces
  <2>3. SegmentInv'
    BY <1>1, <2>1 DEF ShmInv, SegmentInv, Told, Waiting
  <2>4. PrintedInv'
    BY <1>1, <2>1 DEF ShmInv, PrintedInv, M!ChildPrintsWhatWasWritten, BeforePrinting
  <2>5. SignalInv'
    BY <1>1, <2>1 DEF ShmInv, ShmTypes, SignalInv, Waiting, Told, M!Procs
  <2> QED
    BY <2>2, <2>3, <2>4, <2>5 DEF ShmInv
<1> QED
  BY <1>2, <1>3, <1>4, <1>5

\* fork of shm-sync.c and shm-unsync.c, which starts the child.
LEMMA ShmForks ==
    ASSUME ShmInv, M!fork
    PROVE  ShmInv'
<1>1. /\ at["parent"] = "fork" /\ forked' \in BOOLEAN
      /\ at'["parent"] = "get" /\ at'["child"] \in {"none", "test", "get"}
      /\ at' \in [M!Procs -> ParentPlaces \cup ChildPlaces]
      /\ sync => at'["child"] \in {"none", "test"}
      /\ UNCHANGED <<sync, i_shm, sig_recvd, pending, shm, leftover, printed>>
  BY DEF M!fork, M!Procs, ParentPlaces, ChildPlaces
<1>2. at["child"] = "none"
  BY <1>1 DEF ShmInv, SignalInv
<1>3. ShmTypes'
  BY <1>1 DEF ShmInv, ShmTypes, ParentPlaces, ChildPlaces
<1>4. SegmentInv'
  BY <1>1 DEF ShmInv, SegmentInv, Told, Waiting
<1>5. PrintedInv'
  BY <1>1, <1>2 DEF ShmInv, PrintedInv, M!ChildPrintsWhatWasWritten, BeforePrinting
<1>6. SignalInv'
  BY <1>1, <1>2 DEF ShmInv, ShmTypes, SignalInv, Waiting, Told
<1> QED
  BY <1>3, <1>4, <1>5, <1>6 DEF ShmInv

\* The segment is made or found, and in the end detached and removed.
LEMMA ShmSegment ==
    ASSUME ShmInv, M!GetAndAttach \/ M!detach \/ M!remove
    PROVE  ShmInv'
<1>1. /\ at'["child"] = at["child"] /\ at' \in [M!Procs -> ParentPlaces \cup ChildPlaces]
      /\ shm' \in [exists : BOOLEAN, data : [Cells -> Int], attached : SUBSET M!Procs]
      /\ shm'.data = shm.data
      /\ UNCHANGED <<sync, i_shm, sig_recvd, pending, forked, leftover, printed>>
      /\ \/ at["parent"] = "get" /\ at'["parent"] = "memset" /\ shm'.exists
         \/ /\ at["parent"] = "detach" /\ shm'.exists = shm.exists
            /\ at'["parent"] = IF sync THEN "test" ELSE "remove"
         \/ at["parent"] = "remove" /\ at'["parent"] = "done"
  <2>1. CASE M!GetAndAttach
    BY <2>1 DEF M!GetAndAttach, M!Go, M!Attach, ShmInv, ShmTypes, M!Procs, ParentPlaces
  <2>2. CASE M!detach
    BY <2>2 DEF M!detach, M!Go, M!Detach, ShmInv, ShmTypes, M!Procs, ParentPlaces
  <2>3. CASE M!remove
    BY <2>3 DEF M!remove, M!Go, ShmInv, ShmTypes, M!Procs, ParentPlaces
  <2> QED
    BY <2>1, <2>2, <2>3
<1>2. ShmTypes'
  BY <1>1 DEF ShmInv, ShmTypes, ParentPlaces
<1>3. SegmentInv'
  BY <1>1 DEF ShmInv, SegmentInv, Told, Waiting
<1>4. PrintedInv'
  BY <1>1 DEF ShmInv, PrintedInv, M!ChildPrintsWhatWasWritten, BeforePrinting
<1>5. SignalInv'
  BY <1>1 DEF ShmInv, ShmTypes, SignalInv, Waiting, Told
<1> QED
  BY <1>2, <1>3, <1>4, <1>5 DEF ShmInv

\* One byte of the two loops of the parent.
LEMMA ShmFills ==
    ASSUME ShmInv, M!fill
    PROVE  ShmInv'
<1> USE ExampleConstants
<1>1. PICK k \in Cells : i_shm["parent"] = k
  BY DEF ShmInv, ShmTypes
<1>2. PICK b \in {0, k}, there \in {"fill", "kill", "detach"} :
        /\ at["parent"] = "memset" => b = 0 /\ there = "fill"
        /\ at["parent"] # "memset" => /\ at["parent"] = "fill" /\ b = k
                                      /\ there = IF sync THEN "kill" ELSE "detach"
        /\ M!Store(b, there)
  BY <1>1 DEF M!fill
<1>3. /\ UNCHANGED <<sync, sig_recvd, pending, forked, leftover, printed>>
      /\ at'["child"] = at["child"] /\ at' \in [M!Procs -> ParentPlaces \cup ChildPlaces]
      /\ k + 1 # SHM_SIZE => at'["parent"] = at["parent"]
      /\ k + 1 = SHM_SIZE => at'["parent"] = there
  BY <1>1, <1>2 DEF M!Store, M!Go, ShmInv, ShmTypes, M!Procs, ParentPlaces
<1>4. /\ i_shm' \in [M!Procs -> Nat] /\ i_shm'["child"] = i_shm["child"]
      /\ i_shm'["parent"] = IF k + 1 = SHM_SIZE THEN 0 ELSE k + 1
  BY <1>1, <1>2 DEF M!Store, ShmInv, ShmTypes, M!Procs, Cells
<1>5. /\ shm' \in [exists : BOOLEAN, data : [Cells -> Int], attached : SUBSET M!Procs]
      /\ shm'.exists = shm.exists
      /\ \A x \in Cells : shm'.data[x] = IF x = k THEN b ELSE shm.data[x]
  <2>1. PICK d \in [Cells -> Int] : d = shm.data
    BY DEF ShmInv, ShmTypes
  <2>2. shm' = [shm EXCEPT !.data = [d EXCEPT ![k] = b]]
    BY <1>1, <1>2, <2>1 DEF M!Store
  <2>3. b \in Int
    BY <1>2 DEF Cells
  <2>4. /\ [d EXCEPT ![k] = b] \in [Cells -> Int]
        /\ \A x \in Cells : [d EXCEPT ![k] = b][x] = IF x = k THEN b ELSE d[x]
    BY <1>1, <2>3
  <2>5. shm'.data = [d EXCEPT ![k] = b]
    BY <2>2 DEF ShmInv, ShmTypes
  <2> QED
    BY <2>1, <2>2, <2>4, <2>5 DEF ShmInv, ShmTypes
<1>6. ShmTypes'
  <2>1. i_shm'["parent"] \in Cells
    BY <1>1, <1>4 DEF Cells
  <2> QED
    BY <1>2, <1>3, <1>4, <1>5, <2>1 DEF ShmInv, ShmTypes, ParentPlaces, M!Store
<1>7. SegmentInv'
  <2>1. \A x \in Cells : shm'.data[x] = x \/ shm'.data[x] = 0 \/ (leftover' /\ shm'.data[x] = M!JUNK)
    BY <1>2, <1>3, <1>5 DEF ShmInv, SegmentInv
  <2>2. at'["parent"] = "fill" => \A x \in Cells : x < i_shm'["parent"] => shm'.data[x] = x
    <3>1. CASE at["parent"] = "memset"
      <4>1. at'["parent"] = "fill" => i_shm'["parent"] = 0
        BY <1>3, <1>4, <3>1
      <4> QED
        BY <4>1 DEF Cells
    <3>2. CASE at["parent"] = "fill"
      BY <1>1, <1>2, <1>3, <1>4, <1>5, <3>2 DEF ShmInv, SegmentInv, Cells
    <3> QED
      BY <1>2, <3>1, <3>2
  <2>3. at'["parent"] \in Told \cup {"kill"} => \A x \in Cells : shm'.data[x] = x
    <3>1. at'["parent"] \in Told \cup {"kill"} => k + 1 = SHM_SIZE /\ at["parent"] = "fill" /\ b = k
      BY <1>2, <1>3 DEF Told, Waiting
    <3>2. at["parent"] = "fill" => \A x \in Cells : x < k => shm.data[x] = x
      BY <1>1 DEF ShmInv, SegmentInv
    <3> QED
      BY <3>1, <3>2, <1>5 DEF Cells
  <2>4. at'["parent"] \notin {"fork", "get", "done"} => shm'.exists
    BY <1>2, <1>5 DEF ShmInv, SegmentInv
  <2> QED
    BY <2>1, <2>2, <2>3, <2>4 DEF SegmentInv
<1>8. PrintedInv'
  BY <1>3, <1>4 DEF ShmInv, PrintedInv, M!ChildPrintsWhatWasWritten, BeforePrinting
<1>9. SignalInv'
  BY <1>2, <1>3 DEF ShmInv, ShmTypes, SignalInv, Waiting, Told
<1> QED
  BY <1>6, <1>7, <1>8, <1>9 DEF ShmInv

\* The child finds the segment, attaches and detaches it.
LEMMA ShmAttaches ==
    ASSUME ShmInv, M!shmget \/ M!shmat \/ M!ChildDetach
    PROVE  ShmInv'
<1>1. /\ at'["parent"] = at["parent"] /\ at' \in [M!Procs -> ParentPlaces \cup ChildPlaces]
      /\ shm' \in [exists : BOOLEAN, data : [Cells -> Int], attached : SUBSET M!Procs]
      /\ shm'.data = shm.data /\ shm'.exists = shm.exists
      /\ UNCHANGED <<sync, i_shm, sig_recvd, pending, forked, leftover, printed>>
      /\ \/ at["child"] = "get" /\ at'["child"] = IF shm.exists THEN "shmat" ELSE "failed"
         \/ at["child"] = "shmat" /\ at'["child"] = IF shm.exists THEN "print" ELSE "killed"
         \/ at["child"] = "detach" /\ at'["child"] = IF sync THEN "kill" ELSE "done"
  <2>1. CASE M!shmget
    BY <2>1 DEF M!shmget, M!Go, ShmInv, ShmTypes, M!Procs, ChildPlaces
  <2>2. CASE M!shmat
    <3>1. CASE shm.exists
      <4>1. /\ at["child"] = "shmat" /\ at' = [at EXCEPT !["child"] = "print"]
            /\ shm' = [shm EXCEPT !.attached = @ \cup {"child"}]
            /\ UNCHANGED <<sync, i_shm, sig_recvd, pending, forked, leftover, printed>>
        BY <2>2, <3>1 DEF M!shmat, M!Go, M!Attach
      <4> QED
        BY <3>1, <4>1 DEF ShmInv, ShmTypes, M!Procs, ChildPlaces
    <3>2. CASE ~shm.exists
      <4>1. /\ at["child"] = "shmat" /\ at' = [at EXCEPT !["child"] = "killed"] /\ shm' = shm
            /\ UNCHANGED <<sync, i_shm, sig_recvd, pending, forked, leftover, printed>>
        BY <2>2, <3>2 DEF M!shmat, M!Go
      <4> QED
        BY <3>2, <4>1 DEF ShmInv, ShmTypes, M!Procs, ChildPlaces
    <3> QED
      BY <3>1, <3>2
  <2>3. CASE M!ChildDetach
    BY <2>3 DEF M!ChildDetach, M!Go, M!Detach, ShmInv, ShmTypes, M!Procs, ChildPlaces
  <2> QED
    BY <2>1, <2>2, <2>3
<1>2. sync => at["parent"] \in Told \ {"remove", "done"} /\ shm.exists
  BY <1>1 DEF ShmInv, SignalInv, SegmentInv, Told, Waiting
<1>3. ShmTypes'
  BY <1>1 DEF ShmInv, ShmTypes, ChildPlaces
<1>4. SegmentInv'
  BY <1>1 DEF ShmInv, SegmentInv, Told, Waiting
<1>5. PrintedInv'
  <2>1. at'["child"] = "print" => Len(printed) = 0
    BY <1>1 DEF ShmInv, PrintedInv, BeforePrinting
  <2>2. at'["child"] \in BeforePrinting => at["child"] \in BeforePrinting
    BY <1>1 DEF BeforePrinting
  <2> QED
    BY <1>1, <1>2, <2>1, <2>2, ExampleConstants DEF ShmInv, PrintedInv, M!ChildPrintsWhatWasWritten
<1>6. SignalInv'
  BY <1>1, <1>2 DEF ShmInv, ShmTypes, SignalInv, Waiting, Told
<1> QED
  BY <1>3, <1>4, <1>5, <1>6 DEF ShmInv

\* The child prints a byte: with the signals all of them are written.
LEMMA ShmPrints ==
    ASSUME ShmInv, M!print
    PROVE  ShmInv'
<1> USE ExampleConstants
<1>1. PICK n \in Nat : n = Len(printed) /\ n = i_shm["child"] /\ n < SHM_SIZE
  BY DEF ShmInv, ShmTypes, PrintedInv, M!print
<1>2. PICK b \in Int : b = shm.data[n]
  <2>1. n \in Cells /\ shm.data \in [Cells -> Int]
    BY <1>1 DEF ShmInv, ShmTypes, Cells
  <2> QED
    BY <2>1
<1>3. /\ UNCHANGED <<sync, sig_recvd, pending, forked, shm, leftover>>
      /\ at["child"] = "print" /\ at'["parent"] = at["parent"]
      /\ at' \in [M!Procs -> ParentPlaces \cup ChildPlaces]
      /\ at'["child"] = IF n + 1 = SHM_SIZE THEN "detach" ELSE "print"
  BY <1>1 DEF M!print, M!Go, ShmInv, ShmTypes, M!Procs, ChildPlaces
<1>4. /\ i_shm' \in [M!Procs -> Nat] /\ i_shm'["parent"] = i_shm["parent"]
      /\ i_shm'["child"] = n + 1
  <2>1. i_shm' = [i_shm EXCEPT !["child"] = n + 1]
    BY <1>1 DEF M!print
  <2> QED
    BY <2>1 DEF ShmInv, ShmTypes, M!Procs
<1>5. printed \in Seq(Int) /\ printed' = Append(printed, b)
  BY <1>1, <1>2 DEF M!print, ShmInv, ShmTypes
<1>6. /\ printed' \in Seq(Int) /\ Len(printed') = n + 1 /\ printed'[n + 1] = b
      /\ \A x \in 1 .. n : printed'[x] = printed[x]
  <2>1. PICK s \in Seq(Int) : s = printed
    BY <1>5
  <2>2. /\ Append(s, b) \in Seq(Int) /\ Len(Append(s, b)) = Len(s) + 1
        /\ Append(s, b)[Len(s) + 1] = b
        /\ \A x \in 1 .. Len(s) : Append(s, b)[x] = s[x]
    BY <2>1, AppendProperties
  <2>3. Len(s) = n /\ printed' = Append(s, b)
    BY <1>1, <1>5, <2>1
  <2> QED
    BY <2>1, <2>2, <2>3
<1>7. ShmTypes'
  BY <1>3, <1>4, <1>6 DEF ShmInv, ShmTypes, ChildPlaces
<1>8. SegmentInv'
  BY <1>3, <1>4 DEF ShmInv, SegmentInv
<1>9. PrintedInv'
  <2>1. b = n \/ (~sync /\ b = 0) \/ (~sync /\ leftover /\ b = M!JUNK)
    <3>1. n \in Cells
      BY <1>1 DEF Cells
    <3>2. sync => at["parent"] \in Told
      BY <1>3 DEF ShmInv, SignalInv, Waiting
    <3> QED
      BY <1>2, <3>1, <3>2 DEF ShmInv, SegmentInv
  <2>2. \A x \in 1 .. n + 1 :
          \/ printed'[x] = x - 1
          \/ ~sync' /\ printed'[x] = 0
          \/ ~sync' /\ leftover' /\ printed'[x] = M!JUNK
    <3>1. \A x \in 1 .. n : \/ printed[x] = x - 1 \/ (~sync /\ printed[x] = 0)
                            \/ ~sync /\ leftover /\ printed[x] = M!JUNK
      <4>1. DOMAIN printed = 1 .. n
        <5>1. DOMAIN printed = 1 .. Len(printed)
          BY <1>5, LenProperties
        <5> QED
          BY <1>1, <5>1
      <4> QED
        BY <4>1 DEF ShmInv, PrintedInv, M!ChildPrintsWhatWasWritten
    <3>2. ASSUME NEW x \in 1 .. n + 1
          PROVE  \/ printed'[x] = x - 1
                 \/ ~sync' /\ printed'[x] = 0
                 \/ ~sync' /\ leftover' /\ printed'[x] = M!JUNK
      <4>1. CASE x = n + 1
        BY <4>1, <1>1, <1>3, <1>6, <2>1
      <4>2. CASE x \in 1 .. n
        BY <4>2, <1>3, <1>6, <3>1
      <4> QED
        BY <4>1, <4>2
    <3> QED
      BY <3>2
  <2>3. DOMAIN printed' = 1 .. n + 1
    <3>1. DOMAIN printed' = 1 .. Len(printed')
      BY <1>6, LenProperties
    <3> QED
      BY <1>6, <3>1
  <2>4. M!ChildPrintsWhatWasWritten'
    BY <1>3, <2>2, <2>3 DEF M!ChildPrintsWhatWasWritten, M!JUNK
  <2> QED
    BY <1>1, <1>3, <1>4, <1>6, <2>4 DEF PrintedInv, BeforePrinting
<1>10. SignalInv'
  BY <1>3 DEF ShmInv, SignalInv, Waiting, Told
<1> QED
  BY <1>7, <1>8, <1>9, <1>10 DEF ShmInv

-----------------------------------------------------------------------------
(* fork10 to fork15 *)

\* The first state of fork10 to fork15.
LEMMA ReapStart == R!Init => ReapInv
<1> SUFFICES ASSUME R!Init
             PROVE  ReapInv
  OBVIOUS
<1> USE ExampleConstants
<1>1. /\ option \in 10 .. 15 /\ pc_reap = "fork" /\ i_reap = 1
      /\ child_reap = [c \in R!Children |-> "none"]
      /\ failed = {} /\ sigchld = FALSE /\ handler = FALSE /\ ccount = N /\ reports = <<>>
  BY DEF R!Init
<1>2. ReapTypes
  <2>1. Len(reports) = 0
    BY <1>1
  <2>2. reports = [m \in 1 .. Len(reports) |-> [wpid |-> reports[m].wpid, status |-> reports[m].status]]
    BY <1>1, <2>1
  <2>3. child_reap \in [R!Children -> {"none", "running", "zombie", "reaped"}]
    BY <1>1
  <2>4. i_reap \in 1 .. N /\ ccount \in Int
    BY <1>1
  <2>5. sigchld \in BOOLEAN /\ handler \in BOOLEAN /\ failed \subseteq R!Children
    BY <1>1
  <2> QED
    BY <1>1, <2>1, <2>2, <2>3, <2>4, <2>5 DEF ReapTypes
<1>3. Reaped = {} /\ Zombies = {}
  BY <1>1 DEF Reaped, Zombies, R!InState, R!Children
<1>4. ChildrenInv
  BY <1>1, <1>3 DEF ChildrenInv, R!Children
<1>5. TurnsInv
  BY <1>1 DEF TurnsInv
<1>6. ReportsInv
  BY <1>1 DEF ReportsInv
<1>7. CountInv
  <2>1. Cardinality({}) = 0
    BY FS_EmptySet
  <2> QED
    BY <1>1, <1>3, <2>1 DEF CountInv, R!Counting
<1> QED
  BY <1>2, <1>4, <1>5, <1>6, <1>7 DEF ReapInv

\* There are finitely many children.
LEMMA FinitelyMany ==
    ASSUME ReapTypes
    PROVE  /\ IsFiniteSet(R!Children) /\ Cardinality(R!Children) = N
           /\ IsFiniteSet(Reaped) /\ IsFiniteSet(Zombies)
           /\ Cardinality(Reaped) \in Nat /\ Cardinality(Zombies) \in Nat
<1>1. IsFiniteSet(1 .. N) /\ Cardinality(1 .. N) = N
  BY ExampleConstants, FS_Interval
<1>2. Reaped \subseteq R!Children /\ Zombies \subseteq R!Children
  BY DEF Reaped, Zombies, R!InState
<1> QED
  BY <1>1, <1>2, FS_Subset, FS_CardinalityType DEF R!Children

\* A child that has just been forked, or none.
LEMMA ReapForks ==
    ASSUME ReapInv, R!fork \/ R!ForkFails
    PROVE  ReapInv'
<1> USE ExampleConstants
<1>1. PICK n \in 1 .. N : n = i_reap
  BY DEF ReapInv, ReapTypes
<1>2. /\ pc_reap = "fork" /\ ~handler
      /\ UNCHANGED <<option, sigchld, handler, ccount, reports>>
      /\ n < N => i_reap' = n + 1 /\ pc_reap' = "fork"
      /\ n = N => i_reap' = 1 /\ pc_reap' = R!Reaping
  BY <1>1 DEF R!fork, R!ForkFails, R!Step
<1>3. \/ failed' = failed /\ child_reap' = [child_reap EXCEPT ![n] = "running"]
      \/ failed' = failed \cup {n} /\ child_reap' = child_reap
  BY <1>1 DEF R!fork, R!ForkFails
<1>4. child_reap[n] = "none" /\ n \in R!Children
  BY <1>1, <1>2 DEF ReapInv, ChildrenInv, R!Children
<1>5. /\ child_reap' \in [R!Children -> {"none", "running", "zombie", "reaped"}]
      /\ \A c \in R!Children : c # n => child_reap'[c] = child_reap[c]
      /\ child_reap'[n] = "running" \/ (child_reap'[n] = "none" /\ n \in failed')
  BY <1>3, <1>4 DEF ReapInv, ReapTypes
<1>6. Reaped' = Reaped /\ Zombies' = Zombies
  BY <1>4, <1>5 DEF Reaped, Zombies, R!InState
<1>7. failed' \subseteq R!Children /\ failed \subseteq failed'
  BY <1>3, <1>4 DEF ReapInv, ReapTypes
<1>8. /\ R!Counting' = R!Counting
      /\ n = N => pc_reap' = IF R!Counting THEN "test" ELSE IF R!Killing THEN "kill" ELSE "reap"
  BY <1>2 DEF R!Counting, R!Reaping
<1>9. ReapTypes'
  BY <1>1, <1>2, <1>5, <1>7, <1>8 DEF ReapInv, ReapTypes
<1>10. ChildrenInv'
  <2>1. pc_reap' = "fork" => n < N /\ i_reap' = n + 1
    BY <1>1, <1>2, <1>8
  <2>2. pc_reap' = "fork" =>
          /\ \A c \in R!Children : c >= i_reap' => child_reap'[c] = "none"
          /\ \A c \in R!Children : c < i_reap' /\ child_reap'[c] = "none" => c \in failed'
    BY <1>1, <1>2, <1>5, <1>7, <2>1 DEF ReapInv, ChildrenInv, R!Children
  <2>3. pc_reap' # "fork" => \A c \in R!Children : child_reap'[c] = "none" => c \in failed'
    <3>1. pc_reap' # "fork" => n = N
      BY <1>1, <1>2
    <3> QED
      BY <1>1, <1>2, <1>5, <1>7, <3>1 DEF ReapInv, ChildrenInv, R!Children
  <2>4. handler' \/ pc_reap' \in {"test", "call", "pause"} => R!Counting'
    BY <1>1, <1>2, <1>8 DEF ReapInv, ChildrenInv
  <2>5. pc_reap' \in {"kill", "reap"} => ~R!Counting'
    BY <1>1, <1>2, <1>8
  <2>6. reports' = <<>>
    BY <1>2 DEF ReapInv, ChildrenInv
  <2>7. pc_reap' \in {"fork", "kill"} /\ ~R!Counting' => Reaped' = {}
    BY <1>2, <1>6, <1>8 DEF ReapInv, ChildrenInv
  <2> QED
    BY <2>2, <2>3, <2>4, <2>5, <2>6, <2>7 DEF ChildrenInv
<1>11. TurnsInv'
  <2>1. pc_reap' = "reap" => ~R!Counting /\ i_reap' = 1
    BY <1>1, <1>2, <1>8
  <2>2. pc_reap' = "reap" => Reaped' = {} /\ Len(reports') = 0
    BY <1>2, <1>6, <2>1 DEF ReapInv, ChildrenInv
  <2>3. Cardinality({}) = 0 /\ 1 .. 0 = {}
    BY FS_EmptySet
  <2>4. pc_reap' = "reap" => i_reap' - 1 = 0
    BY <2>1
  <2>5. pc_reap' = "reap" => /\ Len(reports') = i_reap' - 1
                             /\ Cardinality(Reaped') = i_reap' - 1
                             /\ Reaped' = 1 .. i_reap' - 1
    BY <2>2, <2>3, <2>4
  <2> QED
    BY <2>5 DEF TurnsInv
<1>12. ReportsInv'
  <2>1. reports' = <<>>
    BY <1>2 DEF ReapInv, ChildrenInv
  <2> QED
    BY <2>1 DEF ReportsInv
<1>13. CountInv'
  BY <1>2, <1>6, <1>8 DEF ReapInv, CountInv
<1> QED
  BY <1>9, <1>10, <1>11, <1>12, <1>13 DEF ReapInv

\* kill, the test before pause and the signal change no child.
LEMMA ReapWaits ==
    ASSUME ReapInv, R!kill \/ R!Test \/ R!Deliver
    PROVE  ReapInv'
<1> USE ExampleConstants
<1>1. /\ UNCHANGED <<option, child_reap, failed, ccount, reports>>
      /\ pc_reap' \in {"fork", "kill", "reap", "test", "call", "pause", "loop", "done"}
      /\ i_reap' \in 1 .. N /\ sigchld' \in BOOLEAN /\ handler' \in BOOLEAN
  <2>1. CASE R!kill
    <3>1. \/ pc_reap' = pc_reap /\ i_reap' = i_reap + 1 /\ i_reap < N
          \/ pc_reap' = "reap" /\ i_reap' = 1
      BY <2>1 DEF R!kill, R!Step
    <3>2. UNCHANGED <<option, child_reap, failed, ccount, reports, sigchld, handler>>
      BY <2>1 DEF R!kill
    <3> QED
      BY <3>1, <3>2 DEF ReapInv, ReapTypes
  <2>2. CASE R!Test
    <3>1. /\ UNCHANGED <<option, i_reap, child_reap, failed, ccount, reports, sigchld, handler>>
          /\ pc_reap' \in {"call", "done", "pause"}
      BY <2>2 DEF R!Test
    <3> QED
      BY <3>1 DEF ReapInv, ReapTypes
  <2>3. CASE R!Deliver
    <3>1. /\ UNCHANGED <<option, pc_reap, i_reap, child_reap, failed, ccount, reports>>
          /\ sigchld' = FALSE /\ handler' = TRUE
      BY <2>3 DEF R!Deliver
    <3> QED
      BY <3>1 DEF ReapInv, ReapTypes
  <2> QED
    BY <2>1, <2>2, <2>3
<1>2. Reaped' = Reaped /\ Zombies' = Zombies /\ R!Counting' = R!Counting
  BY <1>1 DEF Reaped, Zombies, R!InState, R!Counting
<1>3. \/ /\ R!kill /\ pc_reap = "kill" /\ UNCHANGED <<sigchld, handler>>
         /\ (pc_reap' = "kill" \/ (pc_reap' = "reap" /\ i_reap' = 1))
      \/ /\ R!Test /\ pc_reap \in {"test", "call"} /\ UNCHANGED <<i_reap, sigchld, handler>>
         /\ pc_reap' \in {"call", "done", "pause"}
      \/ /\ R!Deliver /\ R!Counting /\ sigchld /\ ~handler /\ sigchld' = FALSE /\ handler' = TRUE
         /\ UNCHANGED <<pc_reap, i_reap>>
  BY DEF R!kill, R!Test, R!Deliver, R!Step
<1>4. ReapTypes'
  BY <1>1 DEF ReapInv, ReapTypes
<1>5. ChildrenInv'
  BY <1>1, <1>2, <1>3 DEF ReapInv, ChildrenInv
<1>6. TurnsInv'
  <2>1. CASE R!kill
    <3>1. pc_reap' = "reap" => i_reap' = 1 /\ Reaped' = {} /\ Len(reports') = 0
      BY <1>1, <1>2, <1>3, <2>1 DEF ReapInv, ChildrenInv, R!kill
    <3>2. Cardinality({}) = 0 /\ 1 .. 0 = {}
      BY FS_EmptySet
    <3>3. pc_reap' = "reap" => i_reap' - 1 = 0
      BY <3>1
    <3>4. pc_reap' = "reap" => /\ Len(reports') = i_reap' - 1
                               /\ Cardinality(Reaped') = i_reap' - 1
                               /\ Reaped' = 1 .. i_reap' - 1
      BY <3>1, <3>2, <3>3
    <3> QED
      BY <3>4 DEF TurnsInv
  <2>2. CASE R!Test \/ R!Deliver
    <3>1. pc_reap' = "reap" => pc_reap = "reap" /\ i_reap' = i_reap
      BY <2>2 DEF R!Test, R!Deliver
    <3> QED
      BY <1>1, <1>2, <3>1 DEF ReapInv, TurnsInv
  <2> QED
    BY <2>1, <2>2, <1>3
<1>7. ReportsInv'
  BY <1>1, <1>2 DEF ReapInv, ReportsInv, AsEnded, R!Status
<1>8. CountInv'
  <2>1. R!Counting' => ccount' = N - Cardinality(Reaped')
    BY <1>1, <1>2 DEF ReapInv, CountInv
  <2>2. (IF sigchld' THEN 1 ELSE 0) + (IF handler' THEN 1 ELSE 0)
          = (IF sigchld THEN 1 ELSE 0) + (IF handler THEN 1 ELSE 0)
    BY <1>3
  <2> QED
    BY <1>1, <1>2, <2>1, <2>2 DEF ReapInv, CountInv
<1> QED
  BY <1>4, <1>5, <1>6, <1>7, <1>8 DEF ReapInv

\* What Append does to the sequence of reports.
LEMMA ReportAdded ==
    ASSUME NEW s, NEW w, NEW v, Len(s) \in Nat,
           s = [m \in 1 .. Len(s) |-> [wpid |-> s[m].wpid, status |-> s[m].status]],
           NEW t, t = Append(s, [wpid |-> w, status |-> v])
    PROVE  /\ Len(t) = Len(s) + 1
           /\ t[Len(s) + 1].wpid = w /\ t[Len(s) + 1].status = v
           /\ \A m \in 1 .. Len(s) : t[m] = s[m]
           /\ t = [m \in 1 .. Len(t) |-> [wpid |-> t[m].wpid, status |-> t[m].status]]
<1> DEFINE r == [wpid |-> w, status |-> v]
           Recs == {s[m] : m \in 1 .. Len(s)} \cup {r}
<1>1. PICK n \in Nat : n = Len(s)
  OBVIOUS
<1>2. s \in [1 .. n -> Recs]
  BY <1>1
<1>3. s \in Seq(Recs) /\ r \in Recs
  BY <1>1, <1>2, SeqDef
<1>4. /\ t \in Seq(Recs) /\ Len(t) = n + 1 /\ t[n + 1] = r
      /\ \A m \in 1 .. n : t[m] = s[m]
  BY <1>1, <1>3, AppendProperties
<1>5. DOMAIN t = 1 .. n + 1 /\ t = [m \in 1 .. n + 1 |-> t[m]]
  <2>1. t \in [1 .. Len(t) -> Recs]
    BY <1>4, LenProperties
  <2> QED
    BY <1>4, <2>1
<1>6. \A m \in 1 .. n : s[m] = [wpid |-> s[m].wpid, status |-> s[m].status]
  BY <1>1
<1>7. \A m \in 1 .. n + 1 : t[m] = [wpid |-> t[m].wpid, status |-> t[m].status]
  <2>1. ASSUME NEW m \in 1 .. n + 1
        PROVE  t[m] = [wpid |-> t[m].wpid, status |-> t[m].status]
    <3>1. CASE m \in 1 .. n
      BY <3>1, <1>4, <1>6
    <3>2. CASE m = n + 1
      BY <3>2, <1>4
    <3>3. m \in 1 .. n \/ m = n + 1
      OBVIOUS
    <3> QED
      BY <3>1, <3>2, <3>3
  <2> QED
    BY <2>1
<1>8. t = [m \in 1 .. n + 1 |-> [wpid |-> t[m].wpid, status |-> t[m].status]]
  BY <1>5, <1>7
<1> QED
  BY <1>1, <1>4, <1>8

\* wait takes a zombie and reports it.
LEMMA ReapReaps ==
    ASSUME ReapInv, R!wait
    PROVE  ReapInv'
<1> USE ExampleConstants
<1>1. PICK n \in 1 .. N : n = i_reap
  BY DEF ReapInv, ReapTypes
<1>2. PICK c \in R!Children :
        /\ c \in R!WaitsFor /\ child_reap[c] = "zombie"
        /\ child_reap' = [child_reap EXCEPT ![c] = "reaped"]
        /\ reports' = Append(reports, [wpid |-> c, status |-> R!Status(c)])
  BY DEF R!wait, R!InState
<1>3. /\ pc_reap = "reap" /\ UNCHANGED <<option, failed, sigchld, handler, ccount>>
      /\ n < N => pc_reap' = "reap" /\ i_reap' = n + 1
      /\ n = N => pc_reap' \in {"loop", "done"} /\ i_reap' = 1
  BY <1>1 DEF R!wait, R!Step
<1>4. ~R!Counting /\ R!Counting' = R!Counting
  BY <1>3 DEF ReapInv, ChildrenInv, R!Counting
<1>5. /\ child_reap' \in [R!Children -> {"none", "running", "zombie", "reaped"}]
      /\ child_reap'[c] = "reaped"
      /\ \A d \in R!Children : d # c => child_reap'[d] = child_reap[d]
  BY <1>2 DEF ReapInv, ReapTypes
<1>6. Reaped' = Reaped \cup {c} /\ c \notin Reaped
  BY <1>2, <1>5 DEF Reaped, R!InState
<1>7. Cardinality(Reaped') = Cardinality(Reaped) + 1 /\ Cardinality(Reaped) \in Nat
  BY <1>6, FinitelyMany, FS_AddElement DEF ReapInv
<1>8. PICK l \in Nat : l = Len(reports) /\ l = n - 1
  BY <1>1, <1>3 DEF ReapInv, ReapTypes, TurnsInv
<1>9. /\ Len(reports') = l + 1
      /\ reports'[l + 1].wpid = c /\ reports'[l + 1].status = R!Status(c)
      /\ \A m \in 1 .. l : reports'[m] = reports[m]
      /\ reports' = [m \in 1 .. Len(reports') |->
                       [wpid |-> reports'[m].wpid, status |-> reports'[m].status]]
  <2>1. PICK s, t, v : s = reports /\ t = reports' /\ v = R!Status(c)
    OBVIOUS
  <2>2. Len(s) \in Nat /\ s = [m \in 1 .. Len(s) |-> [wpid |-> s[m].wpid, status |-> s[m].status]]
    BY <2>1 DEF ReapInv, ReapTypes
  <2>3. t = Append(s, [wpid |-> c, status |-> v])
    BY <1>2, <2>1
  <2>4. /\ Len(t) = Len(s) + 1
        /\ t[Len(s) + 1].wpid = c /\ t[Len(s) + 1].status = v
        /\ \A m \in 1 .. Len(s) : t[m] = s[m]
        /\ t = [m \in 1 .. Len(t) |-> [wpid |-> t[m].wpid, status |-> t[m].status]]
    BY <2>2, <2>3, ReportAdded
  <2> QED
    BY <1>8, <2>1, <2>4
<1>10. option = 11 /\ failed = {} => c = n
  BY <1>1, <1>2 DEF R!WaitsFor
<1>11. ReapTypes'
  BY <1>1, <1>3, <1>5, <1>8, <1>9 DEF ReapInv, ReapTypes
<1>12. ChildrenInv'
  <2>1. \A d \in R!Children : child_reap'[d] = "none" => child_reap[d] = "none"
    BY <1>5
  <2> QED
    BY <1>1, <1>3, <1>4, <2>1 DEF ReapInv, ChildrenInv
<1>13. TurnsInv'
  <2>1. CASE n < N
    <3>1. Len(reports') = i_reap' - 1
      BY <2>1, <1>3, <1>8, <1>9
    <3>2. failed' = {} => Cardinality(Reaped') = i_reap' - 1
      BY <2>1, <1>1, <1>3, <1>7 DEF ReapInv, TurnsInv
    <3>3. failed' = {} /\ option' = 11 => Reaped' = 1 .. i_reap' - 1
      <4>1. failed' = {} /\ option' = 11 => Reaped = 1 .. n - 1 /\ c = n
        BY <1>1, <1>3, <1>10 DEF ReapInv, TurnsInv
      <4>2. (1 .. n - 1) \cup {n} = 1 .. n /\ i_reap' - 1 = n
        BY <2>1, <1>3
      <4> QED
        BY <4>1, <4>2, <1>6
    <3> QED
      BY <3>1, <3>2, <3>3 DEF TurnsInv
  <2>2. CASE n = N
    BY <2>2, <1>3 DEF TurnsInv
  <2> QED
    BY <2>1, <2>2
<1>14. ReportsInv'
  <2>1. c # -1 /\ c \in Reaped'
    BY <1>6 DEF R!Children
  <2>2. AsEnded(l + 1)' /\ \A m \in 1 .. l : AsEnded(m) => AsEnded(m)'
    <3>1. reports'[l + 1].wpid = c /\ reports'[l + 1].status = R!Status(c)
      BY <1>9
    <3>2. AsEnded(l + 1)'
      BY <3>1, <1>3 DEF AsEnded, R!Status
    <3>3. ASSUME NEW m \in 1 .. l, AsEnded(m)
          PROVE  AsEnded(m)'
      <4>1. reports'[m] = reports[m]
        BY <1>9
      <4> QED
        BY <3>3, <4>1, <1>3 DEF AsEnded, R!Status
    <3> QED
      BY <3>2, <3>3
  <2>3. \A m \in 1 .. l :
          /\ reports[m].wpid = -1 => failed # {}
          /\ reports[m].wpid # -1 => reports[m].wpid \in Reaped /\ AsEnded(m)
          /\ option = 11 /\ failed = {} => reports[m].wpid = m
          /\ \A k \in 1 .. l : m # k /\ reports[m].wpid # -1 => reports[m].wpid # reports[k].wpid
    BY <1>8 DEF ReapInv, ReportsInv
  <2>4. ASSUME NEW m \in 1 .. l + 1
        PROVE  /\ reports'[m].wpid = -1 => failed' # {}
               /\ reports'[m].wpid # -1 => reports'[m].wpid \in Reaped' /\ AsEnded(m)'
               /\ option' = 11 /\ failed' = {} => reports'[m].wpid = m
               /\ \A k \in 1 .. l + 1 :
                    m # k /\ reports'[m].wpid # -1 => reports'[m].wpid # reports'[k].wpid
    <3>1. CASE m \in 1 .. l
      <4>1. reports'[m] = reports[m]
        BY <3>1, <1>9
      <4>2. reports[m].wpid # -1 => reports[m].wpid \in R!Children /\ reports[m].wpid # c
        BY <3>1, <2>3, <1>6 DEF Reaped, R!InState
      <4>3. reports'[m].wpid # -1 => reports'[m].wpid \in Reaped' /\ AsEnded(m)'
        BY <3>1, <4>1, <4>2, <2>2, <2>3, <1>6
      <4>4. \A k \in 1 .. l + 1 :
              m # k /\ reports'[m].wpid # -1 => reports'[m].wpid # reports'[k].wpid
        <5>1. ASSUME NEW k \in 1 .. l + 1, m # k, reports'[m].wpid # -1
              PROVE  reports'[m].wpid # reports'[k].wpid
          <6>1. CASE k \in 1 .. l
            BY <5>1, <6>1, <3>1, <2>3, <1>9
          <6>2. CASE k = l + 1
            BY <5>1, <6>2, <4>1, <4>2, <1>9
          <6> QED
            BY <6>1, <6>2
        <5> QED
          BY <5>1
      <4> QED
        BY <3>1, <4>1, <4>3, <4>4, <2>3, <1>3
    <3>2. CASE m = l + 1
      <4>1. reports'[m].wpid = c /\ AsEnded(m)'
        BY <3>2, <1>9, <2>2
      <4>2. \A k \in 1 .. l : reports'[k].wpid # c
        <5>1. ASSUME NEW k \in 1 .. l
              PROVE  reports'[k].wpid # c
          <6>1. reports'[k] = reports[k] /\ (reports[k].wpid = -1 \/ reports[k].wpid \in Reaped)
            BY <1>9, <2>3
          <6> QED
            BY <6>1, <1>6, <2>1
        <5> QED
          BY <5>1
      <4>3. \A k \in 1 .. l + 1 : m # k => k \in 1 .. l
        BY <3>2
      <4>4. option' = 11 /\ failed' = {} => c = m
        BY <3>2, <1>3, <1>8, <1>10
      <4> QED
        BY <4>1, <4>2, <4>3, <4>4, <2>1, <2>2
    <3> QED
      BY <3>1, <3>2
  <2>5. Len(reports') = l + 1
    BY <1>9
  <2> QED
    BY <2>4, <2>5 DEF ReportsInv
<1>15. CountInv'
  BY <1>3, <1>4 DEF CountInv, R!Counting
<1> QED
  BY <1>11, <1>12, <1>13, <1>14, <1>15 DEF ReapInv

\* wait fails only if a fork has failed: otherwise there is a child left.
LEMMA ReapFails ==
    ASSUME ReapInv, R!WaitFails
    PROVE  ReapInv'
<1> USE ExampleConstants
<1>1. PICK n \in 1 .. N : n = i_reap
  BY DEF ReapInv, ReapTypes
<1>2. /\ pc_reap = "reap" /\ R!WaitsFor \cap R!Unreaped = {}
      /\ reports' = Append(reports, [wpid |-> -1, status |-> {}])
      /\ UNCHANGED <<option, child_reap, failed, sigchld, handler, ccount>>
      /\ n < N => pc_reap' = "reap" /\ i_reap' = n + 1
      /\ n = N => pc_reap' \in {"loop", "done"} /\ i_reap' = 1
  BY <1>1 DEF R!WaitFails, R!Step
<1>3. ~R!Counting /\ R!Counting' = R!Counting
  BY <1>2 DEF ReapInv, ChildrenInv, R!Counting
<1>4. failed # {}
  <2>1. ASSUME failed = {}
        PROVE  FALSE
    <3>1. \A c \in R!WaitsFor : c \in R!Children => c \in Reaped
      BY <1>2, <2>1 DEF ReapInv, ReapTypes, ChildrenInv, R!Unreaped, R!InState, Reaped
    <3>2. CASE option = 11
      <4>1. n \in Reaped
        BY <1>1, <2>1, <3>1, <3>2 DEF R!WaitsFor, R!Children
      <4>2. Reaped = 1 .. n - 1
        BY <1>1, <1>2, <2>1, <3>2 DEF ReapInv, TurnsInv
      <4> QED
        BY <4>1, <4>2
    <3>3. CASE option # 11
      <4>1. Reaped = R!Children
        BY <3>1, <3>3 DEF R!WaitsFor, Reaped, R!InState
      <4>2. Cardinality(Reaped) = n - 1
        BY <1>1, <1>2, <2>1 DEF ReapInv, TurnsInv
      <4>3. Cardinality(R!Children) = N
        BY FinitelyMany DEF ReapInv
      <4> QED
        BY <4>1, <4>2, <4>3
    <3> QED
      BY <3>2, <3>3
  <2> QED
    BY <2>1
<1>5. Reaped' = Reaped
  BY <1>2 DEF Reaped, R!InState
<1>6. PICK l \in Nat : l = Len(reports) /\ l = n - 1
  BY <1>1, <1>2 DEF ReapInv, ReapTypes, TurnsInv
<1>7. /\ Len(reports') = l + 1
      /\ reports'[l + 1].wpid = -1
      /\ \A m \in 1 .. l : reports'[m] = reports[m]
      /\ reports' = [m \in 1 .. Len(reports') |->
                       [wpid |-> reports'[m].wpid, status |-> reports'[m].status]]
  <2>1. PICK s, t, w, v : s = reports /\ t = reports' /\ w = -1 /\ v = {}
    OBVIOUS
  <2>2. Len(s) \in Nat /\ s = [m \in 1 .. Len(s) |-> [wpid |-> s[m].wpid, status |-> s[m].status]]
    BY <2>1 DEF ReapInv, ReapTypes
  <2>3. t = Append(s, [wpid |-> w, status |-> v])
    BY <1>2, <2>1
  <2>4. /\ Len(t) = Len(s) + 1
        /\ t[Len(s) + 1].wpid = w
        /\ \A m \in 1 .. Len(s) : t[m] = s[m]
        /\ t = [m \in 1 .. Len(t) |-> [wpid |-> t[m].wpid, status |-> t[m].status]]
    BY <2>2, <2>3, ReportAdded
  <2> QED
    BY <1>6, <2>1, <2>4
<1>8. ReapTypes'
  BY <1>1, <1>2, <1>6, <1>7 DEF ReapInv, ReapTypes
<1>9. ChildrenInv'
  BY <1>1, <1>2, <1>3 DEF ReapInv, ChildrenInv
<1>10. TurnsInv'
  <2>1. CASE n < N
    <3>1. Len(reports') = i_reap' - 1
      BY <2>1, <1>2, <1>6, <1>7
    <3> QED
      BY <3>1, <1>2, <1>4 DEF TurnsInv
  <2>2. CASE n = N
    BY <2>2, <1>2 DEF TurnsInv
  <2> QED
    BY <2>1, <2>2
<1>11. ReportsInv'
  <2>1. \A m \in 1 .. l :
          /\ reports[m].wpid # -1 => reports[m].wpid \in Reaped /\ AsEnded(m)
          /\ \A k \in 1 .. l : m # k /\ reports[m].wpid # -1 => reports[m].wpid # reports[k].wpid
    BY <1>6 DEF ReapInv, ReportsInv
  <2>2. \A m \in 1 .. l + 1 : m \in 1 .. l \/ m = l + 1
    OBVIOUS
  <2>3. \A m \in 1 .. l : AsEnded(m) => AsEnded(m)'
    <3>1. ASSUME NEW m \in 1 .. l, AsEnded(m)
          PROVE  AsEnded(m)'
      <4>1. reports'[m] = reports[m]
        BY <1>7
      <4> QED
        BY <3>1, <4>1, <1>2 DEF AsEnded, R!Status
    <3> QED
      BY <3>1
  <2>4. \A m \in 1 .. l + 1 :
          reports'[m].wpid # -1 => reports'[m].wpid \in Reaped' /\ AsEnded(m)'
    BY <1>5, <1>7, <2>1, <2>2, <2>3
  <2>5. \A m, k \in 1 .. l + 1 :
          m # k /\ reports'[m].wpid # -1 => reports'[m].wpid # reports'[k].wpid
    BY <1>7, <2>1, <2>2
  <2>6. Len(reports') = l + 1 /\ failed' # {}
    BY <1>2, <1>4, <1>7
  <2> QED
    BY <2>4, <2>5, <2>6 DEF ReportsInv
<1>12. CountInv'
  BY <1>2, <1>3 DEF CountInv, R!Counting
<1> QED
  BY <1>8, <1>9, <1>10, <1>11, <1>12 DEF ReapInv

\* The handlers count each child that they reap, and fork14's always finds one.
LEMMA ReapHandles ==
    ASSUME ReapInv, R!child_handler \/ R!HandlerNoChild
    PROVE  ReapInv'
<1> USE ExampleConstants
<1>1. /\ handler /\ UNCHANGED <<option, i_reap, failed, sigchld, reports>>
      /\ \/ handler' = FALSE /\ pc_reap' = IF pc_reap = "pause" THEN "test" ELSE pc_reap
         \/ handler' = handler /\ pc_reap' = pc_reap
  BY DEF R!child_handler, R!HandlerNoChild, R!Return
<1>2. R!Counting /\ R!Counting' = R!Counting /\ reports = <<>> /\ pc_reap \notin {"kill", "reap"}
  BY <1>1 DEF ReapInv, ChildrenInv, R!Counting
<1>3. handler' = FALSE \/ handler' = handler
  BY <1>1
<1>4. /\ child_reap' \in [R!Children -> {"none", "running", "zombie", "reaped"}]
      /\ \A c \in R!Children : child_reap'[c] = "none" <=> child_reap[c] = "none"
      /\ ccount' \in Int /\ ccount' = N - Cardinality(Reaped')
      /\ option = 14 => /\ handler' = FALSE
                        /\ Cardinality(Zombies') = Cardinality(Zombies) - 1
  <2>1. CASE R!child_handler
    <3>1. PICK c \in R!Children :
            child_reap[c] = "zombie" /\ child_reap' = [child_reap EXCEPT ![c] = "reaped"]
      BY <2>1 DEF R!child_handler, R!InState
    <3>2. ccount' = ccount - 1 /\ (option = 14 => handler' = FALSE)
      BY <2>1 DEF R!child_handler, R!Return
    <3>3. /\ child_reap' \in [R!Children -> {"none", "running", "zombie", "reaped"}]
          /\ child_reap'[c] = "reaped"
          /\ \A d \in R!Children : d # c => child_reap'[d] = child_reap[d]
      BY <3>1 DEF ReapInv, ReapTypes
    <3>4. /\ Reaped' = Reaped \cup {c} /\ c \notin Reaped
          /\ Zombies' = Zombies \ {c} /\ c \in Zombies
      BY <3>1, <3>3 DEF Reaped, Zombies, R!InState
    <3>5. /\ Cardinality(Reaped') = Cardinality(Reaped) + 1
          /\ Cardinality(Zombies') = Cardinality(Zombies) - 1
          /\ Cardinality(Reaped) \in Nat
      BY <3>4, FinitelyMany, FS_AddElement, FS_RemoveElement DEF ReapInv
    <3>6. ccount = N - Cardinality(Reaped)
      BY <1>2 DEF ReapInv, CountInv
    <3>7. ccount' \in Int /\ ccount' = N - Cardinality(Reaped')
      BY <3>2, <3>5, <3>6
    <3> QED
      BY <3>1, <3>2, <3>3, <3>5, <3>7
  <2>2. CASE R!HandlerNoChild
    <3>1. option # 14
      <4>1. ASSUME option = 14
            PROVE  FALSE
        <5>1. Zombies = {}
          BY <2>2 DEF R!HandlerNoChild, R!Unreaped, Zombies
        <5>2. Cardinality(Zombies) = 0
          BY <5>1, FS_EmptySet
        <5>3. Cardinality(Zombies) >= (IF sigchld THEN 1 ELSE 0) + 1
          BY <1>1, <4>1 DEF ReapInv, CountInv
        <5> QED
          BY <5>2, <5>3
      <4> QED
        BY <4>1
    <3>2. ccount' = ccount /\ child_reap' = child_reap
      BY <2>2, <3>1 DEF R!HandlerNoChild
    <3>3. Reaped' = Reaped
      BY <3>2 DEF Reaped, R!InState
    <3>4. ccount = N - Cardinality(Reaped)
      BY <1>2 DEF ReapInv, CountInv
    <3> QED
      BY <3>1, <3>2, <3>3, <3>4 DEF ReapInv, ReapTypes
  <2> QED
    BY <2>1, <2>2
<1>5. ReapTypes'
  <2>1. handler' \in BOOLEAN
    BY <1>3 DEF ReapInv, ReapTypes
  <2>2. pc_reap' \in {"fork", "kill", "reap", "test", "call", "pause", "loop", "done"}
    BY <1>1 DEF ReapInv, ReapTypes
  <2>3. Len(reports') \in Nat /\ reports' = [m \in 1 .. Len(reports') |->
          [wpid |-> reports'[m].wpid, status |-> reports'[m].status]]
    BY <1>1 DEF ReapInv, ReapTypes
  <2> QED
    BY <1>1, <1>4, <2>1, <2>2, <2>3 DEF ReapInv, ReapTypes
<1>6. ChildrenInv'
  <2>1. pc_reap' \notin {"kill", "reap"} /\ (pc_reap' = "fork" <=> pc_reap = "fork")
    BY <1>1, <1>2
  <2> QED
    BY <1>1, <1>2, <1>4, <2>1 DEF ReapInv, ChildrenInv
<1>7. TurnsInv'
  BY <1>1, <1>2 DEF TurnsInv
<1>8. ReportsInv'
  BY <1>1, <1>2 DEF ReportsInv
<1>9. CountInv'
  <2>1. ASSUME option' = 14
        PROVE  Cardinality(Zombies') >= (IF sigchld' THEN 1 ELSE 0) + (IF handler' THEN 1 ELSE 0)
    <3>1. Cardinality(Zombies) >= (IF sigchld THEN 1 ELSE 0) + 1 /\ Cardinality(Zombies) \in Nat
      BY <1>1, <2>1, FinitelyMany DEF ReapInv, CountInv
    <3>2. /\ (IF handler' THEN 1 ELSE 0) = 0
          /\ (IF sigchld' THEN 1 ELSE 0) = (IF sigchld THEN 1 ELSE 0)
          /\ Cardinality(Zombies') = Cardinality(Zombies) - 1
      BY <1>1, <1>4, <2>1
    <3>3. (IF sigchld THEN 1 ELSE 0) \in {0, 1}
      OBVIOUS
    <3> QED
      BY <3>1, <3>2, <3>3
  <2> QED
    BY <1>4, <2>1 DEF CountInv
<1> QED
  BY <1>5, <1>6, <1>7, <1>8, <1>9 DEF ReapInv

\* A child ends: a zombie for the signal that it sends.
LEMMA ReapChild ==
    ASSUME ReapInv, NEW c \in R!Children, R!Child(c)
    PROVE  ReapInv'
<1> USE ExampleConstants
<1>1. /\ child_reap[c] = "running" /\ child_reap' = [child_reap EXCEPT ![c] = "zombie"]
      /\ sigchld' = TRUE /\ UNCHANGED <<option, pc_reap, i_reap, failed, handler, ccount, reports>>
  BY DEF R!Child
<1>2. /\ child_reap' \in [R!Children -> {"none", "running", "zombie", "reaped"}]
      /\ child_reap'[c] = "zombie"
      /\ \A d \in R!Children : d # c => child_reap'[d] = child_reap[d]
  BY <1>1 DEF ReapInv, ReapTypes
<1>3. /\ Reaped' = Reaped /\ R!Counting' = R!Counting
      /\ Zombies' = Zombies \cup {c} /\ c \notin Zombies
  BY <1>1, <1>2 DEF Reaped, Zombies, R!InState, R!Counting
<1>4. ReapTypes'
  BY <1>1, <1>2 DEF ReapInv, ReapTypes
<1>5. ChildrenInv'
  <2>1. \A d \in R!Children : child_reap'[d] = "none" <=> child_reap[d] = "none"
    BY <1>1, <1>2
  <2> QED
    BY <1>1, <1>3, <2>1 DEF ReapInv, ChildrenInv
<1>6. TurnsInv'
  BY <1>1, <1>3 DEF ReapInv, TurnsInv
<1>7. ReportsInv'
  BY <1>1, <1>3 DEF ReapInv, ReportsInv, AsEnded, R!Status
<1>8. CountInv'
  <2>1. Cardinality(Zombies') = Cardinality(Zombies) + 1 /\ Cardinality(Zombies) \in Nat
    BY <1>3, FinitelyMany, FS_AddElement DEF ReapInv
  <2>2. (IF sigchld' THEN 1 ELSE 0) = 1 /\ (IF sigchld THEN 1 ELSE 0) \in {0, 1}
    BY <1>1
  <2>3. /\ (IF handler' THEN 1 ELSE 0) = (IF handler THEN 1 ELSE 0)
        /\ (IF handler THEN 1 ELSE 0) \in {0, 1}
    BY <1>1
  <2>4. option' = 14 =>
          Cardinality(Zombies) >= (IF sigchld THEN 1 ELSE 0) + (IF handler THEN 1 ELSE 0)
    BY <1>1 DEF ReapInv, CountInv
  <2>5. option' = 14 =>
          Cardinality(Zombies') >= (IF sigchld' THEN 1 ELSE 0) + (IF handler' THEN 1 ELSE 0)
    BY <2>1, <2>2, <2>3, <2>4
  <2>6. R!Counting' => ccount' = N - Cardinality(Reaped')
    BY <1>1, <1>3 DEF ReapInv, CountInv
  <2> QED
    BY <2>5, <2>6 DEF CountInv
<1> QED
  BY <1>4, <1>5, <1>6, <1>7, <1>8 DEF ReapInv

-----------------------------------------------------------------------------
(* pipe1.c to pipe3.c *)

\* Sequences that are cut and grow, named for the provers.
SameWhole(s, t, n) == (s \o SubSeq(t, 1, n)) \o SubSeq(t, n + 1, Len(t)) = s \o t
NotIn(e, w) == \A m \in 1 .. Len(w) : w[m] # e
GrowsAtBack(o, p, e) == Append(o \o p, e) = o \o Append(p, e)
AllDifferent(w) == \A m, n \in 1 .. Len(w) : w[m] = w[n] => m = n
NewOrIn(v, w, e) == \A m \in 1 .. Len(v) : v[m] = e \/ \E n \in 1 .. Len(w) : v[m] = w[n]

\* A read keeps the whole of what was read and what is in the pipe.
LEMMA FrontMoves ==
    ASSUME NEW Vals, NEW s \in Seq(Vals), NEW t \in Seq(Vals), NEW n \in 0 .. Len(t)
    PROVE  /\ s \o SubSeq(t, 1, n) \in Seq(Vals) /\ SubSeq(t, n + 1, Len(t)) \in Seq(Vals)
           /\ SameWhole(s, t, n)
<1>1. Len(t) \in Nat /\ Len(s) \in Nat
  BY LenProperties
<1>2. /\ SubSeq(t, 1, n) \in Seq(Vals) /\ Len(SubSeq(t, 1, n)) = n
      /\ \A x \in 1 .. n : SubSeq(t, 1, n)[x] = t[x]
  BY <1>1
<1>3. /\ SubSeq(t, n + 1, Len(t)) \in Seq(Vals) /\ Len(SubSeq(t, n + 1, Len(t))) = Len(t) - n
      /\ \A x \in 1 .. Len(t) - n : SubSeq(t, n + 1, Len(t))[x] = t[n + x]
  BY <1>1
<1>4. PICK u \in Seq(Vals), v \in Seq(Vals) : u = SubSeq(t, 1, n) /\ v = SubSeq(t, n + 1, Len(t))
  BY <1>2, <1>3
<1>5. u \o v = t
  <2>1. PICK l \in Nat : l = Len(t) /\ n <= l /\ n \in Nat
    BY <1>1
  <2>2. Len(u) = n /\ Len(v) = l - n
    BY <1>2, <1>3, <1>4, <2>1
  <2>3. /\ u \o v \in Seq(Vals) /\ Len(u \o v) = Len(u) + Len(v)
        /\ \A x \in 1 .. Len(u) + Len(v) :
             (u \o v)[x] = IF x <= Len(u) THEN u[x] ELSE v[x - Len(u)]
    BY ConcatProperties
  <2>4. PICK w : w = u \o v
    OBVIOUS
  <2>5. /\ w \in Seq(Vals) /\ Len(w) = l
        /\ \A x \in 1 .. l : w[x] = IF x <= n THEN u[x] ELSE v[x - n]
    <3>1. /\ w \in Seq(Vals) /\ Len(w) = Len(u) + Len(v)
          /\ \A x \in 1 .. Len(u) + Len(v) : w[x] = IF x <= Len(u) THEN u[x] ELSE v[x - Len(u)]
      BY <2>3, <2>4, Zenon
    <3>2. n + (l - n) = l
      BY <2>1
    <3>3. /\ Len(w) = n + (l - n)
          /\ \A x \in 1 .. n + (l - n) : w[x] = IF x <= n THEN u[x] ELSE v[x - n]
      BY <3>1, <2>2, Zenon
    <3> QED
      BY <3>1, <3>2, <3>3, Zenon
  <2>6. ASSUME NEW x \in 1 .. l
        PROVE  w[x] = t[x]
    <3>1. CASE x <= n
      BY <3>1, <1>2, <1>4, <2>1, <2>5
    <3>2. CASE x > n
      <4>1. x - n \in 1 .. l - n /\ n + (x - n) = x /\ ~(x <= n)
        BY <3>2, <2>1
      <4>2. v[x - n] = t[x]
        BY <4>1, <1>3, <1>4, <2>1
      <4> QED
        BY <4>1, <4>2, <2>5
    <3> QED
      BY <3>1, <3>2, <2>1
  <2>7. w = t
    BY <2>1, <2>5, <2>6, SeqEqual
  <2> QED
    BY <2>4, <2>7
<1>6. (s \o u) \o v = s \o (u \o v) /\ s \o u \in Seq(Vals)
  BY ConcatAssociative, ConcatProperties
<1>7. (s \o u) \o v = s \o t
  BY <1>5, <1>6, Zenon
<1>8. (s \o SubSeq(t, 1, n)) \o SubSeq(t, n + 1, Len(t)) = s \o t
  BY <1>4, <1>7, Zenon
<1>9. SameWhole(s, t, n)
  BY <1>8 DEF SameWhole
<1>10. s \o SubSeq(t, 1, n) \in Seq(Vals)
  BY <1>4, <1>6, Zenon
<1> QED
  BY <1>3, <1>9, <1>10, Zenon

\* A write puts a number behind both.
LEMMA BackMoves ==
    ASSUME NEW Vals, NEW o \in Seq(Vals), NEW p \in Seq(Vals), NEW e \in Vals
    PROVE  Append(p, e) \in Seq(Vals) /\ GrowsAtBack(o, p, e)
<1>1. Append(p, e) = p \o <<e>> /\ Append(p, e) \in Seq(Vals)
  BY AppendIsConcat, AppendProperties
<1>2. o \o p \in Seq(Vals)
  BY ConcatProperties
<1>3. Append(o \o p, e) = (o \o p) \o <<e>>
  BY <1>2, AppendIsConcat
<1>4. <<e>> \in Seq(Vals)
  OBVIOUS
<1>5. (o \o p) \o <<e>> = o \o (p \o <<e>>)
  BY <1>4, ConcatAssociative
<1>6. GrowsAtBack(o, p, e)
  BY <1>1, <1>3, <1>5, Zenon DEF GrowsAtBack
<1> QED
  BY <1>1, <1>6

\* A number that is new keeps them all different.
LEMMA BackGrows ==
    ASSUME NEW Vals, NEW w \in Seq(Vals), NEW e \in Vals, NotIn(e, w), AllDifferent(w)
    PROVE  /\ Append(w, e) \in Seq(Vals) /\ AllDifferent(Append(w, e))
           /\ NewOrIn(Append(w, e), w, e)
<1>1. /\ Append(w, e) \in Seq(Vals)
      /\ Len(Append(w, e)) = Len(w) + 1 /\ Append(w, e)[Len(w) + 1] = e
      /\ \A m \in 1 .. Len(w) : Append(w, e)[m] = w[m]
  BY AppendProperties
<1>2. Len(w) \in Nat /\ \A m \in 1 .. Len(w) + 1 : m \in 1 .. Len(w) \/ m = Len(w) + 1
  BY LenProperties
<1>3. PICK l, v : l = Len(w) /\ v = Append(w, e)
  OBVIOUS
<1>4. Len(v) = l + 1
  BY <1>1, <1>3, Zenon
<1>5. v[l + 1] = e /\ \A m \in 1 .. l : v[m] = w[m]
  <2>1. v[l + 1] = e
    BY <1>1, <1>3, Zenon
  <2>2. \A m \in 1 .. l : v[m] = w[m]
    BY <1>1, <1>3, Zenon
  <2> QED
    BY <2>1, <2>2
<1>6. AllDifferent(v)
  <2>1. \A m, n \in 1 .. l + 1 : v[m] = v[n] => m = n
    BY <1>2, <1>3, <1>5 DEF NotIn, AllDifferent
  <2> QED
    BY <1>4, <2>1, Zenon DEF AllDifferent
<1>7. NewOrIn(v, w, e)
  <2>1. \A m \in 1 .. l + 1 : v[m] = e \/ \E n \in 1 .. Len(w) : v[m] = w[n]
    BY <1>2, <1>3, <1>5
  <2> QED
    BY <1>4, <2>1, Zenon DEF NewOrIn
<1> QED
  BY <1>1, <1>3, <1>6, <1>7, Zenon

\* The first state of the three programs.
LEMMA PipeStart == P!Init => PipeInv
<1> SUFFICES ASSUME P!Init
             PROVE  PipeInv
  OBVIOUS
<1> USE ExampleConstants
<1>1. /\ prog_pipe \in 1 .. 3 /\ i_pipe = 1
      /\ pc_pipe = [p \in P!Procs |-> IF p = 0 THEN "fork" ELSE "none"]
      /\ pipe = <<>> /\ wrote = <<>> /\ out = <<>>
  BY DEF P!Init
<1>2. /\ pc_pipe \in [P!Procs -> PipePlaces]
      /\ pc_pipe[0] = "fork" /\ \A p \in 1 .. K : pc_pipe[p] = "none"
  BY <1>1 DEF P!Procs, PipePlaces
<1>3. /\ pipe \in Seq(1 .. K) /\ wrote \in Seq(1 .. K) /\ out \in Seq(1 .. K)
      /\ Len(wrote) = 0 /\ out \o pipe = <<>> /\ DOMAIN wrote = {}
  BY <1>1, EmptySeq, ConcatEmptySeq
<1>4. PipeTypes
  BY <1>1, <1>2, <1>3 DEF PipeTypes
<1>5. WritersInv
  BY <1>1, <1>2, <1>3 DEF WritersInv
<1>6. P!PipeIsFIFO
  BY <1>1, <1>3 DEF P!PipeIsFIFO, P!IsInjective
<1> QED
  BY <1>4, <1>5, <1>6 DEF PipeInv

\* fork, whether it fails or not: the next child, and where it starts.
LEMMA PipeForks ==
    ASSUME PipeInv, P!fork \/ P!ForkFails
    PROVE  PipeInv'
<1> USE ExampleConstants
<1>1. PICK n \in 1 .. K + 1 : n = i_pipe
  BY DEF PipeInv, PipeTypes
<1>2. /\ pc_pipe[0] = "fork" /\ UNCHANGED <<prog_pipe, pipe, wrote, out>>
      /\ i_pipe' = IF prog_pipe = 1 THEN n ELSE n + 1
  BY <1>1 DEF P!fork, P!ForkFails
<1>3. n <= K /\ (prog_pipe = 1 => n = 1) /\ (prog_pipe = 3 => n <= 2) /\ prog_pipe \in 1 .. 3
  BY <1>1, <1>2 DEF PipeInv, PipeTypes, WritersInv
<1>4. PICK start, next \in PipePlaces :
        /\ start = P!ChildStart /\ next = P!AfterFork
        /\ prog_pipe = 1 => start = "read" /\ next = "write"
        /\ prog_pipe = 2 => start = "write" /\ next = IF n < K THEN "fork" ELSE "read"
        /\ prog_pipe = 3 => /\ start \in {"read", "write"}
                            /\ next = IF n = 1 THEN "close" ELSE "waitpid"
  <2>1. CASE prog_pipe = 1
    BY <2>1 DEF P!ChildStart, P!AfterFork, PipePlaces
  <2>2. CASE prog_pipe = 2
    BY <2>2, <1>1 DEF P!ChildStart, P!AfterFork, PipePlaces
  <2>3. CASE prog_pipe = 3
    BY <2>3, <1>1 DEF P!ChildStart, P!AfterFork, PipePlaces
  <2> QED
    BY <2>1, <2>2, <2>3, <1>3
<1>5. \/ pc_pipe' = [pc_pipe EXCEPT ![n] = start, ![0] = next]
      \/ pc_pipe' = [pc_pipe EXCEPT ![0] = next]
  BY <1>1, <1>4 DEF P!fork, P!ForkFails, P!Go
<1>6. /\ pc_pipe' \in [P!Procs -> PipePlaces]
      /\ pc_pipe'[0] = next
      /\ \A p \in 1 .. K : p # n => pc_pipe'[p] = pc_pipe[p]
      /\ pc_pipe'[n] \in {pc_pipe[n], start}
  <2>1. n \in P!Procs /\ 0 \in P!Procs /\ n # 0 /\ \A p \in 1 .. K : p \in P!Procs /\ p # 0
    BY <1>3 DEF P!Procs
  <2>2. pc_pipe \in [P!Procs -> PipePlaces]
    BY DEF PipeInv, PipeTypes, PipePlaces
  <2> QED
    BY <1>4, <1>5, <2>1, <2>2
<1>7. PipeTypes'
  <2>1. i_pipe' \in 1 .. K + 1
    BY <1>2, <1>3
  <2> QED
    BY <1>2, <1>6, <2>1 DEF PipeInv, PipeTypes, PipePlaces
<1>8. WritersInv'
  <2>1. CASE prog_pipe = 1
    <3>1. \A p \in 1 .. K : pc_pipe'[p] # "write"
      BY <1>4, <1>6, <2>1 DEF PipeInv, WritersInv
    <3>2. \A m \in 1 .. Len(wrote') : wrote'[m] < i_pipe'
      BY <1>1, <1>2, <2>1 DEF PipeInv, WritersInv
    <3> QED
      BY <1>2, <1>4, <1>6, <2>1, <3>1, <3>2 DEF WritersInv
  <2>2. CASE prog_pipe # 1
    <3>1. i_pipe' = n + 1 /\ prog_pipe' # 1
      BY <1>2, <2>2
    <3>2. /\ pc_pipe'[0] # "write"
          /\ pc_pipe'[0] = "fork" => i_pipe' <= K
          /\ prog_pipe' = 3 /\ pc_pipe'[0] \in {"fork", "close"} => i_pipe' <= 2
      BY <1>2, <1>3, <1>4, <1>6, <2>2, <3>1
    <3>3. \A p \in 1 .. K : p >= n => pc_pipe[p] = "none"
      BY <1>1, <2>2 DEF PipeInv, WritersInv
    <3>4. \A p \in 1 .. K : p >= n + 1 => pc_pipe'[p] = "none"
      <4>1. \A p \in 1 .. K : p >= n + 1 => p >= n /\ p # n
        OBVIOUS
      <4> QED
        BY <1>6, <3>3, <4>1
    <3>5. \A p \in 1 .. K : pc_pipe'[p] \in {"none", "write"} =>
            \A m \in 1 .. Len(wrote') : wrote'[m] # p
      <4>1. pc_pipe[n] = "none" /\ n \in 1 .. K
        <5>1. n \in 1 .. K /\ n >= n
          BY <1>3
        <5> QED
          BY <3>3, <5>1
      <4>2. \A p \in 1 .. K : pc_pipe'[p] \in {"none", "write"} => pc_pipe[p] \in {"none", "write"}
        BY <1>6, <4>1
      <4> QED
        BY <1>2, <2>2, <4>2 DEF PipeInv, WritersInv
    <3>6. pc_pipe'[0] = "close" => prog_pipe' = 3
      BY <1>2, <1>3, <1>4, <1>6, <2>2
    <3> QED
      BY <3>1, <3>2, <3>4, <3>5, <3>6 DEF WritersInv
  <2> QED
    BY <2>1, <2>2
<1>9. P!PipeIsFIFO'
  BY <1>2 DEF PipeInv, P!PipeIsFIFO, P!IsInjective
<1> QED
  BY <1>7, <1>8, <1>9 DEF PipeInv

\* A process closes its end, waits, exits or comes to the end of the file.
LEMMA PipeGoesOn ==
    ASSUME PipeInv, P!close \/ P!waitpid \/ P!EndOfFile \/ \E p \in P!Procs : P!exit(p)
    PROVE  PipeInv'
<1> USE ExampleConstants
<1>1. PICK p \in P!Procs, there \in {"fork", "exit", "end"} :
        /\ pc_pipe' = [pc_pipe EXCEPT ![p] = there]
        /\ pc_pipe[p] \notin {"none", "write"}
        /\ there = "fork" => pc_pipe[p] = "close" /\ p = 0
  <2>1. 0 \in P!Procs /\ 1 \in P!Procs /\ 2 \in P!Procs
    BY DEF P!Procs
  <2>2. CASE P!close
    BY <2>1, <2>2 DEF P!close, P!Go
  <2>3. CASE P!waitpid
    BY <2>1, <2>3 DEF P!waitpid, P!Go
  <2>4. CASE P!EndOfFile
    <3>1. P!Reader \in P!Procs
      BY <2>1 DEF P!Reader, PipeInv, PipeTypes
    <3> QED
      BY <3>1, <2>4 DEF P!EndOfFile, P!Go
  <2>5. CASE \E p \in P!Procs : P!exit(p)
    BY <2>5 DEF P!exit, P!Go
  <2> QED
    BY <2>2, <2>3, <2>4, <2>5
<1>2. UNCHANGED <<prog_pipe, i_pipe, pipe, wrote, out>>
  BY DEF P!close, P!waitpid, P!EndOfFile, P!exit
<1>3. /\ pc_pipe' \in [P!Procs -> PipePlaces]
      /\ pc_pipe'[p] = there /\ \A q \in P!Procs : q # p => pc_pipe'[q] = pc_pipe[q]
  BY <1>1 DEF PipeInv, PipeTypes, PipePlaces
<1>4. PipeTypes'
  BY <1>2, <1>3 DEF PipeInv, PipeTypes, PipePlaces
<1>5. WritersInv'
  <2>1. \A q \in P!Procs : /\ pc_pipe'[q] = "none" <=> pc_pipe[q] = "none"
                           /\ pc_pipe'[q] = "write" <=> pc_pipe[q] = "write"
    BY <1>1, <1>3
  <2>2. 0 \in P!Procs /\ \A q \in 1 .. K : q \in P!Procs
    BY DEF P!Procs
  <2>3. pc_pipe'[0] = "fork" => pc_pipe[0] \in {"fork", "close"}
    BY <1>1, <1>3, <2>2
  <2>4. pc_pipe'[0] = "close" => pc_pipe[0] = "close"
    BY <1>1, <1>3, <2>2
  <2>5. CASE prog_pipe = 1
    BY <1>2, <2>1, <2>2, <2>3, <2>4, <2>5 DEF PipeInv, WritersInv
  <2>6. CASE prog_pipe # 1
    <3>1. pc_pipe'[0] = "fork" => i_pipe <= K
      BY <2>3, <2>6 DEF PipeInv, PipeTypes, WritersInv
    <3>2. prog_pipe = 3 /\ pc_pipe'[0] \in {"fork", "close"} => i_pipe <= 2
      BY <2>3, <2>4, <2>6 DEF PipeInv, WritersInv
    <3> QED
      BY <1>2, <2>1, <2>2, <2>4, <2>6, <3>1, <3>2 DEF PipeInv, WritersInv
  <2> QED
    BY <2>5, <2>6
<1>6. P!PipeIsFIFO'
  BY <1>2 DEF PipeInv, P!PipeIsFIFO, P!IsInjective
<1> QED
  BY <1>4, <1>5, <1>6 DEF PipeInv

\* What a write does to the sequences.



\* The parent of pipe1.c writes its counter, the children of the others their
\* own number: one that has not been written.
LEMMA PipeWrites ==
    ASSUME PipeInv, P!write \/ \E p \in P!Procs : P!ChildWrites(p)
    PROVE  PipeInv'
<1> USE ExampleConstants
<1>1. PICK p \in P!Procs, e \in 1 .. K, there \in {"write", "exit", "end"} :
        /\ pc_pipe[p] = "write" /\ pc_pipe' = [pc_pipe EXCEPT ![p] = there]
        /\ pipe' = Append(pipe, e) /\ wrote' = Append(wrote, e)
        /\ UNCHANGED <<prog_pipe, out>>
        /\ \/ prog_pipe = 1 /\ p = 0 /\ e = i_pipe /\ i_pipe' = e + 1
           \/ prog_pipe # 1 /\ p = e /\ i_pipe' = i_pipe /\ there = "exit"
  <2>1. 0 \in P!Procs /\ \A p \in P!Procs : p # 0 => p \in 1 .. K
    BY DEF P!Procs
  <2>2. CASE P!write
    <3>1. pc_pipe[0] = "write" /\ prog_pipe = 1 /\ i_pipe \in 1 .. K
      BY <2>2 DEF P!write, PipeInv, PipeTypes
    <3>2. /\ pipe' = Append(pipe, i_pipe) /\ wrote' = Append(wrote, i_pipe)
          /\ UNCHANGED <<prog_pipe, out>> /\ i_pipe' = i_pipe + 1
      BY <2>2 DEF P!write, P!Put
    <3>3. \/ pc_pipe' = [pc_pipe EXCEPT ![0] = "end"]
          \/ pc_pipe' = [pc_pipe EXCEPT ![0] = "write"]
      <4>1. pc_pipe = [pc_pipe EXCEPT ![0] = "write"]
        BY <2>1, <3>1 DEF PipeInv, PipeTypes
      <4> QED
        BY <2>2, <4>1 DEF P!write
    <3> QED
      BY <2>1, <3>1, <3>2, <3>3
  <2>3. CASE \E p \in P!Procs : P!ChildWrites(p)
    <3>1. PICK p \in P!Procs : P!ChildWrites(p)
      BY <2>3
    <3>2. /\ p # 0 /\ pc_pipe[p] = "write" /\ pc_pipe' = [pc_pipe EXCEPT ![p] = "exit"]
          /\ pipe' = Append(pipe, p) /\ wrote' = Append(wrote, p)
          /\ UNCHANGED <<prog_pipe, i_pipe, out>>
      BY <3>1 DEF P!ChildWrites, P!Put, P!Go
    <3>3. prog_pipe # 1
      BY <2>1, <3>2 DEF PipeInv, WritersInv
    <3> QED
      BY <2>1, <3>2, <3>3
  <2> QED
    BY <2>2, <2>3
<1>2. NotIn(e, wrote)
  <2>1. CASE prog_pipe = 1
    <3>1. \A m \in 1 .. Len(wrote) : wrote[m] < e
      BY <1>1, <2>1 DEF PipeInv, WritersInv
    <3>2. \A m \in 1 .. Len(wrote) : wrote[m] \in 1 .. K
      BY DEF PipeInv, PipeTypes
    <3> QED
      BY <3>1, <3>2 DEF NotIn
  <2>2. CASE prog_pipe # 1
    BY <1>1, <2>2 DEF PipeInv, WritersInv, NotIn
  <2> QED
    BY <2>1, <2>2
<1>3. PICK Vals : Vals = 1 .. K
  OBVIOUS
<1>3a. PICK w \in Seq(Vals), o \in Seq(Vals), q \in Seq(Vals) : w = wrote /\ o = out /\ q = pipe
  BY <1>3 DEF PipeInv, PipeTypes
<1>4. /\ wrote' \in Seq(1 .. K) /\ pipe' \in Seq(1 .. K) /\ wrote' = out \o pipe'
      /\ \A m \in 1 .. Len(wrote') : wrote'[m] = e \/ \E n \in 1 .. Len(wrote) : wrote'[m] = wrote[n]
      /\ AllDifferent(wrote')
  <2>1. w = o \o q
    BY <1>3a DEF PipeInv, P!PipeIsFIFO
  <2>2. AllDifferent(w)
    <3>1. DOMAIN w = 1 .. Len(w)
      BY LenProperties
    <3> QED
      BY <1>3a, <3>1 DEF PipeInv, P!PipeIsFIFO, P!IsInjective, AllDifferent
  <2>3. NotIn(e, w)
    BY <1>2, <1>3a
  <2>4. PICK v, r : v = Append(w, e) /\ r = Append(q, e)
    OBVIOUS
  <2>5. e \in Vals
    BY <1>3
  <2>6. v \in Seq(Vals)
    BY <2>2, <2>3, <2>4, <2>5, BackGrows, Zenon
  <2>7. AllDifferent(v)
    BY <2>2, <2>3, <2>4, <2>5, BackGrows, Zenon
  <2>8. NewOrIn(v, w, e)
    BY <2>2, <2>3, <2>4, <2>5, BackGrows, Zenon
  <2>9. r \in Seq(Vals)
    BY <2>4, <2>5, BackMoves, Zenon
  <2>10. v = o \o r
    <3>1. Append(o \o q, e) = o \o Append(q, e)
      <4>1. GrowsAtBack(o, q, e)
        BY <2>5, BackMoves, Zenon
      <4> QED
        BY <4>1, Zenon DEF GrowsAtBack
    <3> QED
      BY <2>1, <2>4, <3>1, Zenon
  <2>11. wrote' = v /\ pipe' = r
    BY <1>1, <1>3a, <2>4
  <2>12. wrote' \in Seq(1 .. K) /\ pipe' \in Seq(1 .. K)
    BY <1>3, <2>6, <2>9, <2>11, Zenon
  <2>13. wrote' = out \o pipe'
    BY <1>3a, <2>10, <2>11, Zenon
  <2>14. \A m \in 1 .. Len(wrote') : wrote'[m] = e \/ \E n \in 1 .. Len(wrote) : wrote'[m] = wrote[n]
    BY <1>3a, <2>8, <2>11, Zenon DEF NewOrIn
  <2>15. AllDifferent(wrote')
    BY <2>7, <2>11, Zenon
  <2> QED
    BY <2>12, <2>13, <2>14, <2>15
<1>5. /\ pc_pipe' \in [P!Procs -> PipePlaces]
      /\ pc_pipe'[p] = there /\ \A d \in P!Procs : d # p => pc_pipe'[d] = pc_pipe[d]
  BY <1>1 DEF PipeInv, PipeTypes, PipePlaces
<1>6. PipeTypes'
  <2>1. i_pipe' \in 1 .. K + 1
    BY <1>1 DEF PipeInv, PipeTypes
  <2> QED
    BY <1>1, <1>4, <1>5, <2>1 DEF PipeInv, PipeTypes, PipePlaces
<1>7. WritersInv'
  <2>1. 0 \in P!Procs /\ \A d \in 1 .. K : d \in P!Procs /\ d # 0
    BY DEF P!Procs
  <2>2. CASE prog_pipe = 1
    <3>1. e = i_pipe /\ i_pipe' = e + 1 /\ p = 0 /\ prog_pipe' = 1
      BY <1>1, <2>2
    <3>2. \A m \in 1 .. Len(wrote') : wrote'[m] < i_pipe'
      <4>1. \A m \in 1 .. Len(wrote) : wrote[m] < e /\ wrote[m] \in 1 .. K
        <5>1. \A m \in 1 .. Len(wrote) : wrote[m] < e
          BY <3>1, <2>2 DEF PipeInv, WritersInv
        <5>2. \A m \in 1 .. Len(wrote) : wrote[m] \in 1 .. K
          BY ElementOfSeq DEF PipeInv, PipeTypes
        <5> QED
          BY <5>1, <5>2
      <4>2. ASSUME NEW m \in 1 .. Len(wrote')
            PROVE  wrote'[m] < i_pipe'
        <5>1. PICK x : x = wrote'[m] /\ (x = e \/ \E n \in 1 .. Len(wrote) : x = wrote[n])
          BY <1>4
        <5>2. x = e \/ (x < e /\ x \in 1 .. K)
          BY <4>1, <5>1
        <5> QED
          BY <3>1, <5>1, <5>2
      <4> QED
        BY <4>2
    <3>3. \A d \in 1 .. K : pc_pipe'[d] # "write"
      BY <1>5, <2>1, <2>2, <3>1 DEF PipeInv, WritersInv
    <3>4. pc_pipe'[0] \notin {"fork", "close"}
      BY <1>5, <3>1
    <3> QED
      BY <3>1, <3>2, <3>3, <3>4 DEF WritersInv
  <2>3. CASE prog_pipe # 1
    <3>1. p = e /\ i_pipe' = i_pipe /\ prog_pipe' = prog_pipe /\ pc_pipe'[p] = "exit" /\ p \in 1 .. K
      BY <1>1, <1>5, <2>3
    <3>2. pc_pipe'[0] = pc_pipe[0]
      BY <1>5, <2>1, <3>1
    <3>3. \A d \in 1 .. K : d >= i_pipe => pc_pipe'[d] = "none"
      <4>1. \A d \in 1 .. K : d >= i_pipe => pc_pipe[d] = "none"
        BY <2>3 DEF PipeInv, WritersInv
      <4>2. ~(p >= i_pipe)
        BY <1>1, <3>1, <4>1
      <4> QED
        BY <1>5, <2>1, <4>1, <4>2
    <3>4. \A d \in 1 .. K : pc_pipe'[d] \in {"none", "write"} =>
            \A m \in 1 .. Len(wrote') : wrote'[m] # d
      <4>1. ASSUME NEW d \in 1 .. K, pc_pipe'[d] \in {"none", "write"}
            PROVE  d # e /\ \A m \in 1 .. Len(wrote) : wrote[m] # d
        BY <1>5, <2>1, <2>3, <3>1, <4>1 DEF PipeInv, WritersInv
      <4> QED
        BY <1>4, <4>1
    <3> QED
      BY <2>3, <3>1, <3>2, <3>3, <3>4 DEF PipeInv, WritersInv
  <2> QED
    BY <2>2, <2>3
<1>8. P!PipeIsFIFO'
  <2>1. DOMAIN wrote' = 1 .. Len(wrote')
    BY <1>4, LenProperties
  <2> QED
    BY <1>1, <1>4, <2>1 DEF P!PipeIsFIFO, P!IsInjective, AllDifferent
<1> QED
  BY <1>6, <1>7, <1>8 DEF PipeInv

\* The reader takes one number in pipe1.c, all there are in the others.
LEMMA PipeReads ==
    ASSUME PipeInv, P!read
    PROVE  PipeInv'
<1> USE ExampleConstants
<1>1. /\ UNCHANGED <<prog_pipe, i_pipe, wrote>>
      /\ pc_pipe[P!Reader] = "read" /\ pipe # <<>>
      /\ pc_pipe' = pc_pipe \/ pc_pipe' = [pc_pipe EXCEPT ![P!Reader] = "exit"]
  BY DEF P!read, P!Go
<1>2. PICK Vals : Vals = 1 .. K
  OBVIOUS
<1>2a. PICK o \in Seq(Vals), q \in Seq(Vals) : o = out /\ q = pipe
  BY <1>2 DEF PipeInv, PipeTypes
<1>3. PICK n \in 0 .. Len(q) :
        out' = out \o SubSeq(pipe, 1, n) /\ pipe' = SubSeq(pipe, n + 1, Len(pipe))
  <2>1. Len(q) \in Nat \ {0}
    BY <1>1, <1>2a, EmptySeq
  <2>2. 1 \in 0 .. Len(q) /\ Len(q) \in 0 .. Len(q)
    BY <2>1
  <2> QED
    BY <1>2a, <2>2 DEF P!read
<1>4. /\ out' \in Seq(1 .. K) /\ pipe' \in Seq(1 .. K) /\ out' \o pipe' = out \o pipe
  <2>1. PICK u, v : u = o \o SubSeq(q, 1, n) /\ v = SubSeq(q, n + 1, Len(q))
    OBVIOUS
  <2>2. u \in Seq(Vals) /\ v \in Seq(Vals) /\ u \o v = o \o q
    <3>1. o \o SubSeq(q, 1, n) \in Seq(Vals)
      BY FrontMoves, Zenon
    <3>2. SubSeq(q, n + 1, Len(q)) \in Seq(Vals)
      BY FrontMoves, Zenon
    <3>3. (o \o SubSeq(q, 1, n)) \o SubSeq(q, n + 1, Len(q)) = o \o q
      <4>1. SameWhole(o, q, n)
        BY FrontMoves, Zenon
      <4> QED
        BY <4>1, Zenon DEF SameWhole
    <3>4. u \o v = o \o q
      BY <2>1, <3>3, Zenon
    <3>5. u \in Seq(Vals)
      BY <2>1, <3>1, Zenon
    <3>6. v \in Seq(Vals)
      BY <2>1, <3>2, Zenon
    <3> QED
      BY <3>4, <3>5, <3>6
  <2>3. out' = u /\ pipe' = v
    BY <1>2a, <1>3, <2>1
  <2> QED
    BY <1>2, <1>2a, <2>2, <2>3, Zenon
<1>5. /\ pc_pipe' \in [P!Procs -> PipePlaces]
      /\ \A d \in P!Procs : \/ pc_pipe'[d] = pc_pipe[d]
                            \/ pc_pipe[d] = "read" /\ pc_pipe'[d] = "exit"
  <2>1. P!Reader \in P!Procs
    BY DEF P!Reader, P!Procs, PipeInv, PipeTypes
  <2> QED
    BY <1>1, <2>1 DEF PipeInv, PipeTypes, PipePlaces
<1>6. PipeTypes'
  BY <1>1, <1>4, <1>5 DEF PipeInv, PipeTypes, PipePlaces
<1>7. WritersInv'
  <2>1. \A d \in P!Procs : /\ pc_pipe'[d] = "none" <=> pc_pipe[d] = "none"
                           /\ pc_pipe'[d] = "write" <=> pc_pipe[d] = "write"
                           /\ pc_pipe'[d] = "fork" <=> pc_pipe[d] = "fork"
                           /\ pc_pipe'[d] = "close" <=> pc_pipe[d] = "close"
    BY <1>5
  <2>2. 0 \in P!Procs /\ \A d \in 1 .. K : d \in P!Procs
    BY DEF P!Procs
  <2> QED
    BY <1>1, <2>1, <2>2 DEF PipeInv, WritersInv
<1>8. P!PipeIsFIFO'
  <2>1. wrote = out \o pipe /\ P!IsInjective(wrote)
    BY DEF PipeInv, P!PipeIsFIFO
  <2>2. P!IsInjective(wrote)'
    BY <1>1, <2>1 DEF P!IsInjective
  <2>3. wrote' = out' \o pipe'
    BY <1>1, <1>4, <2>1, Zenon
  <2> QED
    BY <2>2, <2>3 DEF P!PipeIsFIFO
<1> QED
  BY <1>6, <1>7, <1>8 DEF PipeInv

-----------------------------------------------------------------------------
(* filepipe-lock.c and sem-mutex.c *)

\* What a write of a message, and of one digit, makes of a file.
LaidOver(f, n, msg, l, g) ==
    /\ Len(g) >= n + l
    /\ \A x \in 1 .. Len(g) :
        \/ x \in 1 .. n /\ g[x] = f[x]
        \/ x \in n + 1 .. n + l /\ g[x] = msg[x - n]
        \/ x \in n + l + 1 .. Len(f) /\ g[x] = f[x]
PutAt(f, n, v, g) ==
    /\ Len(g) >= n + 1 /\ g[n + 1] = v
    /\ \A x \in 1 .. n : g[x] = f[x]

\* A message goes over what is there, and may make the file longer.
LEMMA MessageLaidOver ==
    ASSUME NEW Vals, NEW f \in Seq(Vals), NEW n \in 0 .. Len(f),
           NEW msg \in Seq(Vals), NEW l \in Nat, l = Len(msg),
           NEW g, g = SubSeq(f, 1, n) \o msg \o SubSeq(f, n + l + 1, Len(f))
    PROVE  g \in Seq(Vals) /\ LaidOver(f, n, msg, l, g)
<1>1. PICK k \in Nat : k = Len(f)
  BY LenProperties
<1>2. PICK a : a = SubSeq(f, 1, n)
  OBVIOUS
<1>3. PICK b : b = SubSeq(f, n + l + 1, k)
  OBVIOUS
<1>4. \A x \in 1 .. k : f[x] \in Vals
  BY <1>1, ElementOfSeq
<1>5. a \in Seq(Vals) /\ Len(a) = n /\ \A x \in 1 .. n : a[x] = f[x]
  <2>1. 1 \in Int /\ n \in Int /\ \A x \in 1 .. n : f[x] \in Vals
    BY <1>1, <1>4
  <2>2. /\ SubSeq(f, 1, n) \in Seq(Vals)
        /\ Len(SubSeq(f, 1, n)) = IF 1 <= n THEN n - 1 + 1 ELSE 0
        /\ \A x \in 1 .. n - 1 + 1 : SubSeq(f, 1, n)[x] = f[1 + x - 1]
    BY <2>1, SubSeqProperties
  <2>3. /\ a \in Seq(Vals)
        /\ Len(a) = IF 1 <= n THEN n - 1 + 1 ELSE 0
        /\ \A x \in 1 .. n - 1 + 1 : a[x] = f[1 + x - 1]
    BY <1>2, <2>2, Zenon
  <2> QED
    BY <2>1, <2>3, <1>1
<1>6. /\ b \in Seq(Vals) /\ Len(b) = IF n + l + 1 <= k THEN k - (n + l) ELSE 0
      /\ \A x \in 1 .. k - (n + l) : b[x] = f[n + l + x]
  <2>1. n + l + 1 \in Int /\ k \in Int /\ \A x \in n + l + 1 .. k : f[x] \in Vals
    BY <1>1, <1>4
  <2>2. PICK q \in Int : q = n + l + 1
    BY <2>1
  <2>3. /\ SubSeq(f, q, k) \in Seq(Vals)
        /\ Len(SubSeq(f, q, k)) = IF q <= k THEN k - q + 1 ELSE 0
        /\ \A x \in 1 .. k - q + 1 : SubSeq(f, q, k)[x] = f[q + x - 1]
    BY <2>1, <2>2, SubSeqProperties
  <2>4. b = SubSeq(f, q, k)
    BY <1>3, <2>2
  <2>5. /\ b \in Seq(Vals)
        /\ Len(b) = IF q <= k THEN k - q + 1 ELSE 0
        /\ \A x \in 1 .. k - q + 1 : b[x] = f[q + x - 1]
    BY <2>3, <2>4, Zenon
  <2> QED
    BY <2>2, <2>5, <1>1
<1>7. PICK c : c = a \o msg
  OBVIOUS
<1>8. /\ c \in Seq(Vals) /\ Len(c) = n + l
      /\ \A x \in 1 .. n + l : c[x] = IF x <= n THEN a[x] ELSE msg[x - n]
  <2>1. /\ a \o msg \in Seq(Vals) /\ Len(a \o msg) = Len(a) + Len(msg)
        /\ \A x \in 1 .. Len(a) + Len(msg) :
             (a \o msg)[x] = IF x <= Len(a) THEN a[x] ELSE msg[x - Len(a)]
    BY <1>5, ConcatProperties
  <2>2. /\ c \in Seq(Vals) /\ Len(c) = Len(a) + Len(msg)
        /\ \A x \in 1 .. Len(a) + Len(msg) : c[x] = IF x <= Len(a) THEN a[x] ELSE msg[x - Len(a)]
    BY <1>7, <2>1, Zenon
  <2> QED
    BY <1>5, <2>2, Zenon
<1>9. PICK d : d = c \o b
  OBVIOUS
<1>10. /\ d \in Seq(Vals) /\ Len(d) = (n + l) + Len(b)
       /\ \A x \in 1 .. (n + l) + Len(b) : d[x] = IF x <= n + l THEN c[x] ELSE b[x - (n + l)]
  <2>1. /\ c \o b \in Seq(Vals) /\ Len(c \o b) = Len(c) + Len(b)
        /\ \A x \in 1 .. Len(c) + Len(b) :
             (c \o b)[x] = IF x <= Len(c) THEN c[x] ELSE b[x - Len(c)]
    BY <1>6, <1>8, ConcatProperties
  <2>2. /\ d \in Seq(Vals) /\ Len(d) = Len(c) + Len(b)
        /\ \A x \in 1 .. Len(c) + Len(b) : d[x] = IF x <= Len(c) THEN c[x] ELSE b[x - Len(c)]
    BY <1>9, <2>1, Zenon
  <2> QED
    BY <1>8, <2>2, Zenon
<1>11. g = d
  <2>1. g = SubSeq(f, 1, n) \o msg \o SubSeq(f, n + l + 1, k)
    BY <1>1, Zenon
  <2>2. g = (a \o msg) \o b
    BY <1>2, <1>3, <2>1, Zenon
  <2> QED
    BY <1>7, <1>9, <2>2, Zenon
<1>12. PICK m \in Nat : m = Len(b)
  BY <1>6, LenProperties
<1>13. /\ g \in Seq(Vals) /\ Len(g) = (n + l) + m
       /\ \A x \in 1 .. (n + l) + m : g[x] = IF x <= n + l THEN c[x] ELSE b[x - (n + l)]
  BY <1>10, <1>11, <1>12, Zenon
<1>14. ASSUME NEW x \in 1 .. (n + l) + m
       PROVE  \/ x \in 1 .. n /\ g[x] = f[x]
              \/ x \in n + 1 .. n + l /\ g[x] = msg[x - n]
              \/ x \in n + l + 1 .. k /\ g[x] = f[x]
  <2> DEFINE OneOfThem == \/ x \in 1 .. n /\ g[x] = f[x]
                          \/ x \in n + 1 .. n + l /\ g[x] = msg[x - n]
                          \/ x \in n + l + 1 .. k /\ g[x] = f[x]
  <2> SUFFICES OneOfThem
    OBVIOUS
  <2>1. CASE x <= n
    <3>1. x \in 1 .. n /\ x \in 1 .. n + l /\ x <= n + l
      BY <2>1
    <3>2. g[x] = a[x]
      BY <1>8, <1>13, <2>1, <3>1
    <3> QED
      BY <1>5, <3>1, <3>2
  <2>2. CASE x > n /\ x <= n + l
    <3>1. x \in n + 1 .. n + l /\ x \in 1 .. n + l /\ ~(x <= n)
      BY <2>2
    <3> QED
      BY <1>8, <1>13, <2>2, <3>1
  <2>3. CASE x > n + l
    <3>1. m > 0 /\ n + l + 1 <= k /\ m = k - (n + l)
      BY <1>6, <1>12, <2>3
    <3>2. x - (n + l) \in 1 .. k - (n + l) /\ n + l + (x - (n + l)) = x /\ ~(x <= n + l)
      BY <2>3, <3>1
    <3>3. g[x] = b[x - (n + l)]
      BY <1>13, <3>2
    <3>4. b[x - (n + l)] = f[n + l + (x - (n + l))]
      BY <1>6, <3>2
    <3>5. x \in n + l + 1 .. k
      BY <2>3, <3>1
    <3> QED
      BY <3>2, <3>3, <3>4, <3>5
  <2>4. x \in Int /\ n \in Int
    BY <1>1
  <2>5. x <= n \/ (x > n /\ x <= n + l) \/ x > n + l
    BY <2>4
  <2> HIDE DEF OneOfThem
  <2> QED
    BY <2>1, <2>2, <2>3, <2>5
<1>15. Len(g) >= n + l
  <2>1. (n + l) + m >= n + l
    BY <1>1
  <2> QED
    BY <1>13, <2>1, Zenon
<1>16. \A x \in 1 .. Len(g) :
        \/ x \in 1 .. n /\ g[x] = f[x]
        \/ x \in n + 1 .. n + l /\ g[x] = msg[x - n]
        \/ x \in n + l + 1 .. Len(f) /\ g[x] = f[x]
  BY <1>1, <1>13, <1>14, Zenon
<1> QED
  BY <1>13, <1>15, <1>16 DEF LaidOver

\* A digit goes over what is there, or behind the end.
LEMMA DigitPut ==
    ASSUME NEW Vals, NEW f \in Seq(Vals), NEW n \in 0 .. Len(f), NEW v \in Vals,
           NEW g, g = IF n < Len(f) THEN [f EXCEPT ![n + 1] = v] ELSE Append(f, v)
    PROVE  g \in Seq(Vals) /\ PutAt(f, n, v, g)
<1>1. PICK k \in Nat : k = Len(f) /\ n \in 0 .. k
  BY LenProperties
<1>2. CASE n < k
  <2>1. n + 1 \in 1 .. Len(f) /\ g = [f EXCEPT ![n + 1] = v]
    BY <1>1, <1>2
  <2>2. /\ [f EXCEPT ![n + 1] = v] \in Seq(Vals)
        /\ Len([f EXCEPT ![n + 1] = v]) = Len(f)
        /\ \A x \in 1 .. Len(f) : [f EXCEPT ![n + 1] = v][x] = IF x = n + 1 THEN v ELSE f[x]
    BY <2>1, ExceptSeq
  <2>3. /\ g \in Seq(Vals) /\ Len(g) = k
        /\ \A x \in 1 .. k : g[x] = IF x = n + 1 THEN v ELSE f[x]
    BY <1>1, <2>1, <2>2
  <2> QED
    BY <1>1, <1>2, <2>3 DEF PutAt
<1>3. CASE ~(n < k)
  <2>1. n = k /\ g = Append(f, v)
    BY <1>1, <1>3
  <2>2. /\ Append(f, v) \in Seq(Vals) /\ Len(Append(f, v)) = Len(f) + 1
        /\ Append(f, v)[Len(f) + 1] = v
        /\ \A x \in 1 .. Len(f) : Append(f, v)[x] = f[x]
    BY AppendProperties
  <2>3. /\ g \in Seq(Vals) /\ Len(g) = k + 1 /\ g[k + 1] = v
        /\ \A x \in 1 .. k : g[x] = f[x]
    BY <1>1, <2>1, <2>2
  <2> QED
    BY <1>1, <2>1, <2>3 DEF PutAt
<1> QED
  BY <1>2, <1>3

\* SharedFile counts with its own name of Cardinality.
LEMMA SameCount ==
    ASSUME NEW Some
    PROVE  F!Cardinality(Some) = Cardinality(Some)
BY DEF Cardinality, F!Cardinality

\* The first state of filepipe-lock.c and sem-mutex.c.
LEMMA FileStart == F!Init => FileInv
<1> SUFFICES ASSUME F!Init
             PROVE  FileInv
  OBVIOUS
<1> USE ExampleConstants
<1>1. /\ prog_file \in {"lock", "mutex"} /\ lockable \in BOOLEAN /\ mutex \in 0 .. 1
      /\ offset = 0 /\ j = [k \in Kids |-> 0] /\ buf_file = F!NotRead
      /\ pc_file = [p \in F!Procs |-> IF p = "parent" THEN "fork" ELSE "none"]
  BY DEF F!Init
<1>2. lock = IF prog_file = "lock" /\ lockable THEN "parent" ELSE "none"
  BY DEF F!Init
<1>3. PICK n \in Nat : file = [x \in 1 .. n |-> F!OLD]
  BY DEF F!Init
<1>4. "parent" \in F!Procs /\ \A k \in Kids : k \in F!Procs /\ k # "parent" /\ k # "none"
  BY DEF F!Procs
<1>5. F!Reader \in Kids
  BY DEF F!Reader
<1>6. /\ pc_file \in [F!Procs -> FilePlaces]
      /\ pc_file["parent"] = "fork" /\ \A k \in Kids : pc_file[k] = "none"
  BY <1>1, <1>4 DEF FilePlaces
<1>7. file \in Seq(Bytes) /\ Len(file) = n /\ \A x \in 1 .. n : file[x] = F!OLD
  <2>1. F!OLD \in Bytes
    BY DEF F!OLD, Bytes
  <2>2. PICK c \in Bytes : c = F!OLD
    BY <2>1
  <2>3. PICK s : s = [x \in 1 .. n |-> c]
    OBVIOUS
  <2>4. s \in Seq(Bytes) /\ Len(s) = n /\ \A x \in 1 .. n : s[x] = c
    BY <2>3
  <2>5. file = s
    BY <1>3, <2>2, <2>3
  <2> QED
    BY <2>2, <2>4, <2>5
<1>8. FileTypes
  <2>1. lock \in {"none"} \cup F!Procs
    BY <1>2, <1>4
  <2>2. offset \in 0 .. Len(file)
    BY <1>1, <1>7
  <2>3. j \in [Kids -> Nat]
    BY <1>1
  <2> QED
    BY <1>1, <1>6, <1>7, <2>1, <2>2, <2>3 DEF FileTypes, FilePlaces, Bytes
<1>9. PlacesInv
  BY <1>6 DEF PlacesInv
<1>10. LockInv
  BY <1>1, <1>2, <1>5, <1>6, <1>7 DEF LockInv
<1>11. MutexInv
  BY <1>1, <1>6 DEF MutexInv, InSection
<1>12. F!ReaderSeesMessage
  BY <1>1 DEF F!ReaderSeesMessage
<1>13. F!DigitsTogether
  <2>1. 1 .. offset = {}
    BY <1>1
  <2>2. \A k \in Kids : {x \in 1 .. offset : file[x].by = k} = {}
    BY <2>1
  <2>3. \A k \in Kids : F!Cardinality({x \in 1 .. offset : file[x].by = k}) = 0
    BY <2>2, SameCount, FS_EmptySet
  <2>4. \A k \in Kids : j[k] = 0
    BY <1>1
  <2> QED
    BY <2>1, <2>3, <2>4 DEF F!DigitsTogether
<1> QED
  BY <1>8, <1>9, <1>10, <1>11, <1>12, <1>13 DEF FileInv

\* filepipe-lock.c: the locks pass from one process to the other, and the
\* child goes to the begin of the file.
LEMMA FileLocks ==
    ASSUME FileInv,
           \/ \E born \in BOOLEAN : F!ForkReader(born)
           \/ F!Unlock \/ F!SetReadLock \/ F!lseek
    PROVE  FileInv'
<1> USE ExampleConstants
<1>1. UNCHANGED <<prog_file, lockable, mutex, file, j, buf_file>>
  BY DEF F!ForkReader, F!Unlock, F!SetReadLock, F!lseek
<1>2. /\ "parent" \in F!Procs /\ F!Reader \in Kids /\ F!Reader \in F!Procs
      /\ F!Reader # "parent" /\ F!Reader # "none"
      /\ \A k \in Kids : k \in F!Procs /\ k # "parent"
  BY DEF F!Procs, F!Reader
<1>3. PICK r \in Kids : r = F!Reader
  BY <1>2
<1>4. prog_file = "lock"
  BY <1>2, <1>3 DEF F!ForkReader, F!Unlock, F!SetReadLock, F!lseek, FileInv, PlacesInv, FileTypes
<1>5. /\ pc_file \in [F!Procs -> FilePlaces] /\ lock \in {"none"} \cup F!Procs
      /\ lockable \in BOOLEAN /\ offset \in 0 .. Len(file) /\ Len(file) \in Nat
  BY LenProperties DEF FileInv, FileTypes, FilePlaces
<1>6. /\ pc_file' \in [F!Procs -> FilePlaces]
      /\ \A k \in Kids : k # r => pc_file'[k] = pc_file[k]
      /\ \/ /\ pc_file["parent"] = "fork" /\ pc_file'["parent"] = "write"
            /\ pc_file'[r] \in {"none", "setlkw"} /\ UNCHANGED <<lock, offset>>
         \/ /\ pc_file["parent"] = "unlock" /\ pc_file'["parent"] = "end"
            /\ pc_file'[r] = pc_file[r] /\ lock' \in {"none", lock} /\ UNCHANGED offset
         \/ /\ pc_file'["parent"] = pc_file["parent"] /\ pc_file'[r] = "lseek"
            /\ lockable => lock = "none" /\ lock' = r
            /\ ~lockable => lock' = lock
            /\ UNCHANGED offset
         \/ /\ pc_file'["parent"] = pc_file["parent"] /\ pc_file[r] = "lseek" /\ pc_file'[r] = "read"
            /\ UNCHANGED lock /\ offset' = 0
  <2>1. CASE \E born \in BOOLEAN : F!ForkReader(born)
    BY <1>2, <1>3, <1>5, <2>1 DEF F!ForkReader, FilePlaces
  <2>2. CASE F!Unlock
    BY <1>2, <1>3, <1>5, <2>2 DEF F!Unlock, F!Go, FilePlaces
  <2>3. CASE F!SetReadLock
    BY <1>2, <1>3, <1>5, <2>3 DEF F!SetReadLock, F!Go, FilePlaces
  <2>4. CASE F!lseek
    BY <1>2, <1>3, <1>5, <2>4 DEF F!lseek, F!Go, FilePlaces
  <2> QED
    BY <2>1, <2>2, <2>3, <2>4
<1>7. FileTypes'
  <2>1. lock' \in {"none"} \cup F!Procs
    BY <1>2, <1>3, <1>5, <1>6
  <2>2. offset' \in 0 .. Len(file)
    BY <1>5, <1>6
  <2> QED
    BY <1>1, <1>6, <2>1, <2>2 DEF FileInv, FileTypes, FilePlaces
<1>8. PlacesInv'
  <2>1. /\ pc_file["parent"] \in {"fork", "write", "unlock", "end"}
        /\ \A k \in Kids : pc_file[k] \in {"none", "setlkw", "lseek", "read", "end"}
    BY <1>4 DEF FileInv, PlacesInv
  <2>2. pc_file'["parent"] \in {"fork", "write", "unlock", "end"}
    BY <1>6, <2>1
  <2>3. \A k \in Kids : pc_file'[k] \in {"none", "setlkw", "lseek", "read", "end"}
    BY <1>3, <1>6, <2>1
  <2> QED
    BY <1>1, <1>4, <2>2, <2>3 DEF PlacesInv
<1>9. LockInv'
  <2>1. CASE lockable
    <3>1. /\ pc_file["parent"] # "end" => lock = "parent"
          /\ pc_file[r] \in {"lseek", "read", "end"} => pc_file["parent"] = "end"
          /\ pc_file["parent"] \in {"fork", "write"} =>
               offset = 0 /\ \A x \in 1 .. Len(file) : file[x] = F!OLD
          /\ pc_file["parent"] \in {"unlock", "end"} =>
               /\ Len(file) >= MSG
               /\ \A x \in 1 .. MSG : file[x] = F!Message[x]
               /\ \A x \in MSG + 1 .. Len(file) : file[x] = F!OLD
          /\ pc_file[r] = "read" => offset = 0
      BY <1>3, <1>4, <2>1 DEF FileInv, LockInv
    <3>2. pc_file'["parent"] # "end" => lock' = "parent"
      BY <1>6, <2>1, <3>1
    <3>3. pc_file'[r] \in {"lseek", "read", "end"} => pc_file'["parent"] = "end"
      BY <1>6, <2>1, <3>1
    <3>4. pc_file'["parent"] \in {"fork", "write"} =>
            offset' = 0 /\ \A x \in 1 .. Len(file) : file[x] = F!OLD
      BY <1>6, <3>1
    <3>5. pc_file'["parent"] \in {"unlock", "end"} =>
            /\ Len(file) >= MSG
            /\ \A x \in 1 .. MSG : file[x] = F!Message[x]
            /\ \A x \in MSG + 1 .. Len(file) : file[x] = F!OLD
      BY <1>6, <3>1
    <3>6. pc_file'[r] = "read" => offset' = 0
      BY <1>6, <3>1
    <3> QED
      BY <1>1, <1>3, <3>2, <3>3, <3>4, <3>5, <3>6 DEF LockInv, F!Message, F!OLD
  <2>2. CASE ~lockable
    BY <1>1, <2>2 DEF LockInv
  <2> QED
    BY <2>1, <2>2
<1>10. MutexInv' /\ F!DigitsTogether'
  BY <1>1, <1>4 DEF MutexInv, F!DigitsTogether
<1>11. F!ReaderSeesMessage'
  BY <1>1 DEF FileInv, F!ReaderSeesMessage
<1> QED
  BY <1>7, <1>8, <1>9, <1>10, <1>11 DEF FileInv

\* The child of filepipe-lock.c reads, after its parent has written.
LEMMA FileReads ==
    ASSUME FileInv, F!read
    PROVE  FileInv'
<1> USE ExampleConstants
<1>1. /\ UNCHANGED <<prog_file, lockable, mutex, file, j>>
      /\ offset' = Len(file) /\ pc_file[F!Reader] = "read"
      /\ pc_file' = [pc_file EXCEPT ![F!Reader] = "end"]
      /\ lock' = IF lock = F!Reader THEN "none" ELSE lock
  BY DEF F!read, F!Go
<1>2. PICK r \in Kids : r = F!Reader /\ r \in F!Procs /\ r # "parent"
  BY DEF F!Reader, F!Procs
<1>3. PICK s \in Seq(Bytes), n \in Nat : s = file /\ n = Len(s)
  BY LenProperties DEF FileInv, FileTypes, Bytes
<1>4. /\ pc_file \in [F!Procs -> FilePlaces] /\ lock \in {"none"} \cup F!Procs
      /\ lockable \in BOOLEAN /\ prog_file = "lock" /\ "parent" \in F!Procs
      /\ \A k \in Kids : k \in F!Procs
  BY <1>1, <1>2 DEF FileInv, FileTypes, FilePlaces, PlacesInv, F!Procs
<1>5. /\ pc_file' \in [F!Procs -> FilePlaces]
      /\ pc_file'["parent"] = pc_file["parent"] /\ pc_file'[r] = "end"
      /\ \A k \in Kids : k # r => pc_file'[k] = pc_file[k]
  BY <1>1, <1>2, <1>4 DEF FilePlaces
<1>6. FileTypes'
  <2>1. lock' \in {"none"} \cup F!Procs
    BY <1>1, <1>4
  <2>2. offset' \in 0 .. Len(file)
    BY <1>1, <1>3
  <2> QED
    BY <1>1, <1>5, <2>1, <2>2 DEF FileInv, FileTypes, FilePlaces
<1>7. PlacesInv'
  BY <1>1, <1>4, <1>5 DEF FileInv, PlacesInv
<1>8. lockable => /\ pc_file["parent"] = "end" /\ offset = 0 /\ n >= MSG
                  /\ \A x \in 1 .. MSG : s[x] = F!Message[x]
                  /\ \A x \in MSG + 1 .. n : s[x] = F!OLD
  BY <1>1, <1>3, <1>4 DEF FileInv, LockInv
<1>9. LockInv'
  BY <1>1, <1>2, <1>3, <1>5, <1>8 DEF LockInv, F!Message, F!OLD
<1>10. MutexInv' /\ F!DigitsTogether'
  BY <1>1, <1>4 DEF MutexInv, F!DigitsTogether
<1>11. F!ReaderSeesMessage'
  <2>1. CASE lockable
    <3>1. MSG \in Nat /\ MSG \in 0 .. Len(s)
      BY <1>3, <1>8, <2>1
    <3>2. buf_file' = SubSeq(s, 0 + 1, Len(s))
      BY <1>3, <1>8, <2>1 DEF F!read
    <3>3. buf_file' = s
      <4>1. SubSeq(s, 1, Len(s)) = s
        BY SubSeqFull
      <4> QED
        BY <3>2, <4>1
    <3>4. SubSeq(s, 1, MSG) = F!Message
      <4>1. PICK m \in Nat : m = MSG /\ m <= n
        BY <3>1, <1>8, <2>1
      <4>2. SubSeq(s, 1, m) = [x \in 1 .. m |-> s[x]]
        BY <1>3, <4>1
      <4>3. F!Message = [x \in 1 .. m |-> [by |-> "parent", digit |-> x]]
        BY <4>1 DEF F!Message
      <4>4. \A x \in 1 .. m : s[x] = [by |-> "parent", digit |-> x]
        BY <1>8, <2>1, <4>1, <4>3
      <4> QED
        BY <4>1, <4>2, <4>3, <4>4
    <3>5. \A x \in MSG + 1 .. Len(s) : s[x] = F!OLD
      BY <1>3, <1>8, <2>1
    <3>6. Len(s) >= MSG
      BY <1>3, <1>8, <2>1
    <3> QED
      BY <3>3, <3>4, <3>5, <3>6 DEF F!ReaderSeesMessage, F!Message, F!OLD
  <2>2. CASE ~lockable
    BY <1>1, <2>2 DEF F!ReaderSeesMessage
  <2> QED
    BY <2>1, <2>2
<1> QED
  BY <1>6, <1>7, <1>9, <1>10, <1>11 DEF FileInv

\* The parent of filepipe-lock.c writes its message.
LEMMA FileMessage ==
    ASSUME FileInv, F!WriteMessage
    PROVE  FileInv'
<1> USE ExampleConstants
<1>1. /\ UNCHANGED <<prog_file, lockable, lock, mutex, j, buf_file>>
      /\ prog_file = "lock" /\ pc_file["parent"] = "write"
      /\ pc_file' = [pc_file EXCEPT !["parent"] = "unlock"]
      /\ file' = SubSeq(file, 1, offset) \o F!Message \o SubSeq(file, offset + MSG + 1, Len(file))
      /\ offset' = offset + MSG
  BY DEF F!WriteMessage, F!Go
<1>2. PICK r \in Kids : r = F!Reader
  BY DEF F!Reader
<1>3. PICK s \in Seq(Bytes) : s = file
  BY DEF FileInv, FileTypes, Bytes
<1>3a. PICK n \in 0 .. Len(s) : n = offset
  BY <1>3 DEF FileInv, FileTypes
<1>4. /\ pc_file \in [F!Procs -> FilePlaces] /\ "parent" \in F!Procs
      /\ lockable \in BOOLEAN /\ \A k \in Kids : k \in F!Procs /\ k # "parent"
  BY DEF FileInv, FileTypes, FilePlaces, F!Procs
<1>5. /\ pc_file' \in [F!Procs -> FilePlaces]
      /\ pc_file'["parent"] = "unlock" /\ \A k \in Kids : pc_file'[k] = pc_file[k]
  BY <1>1, <1>4 DEF FilePlaces
<1>6. PICK m \in Nat, msg \in Seq(Bytes) :
        m = MSG /\ msg = F!Message /\ Len(msg) = m /\ m > 0
  <2>1. PICK m \in Nat : m = MSG /\ m > 0
    OBVIOUS
  <2>2. F!Message = [x \in 1 .. m |-> [by |-> "parent", digit |-> x]]
    BY <2>1 DEF F!Message
  <2>3. \A x \in 1 .. m : [by |-> "parent", digit |-> x] \in Bytes
    BY DEF Bytes
  <2>4. F!Message \in Seq(Bytes) /\ Len(F!Message) = m
    BY <2>1, <2>2, <2>3
  <2> QED
    BY <2>1, <2>4
<1>7. PICK g : g = SubSeq(s, 1, n) \o msg \o SubSeq(s, n + m + 1, Len(s))
  OBVIOUS
<1>8. file' = g
  BY <1>1, <1>3, <1>3a, <1>6, <1>7, Zenon
<1>9. g \in Seq(Bytes) /\ LaidOver(s, n, msg, m, g)
  <2>1. m = Len(msg)
    BY <1>6
  <2> QED
    BY <1>7, <2>1, MessageLaidOver, Zenon
<1>10. PICK k \in Nat, l \in Nat : k = Len(s) /\ l = Len(g) /\ n \in 0 .. k
  BY <1>9, LenProperties
<1>11. /\ l >= n + m
       /\ \A x \in 1 .. l : \/ x \in 1 .. n /\ g[x] = s[x]
                            \/ x \in n + 1 .. n + m /\ g[x] = msg[x - n]
                            \/ x \in n + m + 1 .. k /\ g[x] = s[x]
  BY <1>9, <1>10 DEF LaidOver
<1>12. FileTypes'
  <2>1. offset' \in 0 .. Len(file')
    <3>1. n + m \in 0 .. l
      BY <1>10, <1>11
    <3>2. offset' = n + m
      BY <1>1, <1>3a, <1>6
    <3>3. Len(file') = l
      BY <1>8, <1>10
    <3> QED
      BY <3>1, <3>2, <3>3
  <2>2. file' \in Seq(Bytes)
    BY <1>8, <1>9
  <2> QED
    BY <1>1, <1>5, <2>1, <2>2 DEF FileInv, FileTypes, FilePlaces, Bytes
<1>13. PlacesInv'
  BY <1>1, <1>5 DEF FileInv, PlacesInv
<1>14. LockInv'
  <2>1. CASE lockable
    <3>1. n = 0 /\ \A x \in 1 .. k : s[x] = F!OLD
      BY <1>1, <1>3, <1>3a, <1>10, <2>1 DEF FileInv, LockInv
    <3>2. /\ pc_file["parent"] # "end" => lock = "parent"
          /\ pc_file[r] \in {"lseek", "read", "end"} => pc_file["parent"] = "end"
      BY <1>1, <1>2, <2>1 DEF FileInv, LockInv
    <3>3. ASSUME NEW x \in 1 .. l
          PROVE  /\ x \in 1 .. m => g[x] = msg[x]
                 /\ x \in m + 1 .. l => g[x] = F!OLD
      <4>1. x <= m => g[x] = msg[x - n] /\ x - n = x
        BY <1>10, <1>11, <3>1, <3>3
      <4>2. x > m => x \in 1 .. k /\ g[x] = s[x]
        BY <1>10, <1>11, <3>1, <3>3
      <4> QED
        BY <3>1, <4>1, <4>2
    <3>4. l >= m
      BY <1>11, <3>1
    <3>5. \A x \in 1 .. m : x \in 1 .. l
      BY <3>4
    <3>6. \A x \in 1 .. MSG : g[x] = F!Message[x]
      BY <1>6, <3>3, <3>5
    <3>7. \A x \in m + 1 .. l : x \in 1 .. l
      OBVIOUS
    <3>8. \A x \in MSG + 1 .. Len(g) : g[x] = F!OLD
      BY <1>6, <1>10, <3>3, <3>7
    <3>9. Len(g) >= MSG
      BY <1>6, <1>10, <3>4
    <3>10. pc_file'[r] \notin {"lseek", "read", "end"}
      BY <1>1, <1>5, <3>2
    <3> QED
      BY <1>1, <1>2, <1>5, <1>8, <3>2, <3>6, <3>8, <3>9, <3>10 DEF LockInv, F!Message, F!OLD
  <2>2. CASE ~lockable
    BY <1>1, <2>2 DEF LockInv
  <2> QED
    BY <2>1, <2>2
<1>15. MutexInv' /\ F!DigitsTogether'
  BY <1>1 DEF MutexInv, F!DigitsTogether
<1>16. F!ReaderSeesMessage'
  BY <1>1 DEF FileInv, F!ReaderSeesMessage
<1> QED
  BY <1>12, <1>13, <1>14, <1>15, <1>16 DEF FileInv

\* sem-mutex.c: the parent forks and waits, the semaphore is taken and given
\* back, a child is killed.
LEMMA FileSemaphore ==
    ASSUME FileInv,
           \/ F!ForkWriters \/ F!WaitAndUnlink
           \/ \E k \in Kids : F!sem_wait(k) \/ F!sem_post(k) \/ F!Killed(k)
    PROVE  FileInv'
<1> USE ExampleConstants
<1>1. UNCHANGED <<prog_file, lockable, lock, file, offset, j, buf_file>>
  BY DEF F!ForkWriters, F!WaitAndUnlink, F!sem_wait, F!sem_post, F!Killed
<1>2. /\ "parent" \in F!Procs /\ \A k \in Kids : k \in F!Procs /\ k # "parent"
      /\ pc_file \in [F!Procs -> FilePlaces] /\ mutex \in 0 .. 1 /\ prog_file \in {"lock", "mutex"}
  BY DEF F!Procs, FileInv, FileTypes, FilePlaces
<1>3. prog_file = "mutex"
  BY <1>2 DEF F!ForkWriters, F!WaitAndUnlink, F!sem_wait, F!sem_post, F!Killed, FileInv, PlacesInv
<1>4. /\ pc_file["parent"] \in {"fork", "wait", "end"}
      /\ \A k \in Kids : pc_file[k] \in {"none", "sem_wait", "digits", "sem_post", "end", "killed"}
  BY <1>3 DEF FileInv, PlacesInv
<1>5. /\ \A k \in Kids : InSection(k) => mutex = 0
      /\ \A k, l \in Kids : InSection(k) /\ InSection(l) => k = l
      /\ pc_file["parent"] = "fork" => \A k \in Kids : pc_file[k] = "none"
      /\ \A k \in Kids : pc_file[k] \in {"none", "sem_wait"} => j[k] = 0
  BY <1>3 DEF FileInv, MutexInv
<1>6. \A k \in Kids : pc_file[k] = "digits" /\ j[k] > 0 =>
        offset > 0 /\ file[offset] = [by |-> k, digit |-> j[k] - 1]
  BY <1>3 DEF FileInv, MutexInv
<1>7. LockInv' /\ F!ReaderSeesMessage' /\ F!DigitsTogether'
  <2>1. F!DigitsTogether'
    BY <1>1 DEF FileInv, F!DigitsTogether
  <2> QED
    BY <1>1, <1>3, <2>1 DEF LockInv, F!ReaderSeesMessage
<1>8. SUFFICES /\ pc_file' \in [F!Procs -> FilePlaces] /\ mutex' \in 0 .. 1
               /\ pc_file'["parent"] \in {"fork", "wait", "end"}
               /\ \A k \in Kids : pc_file'[k] \in {"none", "sem_wait", "digits", "sem_post", "end", "killed"}
               /\ \A k \in Kids : InSection(k)' => mutex' = 0
               /\ \A k, l \in Kids : InSection(k)' /\ InSection(l)' => k = l
               /\ pc_file'["parent"] = "fork" => \A k \in Kids : pc_file'[k] = "none"
               /\ \A k \in Kids : pc_file'[k] \in {"none", "sem_wait"} => j[k] = 0
               /\ \A k \in Kids : pc_file'[k] = "digits" =>
                    pc_file[k] = "digits" \/ j[k] = 0
  <2>1. FileTypes'
    BY <1>1, <1>8 DEF FileInv, FileTypes, FilePlaces
  <2>2. PlacesInv'
    BY <1>1, <1>3, <1>8 DEF PlacesInv
  <2>3. \A k \in Kids : pc_file'[k] = "digits" /\ j[k] > 0 =>
          offset > 0 /\ file[offset] = [by |-> k, digit |-> j[k] - 1]
    BY <1>6, <1>8
  <2>4. MutexInv'
    BY <1>1, <1>8, <2>3 DEF MutexInv, InSection
  <2> QED
    BY <1>7, <2>1, <2>2, <2>4 DEF FileInv
<1>9. CASE F!ForkWriters
  <2>1. PICK born \in SUBSET Kids :
          pc_file' = [p \in F!Procs |-> IF p = "parent" THEN "wait"
                                        ELSE IF p \in born THEN "sem_wait" ELSE "none"]
    BY <1>9 DEF F!ForkWriters
  <2>2. /\ pc_file["parent"] = "fork" /\ mutex' = mutex
    BY <1>9 DEF F!ForkWriters
  <2>3. /\ pc_file' \in [F!Procs -> FilePlaces] /\ pc_file'["parent"] = "wait"
        /\ \A k \in Kids : pc_file'[k] \in {"none", "sem_wait"}
    BY <1>2, <2>1 DEF FilePlaces
  <2>4. \A k \in Kids : j[k] = 0
    BY <1>5, <2>2
  <2> QED
    BY <1>2, <2>2, <2>3, <2>4 DEF InSection
<1>10. CASE F!WaitAndUnlink
  <2>1. mutex' = mutex /\ pc_file' = [pc_file EXCEPT !["parent"] = "end"]
    BY <1>10 DEF F!WaitAndUnlink, F!Go
  <2>2. /\ pc_file' \in [F!Procs -> FilePlaces] /\ pc_file'["parent"] = "end"
        /\ \A k \in Kids : pc_file'[k] = pc_file[k]
    BY <1>2, <2>1 DEF FilePlaces
  <2>3. \A k \in Kids : InSection(k)' <=> InSection(k)
    BY <2>2 DEF InSection
  <2> QED
    BY <1>2, <1>4, <1>5, <2>1, <2>2, <2>3
<1>11. CASE \E k \in Kids : F!sem_wait(k) \/ F!sem_post(k) \/ F!Killed(k)
  <2>1. PICK k \in Kids, there \in {"digits", "end", "killed"} :
          /\ pc_file' = [pc_file EXCEPT ![k] = there]
          /\ \/ there = "digits" /\ pc_file[k] = "sem_wait" /\ mutex > 0 /\ mutex' = mutex - 1
             \/ there = "end" /\ pc_file[k] = "sem_post" /\ mutex' = mutex + 1
             \/ there = "killed" /\ mutex' = mutex /\ pc_file[k] # "none"
    BY <1>11 DEF F!sem_wait, F!sem_post, F!Killed, F!Go
  <2>2. /\ pc_file' \in [F!Procs -> FilePlaces] /\ pc_file'["parent"] = pc_file["parent"]
        /\ pc_file'[k] = there /\ \A l \in Kids : l # k => pc_file'[l] = pc_file[l]
    BY <1>2, <2>1 DEF FilePlaces
  <2>3. pc_file["parent"] # "fork"
    BY <1>5, <2>1
  <2>4. /\ \A l \in Kids : l # k => (InSection(l)' <=> InSection(l))
        /\ InSection(k)' <=> there = "digits"
    BY <2>1, <2>2 DEF InSection
  <2>5. \A l \in Kids : pc_file'[l] \in {"none", "sem_wait", "digits", "sem_post", "end", "killed"}
    BY <1>4, <2>1, <2>2
  <2>6. \A l \in Kids : pc_file'[l] \in {"none", "sem_wait"} => j[l] = 0
    BY <1>5, <2>1, <2>2
  <2>7. \A l \in Kids : pc_file'[l] = "digits" => pc_file[l] = "digits" \/ j[l] = 0
    BY <1>5, <2>1, <2>2
  <2>8. CASE there = "digits"
    <3>1. mutex = 1 /\ mutex' = 0
      BY <1>2, <2>1, <2>8
    <3>2. \A l \in Kids : ~InSection(l)
      BY <1>5, <3>1
    <3>3. \A l \in Kids : InSection(l)' => l = k
      BY <2>4, <3>2
    <3> QED
      BY <1>4, <2>2, <2>3, <2>5, <2>6, <2>7, <3>1, <3>3
  <2>9. CASE there = "end"
    <3>1. InSection(k)
      BY <2>1, <2>9 DEF InSection
    <3>2. mutex = 0 /\ mutex' = 1
      BY <1>5, <2>1, <2>9, <3>1
    <3>3. \A l \in Kids : ~InSection(l)'
      BY <1>5, <2>4, <2>9, <3>1
    <3> QED
      BY <1>4, <2>2, <2>3, <2>5, <2>6, <2>7, <3>2, <3>3
  <2>10. CASE there = "killed"
    <3>1. mutex' = mutex
      BY <2>1, <2>10
    <3>2. \A l \in Kids : InSection(l)' => InSection(l)
      BY <2>4, <2>10
    <3> QED
      BY <1>2, <1>4, <1>5, <2>2, <2>3, <2>5, <2>6, <2>7, <3>1, <3>2
  <2> QED
    BY <2>1, <2>8, <2>9, <2>10
<1> QED
  BY <1>9, <1>10, <1>11

\* A child of sem-mutex.c writes its next digit behind what it has written.
LEMMA FileDigits ==
    ASSUME FileInv, NEW k \in Kids, F!WriteDigit(k)
    PROVE  FileInv'
<1> USE ExampleConstants
<1>1. /\ UNCHANGED <<prog_file, lockable, lock, mutex, buf_file>>
      /\ pc_file[k] = "digits" /\ offset' = offset + 1 /\ j' = [j EXCEPT ![k] = @ + 1]
      /\ pc_file' = [pc_file EXCEPT ![k] = "sem_post"] \/ pc_file' = pc_file
  BY DEF F!WriteDigit, F!Put, F!Go
<1>2. /\ k \in F!Procs /\ k # "parent" /\ "parent" \in F!Procs
      /\ \A l \in Kids : l \in F!Procs
      /\ pc_file \in [F!Procs -> FilePlaces] /\ prog_file \in {"lock", "mutex"}
  BY DEF F!Procs, FileInv, FileTypes, FilePlaces
<1>3. prog_file = "mutex"
  BY <1>1, <1>2 DEF FileInv, PlacesInv
<1>4. PICK d \in Nat : d = j[k]
  BY DEF FileInv, FileTypes
<1>5. PICK s \in Seq(Bytes) : s = file
  BY DEF FileInv, FileTypes, Bytes
<1>6. PICK n \in 0 .. Len(s) : n = offset
  BY <1>5 DEF FileInv, FileTypes
<1>7. n \in Nat
  BY LenProperties
<1>8. PICK v \in Bytes : v = [by |-> k, digit |-> d]
  BY DEF Bytes
<1>9. PICK g : g = IF n < Len(s) THEN [s EXCEPT ![n + 1] = v] ELSE Append(s, v)
  OBVIOUS
<1>10. file' = g
  BY <1>4, <1>5, <1>6, <1>8, <1>9 DEF F!WriteDigit, F!Put
<1>11. g \in Seq(Bytes) /\ PutAt(s, n, v, g)
  BY <1>9, DigitPut, Zenon
<1>12. /\ Len(g) \in Nat /\ Len(g) >= n + 1 /\ g[n + 1] = v
       /\ \A x \in 1 .. n : g[x] = s[x]
  BY <1>11, LenProperties DEF PutAt
<1>13. /\ pc_file' \in [F!Procs -> FilePlaces] /\ pc_file'["parent"] = pc_file["parent"]
       /\ pc_file'[k] \in {"digits", "sem_post"}
       /\ \A l \in Kids : l # k => pc_file'[l] = pc_file[l]
  BY <1>1, <1>2 DEF FilePlaces
<1>14. /\ j \in [Kids -> Nat] /\ j' \in [Kids -> Nat] /\ j'[k] = d + 1
       /\ \A l \in Kids : l # k => j'[l] = j[l]
  BY <1>1, <1>4 DEF FileInv, FileTypes
<1>15. FileTypes'
  <2>1. offset' \in 0 .. Len(file')
    BY <1>1, <1>6, <1>7, <1>10, <1>12
  <2>2. file' \in Seq(Bytes)
    BY <1>10, <1>11
  <2> QED
    BY <1>1, <1>13, <1>14, <2>1, <2>2 DEF FileInv, FileTypes, FilePlaces, Bytes
<1>16. PlacesInv'
  BY <1>1, <1>3, <1>13 DEF FileInv, PlacesInv
<1>17. LockInv' /\ F!ReaderSeesMessage'
  BY <1>1, <1>3 DEF LockInv, F!ReaderSeesMessage
<1>18. /\ InSection(k) /\ mutex = 0 /\ \A l \in Kids : InSection(l) => l = k
       /\ pc_file["parent"] # "fork"
  <2>1. InSection(k)
    BY <1>1 DEF InSection
  <2> QED
    BY <1>1, <1>3, <2>1 DEF FileInv, MutexInv
<1>19. MutexInv'
  <2>1. \A l \in Kids : InSection(l)' => l = k
    BY <1>13, <1>18 DEF InSection
  <2>2. ASSUME NEW l \in Kids, pc_file'[l] \in {"none", "sem_wait"}
        PROVE  j'[l] = 0
    <3>1. l # k /\ pc_file[l] \in {"none", "sem_wait"}
      BY <1>13, <2>2
    <3> QED
      BY <1>3, <1>14, <3>1 DEF FileInv, MutexInv
  <2>3. ASSUME NEW l \in Kids, pc_file'[l] = "digits"
        PROVE  offset' > 0 /\ file'[offset'] = [by |-> l, digit |-> j'[l] - 1]
    <3>1. l = k
      BY <2>1, <2>3 DEF InSection
    <3>2. j'[l] - 1 = d /\ offset' = n + 1 /\ offset' > 0
      BY <1>1, <1>6, <1>7, <1>14, <3>1
    <3>3. file'[offset'] = v
      BY <1>10, <1>12, <3>2
    <3> QED
      BY <1>8, <3>1, <3>2, <3>3
  <2> QED
    BY <1>1, <1>3, <1>13, <1>18, <2>1, <2>2, <2>3 DEF MutexInv, InSection
<1>20. /\ \A x \in 1 .. n : s[x].digit = 0 \/
            (x > 1 /\ s[x - 1] = [s[x] EXCEPT !.digit = @ - 1])
       /\ \A l \in Kids : F!Cardinality({x \in 1 .. n : s[x].by = l}) = j[l]
       /\ d > 0 => n > 0 /\ s[n] = [by |-> k, digit |-> d - 1]
  <2>1. \A x \in 1 .. n : s[x].digit = 0 \/
          (x > 1 /\ s[x - 1] = [s[x] EXCEPT !.digit = @ - 1])
    BY <1>3, <1>5, <1>6 DEF FileInv, F!DigitsTogether
  <2>2. \A l \in Kids : F!Cardinality({x \in 1 .. n : s[x].by = l}) = j[l]
    BY <1>3, <1>5, <1>6 DEF FileInv, F!DigitsTogether
  <2>3. d > 0 => n > 0 /\ s[n] = [by |-> k, digit |-> d - 1]
    BY <1>1, <1>3, <1>4, <1>5, <1>6 DEF FileInv, MutexInv
  <2> QED
    BY <2>1, <2>2, <2>3
<1>21. \A x \in 1 .. n + 1 : x \in 1 .. n \/ x = n + 1
  BY <1>7
<1>22. ASSUME NEW x \in 1 .. n + 1
       PROVE  g[x].digit = 0 \/ (x > 1 /\ g[x - 1] = [g[x] EXCEPT !.digit = @ - 1])
  <2>1. CASE x \in 1 .. n
    <3>1. g[x] = s[x] /\ (x > 1 => x - 1 \in 1 .. n)
      BY <1>7, <1>12, <2>1
    <3>2. x > 1 => g[x - 1] = s[x - 1]
      BY <1>12, <3>1
    <3> QED
      BY <1>20, <2>1, <3>1, <3>2
  <2>2. CASE x = n + 1
    <3>1. g[x] = [by |-> k, digit |-> d]
      BY <1>8, <1>12, <2>2
    <3>2. CASE d = 0
      BY <3>1, <3>2
    <3>3. CASE d # 0
      <4>1. n \in 1 .. n /\ x > 1 /\ x - 1 = n /\ s[n] = [by |-> k, digit |-> d - 1]
        BY <1>7, <1>20, <2>2, <3>3
      <4>2. g[x - 1] = [by |-> k, digit |-> d - 1]
        BY <1>12, <4>1
      <4> QED
        BY <3>1, <4>1, <4>2
    <3> QED
      BY <3>2, <3>3
  <2> QED
    BY <1>21, <2>1, <2>2
<1>23. ASSUME NEW l \in Kids
       PROVE  F!Cardinality({x \in 1 .. n + 1 : g[x].by = l}) = j'[l]
  <2>1. PICK old : old = {x \in 1 .. n : s[x].by = l}
    OBVIOUS
  <2>2. IsFiniteSet(old) /\ n + 1 \notin old
    <3>1. IsFiniteSet(1 .. n)
      BY <1>7, FS_Interval
    <3>2. old \in SUBSET (1 .. n)
      BY <2>1
    <3>3. IsFiniteSet(old)
      BY <3>1, <3>2, FS_Subset
    <3>4. n + 1 \notin old
      BY <1>7, <3>2
    <3> QED
      BY <3>3, <3>4
  <2>3. Cardinality(old) = j[l]
    BY <1>20, <2>1, SameCount
  <2>4. g[n + 1].by = k
    BY <1>8, <1>12
  <2>5. CASE l = k
    <3>1. {x \in 1 .. n + 1 : g[x].by = l} = old \cup {n + 1}
      BY <1>7, <1>12, <1>21, <2>1, <2>4, <2>5
    <3>2. Cardinality(old \cup {n + 1}) = Cardinality(old) + 1
      BY <2>2, FS_AddElement
    <3> QED
      BY <1>4, <1>14, <2>3, <2>5, <3>1, <3>2, SameCount
  <2>6. CASE l # k
    <3>1. {x \in 1 .. n + 1 : g[x].by = l} = old
      BY <1>7, <1>12, <1>21, <2>1, <2>4, <2>6
    <3> QED
      BY <1>14, <2>3, <2>6, <3>1, SameCount
  <2> QED
    BY <2>5, <2>6
<1>24. F!DigitsTogether'
  <2>1. offset' = n + 1 /\ file' = g /\ prog_file' = "mutex"
    BY <1>1, <1>3, <1>6, <1>10
  <2> QED
    BY <1>22, <1>23, <2>1 DEF F!DigitsTogether
<1> QED
  BY <1>15, <1>16, <1>17, <1>19, <1>24 DEF FileInv

-----------------------------------------------------------------------------
(* simple_shell1.c and simple_shell2.c *)

\* The first state of the two shells.
LEMMA ShellStart == S!Init => ShellInv
<1> SUFFICES ASSUME S!Init
             PROVE  ShellInv
  OBVIOUS
<1>1. /\ shell \in 1 .. 2 /\ pc = "loop" /\ lines = 0 /\ eof = FALSE
      /\ bg = FALSE /\ pid = 0 /\ child = <<>> /\ ran = <<>>
  BY DEF S!Init
<1>2. buf \in [line : Nat, kind : S!Kind] /\ buf.line = 0
  BY DEF S!Init, S!Uninit, S!Kind
<1>3. /\ child \in Seq({"running", "zombie", "reaped"}) /\ ran \in Seq([line : Nat, bg : BOOLEAN])
      /\ Len(ran) = 0 /\ Len(child) = 0
  BY <1>1, EmptySeq
<1>4. ShellTypes
  <2>1. eof \in BOOLEAN /\ bg \in BOOLEAN
    BY <1>1
  <2>2. pc \in {"loop", "parse", "fork", "waitpid", "end", "killed", "overrun"} /\ lines \in Nat /\ pid \in Int
    BY <1>1
  <2>3. buf.line <= lines
    BY <1>1, <1>2
  <2> QED
    BY <1>1, <1>2, <1>3, <2>1, <2>2, <2>3 DEF ShellTypes
<1>5. ForegroundInv
  BY <1>1, <1>3 DEF ForegroundInv
<1>6. LinesInv
  BY <1>1, <1>3 DEF LinesInv, S!RunsInOrder
<1> QED
  BY <1>4, <1>5, <1>6 DEF ShellInv

\* The shell reads a line, looks at it, or finds nothing to wait for: the
\* children and what has run stay as they are.
LEMMA ShellGoesOn ==
    ASSUME ShellInv,
           \/ S!fgets \/ S!fgetsNULL \/ S!Leave \/ S!parse \/ S!parseBlank \/ S!parseLong
           \/ S!ForkFails \/ S!waitpidFails
    PROVE  ShellInv'
<1>1. UNCHANGED <<shell, child, ran>>
  BY DEF S!fgets, S!fgetsNULL, S!Leave, S!parse, S!parseBlank, S!parseLong, S!ForkFails, S!waitpidFails
<1>2. PICK k, b : k = lines /\ b = buf.line /\ k \in Nat /\ b \in Nat /\ b <= k
  BY DEF ShellInv, ShellTypes
<1>3. /\ buf' \in [line : Nat, kind : S!Kind]
      /\ \/ buf'.line = b /\ lines' = k
         \/ buf'.line = k + 1 /\ lines' = k + 1 /\ S!fgets
  <2>1. CASE S!fgets
    <3>1. PICK d \in S!Kind : buf' = [line |-> k + 1, kind |-> d]
      BY <1>2, <2>1 DEF S!fgets
    <3> QED
      BY <1>2, <2>1, <3>1 DEF S!fgets
  <2>2. CASE S!fgetsNULL
    <3>1. /\ buf \in [line : Nat, kind : S!Kind] /\ 0 \in Nat
          /\ S!FirstWord(buf.kind) \in S!Kind
      BY DEF ShellInv, ShellTypes, S!Kind, S!Commands, S!FirstWord
    <3>2. CASE lines = 0
      <4>1. PICK d \in S!Kind : buf' = [line |-> 0, kind |-> d]
        BY <2>2, <3>2 DEF S!fgetsNULL
      <4>2. b = 0
        BY <1>2, <3>2
      <4> QED
        BY <1>2, <2>2, <4>1, <4>2 DEF S!fgetsNULL
    <3>3. CASE lines # 0
      BY <1>2, <2>2, <3>1, <3>3 DEF S!fgetsNULL
    <3> QED
      BY <3>2, <3>3
  <2>3. CASE ~S!fgets /\ ~S!fgetsNULL
    <3>1. UNCHANGED <<buf, lines>>
      BY <2>3 DEF S!Leave, S!parse, S!parseBlank, S!parseLong, S!ForkFails, S!waitpidFails
    <3>2. buf \in [line : Nat, kind : S!Kind]
      BY DEF ShellInv, ShellTypes
    <3> QED
      BY <1>2, <3>1, <3>2
  <2> QED
    BY <2>1, <2>2, <2>3
<1>4. /\ pc' \in {"loop", "parse", "fork", "waitpid", "end", "killed", "overrun"}
      /\ eof' \in BOOLEAN /\ bg' \in BOOLEAN /\ pid' \in Int
  <2>1. eof \in BOOLEAN /\ bg \in BOOLEAN /\ pid \in Int
    BY DEF ShellInv, ShellTypes
  <2>2. pc' \in {"loop", "parse", "fork", "waitpid", "end", "killed", "overrun"}
    BY DEF S!fgets, S!fgetsNULL, S!Leave, S!parse, S!parseBlank, S!parseLong, S!ForkFails, S!waitpidFails,
           S!AfterFork
  <2>3. pid' \in Int
    BY <2>1 DEF S!fgets, S!fgetsNULL, S!Leave, S!parse, S!parseBlank, S!parseLong, S!ForkFails, S!waitpidFails
  <2>4. eof' \in BOOLEAN
    BY <2>1 DEF S!fgets, S!fgetsNULL, S!Leave, S!parse, S!parseBlank, S!parseLong, S!ForkFails, S!waitpidFails
  <2>5. bg' \in BOOLEAN
    BY <2>1 DEF S!fgets, S!fgetsNULL, S!Leave, S!parse, S!parseBlank, S!parseLong, S!ForkFails, S!waitpidFails
  <2> QED
    BY <2>2, <2>3, <2>4, <2>5
<1>5. ShellTypes'
  <2>1. shell \in 1 .. 2 /\ Len(ran) = Len(child)
    BY DEF ShellInv, ShellTypes
  <2>2. child \in Seq({"running", "zombie", "reaped"}) /\ ran \in Seq([line : Nat, bg : BOOLEAN])
    BY DEF ShellInv, ShellTypes
  <2>3. lines' \in Nat /\ buf'.line <= lines'
    BY <1>2, <1>3
  <2> QED
    BY <1>1, <1>3, <1>4, <2>1, <2>2, <2>3 DEF ShellTypes
<1>6. ForegroundInv'
  <2>1. /\ bg' => shell = 2
        /\ pc' = "waitpid" => ~bg'
    <3>1. CASE S!parse \/ S!parseBlank \/ S!parseLong
      <4>1. bg' => shell = 2
        BY <3>1 DEF S!parse, S!parseBlank, S!parseLong, ShellInv, ForegroundInv
      <4>2. pc' # "waitpid"
        BY <3>1 DEF S!parse, S!parseBlank, S!parseLong
      <4> QED
        BY <4>1, <4>2
    <3>2. CASE ~(S!parse \/ S!parseBlank \/ S!parseLong)
      <4>1. bg' = bg
        BY <3>2 DEF S!fgets, S!fgetsNULL, S!Leave, S!ForkFails, S!waitpidFails
      <4>2. pc' = "waitpid" => ~bg
        BY <3>2 DEF S!fgets, S!fgetsNULL, S!Leave, S!ForkFails, S!waitpidFails, S!AfterFork
      <4>3. bg => shell = 2
        BY DEF ShellInv, ForegroundInv
      <4> QED
        BY <4>1, <4>2, <4>3
    <3> QED
      BY <3>1, <3>2
  <2>2. \/ pc # "waitpid"
        \/ pid = -1
    BY DEF S!fgets, S!fgetsNULL, S!Leave, S!parse, S!parseBlank, S!parseLong, S!ForkFails, S!waitpidFails
  <2>3. \A c \in 1 .. Len(ran) : ~ran[c].bg => child[c] = "reaped"
    <3>1. Len(ran) \in Nat
      BY LenProperties DEF ShellInv, ShellTypes
    <3>2. \A c \in 1 .. Len(ran) : c # -1
      BY <3>1
    <3> QED
      BY <2>2, <3>2 DEF ShellInv, ForegroundInv
  <2> QED
    BY <1>1, <2>1, <2>3 DEF ShellInv, ForegroundInv
<1>7. PICK n \in Nat : n = Len(ran) /\ \A c \in 1 .. n : ran[c].line \in Nat
  <2>1. PICK s \in Seq([line : Nat, bg : BOOLEAN]) : s = ran
    BY DEF ShellInv, ShellTypes
  <2>2. Len(s) \in Nat /\ \A c \in 1 .. Len(s) : s[c] \in [line : Nat, bg : BOOLEAN]
    BY LenProperties, ElementOfSeq
  <2> QED
    BY <2>1, <2>2
<1>8. \A c \in 2 .. n : c - 1 \in 1 .. n /\ c \in 1 .. n
  OBVIOUS
<1>9. \A c \in 1 .. n : ran[c].line <= b
  BY <1>2, <1>7 DEF ShellInv, LinesInv
<1>10. ~eof' \/ pc' \in {"parse", "fork"} => ~eof \/ pc \in {"parse", "fork"}
  BY DEF S!fgets, S!fgetsNULL, S!Leave, S!parse, S!parseBlank, S!parseLong, S!ForkFails, S!waitpidFails
<1>11. \A c \in 1 .. n : ran[c].line <= buf'.line
  BY <1>2, <1>3, <1>7, <1>9
<1>12. ASSUME ~eof', pc' \in {"parse", "fork"}
       PROVE  \A c \in 1 .. n : ran[c].line < buf'.line
  <2>1. CASE S!fgets
    <3>1. buf'.line = k + 1
      BY <2>1, <1>2 DEF S!fgets
    <3> QED
      BY <1>2, <1>7, <1>9, <3>1
  <2>2. CASE ~S!fgets
    <3>1. ~eof /\ pc = "parse" /\ buf' = buf
      BY <2>2, <1>12 DEF S!fgetsNULL, S!Leave, S!parse, S!parseBlank, S!parseLong, S!ForkFails,
                         S!waitpidFails, S!AfterFork
    <3> QED
      BY <1>7, <3>1 DEF ShellInv, LinesInv
  <2> QED
    BY <2>1, <2>2
<1>13. S!RunsInOrder'
  <2>1. CASE ~eof \/ pc \in {"parse", "fork"}
    <3>1. \A c \in 2 .. n : ran[c - 1].line < ran[c].line
      BY <2>1, <1>7 DEF ShellInv, LinesInv
    <3> QED
      BY <1>1, <1>7, <3>1 DEF S!RunsInOrder
  <2>2. CASE ~(~eof \/ pc \in {"parse", "fork"})
    <3>1. eof'
      BY <2>2, <1>10
    <3> QED
      BY <1>1, <3>1 DEF ShellInv, LinesInv, S!RunsInOrder
  <2> QED
    BY <2>1, <2>2
<1>14. LinesInv'
  <2>1. ~eof' \/ pc' \in {"parse", "fork"} => \A c \in 2 .. n : ran[c - 1].line < ran[c].line
    BY <1>7, <1>10 DEF ShellInv, LinesInv
  <2> QED
    BY <1>1, <1>7, <1>11, <1>12, <1>13, <2>1 DEF LinesInv
<1> QED
  BY <1>5, <1>6, <1>14 DEF ShellInv

\* A child of the shell ends, or the shell reaps the one that it waits for.
LEMMA ShellChild ==
    ASSUME ShellInv, S!waitpid \/ \E c \in DOMAIN child : S!Child(c)
    PROVE  ShellInv'
<1>1. /\ UNCHANGED <<shell, lines, eof, buf, bg, pid, ran>>
      /\ pc' = pc \/ (pc = "waitpid" /\ pc' = "loop")
  BY DEF S!waitpid, S!Child
<1>2. PICK c \in DOMAIN child, there \in {"zombie", "reaped"} :
        /\ child' = [child EXCEPT ![c] = there] /\ child[c] # "reaped"
        /\ \/ there = "zombie" /\ pc' = pc
           \/ there = "reaped" /\ pid \in {c, -1} /\ pc = "waitpid" /\ pc' = "loop"
  BY DEF S!waitpid, S!Child
<1>3. PICK n \in Nat : n = Len(ran) /\ n = Len(child) /\ DOMAIN child = 1 .. n
  BY LenProperties DEF ShellInv, ShellTypes
<1>4. /\ child' \in Seq({"running", "zombie", "reaped"}) /\ Len(child') = n
      /\ child'[c] = there /\ \A d \in 1 .. n : d # c => child'[d] = child[d]
  <2>1. PICK s \in Seq({"running", "zombie", "reaped"}) : s = child
    BY DEF ShellInv, ShellTypes
  <2>2. /\ [s EXCEPT ![c] = there] \in Seq({"running", "zombie", "reaped"})
        /\ Len([s EXCEPT ![c] = there]) = n
    BY <1>3, <2>1, ExceptSeq
  <2> QED
    BY <1>2, <1>3, <2>1, <2>2
<1>5. ShellTypes'
  <2>1. pc' \in {"loop", "parse", "fork", "waitpid", "end", "killed", "overrun"}
    BY <1>1 DEF ShellInv, ShellTypes
  <2> QED
    BY <1>1, <1>3, <1>4, <2>1 DEF ShellInv, ShellTypes
<1>6. ForegroundInv'
  <2>1. ASSUME NEW d \in 1 .. n, ~ran[d].bg
        PROVE  child'[d] = "reaped" \/ (pc' = "waitpid" /\ pid = d)
    <3>1. child[d] = "reaped" \/ (pc = "waitpid" /\ pid = d)
      BY <1>3, <2>1 DEF ShellInv, ForegroundInv
    <3>2. CASE child[d] = "reaped"
      BY <1>2, <1>4, <3>2
    <3>3. CASE pc = "waitpid" /\ pid = d
      <4>1. pid # -1
        BY <3>3
      <4> QED
        BY <1>2, <1>4, <3>3, <4>1
    <3> QED
      BY <3>1, <3>2, <3>3
  <2> QED
    BY <1>1, <1>3, <2>1 DEF ShellInv, ForegroundInv
<1>7. LinesInv'
  BY <1>1 DEF ShellInv, LinesInv, S!RunsInOrder
<1> QED
  BY <1>5, <1>6, <1>7 DEF ShellInv

\* A command is run in a new child.
LEMMA ShellForks ==
    ASSUME ShellInv, S!fork
    PROVE  ShellInv'
<1>1. /\ UNCHANGED <<shell, lines, eof, buf, bg>>
      /\ pc = "fork" /\ pc' = (IF bg THEN "loop" ELSE "waitpid")
  BY DEF S!fork, S!AfterFork
<1>2. PICK n \in Nat : n = Len(ran) /\ n = Len(child)
  BY LenProperties DEF ShellInv, ShellTypes
<1>3. PICK b \in Nat, g \in BOOLEAN : b = buf.line /\ g = bg
  BY DEF ShellInv, ShellTypes
<1>4. /\ child' \in Seq({"running", "zombie", "reaped"}) /\ Len(child') = n + 1
      /\ \A c \in 1 .. n : child'[c] = child[c]
  <2>1. PICK s \in Seq({"running", "zombie", "reaped"}) : s = child
    BY DEF ShellInv, ShellTypes
  <2>2. child' = Append(s, "running") /\ Len(s) = n
    BY <1>2, <2>1 DEF S!fork
  <2>3. /\ Append(s, "running") \in Seq({"running", "zombie", "reaped"})
        /\ Len(Append(s, "running")) = Len(s) + 1
        /\ \A c \in 1 .. Len(s) : Append(s, "running")[c] = s[c]
    BY AppendProperties
  <2> QED
    BY <2>1, <2>2, <2>3
<1>5. /\ ran' \in Seq([line : Nat, bg : BOOLEAN]) /\ Len(ran') = n + 1
      /\ ran'[n + 1].line = b /\ ran'[n + 1].bg = g
      /\ \A c \in 1 .. n : ran'[c] = ran[c]
  <2>1. PICK s \in Seq([line : Nat, bg : BOOLEAN]), e \in [line : Nat, bg : BOOLEAN] :
          s = ran /\ e = [line |-> b, bg |-> g]
    BY DEF ShellInv, ShellTypes
  <2>2. ran' = Append(s, e) /\ Len(s) = n
    BY <1>2, <1>3, <2>1 DEF S!fork
  <2>3. /\ Append(s, e) \in Seq([line : Nat, bg : BOOLEAN])
        /\ Len(Append(s, e)) = Len(s) + 1 /\ Append(s, e)[Len(s) + 1] = e
        /\ \A c \in 1 .. Len(s) : Append(s, e)[c] = s[c]
    BY AppendProperties
  <2>4. e.line = b /\ e.bg = g
    BY <2>1
  <2> QED
    BY <2>1, <2>2, <2>3, <2>4
<1>6. pid' = n + 1
  BY <1>4 DEF S!fork
<1>7. ShellTypes'
  <2>1. pc' \in {"loop", "parse", "fork", "waitpid", "end", "killed", "overrun"}
    BY <1>1
  <2> QED
    BY <1>1, <1>4, <1>5, <1>6, <2>1 DEF ShellInv, ShellTypes
<1>8. \A c \in 1 .. n + 1 : c \in 1 .. n \/ c = n + 1
  OBVIOUS
<1>9. ForegroundInv'
  <2>1. \A c \in 1 .. n : /\ ran[c].bg => shell = 2
                          /\ ~ran[c].bg => child[c] = "reaped"
    BY <1>1, <1>2 DEF ShellInv, ForegroundInv
  <2>2. bg => shell = 2
    BY DEF ShellInv, ForegroundInv
  <2>3. \A c \in 1 .. n + 1 : /\ ran'[c].bg => shell = 2
                              /\ ~ran'[c].bg => child'[c] = "reaped" \/ (~bg /\ c = n + 1)
    BY <1>3, <1>4, <1>5, <1>8, <2>1, <2>2
  <2> QED
    BY <1>1, <1>5, <1>6, <2>2, <2>3 DEF ForegroundInv
<1>10. LinesInv'
  <2>1. \A c \in 1 .. n : ran[c].line \in Nat
    <3>1. PICK s \in Seq([line : Nat, bg : BOOLEAN]) : s = ran
      BY DEF ShellInv, ShellTypes
    <3>2. \A c \in 1 .. Len(s) : s[c] \in [line : Nat, bg : BOOLEAN]
      BY ElementOfSeq
    <3> QED
      BY <1>2, <3>1, <3>2
  <2>2. \A c \in 1 .. n : ran[c].line <= b
    BY <1>2, <1>3 DEF ShellInv, LinesInv
  <2>3. \A c \in 2 .. n : ran[c - 1].line < ran[c].line
    BY <1>1, <1>2 DEF ShellInv, LinesInv
  <2>4. ~eof => \A c \in 1 .. n : ran[c].line < b
    BY <1>1, <1>2, <1>3 DEF ShellInv, LinesInv
  <2>5. \A c \in 1 .. n + 1 : ran'[c].line <= b
    BY <1>5, <1>8, <2>2
  <2>6. ASSUME NEW c \in 2 .. n + 1
        PROVE  /\ ran'[c - 1].line < ran'[c].line \/ (eof /\ c = n + 1 /\ ran'[c - 1].line = ran'[c].line)
    <3>1. CASE c = n + 1
      <4>1. c - 1 = n /\ n \in 1 .. n
        BY <3>1
      <4>2. ran'[c - 1].line = ran[n].line /\ ran'[c].line = b
        BY <1>5, <3>1, <4>1
      <4> QED
        BY <2>1, <2>2, <2>4, <3>1, <4>1, <4>2
    <3>2. CASE c # n + 1
      <4>1. c \in 2 .. n /\ c - 1 \in 1 .. n /\ c \in 1 .. n
        BY <3>2
      <4> QED
        BY <1>5, <2>3, <4>1
    <3> QED
      BY <3>1, <3>2
  <2>7. ~(pc' \in {"parse", "fork"})
    BY <1>1
  <2>8. S!RunsInOrder'
    BY <1>1, <1>5, <2>6 DEF S!RunsInOrder
  <2> QED
    BY <1>1, <1>3, <1>5, <2>5, <2>6, <2>7, <2>8 DEF LinesInv
<1> QED
  BY <1>7, <1>9, <1>10 DEF ShellInv

-----------------------------------------------------------------------------
(* The programs together *)

\* One step of each program keeps what it is about.
LEMMA ShmKeeps ==
    ASSUME ShmInv, M!Next
    PROVE  ShmInv'
<1>1. \/ M!fork \/ M!GetAndAttach \/ M!fill \/ M!detach \/ M!remove
      \/ M!kill("parent", "child", "detach") \/ M!Test("parent", "remove")
      \/ M!Test("child", "get") \/ M!shmget \/ M!shmat \/ M!print \/ M!ChildDetach
      \/ M!kill("child", "parent", "done")
      \/ \E p \in M!Procs : M!sighandler(p)
  BY DEF M!Next, M!Parent, M!Child
<1> QED
  BY <1>1, ShmForks, ShmSegment, ShmFills, ShmWaits, ShmAttaches, ShmPrints, ShmHandler

LEMMA ReapKeeps ==
    ASSUME ReapInv, R!Next
    PROVE  ReapInv'
<1>1. \/ R!fork \/ R!ForkFails \/ R!kill \/ R!wait \/ R!WaitFails \/ R!Test
      \/ R!Deliver \/ R!child_handler \/ R!HandlerNoChild
      \/ \E c \in R!Children : R!Child(c)
  BY DEF R!Next, R!Parent
<1> QED
  BY <1>1, ReapForks, ReapWaits, ReapReaps, ReapFails, ReapHandles, ReapChild

LEMMA PipeKeeps ==
    ASSUME PipeInv, P!Next
    PROVE  PipeInv'
<1>1. \/ P!fork \/ P!ForkFails \/ P!close \/ P!waitpid \/ P!write \/ P!read \/ P!EndOfFile
      \/ (\E p \in P!Procs : P!ChildWrites(p)) \/ (\E p \in P!Procs : P!exit(p))
  BY DEF P!Next, P!ParentStep
<1> QED
  BY <1>1, PipeForks, PipeGoesOn, PipeWrites, PipeReads

LEMMA FileKeeps ==
    ASSUME FileInv, F!Next
    PROVE  FileInv'
<1>1. \/ F!WriteMessage \/ F!Unlock \/ F!ForkWriters \/ F!WaitAndUnlink
      \/ (\E born \in BOOLEAN : F!ForkReader(born))
      \/ F!SetReadLock \/ F!lseek \/ F!read
      \/ (\E k \in Kids : F!WriteDigit(k))
      \/ (\E k \in Kids : F!sem_wait(k) \/ F!sem_post(k) \/ F!Killed(k))
  BY DEF F!Next, F!Program, F!ParentStep, F!ReaderStep, F!Kid
<1> QED
  BY <1>1, FileLocks, FileReads, FileMessage, FileSemaphore, FileDigits

LEMMA ShellKeeps ==
    ASSUME ShellInv, S!Next
    PROVE  ShellInv'
<1>1. \/ S!fgets \/ S!fgetsNULL \/ S!Leave \/ S!parse \/ S!parseBlank \/ S!parseLong
      \/ S!fork \/ S!ForkFails \/ S!waitpid \/ S!waitpidFails
      \/ \E c \in DOMAIN child : S!Child(c)
  BY DEF S!Next, S!Shell
<1> QED
  BY <1>1, ShellGoesOn, ShellForks, ShellChild

\* A step of another program does not touch it.
LEMMA ShmUntouched == ShmInv /\ UNCHANGED shmvars => ShmInv'
BY DEF ShmInv, ShmTypes, SegmentInv, PrintedInv, SignalInv, M!ChildPrintsWhatWasWritten, shmvars

LEMMA ReapUntouched == ReapInv /\ UNCHANGED reapvars => ReapInv'
BY DEF ReapInv, ReapTypes, ChildrenInv, TurnsInv, ReportsInv, CountInv, AsEnded, Reaped, Zombies,
       R!InState, R!Counting, R!Status, reapvars

LEMMA PipeUntouched == PipeInv /\ UNCHANGED pipevars => PipeInv'
BY DEF PipeInv, PipeTypes, WritersInv, P!PipeIsFIFO, pipevars

LEMMA FileUntouched == FileInv /\ UNCHANGED filevars => FileInv'
BY DEF FileInv, FileTypes, PlacesInv, LockInv, MutexInv, InSection, F!ReaderSeesMessage,
       F!DigitsTogether, filevars

LEMMA ShellUntouched == ShellInv /\ UNCHANGED shellvars => ShellInv'
<1> SUFFICES ASSUME ShellInv, UNCHANGED shellvars
             PROVE  ShellInv'
  OBVIOUS
<1>1. UNCHANGED <<shell, pc, lines, eof, buf, bg, pid, child, ran>>
  BY DEF shellvars
<1>2. ShellTypes'
  BY <1>1 DEF ShellInv, ShellTypes
<1>3. ForegroundInv'
  BY <1>1 DEF ShellInv, ForegroundInv
<1>4. LinesInv'
  BY <1>1 DEF ShellInv, LinesInv, S!RunsInOrder
<1> QED
  BY <1>2, <1>3, <1>4 DEF ShellInv

\* The inductive invariant of all of them.
LEMMA ExamplesInvariant == Spec => []ExamplesInv
<1>1. Init => ExamplesInv
  BY ShmStart, ReapStart, PipeStart, FileStart, ShellStart DEF Init, ExamplesInv
<1>2. ExamplesInv /\ [Next]_vars => ExamplesInv'
  <2> SUFFICES ASSUME ExamplesInv, [Next]_vars
               PROVE  ExamplesInv'
    OBVIOUS
  <2>1. ShmInv /\ ReapInv /\ PipeInv /\ FileInv /\ ShellInv
    BY DEF ExamplesInv
  <2>2. \/ M!Next /\ UNCHANGED <<reapvars, pipevars, filevars, shellvars>>
        \/ R!Next /\ UNCHANGED <<shmvars, pipevars, filevars, shellvars>>
        \/ P!Next /\ UNCHANGED <<shmvars, reapvars, filevars, shellvars>>
        \/ F!Next /\ UNCHANGED <<shmvars, reapvars, pipevars, shellvars>>
        \/ S!Next /\ UNCHANGED <<shmvars, reapvars, pipevars, filevars>>
        \/ UNCHANGED <<shmvars, reapvars, pipevars, filevars, shellvars>>
    BY DEF Next, Run, MOnly, ROnly, POnly, FOnly, SOnly, TOnly, vars, F!Next
  <2>3. ShmInv'
    BY <2>1, <2>2, ShmKeeps, ShmUntouched
  <2>4. ReapInv'
    BY <2>1, <2>2, ReapKeeps, ReapUntouched
  <2>5. PipeInv'
    BY <2>1, <2>2, PipeKeeps, PipeUntouched
  <2>6. FileInv'
    BY <2>1, <2>2, FileKeeps, FileUntouched
  <2>7. ShellInv'
    BY <2>1, <2>2, ShellKeeps, ShellUntouched
  <2> QED
    BY <2>3, <2>4, <2>5, <2>6, <2>7 DEF ExamplesInv
<1> QED
  BY <1>1, <1>2, PTL DEF Spec

\* Readers get what was written: shm-sync.c's child prints the bytes of its
\* parent, the pipes are queues, filepipe-lock.c's child sees the message, and
\* the digits of each child of sem-mutex.c lie together.
THEOREM ReadersGetWhatWasWritten == Spec => []ReadersSeeWrites
<1>1. ExamplesInv => ReadersSeeWrites
  BY DEF ExamplesInv, ReadersSeeWrites, ShmInv, PrintedInv, PipeInv, FileInv
<1> QED
  BY <1>1, ExamplesInvariant, PTL

\* csapp_forks.c: each wait reports a child of its own as it ended, and the
\* handlers count the children that they reap.
THEOREM ReportsAreOfEachChild == Spec => []EachStatusOnce
<1>1. ExamplesInv => EachStatusOnce
  <2> SUFFICES ASSUME ExamplesInv
               PROVE  R!EachStatusOnce
    BY DEF EachStatusOnce
  <2>1. ReapTypes /\ ReportsInv /\ CountInv
    BY DEF ExamplesInv, ReapInv
  <2>2. DOMAIN reports = 1 .. Len(reports)
    BY <2>1 DEF ReapTypes
  <2>3. \A m, n \in DOMAIN reports :
          m # n /\ reports[m].wpid # -1 => reports[m].wpid # reports[n].wpid
    BY <2>1, <2>2 DEF ReportsInv
  <2>4. ASSUME NEW m \in DOMAIN reports
        PROVE  /\ reports[m].wpid = -1 => failed # {}
               /\ reports[m].wpid # -1 =>
                    reports[m].status = R!Status(reports[m].wpid) /\ child_reap[reports[m].wpid] = "reaped"
               /\ option = 11 /\ failed = {} => reports[m].wpid = m
    BY <2>1, <2>2, <2>4 DEF ReportsInv, AsEnded, Reaped, R!InState
  <2>5. R!Counting => ccount = N - R!Cardinality(R!InState("reaped"))
    BY <2>1 DEF CountInv, Reaped, Cardinality, R!Cardinality
  <2> QED
    BY <2>3, <2>4, <2>5 DEF R!EachStatusOnce
<1> QED
  BY <1>1, ExamplesInvariant, PTL

\* simple_shell1.c, simple_shell2.c: the shell goes on when the command in the
\* foreground has been reaped, and runs commands in order.
THEOREM CommandsInTurn == Spec => []OneCommandAtATime
<1>1. ExamplesInv => OneCommandAtATime
  <2> SUFFICES ASSUME ExamplesInv
               PROVE  S!ForegroundReaped /\ S!RunsInOrder
    BY DEF OneCommandAtATime
  <2>1. ShellTypes /\ ForegroundInv /\ S!RunsInOrder
    BY DEF ExamplesInv, ShellInv, LinesInv
  <2>2. DOMAIN child = 1 .. Len(ran)
    BY <2>1, LenProperties DEF ShellTypes
  <2>3. S!ForegroundReaped
    <3>1. \A c \in 1 .. Len(ran) : ran[c].bg => shell = 2
      BY <2>1 DEF ForegroundInv
    <3>2. pc = "loop" => \A c \in 1 .. Len(ran) : ~ran[c].bg => child[c] = "reaped"
      BY <2>1 DEF ForegroundInv
    <3> QED
      BY <2>2, <3>1, <3>2 DEF S!ForegroundReaped
  <2> QED
    BY <2>1, <2>3
<1> QED
  BY <1>1, ExamplesInvariant, PTL

=============================================================================
