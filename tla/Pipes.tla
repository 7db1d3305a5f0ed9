------------------------------- MODULE Pipes --------------------------------
(***************************************************************************)
(* cs351/examples/io/pipe1.c, pipe2.c and pipe3.c: processes joined by a   *)
(* pipe.  read is at the end of the file only when no process has the      *)
(* write end open any more, and fork copies it to everyone.                *)
(***************************************************************************)
EXTENDS Integers, Sequences, FiniteSets, SequencesExt

CONSTANTS K,          \* writes to the pipe: 10 in pipe1.c, 9 in pipe2.c
          Parent      \* the process that makes the pipe; the others are 1 .. K

VARIABLES prog,       \* 1, 2 or 3: which of the programs runs
          pc,         \* where each process is
          i,          \* the parent's loop counter
          writers,    \* processes with the write end open
          pipe,       \* what has been written and not read
          wrote,      \* history: all that was written, in order
          out         \* what the reader has read

vars == <<prog, pc, i, writers, pipe, wrote, out>>

Procs == {Parent} \cup 1 .. K

\* Who reads, who writes: in pipe1.c the child reads, in pipe2.c the parent,
\* in pipe3.c the second child, wc, what the first, echo, writes.
Reader == CASE prog = 1 -> 1 [] prog = 2 -> Parent [] prog = 3 -> 2

Init ==
    /\ prog \in 1 .. 3
    /\ pc = [p \in Procs |-> IF p = Parent THEN "fork" ELSE "none"]
    /\ i = 1
    /\ writers = {Parent}
    /\ pipe = <<>> /\ wrote = <<>> /\ out = <<>>

Go(p, there) == pc' = [pc EXCEPT ![p] = there]

-----------------------------------------------------------------------------
(* The parent *)

\* Where a child starts, and where the parent goes after it.
ChildStart == CASE prog = 1 -> "read" [] prog = 2 -> "write"
                [] prog = 3 -> IF i = 1 THEN "write" ELSE "read"
AfterFork == CASE prog = 1 -> "write"
               [] prog = 2 -> IF i < K THEN "fork" ELSE "read"
               [] prog = 3 -> IF i = 1 THEN "close" ELSE "waitpid"

fork ==
    /\ pc[Parent] = "fork"
    /\ pc' = [pc EXCEPT ![i] = ChildStart, ![Parent] = AfterFork]
    /\ writers' = IF Parent \in writers THEN writers \cup {i} ELSE writers
    /\ i' = IF prog = 1 THEN i ELSE i + 1
    /\ UNCHANGED <<prog, pipe, wrote, out>>

\* fork is -1, and the parent goes on.
ForkFails ==
    /\ pc[Parent] = "fork"
    /\ Go(Parent, AfterFork)
    /\ i' = IF prog = 1 THEN i ELSE i + 1
    /\ UNCHANGED <<prog, writers, pipe, wrote, out>>

Bug_close_missing ==
    /\ pc[Parent] = "close" /\ Go(Parent, "fork")
    /\ UNCHANGED <<prog, i, writers, pipe, wrote, out>>

\* pipe3.c: close(fds[1]) before wc is forked.
close ==
    /\ pc[Parent] = "close" /\ Go(Parent, "fork")
    /\ writers' = writers \ {Parent}
    /\ UNCHANGED <<prog, i, pipe, wrote, out>>

\* pipe3.c waits for wc, or for any child where wc could not be forked.
waitpid ==
    /\ pc[Parent] = "waitpid"
    /\ IF pc[2] = "none" THEN pc[1] \in {"none", "end"} ELSE pc[2] = "end"
    /\ Go(Parent, "end")
    /\ UNCHANGED <<prog, i, writers, pipe, wrote, out>>

-----------------------------------------------------------------------------
(* Readers and writers *)

Put(v) == pipe' = Append(pipe, v) /\ wrote' = Append(wrote, v)

\* pipe1.c: the parent's loop, and its end, which closes what it has open.
write ==
    /\ prog = 1 /\ pc[Parent] = "write" /\ i <= K
    /\ Put(i) /\ i' = i + 1
    /\ pc' = IF i = K THEN [pc EXCEPT ![Parent] = "end"] ELSE pc
    /\ writers' = IF i = K THEN writers \ {Parent} ELSE writers
    /\ UNCHANGED <<prog, out>>

\* pipe2.c and pipe3.c: a child writes once, and exits.
ChildWrites(p) ==
    /\ p # Parent /\ pc[p] = "write" /\ Put(p) /\ Go(p, "exit")
    /\ UNCHANGED <<prog, i, writers, out>>

exit(p) ==
    /\ pc[p] = "exit" /\ Go(p, "end")
    /\ writers' = writers \ {p}
    /\ UNCHANGED <<prog, i, pipe, wrote, out>>

\* pipe1.c takes one int at a time and stops after K; the buffers of pipe2.c
\* and of wc hold all there is.
read ==
    LET n == IF prog = 1 THEN 1 ELSE Len(pipe)
    IN  /\ pc[Reader] = "read" /\ pipe # <<>>
        /\ out' = out \o SubSeq(pipe, 1, n)
        /\ pipe' = SubSeq(pipe, n + 1, Len(pipe))
        /\ IF prog = 1 /\ Len(out') = K THEN Go(Reader, "exit") ELSE UNCHANGED pc
        /\ UNCHANGED <<prog, i, writers, wrote>>

EndOfFile ==
    /\ pc[Reader] = "read" /\ pipe = <<>> /\ writers = {}
    /\ Go(Reader, "exit")
    /\ UNCHANGED <<prog, i, writers, pipe, wrote, out>>

ParentStep == fork \/ ForkFails \/ close \/ waitpid \/ write
Next ==
    \/ ParentStep \/ read \/ EndOfFile
    \/ \E p \in Procs : ChildWrites(p) \/ exit(p)

Spec == Init /\ [][Next]_vars

-----------------------------------------------------------------------------
(* Properties *)

\* The reader gets all that was written, once and in the order of the writes.
PipeIsFIFO == wrote = out \o pipe /\ IsInjective(wrote)

\* Everything that is written is read, and pipe1.c and pipe3.c come to an end,
\* whichever forks fail.  pipe2.c does not: its reader keeps the write end open.
Ends ==
    /\ (pipe # <<>> /\ pc[Reader] # "none") ~> pipe = <<>>
    /\ <>[](\A p \in Procs : pc[p] \in {"none", "end"} \/ (prog = 2 /\ p = Parent))

=============================================================================
