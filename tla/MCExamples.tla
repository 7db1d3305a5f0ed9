----------------------------- MODULE MCExamples -----------------------------
(***************************************************************************)
(* The small programs of cs351/examples/io and cs351/examples/processes.   *)
(* One of them runs; the variables of the others keep their first value.   *)
(***************************************************************************)
EXTENDS Integers, Sequences, TLC

CONSTANTS SHM_SIZE, N, K, Kids, DIGITS, MSG, MaxLines,
          Options,    \* of csapp_forks.c, those that ForkTree is about
          Programs    \* the modules that take part

\* A segment, a message and a number have at least a byte, there are children
\* and the last of pipe3.c is one of them; a name is a process or "none".
ASSUME ExampleConstants ==
    /\ {SHM_SIZE, N, DIGITS, MSG} \subseteq Nat \ {0}
    /\ K \in Nat /\ K > 1
    /\ Kids # {} /\ {"parent", "none"} \cap Kids = {}

VARIABLES which,
          sync, at, i_shm, sig_recvd, pending, forked, shm, leftover, printed,
          option, pc_reap, i_reap, child_reap, failed, sigint, sigchld, handler, ccount, reports,
          prog_pipe, pc_pipe, i_pipe, writers, pipe, wrote, out,
          prog_file, pc_file, lockable, lock, mutex, left, file, offset, j, buf_file,
          shell, pc, lines, eof, buf, bg, pid, child, ran,
          option_tree, terminal, at_tree, var_x, buffer, zombies, reaped, failed_tree, out_tree

M == INSTANCE ShmExchange WITH i <- i_shm
R == INSTANCE ForkReap WITH pc <- pc_reap, i <- i_reap, child <- child_reap
P == INSTANCE Pipes WITH prog <- prog_pipe, pc <- pc_pipe, i <- i_pipe, Parent <- 0
F == INSTANCE SharedFile WITH prog <- prog_file, pc <- pc_file, buf <- buf_file
S == INSTANCE SimpleShell
T == INSTANCE ForkTree WITH option <- option_tree, at <- at_tree, failed <- failed_tree, out <- out_tree

shmvars == <<sync, at, i_shm, sig_recvd, pending, forked, shm, leftover, printed>>
reapvars == <<option, pc_reap, i_reap, child_reap, failed, sigint, sigchld, handler, ccount, reports>>
pipevars == <<prog_pipe, pc_pipe, i_pipe, writers, pipe, wrote, out>>
filevars == <<prog_file, pc_file, lockable, lock, mutex, left, file, offset, j, buf_file>>
shellvars == <<shell, pc, lines, eof, buf, bg, pid, child, ran>>
treevars == <<option_tree, terminal, at_tree, var_x, buffer, zombies, reaped, failed_tree, out_tree>>
vars == <<which, shmvars, reapvars, pipevars, filevars, shellvars, treevars>>

\* The others do not matter: each is left at one of its initial states.
Idle ==
    /\ which # "shm" => ~sync /\ ~leftover
    /\ which # "reap" => option = 10
    /\ which # "pipe" => prog_pipe = 1
    /\ which # "file" => prog_file = "lock" /\ ~lockable /\ left = 0 /\ file = <<>>
    /\ which # "shell" => shell = 1
    /\ which # "tree" => option_tree = 6 /\ terminal

Init == which \in Programs /\ M!Init /\ R!Init /\ P!Init /\ F!Init /\ S!Init /\ T!TreeInit /\ Idle

MOnly == which = "shm" /\ UNCHANGED <<which, reapvars, pipevars, filevars, shellvars, treevars>>
ROnly == which = "reap" /\ UNCHANGED <<which, shmvars, pipevars, filevars, shellvars, treevars>>
POnly == which = "pipe" /\ UNCHANGED <<which, shmvars, reapvars, filevars, shellvars, treevars>>
FOnly == which = "file" /\ UNCHANGED <<which, shmvars, reapvars, pipevars, shellvars, treevars>>
SOnly == which = "shell" /\ UNCHANGED <<which, shmvars, reapvars, pipevars, filevars, treevars>>
TOnly == which = "tree" /\ UNCHANGED <<which, shmvars, reapvars, pipevars, filevars, shellvars>>

Run ==
    \/ M!Next /\ MOnly
    \/ R!Next /\ ROnly
    \/ P!Next /\ POnly
    \/ F!Program /\ FOnly
    \/ S!Next /\ SOnly
    \/ T!TreeNext /\ TOnly

Next == Run \/ (F!Next /\ FOnly)

\* None of the programs can take steps for ever, so it is enough that they do
\* not all stop where one of their processes could go on.
Spec == Init /\ [][Next]_vars /\ WF_vars(Run)

-----------------------------------------------------------------------------
(* The properties of the programs *)

\* shm-sync.c, pipe1.c to pipe3.c and filepipe-lock.c: the reader gets what
\* the writer wrote, all of it, once, in order; sem-mutex.c keeps what the
\* writers wrote apart.
ReadersSeeWrites ==
    M!ChildPrintsWhatWasWritten /\ P!PipeIsFIFO /\ F!ReaderSeesMessage /\ F!DigitsTogether

\* csapp_forks.c: each wait reports a child of its own, and the handlers count
\* the children that they reap.
EachStatusOnce == R!EachStatusOnce

\* simple_shell1.c, simple_shell2.c: commands run in order, and the shell goes
\* on when the one in the foreground has been reaped.
OneCommandAtATime == S!ForegroundReaped /\ S!RunsInOrder

\* Every program comes to its end, except in the cases that its module names.
\* In csapp_forks.c no child stays a zombie, and at the end the lines of a tree
\* of forks have been written as often as the tree says.
Ends ==
    /\ which = "shm" => M!Ends
    /\ which = "reap" => R!Ends /\ R!EveryChildReaped
    /\ which = "pipe" => P!Ends
    /\ which = "file" => F!Ends
    /\ which = "shell" => S!Ends
    /\ which = "tree" => T!Ends

\* shm-sync.c: "tell child to continue".
ChildContinues == which = "shm" => M!ChildContinues

=============================================================================
