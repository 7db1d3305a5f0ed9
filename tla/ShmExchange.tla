---------------------------- MODULE ShmExchange -----------------------------
(***************************************************************************)
(* cs351/examples/io/shm-sync.c and shm-unsync.c: a parent fills a shared  *)
(* memory segment, its child prints it.  The first program keeps the two   *)
(* in step with SIGUSR1, the second does not.                              *)
(***************************************************************************)
EXTENDS Integers, Sequences, SequencesExt

CONSTANT SHM_SIZE

VARIABLES sync,       \* TRUE for shm-sync.c, FALSE for shm-unsync.c
          at,         \* where the parent and the child are
          i,          \* the loop counter of each
          sig_recvd, pending,     \* of each: the flag, SIGUSR1 not yet handled
          forked,     \* FALSE: fork returned -1, which is not 0
          shm,        \* the segment behind SHM_KEY
          leftover,   \* a run that was killed left a segment behind
          printed

vars == <<sync, at, i, sig_recvd, pending, forked, shm, leftover, printed>>

Procs == {"parent", "child"}
JUNK == -1
Bytes(b) == [j \in 0 .. SHM_SIZE - 1 |-> b]
NoSegment == [exists |-> FALSE, data |-> Bytes(0), attached |-> {}]
Attach(s, p) == [s EXCEPT !.attached = @ \cup {p}]
Detach(s, p) == [s EXCEPT !.attached = @ \ {p}]

Init ==
    /\ sync \in BOOLEAN /\ leftover \in BOOLEAN
    /\ at = [parent |-> "fork", child |-> "none"]
    /\ i = [p \in Procs |-> 0]
    /\ sig_recvd = [p \in Procs |-> FALSE] /\ pending = [p \in Procs |-> FALSE]
    /\ forked = TRUE
    /\ shm = IF leftover THEN [NoSegment EXCEPT !.exists = TRUE, !.data = Bytes(JUNK)]
             ELSE NoSegment
    /\ printed = <<>>

Go(p, there) == at' = [at EXCEPT ![p] = there]

-----------------------------------------------------------------------------
(* Signals *)

\* sighandler: it interrupts pause, and after it the flag is tested again.
sighandler(p) ==
    /\ pending[p]
    /\ pending' = [pending EXCEPT ![p] = FALSE]
    /\ sig_recvd' = [sig_recvd EXCEPT ![p] = TRUE]
    /\ IF at[p] = "pause" THEN Go(p, "test") ELSE UNCHANGED at
    /\ UNCHANGED <<sync, i, forked, shm, leftover, printed>>

\* while (!sig_recvd) pause();  The signal may come between test and pause.
Test(p, there) ==
    /\ \/ at[p] = "test" /\ Go(p, IF sig_recvd[p] THEN there ELSE "call")
       \/ at[p] = "call" /\ Go(p, "pause")
    /\ UNCHANGED <<sync, i, sig_recvd, pending, forked, shm, leftover, printed>>

kill(p, other, there) ==
    /\ at[p] = "kill" /\ Go(p, there)
    /\ pending' = [pending EXCEPT ![other] = forked]
    /\ UNCHANGED <<sync, i, sig_recvd, forked, shm, leftover, printed>>

-----------------------------------------------------------------------------
(* The parent *)

fork ==
    /\ at.parent = "fork"
    /\ forked' \in BOOLEAN
    /\ at' = [parent |-> "get",
              child |-> IF ~forked' THEN "none" ELSE IF sync THEN "test" ELSE "get"]
    /\ UNCHANGED <<sync, i, sig_recvd, pending, shm, leftover, printed>>

\* A segment that exists is the one it gets, whatever it holds.
GetAndAttach ==
    /\ at.parent = "get" /\ Go("parent", "memset")
    /\ shm' = Attach([shm EXCEPT !.exists = TRUE], "parent")
    /\ UNCHANGED <<sync, i, sig_recvd, pending, forked, leftover, printed>>

Store(b, there) ==
    /\ IF i.parent + 1 = SHM_SIZE
       THEN i' = [i EXCEPT !.parent = 0] /\ Go("parent", there)
       ELSE i' = [i EXCEPT !.parent = @ + 1] /\ UNCHANGED at
    /\ shm' = [shm EXCEPT !.data[i.parent] = b]
    /\ UNCHANGED <<sync, sig_recvd, pending, forked, leftover, printed>>

Bug_fill_late ==      \* tells the child before it fills the segment
    \/ at.parent = "memset" /\ Store(0, IF sync THEN "kill" ELSE "fill")
    \/ at.parent = "fill" /\ Store(i.parent, "detach")

fill ==
    \/ at.parent = "memset" /\ Store(0, "fill")
    \/ at.parent = "fill" /\ Store(i.parent, IF sync THEN "kill" ELSE "detach")

detach ==
    /\ at.parent = "detach" /\ Go("parent", IF sync THEN "test" ELSE "remove")
    /\ shm' = Detach(shm, "parent")
    /\ UNCHANGED <<sync, i, sig_recvd, pending, forked, leftover, printed>>

\* IPC_RMID: who is attached keeps the segment, nobody else can get it.
remove ==
    /\ at.parent = "remove" /\ Go("parent", "done")
    /\ shm' = [shm EXCEPT !.exists = FALSE]
    /\ UNCHANGED <<sync, i, sig_recvd, pending, forked, leftover, printed>>

Parent ==
    \/ fork \/ GetAndAttach \/ fill \/ detach \/ remove
    \/ kill("parent", "child", "detach") \/ Test("parent", "remove")

-----------------------------------------------------------------------------
(* The child *)

shmget ==
    /\ at.child = "get" /\ Go("child", IF shm.exists THEN "shmat" ELSE "failed")
    /\ UNCHANGED <<sync, i, sig_recvd, pending, forked, shm, leftover, printed>>

\* shmat of a segment that has been removed is -1, and is read all the same.
shmat ==
    /\ at.child = "shmat"
    /\ IF shm.exists
       THEN Go("child", "print") /\ shm' = Attach(shm, "child")
       ELSE Go("child", "killed") /\ UNCHANGED shm
    /\ UNCHANGED <<sync, i, sig_recvd, pending, forked, leftover, printed>>

print ==
    /\ at.child = "print"
    /\ printed' = Append(printed, shm.data[i.child])
    /\ i' = [i EXCEPT !.child = @ + 1]
    /\ IF i.child + 1 = SHM_SIZE THEN Go("child", "detach") ELSE UNCHANGED at
    /\ UNCHANGED <<sync, sig_recvd, pending, forked, shm, leftover>>

ChildDetach ==
    /\ at.child = "detach" /\ Go("child", IF sync THEN "kill" ELSE "done")
    /\ shm' = Detach(shm, "child")
    /\ UNCHANGED <<sync, i, sig_recvd, pending, forked, leftover, printed>>

Child ==
    \/ Test("child", "get") \/ shmget \/ shmat \/ print \/ ChildDetach
    \/ kill("child", "parent", "done")

Next == Parent \/ Child \/ \E p \in Procs : sighandler(p)

Spec == Init /\ [][Next]_vars

-----------------------------------------------------------------------------
(* Properties *)

\* With the signals the child prints what the parent wrote, of this run, and
\* always finds the segment.  Without, it may find nothing, but each byte it
\* prints is one that was there: cleared, or written, or of an earlier run.
ChildPrintsWhatWasWritten ==
    /\ sync => at.child \notin {"failed", "killed"}
    /\ \A j \in DOMAIN printed :
        \/ printed[j] = j - 1
        \/ ~sync /\ printed[j] = 0
        \/ ~sync /\ leftover /\ printed[j] = JUNK

\* The signal came between the test of the flag and pause.
WakeupLost == \E p \in Procs : at[p] = "pause" /\ sig_recvd[p]

\* Both processes come to their end, unless a signal was lost or fork failed.
Ends ==
    <>[](\/ at.parent = "done" /\ at.child \in {"done", "failed", "killed"}
         \/ WakeupLost \/ ~forked)

\* "tell child to continue": once the parent has sent the signal, the child
\* goes on to the segment.
ChildContinues ==
    (sync /\ forked /\ at.parent = "detach") ~> at.child \notin {"test", "call", "pause"}

=============================================================================
