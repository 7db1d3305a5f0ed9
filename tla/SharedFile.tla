----------------------------- MODULE SharedFile -----------------------------
(***************************************************************************)
(* cs351/examples/io/filepipe-lock.c, where a parent and its child take    *)
(* turns on a file with a record lock, and sem-mutex.c, where children     *)
(* take turns with a named semaphore.  Both files are open before fork, so *)
(* that everyone shares one file offset.                                   *)
(***************************************************************************)
EXTENDS Integers, Sequences, FiniteSets, SequencesExt

CONSTANTS Kids,       \* the children of sem-mutex.c: 5 in the code
          DIGITS,     \* what each of them writes: 10 digits in the code
          MSG         \* length of the message of filepipe-lock.c: 13

VARIABLES prog,       \* "lock" or "mutex"
          pc,         \* where each process is
          lockable,   \* fl.l_start, never set, happens to be valid
          lock,       \* who holds a lock on the file: "none" or a process
          mutex,      \* value of /mutex; an earlier run may have left 0
          left,       \* history: the value sem_open found
          file, offset,
          j,          \* the loop counter of each child
          buf         \* what the child of filepipe-lock.c has read

vars == <<prog, pc, lockable, lock, mutex, left, file, offset, j, buf>>

Procs == {"parent"} \cup Kids
Reader == CHOOSE k \in Kids : TRUE
OLD == [by |-> "old", digit |-> 0]
Message == [x \in 1 .. MSG |-> [by |-> "parent", digit |-> x]]
NotRead == <<"not read">>

\* shared.txt is not truncated: it may hold what an earlier run wrote.
Init ==
    /\ prog \in {"lock", "mutex"}
    /\ pc = [p \in Procs |-> IF p = "parent" THEN "fork" ELSE "none"]
    /\ lockable \in BOOLEAN
    /\ left \in 0 .. 1 /\ mutex = left
    /\ \E n \in {0, MSG + 1} : file = [x \in 1 .. n |-> OLD]
    /\ lock = IF prog = "lock" /\ lockable THEN "parent" ELSE "none"
    /\ offset = 0
    /\ j = [k \in Kids |-> 0]
    /\ buf = NotRead

Go(p, there) == pc' = [pc EXCEPT ![p] = there]

\* write at the shared offset, over what is there.
Put(v) ==
    /\ file' = IF offset < Len(file) THEN [file EXCEPT ![offset + 1] = v]
               ELSE Append(file, v)
    /\ offset' = offset + 1

-----------------------------------------------------------------------------
(* filepipe-lock.c *)

ForkReader(forked) ==
    /\ prog = "lock" /\ pc["parent"] = "fork"
    /\ pc' = [pc EXCEPT !["parent"] = "write", ![Reader] = IF forked THEN "setlkw" ELSE "none"]
    /\ UNCHANGED <<prog, lockable, lock, mutex, left, file, offset, j, buf>>

\* One write of the whole message, at the shared offset.
WriteMessage ==
    /\ prog = "lock" /\ pc["parent"] = "write" /\ Go("parent", "unlock")
    /\ file' = SubSeq(file, 1, offset) \o Message \o SubSeq(file, offset + MSG + 1, Len(file))
    /\ offset' = offset + MSG
    /\ UNCHANGED <<prog, lockable, lock, mutex, left, j, buf>>

Unlock ==
    /\ prog = "lock" /\ pc["parent"] = "unlock" /\ Go("parent", "end")
    /\ lock' = IF lock = "parent" THEN "none" ELSE lock
    /\ UNCHANGED <<prog, lockable, mutex, left, file, offset, j, buf>>

\* F_SETLKW waits for the parent's lock, or fails at once on a bad l_start.
SetReadLock ==
    /\ pc[Reader] = "setlkw" /\ (lockable => lock = "none") /\ Go(Reader, "lseek")
    /\ lock' = IF lockable THEN Reader ELSE lock
    /\ UNCHANGED <<prog, lockable, mutex, left, file, offset, j, buf>>

lseek ==
    /\ pc[Reader] = "lseek" /\ Go(Reader, "read")
    /\ offset' = 0
    /\ UNCHANGED <<prog, lockable, lock, mutex, left, file, j, buf>>

read ==
    /\ pc[Reader] = "read" /\ Go(Reader, "end")
    /\ buf' = SubSeq(file, offset + 1, Len(file))
    /\ offset' = Len(file)
    /\ lock' = IF lock = Reader THEN "none" ELSE lock
    /\ UNCHANGED <<prog, lockable, mutex, left, file, j>>

-----------------------------------------------------------------------------
(* sem-mutex.c *)

ForkWriters ==
    /\ prog = "mutex" /\ pc["parent"] = "fork"
    /\ \E born \in SUBSET Kids :
        pc' = [p \in Procs |-> IF p = "parent" THEN "wait"
                               ELSE IF p \in born THEN "sem_wait" ELSE "none"]
    /\ UNCHANGED <<prog, lockable, lock, mutex, left, file, offset, j, buf>>

sem_wait(k) ==
    /\ pc[k] = "sem_wait" /\ mutex > 0 /\ Go(k, "digits")
    /\ mutex' = mutex - 1
    /\ UNCHANGED <<prog, lockable, lock, left, file, offset, j, buf>>

WriteDigit(k) ==
    /\ pc[k] = "digits" /\ Put([by |-> k, digit |-> j[k]])
    /\ j' = [j EXCEPT ![k] = @ + 1]
    /\ IF j[k] + 1 = DIGITS THEN Go(k, "sem_post") ELSE UNCHANGED pc
    /\ UNCHANGED <<prog, lockable, lock, mutex, left, buf>>

sem_post(k) ==
    /\ pc[k] = "sem_post" /\ Go(k, "end")
    /\ mutex' = mutex + 1
    /\ UNCHANGED <<prog, lockable, lock, left, file, offset, j, buf>>

\* A child is killed, and does not give back what it holds.
Killed(k) ==
    /\ prog = "mutex" /\ pc[k] \in {"sem_wait", "digits", "sem_post"} /\ Go(k, "killed")
    /\ UNCHANGED <<prog, lockable, lock, mutex, left, file, offset, j, buf>>

\* while (wait(NULL) >= 0); sem_unlink
WaitAndUnlink ==
    /\ pc["parent"] = "wait" /\ \A k \in Kids : pc[k] \in {"none", "end", "killed"}
    /\ Go("parent", "end")
    /\ UNCHANGED <<prog, lockable, lock, mutex, left, file, offset, j, buf>>

Kid(k) == sem_wait(k) \/ WriteDigit(k) \/ sem_post(k)
ParentStep ==
    \/ WriteMessage \/ Unlock \/ ForkWriters \/ WaitAndUnlink
    \/ \E forked \in BOOLEAN : ForkReader(forked)
ReaderStep == SetReadLock \/ lseek \/ read

Program == ParentStep \/ ReaderStep \/ \E k \in Kids : Kid(k)
Next == Program \/ \E k \in Kids : Killed(k)

Spec == Init /\ [][Next]_vars

-----------------------------------------------------------------------------
(* Properties *)

\* The child of filepipe-lock.c reads all of its parent's message, and after
\* it what a longer file still held, provided that both locks are granted.
ReaderSeesMessage ==
    (prog = "lock" /\ lockable /\ buf # NotRead) =>
        /\ Len(buf) >= MSG /\ SubSeq(buf, 1, MSG) = Message
        /\ \A x \in MSG + 1 .. Len(buf) : buf[x] = OLD

\* The digits of a child of sem-mutex.c lie together and in order in the file,
\* also when children are killed, and nobody overwrites another's.
DigitsTogether ==
    prog = "mutex" =>
        /\ \A x \in 1 .. offset : file[x].digit = 0 \/
            (x > 1 /\ file[x - 1] = [file[x] EXCEPT !.digit = @ - 1])
        /\ \A k \in Kids : Cardinality({x \in 1 .. offset : file[x].by = k}) = j[k]

\* Everyone comes to an end, except when the semaphore was left at 0, by an
\* earlier run or by a child that was killed with it.
Ends ==
    <>[](\/ \A p \in Procs : pc[p] \in {"none", "end", "killed"}
         \/ prog = "mutex" /\ mutex = 0
            /\ (left = 0 \/ \E k \in Kids : pc[k] = "killed"))

=============================================================================
