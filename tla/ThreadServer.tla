---------------------------- MODULE ThreadServer ----------------------------
(***************************************************************************)
(* cs351/examples/networking/threadserv.c: a main thread that accepts, and *)
(* a detached thread for each connection, which is handed its descriptor   *)
(* in a block of the heap that it frees.                                   *)
(***************************************************************************)
EXTENDS EchoSockets

CONSTANTS Fds,        \* the descriptors above stdin, stdout and stderr
          Blocks,     \* blocks that malloc can return
          Threads     \* thread IDs

VARIABLES pc,         \* main: "malloc", "accept", "create", "dead"
          fd_client,  \* the block main malloced last
          file,       \* the connection behind each descriptor
          heap,       \* what each block holds
          thread,     \* the threads: where, their argument, descriptor, buffer
          orphans     \* history: blocks whose pthread_create failed

mainvars == <<pc, fd_client, file, heap, thread, orphans>>
vars == <<sockvars, mainvars>>

None == 0             \* no block, no descriptor
Unused == -1          \* of a block: malloc may return it
Uninit == -2          \* of a block: nothing stored in it yet
Free == "free"        \* of a descriptor
Listener == "listener"
NoThread == [pc |-> "none", vargp |-> None, fd |-> None, buf |-> EmptyBuf]

Init ==
    /\ SockInit
    /\ pc = "malloc" /\ fd_client = None
    /\ file = [f \in Fds |-> IF f = Min(Fds) THEN Listener ELSE Free]
    /\ heap = [b \in Blocks |-> Unused]
    /\ thread = [t \in Threads |-> NoThread]
    /\ orphans = {}

-----------------------------------------------------------------------------
(* The main thread *)

Bug_malloc_reuse ==   \* malloc before the loop: one block for all connections
    /\ pc = "malloc"
    /\ \E b \in Blocks :
        /\ fd_client \in {None, b}
        /\ fd_client' = b
        /\ heap' = [heap EXCEPT ![b] = Uninit]
    /\ pc' = "accept"
    /\ UNCHANGED <<sockvars, file, thread, orphans>>

malloc ==
    /\ pc = "malloc"
    /\ \E b \in Blocks :
        /\ heap[b] = Unused
        /\ fd_client' = b
        /\ heap' = [heap EXCEPT ![b] = Uninit]
    /\ pc' = "accept"
    /\ UNCHANGED <<sockvars, file, thread, orphans>>

\* Descriptors do not run out: there are more of them than clients.
accept ==
    LET fd == Min({f \in Fds : file[f] = Free})
    IN  /\ pc = "accept" /\ Accept
        /\ Free \in {file[f] : f \in Fds}
        /\ file' = [file EXCEPT ![fd] = Head(backlog)]
        /\ heap' = [heap EXCEPT ![fd_client] = fd]
        /\ pc' = "create"
        /\ UNCHANGED <<fd_client, thread, orphans>>

Live == {t \in Threads : thread[t].pc # "none"}

pthread_create ==
    /\ pc = "create" /\ Live # Threads
    /\ thread' = [thread EXCEPT ![Min(Threads \ Live)] =
                    [NoThread EXCEPT !.pc = "start", !.vargp = fd_client]]
    /\ pc' = "malloc"
    /\ UNCHANGED <<sockvars, fd_client, file, heap, orphans>>

\* The result of pthread_create is not looked at: main goes on to the next.
\* What else runs on the machine decides when it fails.
CreateFails ==
    /\ pc = "create"
    /\ orphans' = orphans \cup {fd_client}
    /\ pc' = "malloc"
    /\ UNCHANGED <<sockvars, fd_client, file, heap, thread>>

-----------------------------------------------------------------------------
(* A thread: its argument, detach and free, echo, close *)

start(t) ==
    /\ thread[t].pc = "start"
    /\ thread' = [thread EXCEPT ![t].fd = heap[thread[t].vargp], ![t].pc = "free"]
    /\ UNCHANGED <<sockvars, pc, fd_client, file, heap, orphans>>

free(t) ==
    /\ thread[t].pc = "free"
    /\ heap' = [heap EXCEPT ![thread[t].vargp] = Unused]
    /\ thread' = [thread EXCEPT ![t].pc = "read", ![t].vargp = None]
    /\ UNCHANGED <<sockvars, pc, fd_client, file, orphans>>

Conn(t) == file[thread[t].fd]

read(t) ==
    /\ thread[t].pc = "read" /\ Read(Conn(t))
    /\ thread' = [thread EXCEPT ![t].buf = ReadResult(Conn(t)), ![t].pc = "write"]
    /\ UNCHANGED <<pc, fd_client, file, heap, orphans>>

write(t) ==
    /\ thread[t].pc = "write" /\ Write(Conn(t), thread[t].buf)
    /\ thread' = [thread EXCEPT ![t].pc = "close"]
    /\ UNCHANGED <<pc, fd_client, file, heap, orphans>>

\* The signal ends the process, every thread of it.
SIGPIPE(t) ==
    /\ thread[t].pc = "write" /\ WriteKills(Conn(t), thread[t].buf)
    /\ Exit /\ pc' = "dead"
    /\ thread' = [u \in Threads |-> NoThread]
    /\ UNCHANGED <<fd_client, file, heap, orphans>>

close(t) ==           \* and return: a detached thread leaves nothing behind
    /\ thread[t].pc = "close" /\ Close({Conn(t)})
    /\ file' = [file EXCEPT ![thread[t].fd] = Free]
    /\ thread' = [thread EXCEPT ![t] = NoThread]
    /\ UNCHANGED <<pc, fd_client, heap, orphans>>

Main == malloc \/ accept \/ pthread_create \/ CreateFails
Thread(t) == start(t) \/ free(t) \/ read(t) \/ write(t) \/ SIGPIPE(t) \/ close(t)

Clientele ==
    /\ \E c \in Clients : (pc # "dead" /\ Connect(c)) \/ Client(c)
    /\ UNCHANGED mainvars

Next == Main \/ Clientele \/ \E t \in Threads : Thread(t)

Spec == Init /\ [][Next]_vars

\* Every thread runs on; of the clients only those that are not silent do.
FairSpec ==
    /\ Spec /\ WF_vars(Main) /\ \A t \in Threads : WF_vars(Thread(t))
    /\ \A c \in Clients \ Silent : WF_vars(Client(c) /\ UNCHANGED mainvars)

-----------------------------------------------------------------------------
(* Properties *)

\* Types of the variables of the process.
TypeOK ==
    /\ SockTypeOK
    /\ pc \in {"malloc", "accept", "create", "dead"}
    /\ fd_client \in Blocks \cup {None}
    /\ file \in [Fds -> Clients \cup {Listener, Free}]
    /\ heap \in [Blocks -> Fds \cup {Unused, Uninit}]
    /\ \A t \in Threads :
        /\ thread[t].pc \in {"none", "start", "free", "read", "write", "close"}
        /\ thread[t].vargp \in Blocks \cup {None}
        /\ thread[t].fd \in Fds \cup {None}
        /\ thread[t].buf.nread \in -1 .. BUF
    /\ orphans \subseteq Blocks

\* Each block is handed from main to one thread that frees it: every block in
\* use has one owner, nobody owns a block that is not, and a thread that reads
\* its argument finds in it the descriptor that main put there.
OneOwnerPerBlock ==
    pc # "dead" => \A b \in Blocks :
        LET owners == {t \in Threads : thread[t].vargp = b}
                      \cup (IF pc \in {"accept", "create"} /\ fd_client = b THEN {0} ELSE {})
                      \cup (IF b \in orphans THEN {-1} ELSE {})
        IN  /\ heap[b] = Unused <=> owners = {}
            /\ Cardinality(owners) <= 1
            /\ heap[b] = Uninit => pc = "accept" /\ fd_client = b

\* Each connection that was accepted is in the hands of one thread, which will
\* close it: no two threads have the same descriptor, and none is forgotten,
\* except with the argument of a thread that could not be created.
OneThreadPerConnection ==
    pc # "dead" => \A f \in Fds \ {Min(Fds)} :
        LET serving == {t \in Threads : thread[t].pc \notin {"none", "start"} /\ thread[t].fd = f}
            waiting == {b \in Blocks : heap[b] = f /\ \A t \in serving : thread[t].vargp # b}
        IN  Cardinality(serving) + Cardinality(waiting) = IF file[f] = Free THEN 0 ELSE 1

\* Every connection accepted and not yet closed is behind one descriptor, and
\* a connection that was closed is behind none.
OneDescriptorEach ==
    pc # "dead" => \A c \in Clients :
        Cardinality({f \in Fds : file[f] = c}) = IF conn[c] = "open" THEN 1 ELSE 0

\* A client is hung up on without its answer only when it left first, or the
\* process went down, for which a client must reset between the read and the
\* write of its bytes.
OthersUnharmed ==
    /\ \A c \in Clients : conn[c] = "closed" => DoneWith(c) \/ pc = "dead"
    /\ pc = "dead" => \E c \in Clients : ResetInBetween(c)

\* The server answers as an echo server does: each client its own bytes, once.
Echo == INSTANCE EchoSpec WITH
    MayRefuse <- FALSE,
    Unnamed <- {},
    status <- [c \in Clients |-> IF conn[c] = "queued" THEN "open" ELSE conn[c]]
ImplementsEcho == Echo!Spec

\* Who sends is answered and hung up, however long others stay silent, unless
\* it resets, the process goes down or its thread could not be created.
Lost(c) == pc = "dead" \/ \E b \in orphans : file[heap[b]] = c
SilentClientsBlockNobody ==
    \A c \in Clients :
        /\ sent[c] > 0 ~> (got[c] # <<>> \/ link[c] = "reset" \/ Lost(c))
        /\ (link[c] # "none" /\ c \notin Silent) ~> (conn[c] = "closed" \/ Lost(c))

=============================================================================
