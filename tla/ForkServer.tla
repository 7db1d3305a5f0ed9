----------------------------- MODULE ForkServer -----------------------------
(***************************************************************************)
(* cs351/examples/networking/multiprocserv.c: a parent that accepts, a     *)
(* child for each connection, and the SIGCHLD handler that reaps them.     *)
(* signal installs the handler so that accept is restarted after it, and   *)
(* SIGCHLD is blocked while it runs: one signal can stand for many.        *)
(***************************************************************************)
EXTENDS EchoSockets

VARIABLES pc,         \* the parent: "accept", "fork", "close"
          fd_client,  \* the connection accepted last
          child,      \* the child of each connection, by where it is
          buf,        \* the buffer of each child's echo
          files,      \* what each process has open
          pending,    \* SIGCHLD is pending
          handler,    \* sigchild_handler is running
          refused     \* history: connections whose fork failed

procvars == <<pc, fd_client, child, buf, files, pending, handler, refused>>
vars == <<sockvars, procvars>>

None == "none"
Listener == "listener"
parent == "parent"
Procs == Clients \cup {parent}
Running == {"start", "read", "write", "close", "exit"}
Zombies == {c \in Clients : child[c] = "zombie"}

Init ==
    /\ SockInit
    /\ pc = "accept" /\ fd_client = None
    /\ child = [c \in Clients |-> "none"]
    /\ buf = [c \in Clients |-> EmptyBuf]
    /\ files = [p \in Procs |-> IF p = parent THEN {Listener} ELSE {}]
    /\ pending = FALSE /\ handler = FALSE
    /\ refused = {}

\* A connection is closed when the last process that has it open lets go.
Release(p, fs) ==
    /\ files' = [files EXCEPT ![p] = @ \ fs]
    /\ Close({c \in fs \cap Clients : \A q \in Procs : c \notin files'[q]})

-----------------------------------------------------------------------------
(* The parent *)

accept ==
    /\ pc = "accept" /\ ~handler /\ Accept
    /\ fd_client' = Head(backlog)
    /\ files' = [files EXCEPT ![parent] = @ \cup {Head(backlog)}]
    /\ pc' = "fork"
    /\ UNCHANGED <<child, buf, pending, handler, refused>>

fork ==
    /\ pc = "fork" /\ ~handler
    /\ child' = [child EXCEPT ![fd_client] = "start"]
    /\ files' = [files EXCEPT ![fd_client] = files[parent]]
    /\ pc' = "close"
    /\ UNCHANGED <<sockvars, fd_client, buf, pending, handler, refused>>

\* fork() is -1, which is not 0: the parent goes on as if there were a child.
\* What else runs on the machine decides when.
ForkFails ==
    /\ pc = "fork" /\ ~handler
    /\ refused' = refused \cup {fd_client}
    /\ pc' = "close"
    /\ UNCHANGED <<sockvars, fd_client, child, buf, files, pending, handler>>

close ==
    /\ pc = "close" /\ ~handler /\ Release(parent, {fd_client})
    /\ pc' = "accept"
    /\ UNCHANGED <<fd_client, child, buf, pending, handler, refused>>

\* The signal interrupts the parent between any two of its steps.
Deliver ==
    /\ pending /\ ~handler
    /\ pending' = FALSE /\ handler' = TRUE
    /\ UNCHANGED <<sockvars, pc, fd_client, child, buf, files, refused>>

Bug_waitpid_once ==   \* if instead of while
    /\ handler
    /\ \E c \in Zombies : child' = [child EXCEPT ![c] = "reaped"]
    /\ handler' = FALSE
    /\ UNCHANGED <<sockvars, pc, fd_client, buf, files, pending, refused>>

waitpid ==
    /\ handler
    /\ \E c \in Zombies : child' = [child EXCEPT ![c] = "reaped"]
    /\ UNCHANGED <<sockvars, pc, fd_client, buf, files, pending, handler, refused>>

\* WNOHANG: no child has ended.
WaitpidNone ==
    /\ handler /\ Zombies = {}
    /\ handler' = FALSE
    /\ UNCHANGED <<sockvars, pc, fd_client, child, buf, files, pending, refused>>

Parent == accept \/ fork \/ ForkFails \/ close \/ Deliver \/ waitpid \/ WaitpidNone

-----------------------------------------------------------------------------
(* The child of connection c *)

ChildStart(c) ==      \* close(fd_skt)
    /\ child[c] = "start" /\ Release(c, {Listener})
    /\ child' = [child EXCEPT ![c] = "read"]
    /\ UNCHANGED <<pc, fd_client, buf, pending, handler, refused>>

Bug_ChildRead(c) ==   \* does not wait for the client
    /\ child[c] = "read"
    /\ IF Readable(c) THEN Read(c) ELSE UNCHANGED sockvars
    /\ buf' = [buf EXCEPT ![c] = ReadResult(c)]
    /\ child' = [child EXCEPT ![c] = "write"]
    /\ UNCHANGED <<pc, fd_client, files, pending, handler, refused>>

ChildRead(c) ==
    /\ child[c] = "read" /\ Read(c)
    /\ buf' = [buf EXCEPT ![c] = ReadResult(c)]
    /\ child' = [child EXCEPT ![c] = "write"]
    /\ UNCHANGED <<pc, fd_client, files, pending, handler, refused>>

ChildWrite(c) ==
    /\ child[c] = "write" /\ Write(c, buf[c])
    /\ child' = [child EXCEPT ![c] = "close"]
    /\ UNCHANGED <<pc, fd_client, buf, files, pending, handler, refused>>

ChildClose(c) ==
    /\ child[c] = "close" /\ Release(c, {c})
    /\ child' = [child EXCEPT ![c] = "exit"]
    /\ UNCHANGED <<pc, fd_client, buf, pending, handler, refused>>

\* exit, or the end by SIGPIPE: the kernel closes what the child has open.
ChildEnds(c) ==
    /\ \/ child[c] = "exit"
       \/ child[c] = "write" /\ WriteKills(c, buf[c])
    /\ Release(c, files[c])
    /\ child' = [child EXCEPT ![c] = "zombie"]
    /\ pending' = TRUE
    /\ UNCHANGED <<pc, fd_client, buf, handler, refused>>

Child(c) == ChildStart(c) \/ ChildRead(c) \/ ChildWrite(c) \/ ChildClose(c) \/ ChildEnds(c)

Clientele ==
    /\ \E c \in Clients : Connect(c) \/ Client(c)
    /\ UNCHANGED procvars

Next == Parent \/ Clientele \/ \E c \in Clients : Child(c)

Spec == Init /\ [][Next]_vars

\* Every process runs on; of the clients only those that are not silent do.
FairSpec ==
    /\ Spec /\ WF_vars(Parent) /\ \A c \in Clients : WF_vars(Child(c))
    /\ \A c \in Clients \ Silent : WF_vars(Client(c) /\ UNCHANGED procvars)

-----------------------------------------------------------------------------
(* Properties *)

\* Types of the variables of the processes.
TypeOK ==
    /\ SockTypeOK
    /\ pc \in {"accept", "fork", "close"} /\ fd_client \in Clients \cup {None}
    /\ child \in [Clients -> Running \cup {"none", "zombie", "reaped"}]
    /\ \A c \in Clients : buf[c].nread \in -1 .. BUF
    /\ files \in [Procs -> SUBSET (Clients \cup {Listener})]
    /\ pending \in BOOLEAN /\ handler \in BOOLEAN /\ refused \subseteq Clients

\* Signals do not queue, so one SIGCHLD may stand for several children: a
\* zombie never waits without a signal pending or the handler still looping.
ZombieHasSignal == Zombies # {} => pending \/ handler

\* Descriptors that fork copies are let go of again: the parent has nothing
\* open but its listening socket and the connection in hand, a child that
\* serves only its own connection, and a child that is gone nothing.
NobodyHoldsAnothers ==
    /\ files[parent] \ {Listener} = IF pc = "accept" THEN {} ELSE {fd_client}
    /\ \A c \in Clients : files[c] \subseteq
        CASE child[c] = "start" -> {c, Listener}
          [] child[c] \in {"read", "write", "close"} -> {c}
          [] OTHER -> {}

\* A connection is open as long as, and no longer than, a process has it open.
OpenWhileHeld ==
    \A c \in Clients : conn[c] = "open" <=> \E p \in Procs : c \in files[p]

\* A client is hung up on without its answer only when it left first, or fork
\* failed: no other client's end harms it.  One whose fork failed is hung up
\* on at once, with not a byte of an answer.
OthersUnharmed ==
    /\ \A c \in Clients : conn[c] = "closed" => DoneWith(c) \/ c \in refused
    /\ \A c \in refused :
        /\ child[c] = "none" /\ got[c] = <<>>
        /\ conn[c] = "closed" \/ (fd_client = c /\ pc = "close")

\* The server answers as an echo server does: each client its own bytes, once.
Echo == INSTANCE EchoSpec WITH
    MayRefuse <- TRUE,
    Unnamed <- {},
    status <- [c \in Clients |-> IF conn[c] = "queued" THEN "open" ELSE conn[c]]
ImplementsEcho == Echo!Spec

\* Who sends is answered and hung up, however long others stay silent, unless
\* it resets or fork failed.
SilentClientsBlockNobody ==
    \A c \in Clients :
        /\ sent[c] > 0 ~> (got[c] # <<>> \/ link[c] = "reset" \/ c \in refused)
        /\ (link[c] # "none" /\ c \notin Silent) ~> conn[c] = "closed"

\* No child stays a zombie.
ZombiesAreReaped == \A c \in Clients : child[c] = "zombie" ~> child[c] = "reaped"

=============================================================================
