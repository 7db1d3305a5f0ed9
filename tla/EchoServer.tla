----------------------------- MODULE EchoServer -----------------------------
(***************************************************************************)
(* cs351/examples/networking/echoserver.c: one process that serves one     *)
(* connection at a time.                                                   *)
(***************************************************************************)
EXTENDS EchoSockets

CONSTANT Unnamed      \* clients whose address gethostbyaddr cannot resolve

VARIABLES pc,         \* where main is
          fd_client,  \* the connection accepted last
          buf         \* the buffer of echo

None == "none"
vars == <<sockvars, pc, fd_client, buf>>

Init == SockInit /\ pc = "accept" /\ fd_client = None /\ buf = EmptyBuf

accept ==
    /\ pc = "accept" /\ Accept
    /\ fd_client' = Head(backlog) /\ pc' = "lookup"
    /\ UNCHANGED buf

gethostbyaddr ==
    /\ pc = "lookup" /\ fd_client \notin Unnamed
    /\ pc' = "read"
    /\ UNCHANGED <<sockvars, fd_client, buf>>

\* hp is NULL, and hp->h_name is read all the same.
NoName ==
    /\ pc = "lookup" /\ fd_client \in Unnamed
    /\ pc' = "dead" /\ Exit
    /\ UNCHANGED <<fd_client, buf>>

read ==
    /\ pc = "read" /\ Read(fd_client)
    /\ buf' = ReadResult(fd_client) /\ pc' = "write"
    /\ UNCHANGED fd_client

write ==
    /\ pc = "write" /\ Write(fd_client, buf)
    /\ pc' = "close"
    /\ UNCHANGED <<fd_client, buf>>

SIGPIPE ==
    /\ pc = "write" /\ WriteKills(fd_client, buf)
    /\ pc' = "dead" /\ Exit
    /\ UNCHANGED <<fd_client, buf>>

close ==
    /\ pc = "close" /\ Close({fd_client})
    /\ pc' = "accept"
    /\ UNCHANGED <<fd_client, buf>>

Server == accept \/ gethostbyaddr \/ NoName \/ read \/ write \/ SIGPIPE \/ close

Clientele ==
    /\ \E c \in Clients : (pc # "dead" /\ Connect(c)) \/ Client(c)
    /\ UNCHANGED <<pc, fd_client, buf>>

Next == Server \/ Clientele

Spec == Init /\ [][Next]_vars

\* A client that is not silent does something with its connection in the end.
FairSpec ==
    /\ Spec /\ WF_vars(Server)
    /\ \A c \in Clients \ Silent : WF_vars(Client(c) /\ UNCHANGED <<pc, fd_client, buf>>)

-----------------------------------------------------------------------------
(* Properties *)

\* Types of main's variables; the buffer holds what one read can return.
TypeOK ==
    /\ SockTypeOK
    /\ pc \in {"accept", "lookup", "read", "write", "close", "dead"}
    /\ fd_client \in Clients \cup {None}
    /\ buf.nread \in -1 .. BUF
    /\ buf.nread >= 0 => Len(buf.data) = buf.nread

\* The server holds one connection, the one it is serving: whatever came
\* before has been closed, so descriptors do not pile up over the loop, and
\* what it reads, writes and closes is still open.
OneConnectionHeld ==
    \A c \in Clients : conn[c] = "open" <=> c = fd_client /\ pc \notin {"accept", "dead"}

\* A client is hung up on without its answer only when it left first, or the
\* server went down; and that takes a client that resets between the read and
\* the write of its bytes, or one whose address has no name.
OthersUnharmed ==
    /\ \A c \in Clients : conn[c] = "closed" => DoneWith(c) \/ pc = "dead"
    /\ pc = "dead" => fd_client \in Unnamed \/ ResetInBetween(fd_client)

\* The server answers as an echo server does: each client its own bytes, once.
Echo == INSTANCE EchoSpec WITH
    MayRefuse <- FALSE,
    status <- [c \in Clients |-> IF conn[c] = "queued" THEN "open" ELSE conn[c]]
ImplementsEcho == Echo!Spec

\* When every client sends or leaves, nobody waits in the queue for ever: who
\* sends is answered, unless it resets or the server goes down, and every
\* connection is hung up in the end.
EveryoneIsServed ==
    \A c \in Clients :
        /\ sent[c] > 0 ~> (got[c] # <<>> \/ link[c] = "reset" \/ pc = "dead")
        /\ link[c] # "none" ~> conn[c] = "closed"

=============================================================================
