--------------------------- MODULE MCEchoServers ----------------------------
(***************************************************************************)
(* The four echo servers, one of which is started, each with clients that  *)
(* bring out what is peculiar to it.  iomultserv.c is the module that is   *)
(* extended: it has a silent client, one that may reset, and few enough    *)
(* descriptors that they are used again.                                   *)
(***************************************************************************)
EXTENDS SelectServer, TLC

CONSTANTS c1, c2, c3,           \* clients
          Heap, Threads         \* the blocks malloc returns, and thread IDs

ASSUME ThreadConstants ==
    0 \notin Heap /\ Threads \subseteq Nat \ {0} /\ IsFiniteSet(Threads)

VARIABLES which,                                  \* the server that was started
          fd_client,                              \* of several servers, as are pc, file and buf
          child, files, pending, handler, refused,  \* multiprocserv.c
          heap, thread, orphans                   \* threadserv.c

selectvars == <<file, set, read_set, fd_hwm, fd>>
forkvars == <<child, files, pending, handler, refused>>
threadvars == <<heap, thread, orphans>>
procvars == <<which, pc, fd_client, buf, selectvars, forkvars, threadvars>>
allvars == <<sockvars, procvars>>

\* One client may reset; the address of c3 has no name.
E == INSTANCE EchoServer WITH Silent <- {}, Resetting <- {c1}, Unnamed <- {c3}
F == INSTANCE ForkServer
T == INSTANCE ThreadServer WITH Blocks <- Heap

None == "none"
NoSet == set = {} /\ read_set = {} /\ fd_hwm = 0 /\ fd = 0
NoChildren == child = [c \in Clients |-> None] /\ files = <<>> /\ pending = FALSE /\ handler = FALSE /\ refused = {}
NoThreads == heap = <<>> /\ thread = <<>> /\ orphans = {}
ServersInit ==
    \/ which = "echo" /\ E!Init /\ file = <<>> /\ NoSet /\ NoChildren /\ NoThreads
    \/ which = "select" /\ Init /\ fd_client = None /\ NoChildren /\ NoThreads
    \/ which = "fork" /\ F!Init /\ file = <<>> /\ NoSet /\ NoThreads
    \/ which = "thread" /\ T!Init /\ buf = <<>> /\ NoSet /\ NoChildren

EchoOnly == which = "echo" /\ UNCHANGED <<which, selectvars, forkvars, threadvars>>
SelectOnly == which = "select" /\ UNCHANGED <<which, fd_client, forkvars, threadvars>>
ForkOnly == which = "fork" /\ UNCHANGED <<which, selectvars, threadvars>>
ThreadOnly == which = "thread" /\ UNCHANGED <<which, buf, set, read_set, fd_hwm, fd, forkvars>>

ServersNext ==
    \/ EchoOnly /\ E!Next
    \/ SelectOnly /\ Next
    \/ ForkOnly /\ F!Next
    \/ ThreadOnly /\ T!Next

ServersSpec == ServersInit /\ [][ServersNext]_allvars

\* Each process and thread runs on; so do the clients that are not silent.
ServersFairSpec ==
    /\ ServersSpec
    /\ WF_allvars(EchoOnly /\ E!Server)
    /\ WF_allvars(SelectOnly /\ Server)
    /\ WF_allvars(ForkOnly /\ F!Parent)
    /\ \A c \in Clients : WF_allvars(ForkOnly /\ F!Child(c))
    /\ WF_allvars(ThreadOnly /\ T!Main)
    /\ \A t \in Threads : WF_allvars(ThreadOnly /\ T!Thread(t))
    /\ \A c \in Clients :
        WF_allvars((c # c1 \/ which = "echo") /\ Client(c) /\ UNCHANGED procvars)

-----------------------------------------------------------------------------
(* The properties of the servers, each of its own; SweepNeverWaits of      *)
(* iomultserv.c is in its module, and says nothing while another one runs. *)

\* Descriptors are accounted for at every moment: echoserver.c holds the
\* connection it is serving; in iomultserv.c the mark is above the set and the
\* set is what is open; in multiprocserv.c every copy that fork makes is let go
\* of by those who do not serve it; and whatever the server, a connection is
\* open while its one descriptor (or one of its copies) is, and no longer.
DescriptorsAccountedFor ==
    /\ which = "echo" => E!TypeOK /\ E!OneConnectionHeld
    /\ which = "select" => TypeOK /\ HwmCoversSet /\ OneDescriptorEach
    /\ which = "fork" => F!TypeOK /\ F!NobodyHoldsAnothers /\ F!OpenWhileHeld
    /\ which = "thread" => T!TypeOK /\ T!OneDescriptorEach

\* multiprocserv.c: no zombie without a signal or the handler's loop.
ZombieHasSignal == which = "fork" => F!ZombieHasSignal

\* What happens to one client harms no other, in multiprocserv.c whatever it
\* is; in the other three unless the server goes down with it, and then it is
\* known by what.
ServersUnharmed ==
    /\ which = "echo" => E!OthersUnharmed
    /\ which = "select" => OthersUnharmed
    /\ which = "fork" => F!OthersUnharmed
    /\ which = "thread" => T!OthersUnharmed

\* threadserv.c: an argument block passes from main to one thread that frees
\* it, and with it the connection, which that thread alone will close.
HandedToOneThread ==
    which = "thread" => T!OneOwnerPerBlock /\ T!OneThreadPerConnection

\* echoserver.c, iomultserv.c, multiprocserv.c and threadserv.c answer as an
\* echo server does: each client its own bytes, once.
AllImplementEcho ==
    /\ /\ which = "echo" => E!Echo!Init
       /\ which = "select" => Echo!Init
       /\ which = "fork" => F!Echo!Init
       /\ which = "thread" => T!Echo!Init
    /\ [][/\ which = "echo" => [E!Echo!Next]_(E!Echo!vars)
          /\ which = "select" => [Echo!Next]_(Echo!vars)
          /\ which = "fork" => [F!Echo!Next]_(F!Echo!vars)
          /\ which = "thread" => [T!Echo!Next]_(T!Echo!vars)]_allvars

\* Everyone who sends is answered and hung up: by echoserver.c when no client
\* stays silent, by the other three whoever stays silent.
EveryoneIsServed ==
    /\ which = "echo" => E!EveryoneIsServed
    /\ which = "select" => SilentClientsBlockNobody
    /\ which = "fork" => F!SilentClientsBlockNobody
    /\ which = "thread" => T!SilentClientsBlockNobody

\* multiprocserv.c: no child stays a zombie.
ZombiesAreReaped == which = "fork" => F!ZombiesAreReaped

=============================================================================
