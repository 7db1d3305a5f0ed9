---------------------------- MODULE SelectServer ----------------------------
(***************************************************************************)
(* cs351/examples/networking/iomultserv.c: one process that waits with     *)
(* select for any of its connections, and sweeps over the descriptors that *)
(* select reported.                                                        *)
(***************************************************************************)
EXTENDS EchoSockets

CONSTANT Fds          \* the descriptors above stdin, stdout and stderr

ASSUME DescriptorConstants ==
    /\ IsFiniteSet(Fds) /\ Fds \subseteq Nat /\ Fds # {}
    /\ Fds = Min(Fds) .. Min(Fds) + Cardinality(Fds) - 1

VARIABLES pc,         \* "select", "sweep", "read", "write", "close", "dead"
          file,       \* the connection behind each descriptor
          set, read_set, fd_hwm,
          fd,         \* the descriptor the sweep is at
          buf         \* the buffer of echo

mainvars == <<pc, file, set, read_set, fd_hwm, fd, buf>>
vars == <<sockvars, mainvars>>

Free == "free"
fd_skt == Min(Fds)
Listener == "listener"

Init ==
    /\ SockInit
    /\ pc = "select"
    /\ file = [f \in Fds |-> IF f = fd_skt THEN Listener ELSE Free]
    /\ set = {fd_skt} /\ read_set = {}
    /\ fd_hwm = fd_skt /\ fd = fd_skt
    /\ buf = EmptyBuf

FdReadable(f) ==
    CASE file[f] = Listener -> backlog # <<>>
      [] file[f] = Free -> FALSE
      [] OTHER -> Readable(file[f])

\* select looks at the descriptors up to fd_hwm, and waits for one to be ready.
Ready == {f \in set : f <= fd_hwm /\ FdReadable(f)}

Bug_select_stale ==   \* keeps what the last call left in read_set
    /\ pc = "select" /\ Ready # {}
    /\ read_set' = read_set \cup Ready
    /\ pc' = "sweep" /\ fd' = fd_skt
    /\ UNCHANGED <<sockvars, file, set, fd_hwm, buf>>

select ==
    /\ pc = "select" /\ Ready # {}
    /\ read_set' = Ready
    /\ pc' = "sweep" /\ fd' = fd_skt
    /\ UNCHANGED <<sockvars, file, set, fd_hwm, buf>>

\* The head of the for loop, up to the next descriptor that was reported.
Sweep ==
    /\ pc = "sweep" /\ fd \notin read_set /\ fd <= fd_hwm
    /\ fd' = fd + 1
    /\ UNCHANGED <<sockvars, pc, file, set, read_set, fd_hwm, buf>>

SweepEnds ==
    /\ pc = "sweep" /\ fd > fd_hwm
    /\ pc' = "select"
    /\ UNCHANGED <<sockvars, file, set, read_set, fd_hwm, fd, buf>>

LowestFree == Min({f \in Fds : file[f] = Free})

Bug_accept_hwm ==     \* does not raise the mark
    /\ pc = "sweep" /\ fd <= fd_hwm /\ fd \in read_set /\ fd = fd_skt /\ Accept
    /\ file' = [file EXCEPT ![LowestFree] = Head(backlog)]
    /\ set' = set \cup {LowestFree}
    /\ fd' = fd + 1
    /\ UNCHANGED <<pc, read_set, fd_hwm, buf>>

\* Descriptors do not run out: there are more of them than clients.
accept ==
    /\ pc = "sweep" /\ fd <= fd_hwm /\ fd \in read_set /\ fd = fd_skt /\ Accept
    /\ Free \in {file[f] : f \in Fds}
    /\ file' = [file EXCEPT ![LowestFree] = Head(backlog)]
    /\ set' = set \cup {LowestFree}
    /\ fd_hwm' = Max({LowestFree, fd_hwm})
    /\ fd' = fd + 1
    /\ UNCHANGED <<pc, read_set, buf>>

Bug_read_again ==     \* reads after the end of what it has taken
    /\ pc = "sweep" /\ fd <= fd_hwm /\ fd \in read_set /\ fd # fd_skt
    /\ file[fd] # Free /\ Read(file[fd])
    /\ buf' = [ReadResult(file[fd]) EXCEPT !.data = buf.data \o @]
    /\ pc' = "write"
    /\ UNCHANGED <<file, set, read_set, fd_hwm, fd>>

read ==
    /\ pc = "sweep" /\ fd <= fd_hwm /\ fd \in read_set /\ fd # fd_skt
    /\ file[fd] # Free /\ Read(file[fd])
    /\ buf' = ReadResult(file[fd])
    /\ pc' = "write"
    /\ UNCHANGED <<file, set, read_set, fd_hwm, fd>>

write ==
    /\ pc = "write" /\ Write(file[fd], buf)
    /\ pc' = "close"
    /\ UNCHANGED <<file, set, read_set, fd_hwm, fd, buf>>

SIGPIPE ==
    /\ pc = "write" /\ WriteKills(file[fd], buf)
    /\ pc' = "dead" /\ Exit
    /\ UNCHANGED <<file, set, read_set, fd_hwm, fd, buf>>

Bug_close_keep ==     \* leaves the descriptor in set
    /\ pc = "close" /\ Close({file[fd]})
    /\ fd_hwm' = IF fd = fd_hwm THEN fd_hwm - 1 ELSE fd_hwm
    /\ file' = [file EXCEPT ![fd] = Free]
    /\ pc' = "sweep" /\ fd' = fd + 1
    /\ UNCHANGED <<set, read_set, buf>>

close ==
    /\ pc = "close" /\ Close({file[fd]})
    /\ set' = set \ {fd}
    /\ fd_hwm' = IF fd = fd_hwm THEN fd_hwm - 1 ELSE fd_hwm
    /\ file' = [file EXCEPT ![fd] = Free]
    /\ pc' = "sweep" /\ fd' = fd + 1
    /\ UNCHANGED <<read_set, buf>>

Server == select \/ Sweep \/ SweepEnds \/ accept \/ read \/ write \/ SIGPIPE \/ close

Clientele ==
    /\ \E c \in Clients : (pc # "dead" /\ Connect(c)) \/ Client(c)
    /\ UNCHANGED mainvars

Next == Server \/ Clientele

Spec == Init /\ [][Next]_vars

\* The process runs on; of the clients only those that are not silent do.
FairSpec ==
    /\ Spec /\ WF_vars(Server)
    /\ \A c \in Clients \ Silent : WF_vars(Client(c) /\ UNCHANGED mainvars)

-----------------------------------------------------------------------------
(* Properties *)

\* Types of main's variables.
TypeOK ==
    /\ SockTypeOK
    /\ pc \in {"select", "sweep", "write", "close", "dead"}
    /\ file \in [Fds -> Clients \cup {Free, Listener}]
    /\ set \subseteq Fds /\ read_set \subseteq Fds
    /\ fd_hwm \in Fds /\ fd \in Fds \cup {Max(Fds) + 1}
    /\ buf.nread \in -1 .. BUF

\* The high-water mark, which only ever goes down by one, stays above every
\* descriptor in the set, and the set is the descriptors that are open: select
\* misses no connection and is never given a closed one.
HwmCoversSet ==
    pc # "dead" => /\ \A f \in set : f <= fd_hwm
                   /\ set = {f \in Fds : file[f] # Free}

\* Every connection accepted and not yet closed is behind one descriptor, and
\* a connection that was closed is behind none.
OneDescriptorEach ==
    pc # "dead" => \A c \in Clients :
        Cardinality({f \in Fds : file[f] = c}) = IF conn[c] = "open" THEN 1 ELSE 0

\* A client is hung up on without its answer only when it left first, or the
\* server went down, for which a client must reset between the read and the
\* write of its bytes.
OthersUnharmed ==
    /\ \A c \in Clients : conn[c] = "closed" => DoneWith(c) \/ pc = "dead"
    /\ pc = "dead" => ResetInBetween(file[fd])

\* A descriptor that the sweep has yet to come to is still the connection that
\* select reported: it has not been closed, or reused for a newer connection
\* that may not be readable, so neither accept nor read makes everyone wait.
SweepNeverWaits ==
    pc = "sweep" => \A f \in read_set : (fd <= f /\ f <= fd_hwm) => FdReadable(f)

\* The server answers as an echo server does: each client its own bytes, once.
Echo == INSTANCE EchoSpec WITH
    MayRefuse <- FALSE,
    Unnamed <- {},
    status <- [c \in Clients |-> IF conn[c] = "queued" THEN "open" ELSE conn[c]]
ImplementsEcho == Echo!Spec

\* Who sends is answered and hung up, however long others stay silent, unless
\* it resets or the server goes down.
SilentClientsBlockNobody ==
    \A c \in Clients :
        /\ sent[c] > 0 ~> (got[c] # <<>> \/ link[c] = "reset" \/ pc = "dead")
        /\ (link[c] # "none" /\ c \notin Silent) ~> conn[c] = "closed"

=============================================================================
