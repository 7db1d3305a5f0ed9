---------------------------- MODULE EchoSockets -----------------------------
(***************************************************************************)
(* The sockets under the echo servers, as the servers use them: the        *)
(* clients at the far end, the queue of connections nobody has accepted    *)
(* yet, and read, write and close on a connection.  External: the code is  *)
(* the kernel's.                                                           *)
(***************************************************************************)
EXTENDS Integers, Sequences, SequencesExt

CONSTANTS Clients, MaxSend, BUF,
          Silent,     \* clients that may stay connected and say nothing
          Resetting   \* clients that may reset their connection

ASSUME SocketConstants ==
    /\ MaxSend \in Nat \ {0} /\ BUF \in Nat \ {0}
    /\ Silent \subseteq Clients /\ Resetting \subseteq Clients
    /\ {"free", "listener", "parent", "none"} \cap Clients = {}
    /\ IsFiniteSet(Clients)

VARIABLES link,       \* "none", "up", "fin" (the client is done), "reset"
          sent,       \* bytes a client has sent
          taken,      \* bytes of them the server has read
          got,        \* bytes a client has received
          conn,       \* "none", "queued", "open", "closed" at the server
          backlog     \* connections waiting for accept

sockvars == <<link, sent, taken, got, conn, backlog>>

Bytes(c, m, n) == [i \in 1 .. n - m |-> <<c, m + i>>]

SockInit ==
    /\ link = [c \in Clients |-> "none"]
    /\ sent = [c \in Clients |-> 0]
    /\ taken = [c \in Clients |-> 0]
    /\ got = [c \in Clients |-> <<>>]
    /\ conn = [c \in Clients |-> "none"]
    /\ backlog = <<>>

-----------------------------------------------------------------------------
(* Clients *)

Connect(c) ==
    /\ link[c] = "none"
    /\ link' = [link EXCEPT ![c] = "up"]
    /\ conn' = [conn EXCEPT ![c] = "queued"]
    /\ backlog' = Append(backlog, c)
    /\ UNCHANGED <<sent, taken, got>>

\* A client that writes more than one buffer does it in any portions.
Send(c) ==
    /\ link[c] = "up" /\ conn[c] # "closed" /\ sent[c] < MaxSend
    /\ sent' = [sent EXCEPT ![c] = @ + 1]
    /\ UNCHANGED <<link, taken, got, conn, backlog>>

Leave(c, how) ==
    /\ link[c] = "up" /\ conn[c] # "closed"
    /\ how = "reset" => c \in Resetting
    /\ link' = [link EXCEPT ![c] = how]
    /\ UNCHANGED <<sent, taken, got, conn, backlog>>

Client(c) == Send(c) \/ Leave(c, "fin") \/ Leave(c, "reset")

-----------------------------------------------------------------------------
(* System calls.  A buffer is what the last read returned and stored. *)

EmptyBuf == [nread |-> 0, data |-> <<>>]

Accept ==
    /\ backlog # <<>>
    /\ conn' = [conn EXCEPT ![Head(backlog)] = "open"]
    /\ backlog' = Tail(backlog)
    /\ UNCHANGED <<link, sent, taken, got>>

\* A connection is readable when read does not wait: bytes, the end, an error.
Readable(c) == sent[c] > taken[c] \/ link[c] \in {"fin", "reset"}

ReadResult(c) ==
    IF link[c] = "reset" THEN [nread |-> -1, data |-> <<>>]
    ELSE LET n == Min({BUF, sent[c] - taken[c]})
         IN  [nread |-> n, data |-> Bytes(c, taken[c], taken[c] + n)]

Read(c) ==
    /\ Readable(c)
    /\ taken' = [taken EXCEPT ![c] = @ + Len(ReadResult(c).data)]
    /\ UNCHANGED <<link, sent, got, conn, backlog>>

\* A count of -1 is too large for write, which fails before it looks at the
\* socket.  Any other write to a connection that was reset raises SIGPIPE.
WriteKills(c, buf) == buf.nread >= 0 /\ link[c] = "reset"

Write(c, buf) ==
    /\ ~ WriteKills(c, buf)
    /\ got' = [got EXCEPT ![c] = @ \o buf.data]
    /\ UNCHANGED <<link, sent, taken, conn, backlog>>

\* The last descriptor of each of these connections is closed.
Close(cs) ==
    /\ conn' = [c \in Clients |-> IF c \in cs THEN "closed" ELSE conn[c]]
    /\ UNCHANGED <<link, sent, taken, got, backlog>>

\* The process that listens is gone, and what it held and queued with it.
Exit ==
    /\ conn' = [c \in Clients |-> IF conn[c] = "none" THEN "none" ELSE "closed"]
    /\ backlog' = <<>>
    /\ UNCHANGED <<link, sent, taken, got>>

-----------------------------------------------------------------------------
(* How a connection may end *)

\* The client has its answer, or had none to get: it left without a byte.
DoneWith(c) ==
    got[c] # <<>> \/ link[c] = "reset" \/ (link[c] = "fin" /\ sent[c] = 0)

\* The client reset after its bytes were read and before they were written.
ResetInBetween(c) == link[c] = "reset" /\ taken[c] > 0 /\ got[c] = <<>>

SockTypeOK ==
    /\ link \in [Clients -> {"none", "up", "fin", "reset"}]
    /\ sent \in [Clients -> 0 .. MaxSend] /\ taken \in [Clients -> 0 .. MaxSend]
    /\ conn \in [Clients -> {"none", "queued", "open", "closed"}]
    /\ ToSet(backlog) \subseteq Clients /\ Len(backlog) <= Cardinality(Clients)

=============================================================================
