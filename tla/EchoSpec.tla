------------------------------ MODULE EchoSpec ------------------------------
(***************************************************************************)
(* What the four echo servers of cs351/examples/networking promise to      *)
(* their clients.  A connection is answered once, with the first bytes     *)
(* that the client itself sent and no more than one buffer of them, and is *)
(* hung up after its answer, or when there is nothing to answer.           *)
(***************************************************************************)
EXTENDS Naturals, Sequences, FiniteSetsExt

CONSTANTS Clients,    \* clients, each with one connection
          MaxSend,    \* bound: bytes a client sends
          BUF,        \* size of the server's buffer: 80 in the code
          Unnamed,    \* clients whose address kills the server when looked up
          MayRefuse   \* TRUE: the server may be out of processes or threads

VARIABLES link,       \* the client's end of the connection
          sent,       \* bytes the client has sent
          got,        \* bytes the client has received
          status      \* the server's end of the connection

vars == <<link, sent, got, status>>

\* The i-th byte a client sends is <<client, i>>.
Bytes(c, m, n) == [i \in 1 .. n - m |-> <<c, m + i>>]

Init ==
    /\ link = [c \in Clients |-> "none"]
    /\ sent = [c \in Clients |-> 0]
    /\ got = [c \in Clients |-> <<>>]
    /\ status = [c \in Clients |-> "none"]

-----------------------------------------------------------------------------
(* The clients *)

Connect(c) ==
    /\ link[c] = "none"
    /\ link' = [link EXCEPT ![c] = "up"]
    /\ status' = [status EXCEPT ![c] = "open"]
    /\ UNCHANGED <<sent, got>>

Send(c) ==
    /\ link[c] = "up" /\ sent[c] < MaxSend
    /\ sent' = [sent EXCEPT ![c] = @ + 1]
    /\ UNCHANGED <<link, got, status>>

Leave(c, how) ==
    /\ link[c] = "up"
    /\ link' = [link EXCEPT ![c] = how]
    /\ UNCHANGED <<sent, got, status>>

-----------------------------------------------------------------------------
(* The server *)

Answer(c) ==
    /\ status[c] = "open" /\ link[c] # "reset" /\ got[c] = <<>>
    /\ \E n \in 1 .. Min({BUF, sent[c]}) : got' = [got EXCEPT ![c] = Bytes(c, 0, n)]
    /\ UNCHANGED <<link, sent, status>>

HangUp(c) ==
    /\ status[c] = "open"
    /\ \/ got[c] # <<>>
       \/ link[c] = "fin" /\ sent[c] = 0
       \/ link[c] = "reset"
       \/ MayRefuse
    /\ status' = [status EXCEPT ![c] = "closed"]
    /\ UNCHANGED <<link, sent, got>>

\* A server that is one process goes down with everyone on it when it writes
\* to a client that is gone, or looks up one that has no name.
Fail ==
    /\ \E c \in Clients : link[c] = "reset" \/ (c \in Unnamed /\ link[c] # "none")
    /\ status' = [c \in Clients |-> IF status[c] = "open" THEN "closed" ELSE status[c]]
    /\ UNCHANGED <<link, sent, got>>

Next ==
    \/ Fail
    \/ \E c \in Clients :
        \/ Connect(c) \/ Send(c) \/ Leave(c, "fin") \/ Leave(c, "reset")
        \/ Answer(c) \/ HangUp(c)

Spec == Init /\ [][Next]_vars
=============================================================================
