-------------------------- MODULE EchoServersProofs --------------------------
(* The four echo servers, whichever of them is started: descriptors are       *)
(* accounted for, no zombie is forgotten, no client is harmed by another, a   *)
(* block of the heap passes to one thread, no sweep waits, and all four       *)
(* answer as an echo server does, for every number of clients, bytes,         *)
(* descriptors and threads.  The first part is iomultserv.c by itself, under  *)
(* Spec; the rest is whichever server is started, under ServersSpec.          *)
EXTENDS MCEchoServers, WellFoundedInduction, FiniteSetTheorems, SequenceTheorems, TLAPS

-----------------------------------------------------------------------------
(* iomultserv.c: its descriptors *)

\* Descriptors are numbered one after another from the first free one.
DescriptorRange == \E m, n \in Nat : m <= n /\ Fds = m .. n

\* What the kernel gives out is the smallest of the free descriptors.
LEMMA LeastExists ==
    ASSUME NEW S \in SUBSET Nat, S # {}
    PROVE  /\ Min(S) \in S
           /\ \A x \in S : Min(S) <= x
<1>1. PICK m \in S : \A y \in S : <<y, m>> \notin OpToRel(<, Nat)
  BY NatLessThanWellFounded, WFMin
<1>2. ASSUME NEW y \in S, y < m
      PROVE  FALSE
  <2>1. <<y, m>> \in OpToRel(<, Nat)
    BY <1>2 DEF OpToRel
  <2> QED
    BY <1>1, <2>1
<1>3. \A y \in S : m <= y
  BY <1>2, SMT
<1> QED
  BY <1>3 DEF Min

\* The smaller and the larger of two numbers.
LEMMA MinMaxOfTwo ==
    ASSUME NEW a \in Nat, NEW b \in Nat
    PROVE  /\ Min({a, b}) = IF a <= b THEN a ELSE b
           /\ Echo!Min({a, b}) = IF a <= b THEN a ELSE b
           /\ Max({a, b}) = IF a <= b THEN b ELSE a
<1>1. Min({a, b}) = IF a <= b THEN a ELSE b
  BY SMT DEF Min
<1>2. Max({a, b}) = IF a <= b THEN b ELSE a
  BY SMT DEF Max
<1>3. Echo!Min({a, b}) = IF a <= b THEN a ELSE b
  BY SMT DEF Echo!Min
<1> QED
  BY <1>1, <1>2, <1>3

\* What DescriptorConstants says of the descriptors.
LEMMA DescriptorsInARow == DescriptorRange
<1>1. IsFiniteSet(Fds) /\ Fds \in SUBSET Nat /\ Fds # {}
      /\ Fds = Min(Fds) .. Min(Fds) + Cardinality(Fds) - 1
  BY DescriptorConstants DEF DescriptorConstants
<1>2. Min(Fds) \in Nat
  BY <1>1, LeastExists
<1>3. Cardinality(Fds) \in Nat /\ Cardinality(Fds) # 0
  BY <1>1, FS_CardinalityType, FS_EmptySet
<1> PICK m : m = Min(Fds)
  OBVIOUS
<1> PICK n : n = Min(Fds) + Cardinality(Fds) - 1
  OBVIOUS
<1>4. m \in Nat /\ n \in Nat /\ m <= n
  BY <1>2, <1>3, SMT
<1> QED
  BY <1>1, <1>4 DEF DescriptorRange

\* The listener is behind the lowest descriptor, and they have no gaps.
LEMMA Descriptors ==
    ASSUME DescriptorRange
    PROVE  /\ Fds \subseteq Nat /\ fd_skt \in Fds
           /\ \A f \in Fds : fd_skt <= f /\ (f # fd_skt => f - 1 \in Fds)
<1>1. PICK m, n \in Nat : m <= n /\ Fds = m .. n
  BY DEF DescriptorRange
<1>2. Fds \in SUBSET Nat /\ Fds # {}
  BY <1>1, SMT
<1>3. fd_skt \in Fds /\ \A f \in Fds : fd_skt <= f
  BY <1>2, LeastExists DEF fd_skt
<1>4. ASSUME NEW f \in Fds, f # fd_skt
      PROVE  f - 1 \in Fds
  BY <1>1, <1>3, <1>4, SMT
<1> QED
  BY <1>2, <1>3, <1>4
-----------------------------------------------------------------------------
(* iomultserv.c: its invariant *)

\* The sockets: a queue of different connections nobody has accepted.
SocketsInv ==
    /\ link \in [Clients -> {"none", "up", "fin", "reset"}]
    /\ conn \in [Clients -> {"none", "queued", "open", "closed"}]
    /\ sent \in [Clients -> Nat] /\ taken \in [Clients -> Nat]
    /\ got \in [Clients -> Seq(Clients \X Nat)]
    /\ backlog \in Seq(Clients)
    /\ \A c \in Clients : link[c] = "none" <=> conn[c] = "none"
    /\ \A i \in DOMAIN backlog : conn[backlog[i]] = "queued"
    /\ \A i, j \in DOMAIN backlog : backlog[i] = backlog[j] => i = j

\* Where main is: at a descriptor that is open when it writes or closes.
ControlInv ==
    /\ pc \in {"select", "sweep", "write", "close", "dead"}
    /\ fd \in Nat /\ fd_skt <= fd
    /\ read_set \subseteq Fds
    /\ pc \in {"write", "close"} => fd \in Fds /\ file[fd] \in Clients

\* Each open connection is behind one descriptor, each descriptor that is open
\* is in set and below the mark.
FilesInv ==
    /\ file \in [Fds -> Clients \cup {Listener, Free}]
    /\ fd_hwm \in Fds
    /\ pc # "dead" =>
        /\ \A f \in Fds : file[f] = Listener <=> f = fd_skt
        /\ \A f \in Fds : file[f] \in Clients => conn[file[f]] = "open"
        /\ \A f, g \in Fds : file[f] = file[g] /\ file[f] \in Clients => f = g
    /\ HwmCoversSet

\* What the sweep has yet to come to is below the mark and does not wait.
Ahead(f) == f \in read_set /\ (IF pc = "sweep" THEN fd <= f ELSE fd < f)
SweepInv ==
    pc \in {"sweep", "write", "close"} =>
        \A f \in Fds : Ahead(f) => f <= fd_hwm /\ FdReadable(f)

\* Nothing was read from and nothing written to a connection before its turn;
\* in its turn the buffer holds the first bytes that the client sent.
Serving(c) == pc \in {"write", "close"} /\ file[fd] = c
AnswersInv ==
    /\ pc # "dead" =>
        \A c \in Clients : conn[c] # "closed" /\ ~Serving(c) => taken[c] = 0 /\ got[c] = <<>>
    /\ pc = "write" =>
        /\ got[file[fd]] = <<>>
        /\ \/ buf.nread = -1 /\ buf.data = <<>> /\ link[file[fd]] = "reset"
           \/ /\ buf.nread = 0 /\ buf.data = <<>> /\ sent[file[fd]] = 0
              /\ link[file[fd]] = "fin"
           \/ /\ buf.nread \in Nat \ {0} /\ buf.nread <= BUF /\ buf.nread <= sent[file[fd]]
              /\ buf.data = Bytes(file[fd], 0, buf.nread) /\ taken[file[fd]] > 0
    /\ pc = "close" =>
        \/ got[file[fd]] # <<>>
        \/ link[file[fd]] = "reset"
        \/ link[file[fd]] = "fin" /\ sent[file[fd]] = 0

SelectInv == SocketsInv /\ ControlInv /\ FilesInv /\ SweepInv /\ AnswersInv

-----------------------------------------------------------------------------

\* No connection is taken for the listener or for nothing.
LEMMA Names == Listener \notin Clients /\ Free \notin Clients /\ Listener # Free
BY SocketConstants DEF SocketConstants, Listener, Free

\* When a read from a descriptor does not wait.
LEMMA WhenReadable ==
    ASSUME FilesInv, NEW f \in Fds
    PROVE  FdReadable(f) <=> \/ file[f] = Listener /\ backlog # <<>>
                             \/ file[f] \in Clients /\ Readable(file[f])
BY Names DEF FilesInv, FdReadable

\* The invariant holds when main enters its loop.
LEMMA SelectStart ==
    ASSUME DescriptorRange, Init
    PROVE  SelectInv
<1>1. SocketsInv
  BY DEF Init, SockInit, SocketsInv
<1>2. ControlInv
  BY Descriptors DEF Init, ControlInv
<1>3. FilesInv
  <2>1. \A f \in Fds : file[f] = IF f = fd_skt THEN Listener ELSE Free
    BY DEF Init
  <2>2. file \in [Fds -> Clients \cup {Listener, Free}]
    BY DEF Init
  <2>3. HwmCoversSet
    <3>1. set = {f \in Fds : file[f] # Free}
      BY <2>1, Names, Descriptors DEF Init
    <3>2. \A f \in set : f <= fd_hwm
      BY Descriptors, SMT DEF Init
    <3> QED
      BY <3>1, <3>2 DEF HwmCoversSet
  <2> QED
    BY <2>1, <2>2, <2>3, Names, Descriptors DEF Init, FilesInv
<1>4. SweepInv /\ AnswersInv
  BY DEF Init, SockInit, SweepInv, AnswersInv
<1> QED
  BY <1>1, <1>2, <1>3, <1>4 DEF SelectInv

-----------------------------------------------------------------------------
(* iomultserv.c: steps of the clients *)

\* What a client does leaves main alone, and a descriptor that was readable is
\* readable after it.
LEMMA ClientsKeepFiles ==
    ASSUME SelectInv, UNCHANGED mainvars,
           \A c \in Clients : conn[c] = "open" => conn'[c] = "open",
           backlog # <<>> => backlog' # <<>>,
           \A c \in Clients : Readable(c) => Readable(c)'
    PROVE  ControlInv' /\ FilesInv' /\ SweepInv'
<1>1. ControlInv'
  BY DEF SelectInv, ControlInv, mainvars, fd_skt
<1>2. FilesInv'
  BY DEF SelectInv, FilesInv, HwmCoversSet, mainvars, fd_skt
<1>3. \A f \in Fds : FdReadable(f) => FdReadable(f)'
  <2>1. file' = file /\ \A f \in Fds : file[f] \in Clients \cup {Listener, Free}
    BY DEF SelectInv, FilesInv, mainvars
  <2> QED
    BY <2>1, Names DEF FdReadable
<1>4. SweepInv'
  BY <1>3 DEF SelectInv, SweepInv, Ahead, mainvars
<1> QED
  BY <1>1, <1>2, <1>4

\* A new connection goes to the end of the queue, where it was not before.
LEMMA ConnectKeeps ==
    ASSUME SelectInv, NEW c \in Clients, pc # "dead", Connect(c), UNCHANGED mainvars
    PROVE  SelectInv'
<1>1. /\ link[c] = "none" /\ link' = [link EXCEPT ![c] = "up"]
      /\ conn' = [conn EXCEPT ![c] = "queued"] /\ backlog' = Append(backlog, c)
      /\ sent' = sent /\ taken' = taken /\ got' = got
  BY DEF Connect
<1>2. conn[c] = "none" /\ backlog \in Seq(Clients)
  BY <1>1 DEF SelectInv, SocketsInv
<1>3. \A i \in DOMAIN backlog : backlog[i] # c
  BY <1>2 DEF SelectInv, SocketsInv
<1>4. /\ backlog' \in Seq(Clients) /\ backlog' # <<>>
      /\ \A i \in DOMAIN backlog' :
           (i \in DOMAIN backlog /\ backlog'[i] = backlog[i]) \/ (i = Len(backlog) + 1 /\ backlog'[i] = c)
  BY <1>1, <1>2
<1>5. SocketsInv'
  <2>1. /\ link' \in [Clients -> {"none", "up", "fin", "reset"}]
        /\ conn' \in [Clients -> {"none", "queued", "open", "closed"}]
        /\ \A d \in Clients : link'[d] = "none" <=> conn'[d] = "none"
    BY <1>1 DEF SelectInv, SocketsInv
  <2>2. \A i \in DOMAIN backlog' : conn'[backlog'[i]] = "queued"
    BY <1>1, <1>3, <1>4 DEF SelectInv, SocketsInv
  <2>3. \A i, j \in DOMAIN backlog' : backlog'[i] = backlog'[j] => i = j
    <3>1. \A i, j \in DOMAIN backlog : backlog[i] = backlog[j] => i = j
      BY DEF SelectInv, SocketsInv
    <3>2. ASSUME NEW i \in DOMAIN backlog', NEW j \in DOMAIN backlog', backlog'[i] = backlog'[j]
          PROVE  i = j
      <4>1. CASE i \in DOMAIN backlog /\ backlog'[i] = backlog[i]
        <5>1. ~(j = Len(backlog) + 1 /\ backlog'[j] = c)
          BY <1>3, <3>2, <4>1
        <5> QED
          BY <1>4, <3>1, <3>2, <4>1, <5>1
      <4>2. CASE i = Len(backlog) + 1 /\ backlog'[i] = c
        <5>1. ~(j \in DOMAIN backlog /\ backlog'[j] = backlog[j])
          BY <1>3, <3>2, <4>2
        <5> QED
          BY <1>4, <4>2, <5>1
      <4> QED
        BY <1>4, <4>1, <4>2
    <3> QED
      BY <3>2
  <2> QED
    BY <1>1, <1>4, <2>1, <2>2, <2>3 DEF SelectInv, SocketsInv
<1>6. ControlInv' /\ FilesInv' /\ SweepInv'
  <2>1. \A d \in Clients : conn[d] = "open" => conn'[d] = "open"
    BY <1>1, <1>2 DEF SelectInv, SocketsInv
  <2>2. \A d \in Clients : Readable(d) => Readable(d)'
    BY <1>1 DEF Readable, SelectInv, SocketsInv
  <2> QED
    BY <1>4, <2>1, <2>2, ClientsKeepFiles
<1>7. AnswersInv'
  <2>1. file' = file /\ fd' = fd /\ pc' = pc /\ buf' = buf
    BY DEF mainvars
  <2>2. \A d \in Clients : Serving(d)' <=> Serving(d)
    BY <2>1 DEF Serving
  <2>3. pc \in {"write", "close"} => file[fd] # c /\ file[fd] \in Clients
    BY <1>2 DEF SelectInv, ControlInv, FilesInv
  <2>4. \A d \in Clients : conn'[d] # "closed" => conn[d] # "closed"
    BY <1>1, <1>2 DEF SelectInv, SocketsInv
  <2>5. pc \in {"write", "close"} => link'[file[fd]] = link[file[fd]]
    BY <1>1, <2>3 DEF SelectInv, SocketsInv
  <2> QED
    BY <1>1, <2>1, <2>2, <2>4, <2>5 DEF SelectInv, AnswersInv
<1> QED
  BY <1>5, <1>6, <1>7 DEF SelectInv

\* Bytes that arrive leave the end of the data, and what was read, as they were.
LEMMA SendKeeps ==
    ASSUME SelectInv, NEW c \in Clients, Send(c), UNCHANGED mainvars
    PROVE  SelectInv'
<1>1. /\ link[c] = "up" /\ sent' = [sent EXCEPT ![c] = @ + 1]
      /\ link' = link /\ conn' = conn /\ backlog' = backlog /\ taken' = taken /\ got' = got
  BY DEF Send
<1>2. sent' \in [Clients -> Nat]
  BY <1>1 DEF SelectInv, SocketsInv
<1>3. \A d \in Clients : sent[d] <= sent'[d] /\ (d # c => sent'[d] = sent[d])
  BY <1>1 DEF SelectInv, SocketsInv
<1>4. SocketsInv'
  BY <1>1, <1>2 DEF SelectInv, SocketsInv
<1>5. \A d \in Clients : Readable(d) => Readable(d)'
  <2> SUFFICES ASSUME NEW d \in Clients, Readable(d) PROVE Readable(d)'
    OBVIOUS
  <2>1. sent[d] \in Nat /\ sent'[d] \in Nat /\ taken[d] \in Nat /\ sent[d] <= sent'[d]
    BY <1>2, <1>3 DEF SelectInv, SocketsInv
  <2> QED
    BY <1>1, <2>1 DEF Readable
<1>6. ControlInv' /\ FilesInv' /\ SweepInv'
  BY <1>1, <1>5, ClientsKeepFiles
<1>7. AnswersInv'
  <2>1. file' = file /\ fd' = fd /\ pc' = pc /\ buf' = buf
    BY DEF mainvars
  <2>2. \A d \in Clients : Serving(d)' <=> Serving(d)
    BY <2>1 DEF Serving
  <2>3. ASSUME pc = "write" /\ buf.nread \in Nat /\ buf.nread <= sent[file[fd]]
        PROVE  buf.nread <= sent'[file[fd]]
    <3>1. file[fd] \in Clients
      BY <2>3 DEF SelectInv, ControlInv
    <3>2. sent[file[fd]] \in Nat /\ sent'[file[fd]] \in Nat /\ sent[file[fd]] <= sent'[file[fd]]
      BY <1>2, <1>3, <3>1 DEF SelectInv, SocketsInv
    <3> QED
      BY <2>3, <3>2, SMT
  <2>4. pc \in {"write", "close"} /\ link[file[fd]] \in {"fin", "reset"}
          => sent'[file[fd]] = sent[file[fd]]
    BY <1>1, <1>3 DEF SelectInv, ControlInv
  <2> QED
    BY <1>1, <2>1, <2>2, <2>3, <2>4 DEF SelectInv, AnswersInv
<1> QED
  BY <1>4, <1>6, <1>7 DEF SelectInv

\* A client that is done, or resets, sends no more.
LEMMA LeaveKeeps ==
    ASSUME SelectInv, NEW c \in Clients, NEW how \in {"fin", "reset"}, Leave(c, how),
           UNCHANGED mainvars
    PROVE  SelectInv'
<1>1. /\ link[c] = "up" /\ link' = [link EXCEPT ![c] = how]
      /\ sent' = sent /\ conn' = conn /\ backlog' = backlog /\ taken' = taken /\ got' = got
  BY DEF Leave
<1>2. /\ link' \in [Clients -> {"none", "up", "fin", "reset"}]
      /\ \A d \in Clients : link'[d] = IF d = c THEN how ELSE link[d]
  BY <1>1 DEF SelectInv, SocketsInv
<1>3. SocketsInv'
  BY <1>1, <1>2 DEF SelectInv, SocketsInv
<1>4. \A d \in Clients : Readable(d) => Readable(d)'
  BY <1>1, <1>2 DEF Readable
<1>5. ControlInv' /\ FilesInv' /\ SweepInv'
  BY <1>1, <1>4, ClientsKeepFiles
<1>6. AnswersInv'
  <2>1. file' = file /\ fd' = fd /\ pc' = pc /\ buf' = buf
    BY DEF mainvars
  <2>2. \A d \in Clients : Serving(d)' <=> Serving(d)
    BY <2>1 DEF Serving
  <2>3. pc \in {"write", "close"} => file[fd] \in Clients
    BY DEF SelectInv, ControlInv
  <2>4. pc \in {"write", "close"} /\ link[file[fd]] \in {"fin", "reset"}
          => link'[file[fd]] = link[file[fd]]
    BY <1>1, <1>2, <2>3
  <2> QED
    BY <1>1, <2>1, <2>2, <2>4 DEF SelectInv, AnswersInv
<1> QED
  BY <1>3, <1>5, <1>6 DEF SelectInv

-----------------------------------------------------------------------------
(* iomultserv.c: steps of the server *)

\* What select reports is what the sweep finds.
LEMMA SelectKeeps ==
    ASSUME DescriptorRange, SelectInv, select
    PROVE  SelectInv'
<1>1. /\ pc = "select" /\ pc' = "sweep" /\ fd' = fd_skt /\ read_set' = Ready
      /\ file' = file /\ set' = set /\ fd_hwm' = fd_hwm /\ buf' = buf
      /\ UNCHANGED sockvars
  BY DEF select
<1>2. SocketsInv'
  BY <1>1 DEF SelectInv, SocketsInv, sockvars
<1>3. ControlInv'
  BY <1>1, Descriptors DEF SelectInv, FilesInv, HwmCoversSet, ControlInv, Ready, fd_skt
<1>4. FilesInv'
  BY <1>1 DEF SelectInv, FilesInv, HwmCoversSet, sockvars, fd_skt
<1>5. SweepInv'
  <2>1. \A f \in Fds : FdReadable(f)' = FdReadable(f)
    BY <1>1 DEF FdReadable, Readable, sockvars
  <2> QED
    BY <1>1, <2>1 DEF SweepInv, Ahead, Ready
<1>6. AnswersInv'
  BY <1>1 DEF SelectInv, AnswersInv, Serving, sockvars
<1> QED
  BY <1>2, <1>3, <1>4, <1>5, <1>6 DEF SelectInv

\* A descriptor that is passed by was not reported.
LEMMA SweepKeeps ==
    ASSUME DescriptorRange, SelectInv, Sweep \/ SweepEnds
    PROVE  SelectInv'
<1>1. /\ pc = "sweep" /\ read_set' = read_set /\ file' = file /\ set' = set
      /\ fd_hwm' = fd_hwm /\ buf' = buf /\ UNCHANGED sockvars
      /\ \/ pc' = "sweep" /\ fd' = fd + 1
         \/ pc' = "select" /\ fd' = fd
  BY DEF Sweep, SweepEnds
<1>2. SocketsInv'
  BY <1>1 DEF SelectInv, SocketsInv, sockvars
<1>3. ControlInv'
  <2>1. fd' \in Nat /\ fd_skt <= fd' /\ fd_skt \in Nat
    BY <1>1, Descriptors, SMT DEF SelectInv, ControlInv
  <2> QED
    BY <1>1, <2>1 DEF SelectInv, ControlInv, fd_skt
<1>4. FilesInv'
  BY <1>1 DEF SelectInv, FilesInv, HwmCoversSet, sockvars, fd_skt
<1>5. SweepInv'
  <2>1. \A f \in Fds : FdReadable(f)' = FdReadable(f)
    BY <1>1 DEF FdReadable, Readable, sockvars
  <2>2. \A f \in Fds : fd + 1 <= f => fd <= f
    BY Descriptors, SMT DEF SelectInv, ControlInv
  <2> QED
    BY <1>1, <2>1, <2>2 DEF SelectInv, SweepInv, Ahead
<1>6. AnswersInv'
  BY <1>1 DEF SelectInv, AnswersInv, Serving, sockvars
<1> QED
  BY <1>2, <1>3, <1>4, <1>5, <1>6 DEF SelectInv

\* A connection comes to the head of the sweep, behind a descriptor that was
\* free, so that select did not report it.
LEMMA AcceptKeeps ==
    ASSUME DescriptorRange, SelectInv, accept
    PROVE  SelectInv'
<1>1. PICK c, new : c = Head(backlog) /\ new = LowestFree
  OBVIOUS
<1>2. /\ pc = "sweep" /\ fd <= fd_hwm /\ fd = fd_skt /\ backlog # <<>>
      /\ conn' = [conn EXCEPT ![c] = "open"] /\ backlog' = Tail(backlog)
      /\ link' = link /\ sent' = sent /\ taken' = taken /\ got' = got
      /\ file' = [file EXCEPT ![new] = c]
      /\ set' = set \cup {new} /\ fd_hwm' = Max({new, fd_hwm}) /\ fd' = fd + 1
      /\ pc' = pc /\ read_set' = read_set /\ buf' = buf
  BY <1>1 DEF accept, Accept
<1>3. new \in Fds /\ file[new] = Free /\ new # fd_skt
  <2>1. new \in {f \in Fds : file[f] = Free}
    BY <1>1, LeastExists, Descriptors DEF accept, LowestFree
  <2> QED
    BY <1>2, <2>1, Names DEF SelectInv, FilesInv
<1>4. /\ c \in Clients /\ conn[c] = "queued" /\ backlog' \in Seq(Clients)
      /\ \A i \in DOMAIN backlog' : i + 1 \in DOMAIN backlog /\ backlog'[i] = backlog[i + 1]
                                    /\ i + 1 # 1
      /\ 1 \in DOMAIN backlog /\ backlog[1] = c
  <2>1. backlog \in Seq(Clients) /\ backlog # <<>>
    BY <1>2 DEF SelectInv, SocketsInv
  <2>2. c \in Clients /\ backlog' \in Seq(Clients) /\ 1 \in DOMAIN backlog /\ backlog[1] = c
    BY <1>1, <1>2, <2>1
  <2>3. \A i \in DOMAIN backlog' : i + 1 \in DOMAIN backlog /\ backlog'[i] = backlog[i + 1]
                                  /\ i + 1 # 1
    BY <1>2, <2>1
  <2> QED
    BY <2>2, <2>3 DEF SelectInv, SocketsInv
<1>5. SocketsInv'
  <2>1. /\ \A i \in DOMAIN backlog : conn[backlog[i]] = "queued"
        /\ \A i, j \in DOMAIN backlog : backlog[i] = backlog[j] => i = j
        /\ conn \in [Clients -> {"none", "queued", "open", "closed"}]
    BY DEF SelectInv, SocketsInv
  <2>2. \A i \in DOMAIN backlog' : backlog'[i] # c /\ backlog'[i] \in Clients
    BY <1>4, <2>1
  <2>3. \A i \in DOMAIN backlog' : conn'[backlog'[i]] = "queued"
    BY <1>2, <1>4, <2>1, <2>2
  <2>4. \A i, j \in DOMAIN backlog' : backlog'[i] = backlog'[j] => i = j
    <3> SUFFICES ASSUME NEW i \in DOMAIN backlog', NEW j \in DOMAIN backlog',
                        backlog'[i] = backlog'[j]
                 PROVE  i = j
      OBVIOUS
    <3>1. i + 1 = j + 1
      BY <1>4, <2>1
    <3>2. i \in Nat /\ j \in Nat
      BY <1>4
    <3> QED
      BY <3>1, <3>2, SMT
  <2>5. conn' \in [Clients -> {"none", "queued", "open", "closed"}]
    BY <1>2, <2>1
  <2>6. \A d \in Clients : link'[d] = "none" <=> conn'[d] = "none"
    BY <1>2, <1>4, <2>1 DEF SelectInv, SocketsInv
  <2> QED
    BY <1>2, <1>4, <2>3, <2>4, <2>5, <2>6 DEF SelectInv, SocketsInv
<1>6. ControlInv'
  <2>1. fd' \in Nat /\ fd_skt <= fd' /\ fd_skt \in Nat
    BY <1>2, Descriptors, SMT DEF SelectInv, ControlInv
  <2> QED
    BY <1>2, <2>1 DEF SelectInv, ControlInv, fd_skt
<1>7. /\ file \in [Fds -> Clients \cup {Listener, Free}]
      /\ fd_hwm \in Fds /\ Fds \subseteq Nat
      /\ \A f \in Fds : file[f] = Listener <=> f = fd_skt
      /\ \A f \in Fds : file[f] \in Clients => conn[file[f]] = "open"
      /\ \A f, g \in Fds : file[f] = file[g] /\ file[f] \in Clients => f = g
      /\ \A f \in set : f <= fd_hwm
      /\ set = {f \in Fds : file[f] # Free}
  BY <1>2, Descriptors DEF SelectInv, FilesInv, HwmCoversSet
<1>8. /\ file' \in [Fds -> Clients \cup {Listener, Free}] /\ file'[new] = c
      /\ \A f \in Fds : f # new => file'[f] = file[f]
  BY <1>2, <1>3, <1>4, <1>7
<1>9. /\ fd_hwm' \in Fds
      /\ \A f \in Fds : f <= fd_hwm \/ f = new => f <= fd_hwm'
  <2>1. new \in Nat /\ fd_hwm \in Nat
    BY <1>3, <1>7
  <2>2. fd_hwm' = IF new <= fd_hwm THEN fd_hwm ELSE new
    BY <1>2, <2>1, MinMaxOfTwo
  <2>3. fd_hwm' \in Fds
    BY <1>3, <1>7, <2>2
  <2>4. ASSUME NEW f \in Fds, f <= fd_hwm \/ f = new
        PROVE  f <= fd_hwm'
    <3>1. f \in Nat
      BY <1>7
    <3> QED
      BY <2>1, <2>2, <2>4, <3>1, SMT
  <2> QED
    BY <2>3, <2>4
<1>10. FilesInv'
  <2>1. \A f \in Fds : file'[f] = Listener <=> f = fd_skt
    BY <1>3, <1>4, <1>7, <1>8, Names
  <2>2. \A f \in Fds : file'[f] \in Clients => conn'[file'[f]] = "open"
    BY <1>2, <1>4, <1>7, <1>8 DEF SelectInv, SocketsInv
  <2>3. \A f, g \in Fds : file'[f] = file'[g] /\ file'[f] \in Clients => f = g
    BY <1>4, <1>7, <1>8
  <2>4. set' = {f \in Fds : file'[f] # Free}
    BY <1>2, <1>3, <1>4, <1>7, <1>8, Names
  <2>5. \A f \in set' : f <= fd_hwm'
    BY <1>2, <1>3, <1>7, <1>9
  <2>6. HwmCoversSet'
    BY <2>4, <2>5 DEF HwmCoversSet
  <2> QED
    BY <1>8, <1>9, <2>1, <2>2, <2>3, <2>6 DEF FilesInv, fd_skt
<1>11. SweepInv'
  <2> SUFFICES ASSUME NEW f \in Fds, Ahead(f)' PROVE f <= fd_hwm' /\ FdReadable(f)'
    BY DEF SweepInv
  <2>1. f \in read_set /\ fd + 1 <= f
    BY <1>2 DEF Ahead
  <2>2. fd <= f /\ f # fd_skt
    BY <1>2, <1>7, <2>1, SMT DEF SelectInv, ControlInv
  <2>3. f <= fd_hwm /\ FdReadable(f)
    BY <1>2, <2>1, <2>2 DEF SelectInv, SweepInv, Ahead
  <2>4. file[f] \in Clients /\ Readable(file[f])
    BY <1>7, <2>2, <2>3, WhenReadable DEF SelectInv
  <2>5. f # new
    BY <1>3, <2>4, Names
  <2>6. file'[f] = file[f] /\ Readable(file[f])'
    BY <1>2, <1>8, <2>4, <2>5 DEF Readable
  <2> QED
    BY <1>9, <2>3, <2>4, <2>6, Names DEF FdReadable
<1>12. AnswersInv'
  <2>1. \A d \in Clients : conn'[d] # "closed" => conn[d] # "closed"
    BY <1>2, <1>4 DEF SelectInv, SocketsInv
  <2> QED
    BY <1>2, <2>1 DEF SelectInv, AnswersInv, Serving
<1> QED
  BY <1>5, <1>6, <1>10, <1>11, <1>12 DEF SelectInv

\* What a read returns of a connection nothing was read from: an error, the end
\* of a client that sent nothing, or the first bytes, no more than a buffer.
LEMMA FirstRead ==
    ASSUME SocketsInv, NEW c \in Clients, Readable(c), taken[c] = 0
    PROVE  LET r == ReadResult(c)
           IN  /\ Len(r.data) \in Nat
               /\ \/ r.nread = -1 /\ r.data = <<>> /\ link[c] = "reset"
                  \/ r.nread = 0 /\ r.data = <<>> /\ sent[c] = 0 /\ link[c] = "fin"
                  \/ /\ r.nread \in Nat \ {0} /\ r.nread <= BUF /\ r.nread <= sent[c]
                     /\ r.data = Bytes(c, 0, r.nread)
<1>1. BUF \in Nat \ {0} /\ sent[c] \in Nat
  BY SocketConstants DEF SocketConstants, SocketsInv
<1>2. CASE link[c] = "reset"
  BY <1>2 DEF ReadResult
<1>3. CASE link[c] # "reset"
  <2> DEFINE n == Min({BUF, sent[c]})
  <2>1. n \in Nat /\ n <= BUF /\ n <= sent[c] /\ (n = 0 => sent[c] = 0)
    <3>1. n = IF BUF <= sent[c] THEN BUF ELSE sent[c]
      BY <1>1, MinMaxOfTwo
    <3> HIDE DEF n
    <3> QED
      BY <1>1, <3>1, SMT
  <2>2. ReadResult(c) = [nread |-> n, data |-> Bytes(c, 0, n)]
    <3>1. sent[c] - taken[c] = sent[c]
      BY <1>1, SMT
    <3>2. ReadResult(c) = [nread |-> n, data |-> Bytes(c, taken[c], taken[c] + n)]
      BY <1>3, <3>1 DEF ReadResult
    <3> HIDE DEF n
    <3>3. taken[c] + n = n
      BY <2>1, SMT
    <3> QED
      BY <3>2, <3>3
  <2> HIDE DEF n
  <2>3. Bytes(c, 0, n) \in Seq(Clients \X Nat)
    BY <2>1 DEF Bytes
  <2>4. n = 0 => Bytes(c, 0, n) = <<>>
    BY DEF Bytes
  <2>5. n = 0 => link[c] = "fin"
    <3>1. sent[c] = 0 => ~(sent[c] > taken[c])
      BY SMT
    <3> QED
      BY <1>3, <2>1, <3>1 DEF Readable
  <2> QED
    BY <2>1, <2>2, <2>3, <2>4, <2>5
<1> QED
  BY <1>2, <1>3

\* The sweep has come to a connection.
LEMMA ReadKeeps ==
    ASSUME DescriptorRange, SelectInv, read
    PROVE  SelectInv'
<1>1. PICK c : c = file[fd]
  OBVIOUS
<1>2. /\ pc = "sweep" /\ fd \in read_set /\ fd # fd_skt /\ file[fd] # Free /\ Readable(c)
      /\ taken' = [taken EXCEPT ![c] = @ + Len(ReadResult(c).data)]
      /\ link' = link /\ sent' = sent /\ got' = got /\ conn' = conn /\ backlog' = backlog
      /\ buf' = ReadResult(c) /\ pc' = "write"
      /\ file' = file /\ set' = set /\ read_set' = read_set /\ fd_hwm' = fd_hwm /\ fd' = fd
  BY <1>1 DEF read, Read
<1>3. fd \in Fds /\ c \in Clients /\ conn[c] = "open"
  BY <1>1, <1>2 DEF SelectInv, ControlInv, FilesInv
<1>4. taken[c] = 0 /\ got[c] = <<>>
  BY <1>2, <1>3 DEF SelectInv, AnswersInv, Serving
<1>5. /\ Len(buf'.data) \in Nat
      /\ \/ buf'.nread = -1 /\ buf'.data = <<>> /\ link[c] = "reset"
         \/ buf'.nread = 0 /\ buf'.data = <<>> /\ sent[c] = 0 /\ link[c] = "fin"
         \/ /\ buf'.nread \in Nat \ {0} /\ buf'.nread <= BUF /\ buf'.nread <= sent[c]
            /\ buf'.data = Bytes(c, 0, buf'.nread)
  BY <1>2, <1>3, <1>4, FirstRead DEF SelectInv
<1>6. taken' \in [Clients -> Nat] /\ \A d \in Clients : d # c => taken'[d] = taken[d]
  <2>1. taken \in [Clients -> Nat] /\ taken' = [taken EXCEPT ![c] = @ + Len(buf'.data)]
    BY <1>2 DEF SelectInv, SocketsInv
  <2> QED
    BY <1>3, <1>5, <2>1
<1>12. ASSUME buf'.nread \in Nat \ {0}, buf'.data = Bytes(c, 0, buf'.nread)
       PROVE  taken'[c] > 0
  <2>1. taken \in [Clients -> Nat] /\ taken' = [taken EXCEPT ![c] = @ + Len(buf'.data)]
    BY <1>2 DEF SelectInv, SocketsInv
  <2>2. Len(buf'.data) = buf'.nread
    BY <1>12 DEF Bytes
  <2> QED
    BY <1>3, <1>4, <1>12, <2>1, <2>2
<1>7. SocketsInv'
  BY <1>2, <1>6 DEF SelectInv, SocketsInv
<1>8. ControlInv'
  BY <1>1, <1>2, <1>3 DEF SelectInv, ControlInv, fd_skt
<1>9. FilesInv'
  BY <1>2 DEF SelectInv, FilesInv, HwmCoversSet, fd_skt
<1>10. SweepInv'
  <2> SUFFICES ASSUME NEW f \in Fds, Ahead(f)' PROVE f <= fd_hwm' /\ FdReadable(f)'
    BY DEF SweepInv
  <2>1. f \in read_set /\ fd < f
    BY <1>2 DEF Ahead
  <2>2. fd <= f /\ f # fd_skt
    BY <1>2, <2>1, Descriptors, SMT DEF SelectInv, ControlInv
  <2>3. f <= fd_hwm /\ FdReadable(f)
    BY <1>2, <2>1, <2>2 DEF SelectInv, SweepInv, Ahead
  <2>4. f # fd
    BY <2>1, Descriptors, SMT DEF SelectInv, ControlInv
  <2>5. file[f] \in Clients /\ Readable(file[f]) /\ file[f] # c
    BY <1>1, <1>2, <1>3, <2>2, <2>3, <2>4, WhenReadable DEF SelectInv, FilesInv
  <2>6. Readable(file[f])'
    BY <1>2, <1>6, <2>5 DEF Readable
  <2> QED
    BY <1>2, <2>3, <2>5, <2>6, Names DEF FdReadable
<1>11. AnswersInv'
  <2>1. \A d \in Clients : conn'[d] # "closed" /\ ~Serving(d)' => taken'[d] = 0 /\ got'[d] = <<>>
    BY <1>1, <1>2, <1>6 DEF SelectInv, AnswersInv, Serving
  <2> QED
    BY <1>1, <1>2, <1>4, <1>5, <1>12, <2>1 DEF AnswersInv
<1> QED
  BY <1>7, <1>8, <1>9, <1>10, <1>11 DEF SelectInv

\* The answer goes out.
LEMMA WriteKeeps ==
    ASSUME DescriptorRange, SelectInv, write
    PROVE  /\ SelectInv'
           /\ got'[file[fd]] = buf.data
<1>1. PICK c : c = file[fd]
  OBVIOUS
<1>2. /\ pc = "write" /\ ~(buf.nread >= 0 /\ link[c] = "reset")
      /\ got' = [got EXCEPT ![c] = @ \o buf.data]
      /\ link' = link /\ sent' = sent /\ taken' = taken /\ conn' = conn /\ backlog' = backlog
      /\ buf' = buf /\ pc' = "close"
      /\ file' = file /\ set' = set /\ read_set' = read_set /\ fd_hwm' = fd_hwm /\ fd' = fd
  BY <1>1 DEF write, Write, WriteKills
<1>3. fd \in Fds /\ c \in Clients
  BY <1>1, <1>2 DEF SelectInv, ControlInv
<1>4. /\ got[c] = <<>>
      /\ \/ buf.nread = -1 /\ buf.data = <<>> /\ link[c] = "reset"
         \/ /\ buf.nread = 0 /\ buf.data = <<>> /\ sent[c] = 0
            /\ link[c] \in {"fin", "reset"}
         \/ /\ buf.nread \in Nat \ {0} /\ buf.nread <= BUF /\ buf.nread <= sent[c]
            /\ buf.data = Bytes(c, 0, buf.nread)
  BY <1>1, <1>2 DEF SelectInv, AnswersInv
<1>5. buf.data \in Seq(Clients \X Nat) /\ (buf.nread \in Nat \ {0} => buf.data # <<>>)
  <2>1. ASSUME NEW n \in Nat \ {0}
        PROVE  Bytes(c, 0, n) \in Seq(Clients \X Nat) /\ Bytes(c, 0, n) # <<>>
    BY <1>3 DEF Bytes
  <2>2. CASE buf.nread \in Nat \ {0} /\ buf.data = Bytes(c, 0, buf.nread)
    BY <2>1, <2>2
  <2>3. CASE buf.nread \in {-1, 0} /\ buf.data = <<>>
    <3>1. ~(buf.nread \in Nat \ {0})
      BY <2>3, SMT
    <3>2. <<>> \in Seq(Clients \X Nat)
      OBVIOUS
    <3> QED
      BY <2>3, <3>1, <3>2
  <2> QED
    BY <1>4, <2>2, <2>3
<1>6. /\ got'[c] = buf.data
      /\ got' \in [Clients -> Seq(Clients \X Nat)]
      /\ \A d \in Clients : d # c => got'[d] = got[d]
  <2>1. got \in [Clients -> Seq(Clients \X Nat)]
    BY DEF SelectInv, SocketsInv
  <2>2. <<>> \o buf.data = buf.data
    BY <1>5
  <2> QED
    BY <1>2, <1>3, <1>4, <1>5, <2>1, <2>2
<1>7. SocketsInv'
  BY <1>2, <1>6 DEF SelectInv, SocketsInv
<1>8. ControlInv'
  BY <1>1, <1>2, <1>3 DEF SelectInv, ControlInv, fd_skt
<1>9. FilesInv'
  BY <1>2 DEF SelectInv, FilesInv, HwmCoversSet, fd_skt
<1>10. SweepInv'
  <2>1. \A f \in Fds : FdReadable(f)' = FdReadable(f)
    BY <1>2 DEF FdReadable, Readable
  <2> QED
    BY <1>2, <2>1 DEF SelectInv, SweepInv, Ahead
<1>11. AnswersInv'
  <2>1. \A d \in Clients : conn'[d] # "closed" /\ ~Serving(d)' => taken'[d] = 0 /\ got'[d] = <<>>
    BY <1>1, <1>2, <1>6 DEF SelectInv, AnswersInv, Serving
  <2>2. \/ got'[c] # <<>> \/ link[c] = "reset" \/ (link[c] = "fin" /\ sent[c] = 0)
    BY <1>4, <1>5, <1>6
  <2> QED
    BY <1>1, <1>2, <2>1, <2>2 DEF AnswersInv
<1> QED
  BY <1>1, <1>6, <1>7, <1>8, <1>9, <1>10, <1>11 DEF SelectInv

\* After SIGPIPE nothing is left of the server.
LEMMA SigpipeKeeps ==
    ASSUME DescriptorRange, SelectInv, SIGPIPE
    PROVE  SelectInv'
<1>1. /\ pc' = "dead" /\ backlog' = <<>>
      /\ conn' = [c \in Clients |-> IF conn[c] = "none" THEN "none" ELSE "closed"]
      /\ link' = link /\ sent' = sent /\ taken' = taken /\ got' = got
      /\ file' = file /\ set' = set /\ read_set' = read_set /\ fd_hwm' = fd_hwm
      /\ fd' = fd /\ buf' = buf
  BY DEF SIGPIPE, Exit
<1>2. SocketsInv'
  BY <1>1 DEF SelectInv, SocketsInv
<1> QED
  BY <1>1, <1>2
     DEF SelectInv, ControlInv, FilesInv, HwmCoversSet, SweepInv, AnswersInv, fd_skt

\* The mark goes down by one if the last descriptor is closed, and the others
\* are below it.
LEMMA CloseKeeps ==
    ASSUME DescriptorRange, SelectInv, close
    PROVE  SelectInv'
<1>1. PICK c : c = file[fd]
  OBVIOUS
<1>2. /\ pc = "close" /\ pc' = "sweep" /\ fd' = fd + 1
      /\ conn' = [d \in Clients |-> IF d \in {c} THEN "closed" ELSE conn[d]]
      /\ set' = set \ {fd} /\ fd_hwm' = IF fd = fd_hwm THEN fd_hwm - 1 ELSE fd_hwm
      /\ file' = [file EXCEPT ![fd] = Free]
      /\ link' = link /\ sent' = sent /\ taken' = taken /\ got' = got /\ backlog' = backlog
      /\ read_set' = read_set /\ buf' = buf
  BY <1>1 DEF close, Close
<1>3. fd \in Fds /\ c \in Clients /\ conn[c] = "open" /\ fd # fd_skt
  BY <1>1, <1>2, Names DEF SelectInv, ControlInv, FilesInv
<1>4. SocketsInv'
  <2>1. \A i \in DOMAIN backlog : backlog[i] # c /\ backlog[i] \in Clients
    BY <1>3 DEF SelectInv, SocketsInv
  <2>2. \A i \in DOMAIN backlog : conn'[backlog[i]] = "queued"
    BY <1>2, <2>1 DEF SelectInv, SocketsInv
  <2>3. /\ conn' \in [Clients -> {"none", "queued", "open", "closed"}]
        /\ \A d \in Clients : link[d] = "none" <=> conn'[d] = "none"
    BY <1>2, <1>3 DEF SelectInv, SocketsInv
  <2> QED
    BY <1>2, <2>2, <2>3 DEF SelectInv, SocketsInv
<1>5. ControlInv'
  <2>1. fd' \in Nat /\ fd_skt <= fd' /\ fd_skt \in Nat
    BY <1>2, Descriptors, SMT DEF SelectInv, ControlInv
  <2> QED
    BY <1>2, <2>1 DEF SelectInv, ControlInv, fd_skt
<1>6. /\ file \in [Fds -> Clients \cup {Listener, Free}]
      /\ fd_hwm \in Fds /\ Fds \subseteq Nat
      /\ \A f \in Fds : file[f] = Listener <=> f = fd_skt
      /\ \A f \in Fds : file[f] \in Clients => conn[file[f]] = "open"
      /\ \A f, g \in Fds : file[f] = file[g] /\ file[f] \in Clients => f = g
      /\ \A f \in set : f <= fd_hwm
      /\ set = {f \in Fds : file[f] # Free}
  BY <1>2, Descriptors DEF SelectInv, FilesInv, HwmCoversSet
<1>7. /\ file' \in [Fds -> Clients \cup {Listener, Free}] /\ file'[fd] = Free
      /\ \A f \in Fds : f # fd => file'[f] = file[f]
  BY <1>2, <1>3, <1>6
<1>8. /\ fd_hwm' \in Fds
      /\ \A f \in Fds : f <= fd_hwm /\ f # fd => f <= fd_hwm'
  <2>1. fd_hwm' \in Fds
    BY <1>2, <1>3, <1>6, Descriptors
  <2>2. ASSUME NEW f \in Fds, f <= fd_hwm, f # fd
        PROVE  f <= fd_hwm'
    <3>1. f \in Nat /\ fd_hwm \in Nat
      BY <1>6
    <3>2. fd = fd_hwm => f <= fd_hwm - 1
      BY <2>2, <3>1, SMT
    <3> QED
      BY <1>2, <2>2, <3>2
  <2> QED
    BY <2>1, <2>2
<1>9. FilesInv'
  <2>1. \A f \in Fds : file'[f] = Listener <=> f = fd_skt
    BY <1>3, <1>6, <1>7, Names
  <2>2. \A f \in Fds : file'[f] \in Clients => conn'[file'[f]] = "open"
    BY <1>1, <1>2, <1>3, <1>6, <1>7, Names
  <2>3. \A f, g \in Fds : file'[f] = file'[g] /\ file'[f] \in Clients => f = g
    BY <1>6, <1>7, Names
  <2>4. set' = {f \in Fds : file'[f] # Free}
    BY <1>2, <1>6, <1>7
  <2>5. \A f \in set' : f <= fd_hwm'
    BY <1>2, <1>6, <1>8
  <2> QED
    BY <1>7, <1>8, <2>1, <2>2, <2>3, <2>4, <2>5 DEF FilesInv, HwmCoversSet, fd_skt
<1>10. SweepInv'
  <2> SUFFICES ASSUME NEW f \in Fds, Ahead(f)' PROVE f <= fd_hwm' /\ FdReadable(f)'
    BY DEF SweepInv
  <2>1. f \in read_set /\ fd + 1 <= f
    BY <1>2 DEF Ahead
  <2>2. fd < f /\ f # fd_skt /\ f # fd
    <3>1. f \in Nat /\ fd \in Nat /\ fd_skt \in Nat /\ fd_skt <= fd
      BY <1>3, <1>6, Descriptors
    <3> QED
      BY <2>1, <3>1, SMT
  <2>3. f <= fd_hwm /\ FdReadable(f)
    BY <1>2, <2>1, <2>2 DEF SelectInv, SweepInv, Ahead
  <2>4. file[f] \in Clients /\ Readable(file[f])
    BY <1>6, <2>2, <2>3, WhenReadable DEF SelectInv
  <2>5. file'[f] = file[f] /\ Readable(file[f])'
    BY <1>2, <1>7, <2>2, <2>4 DEF Readable
  <2> QED
    BY <1>8, <2>2, <2>3, <2>4, <2>5, Names DEF FdReadable
<1>11. AnswersInv'
  <2>1. \A d \in Clients : conn'[d] # "closed" => conn[d] # "closed" /\ ~Serving(d)
    BY <1>1, <1>2 DEF Serving
  <2> QED
    BY <1>2, <2>1 DEF SelectInv, AnswersInv
<1> QED
  BY <1>4, <1>5, <1>9, <1>10, <1>11 DEF SelectInv

\* Every step keeps the invariant.
LEMMA SelectStep ==
    ASSUME DescriptorRange, SelectInv, [Next]_vars
    PROVE  SelectInv'
<1>1. CASE Server
  BY <1>1, SelectKeeps, SweepKeeps, AcceptKeeps, ReadKeeps, WriteKeeps, SigpipeKeeps, CloseKeeps
     DEF Server
<1>2. CASE Clientele
  BY <1>2, ConnectKeeps, SendKeeps, LeaveKeeps DEF Clientele, Client
<1>3. CASE UNCHANGED vars
  <2>1. SocketsInv' /\ AnswersInv'
    BY <1>3 DEF SelectInv, SocketsInv, AnswersInv, Serving, vars, sockvars, mainvars
  <2>2. ControlInv' /\ FilesInv' /\ SweepInv'
    <3>1. UNCHANGED mainvars /\ conn' = conn /\ backlog' = backlog
      BY <1>3 DEF vars, sockvars
    <3>2. \A c \in Clients : Readable(c)' = Readable(c)
      BY <1>3 DEF Readable, vars, sockvars
    <3> QED
      BY <3>1, <3>2, ClientsKeepFiles
  <2> QED
    BY <2>1, <2>2 DEF SelectInv
<1> QED
  BY <1>1, <1>2, <1>3 DEF Next

-----------------------------------------------------------------------------
(* iomultserv.c: the theorems *)

\* The invariant holds in every state of the server.
LEMMA SelectInvariant == Spec => []SelectInv
<1>1. Init => SelectInv
  BY SelectStart, DescriptorsInARow
<1>2. SelectInv /\ [Next]_vars => SelectInv'
  BY SelectStep, DescriptorsInARow
<1> QED
  BY <1>1, <1>2, PTL DEF Spec

\* select is given every open connection and no closed one.
THEOREM SelectSeesAll == Spec => []HwmCoversSet
<1>1. SelectInv => HwmCoversSet
  BY DEF SelectInv, FilesInv
<1> QED
  BY <1>1, SelectInvariant, PTL

\* No accept and no read of a sweep waits, however many descriptors were
\* closed and given out again since select reported them.
THEOREM NobodyMadeToWait == Spec => []SweepNeverWaits
<1>1. SelectInv => SweepNeverWaits
  BY DEF SelectInv, ControlInv, SweepInv, Ahead, SweepNeverWaits
<1> QED
  BY <1>1, SelectInvariant, PTL

\* The server's end of a connection, as the abstract server sees it.
Status == [c \in Clients |-> IF conn[c] = "queued" THEN "open" ELSE conn[c]]

\* Each step of the clients is the same step of the abstract clients.
LEMMA ClientsImplement ==
    ASSUME SelectInv, Clientele
    PROVE  Echo!Next
<1>1. PICK c \in Clients : Connect(c) \/ Client(c)
  BY DEF Clientele
<1>2. CASE Connect(c)
  <2>1. Status' = [Status EXCEPT ![c] = "open"]
    BY <1>2 DEF Connect, Status, SelectInv, SocketsInv
  <2> QED
    BY <1>2, <2>1 DEF Connect, Status, Echo!Connect, Echo!Next
<1>3. CASE Client(c)
  <2>1. Status' = Status
    BY <1>3 DEF Client, Send, Leave, Status
  <2> QED
    BY <1>3, <2>1 DEF Client, Send, Leave, Status, Echo!Send, Echo!Leave, Echo!Next
<1> QED
  BY <1>1, <1>2, <1>3

\* A write is the abstract answer, or nothing if there is nothing to write.
LEMMA WriteImplements ==
    ASSUME DescriptorRange, SelectInv, write
    PROVE  Echo!Next \/ UNCHANGED Echo!vars
<1>1. PICK c : c = file[fd]
  OBVIOUS
<1>2. /\ pc = "write" /\ ~(buf.nread >= 0 /\ link[c] = "reset")
      /\ got' = [got EXCEPT ![c] = @ \o buf.data]
      /\ link' = link /\ sent' = sent /\ conn' = conn
  BY <1>1 DEF write, Write, WriteKills
<1>3. fd \in Fds /\ c \in Clients /\ conn[c] = "open"
  BY <1>1, <1>2 DEF SelectInv, ControlInv, FilesInv
<1>4. /\ got[c] = <<>> /\ got \in [Clients -> Seq(Clients \X Nat)] /\ sent[c] \in Nat
      /\ \/ buf.data = <<>>
         \/ /\ buf.nread \in Nat \ {0} /\ buf.nread <= BUF /\ buf.nread <= sent[c]
            /\ buf.data = Bytes(c, 0, buf.nread)
  BY <1>1, <1>2, <1>3 DEF SelectInv, AnswersInv, SocketsInv
<1>5. got'[c] = buf.data
  BY <1>1, WriteKeeps
<1>6. got' = [got EXCEPT ![c] = buf.data]
  BY <1>2, <1>3, <1>4, <1>5
<1>7. Status' = Status
  BY <1>2 DEF Status
<1>8. CASE buf.data = <<>>
  BY <1>2, <1>4, <1>6, <1>7, <1>8 DEF Echo!vars, Status
<1>9. CASE /\ buf.nread \in Nat \ {0} /\ buf.nread <= BUF /\ buf.nread <= sent[c]
           /\ buf.data = Bytes(c, 0, buf.nread)
  <2>1. buf.nread \in 1 .. Echo!Min({BUF, sent[c]})
    <3>1. BUF \in Nat
      BY SocketConstants DEF SocketConstants
    <3>2. Echo!Min({BUF, sent[c]}) = IF BUF <= sent[c] THEN BUF ELSE sent[c]
      BY <1>4, <3>1, MinMaxOfTwo
    <3> QED
      BY <1>4, <1>9, <3>1, <3>2, SMT
  <2>2. got' = [got EXCEPT ![c] = Echo!Bytes(c, 0, buf.nread)]
    BY <1>6, <1>9 DEF Bytes, Echo!Bytes
  <2>3. link[c] # "reset"
    BY <1>2, <1>9, SMT
  <2>4. Status[c] = "open"
    BY <1>3 DEF Status
  <2>5. Echo!Answer(c)
    BY <1>2, <1>4, <1>7, <2>1, <2>2, <2>3, <2>4 DEF Echo!Answer, Status
  <2> QED
    BY <1>3, <2>5 DEF Echo!Next
<1> QED
  BY <1>4, <1>8, <1>9

\* A close is the abstract hang-up, SIGPIPE the abstract failure.
LEMMA EndsImplement ==
    ASSUME SelectInv, close \/ SIGPIPE
    PROVE  Echo!Next
<1>1. PICK c : c = file[fd]
  OBVIOUS
<1>2. c \in Clients /\ fd \in Fds /\ conn[c] = "open" /\ conn \in [Clients -> {"none", "queued", "open", "closed"}]
  BY <1>1 DEF SelectInv, ControlInv, FilesInv, SocketsInv, close, SIGPIPE
<1>3. CASE close
  <2>1. Status[c] = "open" /\ Status' = [Status EXCEPT ![c] = "closed"]
    BY <1>1, <1>2, <1>3 DEF close, Close, Status
  <2>2. got[c] # <<>> \/ link[c] = "reset" \/ (link[c] = "fin" /\ sent[c] = 0)
    BY <1>1, <1>3 DEF SelectInv, AnswersInv, close
  <2>3. Echo!HangUp(c)
    BY <1>3, <2>1, <2>2 DEF close, Close, Echo!HangUp, Status
  <2> QED
    BY <1>2, <2>3 DEF Echo!Next
<1>4. CASE SIGPIPE
  <2>1. Status' = [d \in Clients |-> IF Status[d] = "open" THEN "closed" ELSE Status[d]]
    <3>1. conn' = [d \in Clients |-> IF conn[d] = "none" THEN "none" ELSE "closed"]
      BY <1>4 DEF SIGPIPE, Exit
    <3> QED
      BY <1>2, <3>1 DEF Status
  <2>2. link[c] = "reset" /\ link' = link /\ sent' = sent /\ got' = got
    BY <1>1, <1>4 DEF SIGPIPE, WriteKills, Exit
  <2>3. Echo!Fail
    BY <1>2, <2>1, <2>2 DEF Echo!Fail, Status
  <2> QED
    BY <2>3 DEF Echo!Next
<1> QED
  BY <1>3, <1>4

\* Every step of iomultserv.c is one of the abstract server, or none of them.
LEMMA SelectStepImplements ==
    ASSUME SelectInv, [Next]_vars
    PROVE  Echo!Next \/ UNCHANGED Echo!vars
<1>1. CASE UNCHANGED vars \/ select \/ Sweep \/ SweepEnds \/ read
  BY <1>1 DEF vars, sockvars, select, Sweep, SweepEnds, read, Read, Echo!vars
<1>2. CASE accept
  <2>1. /\ backlog # <<>> /\ conn' = [conn EXCEPT ![Head(backlog)] = "open"]
        /\ link' = link /\ sent' = sent /\ got' = got
    BY <1>2 DEF accept, Accept
  <2>2. Head(backlog) \in Clients /\ conn[Head(backlog)] = "queued"
    BY <2>1 DEF SelectInv, SocketsInv
  <2>3. Status' = Status
    BY <2>1, <2>2 DEF Status, SelectInv, SocketsInv
  <2> QED
    BY <2>1, <2>3 DEF Status, Echo!vars
<1> QED
  BY <1>1, <1>2, ClientsImplement, WriteImplements, EndsImplement, DescriptorsInARow DEF Next, Server

\* The server with select does what an echo server promises: each client is
\* answered once, with its own first bytes, and hung up after that.
THEOREM SelectImplementsEcho == Spec => ImplementsEcho
<1>1. Init => Echo!Init
  BY DEF Init, SockInit, Echo!Init
<1>2. SelectInv /\ [Next]_vars => [Echo!Next]_(Echo!vars)
  BY SelectStepImplements
<1> QED
  BY <1>1, <1>2, SelectInvariant, PTL DEF Spec, ImplementsEcho, Echo!Spec

-----------------------------------------------------------------------------
(* What the servers have in common: a connection that was not read from yet,  *)
(* a buffer with what the first read of it returned, and one that has had its *)
(* answer.                                                                    *)

Buffers == [nread : -1 .. BUF, data : Seq(Clients \X Nat)]

Fresh(c) == taken[c] = 0 /\ got[c] = <<>>

Filled(c, b) ==
    /\ got[c] = <<>>
    /\ \/ b.nread = -1 /\ b.data = <<>> /\ link[c] = "reset"
       \/ b.nread = 0 /\ b.data = <<>> /\ sent[c] = 0 /\ link[c] = "fin"
       \/ /\ b.nread \in Nat \ {0} /\ b.nread <= BUF /\ b.nread <= sent[c]
          /\ b.data = Bytes(c, 0, b.nread) /\ taken[c] > 0

Answered(c) == got[c] # <<>> \/ link[c] = "reset" \/ (link[c] = "fin" /\ sent[c] = 0)

\* A step that leaves connection c as far as it is.
Steady(c) ==
    /\ Fresh(c) => Fresh(c)'
    /\ \A b : Filled(c, b) => Filled(c, b)'
    /\ Answered(c) => Answered(c)'

Sockets ==
    /\ SocketsInv
    /\ \A c \in Clients : taken[c] <= sent[c] /\ sent[c] <= MaxSend

\* A step that touches neither what a client sent and got nor its end.
LEMMA Untouched ==
    ASSUME NEW c, link'[c] = link[c], sent'[c] = sent[c], taken'[c] = taken[c],
           got'[c] = got[c]
    PROVE  Steady(c)
BY DEF Steady, Fresh, Filled, Answered

\* Nobody has connected when a server starts.
LEMMA SocketsStart ==
    ASSUME SockInit
    PROVE  Sockets /\ \A c \in Clients : conn[c] = "none" /\ Fresh(c)
<1>1. SocketsInv
  BY DEF SockInit, SocketsInv
<1>2. \A c \in Clients : taken[c] = 0 /\ sent[c] = 0 /\ conn[c] = "none" /\ got[c] = <<>>
  BY DEF SockInit
<1>3. 0 <= 0 /\ 0 <= MaxSend
  BY SocketConstants, SMT DEF SocketConstants
<1> QED
  BY <1>1, <1>2, <1>3 DEF Sockets, Fresh

\* A step that leaves the sockets alone.
LEMMA IdleSockets ==
    ASSUME Sockets, UNCHANGED sockvars
    PROVE  Sockets' /\ conn' = conn /\ \A c \in Clients : Steady(c)
<1>1. Sockets' /\ conn' = conn
  BY DEF Sockets, SocketsInv, sockvars
<1>2. \A c \in Clients : Steady(c)
  BY Untouched DEF sockvars
<1> QED
  BY <1>1, <1>2

\* A client connects: the queue grows by a connection that was not in it.
LEMMA ConnectSockets ==
    ASSUME Sockets, NEW d \in Clients, Connect(d)
    PROVE  /\ Sockets' /\ conn[d] = "none" /\ conn' = [conn EXCEPT ![d] = "queued"]
           /\ \A c \in Clients : Steady(c)
<1>1. /\ link[d] = "none" /\ link' = [link EXCEPT ![d] = "up"]
      /\ conn' = [conn EXCEPT ![d] = "queued"] /\ backlog' = Append(backlog, d)
      /\ sent' = sent /\ taken' = taken /\ got' = got
  BY DEF Connect
<1>2. SocketsInv /\ conn[d] = "none" /\ backlog \in Seq(Clients)
  BY <1>1 DEF Sockets, SocketsInv
<1>3. \A i \in DOMAIN backlog : backlog[i] # d
  BY <1>2 DEF SocketsInv
<1>4. /\ backlog' \in Seq(Clients)
      /\ \A i \in DOMAIN backlog' :
           (i \in DOMAIN backlog /\ backlog'[i] = backlog[i]) \/ (i = Len(backlog) + 1 /\ backlog'[i] = d)
  BY <1>1, <1>2
<1>5. SocketsInv'
  <2>1. /\ link' \in [Clients -> {"none", "up", "fin", "reset"}]
        /\ conn' \in [Clients -> {"none", "queued", "open", "closed"}]
        /\ \A c \in Clients : link'[c] = "none" <=> conn'[c] = "none"
    BY <1>1, <1>2 DEF SocketsInv
  <2>2. \A i \in DOMAIN backlog' : conn'[backlog'[i]] = "queued"
    BY <1>1, <1>2, <1>3, <1>4 DEF SocketsInv
  <2>3. ASSUME NEW i \in DOMAIN backlog', NEW j \in DOMAIN backlog', backlog'[i] = backlog'[j]
        PROVE  i = j
    <3>1. CASE i \in DOMAIN backlog /\ backlog'[i] = backlog[i]
      <4>1. ~(j = Len(backlog) + 1 /\ backlog'[j] = d)
        BY <1>3, <2>3, <3>1
      <4> QED
        BY <1>2, <1>4, <2>3, <3>1, <4>1 DEF SocketsInv
    <3>2. CASE i = Len(backlog) + 1 /\ backlog'[i] = d
      <4>1. ~(j \in DOMAIN backlog /\ backlog'[j] = backlog[j])
        BY <1>3, <2>3, <3>2
      <4> QED
        BY <1>4, <3>2, <4>1
    <3> QED
      BY <1>4, <3>1, <3>2
  <2> QED
    BY <1>1, <1>2, <1>4, <2>1, <2>2, <2>3 DEF SocketsInv
<1>6. \A c \in Clients : Steady(c)
  <2> SUFFICES ASSUME NEW c \in Clients PROVE Steady(c)
    OBVIOUS
  <2>1. CASE c # d
    BY <1>1, <1>2, <2>1, Untouched DEF SocketsInv
  <2>2. CASE c = d
    <3>1. link'[c] = "up" /\ sent' = sent /\ got' = got /\ taken' = taken
      BY <1>1, <1>2, <2>2 DEF SocketsInv
    <3> QED
      BY <1>1, <2>2, <3>1 DEF Steady, Fresh, Filled, Answered
  <2> QED
    BY <2>1, <2>2
<1> QED
  BY <1>1, <1>2, <1>5, <1>6 DEF Sockets

\* A client leaves; which of them may reset differs from server to server.
Departs(d) ==
    /\ link[d] = "up" /\ \E how \in {"fin", "reset"} : link' = [link EXCEPT ![d] = how]
    /\ UNCHANGED <<sent, taken, got, conn, backlog>>

\* A client sends a byte, or leaves: what it is answered with is not changed.
LEMMA ClientSockets ==
    ASSUME Sockets, NEW d \in Clients, Send(d) \/ Departs(d)
    PROVE  Sockets' /\ conn' = conn /\ \A c \in Clients : Steady(c)
<1>1. SocketsInv /\ MaxSend \in Nat
  BY SocketConstants DEF Sockets, SocketConstants
<1>2. CASE Send(d)
  <2>1. /\ link[d] = "up" /\ sent' = [sent EXCEPT ![d] = @ + 1] /\ sent[d] < MaxSend
        /\ link' = link /\ conn' = conn /\ backlog' = backlog /\ taken' = taken /\ got' = got
    BY <1>2 DEF Send
  <2>2. sent' \in [Clients -> Nat] /\ \A c \in Clients : sent'[c] = IF c = d THEN sent[c] + 1 ELSE sent[c]
    BY <1>1, <2>1 DEF SocketsInv
  <2>3. SocketsInv'
    BY <1>1, <2>1, <2>2 DEF SocketsInv
  <2>4. ASSUME NEW c \in Clients
        PROVE  taken'[c] <= sent'[c] /\ sent'[c] <= MaxSend
    <3>1. taken[c] \in Nat /\ sent[c] \in Nat /\ taken[c] <= sent[c] /\ sent[c] <= MaxSend
      BY <1>1 DEF Sockets, SocketsInv
    <3>2. taken'[c] = taken[c] /\ (sent'[c] = sent[c] \/ (sent[c] < MaxSend /\ sent'[c] = sent[c] + 1))
      BY <2>1, <2>2
    <3> QED
      BY <1>1, <3>1, <3>2, SMT
  <2>5. ASSUME NEW c \in Clients
        PROVE  Steady(c)
    <3>1. CASE c # d
      BY <2>1, <2>2, <3>1, Untouched
    <3>2. CASE c = d
      <4>1. sent[c] \in Nat /\ sent'[c] = sent[c] + 1 /\ link[c] = "up" /\ link'[c] = "up"
        BY <1>1, <2>1, <2>2, <3>2 DEF SocketsInv
      <4>2. ASSUME NEW n \in Nat, n <= sent[c]
            PROVE  n <= sent'[c]
        BY <4>1, <4>2, SMT
      <4>3. \A b : Filled(c, b) => Filled(c, b)'
        BY <2>1, <4>1, <4>2 DEF Filled
      <4>4. (Fresh(c) => Fresh(c)') /\ (Answered(c) => Answered(c)')
        BY <2>1, <4>1 DEF Fresh, Answered
      <4> QED
        BY <4>3, <4>4 DEF Steady
    <3> QED
      BY <3>1, <3>2
  <2> QED
    BY <2>1, <2>3, <2>4, <2>5 DEF Sockets
<1>3. CASE Departs(d)
  <2>1. PICK how \in {"fin", "reset"} :
        /\ link[d] = "up" /\ link' = [link EXCEPT ![d] = how]
        /\ sent' = sent /\ conn' = conn /\ backlog' = backlog /\ taken' = taken /\ got' = got
    BY <1>3 DEF Departs
  <2>2. /\ link' \in [Clients -> {"none", "up", "fin", "reset"}]
        /\ \A c \in Clients : link'[c] = IF c = d THEN how ELSE link[c]
    BY <1>1, <2>1 DEF SocketsInv
  <2>3. SocketsInv'
    BY <1>1, <2>1, <2>2 DEF SocketsInv
  <2>4. ASSUME NEW c \in Clients
        PROVE  Steady(c)
    <3>1. CASE c # d
      BY <2>1, <2>2, <3>1, Untouched
    <3>2. CASE c = d
      BY <2>1, <2>2, <3>2 DEF Steady, Fresh, Filled, Answered
    <3> QED
      BY <3>1, <3>2
  <2> QED
    BY <2>1, <2>3, <2>4 DEF Sockets
<1> QED
  BY <1>2, <1>3

\* A server accepts the connection that waits longest.
LEMMA AcceptSockets ==
    ASSUME Sockets, Accept
    PROVE  /\ Sockets' /\ \A c \in Clients : Steady(c)
           /\ Head(backlog) \in Clients /\ conn[Head(backlog)] = "queued"
           /\ conn' = [conn EXCEPT ![Head(backlog)] = "open"]
<1>1. PICK d : d = Head(backlog)
  OBVIOUS
<1>2. /\ backlog # <<>> /\ conn' = [conn EXCEPT ![d] = "open"] /\ backlog' = Tail(backlog)
      /\ link' = link /\ sent' = sent /\ taken' = taken /\ got' = got
  BY <1>1 DEF Accept
<1>3. SocketsInv /\ backlog \in Seq(Clients)
  BY DEF Sockets, SocketsInv
<1>4. /\ d \in Clients /\ backlog' \in Seq(Clients) /\ 1 \in DOMAIN backlog /\ backlog[1] = d
      /\ \A i \in DOMAIN backlog' : i + 1 \in DOMAIN backlog /\ backlog'[i] = backlog[i + 1]
                                    /\ i + 1 # 1 /\ i \in Nat
  <2>1. d \in Clients /\ backlog' \in Seq(Clients) /\ 1 \in DOMAIN backlog /\ backlog[1] = d
    BY <1>1, <1>2, <1>3
  <2>2. \A i \in DOMAIN backlog' : i + 1 \in DOMAIN backlog /\ backlog'[i] = backlog[i + 1]
                                   /\ i + 1 # 1 /\ i \in Nat
    BY <1>2, <1>3
  <2> QED
    BY <2>1, <2>2
<1>5. conn[d] = "queued"
  BY <1>3, <1>4 DEF SocketsInv
<1>6. SocketsInv'
  <2>1. /\ \A i \in DOMAIN backlog : conn[backlog[i]] = "queued"
        /\ \A i, j \in DOMAIN backlog : backlog[i] = backlog[j] => i = j
        /\ conn \in [Clients -> {"none", "queued", "open", "closed"}]
    BY <1>3 DEF SocketsInv
  <2>2. \A i \in DOMAIN backlog' : backlog'[i] # d /\ backlog'[i] \in Clients
    BY <1>3, <1>4, <2>1
  <2>3. \A i \in DOMAIN backlog' : conn'[backlog'[i]] = "queued"
    BY <1>2, <1>4, <2>1, <2>2
  <2>4. ASSUME NEW i \in DOMAIN backlog', NEW j \in DOMAIN backlog', backlog'[i] = backlog'[j]
        PROVE  i = j
    <3>1. i + 1 = j + 1 /\ i \in Nat /\ j \in Nat
      BY <1>4, <2>1, <2>4
    <3> QED
      BY <3>1, SMT
  <2>5. /\ conn' \in [Clients -> {"none", "queued", "open", "closed"}]
        /\ \A c \in Clients : link'[c] = "none" <=> conn'[c] = "none"
    BY <1>2, <1>3, <1>4, <1>5, <2>1 DEF SocketsInv
  <2> QED
    BY <1>2, <1>3, <1>4, <2>3, <2>4, <2>5 DEF SocketsInv
<1>7. \A c \in Clients : Steady(c)
  BY <1>2, Untouched
<1> QED
  BY <1>1, <1>2, <1>4, <1>5, <1>6, <1>7 DEF Sockets

\* A server reads a connection for the first time, into buffer b.
LEMMA ReadSockets ==
    ASSUME Sockets, NEW d \in Clients, Read(d), Fresh(d), NEW b, b = ReadResult(d)
    PROVE  /\ Sockets' /\ conn' = conn /\ \A c \in Clients : c # d => Steady(c)
           /\ Filled(d, b)' /\ b \in Buffers /\ (b.nread >= 0 => Len(b.data) = b.nread)
<1>1. /\ Readable(d) /\ taken[d] = 0 /\ got[d] = <<>>
      /\ taken' = [taken EXCEPT ![d] = @ + Len(b.data)]
      /\ link' = link /\ sent' = sent /\ conn' = conn /\ backlog' = backlog /\ got' = got
  BY DEF Read, Fresh
<1>2. SocketsInv /\ BUF \in Nat \ {0} /\ sent[d] \in Nat
  BY SocketConstants DEF Sockets, SocketsInv, SocketConstants
<1>3. /\ Len(b.data) \in Nat
      /\ \/ b.nread = -1 /\ b.data = <<>> /\ link[d] = "reset"
         \/ b.nread = 0 /\ b.data = <<>> /\ sent[d] = 0 /\ link[d] = "fin"
         \/ /\ b.nread \in Nat \ {0} /\ b.nread <= BUF /\ b.nread <= sent[d]
            /\ b.data = Bytes(d, 0, b.nread)
  BY <1>1, <1>2, FirstRead
<1>4. b = [nread |-> b.nread, data |-> b.data]
  BY DEF ReadResult
<1>5. ASSUME NEW n \in Nat
      PROVE  Bytes(d, 0, n) \in Seq(Clients \X Nat) /\ Len(Bytes(d, 0, n)) = n
  BY DEF Bytes
<1>6. /\ b.data \in Seq(Clients \X Nat) /\ (b.nread >= 0 => Len(b.data) = b.nread)
      /\ b.nread \in -1 .. BUF /\ Len(b.data) <= sent[d]
  <2>1. CASE b.nread \in Nat \ {0} /\ b.nread <= BUF /\ b.nread <= sent[d] /\ b.data = Bytes(d, 0, b.nread)
    <3>1. b.data \in Seq(Clients \X Nat) /\ Len(b.data) = b.nread
      BY <1>5, <2>1
    <3>2. b.nread \in -1 .. BUF
      BY <1>2, <2>1, SMT
    <3> QED
      BY <2>1, <3>1, <3>2
  <2>2. CASE b.nread \in {-1, 0} /\ b.data = <<>>
    <3>1. <<>> \in Seq(Clients \X Nat) /\ Len(<<>>) = 0
      OBVIOUS
    <3>2. b.nread \in -1 .. BUF /\ (b.nread >= 0 => b.nread = 0) /\ 0 <= sent[d]
      BY <1>2, <2>2, SMT
    <3> QED
      BY <2>2, <3>1, <3>2
  <2> QED
    BY <1>3, <2>1, <2>2
<1>7. taken' \in [Clients -> Nat] /\ taken'[d] = Len(b.data)
      /\ \A c \in Clients : c # d => taken'[c] = taken[c]
  <2>1. taken \in [Clients -> Nat] /\ 0 + Len(b.data) = Len(b.data)
    BY <1>2, <1>3 DEF SocketsInv
  <2> QED
    BY <1>1, <1>3, <2>1
<1>8. Sockets'
  BY <1>1, <1>2, <1>6, <1>7 DEF Sockets, SocketsInv
<1>9. Filled(d, b)'
  <2>1. b.nread \in Nat \ {0} => taken'[d] > 0
    BY <1>6, <1>7
  <2> QED
    BY <1>1, <1>3, <2>1 DEF Filled
<1>10. \A c \in Clients : c # d => Steady(c)
  BY <1>1, <1>7, Untouched
<1>11. b \in Buffers
  BY <1>4, <1>6 DEF Buffers
<1> QED
  BY <1>1, <1>6, <1>8, <1>9, <1>10, <1>11

\* A server writes what it read: that is the answer.
LEMMA WriteSockets ==
    ASSUME Sockets, NEW d \in Clients, NEW b, Filled(d, b), Write(d, b)
    PROVE  /\ Sockets' /\ conn' = conn /\ \A c \in Clients : c # d => Steady(c)
           /\ Answered(d)' /\ got' = [got EXCEPT ![d] = b.data]
<1>1. /\ ~(b.nread >= 0 /\ link[d] = "reset") /\ got' = [got EXCEPT ![d] = @ \o b.data]
      /\ link' = link /\ sent' = sent /\ taken' = taken /\ conn' = conn /\ backlog' = backlog
  BY DEF Write, WriteKills
<1>2. /\ got[d] = <<>>
      /\ \/ b.nread = -1 /\ b.data = <<>> /\ link[d] = "reset"
         \/ b.nread = 0 /\ b.data = <<>> /\ sent[d] = 0 /\ link[d] \in {"fin", "reset"}
         \/ /\ b.nread \in Nat \ {0} /\ b.nread <= BUF /\ b.nread <= sent[d]
            /\ b.data = Bytes(d, 0, b.nread)
  BY DEF Filled
<1>3. SocketsInv /\ got \in [Clients -> Seq(Clients \X Nat)]
  BY DEF Sockets, SocketsInv
<1>4. ASSUME NEW n \in Nat \ {0}
      PROVE  Bytes(d, 0, n) \in Seq(Clients \X Nat) /\ Bytes(d, 0, n) # <<>>
  BY DEF Bytes
<1>5. b.data \in Seq(Clients \X Nat)
  <2>1. <<>> \in Seq(Clients \X Nat)
    OBVIOUS
  <2> QED
    BY <1>2, <1>4, <2>1
<1>6. got' = [got EXCEPT ![d] = b.data] /\ got'[d] = b.data
      /\ got' \in [Clients -> Seq(Clients \X Nat)]
      /\ \A c \in Clients : c # d => got'[c] = got[c]
  <2>1. <<>> \o b.data = b.data
    BY <1>5
  <2> QED
    BY <1>1, <1>2, <1>3, <1>5, <2>1
<1>7. Sockets'
  BY <1>1, <1>3, <1>6 DEF Sockets, SocketsInv
<1>8. Answered(d)'
  <2>1. CASE b.nread \in Nat \ {0} /\ b.data = Bytes(d, 0, b.nread)
    BY <1>4, <1>6, <2>1 DEF Answered
  <2>2. CASE b.nread = 0 /\ sent[d] = 0 /\ link[d] \in {"fin", "reset"}
    BY <1>1, <2>2 DEF Answered
  <2>3. CASE link[d] = "reset"
    BY <1>1, <2>3 DEF Answered
  <2> QED
    BY <1>2, <2>1, <2>2, <2>3
<1> QED
  BY <1>1, <1>6, <1>7, <1>8, Untouched

\* A server hangs up on connections it has open.
LEMMA CloseSockets ==
    ASSUME Sockets, NEW cs, \A c \in cs : c \in Clients /\ conn[c] = "open", Close(cs)
    PROVE  /\ Sockets' /\ \A c \in Clients : Steady(c)
           /\ conn' = [c \in Clients |-> IF c \in cs THEN "closed" ELSE conn[c]]
<1>1. /\ conn' = [c \in Clients |-> IF c \in cs THEN "closed" ELSE conn[c]]
      /\ link' = link /\ sent' = sent /\ taken' = taken /\ got' = got /\ backlog' = backlog
  BY DEF Close
<1>2. SocketsInv'
  <2>1. \A i \in DOMAIN backlog : backlog[i] \notin cs /\ backlog[i] \in Clients
    BY DEF Sockets, SocketsInv
  <2>2. \A i \in DOMAIN backlog : conn'[backlog[i]] = "queued"
    BY <1>1, <2>1 DEF Sockets, SocketsInv
  <2>3. /\ conn' \in [Clients -> {"none", "queued", "open", "closed"}]
        /\ \A c \in Clients : link[c] = "none" <=> conn'[c] = "none"
    BY <1>1 DEF Sockets, SocketsInv
  <2> QED
    BY <1>1, <2>2, <2>3 DEF Sockets, SocketsInv
<1> QED
  BY <1>1, <1>2, Untouched DEF Sockets

\* A server goes down: whatever was connected is not any more.
LEMMA ExitSockets ==
    ASSUME Sockets, Exit
    PROVE  /\ Sockets' /\ \A c \in Clients : Steady(c)
           /\ conn' = [c \in Clients |-> IF conn[c] = "none" THEN "none" ELSE "closed"]
<1>1. /\ conn' = [c \in Clients |-> IF conn[c] = "none" THEN "none" ELSE "closed"]
      /\ backlog' = <<>> /\ link' = link /\ sent' = sent /\ taken' = taken /\ got' = got
  BY DEF Exit
<1>2. SocketsInv'
  BY <1>1 DEF Sockets, SocketsInv
<1> QED
  BY <1>1, <1>2, Untouched DEF Sockets
-----------------------------------------------------------------------------
(* The invariants *)

\* echoserver.c: the connection in hand is the only one that is open, and no
\* other was read from or answered before its turn.
EchoInv ==
    /\ pc \in {"accept", "lookup", "read", "write", "close", "dead"}
    /\ fd_client \in Clients \cup {None}
    /\ buf \in Buffers /\ (buf.nread >= 0 => Len(buf.data) = buf.nread)
    /\ E!OneConnectionHeld
    /\ pc \in {"lookup", "read", "write", "close"} =>
        fd_client \in Clients /\ conn[fd_client] = "open"
    /\ \A c \in Clients :
        conn[c] # "closed" /\ ~(c = fd_client /\ pc \in {"write", "close"}) => Fresh(c)
    /\ pc = "write" => Filled(fd_client, buf)
    /\ pc = "close" => Answered(fd_client)

\* iomultserv.c: the sweep goes no further than one past the last descriptor.
SweepBounds == fd \in Fds \cup {Max(Fds) + 1} /\ set \subseteq Fds /\ buf.nread \in -1 .. BUF

\* multiprocserv.c: where the parent is with a connection,
ForkTypes ==
    /\ pc \in {"accept", "fork", "close"} /\ fd_client \in Clients \cup {None}
    /\ child \in [Clients -> F!Running \cup {"none", "zombie", "reaped"}]
    /\ buf \in [Clients -> Buffers]
    /\ pending \in BOOLEAN /\ handler \in BOOLEAN /\ refused \subseteq Clients
InHand(c) == pc # "accept" /\ fd_client = c
ForkHand ==
    /\ pc # "accept" => fd_client \in Clients /\ conn[fd_client] = "open"
    /\ pc = "fork" => child[fd_client] = "none" /\ fd_client \notin refused
    /\ pc = "close" => child[fd_client] # "none" \/ fd_client \in refused
    /\ \A c \in Clients : conn[c] \in {"none", "queued"} => child[c] = "none" /\ c \notin refused
\* what each process has open,
ForkFiles ==
    /\ files \in [F!Procs -> SUBSET (Clients \cup {Listener})]
    /\ files[F!parent] = {Listener} \cup {c \in Clients : InHand(c)}
    /\ \A c \in Clients :
        files[c] = {f \in {c, Listener} : \/ child[c] = "start"
                                          \/ f = c /\ child[c] \in {"read", "write", "close"}}
\* and how far the child has come with it: s is where it is, b its buffer.
Progress(c, s, b) ==
    /\ s \in {"start", "read", "write", "close"} => conn[c] = "open"
    /\ s \in {"none", "start", "read"} => Fresh(c)
    /\ s = "write" => Filled(c, b)
    /\ s \in {"close", "exit", "zombie", "reaped"} => Answered(c)
    /\ conn[c] = "closed" => Answered(c) \/ c \in refused
ForkAnswers == \A c \in Clients : Progress(c, child[c], buf[c])
ForkInv == ForkTypes /\ ForkHand /\ ForkFiles /\ ForkAnswers /\ F!ZombieHasSignal

\* threadserv.c: main, the blocks it hands over, the threads they are for,
AThread == [pc : {"none", "start", "free", "read", "write", "close"},
            vargp : Heap \cup {T!None}, fd : Fds \cup {T!None}, buf : Buffers]
ThreadTypes ==
    /\ pc \in {"malloc", "accept", "create", "dead"}
    /\ fd_client \in Heap \cup {T!None}
    /\ file \in [Fds -> Clients \cup {Listener, Free}]
    /\ heap \in [Heap -> Fds \cup {T!Unused, T!Uninit}]
    /\ thread \in [Threads -> AThread]
    /\ orphans \subseteq Heap
\* the one owner of each block, and what the block holds while it has one,
ThreadBlocks ==
    /\ pc \in {"accept", "create"} =>
        /\ fd_client \in Heap \ orphans
        /\ \A t \in Threads : thread[t].vargp # fd_client
        /\ IF pc = "accept" THEN heap[fd_client] = T!Uninit ELSE heap[fd_client] \in Fds
    /\ \A t \in Threads :
        IF thread[t].pc \in {"start", "free"}
        THEN thread[t].vargp \in Heap \ orphans /\ heap[thread[t].vargp] \in Fds
        ELSE thread[t].vargp = T!None
    /\ \A t, u \in Threads : thread[t].vargp = thread[u].vargp /\ thread[t].vargp # T!None => t = u
    /\ \A b \in orphans : heap[b] \in Fds
    /\ \A b \in Heap : heap[b] # T!Unused =>
        \/ pc \in {"accept", "create"} /\ fd_client = b
        \/ b \in orphans
        \/ \E t \in Threads : thread[t].vargp = b
\* the one holder of each descriptor, a block or a thread that has freed its,
Past(t) == thread[t].pc \in {"read", "write", "close"}
ThreadFiles ==
    /\ \A t \in Threads : thread[t].pc = "free" => thread[t].fd = heap[thread[t].vargp]
    /\ \A t \in Threads : Past(t) => thread[t].fd \in Fds
    /\ \A b \in Heap : heap[b] \in Fds => file[heap[b]] \in Clients
    /\ \A t \in Threads : Past(t) => file[thread[t].fd] \in Clients
    /\ \A f \in Fds : file[f] = Listener <=> f = fd_skt
    /\ \A f \in Fds : file[f] \in Clients =>
        /\ conn[file[f]] = "open"
        /\ (\E b \in Heap : heap[b] = f) \/ (\E t \in Threads : Past(t) /\ thread[t].fd = f)
    /\ \A f, g \in Fds : file[f] = file[g] /\ file[f] \in Clients => f = g
    /\ \A a, b \in Heap : heap[a] = heap[b] /\ heap[a] \in Fds => a = b
    /\ \A t, u \in Threads : Past(t) /\ Past(u) /\ thread[t].fd = thread[u].fd => t = u
    /\ \A b \in Heap, t \in Threads : Past(t) => heap[b] # thread[t].fd
\* and how far a thread has come with its connection.
Speaks(c) == \E t \in Threads : thread[t].pc \in {"write", "close"} /\ file[thread[t].fd] = c
ThreadAnswers ==
    /\ \A c \in Clients : conn[c] # "closed" /\ ~Speaks(c) => Fresh(c)
    /\ \A t \in Threads :
        /\ thread[t].pc = "write" => Filled(file[thread[t].fd], thread[t].buf)
        /\ thread[t].pc = "close" => Answered(file[thread[t].fd])
ThreadInv ==
    /\ ThreadTypes
    /\ IF pc = "dead" THEN \A t \in Threads : thread[t].pc = "none"
                      ELSE ThreadBlocks /\ ThreadFiles /\ ThreadAnswers

\* Whichever server was started.
ServersInv ==
    /\ which \in {"echo", "select", "fork", "thread"}
    /\ Sockets
    /\ which = "echo" => EchoInv
    /\ which = "select" => SelectInv /\ SweepBounds
    /\ which = "fork" => ForkInv
    /\ which = "thread" => ThreadInv

-----------------------------------------------------------------------------
(* echoserver.c *)

\* The buffer that no read has filled yet.
LEMMA EmptyBuffer == EmptyBuf \in Buffers /\ Len(EmptyBuf.data) = EmptyBuf.nread
<1>1. BUF \in Nat \ {0} /\ <<>> \in Seq(Clients \X Nat) /\ Len(<<>>) = 0
  BY SocketConstants DEF SocketConstants
<1>2. 0 \in -1 .. BUF
  BY <1>1, SMT
<1> QED
  BY <1>1, <1>2 DEF EmptyBuf, Buffers

\* No client has the name of something else.
LEMMA OtherNames ==
    Listener \notin Clients /\ Free \notin Clients /\ Listener # Free
    /\ None \notin Clients /\ F!parent \notin Clients /\ F!None \notin Clients
BY SocketConstants DEF SocketConstants, Listener, Free, None, F!parent, F!None

\* The invariant holds when echoserver.c enters its loop.
LEMMA EchoStart ==
    ASSUME E!Init
    PROVE  Sockets /\ EchoInv
<1>1. SockInit /\ pc = "accept" /\ fd_client = E!None /\ buf = EmptyBuf
  BY DEF E!Init, E!SockInit, SockInit, E!EmptyBuf, EmptyBuf
<1>2. Sockets
  BY <1>1, SocketsStart
<1>3. EchoInv
  <2>1. \A c \in Clients : conn[c] # "open" /\ Fresh(c)
    BY <1>1, SocketsStart
  <2>2. buf \in Buffers /\ Len(buf.data) = buf.nread
    BY <1>1, EmptyBuffer
  <2> QED
    BY <1>1, <2>1, <2>2 DEF EchoInv, E!OneConnectionHeld, E!None, None
<1> QED
  BY <1>2, <1>3

\* Steps of the clients of echoserver.c.
LEMMA EchoClients ==
    ASSUME Sockets, EchoInv, E!Clientele
    PROVE  Sockets' /\ EchoInv'
<1>1. PICK d \in Clients : (pc # "dead" /\ Connect(d)) \/ Send(d) \/ Departs(d)
  BY DEF E!Clientele, E!Connect, Connect, E!Client, E!Send, Send, E!Leave, Departs
<1>2. pc' = pc /\ fd_client' = fd_client /\ buf' = buf
  BY DEF E!Clientele
<1>3. /\ Sockets' /\ \A c \in Clients : Steady(c)
      /\ conn' = conn \/ (conn[d] = "none" /\ conn' = [conn EXCEPT ![d] = "queued"])
  BY <1>1, ConnectSockets, ClientSockets
<1>4. \A c \in Clients :
        /\ conn[c] = "open" <=> conn'[c] = "open"
        /\ conn'[c] # "closed" => conn[c] # "closed"
  BY <1>3 DEF Sockets, SocketsInv
<1>5. PICK e, b : e = fd_client /\ b = buf
  OBVIOUS
<1>6. pc = "write" => Filled(e, b)'
  BY <1>3, <1>5 DEF EchoInv, Steady
<1>7. pc = "close" => Answered(e)'
  BY <1>3, <1>5 DEF EchoInv, Steady
<1>8. \A c \in Clients :
        conn'[c] # "closed" /\ ~(c = fd_client /\ pc \in {"write", "close"}) => Fresh(c)'
  BY <1>3, <1>4 DEF EchoInv, Steady
<1>9. E!OneConnectionHeld'
  BY <1>2, <1>4 DEF EchoInv, E!OneConnectionHeld
<1> QED
  BY <1>2, <1>3, <1>4, <1>5, <1>6, <1>7, <1>8, <1>9 DEF EchoInv

\* Steps of echoserver.c itself.
LEMMA EchoKeeps ==
    ASSUME Sockets, EchoInv, E!Server
    PROVE  Sockets' /\ EchoInv'
<1>1. PICK e, b : e = fd_client /\ b = buf
  OBVIOUS
<1>2. /\ Sockets
      /\ fd_client \in Clients \cup {None} /\ buf \in Buffers
      /\ buf.nread >= 0 => Len(buf.data) = buf.nread
      /\ \A c \in Clients : conn[c] = "open" => c = e /\ pc \notin {"accept", "dead"}
      /\ \A c \in Clients : conn[c] # "closed" /\ ~(c = e /\ pc \in {"write", "close"}) => Fresh(c)
      /\ pc \in {"lookup", "read", "write", "close"} => e \in Clients /\ conn[e] = "open"
      /\ pc = "write" => Filled(e, b)
      /\ pc = "close" => Answered(e)
  BY <1>1 DEF EchoInv, E!OneConnectionHeld
<1>3. CASE E!accept
  <2>1. /\ Accept /\ pc = "accept" /\ pc' = "lookup" /\ fd_client' = Head(backlog) /\ buf' = buf
    BY <1>3 DEF E!accept, E!Accept, Accept
  <2>2. PICK d : d = Head(backlog)
    OBVIOUS
  <2>3. /\ Sockets' /\ \A c \in Clients : Steady(c)
        /\ d \in Clients /\ conn[d] = "queued" /\ conn' = [conn EXCEPT ![d] = "open"]
    BY <2>1, <2>2, AcceptSockets
  <2>4. \A c \in Clients : conn'[c] = IF c = d THEN "open" ELSE conn[c]
    BY <2>3 DEF Sockets, SocketsInv
  <2>5. \A c \in Clients : conn'[c] # "closed" => Fresh(c)'
    BY <1>2, <2>1, <2>3, <2>4 DEF Steady
  <2> QED
    BY <1>2, <2>1, <2>2, <2>3, <2>4, <2>5 DEF EchoInv, E!OneConnectionHeld
<1>4. CASE E!gethostbyaddr
  <2>1. /\ pc = "lookup" /\ pc' = "read" /\ fd_client' = fd_client /\ buf' = buf
        /\ UNCHANGED sockvars
    BY <1>4 DEF E!gethostbyaddr, E!sockvars, sockvars
  <2>2. Sockets' /\ conn' = conn /\ \A c \in Clients : Steady(c)
    BY <2>1, IdleSockets
  <2> QED
    BY <1>1, <1>2, <2>1, <2>2 DEF EchoInv, E!OneConnectionHeld, Steady
<1>5. CASE E!NoName \/ E!SIGPIPE
  <2>1. Exit /\ pc' = "dead" /\ fd_client' = fd_client /\ buf' = buf
    BY <1>5 DEF E!NoName, E!SIGPIPE, E!Exit, Exit
  <2>2. /\ Sockets' /\ \A c \in Clients : Steady(c)
        /\ conn' = [c \in Clients |-> IF conn[c] = "none" THEN "none" ELSE "closed"]
    BY <2>1, ExitSockets
  <2>3. \A c \in Clients : conn'[c] # "open" /\ (conn'[c] # "closed" => conn[c] = "none")
    BY <2>2
  <2>4. \A c \in Clients : conn'[c] # "closed" => Fresh(c)'
    <3>1. \A c \in Clients : conn[c] = "none" => conn[c] # "closed" /\ ~(c = e /\ pc \in {"write", "close"})
      BY <1>2
    <3> QED
      BY <1>2, <2>2, <2>3, <3>1 DEF Steady
  <2> QED
    BY <1>1, <1>2, <2>1, <2>2, <2>3, <2>4 DEF EchoInv, E!OneConnectionHeld
<1>6. CASE E!read
  <2>1. /\ Read(e) /\ pc = "read" /\ pc' = "write" /\ fd_client' = fd_client
        /\ buf' = ReadResult(e)
    BY <1>1, <1>6 DEF E!read, E!Read, Read, E!Readable, Readable, E!ReadResult, ReadResult,
                      E!Bytes, Bytes, E!Min, Min
  <2>2. PICK r : r = ReadResult(e)
    OBVIOUS
  <2>3. e \in Clients /\ conn[e] = "open" /\ Fresh(e)
    BY <1>2, <2>1
  <2>4. /\ Sockets' /\ conn' = conn /\ \A c \in Clients : c # e => Steady(c)
        /\ Filled(e, r)' /\ r \in Buffers /\ (r.nread >= 0 => Len(r.data) = r.nread)
    BY <2>1, <2>2, <2>3, ReadSockets
  <2>5. \A c \in Clients : conn'[c] # "closed" /\ c # e => Fresh(c)'
    BY <1>2, <2>4 DEF Steady
  <2> QED
    BY <1>1, <1>2, <2>1, <2>2, <2>3, <2>4, <2>5 DEF EchoInv, E!OneConnectionHeld
<1>7. CASE E!write
  <2>1. /\ Write(e, b) /\ pc = "write" /\ pc' = "close" /\ fd_client' = fd_client /\ buf' = buf
    BY <1>1, <1>7 DEF E!write, E!Write, Write, E!WriteKills, WriteKills
  <2>2. e \in Clients /\ Filled(e, b)
    BY <1>2, <2>1
  <2>3. /\ Sockets' /\ conn' = conn /\ \A c \in Clients : c # e => Steady(c)
        /\ Answered(e)'
    BY <2>1, <2>2, WriteSockets
  <2>4. \A c \in Clients : conn'[c] # "closed" /\ c # e => Fresh(c)'
    BY <1>2, <2>3 DEF Steady
  <2> QED
    BY <1>1, <1>2, <2>1, <2>2, <2>3, <2>4 DEF EchoInv, E!OneConnectionHeld
<1>8. CASE E!close
  <2>1. Close({e}) /\ pc = "close" /\ pc' = "accept" /\ fd_client' = fd_client /\ buf' = buf
    BY <1>1, <1>8 DEF E!close, E!Close, Close
  <2>2. /\ Sockets' /\ \A c \in Clients : Steady(c)
        /\ conn' = [c \in Clients |-> IF c \in {e} THEN "closed" ELSE conn[c]]
    BY <1>2, <2>1, CloseSockets
  <2>3. \A c \in Clients : conn'[c] # "open"
    BY <1>2, <2>2
  <2>4. \A c \in Clients : conn'[c] # "closed" => Fresh(c)'
    BY <1>2, <2>2 DEF Steady
  <2> QED
    BY <1>1, <1>2, <2>1, <2>2, <2>3, <2>4 DEF EchoInv, E!OneConnectionHeld
<1> QED
  BY <1>3, <1>4, <1>5, <1>6, <1>7, <1>8 DEF E!Server
-----------------------------------------------------------------------------
(* iomultserv.c among the servers *)

\* One past a descriptor is the next one, or one past the last.
LEMMA NextDescriptor ==
    /\ Fds \subseteq Nat /\ Max(Fds) \in Fds /\ \A f \in Fds : f <= Max(Fds)
    /\ \A f \in Fds : f + 1 \in Fds \cup {Max(Fds) + 1}
<1>1. PICK m, n \in Nat : m <= n /\ Fds = m .. n
  BY DescriptorsInARow DEF DescriptorRange
<1>2. Max(Fds) = n
  <2>1. n \in Fds /\ \A y \in Fds : n >= y
    BY <1>1, SMT
  <2>2. \A x \in Fds : (\A y \in Fds : x >= y) => x = n
    BY <1>1, SMT
  <2> QED
    BY <2>1, <2>2 DEF Max
<1> QED
  BY <1>1, <1>2, SMT

\* The first descriptor is where the sweep begins.
LEMMA SelectBounds ==
    ASSUME Init
    PROVE  Sockets /\ SweepBounds
<1>1. Sockets
  BY SocketsStart DEF Init
<1>2. fd \in Fds /\ set \subseteq Fds
  BY Descriptors, DescriptorsInARow DEF Init
<1>3. buf.nread = 0 /\ 0 \in -1 .. BUF
  BY SocketConstants, SMT DEF Init, EmptyBuf, SocketConstants
<1> QED
  BY <1>1, <1>2, <1>3 DEF SweepBounds

\* The clients of iomultserv.c are like any others.
LEMMA SelectClients ==
    ASSUME Sockets, Clientele
    PROVE  Sockets' /\ UNCHANGED mainvars
<1>1. PICK d \in Clients : (pc # "dead" /\ Connect(d)) \/ Send(d) \/ Departs(d)
  BY DEF Clientele, Client, Leave, Departs
<1> QED
  BY <1>1, ConnectSockets, ClientSockets DEF Clientele

\* Its system calls, and how far the sweep goes.
LEMMA SelectBoundsKept ==
    ASSUME Sockets, SelectInv, SweepBounds, Server
    PROVE  Sockets' /\ SweepBounds'
<1>1. PICK c, b : c = file[fd] /\ b = buf
  OBVIOUS
<1>2. fd_hwm \in Fds /\ fd \in Fds \cup {Max(Fds) + 1} /\ buf.nread \in -1 .. BUF
  BY DEF SelectInv, FilesInv, SweepBounds
<1>3. fd <= fd_hwm => fd \in Fds
  <2>1. Max(Fds) \in Nat /\ fd_hwm \in Nat /\ fd_hwm <= Max(Fds)
    BY <1>2, NextDescriptor
  <2>2. ~ (Max(Fds) + 1 <= fd_hwm)
    BY <2>1, SMT
  <2> QED
    BY <1>2, <2>2
<1>4. fd \in Fds => fd + 1 \in Fds \cup {Max(Fds) + 1}
  BY NextDescriptor
<1>5. fd_skt \in Fds
  BY Descriptors, DescriptorsInARow
<1>0. set' \subseteq Fds
  <2>1. CASE SIGPIPE
    BY <2>1 DEF SIGPIPE, SweepBounds
  <2>2. CASE ~SIGPIPE
    <3>1. SelectInv'
      BY SelectStep, DescriptorsInARow DEF Next
    <3>2. pc' # "dead"
      BY <2>2 DEF Server, select, Sweep, SweepEnds, accept, read, write, close
    <3> QED
      BY <3>1, <3>2 DEF SelectInv, FilesInv, HwmCoversSet
  <2> QED
    BY <2>1, <2>2
<1>6. CASE select \/ Sweep \/ SweepEnds
  <2>1. UNCHANGED sockvars /\ buf' = buf /\ (fd' \in {fd, fd_skt} \/ (fd <= fd_hwm /\ fd' = fd + 1))
    BY <1>6 DEF select, Sweep, SweepEnds
  <2> QED
    BY <1>0, <1>2, <1>3, <1>4, <1>5, <2>1, IdleSockets DEF SweepBounds
<1>7. CASE accept
  <2>1. Accept /\ fd <= fd_hwm /\ fd' = fd + 1 /\ buf' = buf
    BY <1>7 DEF accept
  <2> QED
    BY <1>0, <1>2, <1>3, <1>4, <2>1, AcceptSockets DEF SweepBounds
<1>8. CASE read
  <2>1. /\ pc = "sweep" /\ fd \in read_set /\ fd # fd_skt /\ file[fd] # Free
        /\ Read(c) /\ buf' = ReadResult(c) /\ fd' = fd
    BY <1>1, <1>8 DEF read
  <2>2. c \in Clients /\ conn[c] = "open"
    BY <1>1, <2>1 DEF SelectInv, ControlInv, FilesInv
  <2>3. Fresh(c)
    BY <2>1, <2>2 DEF SelectInv, AnswersInv, Serving, Fresh
  <2>4. PICK r : r = ReadResult(c)
    OBVIOUS
  <2>5. Sockets' /\ r \in Buffers
    BY <2>1, <2>2, <2>3, <2>4, ReadSockets
  <2> QED
    BY <1>0, <1>2, <2>1, <2>4, <2>5 DEF SweepBounds, Buffers
<1>9. CASE write
  <2>1. pc = "write" /\ Write(c, b) /\ fd' = fd /\ buf' = buf
    BY <1>1, <1>9 DEF write
  <2>2. c \in Clients /\ Filled(c, b)
    BY <1>1, <2>1 DEF SelectInv, ControlInv, AnswersInv, Filled
  <2> QED
    BY <1>0, <1>2, <2>1, <2>2, WriteSockets DEF SweepBounds
<1>10. CASE SIGPIPE
  <2>1. Exit /\ fd' = fd /\ buf' = buf
    BY <1>10 DEF SIGPIPE
  <2> QED
    BY <1>0, <1>2, <2>1, ExitSockets DEF SweepBounds
<1>11. CASE close
  <2>1. pc = "close" /\ Close({c}) /\ fd' = fd + 1 /\ buf' = buf
    BY <1>1, <1>11 DEF close
  <2>2. fd \in Fds /\ c \in Clients /\ conn[c] = "open"
    BY <1>1, <2>1 DEF SelectInv, ControlInv, FilesInv
  <2>3. \A d \in {c} : d \in Clients /\ conn[d] = "open"
    BY <2>2
  <2> QED
    BY <1>0, <1>2, <1>4, <2>1, <2>2, <2>3, CloseSockets DEF SweepBounds
<1> QED
  BY <1>6, <1>7, <1>8, <1>9, <1>10, <1>11 DEF Server
-----------------------------------------------------------------------------
(* multiprocserv.c *)

\* The invariant holds when the parent enters its loop.
LEMMA ForkStart ==
    ASSUME F!Init
    PROVE  Sockets /\ ForkInv
<1>1. /\ SockInit /\ pc = "accept" /\ fd_client = None
      /\ child = [c \in Clients |-> "none"] /\ buf = [c \in Clients |-> EmptyBuf]
      /\ files = [p \in F!Procs |-> IF p = F!parent THEN {Listener} ELSE {}]
      /\ pending = FALSE /\ handler = FALSE /\ refused = {}
  BY DEF F!Init, F!SockInit, SockInit, F!EmptyBuf, EmptyBuf, F!None, None, F!Listener, Listener
<1>2. Sockets /\ \A c \in Clients : conn[c] = "none" /\ Fresh(c)
  BY <1>1, SocketsStart
<1>3. ForkTypes
  BY <1>1, EmptyBuffer DEF ForkTypes
<1>4. ForkHand /\ ForkAnswers
  BY <1>1, <1>2 DEF ForkHand, ForkAnswers, Progress
<1>5. ForkFiles
  <2>1. files[F!parent] = {Listener} /\ \A c \in Clients : files[c] = {} /\ child[c] = "none"
    BY <1>1, OtherNames DEF F!Procs
  <2>2. files \in [F!Procs -> SUBSET (Clients \cup {Listener})]
    BY <1>1
  <2> QED
    BY <1>1, <2>1, <2>2 DEF ForkFiles, InHand
<1>6. F!ZombieHasSignal
  BY <1>1 DEF F!ZombieHasSignal, F!Zombies
<1> QED
  BY <1>2, <1>3, <1>4, <1>5, <1>6 DEF ForkInv

\* A connection that stays as far as it is keeps in step with its child.
LEMMA ProgressKept ==
    ASSUME NEW c, NEW s, NEW b, Progress(c, s, b), Steady(c), refused \subseteq refused',
           conn[c] = "open" => conn'[c] = "open", conn'[c] = "closed" => conn[c] = "closed"
    PROVE  Progress(c, s, b)'
BY DEF Progress, Steady

\* A child and its buffer are looked at one by one.
LEMMA ForkAnswersNext ==
    ASSUME \A c \in Clients : \E s, b : s = child'[c] /\ b = buf'[c] /\ Progress(c, s, b)'
    PROVE  ForkAnswers'
BY DEF ForkAnswers

\* Whatever leaves the processes alone, opens and closes nothing that was
\* accepted and lets every connection be as far as it was, keeps the invariant.
LEMMA ForkUndisturbed ==
    ASSUME ForkInv, UNCHANGED F!procvars, \A c \in Clients : Steady(c),
           \A c \in Clients : /\ conn[c] = "open" => conn'[c] = "open"
                              /\ conn'[c] \in {"none", "queued"} => conn[c] \in {"none", "queued"}
                              /\ conn'[c] = "closed" => conn[c] = "closed"
    PROVE  ForkInv'
<1>1. /\ pc' = pc /\ fd_client' = fd_client /\ child' = child /\ buf' = buf /\ files' = files
      /\ pending' = pending /\ handler' = handler /\ refused' = refused
  BY DEF F!procvars
<1>2. ForkTypes'
  BY <1>1 DEF ForkInv, ForkTypes
<1>3. ForkHand'
  BY <1>1 DEF ForkInv, ForkTypes, ForkHand
<1>4. ForkFiles'
  BY <1>1 DEF ForkInv, ForkFiles, InHand
<1>5. ForkAnswers'
  <2>1. ASSUME NEW c \in Clients, NEW s, NEW b, s = child[c], b = buf[c]
        PROVE  Progress(c, s, b)'
    BY <1>1, <2>1, ProgressKept DEF ForkInv, ForkAnswers
  <2> QED
    BY <1>1, <2>1, ForkAnswersNext
<1>6. F!ZombieHasSignal'
  BY <1>1 DEF ForkInv, F!ZombieHasSignal, F!Zombies
<1> QED
  BY <1>2, <1>3, <1>4, <1>5, <1>6 DEF ForkInv

\* Steps of the clients of multiprocserv.c.
LEMMA ForkClients ==
    ASSUME Sockets, ForkInv, F!Clientele
    PROVE  Sockets' /\ ForkInv'
<1>1. PICK d \in Clients : Connect(d) \/ Send(d) \/ Departs(d)
  BY DEF F!Clientele, F!Connect, Connect, F!Client, F!Send, Send, F!Leave, Departs
<1>2. UNCHANGED F!procvars
  BY DEF F!Clientele
<1>3. /\ Sockets' /\ \A c \in Clients : Steady(c)
      /\ conn' = conn \/ (conn[d] = "none" /\ conn' = [conn EXCEPT ![d] = "queued"])
  BY <1>1, ConnectSockets, ClientSockets
<1>4. \A c \in Clients : /\ conn[c] = "open" => conn'[c] = "open"
                         /\ conn'[c] \in {"none", "queued"} => conn[c] \in {"none", "queued"}
                         /\ conn'[c] = "closed" => conn[c] = "closed"
  BY <1>3 DEF Sockets, SocketsInv
<1> QED
  BY <1>2, <1>3, <1>4, ForkUndisturbed
\* The parent accepts: a connection that nobody has read or answered.
LEMMA ForkAccepts ==
    ASSUME Sockets, ForkInv, F!accept
    PROVE  Sockets' /\ ForkInv'
<1>1. PICK d : d = Head(backlog)
  OBVIOUS
<1>2. /\ Accept /\ pc = "accept" /\ pc' = "fork" /\ fd_client' = d
      /\ files' = [files EXCEPT ![F!parent] = @ \cup {d}]
      /\ child' = child /\ buf' = buf /\ pending' = pending /\ handler' = handler /\ refused' = refused
  BY <1>1 DEF F!accept, F!Accept, Accept
<1>3. /\ Sockets' /\ \A c \in Clients : Steady(c)
      /\ d \in Clients /\ conn[d] = "queued" /\ conn' = [conn EXCEPT ![d] = "open"]
  BY <1>1, <1>2, AcceptSockets
<1>4. \A c \in Clients : conn'[c] = IF c = d THEN "open" ELSE conn[c]
  BY <1>3 DEF Sockets, SocketsInv
<1>5. ForkTypes'
  BY <1>2, <1>3 DEF ForkInv, ForkTypes
<1>6. ForkHand'
  BY <1>2, <1>3, <1>4 DEF ForkInv, ForkHand
<1>7. ForkFiles'
  <2>1. F!parent \in F!Procs /\ \A c \in Clients : c \in F!Procs /\ c # F!parent
    BY OtherNames DEF F!Procs
  <2>2. /\ files \in [F!Procs -> SUBSET (Clients \cup {Listener})]
        /\ files[F!parent] = {Listener}
    BY <1>2 DEF ForkInv, ForkFiles, InHand
  <2>3. /\ files' \in [F!Procs -> SUBSET (Clients \cup {Listener})]
        /\ files'[F!parent] = {Listener} \cup {d}
        /\ \A c \in Clients : files'[c] = files[c]
    BY <1>2, <1>3, <2>1, <2>2
  <2>4. {c \in Clients : InHand(c)'} = {d}
    BY <1>2, <1>3 DEF InHand
  <2>5. ASSUME NEW c \in Clients
        PROVE  files'[c] = {f \in {c, Listener} : \/ child'[c] = "start"
                                                  \/ f = c /\ child'[c] \in {"read", "write", "close"}}
    BY <1>2, <2>3 DEF ForkInv, ForkFiles
  <2> QED
    BY <2>3, <2>4, <2>5 DEF ForkFiles
<1>8. ForkAnswers'
  <2>1. ASSUME NEW c \in Clients, NEW s, NEW b, s = child[c], b = buf[c]
        PROVE  Progress(c, s, b)'
    BY <1>2, <1>3, <1>4, <2>1, ProgressKept DEF ForkInv, ForkAnswers
  <2> QED
    BY <1>2, <2>1, ForkAnswersNext
<1>9. F!ZombieHasSignal'
  BY <1>2 DEF ForkInv, F!ZombieHasSignal, F!Zombies
<1> QED
  BY <1>3, <1>5, <1>6, <1>7, <1>8, <1>9 DEF ForkInv

\* It forks, or goes on without a child.
LEMMA ForkForks ==
    ASSUME Sockets, ForkInv, F!fork \/ F!ForkFails
    PROVE  Sockets' /\ ForkInv'
<1>1. PICK e : e = fd_client
  OBVIOUS
<1>2. /\ pc = "fork" /\ pc' = "close" /\ fd_client' = fd_client /\ UNCHANGED sockvars
      /\ buf' = buf /\ pending' = pending /\ handler' = handler
      /\ \/ /\ child' = [child EXCEPT ![e] = "start"]
            /\ files' = [files EXCEPT ![e] = files[F!parent]] /\ refused' = refused
         \/ child' = child /\ files' = files /\ refused' = refused \cup {e}
  BY <1>1 DEF F!fork, F!ForkFails, F!sockvars, sockvars
<1>3. Sockets' /\ conn' = conn /\ \A c \in Clients : Steady(c)
  BY <1>2, IdleSockets
<1>4. e \in Clients /\ conn[e] = "open" /\ child[e] = "none" /\ e \notin refused
  BY <1>1, <1>2 DEF ForkInv, ForkHand
<1>5. /\ child \in [Clients -> F!Running \cup {"none", "zombie", "reaped"}]
      /\ \A c \in Clients : c # e => child'[c] = child[c]
      /\ child'[e] = "start" \/ (child'[e] = "none" /\ e \in refused')
  BY <1>2, <1>4 DEF ForkInv, ForkTypes
<1>6. ForkTypes'
  BY <1>2, <1>4 DEF ForkInv, ForkTypes, F!Running
<1>7. ForkHand'
  BY <1>1, <1>2, <1>3, <1>4, <1>5 DEF ForkInv, ForkHand
<1>8. ForkFiles'
  <2>1. F!parent \in F!Procs /\ \A c \in Clients : c \in F!Procs /\ c # F!parent /\ c # Listener
    BY OtherNames DEF F!Procs
  <2>2. /\ files \in [F!Procs -> SUBSET (Clients \cup {Listener})]
        /\ files[F!parent] = {Listener, e}
    BY <1>1, <1>2, <1>4 DEF ForkInv, ForkFiles, InHand
  <2>3. /\ files' \in [F!Procs -> SUBSET (Clients \cup {Listener})]
        /\ files'[F!parent] = files[F!parent]
        /\ \A c \in Clients : c # e => files'[c] = files[c]
    BY <1>2, <1>4, <2>1, <2>2
  <2>4. {c \in Clients : InHand(c)'} = {c \in Clients : InHand(c)}
    BY <1>2 DEF InHand
  <2>5. files'[e] = {f \in {e, Listener} : \/ child'[e] = "start"
                                           \/ f = e /\ child'[e] \in {"read", "write", "close"}}
    <3>1. CASE child' = [child EXCEPT ![e] = "start"] /\ files' = [files EXCEPT ![e] = files[F!parent]]
      <4>1. child'[e] = "start" /\ files'[e] = {Listener, e}
        BY <1>4, <1>5, <2>1, <2>2, <3>1
      <4> QED
        BY <4>1
    <3>2. CASE child' = child /\ files' = files
      BY <1>4, <3>2 DEF ForkInv, ForkFiles
    <3> QED
      BY <1>2, <3>1, <3>2
  <2>6. ASSUME NEW c \in Clients, c # e
        PROVE  files'[c] = {f \in {c, Listener} : \/ child'[c] = "start"
                                                  \/ f = c /\ child'[c] \in {"read", "write", "close"}}
    BY <1>5, <2>3, <2>6 DEF ForkInv, ForkFiles
  <2>7. files'[F!parent] = {Listener} \cup {c \in Clients : InHand(c)'}
    BY <2>3, <2>4 DEF ForkInv, ForkFiles
  <2> QED
    BY <2>3, <2>5, <2>6, <2>7 DEF ForkFiles
<1>9. ForkAnswers'
  <2>1. ASSUME NEW c \in Clients, NEW s, NEW b, s = child[c], b = buf[c]
        PROVE  Progress(c, s, b)'
    BY <1>2, <1>3, <2>1, ProgressKept DEF ForkInv, ForkAnswers
  <2>2. ASSUME NEW b
        PROVE  Progress(e, "start", b)' /\ Progress(e, "none", b)'
    <3>1. Fresh(e)' /\ conn'[e] = "open"
      BY <1>3, <1>4 DEF ForkInv, ForkAnswers, Progress, Steady
    <3> QED
      BY <3>1 DEF Progress
  <2> QED
    BY <1>2, <1>4, <1>5, <2>1, <2>2, ForkAnswersNext
<1>10. F!ZombieHasSignal'
  BY <1>2, <1>4, <1>5 DEF ForkInv, F!ZombieHasSignal, F!Zombies
<1> QED
  BY <1>3, <1>6, <1>7, <1>8, <1>9, <1>10 DEF ForkInv

\* What a process lets go of is closed unless another one has it open too.
LEMMA Releases ==
    ASSUME Sockets, ForkInv, NEW p \in F!Procs, NEW fs, F!Release(p, fs),
           \A c \in fs \cap Clients : conn[c] = "open"
    PROVE  /\ Sockets' /\ \A c \in Clients : Steady(c)
           /\ files' \in [F!Procs -> SUBSET (Clients \cup {Listener})]
           /\ files'[p] = files[p] \ fs /\ \A q \in F!Procs : q # p => files'[q] = files[q]
           /\ \A c \in Clients : conn'[c] = IF c \in fs /\ \A q \in F!Procs : c \notin files'[q]
                                            THEN "closed" ELSE conn[c]
<1>1. PICK cs : cs = {c \in fs \cap Clients : \A q \in F!Procs : c \notin files'[q]}
  OBVIOUS
<1>2. files' = [files EXCEPT ![p] = @ \ fs] /\ Close(cs)
  BY <1>1 DEF F!Release, F!Close, Close
<1>3. files \in [F!Procs -> SUBSET (Clients \cup {Listener})]
  BY DEF ForkInv, ForkFiles
<1>4. \A c \in cs : c \in Clients /\ conn[c] = "open"
  BY <1>1
<1>5. /\ Sockets' /\ \A c \in Clients : Steady(c)
      /\ conn' = [c \in Clients |-> IF c \in cs THEN "closed" ELSE conn[c]]
  BY <1>2, <1>4, CloseSockets
<1>6. /\ files' \in [F!Procs -> SUBSET (Clients \cup {Listener})]
      /\ files'[p] = files[p] \ fs /\ \A q \in F!Procs : q # p => files'[q] = files[q]
  BY <1>2, <1>3
<1> QED
  BY <1>1, <1>5, <1>6
\* The parent lets go of the connection: it is closed at once if there is no
\* child that serves it, and then it was answered or fork failed.
LEMMA ForkCloses ==
    ASSUME Sockets, ForkInv, F!close
    PROVE  Sockets' /\ ForkInv'
<1>1. PICK e : e = fd_client
  OBVIOUS
<1>2. /\ pc = "close" /\ pc' = "accept" /\ F!Release(F!parent, {e}) /\ fd_client' = fd_client
      /\ child' = child /\ buf' = buf /\ pending' = pending /\ handler' = handler /\ refused' = refused
  BY <1>1 DEF F!close
<1>3. e \in Clients /\ conn[e] = "open" /\ (child[e] # "none" \/ e \in refused)
  BY <1>1, <1>2 DEF ForkInv, ForkHand
<1>4. F!parent \in F!Procs /\ \A c \in Clients : c \in F!Procs /\ c # F!parent /\ c # Listener
  BY OtherNames DEF F!Procs
<1>5. \A c \in {e} \cap Clients : conn[c] = "open"
  BY <1>3
<1>6. /\ Sockets' /\ \A c \in Clients : Steady(c)
      /\ files' \in [F!Procs -> SUBSET (Clients \cup {Listener})]
      /\ files'[F!parent] = files[F!parent] \ {e} /\ \A q \in F!Procs : q # F!parent => files'[q] = files[q]
      /\ \A c \in Clients : conn'[c] = IF c \in {e} /\ \A q \in F!Procs : c \notin files'[q]
                                       THEN "closed" ELSE conn[c]
  BY <1>2, <1>4, <1>5, Releases
<1>7. ForkTypes'
  BY <1>2 DEF ForkInv, ForkTypes
<1>8. ForkHand'
  BY <1>2, <1>6 DEF ForkInv, ForkHand
<1>9. ForkFiles'
  <2>1. files[F!parent] = {Listener, e}
    BY <1>1, <1>2, <1>3 DEF ForkInv, ForkFiles, InHand
  <2>2. files'[F!parent] = {Listener} \cup {c \in Clients : InHand(c)'}
    BY <1>2, <1>3, <1>4, <1>6, <2>1 DEF InHand
  <2>3. \A c \in Clients : files'[c] = files[c]
    BY <1>4, <1>6
  <2> QED
    BY <1>2, <1>6, <2>2, <2>3 DEF ForkInv, ForkFiles
<1>10. ForkAnswers'
  <2>1. ASSUME NEW c \in Clients, NEW s, NEW b, s = child[c], b = buf[c], c # e
        PROVE  Progress(c, s, b)'
    BY <1>2, <1>6, <2>1, ProgressKept DEF ForkInv, ForkAnswers
  <2>2. ASSUME NEW s, NEW b, s = child[e], b = buf[e]
        PROVE  Progress(e, s, b)'
    <3>1. Progress(e, s, b) /\ Steady(e)
      BY <1>3, <1>6, <2>2 DEF ForkInv, ForkAnswers
    <3>2. CASE s \in {"start", "read", "write", "close"}
      <4>1. e \in files[e] /\ files'[e] = files[e]
        BY <1>3, <1>4, <1>6, <2>2, <3>2 DEF ForkInv, ForkFiles
      <4>2. conn'[e] = "open"
        BY <1>3, <1>4, <1>6, <4>1
      <4> QED
        BY <1>2, <1>3, <3>1, <4>2, ProgressKept
    <3>3. CASE s = "none"
      BY <1>2, <1>3, <2>2, <3>1, <3>3 DEF Progress, Steady
    <3>4. CASE s \in {"exit", "zombie", "reaped"}
      BY <3>1, <3>4 DEF Progress, Steady
    <3> QED
      BY <1>3, <2>2, <3>2, <3>3, <3>4 DEF ForkInv, ForkTypes, F!Running
  <2> QED
    BY <1>2, <2>1, <2>2, ForkAnswersNext
<1>11. F!ZombieHasSignal'
  BY <1>2 DEF ForkInv, F!ZombieHasSignal, F!Zombies
<1> QED
  BY <1>6, <1>7, <1>8, <1>9, <1>10, <1>11 DEF ForkInv

\* The handler takes the signal, and loops until no child is a zombie: a child
\* that ends after its last waitpid has sent a signal of its own.
LEMMA ForkHandles ==
    ASSUME Sockets, ForkInv, F!Deliver \/ F!waitpid \/ F!WaitpidNone
    PROVE  Sockets' /\ ForkInv'
<1>1. /\ UNCHANGED sockvars /\ pc' = pc /\ fd_client' = fd_client /\ buf' = buf /\ files' = files
      /\ refused' = refused
      /\ \/ child' = child /\ handler' = TRUE /\ pending' = FALSE
         \/ /\ handler = TRUE /\ handler' = handler /\ pending' = pending
            /\ \E z \in Clients : child[z] = "zombie" /\ child' = [child EXCEPT ![z] = "reaped"]
         \/ child' = child /\ F!Zombies = {} /\ handler' = FALSE /\ pending' = pending
  BY DEF F!Deliver, F!waitpid, F!WaitpidNone, F!sockvars, sockvars, F!Zombies, ForkInv, ForkTypes
<1>2. Sockets' /\ conn' = conn /\ \A c \in Clients : Steady(c)
  BY <1>1, IdleSockets
<1>3. child \in [Clients -> F!Running \cup {"none", "zombie", "reaped"}]
      /\ pending \in BOOLEAN /\ handler \in BOOLEAN
  BY DEF ForkInv, ForkTypes
<1>4. \A c \in Clients : child'[c] = child[c] \/ (child[c] = "zombie" /\ child'[c] = "reaped")
  BY <1>1, <1>3
<1>5. ForkTypes'
  <2>1. child' \in [Clients -> F!Running \cup {"none", "zombie", "reaped"}]
    BY <1>1, <1>3
  <2>2. pending' \in BOOLEAN /\ handler' \in BOOLEAN
    BY <1>1, <1>3, Zenon
  <2> QED
    BY <1>1, <2>1, <2>2 DEF ForkInv, ForkTypes
<1>6. ForkHand'
  BY <1>1, <1>2, <1>4 DEF ForkInv, ForkHand
<1>7. ForkFiles'
  <2>1. \A c \in Clients : /\ child'[c] = "start" <=> child[c] = "start"
                           /\ child'[c] \in {"read", "write", "close"} <=> child[c] \in {"read", "write", "close"}
    BY <1>4
  <2> QED
    BY <1>1, <2>1 DEF ForkInv, ForkFiles, InHand
<1>8. ForkAnswers'
  <2>1. ASSUME NEW c \in Clients, NEW s, NEW b, s = child[c], b = buf[c]
        PROVE  Progress(c, s, b)'
    BY <1>1, <1>2, <2>1, ProgressKept DEF ForkInv, ForkAnswers
  <2>2. ASSUME NEW c \in Clients, NEW b, Progress(c, "zombie", b)'
        PROVE  Progress(c, "reaped", b)'
    BY <2>2 DEF Progress
  <2> QED
    BY <1>1, <1>4, <2>1, <2>2, ForkAnswersNext
<1>9. F!ZombieHasSignal'
  <2>1. CASE handler' = TRUE
    BY <2>1 DEF F!ZombieHasSignal
  <2>2. CASE child' = child /\ F!Zombies = {}
    BY <2>2 DEF F!ZombieHasSignal, F!Zombies
  <2> QED
    BY <1>1, <2>1, <2>2
<1> QED
  BY <1>2, <1>5, <1>6, <1>7, <1>8, <1>9 DEF ForkInv
\* A child reads its own connection, or writes the answer to it.
LEMMA ForkEchoes ==
    ASSUME Sockets, ForkInv, NEW d \in Clients, F!ChildRead(d) \/ F!ChildWrite(d)
    PROVE  Sockets' /\ ForkInv'
<1>1. PICK e, r : e = buf[d] /\ r = ReadResult(d)
  OBVIOUS
<1>2. Progress(d, child[d], e)
  BY <1>1 DEF ForkInv, ForkAnswers
<1>3. /\ pc' = pc /\ fd_client' = fd_client /\ files' = files
      /\ pending' = pending /\ handler' = handler /\ refused' = refused
      /\ \/ /\ child[d] = "read" /\ Read(d) /\ buf' = [buf EXCEPT ![d] = r]
            /\ child' = [child EXCEPT ![d] = "write"]
         \/ /\ child[d] = "write" /\ Write(d, e) /\ buf' = buf
            /\ child' = [child EXCEPT ![d] = "close"]
  BY <1>1 DEF F!ChildRead, F!ChildWrite, F!Read, Read, F!Readable, Readable, F!ReadResult, ReadResult,
              F!Bytes, Bytes, F!Min, Min, F!Write, Write, F!WriteKills, WriteKills
<1>4. /\ Sockets' /\ conn' = conn /\ \A c \in Clients : c # d => Steady(c)
      /\ \/ child[d] = "read" /\ Filled(d, r)' /\ r \in Buffers
         \/ child[d] = "write" /\ Answered(d)'
  <2>1. CASE child[d] = "read" /\ Read(d)
    <3>1. Fresh(d)
      BY <1>2, <2>1 DEF Progress
    <3> QED
      BY <1>1, <2>1, <3>1, ReadSockets
  <2>2. CASE child[d] = "write" /\ Write(d, e)
    <3>1. Filled(d, e)
      BY <1>2, <2>2 DEF Progress
    <3> QED
      BY <2>2, <3>1, WriteSockets
  <2> QED
    BY <1>3, <2>1, <2>2
<1>5. /\ child \in [Clients -> F!Running \cup {"none", "zombie", "reaped"}]
      /\ \A c \in Clients : c # d => child'[c] = child[c] /\ buf'[c] = buf[c]
      /\ \/ child[d] = "read" /\ child'[d] = "write" /\ buf'[d] = r
         \/ child[d] = "write" /\ child'[d] = "close" /\ buf'[d] = e
  BY <1>1, <1>3 DEF ForkInv, ForkTypes
<1>6. ForkTypes'
  <2>1. child' \in [Clients -> F!Running \cup {"none", "zombie", "reaped"}]
    BY <1>3, <1>5 DEF F!Running
  <2>2. buf' \in [Clients -> Buffers]
    BY <1>3, <1>4 DEF ForkInv, ForkTypes
  <2> QED
    BY <1>3, <2>1, <2>2 DEF ForkInv, ForkTypes
<1>7. ForkHand'
  BY <1>3, <1>4, <1>5 DEF ForkInv, ForkHand
<1>8. ForkFiles'
  <2>1. \A c \in Clients : /\ child'[c] = "start" <=> child[c] = "start"
                           /\ child'[c] \in {"read", "write", "close"} <=> child[c] \in {"read", "write", "close"}
    BY <1>5
  <2> QED
    BY <1>3, <2>1 DEF ForkInv, ForkFiles, InHand
<1>9. ForkAnswers'
  <2>1. ASSUME NEW c \in Clients, NEW s, NEW b, s = child[c], b = buf[c], c # d
        PROVE  Progress(c, s, b)'
    BY <1>3, <1>4, <2>1, ProgressKept DEF ForkInv, ForkAnswers
  <2>2. \E s, b : s = child'[d] /\ b = buf'[d] /\ Progress(d, s, b)'
    <3>1. conn'[d] = "open"
      BY <1>2, <1>3, <1>4 DEF Progress
    <3>2. CASE child[d] = "read" /\ Filled(d, r)'
      <4>1. Progress(d, "write", r)'
        BY <3>1, <3>2 DEF Progress
      <4> QED
        BY <1>5, <3>2, <4>1
    <3>3. CASE child[d] = "write" /\ Answered(d)'
      <4>1. Progress(d, "close", e)'
        BY <3>1, <3>3 DEF Progress
      <4> QED
        BY <1>5, <3>3, <4>1
    <3> QED
      BY <1>4, <3>2, <3>3
  <2> QED
    BY <1>5, <2>1, <2>2, ForkAnswersNext
<1>10. F!ZombieHasSignal'
  <2>1. \A c \in Clients : child'[c] = "zombie" <=> child[c] = "zombie"
    BY <1>5
  <2> QED
    BY <1>3, <2>1 DEF ForkInv, F!ZombieHasSignal, F!Zombies
<1> QED
  BY <1>4, <1>6, <1>7, <1>8, <1>9, <1>10 DEF ForkInv

\* A child lets go of the listener, of its connection, or of all it has when it
\* ends, and then it sends a signal.
LEMMA ForkReleases ==
    ASSUME Sockets, ForkInv, NEW d \in Clients,
           F!ChildStart(d) \/ F!ChildClose(d) \/ F!ChildEnds(d)
    PROVE  Sockets' /\ ForkInv'
<1>1. PICK e, fs : /\ e = buf[d]
                   /\ fs = CASE child[d] = "start" -> {Listener} [] child[d] = "close" -> {d} [] OTHER -> files[d]
  OBVIOUS
<1>2. Progress(d, child[d], e)
  BY <1>1 DEF ForkInv, ForkAnswers
<1>3. \E s \in {"read", "exit", "zombie"} :
        /\ F!Release(d, fs) /\ child' = [child EXCEPT ![d] = s]
        /\ pc' = pc /\ fd_client' = fd_client /\ buf' = buf /\ handler' = handler /\ refused' = refused
        /\ \/ child[d] = "start" /\ s = "read" /\ pending' = pending
           \/ child[d] = "close" /\ s = "exit" /\ pending' = pending
           \/ /\ child[d] = "exit" \/ (child[d] = "write" /\ link[d] = "reset")
              /\ s = "zombie" /\ pending' = TRUE
  BY <1>1 DEF F!ChildStart, F!ChildClose, F!ChildEnds, F!WriteKills, F!Listener, Listener
<1>4. PICK s \in {"read", "exit", "zombie"} :
        /\ F!Release(d, fs) /\ child' = [child EXCEPT ![d] = s]
        /\ pc' = pc /\ fd_client' = fd_client /\ buf' = buf /\ handler' = handler /\ refused' = refused
        /\ \/ child[d] = "start" /\ s = "read" /\ pending' = pending
           \/ child[d] = "close" /\ s = "exit" /\ pending' = pending
           \/ /\ child[d] = "exit" \/ (child[d] = "write" /\ link[d] = "reset")
              /\ s = "zombie" /\ pending' = TRUE
  BY <1>3
<1>5. F!parent \in F!Procs /\ \A c \in Clients : c \in F!Procs /\ c # F!parent /\ c # Listener
  BY OtherNames DEF F!Procs
<1>6. /\ files[d] = {f \in {d, Listener} : \/ child[d] = "start"
                                           \/ f = d /\ child[d] \in {"read", "write", "close"}}
      /\ child \in [Clients -> F!Running \cup {"none", "zombie", "reaped"}]
  BY DEF ForkInv, ForkFiles, ForkTypes
<1>7. /\ \A c \in fs \cap Clients : c = d /\ conn[c] = "open" /\ s # "read"
      /\ files[d] \ fs = IF s = "read" THEN {d} ELSE {}
  <2>1. child[d] \in {"write", "close"} => conn[d] = "open"
    BY <1>2 DEF Progress
  <2>2. CASE child[d] = "start" /\ s = "read"
    BY <1>1, <1>5, <1>6, <2>2
  <2>3. CASE child[d] = "close" /\ s = "exit"
    BY <1>1, <1>5, <1>6, <2>1, <2>3
  <2>4. CASE child[d] \in {"exit", "write"} /\ s = "zombie"
    BY <1>1, <1>5, <1>6, <2>1, <2>4
  <2> QED
    BY <1>4, <2>2, <2>3, <2>4
<1>8. /\ Sockets' /\ \A c \in Clients : Steady(c)
      /\ files' \in [F!Procs -> SUBSET (Clients \cup {Listener})]
      /\ files'[d] = files[d] \ fs /\ \A q \in F!Procs : q # d => files'[q] = files[q]
      /\ \A c \in Clients : conn'[c] = IF c \in fs /\ \A q \in F!Procs : c \notin files'[q]
                                       THEN "closed" ELSE conn[c]
  BY <1>4, <1>5, <1>7, Releases
<1>9. /\ \A c \in Clients : c # d => child'[c] = child[c] /\ conn'[c] = conn[c]
      /\ child'[d] = s
      /\ conn'[d] = conn[d] \/ (s # "read" /\ conn'[d] = "closed" /\ d \notin files[F!parent])
  BY <1>4, <1>5, <1>6, <1>7, <1>8
<1>10. ForkTypes'
  <2>1. child' \in [Clients -> F!Running \cup {"none", "zombie", "reaped"}]
    BY <1>4, <1>6 DEF F!Running
  <2>2. pending' \in BOOLEAN
    BY <1>4, Zenon DEF ForkInv, ForkTypes
  <2> QED
    BY <1>4, <2>1, <2>2 DEF ForkInv, ForkTypes
<1>11. ForkHand'
  <2>1. \A c \in Clients : InHand(c) => c \in files[F!parent]
    BY DEF ForkInv, ForkFiles
  <2>2. pc # "accept" => conn'[fd_client] = "open"
    BY <1>9, <2>1 DEF ForkInv, ForkHand, InHand
  <2>3. child[d] # "none" /\ s # "none"
    BY <1>4
  <2>4. \A c \in Clients : conn'[c] \in {"none", "queued"} => child'[c] = "none" /\ c \notin refused
    BY <1>9, <2>3 DEF ForkInv, ForkHand
  <2>5. pc = "fork" => child'[fd_client] = "none" /\ fd_client \notin refused
    BY <1>9, <2>3 DEF ForkInv, ForkHand
  <2>6. pc = "close" => child'[fd_client] # "none" \/ fd_client \in refused
    BY <1>9, <2>3 DEF ForkInv, ForkHand
  <2> QED
    BY <1>4, <2>2, <2>4, <2>5, <2>6 DEF ForkInv, ForkHand
<1>12. ForkFiles'
  <2>1. \A c \in Clients : InHand(c)' <=> InHand(c)
    BY <1>4 DEF InHand
  <2>2. files'[F!parent] = {Listener} \cup {c \in Clients : InHand(c)'}
    BY <1>5, <1>8, <2>1 DEF ForkInv, ForkFiles
  <2>3. ASSUME NEW c \in Clients
        PROVE  files'[c] = {f \in {c, Listener} : \/ child'[c] = "start"
                                                  \/ f = c /\ child'[c] \in {"read", "write", "close"}}
    <3>1. CASE c = d
      BY <1>5, <1>7, <1>8, <1>9, <3>1
    <3>2. CASE c # d
      BY <1>5, <1>8, <1>9, <3>2 DEF ForkInv, ForkFiles
    <3> QED
      BY <3>1, <3>2
  <2> QED
    BY <1>8, <2>2, <2>3 DEF ForkFiles
<1>13. ForkAnswers'
  <2>1. ASSUME NEW c \in Clients, NEW t, NEW b, t = child[c], b = buf[c], c # d
        PROVE  Progress(c, t, b)'
    BY <1>4, <1>8, <1>9, <2>1, ProgressKept DEF ForkInv, ForkAnswers
  <2>2. Steady(d)
    BY <1>8
  <2>3. Progress(d, s, e)'
    <3>1. CASE s = "read"
      <4>1. Fresh(d) /\ conn[d] = "open"
        BY <1>2, <1>4, <3>1 DEF Progress
      <4> QED
        BY <1>9, <2>2, <3>1, <4>1 DEF Progress, Steady
    <3>2. CASE s # "read"
      <4>1. Answered(d)
        BY <1>2, <1>4, <3>2 DEF Progress, Answered
      <4> QED
        BY <2>2, <3>2, <4>1 DEF Progress, Steady
    <3> QED
      BY <3>1, <3>2
  <2> QED
    BY <1>1, <1>4, <1>9, <2>1, <2>3, ForkAnswersNext
<1>14. F!ZombieHasSignal'
  <2>1. s # "zombie" => \A c \in Clients : child'[c] = "zombie" => child[c] = "zombie"
    BY <1>9
  <2> QED
    BY <1>4, <2>1 DEF ForkInv, F!ZombieHasSignal, F!Zombies
<1> QED
  BY <1>8, <1>10, <1>11, <1>12, <1>13, <1>14 DEF ForkInv

\* Every step of multiprocserv.c keeps the invariant.
LEMMA ForkKeeps ==
    ASSUME Sockets, ForkInv, F!Next
    PROVE  Sockets' /\ ForkInv'
BY ForkAccepts, ForkForks, ForkCloses, ForkHandles, ForkClients, ForkEchoes, ForkReleases
   DEF F!Next, F!Parent, F!Child
-----------------------------------------------------------------------------
(* threadserv.c *)

\* What stands for nothing is no descriptor, no block and no connection.
LEMMA NoDescriptor ==
    /\ Fds \subseteq Nat /\ T!Unused \notin Fds /\ T!Uninit \notin Fds /\ T!Unused # T!Uninit
    /\ T!None \notin Heap /\ T!Free = Free /\ T!Listener = Listener
<1>1. Fds \subseteq Nat
  BY Descriptors, DescriptorsInARow
<1>2. T!Unused \notin Nat /\ T!Uninit \notin Nat /\ T!Unused # T!Uninit
  BY SMT DEF T!Unused, T!Uninit
<1>3. T!None \notin Heap
  BY ThreadConstants DEF ThreadConstants, T!None
<1> QED
  BY <1>1, <1>2, <1>3 DEF T!Free, Free, T!Listener, Listener

\* A thread that is not there.
LEMMA NobodyRuns ==
    /\ T!NoThread \in AThread /\ T!NoThread.pc = "none" /\ T!NoThread.vargp = T!None
    /\ T!NoThread.fd = T!None /\ T!NoThread.buf = EmptyBuf
<1>1. T!NoThread = [pc |-> "none", vargp |-> T!None, fd |-> T!None, buf |-> EmptyBuf]
  BY DEF T!NoThread, T!EmptyBuf, EmptyBuf
<1>2. EmptyBuf \in Buffers
  BY EmptyBuffer
<1> QED
  BY <1>1, <1>2 DEF AThread

\* The invariant holds when main enters its loop.
LEMMA ThreadStart ==
    ASSUME T!Init
    PROVE  Sockets /\ ThreadInv
<1>1. /\ SockInit /\ pc = "malloc" /\ fd_client = T!None
      /\ file = [f \in Fds |-> IF f = fd_skt THEN Listener ELSE Free]
      /\ heap = [b \in Heap |-> T!Unused] /\ thread = [t \in Threads |-> T!NoThread] /\ orphans = {}
  BY NoDescriptor DEF T!Init, T!SockInit, SockInit, fd_skt, T!Min, Min
<1>2. Sockets /\ \A c \in Clients : conn[c] = "none" /\ Fresh(c)
  BY <1>1, SocketsStart
<1>3. ThreadTypes
  BY <1>1, NobodyRuns DEF ThreadTypes
<1>4. ThreadBlocks
  BY <1>1, NobodyRuns DEF ThreadBlocks
<1>5. ThreadFiles
  BY <1>1, NobodyRuns, NoDescriptor, Names DEF ThreadFiles, Past
<1>6. ThreadAnswers
  BY <1>1, <1>2, NobodyRuns DEF ThreadAnswers
<1> QED
  BY <1>1, <1>2, <1>3, <1>4, <1>5, <1>6 DEF ThreadInv

\* A thread's connection and buffer are looked at one by one.
LEMMA ThreadAnswersNext ==
    ASSUME \A c \in Clients : conn'[c] # "closed" /\ ~Speaks(c)' => Fresh(c)',
           \A t \in Threads : \E c, b :
               /\ c = file'[thread'[t].fd] /\ b = thread'[t].buf
               /\ thread'[t].pc = "write" => Filled(c, b)'
               /\ thread'[t].pc = "close" => Answered(c)'
    PROVE  ThreadAnswers'
BY DEF ThreadAnswers

\* A thread that stays where it is, with a connection that stays as far as it
\* is, keeps in step with it.
LEMMA ThreadKept ==
    ASSUME ThreadAnswers, NEW t \in Threads, thread'[t] = thread[t],
           file'[thread[t].fd] = file[thread[t].fd],
           thread[t].pc \in {"write", "close"} => Steady(file[thread[t].fd])
    PROVE  \E c, b : /\ c = file'[thread'[t].fd] /\ b = thread'[t].buf
                     /\ thread'[t].pc = "write" => Filled(c, b)'
                     /\ thread'[t].pc = "close" => Answered(c)'
<1>1. PICK c, b : c = file[thread[t].fd] /\ b = thread[t].buf
  OBVIOUS
<1>2. /\ thread[t].pc = "write" => Filled(c, b)
      /\ thread[t].pc = "close" => Answered(c)
  BY <1>1 DEF ThreadAnswers
<1>3. thread[t].pc \in {"write", "close"} => Steady(c)
  BY <1>1
<1> QED
  BY <1>1, <1>2, <1>3 DEF Steady

\* Whatever leaves the process alone, opens and closes nothing that was
\* accepted and lets every connection be as far as it was, keeps the invariant.
LEMMA ThreadUndisturbed ==
    ASSUME ThreadInv, UNCHANGED T!mainvars, \A c \in Clients : Steady(c),
           \A c \in Clients : /\ conn[c] = "open" => conn'[c] = "open"
                              /\ conn'[c] # "closed" => conn[c] # "closed"
    PROVE  ThreadInv'
<1>1. /\ pc' = pc /\ fd_client' = fd_client /\ file' = file /\ heap' = heap /\ thread' = thread
      /\ orphans' = orphans
  BY DEF T!mainvars
<1>2. ThreadTypes'
  BY <1>1 DEF ThreadInv, ThreadTypes
<1>3. pc = "dead" => \A t \in Threads : thread'[t].pc = "none"
  BY <1>1 DEF ThreadInv
<1>4. CASE pc # "dead"
  <2>1. ThreadBlocks'
    BY <1>1, <1>4 DEF ThreadInv, ThreadBlocks
  <2>2. ThreadFiles'
    BY <1>1, <1>4 DEF ThreadInv, ThreadFiles, Past, fd_skt
  <2>3. ThreadAnswers'
    <3>1. \A c \in Clients : conn'[c] # "closed" /\ ~Speaks(c)' => Fresh(c)'
      BY <1>1, <1>4 DEF ThreadInv, ThreadAnswers, Speaks, Steady
    <3>2. \A t \in Threads : thread[t].pc \in {"write", "close"} => Steady(file[thread[t].fd])
      BY <1>4 DEF ThreadInv, ThreadFiles, Past
    <3> QED
      BY <1>1, <1>4, <3>1, <3>2, ThreadKept, ThreadAnswersNext DEF ThreadInv
  <2> QED
    BY <1>1, <1>2, <1>4, <2>1, <2>2, <2>3 DEF ThreadInv
<1> QED
  BY <1>1, <1>2, <1>3, <1>4 DEF ThreadInv

\* Steps of the clients of threadserv.c.
LEMMA ThreadClients ==
    ASSUME Sockets, ThreadInv, T!Clientele
    PROVE  Sockets' /\ ThreadInv'
<1>1. PICK d \in Clients : (pc # "dead" /\ Connect(d)) \/ Send(d) \/ Departs(d)
  BY DEF T!Clientele, T!Connect, Connect, T!Client, T!Send, Send, T!Leave, Departs
<1>2. UNCHANGED T!mainvars
  BY DEF T!Clientele
<1>3. /\ Sockets' /\ \A c \in Clients : Steady(c)
      /\ conn' = conn \/ (conn[d] = "none" /\ conn' = [conn EXCEPT ![d] = "queued"])
  BY <1>1, ConnectSockets, ClientSockets
<1>4. \A c \in Clients : /\ conn[c] = "open" => conn'[c] = "open"
                         /\ conn'[c] # "closed" => conn[c] # "closed"
  BY <1>3 DEF Sockets, SocketsInv
<1> QED
  BY <1>2, <1>3, <1>4, ThreadUndisturbed
\* main takes a block that is not in use.
LEMMA ThreadMallocs ==
    ASSUME Sockets, ThreadInv, T!malloc
    PROVE  Sockets' /\ ThreadInv'
<1>1. PICK b \in Heap :
        /\ pc = "malloc" /\ pc' = "accept" /\ heap[b] = T!Unused /\ fd_client' = b
        /\ heap' = [heap EXCEPT ![b] = T!Uninit]
        /\ UNCHANGED sockvars /\ file' = file /\ thread' = thread /\ orphans' = orphans
  BY DEF T!malloc, T!sockvars, sockvars
<1>2. Sockets' /\ conn' = conn /\ \A c \in Clients : Steady(c)
  BY <1>1, IdleSockets
<1>3. ThreadTypes /\ ThreadBlocks /\ ThreadFiles /\ ThreadAnswers
  BY <1>1 DEF ThreadInv
<1>4. heap'[b] = T!Uninit /\ \A a \in Heap : a # b => heap'[a] = heap[a]
  BY <1>1, <1>3 DEF ThreadTypes
<1>5. ThreadTypes'
  BY <1>1, <1>3 DEF ThreadTypes
<1>6. ThreadBlocks'
  <2>1. b \notin orphans
    BY <1>1, <1>3, NoDescriptor DEF ThreadBlocks
  <2>2. ASSUME NEW t \in Threads
        PROVE  /\ thread[t].vargp # b
               /\ IF thread[t].pc \in {"start", "free"}
                  THEN thread[t].vargp \in Heap \ orphans /\ heap'[thread[t].vargp] \in Fds
                  ELSE thread[t].vargp = T!None
    BY <1>1, <1>3, <1>4, NoDescriptor DEF ThreadBlocks
  <2>3. \A a \in orphans : heap'[a] \in Fds
    BY <1>3, <1>4, <2>1 DEF ThreadBlocks, ThreadTypes
  <2>4. \A a \in Heap : heap'[a] # T!Unused => a = b \/ heap[a] # T!Unused
    BY <1>4
  <2>5. ASSUME NEW a \in Heap, heap'[a] # T!Unused
        PROVE  a = b \/ a \in orphans \/ \E t \in Threads : thread[t].vargp = a
    BY <1>1, <1>3, <2>4, <2>5 DEF ThreadBlocks
  <2> QED
    BY <1>1, <1>3, <1>4, <2>1, <2>2, <2>3, <2>5 DEF ThreadBlocks
<1>7. ThreadFiles'
  <2>1. \A a \in Heap : heap'[a] \in Fds => a # b /\ heap'[a] = heap[a]
    BY <1>4, NoDescriptor
  <2>2. \A t \in Threads : thread[t].pc = "free" => thread[t].fd = heap'[thread[t].vargp]
    BY <1>1, <1>3, <1>4, NoDescriptor DEF ThreadBlocks, ThreadFiles
  <2>3. \A f \in Fds, a \in Heap : heap[a] = f => heap'[a] = f
    BY <1>1, <1>4, NoDescriptor
  <2>4. \A a, e \in Heap : heap'[a] = heap'[e] /\ heap'[a] \in Fds => a = e
    BY <1>3, <2>1 DEF ThreadFiles
  <2>5. \A a \in Heap, t \in Threads : Past(t) => heap'[a] # thread[t].fd
    BY <1>3, <2>1 DEF ThreadFiles
  <2>6. \A f \in Fds : file[f] \in Clients =>
          /\ conn[file[f]] = "open"
          /\ (\E a \in Heap : heap'[a] = f) \/ (\E t \in Threads : Past(t) /\ thread[t].fd = f)
    BY <1>3, <2>3 DEF ThreadFiles
  <2>7. \A a \in Heap : heap'[a] \in Fds => file[heap'[a]] \in Clients
    BY <1>3, <2>1 DEF ThreadFiles
  <2> QED
    BY <1>1, <1>2, <1>3, <2>2, <2>4, <2>5, <2>6, <2>7 DEF ThreadFiles, Past, fd_skt
<1>8. ThreadAnswers'
  <2>1. \A c \in Clients : conn'[c] # "closed" /\ ~Speaks(c)' => Fresh(c)'
    BY <1>1, <1>2, <1>3 DEF ThreadAnswers, Speaks, Steady
  <2>2. \A t \in Threads : thread[t].pc \in {"write", "close"} => Steady(file[thread[t].fd])
    BY <1>2, <1>3 DEF ThreadFiles, Past
  <2> QED
    BY <1>1, <1>3, <2>1, <2>2, ThreadKept, ThreadAnswersNext
<1> QED
  BY <1>1, <1>2, <1>5, <1>6, <1>7, <1>8 DEF ThreadInv

\* main stores the descriptor of the next connection, one that was free.
LEMMA ThreadAccepts ==
    ASSUME Sockets, ThreadInv, T!accept
    PROVE  Sockets' /\ ThreadInv'
<1>1. PICK d, n, b : d = Head(backlog) /\ n = Min({f \in Fds : file[f] = Free}) /\ b = fd_client
  OBVIOUS
<1>2. /\ Accept /\ pc = "accept" /\ pc' = "create" /\ Free \in {file[f] : f \in Fds}
      /\ file' = [file EXCEPT ![n] = d] /\ heap' = [heap EXCEPT ![b] = n]
      /\ fd_client' = b /\ thread' = thread /\ orphans' = orphans
  BY <1>1, NoDescriptor DEF T!accept, T!Accept, Accept, T!Min, Min
<1>3. n \in Fds /\ file[n] = Free
  <2>1. {f \in Fds : file[f] = Free} \in SUBSET Nat /\ {f \in Fds : file[f] = Free} # {}
    BY <1>2, NoDescriptor
  <2>2. n \in {f \in Fds : file[f] = Free}
    BY <1>1, <2>1, LeastExists
  <2> QED
    BY <2>2
<1>4. /\ Sockets' /\ \A c \in Clients : Steady(c)
      /\ d \in Clients /\ conn[d] = "queued" /\ conn' = [conn EXCEPT ![d] = "open"]
  BY <1>1, <1>2, AcceptSockets
<1>5. \A c \in Clients : conn'[c] = IF c = d THEN "open" ELSE conn[c]
  BY <1>4 DEF Sockets, SocketsInv
<1>6. ThreadTypes /\ ThreadBlocks /\ ThreadFiles /\ ThreadAnswers
  BY <1>2 DEF ThreadInv
<1>7. b \in Heap \ orphans /\ heap[b] = T!Uninit /\ \A t \in Threads : thread[t].vargp # b
  BY <1>1, <1>2, <1>6 DEF ThreadBlocks
<1>8. /\ heap'[b] = n /\ \A a \in Heap : a # b => heap'[a] = heap[a]
      /\ file'[n] = d /\ \A f \in Fds : f # n => file'[f] = file[f]
  BY <1>2, <1>3, <1>6, <1>7 DEF ThreadTypes
<1>9. ThreadTypes'
  BY <1>2, <1>3, <1>4, <1>6, <1>7 DEF ThreadTypes
<1>10. ThreadBlocks'
  <2>1. ASSUME NEW t \in Threads
        PROVE  IF thread[t].pc \in {"start", "free"}
               THEN thread[t].vargp \in Heap \ orphans /\ heap'[thread[t].vargp] \in Fds
               ELSE thread[t].vargp = T!None
    BY <1>6, <1>7, <1>8 DEF ThreadBlocks
  <2>2. \A a \in orphans : heap'[a] \in Fds
    BY <1>3, <1>6, <1>7, <1>8 DEF ThreadBlocks, ThreadTypes
  <2>3. ASSUME NEW a \in Heap, heap'[a] # T!Unused
        PROVE  a = b \/ a \in orphans \/ \E t \in Threads : thread[t].vargp = a
    BY <1>1, <1>6, <1>8, <2>3 DEF ThreadBlocks
  <2> QED
    BY <1>2, <1>3, <1>6, <1>7, <1>8, <2>1, <2>2, <2>3 DEF ThreadBlocks
<1>11. /\ \A a \in Heap : heap[a] # n
       /\ \A t \in Threads : Past(t) => thread[t].fd # n
       /\ n # fd_skt
       /\ \A f \in Fds : file[f] # d
  BY <1>3, <1>4, <1>6, Names DEF ThreadFiles
<1>12. ThreadFiles'
  <2>1. \A t \in Threads : thread[t].pc = "free" => thread[t].fd = heap'[thread[t].vargp]
    BY <1>6, <1>7, <1>8 DEF ThreadBlocks, ThreadFiles
  <2>2. \A a \in Heap : heap'[a] \in Fds => file'[heap'[a]] \in Clients
    BY <1>4, <1>6, <1>8, <1>11 DEF ThreadFiles
  <2>3. \A t \in Threads : Past(t) => file'[thread[t].fd] \in Clients
    BY <1>6, <1>8, <1>11 DEF ThreadFiles
  <2>4. \A f \in Fds : file'[f] = Listener <=> f = fd_skt
    BY <1>4, <1>6, <1>8, <1>11, Names DEF ThreadFiles
  <2>5. ASSUME NEW f \in Fds, file'[f] \in Clients
        PROVE  /\ conn'[file'[f]] = "open"
               /\ (\E a \in Heap : heap'[a] = f) \/ (\E t \in Threads : Past(t) /\ thread[t].fd = f)
    <3>1. CASE f = n
      BY <1>4, <1>5, <1>7, <1>8, <3>1
    <3>2. CASE f # n
      <4>1. file'[f] = file[f] /\ conn'[file[f]] = "open"
        BY <1>5, <1>6, <1>8, <2>5, <3>2 DEF ThreadFiles
      <4>2. \A a \in Heap : heap[a] = f => heap'[a] = f
        BY <1>7, <1>8, NoDescriptor
      <4> QED
        BY <1>6, <2>5, <4>1, <4>2 DEF ThreadFiles
    <3> QED
      BY <3>1, <3>2
  <2>6. \A f, g \in Fds : file'[f] = file'[g] /\ file'[f] \in Clients => f = g
    BY <1>6, <1>8, <1>11 DEF ThreadFiles
  <2>7. \A a, e \in Heap : heap'[a] = heap'[e] /\ heap'[a] \in Fds => a = e
    BY <1>6, <1>8, <1>11 DEF ThreadFiles
  <2>8. \A a \in Heap, t \in Threads : Past(t) => heap'[a] # thread[t].fd
    BY <1>6, <1>8, <1>11 DEF ThreadFiles
  <2> QED
    BY <1>2, <1>6, <2>1, <2>2, <2>3, <2>4, <2>5, <2>6, <2>7, <2>8 DEF ThreadFiles, Past, fd_skt
<1>13. ThreadAnswers'
  <2>1. \A t \in Threads : Past(t) => thread[t].fd \in Fds /\ file'[thread[t].fd] = file[thread[t].fd]
    BY <1>6, <1>8, <1>11 DEF ThreadFiles
  <2>2. \A c \in Clients : Speaks(c)' <=> Speaks(c)
    BY <1>2, <2>1 DEF Speaks, Past
  <2>3. \A c \in Clients : conn'[c] # "closed" /\ ~Speaks(c)' => Fresh(c)'
    BY <1>4, <1>5, <1>6, <2>2 DEF ThreadAnswers, Steady
  <2>4. ASSUME NEW t \in Threads
        PROVE  \E c, e : /\ c = file'[thread'[t].fd] /\ e = thread'[t].buf
                         /\ thread'[t].pc = "write" => Filled(c, e)'
                         /\ thread'[t].pc = "close" => Answered(c)'
    <3>1. CASE Past(t)
      BY <1>2, <1>4, <1>6, <2>1, <3>1, ThreadKept DEF ThreadFiles
    <3>2. CASE ~Past(t)
      BY <1>2, <3>2 DEF Past
    <3> QED
      BY <3>1, <3>2
  <2> QED
    BY <2>3, <2>4, ThreadAnswersNext
<1> QED
  BY <1>2, <1>4, <1>9, <1>10, <1>12, <1>13 DEF ThreadInv
\* One thread moves, the others stay where they are.
Becomes(t, p, v, f, b) ==
    /\ thread' \in [Threads -> AThread]
    /\ thread'[t].pc = p /\ thread'[t].vargp = v /\ thread'[t].fd = f /\ thread'[t].buf = b
    /\ \A u \in Threads : u # t => thread'[u] = thread[u]

\* What a step of one thread makes of the record it is kept in.
LEMMA ThreadBecomes ==
    ASSUME ThreadTypes, NEW t \in Threads, NEW b \in Buffers,
           NEW p \in {"none", "start", "free", "read", "write", "close"},
           NEW v \in Heap \cup {T!None}, NEW f \in Fds \cup {T!None},
           thread' = [thread EXCEPT ![t] = [pc |-> p, vargp |-> v, fd |-> f, buf |-> b]]
    PROVE  Becomes(t, p, v, f, b)
<1>1. thread \in [Threads -> AThread] /\ [pc |-> p, vargp |-> v, fd |-> f, buf |-> b] \in AThread
  BY DEF ThreadTypes, AThread
<1>2. /\ thread' \in [Threads -> AThread]
      /\ thread'[t] = [pc |-> p, vargp |-> v, fd |-> f, buf |-> b]
      /\ \A u \in Threads : u # t => thread'[u] = thread[u]
  BY <1>1
<1> QED
  BY <1>2 DEF Becomes

\* A thread's record moved to p,
LEMMA RecordPc ==
    ASSUME NEW h \in AThread, NEW p \in {"none", "start", "free", "read", "write", "close"}
    PROVE  /\ [h EXCEPT !.pc = p] = [pc |-> p, vargp |-> h.vargp, fd |-> h.fd, buf |-> h.buf]
           /\ [pc |-> p, vargp |-> h.vargp, fd |-> h.fd, buf |-> h.buf] \in AThread
BY DEF AThread

\* with another argument,
LEMMA RecordVargp ==
    ASSUME NEW h \in AThread, NEW v \in Heap \cup {T!None}
    PROVE  /\ [h EXCEPT !.vargp = v] = [pc |-> h.pc, vargp |-> v, fd |-> h.fd, buf |-> h.buf]
           /\ [pc |-> h.pc, vargp |-> v, fd |-> h.fd, buf |-> h.buf] \in AThread
BY DEF AThread

\* another descriptor
LEMMA RecordFd ==
    ASSUME NEW h \in AThread, NEW f \in Fds \cup {T!None}
    PROVE  /\ [h EXCEPT !.fd = f] = [pc |-> h.pc, vargp |-> h.vargp, fd |-> f, buf |-> h.buf]
           /\ [pc |-> h.pc, vargp |-> h.vargp, fd |-> f, buf |-> h.buf] \in AThread
BY DEF AThread

\* or another buffer.
LEMMA RecordBuf ==
    ASSUME NEW h \in AThread, NEW b \in Buffers
    PROVE  /\ [h EXCEPT !.buf = b] = [pc |-> h.pc, vargp |-> h.vargp, fd |-> h.fd, buf |-> b]
           /\ [pc |-> h.pc, vargp |-> h.vargp, fd |-> h.fd, buf |-> b] \in AThread
BY DEF AThread

\* What each step of a thread does to its record.
LEMMA ThreadSteps ==
    ASSUME ThreadTypes, NEW t \in Threads, NEW h, h = thread[t]
    PROVE  /\ \A x \in Fds : thread' = [thread EXCEPT ![t].fd = x, ![t].pc = "free"]
                => Becomes(t, "free", h.vargp, x, h.buf)
           /\ thread' = [thread EXCEPT ![t].pc = "read", ![t].vargp = T!None]
                => Becomes(t, "read", T!None, h.fd, h.buf)
           /\ \A r \in Buffers : thread' = [thread EXCEPT ![t].buf = r, ![t].pc = "write"]
                => Becomes(t, "write", h.vargp, h.fd, r)
           /\ thread' = [thread EXCEPT ![t].pc = "close"] => Becomes(t, "close", h.vargp, h.fd, h.buf)
           /\ thread' = [thread EXCEPT ![t] = T!NoThread]
                => Becomes(t, "none", T!None, T!None, EmptyBuf)
           /\ \A b \in Heap : thread' = [thread EXCEPT ![t] = [T!NoThread EXCEPT !.pc = "start", !.vargp = b]]
                => Becomes(t, "start", b, T!None, EmptyBuf)
<1>1. thread \in [Threads -> AThread] /\ h \in AThread
  BY DEF ThreadTypes
<1>2. /\ h.vargp \in Heap \cup {T!None} /\ h.fd \in Fds \cup {T!None} /\ h.buf \in Buffers
  BY <1>1 DEF AThread
<1>3. ASSUME NEW x \in Fds, thread' = [thread EXCEPT ![t].fd = x, ![t].pc = "free"]
      PROVE  Becomes(t, "free", h.vargp, x, h.buf)
  <2>1. thread' = [thread EXCEPT ![t] = [[h EXCEPT !.fd = x] EXCEPT !.pc = "free"]]
    BY <1>1, <1>3
  <2>2. [[h EXCEPT !.fd = x] EXCEPT !.pc = "free"] = [pc |-> "free", vargp |-> h.vargp, fd |-> x, buf |-> h.buf]
    <3>1. PICK g : g = [h EXCEPT !.fd = x]
      OBVIOUS
    <3>2. g = [pc |-> h.pc, vargp |-> h.vargp, fd |-> x, buf |-> h.buf] /\ g \in AThread
      BY <1>1, <1>2, <3>1, RecordFd
    <3>3. g \in AThread /\ g.vargp = h.vargp /\ g.fd = x /\ g.buf = h.buf
      BY <3>2
    <3> QED
      BY <3>1, <3>3, RecordPc
  <2> QED
    BY <1>2, <2>1, <2>2, ThreadBecomes
<1>4. ASSUME thread' = [thread EXCEPT ![t].pc = "read", ![t].vargp = T!None]
      PROVE  Becomes(t, "read", T!None, h.fd, h.buf)
  <2>1. thread' = [thread EXCEPT ![t] = [[h EXCEPT !.pc = "read"] EXCEPT !.vargp = T!None]]
    BY <1>1, <1>4
  <2>2. [[h EXCEPT !.pc = "read"] EXCEPT !.vargp = T!None]
          = [pc |-> "read", vargp |-> T!None, fd |-> h.fd, buf |-> h.buf]
    <3>1. PICK g : g = [h EXCEPT !.pc = "read"]
      OBVIOUS
    <3>2. g = [pc |-> "read", vargp |-> h.vargp, fd |-> h.fd, buf |-> h.buf] /\ g \in AThread
      BY <1>1, <1>2, <3>1, RecordPc
    <3>3. g \in AThread /\ g.pc = "read" /\ g.fd = h.fd /\ g.buf = h.buf
      BY <3>2
    <3> QED
      BY <3>1, <3>3, RecordVargp
  <2> QED
    BY <1>2, <2>1, <2>2, ThreadBecomes
<1>5. ASSUME NEW r \in Buffers, thread' = [thread EXCEPT ![t].buf = r, ![t].pc = "write"]
      PROVE  Becomes(t, "write", h.vargp, h.fd, r)
  <2>1. thread' = [thread EXCEPT ![t] = [[h EXCEPT !.buf = r] EXCEPT !.pc = "write"]]
    BY <1>1, <1>5
  <2>2. [[h EXCEPT !.buf = r] EXCEPT !.pc = "write"]
          = [pc |-> "write", vargp |-> h.vargp, fd |-> h.fd, buf |-> r]
    <3>1. PICK g : g = [h EXCEPT !.buf = r]
      OBVIOUS
    <3>2. g = [pc |-> h.pc, vargp |-> h.vargp, fd |-> h.fd, buf |-> r] /\ g \in AThread
      BY <1>1, <1>2, <3>1, RecordBuf
    <3>3. g \in AThread /\ g.vargp = h.vargp /\ g.fd = h.fd /\ g.buf = r
      BY <3>2
    <3> QED
      BY <3>1, <3>3, RecordPc
  <2> QED
    BY <1>2, <2>1, <2>2, ThreadBecomes
<1>6. ASSUME thread' = [thread EXCEPT ![t].pc = "close"]
      PROVE  Becomes(t, "close", h.vargp, h.fd, h.buf)
  <2>1. thread' = [thread EXCEPT ![t] = [h EXCEPT !.pc = "close"]]
    BY <1>1, <1>6
  <2>2. [h EXCEPT !.pc = "close"] = [pc |-> "close", vargp |-> h.vargp, fd |-> h.fd, buf |-> h.buf]
    BY <1>1, RecordPc
  <2> QED
    BY <1>2, <2>1, <2>2, ThreadBecomes
<1>7. T!NoThread = [pc |-> "none", vargp |-> T!None, fd |-> T!None, buf |-> EmptyBuf]
  BY DEF T!NoThread, T!EmptyBuf, EmptyBuf
<1>8. ASSUME thread' = [thread EXCEPT ![t] = T!NoThread]
      PROVE  Becomes(t, "none", T!None, T!None, EmptyBuf)
  BY <1>7, <1>8, EmptyBuffer, ThreadBecomes
<1>9. ASSUME NEW a \in Heap,
             thread' = [thread EXCEPT ![t] = [T!NoThread EXCEPT !.pc = "start", !.vargp = a]]
      PROVE  Becomes(t, "start", a, T!None, EmptyBuf)
  <2>1. PICK n \in AThread : n = T!NoThread
    BY NobodyRuns
  <2>2. n.fd = T!None /\ n.buf = EmptyBuf
    BY <2>1, NobodyRuns
  <2> PICK g : g = [n EXCEPT !.pc = "start"]
    OBVIOUS
  <2>3. g \in AThread /\ g.pc = "start" /\ g.fd = T!None /\ g.buf = EmptyBuf
    <3>1. g = [pc |-> "start", vargp |-> n.vargp, fd |-> n.fd, buf |-> n.buf] /\ g \in AThread
      BY RecordPc
    <3> QED
      BY <2>2, <3>1
  <2>4. [g EXCEPT !.vargp = a] = [pc |-> "start", vargp |-> a, fd |-> T!None, buf |-> EmptyBuf]
    BY <2>3, RecordVargp
  <2>5. [T!NoThread EXCEPT !.pc = "start", !.vargp = a] = [g EXCEPT !.vargp = a]
    BY <2>1
  <2> QED
    BY <1>9, <2>4, <2>5, EmptyBuffer, ThreadBecomes
<1> QED
  BY <1>3, <1>4, <1>5, <1>6, <1>8, <1>9
\* main hands its block to a new thread, or to nobody.
LEMMA ThreadCreates ==
    ASSUME Sockets, ThreadInv, T!pthread_create \/ T!CreateFails
    PROVE  Sockets' /\ ThreadInv'
<1>1. PICK a, new : a = fd_client /\ new = Min(Threads \ T!Live)
  OBVIOUS
<1>2. /\ pc = "create" /\ pc' = "malloc" /\ fd_client' = fd_client /\ UNCHANGED sockvars
      /\ file' = file /\ heap' = heap
      /\ \/ /\ T!Live # Threads /\ orphans' = orphans
            /\ thread' = [thread EXCEPT ![new] = [T!NoThread EXCEPT !.pc = "start", !.vargp = a]]
         \/ orphans' = orphans \cup {a} /\ thread' = thread
  BY <1>1 DEF T!pthread_create, T!CreateFails, T!sockvars, sockvars, T!Min, Min
<1>3. Sockets' /\ conn' = conn /\ \A c \in Clients : Steady(c)
  BY <1>2, IdleSockets
<1>4. ThreadTypes /\ ThreadBlocks /\ ThreadFiles /\ ThreadAnswers
  BY <1>2 DEF ThreadInv
<1>5. a \in Heap \ orphans /\ heap[a] \in Fds /\ \A t \in Threads : thread[t].vargp # a
  BY <1>1, <1>2, <1>4 DEF ThreadBlocks
<1>6. T!Live # Threads => new \in Threads /\ thread[new].pc = "none"
  <2>1. T!Live \subseteq Threads /\ Threads \subseteq Nat
    BY ThreadConstants DEF T!Live, ThreadConstants
  <2>2. T!Live # Threads => Threads \ T!Live # {} /\ Threads \ T!Live \in SUBSET Nat
    BY <2>1
  <2>3. T!Live # Threads => new \in Threads \ T!Live
    BY <1>1, <2>2, LeastExists
  <2> QED
    BY <2>3 DEF T!Live
<1>7. /\ thread' \in [Threads -> AThread]
      /\ \/ /\ orphans' = orphans /\ new \in Threads /\ thread[new].pc = "none"
            /\ thread'[new].pc = "start" /\ thread'[new].vargp = a
            /\ \A u \in Threads : u # new => thread'[u] = thread[u]
         \/ orphans' = orphans \cup {a} /\ thread' = thread
  <2>1. thread \in [Threads -> AThread]
    BY <1>4 DEF ThreadTypes
  <2>2. CASE orphans' = orphans \cup {a} /\ thread' = thread
    BY <2>1, <2>2
  <2>3. CASE /\ T!Live # Threads /\ orphans' = orphans
             /\ thread' = [thread EXCEPT ![new] = [T!NoThread EXCEPT !.pc = "start", !.vargp = a]]
    <3>1. new \in Threads /\ thread[new].pc = "none" /\ a \in Heap
      BY <1>5, <1>6, <2>3
    <3>2. Becomes(new, "start", a, T!None, EmptyBuf)
      BY <1>4, <2>3, <3>1, ThreadSteps
    <3> QED
      BY <2>3, <3>1, <3>2 DEF Becomes
  <2> QED
    BY <1>2, <2>2, <2>3
<1>8. ThreadTypes'
  <2>1. orphans \subseteq Heap /\ fd_client \in Heap \cup {T!None}
        /\ file \in [Fds -> Clients \cup {Listener, Free}]
        /\ heap \in [Heap -> Fds \cup {T!Unused, T!Uninit}]
    BY <1>4 DEF ThreadTypes
  <2>2. orphans' = orphans \/ orphans' = orphans \cup {a}
    BY <1>7
  <2>3. orphans' \subseteq Heap
    BY <1>5, <2>1, <2>2
  <2>4. pc' \in {"malloc", "accept", "create", "dead"} /\ fd_client' = fd_client
        /\ file' = file /\ heap' = heap
    BY <1>2
  <2>5. thread' \in [Threads -> AThread]
    BY <1>7
  <2> QED
    BY <2>1, <2>3, <2>4, <2>5, Zenon DEF ThreadTypes
<1>9. /\ \A t \in Threads : thread'[t].pc \in {"free", "read", "write", "close"} => thread'[t] = thread[t]
      /\ \A t \in Threads : thread[t].pc \in {"free", "read", "write", "close"} => thread'[t] = thread[t]
  BY <1>7
<1>10. ThreadBlocks'
  <2>1. CASE /\ orphans' = orphans /\ new \in Threads /\ thread[new].pc = "none"
             /\ thread'[new].pc = "start" /\ thread'[new].vargp = a
             /\ \A u \in Threads : u # new => thread'[u] = thread[u]
    <3>1. thread[new].vargp = T!None /\ a # T!None
      BY <1>4, <1>5, <2>1, NoDescriptor DEF ThreadBlocks
    <3>2. ASSUME NEW t \in Threads
          PROVE  IF thread'[t].pc \in {"start", "free"}
                 THEN thread'[t].vargp \in Heap \ orphans /\ heap[thread'[t].vargp] \in Fds
                 ELSE thread'[t].vargp = T!None
      BY <1>4, <1>5, <2>1 DEF ThreadBlocks
    <3>3. ASSUME NEW t \in Threads, NEW u \in Threads,
                 thread'[t].vargp = thread'[u].vargp, thread'[t].vargp # T!None
          PROVE  t = u
      BY <1>4, <1>5, <2>1, <3>3 DEF ThreadBlocks
    <3>4. ASSUME NEW b \in Heap, heap[b] # T!Unused
          PROVE  b \in orphans \/ \E t \in Threads : thread'[t].vargp = b
      <4>1. b = a \/ b \in orphans \/ \E t \in Threads : thread[t].vargp = b
        BY <1>1, <1>4, <3>4 DEF ThreadBlocks
      <4>2. \A t \in Threads : thread[t].vargp = b => thread'[t].vargp = b
        BY <2>1, <3>1, NoDescriptor
      <4> QED
        BY <2>1, <4>1, <4>2
    <3> QED
      BY <1>2, <1>4, <2>1, <3>2, <3>3, <3>4 DEF ThreadBlocks
  <2>2. CASE orphans' = orphans \cup {a} /\ thread' = thread
    <3>1. ASSUME NEW t \in Threads
          PROVE  IF thread[t].pc \in {"start", "free"}
                 THEN thread[t].vargp \in Heap \ orphans' /\ heap[thread[t].vargp] \in Fds
                 ELSE thread[t].vargp = T!None
      BY <1>4, <1>5, <2>2 DEF ThreadBlocks
    <3>2. ASSUME NEW b \in Heap, heap[b] # T!Unused
          PROVE  b \in orphans' \/ \E t \in Threads : thread[t].vargp = b
      BY <1>1, <1>4, <2>2, <3>2 DEF ThreadBlocks
    <3>3. \A b \in orphans' : heap[b] \in Fds
      BY <1>4, <1>5, <2>2 DEF ThreadBlocks
    <3> QED
      BY <1>2, <1>4, <2>2, <3>1, <3>2, <3>3 DEF ThreadBlocks
  <2> QED
    BY <1>7, <2>1, <2>2
<1>11. \A t \in Threads : Past(t)' <=> Past(t)
  BY <1>9 DEF Past
<1>12. ThreadFiles'
  <2>1. \A t \in Threads : thread'[t].pc = "free" => thread'[t].fd = heap[thread'[t].vargp]
    BY <1>4, <1>9 DEF ThreadFiles
  <2>2. \A t \in Threads : Past(t) => thread'[t] = thread[t]
    BY <1>9 DEF Past
  <2>3. \A f \in Fds : file[f] \in Clients =>
          /\ conn[file[f]] = "open"
          /\ (\E b \in Heap : heap[b] = f) \/ (\E t \in Threads : Past(t)' /\ thread'[t].fd = f)
    BY <1>4, <1>11, <2>2 DEF ThreadFiles
  <2>4. /\ \A t \in Threads : Past(t)' => thread'[t].fd \in Fds /\ file[thread'[t].fd] \in Clients
        /\ \A t, u \in Threads : Past(t)' /\ Past(u)' /\ thread'[t].fd = thread'[u].fd => t = u
        /\ \A b \in Heap, t \in Threads : Past(t)' => heap[b] # thread'[t].fd
    BY <1>4, <1>11, <2>2 DEF ThreadFiles
  <2> QED
    BY <1>2, <1>3, <1>4, <2>1, <2>3, <2>4 DEF ThreadFiles, fd_skt
<1>13. ThreadAnswers'
  <2>1. \A c \in Clients : Speaks(c)' <=> Speaks(c)
    BY <1>2, <1>9 DEF Speaks
  <2>2. \A c \in Clients : conn'[c] # "closed" /\ ~Speaks(c)' => Fresh(c)'
    BY <1>3, <1>4, <2>1 DEF ThreadAnswers, Steady
  <2>3. ASSUME NEW t \in Threads
        PROVE  \E c, e : /\ c = file'[thread'[t].fd] /\ e = thread'[t].buf
                         /\ thread'[t].pc = "write" => Filled(c, e)'
                         /\ thread'[t].pc = "close" => Answered(c)'
    <3>1. CASE thread'[t].pc \in {"write", "close"}
      <4>1. thread'[t] = thread[t] /\ Past(t)
        BY <1>9, <3>1 DEF Past
      <4>2. Steady(file[thread[t].fd]) /\ file'[thread[t].fd] = file[thread[t].fd]
        BY <1>2, <1>3, <1>4, <4>1 DEF ThreadFiles
      <4> QED
        BY <1>4, <4>1, <4>2, ThreadKept
    <3>2. CASE thread'[t].pc \notin {"write", "close"}
      BY <3>2
    <3> QED
      BY <3>1, <3>2
  <2> QED
    BY <2>2, <2>3, ThreadAnswersNext
<1> QED
  BY <1>2, <1>3, <1>8, <1>10, <1>12, <1>13 DEF ThreadInv
\* A thread that is somewhere is in a process that is running.
LEMMA ThreadAlive ==
    ASSUME ThreadInv, NEW t \in Threads, thread[t].pc # "none"
    PROVE  pc # "dead" /\ ThreadTypes /\ ThreadBlocks /\ ThreadFiles /\ ThreadAnswers
BY DEF ThreadInv

\* A thread takes its descriptor from the block it was given.
LEMMA ThreadBegins ==
    ASSUME Sockets, ThreadInv, NEW t \in Threads, T!start(t)
    PROVE  Sockets' /\ ThreadInv'
<1>1. PICK h, a : h = thread[t] /\ a = thread[t].vargp
  OBVIOUS
<1>2. /\ h.pc = "start" /\ thread' = [thread EXCEPT ![t].fd = heap[a], ![t].pc = "free"]
      /\ UNCHANGED sockvars
      /\ pc' = pc /\ fd_client' = fd_client /\ file' = file /\ heap' = heap /\ orphans' = orphans
  BY <1>1 DEF T!start, T!sockvars, sockvars
<1>3. Sockets' /\ conn' = conn /\ \A c \in Clients : Steady(c)
  BY <1>2, IdleSockets
<1>4. pc # "dead" /\ ThreadTypes /\ ThreadBlocks /\ ThreadFiles /\ ThreadAnswers
  BY <1>1, <1>2, ThreadAlive
<1>5. PICK x : x = heap[a]
  OBVIOUS
<1>6. a \in Heap \ orphans /\ x \in Fds
  BY <1>1, <1>2, <1>4, <1>5 DEF ThreadBlocks
<1>7. Becomes(t, "free", h.vargp, x, h.buf)
  BY <1>1, <1>2, <1>4, <1>5, <1>6, ThreadSteps
<1>8. /\ thread' \in [Threads -> AThread]
      /\ thread'[t].pc = "free" /\ thread'[t].vargp = a /\ thread'[t].fd = x
      /\ \A u \in Threads : u # t => thread'[u] = thread[u]
      /\ \A u \in Threads : thread'[u].vargp = thread[u].vargp
  BY <1>1, <1>7 DEF Becomes
<1>9. ThreadTypes'
  BY <1>2, <1>4, <1>8 DEF ThreadTypes
<1>10. ThreadBlocks'
  <2>1. \A u \in Threads : thread'[u].pc \in {"start", "free"} <=> thread[u].pc \in {"start", "free"}
    BY <1>1, <1>2, <1>8
  <2>2. ASSUME NEW u \in Threads
        PROVE  IF thread'[u].pc \in {"start", "free"}
               THEN thread'[u].vargp \in Heap \ orphans /\ heap[thread'[u].vargp] \in Fds
               ELSE thread'[u].vargp = T!None
    BY <1>4, <1>8, <2>1 DEF ThreadBlocks
  <2>3. \A u, w \in Threads : thread'[u].vargp = thread'[w].vargp /\ thread'[u].vargp # T!None => u = w
    BY <1>4, <1>8 DEF ThreadBlocks
  <2>4. \A b \in Heap : heap[b] # T!Unused =>
          \/ pc \in {"accept", "create"} /\ fd_client = b
          \/ b \in orphans
          \/ \E u \in Threads : thread'[u].vargp = b
    BY <1>4, <1>8 DEF ThreadBlocks
  <2>5. pc \in {"accept", "create"} =>
          /\ fd_client \in Heap \ orphans
          /\ \A u \in Threads : thread'[u].vargp # fd_client
          /\ IF pc = "accept" THEN heap[fd_client] = T!Uninit ELSE heap[fd_client] \in Fds
    BY <1>4, <1>8 DEF ThreadBlocks
  <2> QED
    BY <1>2, <1>4, <2>2, <2>3, <2>4, <2>5 DEF ThreadBlocks
<1>11. \A u \in Threads : (Past(u)' <=> Past(u)) /\ (Past(u) => thread'[u] = thread[u])
  BY <1>1, <1>2, <1>8 DEF Past
<1>12. ThreadFiles'
  <2>1. \A u \in Threads : thread'[u].pc = "free" => thread'[u].fd = heap[thread'[u].vargp]
    BY <1>1, <1>4, <1>5, <1>8 DEF ThreadFiles
  <2>2. \A f \in Fds : file[f] \in Clients =>
          /\ conn[file[f]] = "open"
          /\ (\E b \in Heap : heap[b] = f) \/ (\E u \in Threads : Past(u)' /\ thread'[u].fd = f)
    BY <1>4, <1>11 DEF ThreadFiles
  <2>3. /\ \A u \in Threads : Past(u)' => thread'[u].fd \in Fds /\ file[thread'[u].fd] \in Clients
        /\ \A u, w \in Threads : Past(u)' /\ Past(w)' /\ thread'[u].fd = thread'[w].fd => u = w
        /\ \A b \in Heap, u \in Threads : Past(u)' => heap[b] # thread'[u].fd
    BY <1>4, <1>11 DEF ThreadFiles
  <2>4. /\ \A b \in Heap : heap[b] \in Fds => file[heap[b]] \in Clients
        /\ \A f \in Fds : file[f] = Listener <=> f = fd_skt
        /\ \A f, g \in Fds : file[f] = file[g] /\ file[f] \in Clients => f = g
        /\ \A b, e \in Heap : heap[b] = heap[e] /\ heap[b] \in Fds => b = e
    BY <1>4 DEF ThreadFiles
  <2>5. heap' = heap /\ file' = file /\ conn' = conn
    BY <1>2, <1>3
  <2> QED
    BY <2>1, <2>2, <2>3, <2>4, <2>5 DEF ThreadFiles, fd_skt
<1>13. ThreadAnswers'
  <2>1. \A c \in Clients : Speaks(c)' <=> Speaks(c)
    BY <1>1, <1>2, <1>8 DEF Speaks
  <2>2. \A c \in Clients : conn'[c] # "closed" /\ ~Speaks(c)' => Fresh(c)'
    BY <1>3, <1>4, <2>1 DEF ThreadAnswers, Steady
  <2>3. ASSUME NEW u \in Threads
        PROVE  \E c, e : /\ c = file'[thread'[u].fd] /\ e = thread'[u].buf
                         /\ thread'[u].pc = "write" => Filled(c, e)'
                         /\ thread'[u].pc = "close" => Answered(c)'
    <3>1. CASE u # t
      <4>1. thread[u].pc \in {"write", "close"} => Steady(file[thread[u].fd])
        BY <1>3, <1>4 DEF ThreadFiles, Past
      <4> QED
        BY <1>2, <1>4, <1>8, <3>1, <4>1, ThreadKept
    <3>2. CASE u = t
      BY <1>8, <3>2
    <3> QED
      BY <3>1, <3>2
  <2> QED
    BY <2>2, <2>3, ThreadAnswersNext
<1> QED
  BY <1>2, <1>3, <1>4, <1>9, <1>10, <1>12, <1>13 DEF ThreadInv

\* It frees the block, and is the only one left that has the descriptor.
LEMMA ThreadFrees ==
    ASSUME Sockets, ThreadInv, NEW t \in Threads, T!free(t)
    PROVE  Sockets' /\ ThreadInv'
<1>1. PICK h, a, x : h = thread[t] /\ a = thread[t].vargp /\ x = thread[t].fd
  OBVIOUS
<1>2. /\ h.pc = "free" /\ thread' = [thread EXCEPT ![t].pc = "read", ![t].vargp = T!None]
      /\ heap' = [heap EXCEPT ![a] = T!Unused] /\ UNCHANGED sockvars
      /\ pc' = pc /\ fd_client' = fd_client /\ file' = file /\ orphans' = orphans
  BY <1>1 DEF T!free, T!sockvars, sockvars
<1>3. Sockets' /\ conn' = conn /\ \A c \in Clients : Steady(c)
  BY <1>2, IdleSockets
<1>4. pc # "dead" /\ ThreadTypes /\ ThreadBlocks /\ ThreadFiles /\ ThreadAnswers
  BY <1>1, <1>2, ThreadAlive
<1>5. a \in Heap \ orphans /\ x = heap[a] /\ x \in Fds
  BY <1>1, <1>2, <1>4 DEF ThreadBlocks, ThreadFiles
<1>6. Becomes(t, "read", T!None, h.fd, h.buf)
  BY <1>1, <1>2, <1>4, ThreadSteps
<1>7. /\ thread' \in [Threads -> AThread]
      /\ thread'[t].pc = "read" /\ thread'[t].vargp = T!None /\ thread'[t].fd = x
      /\ \A u \in Threads : u # t => thread'[u] = thread[u]
  BY <1>1, <1>6 DEF Becomes
<1>8. heap'[a] = T!Unused /\ \A b \in Heap : b # a => heap'[b] = heap[b]
  BY <1>2, <1>4, <1>5 DEF ThreadTypes
<1>9. ThreadTypes'
  BY <1>2, <1>4, <1>7 DEF ThreadTypes
<1>10. \A u \in Threads : u # t => thread[u].vargp # a
  BY <1>1, <1>4, <1>5, NoDescriptor DEF ThreadBlocks
<1>11. ThreadBlocks'
  <2>1. pc \in {"accept", "create"} => fd_client # a
    BY <1>1, <1>4 DEF ThreadBlocks
  <2>2. ASSUME NEW u \in Threads
        PROVE  IF thread'[u].pc \in {"start", "free"}
               THEN thread'[u].vargp \in Heap \ orphans /\ heap'[thread'[u].vargp] \in Fds
               ELSE thread'[u].vargp = T!None
    BY <1>4, <1>7, <1>8, <1>10 DEF ThreadBlocks
  <2>3. ASSUME NEW u \in Threads, NEW w \in Threads,
               thread'[u].vargp = thread'[w].vargp, thread'[u].vargp # T!None
        PROVE  u = w
    BY <1>4, <1>7, <2>3 DEF ThreadBlocks
  <2>4. \A b \in orphans : heap'[b] \in Fds
    BY <1>4, <1>5, <1>8 DEF ThreadBlocks, ThreadTypes
  <2>5. ASSUME NEW b \in Heap, heap'[b] # T!Unused
        PROVE  \/ pc \in {"accept", "create"} /\ fd_client = b
               \/ b \in orphans
               \/ \E u \in Threads : thread'[u].vargp = b
    <3>1. b # a /\ heap[b] # T!Unused
      BY <1>8, <2>5
    <3>2. \A u \in Threads : thread[u].vargp = b => thread'[u].vargp = b
      BY <1>1, <1>7, <3>1
    <3> QED
      BY <1>4, <3>1, <3>2 DEF ThreadBlocks
  <2>6. pc \in {"accept", "create"} =>
          /\ fd_client \in Heap \ orphans
          /\ \A u \in Threads : thread'[u].vargp # fd_client
          /\ IF pc = "accept" THEN heap'[fd_client] = T!Uninit ELSE heap'[fd_client] \in Fds
    BY <1>4, <1>7, <1>8, <2>1, NoDescriptor DEF ThreadBlocks
  <2> QED
    BY <1>2, <2>2, <2>3, <2>4, <2>5, <2>6 DEF ThreadBlocks
<1>12. /\ Past(t)' /\ ~Past(t)
       /\ \A u \in Threads : u # t => (Past(u)' <=> Past(u))
  BY <1>1, <1>2, <1>7 DEF Past
<1>13. ThreadFiles'
  <2>1. \A u \in Threads : thread'[u].pc = "free" => thread'[u].fd = heap'[thread'[u].vargp]
    BY <1>4, <1>7, <1>8, <1>10, NoDescriptor DEF ThreadFiles, ThreadBlocks
  <2>2. \A b \in Heap : heap'[b] \in Fds => b # a /\ heap'[b] = heap[b]
    BY <1>8, NoDescriptor
  <2>3. \A b \in Heap : heap'[b] \in Fds => file[heap'[b]] \in Clients
    BY <1>4, <2>2 DEF ThreadFiles
  <2>4. \A u \in Threads : Past(u)' => thread'[u].fd \in Fds /\ file[thread'[u].fd] \in Clients
    BY <1>4, <1>5, <1>7, <1>12 DEF ThreadFiles
  <2>5. ASSUME NEW f \in Fds, file[f] \in Clients
        PROVE  /\ conn[file[f]] = "open"
               /\ (\E b \in Heap : heap'[b] = f) \/ (\E u \in Threads : Past(u)' /\ thread'[u].fd = f)
    <3>1. CASE f = x
      BY <1>4, <1>7, <1>12, <2>5, <3>1 DEF ThreadFiles
    <3>2. CASE f # x
      <4>1. \A b \in Heap : heap[b] = f => heap'[b] = f
        BY <1>5, <1>8, <3>2
      <4>2. \A u \in Threads : Past(u) /\ thread[u].fd = f => Past(u)' /\ thread'[u].fd = f
        BY <1>7, <1>12
      <4> QED
        BY <1>4, <2>5, <4>1, <4>2 DEF ThreadFiles
    <3> QED
      BY <3>1, <3>2
  <2>6. \A b, e \in Heap : heap'[b] = heap'[e] /\ heap'[b] \in Fds => b = e
    BY <1>4, <2>2 DEF ThreadFiles
  <2>7. \A u, w \in Threads : Past(u)' /\ Past(w)' /\ thread'[u].fd = thread'[w].fd => u = w
    <3>1. \A u \in Threads : u # t /\ Past(u)' => thread'[u].fd # x /\ Past(u) /\ thread'[u].fd = thread[u].fd
      BY <1>4, <1>5, <1>7, <1>12 DEF ThreadFiles
    <3> QED
      BY <1>4, <1>7, <3>1 DEF ThreadFiles
  <2>8. \A b \in Heap, u \in Threads : Past(u)' => heap'[b] # thread'[u].fd
    BY <1>4, <1>5, <1>7, <1>12, <2>2, <2>4 DEF ThreadFiles
  <2> QED
    BY <1>2, <1>3, <1>4, <2>1, <2>3, <2>4, <2>5, <2>6, <2>7, <2>8 DEF ThreadFiles, fd_skt
<1>14. ThreadAnswers'
  <2>1. \A c \in Clients : Speaks(c)' <=> Speaks(c)
    BY <1>1, <1>2, <1>7 DEF Speaks
  <2>2. \A c \in Clients : conn'[c] # "closed" /\ ~Speaks(c)' => Fresh(c)'
    BY <1>3, <1>4, <2>1 DEF ThreadAnswers, Steady
  <2>3. ASSUME NEW u \in Threads
        PROVE  \E c, e : /\ c = file'[thread'[u].fd] /\ e = thread'[u].buf
                         /\ thread'[u].pc = "write" => Filled(c, e)'
                         /\ thread'[u].pc = "close" => Answered(c)'
    <3>1. CASE u # t
      <4>1. thread[u].pc \in {"write", "close"} => Steady(file[thread[u].fd])
        BY <1>3, <1>4 DEF ThreadFiles, Past
      <4> QED
        BY <1>2, <1>4, <1>7, <3>1, <4>1, ThreadKept
    <3>2. CASE u = t
      BY <1>7, <3>2
    <3> QED
      BY <3>1, <3>2
  <2> QED
    BY <2>2, <2>3, ThreadAnswersNext
<1> QED
  BY <1>2, <1>3, <1>4, <1>9, <1>11, <1>13, <1>14 DEF ThreadInv
\* It reads its connection, or writes the answer to it.
LEMMA ThreadEchoes ==
    ASSUME Sockets, ThreadInv, NEW t \in Threads, T!read(t) \/ T!write(t)
    PROVE  Sockets' /\ ThreadInv'
<1>1. PICK h, x, d, e, r : /\ h = thread[t] /\ x = thread[t].fd /\ d = file[thread[t].fd]
                           /\ e = thread[t].buf /\ r = ReadResult(file[thread[t].fd])
  OBVIOUS
<1>2. /\ pc' = pc /\ fd_client' = fd_client /\ file' = file /\ heap' = heap /\ orphans' = orphans
      /\ \/ /\ h.pc = "read" /\ Read(d)
            /\ thread' = [thread EXCEPT ![t].buf = r, ![t].pc = "write"]
         \/ /\ h.pc = "write" /\ Write(d, e)
            /\ thread' = [thread EXCEPT ![t].pc = "close"]
  <2>1. CASE T!read(t)
    <3>1. /\ thread[t].pc = "read" /\ T!Read(d)
          /\ thread' = [thread EXCEPT ![t].buf = T!ReadResult(d), ![t].pc = "write"]
          /\ UNCHANGED <<pc, fd_client, file, heap, orphans>>
      BY <1>1, <2>1 DEF T!read, T!Conn
    <3>2. T!ReadResult(d) = r
      BY <1>1 DEF T!ReadResult, ReadResult, T!Bytes, Bytes, T!Min, Min
    <3>3. Read(d)
      BY <3>1 DEF T!Read, Read, T!Readable, Readable, T!Bytes, Bytes, T!Min, Min, T!ReadResult, ReadResult
    <3> QED
      BY <1>1, <3>1, <3>2, <3>3
  <2>2. CASE T!write(t)
    <3>1. /\ thread[t].pc = "write" /\ T!Write(d, e)
          /\ thread' = [thread EXCEPT ![t].pc = "close"]
          /\ UNCHANGED <<pc, fd_client, file, heap, orphans>>
      BY <1>1, <2>2 DEF T!write, T!Conn
    <3>2. Write(d, e)
      BY <3>1 DEF T!Write, Write, T!WriteKills, WriteKills
    <3> QED
      BY <1>1, <3>1, <3>2
  <2> QED
    BY <2>1, <2>2
<1>3. h.pc \in {"read", "write"}
  BY <1>2
<1>4. pc # "dead" /\ ThreadTypes /\ ThreadBlocks /\ ThreadFiles /\ ThreadAnswers
  BY <1>1, <1>3, ThreadAlive
<1>5. x \in Fds /\ d \in Clients /\ conn[d] = "open" /\ Past(t) /\ h.vargp = T!None
  BY <1>1, <1>3, <1>4 DEF ThreadFiles, ThreadBlocks, Past
<1>6. \A u \in Threads : u # t /\ Past(u) => file[thread[u].fd] # d /\ file[thread[u].fd] \in Clients
  BY <1>1, <1>4, <1>5 DEF ThreadFiles
<1>7. /\ Sockets' /\ conn' = conn /\ \A c \in Clients : c # d => Steady(c)
      /\ \/ h.pc = "read" /\ Filled(d, r)' /\ r \in Buffers
         \/ h.pc = "write" /\ Answered(d)'
  <2>1. CASE h.pc = "read" /\ Read(d)
    <3>1. ~Speaks(d)
      BY <1>1, <1>6, <2>1 DEF Speaks, Past
    <3>2. Fresh(d)
      BY <1>4, <1>5, <3>1 DEF ThreadAnswers
    <3> QED
      BY <1>1, <1>5, <2>1, <3>2, ReadSockets
  <2>2. CASE h.pc = "write" /\ Write(d, e)
    <3>1. Filled(d, e)
      BY <1>1, <1>4, <2>2 DEF ThreadAnswers
    <3> QED
      BY <1>5, <2>2, <3>1, WriteSockets
  <2> QED
    BY <1>2, <2>1, <2>2
<1>8. \/ Becomes(t, "write", h.vargp, h.fd, r) /\ Filled(d, r)'
      \/ Becomes(t, "close", h.vargp, h.fd, h.buf) /\ Answered(d)'
  BY <1>1, <1>2, <1>4, <1>7, ThreadSteps
<1>9. /\ thread' \in [Threads -> AThread]
      /\ thread'[t].pc \in {"write", "close"} /\ thread'[t].vargp = T!None /\ thread'[t].fd = x
      /\ \A u \in Threads : u # t => thread'[u] = thread[u]
  BY <1>1, <1>5, <1>8 DEF Becomes
<1>10. \A u \in Threads : /\ thread'[u].vargp = thread[u].vargp /\ thread'[u].fd = thread[u].fd
                          /\ thread'[u].pc \in {"start", "free"} <=> thread[u].pc \in {"start", "free"}
                          /\ thread'[u].pc = "free" <=> thread[u].pc = "free"
  BY <1>1, <1>3, <1>5, <1>9
<1>11. ThreadTypes'
  BY <1>2, <1>4, <1>9 DEF ThreadTypes
<1>12. ThreadBlocks'
  <2>1. heap' = heap /\ pc' = pc /\ fd_client' = fd_client /\ orphans' = orphans
    BY <1>2
  <2> QED
    BY <1>4, <1>10, <2>1 DEF ThreadBlocks
<1>13. \A u \in Threads : Past(u)' <=> Past(u)
  BY <1>5, <1>9 DEF Past
<1>14. ThreadFiles'
  <2>1. heap' = heap /\ file' = file /\ conn' = conn
    BY <1>2, <1>7
  <2>2. \A u \in Threads : thread'[u].pc = "free" => thread'[u].fd = heap[thread'[u].vargp]
    BY <1>4, <1>10 DEF ThreadFiles
  <2>3. \A f \in Fds : file[f] \in Clients =>
          /\ conn[file[f]] = "open"
          /\ (\E b \in Heap : heap[b] = f) \/ (\E u \in Threads : Past(u)' /\ thread'[u].fd = f)
    BY <1>4, <1>10, <1>13 DEF ThreadFiles
  <2>4. /\ \A u \in Threads : Past(u)' => thread'[u].fd \in Fds /\ file[thread'[u].fd] \in Clients
        /\ \A u, w \in Threads : Past(u)' /\ Past(w)' /\ thread'[u].fd = thread'[w].fd => u = w
        /\ \A b \in Heap, u \in Threads : Past(u)' => heap[b] # thread'[u].fd
    BY <1>4, <1>10, <1>13 DEF ThreadFiles
  <2>5. /\ \A b \in Heap : heap[b] \in Fds => file[heap[b]] \in Clients
        /\ \A f \in Fds : file[f] = Listener <=> f = fd_skt
        /\ \A f, g \in Fds : file[f] = file[g] /\ file[f] \in Clients => f = g
        /\ \A b, a \in Heap : heap[b] = heap[a] /\ heap[b] \in Fds => b = a
    BY <1>4 DEF ThreadFiles
  <2> QED
    BY <2>1, <2>2, <2>3, <2>4, <2>5 DEF ThreadFiles, fd_skt
<1>15. ThreadAnswers'
  <2>1. file' = file
    BY <1>2
  <2>2. Speaks(d)' /\ \A c \in Clients : Speaks(c) => Speaks(c)'
    BY <1>1, <1>5, <1>9, <2>1 DEF Speaks
  <2>3. \A c \in Clients : conn'[c] # "closed" /\ ~Speaks(c)' => Fresh(c)'
    BY <1>4, <1>7, <2>2 DEF ThreadAnswers, Steady
  <2>4. ASSUME NEW u \in Threads
        PROVE  \E c, b : /\ c = file'[thread'[u].fd] /\ b = thread'[u].buf
                         /\ thread'[u].pc = "write" => Filled(c, b)'
                         /\ thread'[u].pc = "close" => Answered(c)'
    <3>1. CASE u # t
      <4>1. thread[u].pc \in {"write", "close"} => Steady(file[thread[u].fd])
        BY <1>6, <1>7, <3>1 DEF Past
      <4> QED
        BY <1>4, <1>9, <2>1, <3>1, <4>1, ThreadKept
    <3>2. CASE u = t
      <4>1. file'[thread'[t].fd] = d
        BY <1>1, <1>9, <2>1
      <4>2. \E b : /\ b = thread'[t].buf
                   /\ thread'[t].pc = "write" => Filled(d, b)'
                   /\ thread'[t].pc = "close" => Answered(d)'
        BY <1>8 DEF Becomes
      <4> QED
        BY <3>2, <4>1, <4>2
    <3> QED
      BY <3>1, <3>2
  <2> QED
    BY <2>3, <2>4, ThreadAnswersNext
<1> QED
  BY <1>2, <1>4, <1>7, <1>11, <1>12, <1>14, <1>15 DEF ThreadInv

\* It closes its connection, whose descriptor is free again, and is gone.
LEMMA ThreadCloses ==
    ASSUME Sockets, ThreadInv, NEW t \in Threads, T!close(t)
    PROVE  Sockets' /\ ThreadInv'
<1>1. PICK h, x, d : h = thread[t] /\ x = thread[t].fd /\ d = file[thread[t].fd]
  OBVIOUS
<1>2. /\ pc' = pc /\ fd_client' = fd_client /\ heap' = heap /\ orphans' = orphans
      /\ h.pc = "close" /\ Close({d}) /\ file' = [file EXCEPT ![x] = Free]
      /\ thread' = [thread EXCEPT ![t] = T!NoThread]
  BY <1>1 DEF T!close, T!Conn, T!Close, Close, T!Free, Free
<1>3. pc # "dead" /\ ThreadTypes /\ ThreadBlocks /\ ThreadFiles /\ ThreadAnswers
  BY <1>1, <1>2, ThreadAlive
<1>4. x \in Fds /\ d \in Clients /\ conn[d] = "open" /\ Past(t) /\ h.vargp = T!None /\ d = file[x]
  BY <1>1, <1>2, <1>3 DEF ThreadFiles, ThreadBlocks, Past
<1>5. \A c \in {d} : c \in Clients /\ conn[c] = "open"
  BY <1>4
<1>6. /\ Sockets' /\ \A c \in Clients : Steady(c)
      /\ conn' = [c \in Clients |-> IF c \in {d} THEN "closed" ELSE conn[c]]
  BY <1>2, <1>5, CloseSockets
<1>7. Becomes(t, "none", T!None, T!None, EmptyBuf)
  BY <1>2, <1>3, ThreadSteps
<1>8. /\ thread' \in [Threads -> AThread]
      /\ thread'[t].pc = "none" /\ thread'[t].vargp = T!None
      /\ \A u \in Threads : u # t => thread'[u] = thread[u]
  BY <1>7 DEF Becomes
<1>9. file'[x] = Free /\ \A f \in Fds : f # x => file'[f] = file[f]
  BY <1>2, <1>3, <1>4 DEF ThreadTypes
<1>10. /\ \A u \in Threads : thread'[u].vargp = thread[u].vargp
       /\ \A u \in Threads : thread'[u].pc # "none" => u # t /\ thread'[u] = thread[u]
       /\ \A u \in Threads : u # t /\ thread[u].pc # "none" => thread'[u] = thread[u]
  BY <1>1, <1>4, <1>8
<1>11. ThreadTypes'
  BY <1>2, <1>3, <1>4, <1>8 DEF ThreadTypes
<1>12. ThreadBlocks'
  <2>1. heap' = heap /\ pc' = pc /\ fd_client' = fd_client /\ orphans' = orphans
    BY <1>2
  <2>2. \A u \in Threads : thread'[u].pc \in {"start", "free"} <=> thread[u].pc \in {"start", "free"}
    BY <1>1, <1>2, <1>8
  <2> QED
    BY <1>3, <1>10, <2>1, <2>2 DEF ThreadBlocks
<1>13. \A u \in Threads : Past(u)' <=> u # t /\ Past(u)
  BY <1>8 DEF Past
<1>14. /\ \A a \in Heap : heap[a] # x
       /\ \A u \in Threads : u # t /\ Past(u) => thread[u].fd # x /\ thread[u].fd \in Fds
  BY <1>1, <1>3, <1>4 DEF ThreadFiles
<1>15. \A u \in Threads : Past(u)' => /\ u # t /\ Past(u) /\ thread'[u] = thread[u]
                                      /\ file'[thread[u].fd] = file[thread[u].fd]
  BY <1>8, <1>9, <1>13, <1>14
<1>16. ThreadFiles'
  <2>1. heap' = heap /\ conn'[d] = "closed" /\ \A c \in Clients : c # d => conn'[c] = conn[c]
    BY <1>2, <1>4, <1>6
  <2>2. \A u \in Threads : thread'[u].pc = "free" => thread'[u].fd = heap[thread'[u].vargp]
    BY <1>3, <1>10 DEF ThreadFiles
  <2>3. ASSUME NEW f \in Fds, file'[f] \in Clients
        PROVE  /\ conn'[file'[f]] = "open"
               /\ (\E b \in Heap : heap[b] = f) \/ (\E u \in Threads : Past(u)' /\ thread'[u].fd = f)
    <3>1. f # x /\ file'[f] = file[f]
      BY <1>9, <2>3, Names
    <3>2. file[f] # d
      BY <1>3, <1>4, <3>1 DEF ThreadFiles
    <3>3. \A u \in Threads : Past(u) /\ thread[u].fd = f => Past(u)' /\ thread'[u].fd = f
      BY <1>1, <1>8, <1>13, <3>1
    <3> QED
      BY <1>3, <2>1, <2>3, <3>1, <3>2, <3>3 DEF ThreadFiles
  <2>4. /\ \A u \in Threads : Past(u)' => thread'[u].fd \in Fds /\ file'[thread'[u].fd] \in Clients
        /\ \A u, w \in Threads : Past(u)' /\ Past(w)' /\ thread'[u].fd = thread'[w].fd => u = w
        /\ \A b \in Heap, u \in Threads : Past(u)' => heap[b] # thread'[u].fd
    BY <1>3, <1>15 DEF ThreadFiles
  <2>5. \A b \in Heap : heap[b] \in Fds => file'[heap[b]] \in Clients
    BY <1>3, <1>9, <1>14 DEF ThreadFiles
  <2>6. \A f \in Fds : file'[f] = Listener <=> f = fd_skt
    BY <1>3, <1>4, <1>9, Names DEF ThreadFiles
  <2>7. \A f, g \in Fds : file'[f] = file'[g] /\ file'[f] \in Clients => f = g
    BY <1>3, <1>9, Names DEF ThreadFiles
  <2>8. \A b, a \in Heap : heap[b] = heap[a] /\ heap[b] \in Fds => b = a
    BY <1>3 DEF ThreadFiles
  <2> QED
    BY <2>1, <2>2, <2>3, <2>4, <2>5, <2>6, <2>7, <2>8 DEF ThreadFiles, fd_skt
<1>17. ThreadAnswers'
  <2>1. \A c \in Clients : c # d /\ Speaks(c) => Speaks(c)'
    <3>1. \A u \in Threads : u # t /\ Past(u) => thread'[u] = thread[u] /\ file'[thread[u].fd] = file[thread[u].fd]
      BY <1>8, <1>9, <1>14
    <3> QED
      BY <1>1, <1>4, <3>1 DEF Speaks, Past
  <2>2. \A c \in Clients : conn'[c] # "closed" => c # d /\ conn[c] # "closed"
    BY <1>6
  <2>3. \A c \in Clients : conn'[c] # "closed" /\ ~Speaks(c)' => Fresh(c)'
    BY <1>3, <1>6, <2>1, <2>2 DEF ThreadAnswers, Steady
  <2>4. ASSUME NEW u \in Threads
        PROVE  \E c, b : /\ c = file'[thread'[u].fd] /\ b = thread'[u].buf
                         /\ thread'[u].pc = "write" => Filled(c, b)'
                         /\ thread'[u].pc = "close" => Answered(c)'
    <3>1. CASE Past(u)'
      <4>1. thread'[u] = thread[u] /\ file'[thread[u].fd] = file[thread[u].fd] /\ Steady(file[thread[u].fd])
        BY <1>3, <1>6, <1>15, <3>1 DEF ThreadFiles
      <4> QED
        BY <1>3, <4>1, ThreadKept
    <3>2. CASE ~Past(u)'
      BY <3>2 DEF Past
    <3> QED
      BY <3>1, <3>2
  <2> QED
    BY <2>3, <2>4, ThreadAnswersNext
<1> QED
  BY <1>2, <1>3, <1>6, <1>11, <1>12, <1>16, <1>17 DEF ThreadInv

\* SIGPIPE takes every thread with it.
LEMMA ThreadDies ==
    ASSUME Sockets, ThreadInv, NEW t \in Threads, T!SIGPIPE(t)
    PROVE  Sockets' /\ ThreadInv'
<1>1. /\ Exit /\ pc' = "dead" /\ thread' = [u \in Threads |-> T!NoThread]
      /\ fd_client' = fd_client /\ file' = file /\ heap' = heap /\ orphans' = orphans
  BY DEF T!SIGPIPE, T!Exit, Exit
<1>2. Sockets'
  BY <1>1, ExitSockets
<1>3. ThreadTypes'
  BY <1>1, NobodyRuns DEF ThreadInv, ThreadTypes
<1> QED
  BY <1>1, <1>2, <1>3, NobodyRuns DEF ThreadInv

\* Every step of threadserv.c keeps the invariant.
LEMMA ThreadKeeps ==
    ASSUME Sockets, ThreadInv, T!Next
    PROVE  Sockets' /\ ThreadInv'
BY ThreadMallocs, ThreadAccepts, ThreadCreates, ThreadClients, ThreadBegins, ThreadFrees,
   ThreadEchoes, ThreadCloses, ThreadDies
   DEF T!Next, T!Main, T!Thread
-----------------------------------------------------------------------------
(* Whichever server is started *)

\* A state of a server is not changed by what leaves its variables alone.
LEMMA ServersIdle ==
    ASSUME ServersInv, UNCHANGED allvars
    PROVE  ServersInv'
<1>1. UNCHANGED sockvars /\ UNCHANGED procvars
  BY DEF allvars
<1>2. /\ which' = which /\ pc' = pc /\ fd_client' = fd_client /\ buf' = buf
      /\ file' = file /\ set' = set /\ read_set' = read_set /\ fd_hwm' = fd_hwm /\ fd' = fd
      /\ child' = child /\ files' = files /\ pending' = pending /\ handler' = handler
      /\ refused' = refused /\ heap' = heap /\ thread' = thread /\ orphans' = orphans
  BY <1>1 DEF procvars, selectvars, forkvars, threadvars
<1>3. /\ link' = link /\ sent' = sent /\ taken' = taken /\ got' = got /\ conn' = conn
      /\ backlog' = backlog
  BY <1>1 DEF sockvars
<1>4. Sockets'
  BY <1>1, IdleSockets DEF ServersInv
<1>5. CASE which = "echo"
  <2>1. EchoInv'
    BY <1>2, <1>3, <1>5 DEF ServersInv, EchoInv, E!OneConnectionHeld, Fresh, Filled, Answered
  <2> QED
    BY <1>2, <1>4, <1>5, <2>1 DEF ServersInv
<1>6. CASE which = "select"
  <2>1. UNCHANGED vars
    BY <1>1, <1>2 DEF vars, mainvars
  <2>2. SelectInv'
    BY <1>6, <2>1, SelectStep, DescriptorsInARow DEF ServersInv
  <2>3. SweepBounds'
    BY <1>2, <1>6 DEF ServersInv, SweepBounds
  <2> QED
    BY <1>2, <1>4, <1>6, <2>2, <2>3 DEF ServersInv
<1>7. CASE which = "fork"
  <2>1. ForkInv'
    BY <1>2, <1>3, <1>7
       DEF ServersInv, ForkInv, ForkTypes, ForkHand, ForkFiles, InHand, ForkAnswers, Progress,
           Fresh, Filled, Answered, F!ZombieHasSignal, F!Zombies
  <2> QED
    BY <1>2, <1>4, <1>7, <2>1 DEF ServersInv
<1>8. CASE which = "thread"
  <2>1. ThreadInv'
    BY <1>2, <1>3, <1>8
       DEF ServersInv, ThreadInv, ThreadTypes, ThreadBlocks, ThreadFiles, ThreadAnswers, Past, Speaks,
           Fresh, Filled, Answered, fd_skt
  <2> QED
    BY <1>2, <1>4, <1>8, <2>1 DEF ServersInv
<1> QED
  BY <1>5, <1>6, <1>7, <1>8 DEF ServersInv

\* What main of iomultserv.c does leaves SelectInv and the bounds true.
LEMMA SelectWhole ==
    ASSUME Sockets, SelectInv, SweepBounds, Next
    PROVE  Sockets' /\ SelectInv' /\ SweepBounds'
<1>1. SelectInv'
  BY SelectStep, DescriptorsInARow
<1>2. CASE Server
  BY <1>1, <1>2, SelectBoundsKept
<1>3. CASE Clientele
  <2>1. Sockets' /\ fd' = fd /\ set' = set /\ buf' = buf
    BY <1>3, SelectClients DEF mainvars
  <2> QED
    BY <1>1, <2>1 DEF SweepBounds
<1> QED
  BY <1>2, <1>3 DEF Next

\* The invariant of whichever server is started.
LEMMA ServersInvariant == ServersSpec => []ServersInv
<1>1. ServersInit => ServersInv
  <2> SUFFICES ASSUME ServersInit PROVE ServersInv
    OBVIOUS
  <2>1. CASE which = "echo" /\ E!Init
    BY <2>1, EchoStart DEF ServersInv
  <2>2. CASE which = "select" /\ Init
    BY <2>2, SelectStart, SelectBounds, DescriptorsInARow DEF ServersInv
  <2>3. CASE which = "fork" /\ F!Init
    BY <2>3, ForkStart DEF ServersInv
  <2>4. CASE which = "thread" /\ T!Init
    BY <2>4, ThreadStart DEF ServersInv
  <2> QED
    BY <2>1, <2>2, <2>3, <2>4 DEF ServersInit
<1>2. ServersInv /\ [ServersNext]_allvars => ServersInv'
  <2> SUFFICES ASSUME ServersInv, [ServersNext]_allvars PROVE ServersInv'
    OBVIOUS
  <2>1. CASE EchoOnly /\ E!Next
    <3>1. which = "echo" /\ which' = "echo"
      BY <2>1 DEF EchoOnly
    <3>2. Sockets /\ EchoInv
      BY <3>1 DEF ServersInv
    <3>3. Sockets' /\ EchoInv'
      BY <2>1, <3>2, EchoClients, EchoKeeps DEF E!Next
    <3> QED
      BY <3>1, <3>3 DEF ServersInv
  <2>2. CASE SelectOnly /\ Next
    <3>1. which = "select" /\ which' = "select"
      BY <2>2 DEF SelectOnly
    <3>2. Sockets /\ SelectInv /\ SweepBounds
      BY <3>1 DEF ServersInv
    <3>3. Sockets' /\ SelectInv' /\ SweepBounds'
      BY <2>2, <3>2, SelectWhole
    <3> QED
      BY <3>1, <3>3 DEF ServersInv
  <2>3. CASE ForkOnly /\ F!Next
    <3>1. which = "fork" /\ which' = "fork"
      BY <2>3 DEF ForkOnly
    <3>2. Sockets /\ ForkInv
      BY <3>1 DEF ServersInv
    <3>3. Sockets' /\ ForkInv'
      BY <2>3, <3>2, ForkKeeps
    <3> QED
      BY <3>1, <3>3 DEF ServersInv
  <2>4. CASE ThreadOnly /\ T!Next
    <3>1. which = "thread" /\ which' = "thread"
      BY <2>4 DEF ThreadOnly
    <3>2. Sockets /\ ThreadInv
      BY <3>1 DEF ServersInv
    <3>3. Sockets' /\ ThreadInv'
      BY <2>4, <3>2, ThreadKeeps
    <3> QED
      BY <3>1, <3>3 DEF ServersInv
  <2>5. CASE UNCHANGED allvars
    BY <2>5, ServersIdle
  <2> QED
    BY <2>1, <2>2, <2>3, <2>4, <2>5 DEF ServersNext
<1> QED
  BY <1>1, <1>2, PTL DEF ServersSpec

\* multiprocserv.c: one SIGCHLD may stand for several children, and no zombie
\* is left without a signal that is pending or the handler's loop.
THEOREM EachZombieHasSignal == ServersSpec => []ZombieHasSignal
<1>1. ServersInv => ZombieHasSignal
  BY DEF ServersInv, ForkInv, ZombieHasSignal
<1> QED
  BY <1>1, ServersInvariant, PTL

-----------------------------------------------------------------------------
(* How connections end, and who has them open until then *)

\* Whoever was hung up on had its answer, as long as the server is there.
AllAnswered == \A c \in Clients : conn[c] = "closed" => Answered(c) \/ pc = "dead"
\* What is open will be closed: it is behind a descriptor.
AllInReach ==
    pc # "dead" => \A c \in Clients : conn[c] = "open" => \E f \in Fds : file[f] = c

EchoFate ==
    /\ AllAnswered
    /\ pc = "dead" => \E c \in Clients : c = fd_client /\ (c = c3 \/ ResetInBetween(c))
SelectFate ==
    /\ AllAnswered /\ AllInReach
    /\ pc = "dead" => \E c \in Clients : c = file[fd] /\ ResetInBetween(c)
ForkFate ==
    /\ \A c \in Clients : conn[c] = "open" => \E p \in F!Procs : c \in files[p]
    /\ \A c \in refused :
        child[c] = "none" /\ (conn[c] = "closed" \/ (fd_client = c /\ pc = "close"))
ThreadFate ==
    /\ AllAnswered /\ AllInReach
    /\ pc = "dead" => \E c \in Clients : ResetInBetween(c)

FatesInv ==
    /\ which = "echo" => EchoFate
    /\ which = "select" => SelectFate
    /\ which = "fork" => ForkFate
    /\ which = "thread" => ThreadFate

\* Clients end no connection, and open none.
LEMMA ClientsEndNothing ==
    ASSUME Sockets, NEW d \in Clients, Connect(d) \/ Send(d) \/ Departs(d)
    PROVE  /\ \A c \in Clients : Steady(c)
           /\ \A c \in Clients : ResetInBetween(c) => ResetInBetween(c)'
           /\ \A c \in Clients : conn'[c] = "closed" <=> conn[c] = "closed"
           /\ \A c \in Clients : conn'[c] = "open" <=> conn[c] = "open"
<1>1. /\ \A c \in Clients : Steady(c)
      /\ conn' = conn \/ (conn[d] = "none" /\ conn' = [conn EXCEPT ![d] = "queued"])
  BY ConnectSockets, ClientSockets
<1>2. \A c \in Clients : /\ conn'[c] = "closed" <=> conn[c] = "closed"
                         /\ conn'[c] = "open" <=> conn[c] = "open"
  BY <1>1 DEF Sockets, SocketsInv
<1>3. taken' = taken /\ got' = got
  BY DEF Connect, Send, Departs
<1>4. link \in [Clients -> {"none", "up", "fin", "reset"}]
  BY DEF Sockets, SocketsInv
<1>5. \A c \in Clients : link[c] = "reset" => link'[c] = "reset"
  BY <1>4 DEF Connect, Send, Departs
<1> QED
  BY <1>1, <1>2, <1>3, <1>5 DEF ResetInBetween

\* A process that SIGPIPE ends was writing to a client that reset in between.
LEMMA KilledBy ==
    ASSUME NEW c, NEW b, Filled(c, b), WriteKills(c, b),
           link' = link, taken' = taken, got' = got
    PROVE  ResetInBetween(c)'
<1>1. link[c] = "reset" /\ b.nread >= 0 /\ got[c] = <<>>
  BY DEF WriteKills, Filled
<1>2. taken[c] > 0
  BY <1>1 DEF Filled
<1> QED
  BY <1>1, <1>2 DEF ResetInBetween

\* Whoever is hung up on now, besides those who were before, has its answer.
LEMMA AnsweredNext ==
    ASSUME AllAnswered, pc # "dead",
           \A c \in Clients : conn'[c] = "closed" => (conn[c] = "closed" /\ Steady(c)) \/ Answered(c)'
    PROVE  AllAnswered'
BY DEF AllAnswered, Steady

\* The clients change none of it.
LEMMA ClientsKeepFates ==
    ASSUME Sockets, NEW d \in Clients, Connect(d) \/ Send(d) \/ Departs(d),
           AllAnswered, pc' = pc
    PROVE  AllAnswered'
BY ClientsEndNothing DEF AllAnswered, Steady

-----------------------------------------------------------------------------

\* Every step of echoserver.c.
LEMMA EchoFates ==
    ASSUME Sockets, EchoInv, EchoFate, E!Next
    PROVE  EchoFate'
<1>1. CASE E!Clientele
  <2>1. PICK d \in Clients : Connect(d) \/ Send(d) \/ Departs(d)
    BY <1>1 DEF E!Clientele, E!Connect, Connect, E!Client, E!Send, Send, E!Leave, Departs
  <2>2. pc' = pc /\ fd_client' = fd_client
    BY <1>1 DEF E!Clientele
  <2>3. AllAnswered'
    BY <2>1, <2>2, ClientsKeepFates DEF EchoFate
  <2>4. \A c \in Clients : ResetInBetween(c) => ResetInBetween(c)'
    BY <2>1, ClientsEndNothing
  <2> QED
    BY <2>2, <2>3, <2>4 DEF EchoFate
<1>2. CASE E!Server
  <2>1. PICK e, b : e = fd_client /\ b = buf
    OBVIOUS
  <2>2. pc # "dead"
    BY <1>2 DEF E!Server, E!accept, E!gethostbyaddr, E!NoName, E!read, E!write, E!SIGPIPE, E!close
  <2>3. /\ pc \in {"lookup", "read", "write", "close"} => e \in Clients /\ conn[e] = "open"
        /\ pc = "write" => Filled(e, b)
        /\ pc = "close" => Answered(e)
    BY <2>1 DEF EchoInv
  <2>4. CASE E!accept
    <3>1. Accept /\ pc' = "lookup"
      BY <2>4 DEF E!accept, E!Accept, Accept
    <3>2. PICK d : d = Head(backlog)
      OBVIOUS
    <3>3. /\ \A c \in Clients : Steady(c)
          /\ d \in Clients /\ conn' = [conn EXCEPT ![d] = "open"]
      BY <3>1, <3>2, AcceptSockets
    <3>4. \A c \in Clients : conn'[c] = "closed" => conn[c] = "closed"
      BY <3>3 DEF Sockets, SocketsInv
    <3>5. AllAnswered'
      BY <2>2, <3>3, <3>4, AnsweredNext DEF EchoFate
    <3> QED
      BY <3>1, <3>5 DEF EchoFate
  <2>5. CASE E!gethostbyaddr
    <3>1. pc' = "read" /\ UNCHANGED sockvars
      BY <2>5 DEF E!gethostbyaddr, E!sockvars, sockvars
    <3>2. conn' = conn /\ \A c \in Clients : Steady(c)
      BY <3>1, IdleSockets
    <3>3. AllAnswered'
      BY <2>2, <3>2, AnsweredNext DEF EchoFate
    <3> QED
      BY <3>1, <3>3 DEF EchoFate
  <2>6. CASE E!NoName
    <3>1. pc = "lookup" /\ pc' = "dead" /\ fd_client' = e /\ e = c3
      BY <2>1, <2>6 DEF E!NoName
    <3> QED
      BY <2>3, <3>1 DEF EchoFate, AllAnswered
  <2>7. CASE E!SIGPIPE
    <3>1. /\ pc = "write" /\ pc' = "dead" /\ fd_client' = e /\ WriteKills(e, b)
          /\ link' = link /\ taken' = taken /\ got' = got
      BY <2>1, <2>7 DEF E!SIGPIPE, E!WriteKills, WriteKills, E!Exit
    <3>2. ResetInBetween(e)'
      BY <2>3, <3>1, KilledBy
    <3> QED
      BY <2>3, <3>1, <3>2 DEF EchoFate, AllAnswered
  <2>8. CASE E!read
    <3>1. pc = "read" /\ pc' = "write" /\ Read(e)
      BY <2>1, <2>8 DEF E!read, E!Read, Read, E!Readable, Readable, E!ReadResult, ReadResult,
                        E!Bytes, Bytes, E!Min, Min
    <3>2. conn' = conn /\ \A c \in Clients : Answered(c) => Answered(c)'
      BY <3>1 DEF Read, Answered
    <3> QED
      BY <2>2, <3>1, <3>2 DEF EchoFate, AllAnswered
  <2>9. CASE E!write
    <3>1. pc = "write" /\ pc' = "close" /\ Write(e, b)
      BY <2>1, <2>9 DEF E!write, E!Write, Write, E!WriteKills, WriteKills
    <3>2. conn' = conn /\ \A c \in Clients : c # e => Steady(c)
      BY <2>3, <3>1, WriteSockets
    <3>3. AllAnswered'
      BY <2>2, <2>3, <3>1, <3>2, AnsweredNext DEF EchoFate
    <3> QED
      BY <3>1, <3>3 DEF EchoFate
  <2>10. CASE E!close
    <3>1. pc = "close" /\ pc' = "accept" /\ Close({e})
      BY <2>1, <2>10 DEF E!close, E!Close, Close
    <3>2. /\ \A c \in Clients : Steady(c)
          /\ conn' = [c \in Clients |-> IF c \in {e} THEN "closed" ELSE conn[c]]
      BY <2>3, <3>1, CloseSockets
    <3>3. Answered(e)'
      BY <2>3, <3>1, <3>2 DEF Steady
    <3>4. AllAnswered'
      BY <2>2, <3>2, <3>3, AnsweredNext DEF EchoFate
    <3> QED
      BY <3>1, <3>4 DEF EchoFate
  <2> QED
    BY <1>2, <2>4, <2>5, <2>6, <2>7, <2>8, <2>9, <2>10 DEF E!Server
<1> QED
  BY <1>1, <1>2 DEF E!Next

\* A connection that was accepted is behind the descriptor that was free, and
\* the others are where they were.
LEMMA AcceptInReach ==
    ASSUME AllInReach, pc # "dead", file \in [Fds -> Clients \cup {Listener, Free}],
           NEW n \in Fds, file[n] = Free, NEW d \in Clients, file' = [file EXCEPT ![n] = d],
           \A c \in Clients : conn'[c] = IF c = d THEN "open" ELSE conn[c]
    PROVE  AllInReach'
<1>1. file'[n] = d /\ \A f \in Fds : f # n => file'[f] = file[f]
  OBVIOUS
<1>2. ASSUME NEW c \in Clients, conn'[c] = "open"
      PROVE  \E f \in Fds : file'[f] = c
  <2>1. CASE c = d
    BY <1>1, <2>1
  <2>2. CASE c # d
    <3>1. PICK f \in Fds : file[f] = c
      BY <1>2, <2>2 DEF AllInReach
    <3>2. f # n
      BY <3>1, Names
    <3> QED
      BY <1>1, <3>1, <3>2
  <2> QED
    BY <2>1, <2>2
<1> QED
  BY <1>2 DEF AllInReach

\* A connection that was closed is behind none, and the others are where they
\* were.
LEMMA CloseInReach ==
    ASSUME AllInReach, pc # "dead", file \in [Fds -> Clients \cup {Listener, Free}],
           NEW x \in Fds, NEW d, file[x] = d, file' = [file EXCEPT ![x] = Free],
           conn' = [c \in Clients |-> IF c \in {d} THEN "closed" ELSE conn[c]]
    PROVE  AllInReach'
<1>1. \A f \in Fds : f # x => file'[f] = file[f]
  OBVIOUS
<1>2. ASSUME NEW c \in Clients, conn'[c] = "open"
      PROVE  \E f \in Fds : file'[f] = c
  <2>1. c # d /\ conn[c] = "open"
    BY <1>2
  <2>2. PICK f \in Fds : file[f] = c
    BY <2>1 DEF AllInReach
  <2> QED
    BY <1>1, <2>1, <2>2
<1> QED
  BY <1>2 DEF AllInReach

\* Every step of iomultserv.c.
LEMMA SelectFates ==
    ASSUME Sockets, SelectInv, SelectFate, Next
    PROVE  SelectFate'
<1>1. CASE Clientele
  <2>1. PICK d \in Clients : Connect(d) \/ Send(d) \/ Departs(d)
    BY <1>1 DEF Clientele, Client, Leave, Departs
  <2>2. pc' = pc /\ file' = file /\ fd' = fd
    BY <1>1 DEF Clientele, mainvars
  <2>3. AllAnswered'
    BY <2>1, <2>2, ClientsKeepFates DEF SelectFate
  <2>4. /\ \A c \in Clients : ResetInBetween(c) => ResetInBetween(c)'
        /\ \A c \in Clients : conn'[c] = "open" => conn[c] = "open"
    BY <2>1, ClientsEndNothing
  <2>5. AllInReach'
    BY <2>2, <2>4 DEF SelectFate, AllInReach
  <2> QED
    BY <2>2, <2>3, <2>4, <2>5 DEF SelectFate
<1>2. CASE Server
  <2>1. PICK e, b : e = file[fd] /\ b = buf
    OBVIOUS
  <2>2. pc # "dead" /\ AllAnswered /\ AllInReach
    BY <1>2 DEF Server, select, Sweep, SweepEnds, accept, read, write, SIGPIPE, close, SelectFate
  <2>3. file \in [Fds -> Clients \cup {Listener, Free}]
    BY DEF SelectInv, FilesInv
  <2>4. /\ pc \in {"write", "close"} => fd \in Fds /\ e \in Clients /\ conn[e] = "open"
        /\ pc = "write" => Filled(e, b)
        /\ pc = "close" => Answered(e)
    <3>1. pc \in {"write", "close"} => fd \in Fds /\ e \in Clients /\ conn[e] = "open"
      BY <2>1 DEF SelectInv, ControlInv, FilesInv
    <3> QED
      BY <2>1, <3>1 DEF SelectInv, AnswersInv, Filled, Answered
  <2>5. CASE select \/ Sweep \/ SweepEnds
    <3>1. UNCHANGED sockvars /\ file' = file /\ pc' # "dead"
      BY <2>5 DEF select, Sweep, SweepEnds
    <3>2. conn' = conn /\ \A c \in Clients : Steady(c)
      BY <3>1, IdleSockets
    <3>3. AllAnswered' /\ AllInReach'
      BY <2>2, <3>1, <3>2, AnsweredNext DEF AllInReach
    <3> QED
      BY <3>1, <3>3 DEF SelectFate
  <2>6. CASE accept
    <3>1. PICK n, d : n = LowestFree /\ d = Head(backlog)
      OBVIOUS
    <3>2. /\ Accept /\ pc = "sweep" /\ pc' = pc /\ Free \in {file[f] : f \in Fds}
          /\ file' = [file EXCEPT ![n] = d]
      BY <2>6, <3>1 DEF accept
    <3>3. n \in Fds /\ file[n] = Free
      <4>1. Fds \subseteq Nat
        BY Descriptors, DescriptorsInARow
      <4>2. {f \in Fds : file[f] = Free} \in SUBSET Nat /\ {f \in Fds : file[f] = Free} # {}
        BY <3>2, <4>1
      <4>3. n \in {f \in Fds : file[f] = Free}
        BY <3>1, <4>2, LeastExists DEF LowestFree
      <4> QED
        BY <4>3
    <3>4. /\ \A c \in Clients : Steady(c)
          /\ d \in Clients /\ conn' = [conn EXCEPT ![d] = "open"]
      BY <3>1, <3>2, AcceptSockets
    <3>5. \A c \in Clients : conn'[c] = IF c = d THEN "open" ELSE conn[c]
      BY <3>4 DEF Sockets, SocketsInv
    <3>6. AllInReach'
      BY <2>2, <2>3, <3>2, <3>3, <3>4, <3>5, AcceptInReach
    <3>7. AllAnswered'
      BY <2>2, <3>4, <3>5, AnsweredNext
    <3> QED
      BY <3>2, <3>6, <3>7 DEF SelectFate
  <2>7. CASE read
    <3>1. pc' = "write" /\ file' = file /\ conn' = conn /\ link' = link /\ sent' = sent /\ got' = got
      BY <2>7 DEF read, Read
    <3> QED
      BY <2>2, <3>1 DEF SelectFate, AllAnswered, AllInReach, Answered
  <2>8. CASE write
    <3>1. pc = "write" /\ pc' = "close" /\ file' = file /\ Write(e, b)
      BY <2>1, <2>8 DEF write
    <3>2. conn' = conn /\ \A c \in Clients : c # e => Steady(c)
      BY <2>4, <3>1, WriteSockets
    <3>3. AllAnswered' /\ AllInReach'
      BY <2>2, <2>4, <3>1, <3>2, AnsweredNext DEF AllInReach
    <3> QED
      BY <3>1, <3>3 DEF SelectFate
  <2>9. CASE SIGPIPE
    <3>1. /\ pc = "write" /\ pc' = "dead" /\ file' = file /\ fd' = fd /\ WriteKills(e, b)
          /\ link' = link /\ taken' = taken /\ got' = got
      BY <2>1, <2>9 DEF SIGPIPE, Exit
    <3>2. ResetInBetween(e)'
      BY <2>4, <3>1, KilledBy
    <3>3. \E c \in Clients : c = file'[fd'] /\ ResetInBetween(c)'
      BY <2>1, <2>4, <3>1, <3>2
    <3> QED
      BY <3>1, <3>3 DEF SelectFate, AllAnswered, AllInReach
  <2>10. CASE close
    <3>1. pc = "close" /\ pc' = "sweep" /\ Close({e}) /\ file' = [file EXCEPT ![fd] = Free]
      BY <2>1, <2>10 DEF close
    <3>2. /\ \A c \in Clients : Steady(c)
          /\ conn' = [c \in Clients |-> IF c \in {e} THEN "closed" ELSE conn[c]]
      BY <2>4, <3>1, CloseSockets
    <3>3. Answered(e)'
      BY <2>4, <3>1, <3>2 DEF Steady
    <3>4. AllAnswered'
      BY <2>2, <3>2, <3>3, AnsweredNext
    <3>5. AllInReach'
      BY <2>1, <2>2, <2>3, <2>4, <3>1, <3>2, CloseInReach
    <3> QED
      BY <3>1, <3>4, <3>5 DEF SelectFate
  <2> QED
    BY <1>2, <2>5, <2>6, <2>7, <2>8, <2>9, <2>10 DEF Server
<1> QED
  BY <1>1, <1>2 DEF Next

\* What a process of multiprocserv.c lets go of is closed, or held by another.
LEMMA ReleaseHeld ==
    ASSUME Sockets, ForkInv, ForkFate, NEW p \in F!Procs, NEW fs, F!Release(p, fs),
           \A c \in fs \cap Clients : conn[c] = "open"
    PROVE  \A c \in Clients :
             /\ conn'[c] = "open" => \E q \in F!Procs : c \in files'[q]
             /\ conn[c] = "closed" => conn'[c] = "closed"
<1>1. /\ files'[p] = files[p] \ fs /\ \A q \in F!Procs : q # p => files'[q] = files[q]
      /\ \A c \in Clients : conn'[c] = IF c \in fs /\ \A q \in F!Procs : c \notin files'[q]
                                       THEN "closed" ELSE conn[c]
  BY Releases
<1>2. ASSUME NEW c \in Clients, conn'[c] = "open"
      PROVE  \E q \in F!Procs : c \in files'[q]
  <2>1. CASE c \in fs
    BY <1>1, <1>2, <2>1
  <2>2. CASE c \notin fs
    <3>1. PICK q \in F!Procs : c \in files[q]
      BY <1>1, <1>2, <2>2 DEF ForkFate
    <3> QED
      BY <1>1, <2>2, <3>1
  <2> QED
    BY <2>1, <2>2
<1> QED
  BY <1>1, <1>2

\* Every step of multiprocserv.c.
LEMMA ForkFates ==
    ASSUME Sockets, ForkInv, ForkFate, F!Next
    PROVE  ForkFate'
<1>1. F!parent \in F!Procs /\ \A c \in Clients : c \in F!Procs /\ c # F!parent /\ c # Listener
  BY OtherNames DEF F!Procs
<1>2. /\ files \in [F!Procs -> SUBSET (Clients \cup {Listener})]
      /\ child \in [Clients -> F!Running \cup {"none", "zombie", "reaped"}]
      /\ \A c \in Clients :
           files[c] = {f \in {c, Listener} : \/ child[c] = "start"
                                             \/ f = c /\ child[c] \in {"read", "write", "close"}}
  BY DEF ForkInv, ForkFiles, ForkTypes
<1>3. CASE F!Clientele
  <2>1. PICK d \in Clients : Connect(d) \/ Send(d) \/ Departs(d)
    BY <1>3 DEF F!Clientele, F!Connect, Connect, F!Client, F!Send, Send, F!Leave, Departs
  <2>2. pc' = pc /\ fd_client' = fd_client /\ child' = child /\ files' = files /\ refused' = refused
    BY <1>3 DEF F!Clientele, F!procvars
  <2>3. \A c \in Clients : /\ conn'[c] = "open" <=> conn[c] = "open"
                           /\ conn'[c] = "closed" <=> conn[c] = "closed"
    BY <2>1, ClientsEndNothing
  <2>4. refused \subseteq Clients
    BY DEF ForkInv, ForkTypes
  <2> QED
    BY <2>2, <2>3, <2>4 DEF ForkFate
<1>4. CASE F!accept
  <2>1. PICK d : d = Head(backlog)
    OBVIOUS
  <2>2. /\ Accept /\ pc = "accept" /\ files' = [files EXCEPT ![F!parent] = @ \cup {d}]
        /\ child' = child /\ refused' = refused
    BY <1>4, <2>1 DEF F!accept, F!Accept, Accept
  <2>3. d \in Clients /\ conn[d] = "queued" /\ conn' = [conn EXCEPT ![d] = "open"]
    BY <2>1, <2>2, AcceptSockets
  <2>4. \A c \in Clients : conn'[c] = IF c = d THEN "open" ELSE conn[c]
    BY <2>3 DEF Sockets, SocketsInv
  <2>5. files'[F!parent] = files[F!parent] \cup {d} /\ \A q \in F!Procs : q # F!parent => files'[q] = files[q]
    BY <1>1, <1>2, <2>2
  <2>6. \A c \in Clients : conn'[c] = "open" => \E p \in F!Procs : c \in files'[p]
    BY <1>1, <2>4, <2>5 DEF ForkFate
  <2>7. \A c \in refused : c \in Clients /\ child[c] = "none" /\ conn[c] = "closed"
    BY <2>2 DEF ForkFate, ForkInv, ForkTypes
  <2> QED
    BY <2>2, <2>3, <2>4, <2>6, <2>7 DEF ForkFate
<1>5. CASE F!fork
  <2>1. PICK e : e = fd_client
    OBVIOUS
  <2>2. /\ pc = "fork" /\ child' = [child EXCEPT ![e] = "start"] /\ conn' = conn /\ refused' = refused
        /\ files' = [files EXCEPT ![e] = files[F!parent]]
    BY <1>5, <2>1 DEF F!fork, F!sockvars
  <2>3. e \in Clients /\ child[e] = "none" /\ e \notin refused
    BY <2>1, <2>2 DEF ForkInv, ForkHand
  <2>4. files[e] = {} /\ \A q \in F!Procs : q # e => files'[q] = files[q]
    BY <1>2, <2>2, <2>3
  <2>5. \A c \in Clients : conn'[c] = "open" => \E p \in F!Procs : c \in files'[p]
    BY <2>2, <2>4 DEF ForkFate
  <2>6. \A c \in refused : c # e /\ c \in Clients /\ child'[c] = child[c] /\ conn[c] = "closed"
    BY <1>2, <2>2, <2>3 DEF ForkFate, ForkInv, ForkTypes
  <2> QED
    BY <2>2, <2>5, <2>6 DEF ForkFate
<1>6. CASE F!ForkFails
  <2>1. PICK e : e = fd_client
    OBVIOUS
  <2>2. /\ pc = "fork" /\ pc' = "close" /\ fd_client' = e /\ child' = child /\ conn' = conn
        /\ refused' = refused \cup {e} /\ files' = files
    BY <1>6, <2>1 DEF F!ForkFails, F!sockvars
  <2>3. child[e] = "none"
    BY <2>1, <2>2 DEF ForkInv, ForkHand
  <2> QED
    BY <2>2, <2>3 DEF ForkFate
<1>7. CASE F!close
  <2>1. PICK e : e = fd_client
    OBVIOUS
  <2>2. pc = "close" /\ F!Release(F!parent, {e}) /\ child' = child /\ refused' = refused
    BY <1>7, <2>1 DEF F!close
  <2>3. e \in Clients /\ conn[e] = "open"
    BY <2>1, <2>2 DEF ForkInv, ForkHand
  <2>4. \A c \in {e} \cap Clients : conn[c] = "open"
    BY <2>3
  <2>5. \A c \in Clients : /\ conn'[c] = "open" => \E q \in F!Procs : c \in files'[q]
                           /\ conn[c] = "closed" => conn'[c] = "closed"
    BY <1>1, <2>2, <2>4, ReleaseHeld
  <2>6. /\ files'[F!parent] = files[F!parent] \ {e}
        /\ \A q \in F!Procs : q # F!parent => files'[q] = files[q]
        /\ \A c \in Clients : conn'[c] = IF c \in {e} /\ \A q \in F!Procs : c \notin files'[q]
                                         THEN "closed" ELSE conn[c]
    BY <1>1, <2>2, <2>4, Releases
  <2>7. ASSUME e \in refused
        PROVE  conn'[e] = "closed"
    <3>1. child[e] = "none"
      BY <2>7 DEF ForkFate
    <3>2. \A q \in Clients : e \notin files[q]
      BY <1>1, <1>2, <2>3, <3>1
    <3>3. \A q \in F!Procs : e \notin files'[q]
      BY <1>1, <2>6, <3>2 DEF F!Procs
    <3> QED
      BY <2>3, <2>6, <3>3
  <2>8. \A c \in refused : child[c] = "none" /\ conn'[c] = "closed"
    BY <2>1, <2>5, <2>7 DEF ForkFate, ForkInv, ForkTypes
  <2> QED
    BY <2>2, <2>5, <2>8 DEF ForkFate
<1>8. CASE F!Deliver \/ F!waitpid \/ F!WaitpidNone
  <2>1. pc' = pc /\ fd_client' = fd_client /\ files' = files /\ refused' = refused /\ conn' = conn
    BY <1>8 DEF F!Deliver, F!waitpid, F!WaitpidNone, F!sockvars
  <2>2. \A c \in Clients : child[c] = "none" => child'[c] = "none"
    BY <1>2, <1>8 DEF F!Deliver, F!waitpid, F!WaitpidNone, F!Zombies
  <2>3. refused \subseteq Clients
    BY DEF ForkInv, ForkTypes
  <2> QED
    BY <2>1, <2>2, <2>3 DEF ForkFate
<1>9. ASSUME NEW d \in Clients, F!ChildRead(d) \/ F!ChildWrite(d)
      PROVE  ForkFate'
  <2>1. /\ pc' = pc /\ fd_client' = fd_client /\ files' = files /\ refused' = refused /\ conn' = conn
        /\ child[d] # "none"
        /\ \A c \in Clients : c # d => child'[c] = child[c]
    BY <1>2, <1>9 DEF F!ChildRead, F!ChildWrite, F!Read, F!Write
  <2>2. refused \subseteq Clients
    BY DEF ForkInv, ForkTypes
  <2> QED
    BY <2>1, <2>2 DEF ForkFate
<1>10. ASSUME NEW d \in Clients, F!ChildStart(d) \/ F!ChildClose(d) \/ F!ChildEnds(d)
       PROVE  ForkFate'
  <2>1. PICK fs :
          /\ F!Release(d, fs) /\ pc' = pc /\ fd_client' = fd_client /\ refused' = refused
          /\ \/ fs = {Listener}
             \/ child[d] = "close" /\ fs = {d}
             \/ child[d] \in {"exit", "write"} /\ fs = files[d]
          /\ child[d] # "none" /\ \A c \in Clients : c # d => child'[c] = child[c]
    <3>1. CASE F!ChildStart(d)
      BY <1>2, <3>1 DEF F!ChildStart, F!Listener, Listener
    <3>2. CASE F!ChildClose(d)
      BY <1>2, <3>2 DEF F!ChildClose
    <3>3. CASE F!ChildEnds(d)
      BY <1>2, <3>3 DEF F!ChildEnds
    <3> QED
      BY <1>10, <3>1, <3>2, <3>3
  <2>2. ASSUME NEW c \in fs \cap Clients
        PROVE  conn[c] = "open"
    <3>1. c = d /\ child[d] \in {"write", "close"}
      BY <1>1, <1>2, <2>1
    <3> QED
      BY <3>1 DEF ForkInv, ForkAnswers, Progress
  <2>3. \A c \in Clients : /\ conn'[c] = "open" => \E q \in F!Procs : c \in files'[q]
                           /\ conn[c] = "closed" => conn'[c] = "closed"
    BY <1>1, <2>1, <2>2, ReleaseHeld
  <2>4. \A c \in refused : c \in Clients /\ c # d
    BY <2>1 DEF ForkFate, ForkInv, ForkTypes
  <2>5. ASSUME NEW c \in refused, conn[c] # "closed"
        PROVE  conn'[c] # "closed" \/ (fd_client = c /\ pc = "close")
    BY <2>5 DEF ForkFate
  <2> QED
    BY <2>1, <2>3, <2>4, <2>5 DEF ForkFate
<1> QED
  BY <1>3, <1>4, <1>5, <1>6, <1>7, <1>8, <1>9, <1>10 DEF F!Next, F!Parent, F!Child

\* Every step of threadserv.c.
LEMMA ThreadFates ==
    ASSUME Sockets, ThreadInv, ThreadFate, T!Next
    PROVE  ThreadFate'
<1>1. CASE T!Clientele
  <2>1. PICK d \in Clients : Connect(d) \/ Send(d) \/ Departs(d)
    BY <1>1 DEF T!Clientele, T!Connect, Connect, T!Client, T!Send, Send, T!Leave, Departs
  <2>2. pc' = pc /\ file' = file
    BY <1>1 DEF T!Clientele, T!mainvars
  <2>3. AllAnswered'
    BY <2>1, <2>2, ClientsKeepFates DEF ThreadFate
  <2>4. /\ \A c \in Clients : ResetInBetween(c) => ResetInBetween(c)'
        /\ \A c \in Clients : conn'[c] = "open" => conn[c] = "open"
    BY <2>1, ClientsEndNothing
  <2>5. AllInReach'
    BY <2>2, <2>4 DEF ThreadFate, AllInReach
  <2> QED
    BY <2>2, <2>3, <2>4, <2>5 DEF ThreadFate
<1>2. CASE T!malloc \/ T!pthread_create \/ T!CreateFails
  <2>1. UNCHANGED sockvars /\ file' = file /\ pc # "dead" /\ pc' # "dead"
    BY <1>2 DEF T!malloc, T!pthread_create, T!CreateFails, T!sockvars, sockvars
  <2>2. conn' = conn /\ \A c \in Clients : Steady(c)
    BY <2>1, IdleSockets
  <2>3. AllAnswered' /\ AllInReach'
    BY <2>1, <2>2, AnsweredNext DEF ThreadFate, AllInReach
  <2> QED
    BY <2>1, <2>3 DEF ThreadFate
<1>3. CASE T!accept
  <2>1. PICK d, n : d = Head(backlog) /\ n = Min({f \in Fds : file[f] = Free})
    OBVIOUS
  <2>2. /\ Accept /\ pc = "accept" /\ pc' = "create" /\ Free \in {file[f] : f \in Fds}
        /\ file' = [file EXCEPT ![n] = d]
    BY <1>3, <2>1, NoDescriptor DEF T!accept, T!Accept, Accept, T!Min, Min
  <2>3. n \in Fds /\ file[n] = Free
    <3>1. {f \in Fds : file[f] = Free} \in SUBSET Nat /\ {f \in Fds : file[f] = Free} # {}
      BY <2>2, NoDescriptor
    <3>2. n \in {f \in Fds : file[f] = Free}
      BY <2>1, <3>1, LeastExists
    <3> QED
      BY <3>2
  <2>4. /\ \A c \in Clients : Steady(c)
        /\ d \in Clients /\ conn' = [conn EXCEPT ![d] = "open"]
    BY <2>1, <2>2, AcceptSockets
  <2>5. \A c \in Clients : conn'[c] = IF c = d THEN "open" ELSE conn[c]
    BY <2>4 DEF Sockets, SocketsInv
  <2>6. pc # "dead" /\ AllAnswered /\ AllInReach /\ file \in [Fds -> Clients \cup {Listener, Free}]
    BY <2>2 DEF ThreadFate, ThreadInv, ThreadTypes
  <2>7. AllInReach'
    BY <2>2, <2>3, <2>4, <2>5, <2>6, AcceptInReach
  <2>8. AllAnswered'
    BY <2>4, <2>5, <2>6, AnsweredNext
  <2> QED
    BY <2>2, <2>7, <2>8 DEF ThreadFate
<1>4. ASSUME NEW t \in Threads, T!Thread(t)
      PROVE  ThreadFate'
  <2>1. PICK e, b, x : e = file[thread[t].fd] /\ b = thread[t].buf /\ x = thread[t].fd
    OBVIOUS
  <2>2. pc # "dead"
    BY <1>4, ThreadAlive DEF T!Thread, T!start, T!free, T!read, T!write, T!SIGPIPE, T!close
  <2>3. /\ AllAnswered /\ AllInReach /\ file \in [Fds -> Clients \cup {Listener, Free}]
        /\ ThreadFiles /\ ThreadAnswers
    BY <2>2 DEF ThreadFate, ThreadInv, ThreadTypes
  <2>4. thread[t].pc \in {"read", "write", "close"} => x \in Fds /\ e \in Clients /\ conn[e] = "open"
    BY <2>1, <2>3 DEF ThreadFiles, Past
  <2>5. /\ thread[t].pc = "write" => Filled(e, b)
        /\ thread[t].pc = "close" => Answered(e)
    BY <2>1, <2>3 DEF ThreadAnswers
  <2>6. CASE T!start(t) \/ T!free(t)
    <3>1. UNCHANGED sockvars /\ file' = file /\ pc' = pc
      BY <2>6 DEF T!start, T!free, T!sockvars, sockvars
    <3>2. conn' = conn /\ \A c \in Clients : Steady(c)
      BY <3>1, IdleSockets
    <3>3. AllAnswered' /\ AllInReach'
      BY <2>2, <2>3, <3>1, <3>2, AnsweredNext DEF AllInReach
    <3> QED
      BY <2>2, <3>1, <3>3 DEF ThreadFate
  <2>7. CASE T!read(t)
    <3>1. pc' = pc /\ file' = file /\ conn' = conn /\ link' = link /\ sent' = sent /\ got' = got
      BY <2>7 DEF T!read, T!Read
    <3> QED
      BY <2>2, <2>3, <3>1 DEF ThreadFate, AllAnswered, AllInReach, Answered
  <2>8. CASE T!write(t)
    <3>1. thread[t].pc = "write" /\ pc' = pc /\ file' = file /\ Write(e, b)
      BY <2>1, <2>8 DEF T!write, T!Write, Write, T!WriteKills, WriteKills, T!Conn
    <3>2. conn' = conn /\ \A c \in Clients : c # e => Steady(c)
      BY <2>4, <2>5, <3>1, WriteSockets
    <3>3. AllAnswered' /\ AllInReach'
      BY <2>2, <2>3, <2>4, <3>1, <3>2, AnsweredNext DEF AllInReach
    <3> QED
      BY <2>2, <3>1, <3>3 DEF ThreadFate
  <2>9. CASE T!SIGPIPE(t)
    <3>1. /\ thread[t].pc = "write" /\ pc' = "dead" /\ WriteKills(e, b)
          /\ link' = link /\ taken' = taken /\ got' = got
      BY <2>1, <2>9 DEF T!SIGPIPE, T!Exit, T!WriteKills, WriteKills, T!Conn
    <3>2. ResetInBetween(e)'
      BY <2>5, <3>1, KilledBy
    <3> QED
      BY <2>4, <3>1, <3>2 DEF ThreadFate, AllAnswered, AllInReach
  <2>10. CASE T!close(t)
    <3>1. /\ thread[t].pc = "close" /\ pc' = pc /\ Close({e}) /\ file' = [file EXCEPT ![x] = Free]
      BY <2>1, <2>10 DEF T!close, T!Conn, T!Close, Close, T!Free, Free
    <3>2. /\ \A c \in Clients : Steady(c)
          /\ conn' = [c \in Clients |-> IF c \in {e} THEN "closed" ELSE conn[c]]
      BY <2>4, <3>1, CloseSockets
    <3>3. Answered(e)'
      BY <2>4, <2>5, <3>1, <3>2 DEF Steady
    <3>4. AllAnswered'
      BY <2>2, <2>3, <3>2, <3>3, AnsweredNext
    <3>5. AllInReach'
      BY <2>1, <2>2, <2>3, <2>4, <3>1, <3>2, CloseInReach
    <3> QED
      BY <2>2, <3>1, <3>4, <3>5 DEF ThreadFate
  <2> QED
    BY <1>4, <2>6, <2>7, <2>8, <2>9, <2>10 DEF T!Thread
<1> QED
  BY <1>1, <1>2, <1>3, <1>4 DEF T!Next, T!Main

-----------------------------------------------------------------------------

\* Nobody has been hung up on when a server starts.
LEMMA FatesStart == ServersInit => FatesInv
<1> SUFFICES ASSUME ServersInit
             PROVE  FatesInv
  OBVIOUS
<1>1. CASE which = "echo" /\ E!Init
  <2>1. SockInit /\ pc = "accept"
    BY <1>1 DEF E!Init, E!SockInit, SockInit
  <2>2. \A c \in Clients : conn[c] = "none"
    BY <2>1, SocketsStart
  <2> QED
    BY <1>1, <2>1, <2>2 DEF FatesInv, EchoFate, AllAnswered
<1>2. CASE which = "select" /\ Init
  <2>1. SockInit /\ pc = "select"
    BY <1>2 DEF Init
  <2>2. \A c \in Clients : conn[c] = "none"
    BY <2>1, SocketsStart
  <2> QED
    BY <1>2, <2>1, <2>2 DEF FatesInv, SelectFate, AllAnswered, AllInReach
<1>3. CASE which = "fork" /\ F!Init
  <2>1. SockInit /\ refused = {}
    BY <1>3 DEF F!Init, F!SockInit, SockInit
  <2>2. \A c \in Clients : conn[c] = "none"
    BY <2>1, SocketsStart
  <2> QED
    BY <1>3, <2>1, <2>2 DEF FatesInv, ForkFate
<1>4. CASE which = "thread" /\ T!Init
  <2>1. SockInit /\ pc = "malloc"
    BY <1>4 DEF T!Init, T!SockInit, SockInit
  <2>2. \A c \in Clients : conn[c] = "none"
    BY <2>1, SocketsStart
  <2> QED
    BY <1>4, <2>1, <2>2 DEF FatesInv, ThreadFate, AllAnswered, AllInReach
<1> QED
  BY <1>1, <1>2, <1>3, <1>4 DEF ServersInit

\* What leaves the variables alone.
LEMMA FatesIdle ==
    ASSUME FatesInv, UNCHANGED allvars
    PROVE  FatesInv'
<1>1. /\ which' = which /\ pc' = pc /\ fd_client' = fd_client /\ file' = file /\ fd' = fd
      /\ child' = child /\ files' = files /\ refused' = refused
      /\ link' = link /\ sent' = sent /\ taken' = taken /\ got' = got /\ conn' = conn
  BY DEF allvars, procvars, selectvars, forkvars, threadvars, sockvars
<1>2. AllAnswered' = AllAnswered /\ AllInReach' = AllInReach
  BY <1>1 DEF AllAnswered, AllInReach, Answered
<1>3. EchoFate' = EchoFate
  BY <1>1, <1>2 DEF EchoFate, ResetInBetween
<1>4. SelectFate' = SelectFate
  BY <1>1, <1>2 DEF SelectFate, ResetInBetween
<1>5. ForkFate' = ForkFate
  BY <1>1 DEF ForkFate
<1>6. ThreadFate' = ThreadFate
  BY <1>1, <1>2 DEF ThreadFate, ResetInBetween
<1> QED
  BY <1>1, <1>3, <1>4, <1>5, <1>6 DEF FatesInv

\* Whichever server is started, both invariants hold in every state.
LEMMA FatesInvariant == ServersSpec => [](ServersInv /\ FatesInv)
<1>1. ServersInv /\ FatesInv /\ [ServersNext]_allvars => FatesInv'
  <2> SUFFICES ASSUME ServersInv, FatesInv, [ServersNext]_allvars
               PROVE  FatesInv'
    OBVIOUS
  <2>1. CASE EchoOnly /\ E!Next
    <3>1. which = "echo" /\ which' = "echo"
      BY <2>1 DEF EchoOnly
    <3>2. EchoFate'
      BY <2>1, <3>1, EchoFates DEF ServersInv, FatesInv
    <3> QED
      BY <3>1, <3>2 DEF FatesInv
  <2>2. CASE SelectOnly /\ Next
    <3>1. which = "select" /\ which' = "select"
      BY <2>2 DEF SelectOnly
    <3>2. SelectFate'
      BY <2>2, <3>1, SelectFates DEF ServersInv, FatesInv
    <3> QED
      BY <3>1, <3>2 DEF FatesInv
  <2>3. CASE ForkOnly /\ F!Next
    <3>1. which = "fork" /\ which' = "fork"
      BY <2>3 DEF ForkOnly
    <3>2. ForkFate'
      BY <2>3, <3>1, ForkFates DEF ServersInv, FatesInv
    <3> QED
      BY <3>1, <3>2 DEF FatesInv
  <2>4. CASE ThreadOnly /\ T!Next
    <3>1. which = "thread" /\ which' = "thread"
      BY <2>4 DEF ThreadOnly
    <3>2. ThreadFate'
      BY <2>4, <3>1, ThreadFates DEF ServersInv, FatesInv
    <3> QED
      BY <3>1, <3>2 DEF FatesInv
  <2>5. CASE UNCHANGED allvars
    BY <2>5, FatesIdle
  <2> QED
    BY <2>1, <2>2, <2>3, <2>4, <2>5 DEF ServersNext
<1> QED
  BY <1>1, FatesStart, ServersInvariant, PTL DEF ServersSpec

\* In none of the four servers is a client hung up on without its answer unless
\* it left first, the server went down, or multiprocserv.c had no process for
\* it; and a server goes down only with a client that reset between the read
\* and the write of its bytes, or, echoserver.c, one whose address has no name.
THEOREM OneClientsEndIsItsOwn == ServersSpec => []ServersUnharmed
<1>1. ServersInv /\ FatesInv => ServersUnharmed
  <2> SUFFICES ASSUME ServersInv, FatesInv
               PROVE  ServersUnharmed
    OBVIOUS
  <2>1. CASE which = "echo"
    <3>1. EchoFate
      BY <2>1 DEF FatesInv
    <3>2. E!OthersUnharmed
      BY <3>1 DEF EchoFate, AllAnswered, Answered, ResetInBetween, E!OthersUnharmed, E!DoneWith,
                  E!ResetInBetween
    <3> QED
      BY <2>1, <3>2 DEF ServersUnharmed
  <2>2. CASE which = "select"
    <3>1. SelectFate
      BY <2>2 DEF FatesInv
    <3>2. OthersUnharmed
      BY <3>1 DEF SelectFate, AllAnswered, Answered, OthersUnharmed, DoneWith
    <3> QED
      BY <2>2, <3>2 DEF ServersUnharmed
  <2>3. CASE which = "fork"
    <3>1. ForkFate /\ ForkAnswers /\ refused \subseteq Clients
      BY <2>3 DEF ServersInv, FatesInv, ForkInv, ForkTypes
    <3>2. \A c \in refused : child[c] = "none" /\ got[c] = <<>>
      BY <3>1 DEF ForkFate, ForkAnswers, Progress, Fresh
    <3>3. \A c \in Clients : conn[c] = "closed" => F!DoneWith(c) \/ c \in refused
      BY <3>1 DEF ForkAnswers, Progress, Answered, F!DoneWith
    <3>4. F!OthersUnharmed
      BY <3>1, <3>2, <3>3 DEF ForkFate, F!OthersUnharmed
    <3> QED
      BY <2>3, <3>4 DEF ServersUnharmed
  <2>4. CASE which = "thread"
    <3>1. ThreadFate
      BY <2>4 DEF FatesInv
    <3>2. T!OthersUnharmed
      BY <3>1 DEF ThreadFate, AllAnswered, Answered, ResetInBetween, T!OthersUnharmed, T!DoneWith,
                  T!ResetInBetween
    <3> QED
      BY <2>4, <3>2 DEF ServersUnharmed
  <2> QED
    BY <2>1, <2>2, <2>3, <2>4 DEF ServersInv
<1> QED
  BY <1>1, FatesInvariant, PTL

\* A queue of different connections is no longer than there are clients.
LEMMA QueueBounded ==
    ASSUME Sockets
    PROVE  Len(backlog) <= Cardinality(Clients) /\ ToSet(backlog) \subseteq Clients
<1>1. PICK q, n : q = backlog /\ n = Len(backlog)
  OBVIOUS
<1>2. /\ q \in Seq(Clients) /\ n = Len(q) /\ \A i, j \in DOMAIN q : q[i] = q[j] => i = j
  BY <1>1 DEF Sockets, SocketsInv
<1>3. n \in Nat /\ DOMAIN q = 1 .. n /\ q \in [1 .. n -> Clients]
  BY <1>2
<1>4. q \in Injection(1 .. n, Clients)
  BY <1>2, <1>3 DEF Injection, IsInjective
<1>5. Cardinality(1 .. n) <= Cardinality(Clients)
  BY <1>4, FS_Injection, SocketConstants DEF SocketConstants
<1>6. Cardinality(1 .. n) = n
  <2>1. Cardinality(1 .. n) = IF 1 > n THEN 0 ELSE n - 1 + 1
    BY <1>3, FS_Interval
  <2> QED
    BY <1>3, <2>1, SMT
<1>7. ToSet(q) \subseteq Clients
  BY <1>3 DEF ToSet
<1> QED
  BY <1>1, <1>5, <1>6, <1>7

\* The types of the sockets, as each of the servers states them.
LEMMA SocketTypes ==
    ASSUME Sockets
    PROVE  SockTypeOK /\ E!SockTypeOK /\ F!SockTypeOK /\ T!SockTypeOK
<1>1. /\ link \in [Clients -> {"none", "up", "fin", "reset"}]
      /\ conn \in [Clients -> {"none", "queued", "open", "closed"}]
      /\ sent \in [Clients -> Nat] /\ taken \in [Clients -> Nat]
      /\ \A c \in Clients : taken[c] <= sent[c] /\ sent[c] <= MaxSend
  BY DEF Sockets, SocketsInv
<1>2. \A x, y \in Nat : x <= y /\ y <= MaxSend => x \in 0 .. MaxSend /\ y \in 0 .. MaxSend
  BY SocketConstants, SMT DEF SocketConstants
<1>3. sent \in [Clients -> 0 .. MaxSend] /\ taken \in [Clients -> 0 .. MaxSend]
  BY <1>1, <1>2
<1>4. SockTypeOK
  BY <1>1, <1>3, QueueBounded DEF SockTypeOK
<1>5. E!SockTypeOK /\ F!SockTypeOK /\ T!SockTypeOK
  BY <1>4 DEF SockTypeOK, E!SockTypeOK, F!SockTypeOK, T!SockTypeOK, ToSet, E!ToSet, F!ToSet, T!ToSet,
     Cardinality, E!Cardinality, F!Cardinality, T!Cardinality
<1> QED
  BY <1>4, <1>5

\* A set whose elements are all the same.
LEMMA AtMostOne ==
    ASSUME NEW S, \A x, y \in S : x = y
    PROVE  /\ T!Cardinality(S) = Cardinality(S)
           /\ Cardinality(S) = IF S = {} THEN 0 ELSE 1
<1>1. Cardinality(S) = IF S = {} THEN 0 ELSE 1
  <2>1. CASE S = {}
    BY <2>1, FS_EmptySet
  <2>2. CASE S # {}
    <3>1. PICK x \in S : S = {x}
      BY <2>2
    <3> QED
      BY <3>1, FS_Singleton
  <2> QED
    BY <2>1, <2>2
<1> QED
  BY <1>1 DEF Cardinality, T!Cardinality

\* A connection that is open is behind one descriptor, one that is not behind
\* none.
LEMMA OneDescriptor ==
    ASSUME AllInReach, pc # "dead", NEW c \in Clients,
           \A f \in Fds : file[f] \in Clients => conn[file[f]] = "open",
           \A f, g \in Fds : file[f] = file[g] /\ file[f] \in Clients => f = g
    PROVE  /\ Cardinality({f \in Fds : file[f] = c}) = IF conn[c] = "open" THEN 1 ELSE 0
           /\ T!Cardinality({f \in Fds : file[f] = c}) = IF conn[c] = "open" THEN 1 ELSE 0
<1>1. PICK S : S = {f \in Fds : file[f] = c}
  OBVIOUS
<1>2. \A x, y \in S : x = y
  BY <1>1
<1>3. S = {} <=> conn[c] # "open"
  BY <1>1 DEF AllInReach
<1>4. T!Cardinality(S) = Cardinality(S) /\ Cardinality(S) = IF S = {} THEN 0 ELSE 1
  BY <1>2, AtMostOne
<1> QED
  BY <1>1, <1>3, <1>4

\* echoserver.c has open the connection it is serving; in iomultserv.c the mark
\* is above the set and the set is what is open; in multiprocserv.c nobody
\* holds what another serves, and what is open is held by somebody; in
\* iomultserv.c and threadserv.c a connection is behind one descriptor as long
\* as it is open, and then behind none.
THEOREM NoDescriptorLost == ServersSpec => []DescriptorsAccountedFor
<1>1. ServersInv /\ FatesInv => DescriptorsAccountedFor
  <2> SUFFICES ASSUME ServersInv, FatesInv PROVE DescriptorsAccountedFor
    OBVIOUS
  <2>1. SockTypeOK /\ E!SockTypeOK /\ F!SockTypeOK /\ T!SockTypeOK
    BY SocketTypes DEF ServersInv
  <2>2. CASE which = "echo"
    <3>1. EchoInv
      BY <2>2 DEF ServersInv
    <3>2. E!TypeOK /\ E!OneConnectionHeld
      BY <2>1, <3>1 DEF EchoInv, Buffers, E!TypeOK, E!None, None
    <3> QED
      BY <2>2, <3>2 DEF DescriptorsAccountedFor
  <2>3. CASE which = "select"
    <3>1. SelectInv /\ SweepBounds
      BY <2>3 DEF ServersInv
    <3>2. set \subseteq Fds /\ HwmCoversSet
      BY <3>1 DEF SelectInv, FilesInv, SweepBounds
    <3>3. TypeOK
      BY <2>1, <3>1, <3>2 DEF SelectInv, ControlInv, FilesInv, SweepBounds, TypeOK
    <3>4. ASSUME pc # "dead", NEW c \in Clients
          PROVE  Cardinality({f \in Fds : file[f] = c}) = IF conn[c] = "open" THEN 1 ELSE 0
      BY <2>3, <3>1, <3>4, OneDescriptor DEF FatesInv, SelectFate, SelectInv, FilesInv
    <3>5. OneDescriptorEach
      BY <3>4 DEF OneDescriptorEach
    <3> QED
      BY <2>3, <3>2, <3>3, <3>5 DEF DescriptorsAccountedFor
  <2>4. CASE which = "fork"
    <3>1. ForkTypes /\ ForkHand /\ ForkFiles
      BY <2>4 DEF ServersInv, ForkInv
    <3>2. F!TypeOK
      BY <2>1, <3>1 DEF ForkTypes, ForkFiles, Buffers, F!TypeOK, F!None, None, F!Listener, Listener
    <3>3. files[F!parent] \ {F!Listener} = IF pc = "accept" THEN {} ELSE {fd_client}
      BY <3>1, OtherNames DEF ForkHand, ForkFiles, InHand, F!Listener, Listener
    <3>4. \A c \in Clients : files[c] \subseteq
            CASE child[c] = "start" -> {c, F!Listener}
              [] child[c] \in {"read", "write", "close"} -> {c}
              [] OTHER -> {}
      BY <3>1 DEF ForkFiles, F!Listener, Listener
    <3>5. ASSUME NEW c \in Clients, NEW p \in F!Procs, c \in files[p]
          PROVE  conn[c] = "open"
      <4>1. CASE p = F!parent
        <5>1. InHand(c)
          BY <3>1, <3>5, <4>1, OtherNames DEF ForkFiles
        <5> QED
          BY <3>1, <5>1 DEF ForkHand, InHand
      <4>2. CASE p \in Clients
        <5>1. p = c /\ child[c] \in {"start", "read", "write", "close"}
          BY <3>1, <3>5, <4>2, OtherNames DEF ForkFiles
        <5> QED
          BY <2>4, <5>1 DEF ServersInv, ForkInv, ForkAnswers, Progress
      <4> QED
        BY <4>1, <4>2 DEF F!Procs
    <3>6. F!OpenWhileHeld
      BY <2>4, <3>5 DEF FatesInv, ForkFate, F!OpenWhileHeld
    <3> QED
      BY <2>4, <3>2, <3>3, <3>4, <3>6 DEF DescriptorsAccountedFor, F!NobodyHoldsAnothers
  <2>5. CASE which = "thread"
    <3>1. ThreadTypes
      BY <2>5 DEF ServersInv, ThreadInv
    <3>2. T!TypeOK
      BY <2>1, <3>1 DEF ThreadTypes, AThread, Buffers, T!TypeOK, T!Listener, Listener, T!Free, Free
    <3>3. ASSUME pc # "dead", NEW c \in Clients
          PROVE  T!Cardinality({f \in Fds : file[f] = c}) = IF conn[c] = "open" THEN 1 ELSE 0
      BY <2>5, <3>3, OneDescriptor DEF FatesInv, ThreadFate, ServersInv, ThreadInv, ThreadFiles
    <3>4. T!OneDescriptorEach
      BY <3>3 DEF T!OneDescriptorEach
    <3> QED
      BY <2>5, <3>2, <3>4 DEF DescriptorsAccountedFor
  <2> QED
    BY <2>2, <2>3, <2>4, <2>5 DEF ServersInv, DescriptorsAccountedFor
<1> QED
  BY <1>1, FatesInvariant, PTL

\* iomultserv.c: no accept and no read of its sweep waits; no other server
\* sweeps.
THEOREM NoSweepWaits == ServersSpec => []SweepNeverWaits
<1>1. ServersInv => SweepNeverWaits
  BY DEF ServersInv, SelectInv, ControlInv, SweepInv, Ahead, SweepNeverWaits,
         EchoInv, ForkInv, ForkTypes, ThreadInv, ThreadTypes
<1> QED
  BY <1>1, ServersInvariant, PTL
\* Each block has one owner: main, a thread, or nobody for good.
LEMMA BlocksHaveOwners ==
    ASSUME ThreadInv
    PROVE  T!OneOwnerPerBlock
<1> SUFFICES ASSUME pc # "dead", NEW b \in Heap
             PROVE  LET owners == {t \in Threads : thread[t].vargp = b}
                                  \cup (IF pc \in {"accept", "create"} /\ fd_client = b THEN {0} ELSE {})
                                  \cup (IF b \in orphans THEN {-1} ELSE {})
                    IN  /\ heap[b] = T!Unused <=> owners = {}
                        /\ T!Cardinality(owners) <= 1
                        /\ heap[b] = T!Uninit => pc = "accept" /\ fd_client = b
  BY DEF T!OneOwnerPerBlock
<1> DEFINE mine == {t \in Threads : thread[t].vargp = b}
           main == IF pc \in {"accept", "create"} /\ fd_client = b THEN {0} ELSE {}
           lost == IF b \in orphans THEN {-1} ELSE {}
<1>1. ThreadTypes /\ ThreadBlocks
  BY DEF ThreadInv
<1>2. b # T!None /\ T!None = 0
  BY ThreadConstants DEF ThreadConstants, T!None
<1>3. \A f \in Fds : f # T!Unused /\ f # T!Uninit
  BY Descriptors, DescriptorsInARow, SMT DEF T!Unused, T!Uninit
<1>4. \A t \in mine : t \in Threads /\ thread[t].vargp = b /\ thread[t].pc \in {"start", "free"}
  BY <1>1, <1>2 DEF ThreadBlocks
<1>5. /\ \A t, u \in mine : t = u
      /\ main # {} => mine = {} /\ lost = {}
      /\ mine # {} => lost = {}
  BY <1>1, <1>2, <1>4 DEF ThreadBlocks
<1>6. \A x, y \in (mine \cup main) \cup lost : x = y
  BY <1>5
<1>7. Cardinality((mine \cup main) \cup lost) \in {0, 1}
      /\ T!Cardinality((mine \cup main) \cup lost) = Cardinality((mine \cup main) \cup lost)
  BY <1>6, AtMostOne
<1>8. T!Cardinality((mine \cup main) \cup lost) <= 1
  BY <1>7, SMT
<1>9. heap[b] = T!Uninit => pc = "accept" /\ fd_client = b
  <2>1. T!Uninit # T!Unused
    BY SMT DEF T!Uninit, T!Unused
  <2>2. heap[b] = T!Uninit => \/ pc \in {"accept", "create"} /\ fd_client = b
                              \/ b \in orphans
                              \/ \E t \in Threads : thread[t].vargp = b
    BY <1>1, <2>1 DEF ThreadBlocks
  <2>3. /\ b \in orphans => heap[b] \in Fds
        /\ \A t \in Threads : thread[t].vargp = b => heap[b] \in Fds
        /\ pc = "create" /\ fd_client = b => heap[b] \in Fds
    BY <1>1, <1>2 DEF ThreadBlocks
  <2> QED
    BY <1>3, <2>2, <2>3
<1>10. (mine \cup main) \cup lost = {} => heap[b] = T!Unused
  BY <1>1 DEF ThreadBlocks
<1>11. (mine \cup main) \cup lost # {} => heap[b] # T!Unused
  <2>1. T!Uninit # T!Unused
    BY SMT DEF T!Uninit, T!Unused
  <2>2. /\ lost # {} => heap[b] \in Fds
        /\ mine # {} => heap[b] \in Fds
        /\ main # {} => heap[b] = T!Uninit \/ heap[b] \in Fds
    BY <1>1, <1>4 DEF ThreadBlocks
  <2> QED
    BY <1>3, <2>1, <2>2
<1> QED
  BY <1>8, <1>9, <1>10, <1>11

\* Each connection is in the hands of one thread, or of the block that one
\* will be handed.
LEMMA ConnectionsHaveThreads ==
    ASSUME ThreadInv
    PROVE  T!OneThreadPerConnection
<1> SUFFICES ASSUME pc # "dead", NEW f \in Fds \ {T!Min(Fds)}
             PROVE  LET serving == {t \in Threads : thread[t].pc \notin {"none", "start"} /\ thread[t].fd = f}
                        waiting == {b \in Heap : heap[b] = f /\ \A t \in serving : thread[t].vargp # b}
                    IN  T!Cardinality(serving) + T!Cardinality(waiting) = IF file[f] = T!Free THEN 0 ELSE 1
  BY DEF T!OneThreadPerConnection
<1> DEFINE serving == {t \in Threads : thread[t].pc \notin {"none", "start"} /\ thread[t].fd = f}
           waiting == {b \in Heap : heap[b] = f /\ \A t \in serving : thread[t].vargp # b}
<1>1. ThreadTypes /\ ThreadBlocks /\ ThreadFiles
  BY DEF ThreadInv
<1>2. f \in Fds /\ f # fd_skt
  BY DEF T!Min, Min, fd_skt
<1>3. \A t \in serving :
        /\ t \in Threads /\ thread[t].fd = f
        /\ \/ Past(t)
           \/ thread[t].pc = "free" /\ thread[t].vargp \in Heap /\ heap[thread[t].vargp] = f
  BY <1>1 DEF ThreadTypes, AThread, ThreadBlocks, ThreadFiles, Past
<1>4. \A t \in Heap : t # T!None
  BY ThreadConstants DEF ThreadConstants, T!None
<1>5. \A t, u \in serving : t = u
  BY <1>1, <1>2, <1>3, <1>4 DEF ThreadBlocks, ThreadFiles
<1>6. \A a, b \in waiting : a = b
  BY <1>1, <1>2 DEF ThreadFiles
<1>7. \A t \in serving, b \in waiting : FALSE
  BY <1>1, <1>2, <1>3 DEF ThreadFiles
<1>8. file[f] = T!Free => serving = {} /\ waiting = {}
  BY <1>1, <1>2, <1>3, Names DEF ThreadFiles, T!Free, Free
<1>9. file[f] # T!Free => serving # {} \/ waiting # {}
  <2>1. file[f] # T!Free => file[f] \in Clients
    BY <1>1, <1>2 DEF ThreadTypes, ThreadFiles, T!Free, Free
  <2>2. file[f] # T!Free => (\E b \in Heap : heap[b] = f) \/ (\E t \in Threads : Past(t) /\ thread[t].fd = f)
    BY <1>1, <1>2, <2>1 DEF ThreadFiles
  <2>3. \A t \in Threads : Past(t) /\ thread[t].fd = f => t \in serving
    BY DEF Past
  <2>4. \A b \in Heap : heap[b] = f => b \in waiting \/ serving # {}
    OBVIOUS
  <2> QED
    BY <2>2, <2>3, <2>4
<1>10. /\ T!Cardinality(serving) = IF serving = {} THEN 0 ELSE 1
       /\ T!Cardinality(waiting) = IF waiting = {} THEN 0 ELSE 1
  BY <1>5, <1>6, AtMostOne
<1>11. T!Cardinality(serving) + T!Cardinality(waiting) = IF file[f] = T!Free THEN 0 ELSE 1
  <2>1. serving = {} \/ waiting = {}
    BY <1>7
  <2> HIDE DEF serving, waiting
  <2> QED
    BY <1>8, <1>9, <1>10, <2>1
<1> QED
  BY <1>11

\* threadserv.c: a block of the heap passes from main to the thread that frees
\* it, and with it the connection to the thread that closes it.
THEOREM EachBlockToOneThread == ServersSpec => []HandedToOneThread
<1>1. ServersInv => HandedToOneThread
  BY BlocksHaveOwners, ConnectionsHaveThreads DEF ServersInv, HandedToOneThread
<1> QED
  BY <1>1, ServersInvariant, PTL
\* What the abstract server does, the abstract servers of the others may do:
\* they differ in who kills them and whether they may refuse.
LEMMA AbstractSteps ==
    ASSUME Echo!Next \/ UNCHANGED Echo!vars
    PROVE  /\ E!Echo!Next \/ UNCHANGED E!Echo!vars
           /\ F!Echo!Next \/ UNCHANGED F!Echo!vars
           /\ T!Echo!Next \/ UNCHANGED T!Echo!vars
<1>1. CASE UNCHANGED Echo!vars
  BY <1>1 DEF Echo!vars, E!Echo!vars, F!Echo!vars, T!Echo!vars
<1>2. CASE Echo!Fail
  <2>1. E!Echo!Fail /\ F!Echo!Fail /\ T!Echo!Fail
    BY <1>2 DEF Echo!Fail, E!Echo!Fail, F!Echo!Fail, T!Echo!Fail
  <2> QED
    BY <2>1 DEF E!Echo!Next, F!Echo!Next, T!Echo!Next
<1>3. ASSUME NEW c \in Clients, Echo!Connect(c) \/ Echo!Send(c) \/ Echo!Leave(c, "fin") \/ Echo!Leave(c, "reset")
      PROVE  E!Echo!Next /\ F!Echo!Next /\ T!Echo!Next
  BY <1>3 DEF Echo!Connect, Echo!Send, Echo!Leave, E!Echo!Connect, E!Echo!Send, E!Echo!Leave,
              F!Echo!Connect, F!Echo!Send, F!Echo!Leave, T!Echo!Connect, T!Echo!Send, T!Echo!Leave,
              E!Echo!Next, F!Echo!Next, T!Echo!Next
<1>4. ASSUME NEW c \in Clients, Echo!HangUp(c)
      PROVE  E!Echo!Next /\ F!Echo!Next /\ T!Echo!Next
  <2>1. E!Echo!HangUp(c) /\ F!Echo!HangUp(c) /\ T!Echo!HangUp(c)
    BY <1>4 DEF Echo!HangUp, E!Echo!HangUp, F!Echo!HangUp, T!Echo!HangUp
  <2> QED
    BY <2>1 DEF E!Echo!Next, F!Echo!Next, T!Echo!Next
<1>5. ASSUME NEW c \in Clients, Echo!Answer(c)
      PROVE  E!Echo!Next /\ F!Echo!Next /\ T!Echo!Next
  <2>1. E!Echo!Answer(c) /\ F!Echo!Answer(c) /\ T!Echo!Answer(c)
    BY <1>5 DEF Echo!Answer, E!Echo!Answer, F!Echo!Answer, T!Echo!Answer,
                Echo!Min, E!Echo!Min, F!Echo!Min, T!Echo!Min,
                Echo!Bytes, E!Echo!Bytes, F!Echo!Bytes, T!Echo!Bytes
  <2> QED
    BY <2>1 DEF E!Echo!Next, F!Echo!Next, T!Echo!Next
<1> QED
  BY <1>1, <1>2, <1>3, <1>4, <1>5 DEF Echo!Next

\* The steps of the clients and of the kernel, as the abstract server sees
\* them: a connection that is opened,
LEMMA ConnectAbstract ==
    ASSUME Sockets, NEW d \in Clients, Connect(d)
    PROVE  Echo!Next
<1>1. Status' = [Status EXCEPT ![d] = "open"]
  BY DEF Connect, Status, Sockets, SocketsInv
<1> QED
  BY <1>1 DEF Connect, Status, Echo!Connect, Echo!Next

\* bytes that are sent, and a client that leaves,
LEMMA ClientAbstract ==
    ASSUME NEW d \in Clients, Send(d) \/ Departs(d)
    PROVE  Echo!Next
<1>1. Status' = Status
  BY DEF Send, Departs, Status
<1> QED
  BY <1>1 DEF Send, Departs, Status, Echo!Send, Echo!Leave, Echo!Next

\* a connection that is accepted or read, which is nothing to a client,
LEMMA QuietAbstract ==
    ASSUME Sockets, UNCHANGED sockvars \/ Accept \/ \E d \in Clients : Read(d)
    PROVE  UNCHANGED Echo!vars
<1>1. link' = link /\ sent' = sent /\ got' = got
  BY DEF sockvars, Accept, Read
<1>2. Status' = Status
  <2>1. CASE Accept
    <3>1. conn[Head(backlog)] = "queued" /\ conn' = [conn EXCEPT ![Head(backlog)] = "open"]
      BY <2>1, AcceptSockets
    <3> QED
      BY <3>1 DEF Status, Sockets, SocketsInv
  <2>2. CASE UNCHANGED sockvars \/ \E d \in Clients : Read(d)
    BY <2>2 DEF sockvars, Read, Status
  <2> QED
    BY <2>1, <2>2
<1> QED
  BY <1>1, <1>2 DEF Status, Echo!vars

\* an answer,
LEMMA WriteAbstract ==
    ASSUME Sockets, NEW d \in Clients, conn[d] = "open", NEW b, Filled(d, b), Write(d, b)
    PROVE  Echo!Next \/ UNCHANGED Echo!vars
<1>1. /\ ~(b.nread >= 0 /\ link[d] = "reset") /\ got' = [got EXCEPT ![d] = b.data]
      /\ link' = link /\ sent' = sent /\ conn' = conn
  BY WriteSockets DEF Write, WriteKills
<1>2. /\ got[d] = <<>> /\ got \in [Clients -> Seq(Clients \X Nat)] /\ sent[d] \in Nat
      /\ \/ b.data = <<>>
         \/ /\ b.nread \in Nat \ {0} /\ b.nread <= BUF /\ b.nread <= sent[d]
            /\ b.data = Bytes(d, 0, b.nread)
  BY DEF Filled, Sockets, SocketsInv
<1>3. Status' = Status /\ Status[d] = "open"
  BY <1>1 DEF Status
<1>4. CASE b.data = <<>>
  BY <1>1, <1>2, <1>3, <1>4 DEF Echo!vars, Status
<1>5. CASE /\ b.nread \in Nat \ {0} /\ b.nread <= BUF /\ b.nread <= sent[d]
           /\ b.data = Bytes(d, 0, b.nread)
  <2>1. BUF \in Nat
    BY SocketConstants DEF SocketConstants
  <2>2. Echo!Min({BUF, sent[d]}) = IF BUF <= sent[d] THEN BUF ELSE sent[d]
    BY <1>2, <2>1, MinMaxOfTwo
  <2>3. b.nread \in 1 .. Echo!Min({BUF, sent[d]})
    BY <1>2, <1>5, <2>1, <2>2, SMT
  <2>4. got' = [got EXCEPT ![d] = Echo!Bytes(d, 0, b.nread)]
    BY <1>1, <1>5 DEF Bytes, Echo!Bytes
  <2>5. link[d] # "reset"
    BY <1>1, <1>5, SMT
  <2>6. Echo!Answer(d)
    BY <1>1, <1>2, <1>3, <2>3, <2>4, <2>5 DEF Echo!Answer, Status
  <2> QED
    BY <2>6 DEF Echo!Next
<1> QED
  BY <1>2, <1>4, <1>5

\* the end of a connection,
LEMMA CloseAbstract ==
    ASSUME NEW d \in Clients, conn[d] = "open", Close({d})
    PROVE  /\ Answered(d) => Echo!HangUp(d)
           /\ F!Echo!HangUp(d)
<1>1. /\ conn' = [c \in Clients |-> IF c \in {d} THEN "closed" ELSE conn[c]]
      /\ link' = link /\ sent' = sent /\ got' = got
  BY DEF Close
<1>2. Status[d] = "open" /\ Status' = [Status EXCEPT ![d] = "closed"]
  BY <1>1 DEF Status
<1> QED
  BY <1>1, <1>2 DEF Answered, Echo!HangUp, F!Echo!HangUp, Status

\* and the end of the server, by a client that left or has no name.
LEMMA ExitAbstract ==
    ASSUME Sockets, NEW d \in Clients, conn[d] = "open", Exit
    PROVE  /\ link[d] = "reset" => Echo!Fail
           /\ d \in {c3} => E!Echo!Fail
<1>1. /\ conn' = [c \in Clients |-> IF conn[c] = "none" THEN "none" ELSE "closed"]
      /\ link' = link /\ sent' = sent /\ got' = got
  BY DEF Exit
<1>2. Status' = [c \in Clients |-> IF Status[c] = "open" THEN "closed" ELSE Status[c]]
  BY <1>1 DEF Status, Sockets, SocketsInv
<1>3. link[d] # "none"
  BY DEF Sockets, SocketsInv
<1> QED
  BY <1>1, <1>2, <1>3 DEF Echo!Fail, E!Echo!Fail, Status
\* echoserver.c does what an echo server does: it serves one client at a time.
LEMMA EchoImplements ==
    ASSUME Sockets, EchoInv, E!Next
    PROVE  E!Echo!Next \/ UNCHANGED E!Echo!vars
<1>1. CASE E!Clientele
  <2>1. PICK d \in Clients : Connect(d) \/ Send(d) \/ Departs(d)
    BY <1>1 DEF E!Clientele, E!Connect, Connect, E!Client, E!Send, Send, E!Leave, Departs
  <2>2. Echo!Next
    BY <2>1, ConnectAbstract, ClientAbstract
  <2> QED
    BY <2>2, AbstractSteps
<1>2. PICK e, b : e = fd_client /\ b = buf
  OBVIOUS
<1>3. pc \in {"lookup", "write", "close"} => e \in Clients /\ conn[e] = "open"
  BY <1>2 DEF EchoInv
<1>4. CASE E!accept \/ E!gethostbyaddr
  <2>1. UNCHANGED sockvars \/ Accept
    BY <1>4 DEF E!accept, E!Accept, Accept, E!gethostbyaddr, E!sockvars, sockvars
  <2> QED
    BY <2>1, QuietAbstract, AbstractSteps
<1>5. CASE E!read
  <2>1. pc = "read" /\ E!Read(e)
    BY <1>2, <1>5 DEF E!read
  <2>2. Read(e)
    BY <2>1 DEF E!Read, Read, E!Readable, Readable, E!ReadResult, ReadResult, E!Bytes, Bytes, E!Min, Min
  <2>3. e \in Clients
    BY <1>2, <2>1 DEF EchoInv
  <2> QED
    BY <2>2, <2>3, QuietAbstract, AbstractSteps
<1>6. CASE E!NoName
  <2>1. pc = "lookup" /\ e \in {c3} /\ Exit
    BY <1>2, <1>6 DEF E!NoName, E!Exit, Exit
  <2>2. E!Echo!Fail
    BY <1>3, <2>1, ExitAbstract
  <2> QED
    BY <2>2 DEF E!Echo!Next
<1>7. CASE E!write
  <2>1. pc = "write" /\ Write(e, b)
    BY <1>2, <1>7 DEF E!write, E!Write, Write, E!WriteKills, WriteKills
  <2>2. Filled(e, b)
    BY <1>2, <2>1 DEF EchoInv
  <2> QED
    BY <1>3, <2>1, <2>2, WriteAbstract, AbstractSteps
<1>8. CASE E!SIGPIPE
  <2>1. pc = "write" /\ link[e] = "reset" /\ Exit
    BY <1>2, <1>8 DEF E!SIGPIPE, E!WriteKills, E!Exit, Exit
  <2>2. Echo!Fail
    BY <1>3, <2>1, ExitAbstract
  <2>3. Echo!Next
    BY <2>2 DEF Echo!Next
  <2> QED
    BY <2>3, AbstractSteps
<1>9. CASE E!close
  <2>1. pc = "close" /\ Close({e})
    BY <1>2, <1>9 DEF E!close, E!Close, Close
  <2>2. Answered(e)
    BY <1>2, <2>1 DEF EchoInv
  <2>3. Echo!Next
    BY <1>3, <2>1, <2>2, CloseAbstract DEF Echo!Next
  <2> QED
    BY <2>3, AbstractSteps
<1> QED
  BY <1>1, <1>4, <1>5, <1>6, <1>7, <1>8, <1>9 DEF E!Next, E!Server

\* multiprocserv.c: who lets go of a connection that was accepted may hang it
\* up with that.
LEMMA ReleaseImplements ==
    ASSUME Sockets, NEW p \in F!Procs, NEW d \in Clients, NEW fs, fs \cap Clients \subseteq {d},
           d \in fs => conn[d] = "open", F!Release(p, fs)
    PROVE  F!Echo!Next \/ UNCHANGED F!Echo!vars
<1>1. PICK cs : cs = {c \in fs \cap Clients : \A q \in F!Procs : c \notin files'[q]}
  OBVIOUS
<1>2. Close(cs)
  BY <1>1 DEF F!Release, F!Close, Close
<1>3. cs = {} \/ (cs = {d} /\ conn[d] = "open")
  BY <1>1
<1>4. CASE cs = {}
  <2>1. UNCHANGED sockvars
    BY <1>2, <1>4 DEF Close, sockvars, Sockets, SocketsInv
  <2> QED
    BY <2>1, QuietAbstract, AbstractSteps
<1>5. CASE cs = {d} /\ conn[d] = "open"
  <2>1. F!Echo!HangUp(d)
    BY <1>2, <1>5, CloseAbstract
  <2> QED
    BY <2>1 DEF F!Echo!Next
<1> QED
  BY <1>3, <1>4, <1>5

\* multiprocserv.c does what an echo server that may be out of processes does.
LEMMA ForkImplements ==
    ASSUME Sockets, ForkInv, F!Next
    PROVE  F!Echo!Next \/ UNCHANGED F!Echo!vars
<1>1. CASE F!Clientele
  <2>1. PICK d \in Clients : Connect(d) \/ Send(d) \/ Departs(d)
    BY <1>1 DEF F!Clientele, F!Connect, Connect, F!Client, F!Send, Send, F!Leave, Departs
  <2>2. Echo!Next
    BY <2>1, ConnectAbstract, ClientAbstract
  <2> QED
    BY <2>2, AbstractSteps
<1>2. CASE F!accept \/ F!fork \/ F!ForkFails \/ F!Deliver \/ F!waitpid \/ F!WaitpidNone
  <2>1. UNCHANGED sockvars \/ Accept
    BY <1>2 DEF F!accept, F!Accept, Accept, F!fork, F!ForkFails, F!Deliver, F!waitpid, F!WaitpidNone,
                F!sockvars, sockvars
  <2> QED
    BY <2>1, QuietAbstract, AbstractSteps
<1>3. CASE F!close
  <2>1. PICK e : e = fd_client
    OBVIOUS
  <2>2. pc = "close" /\ F!Release(F!parent, {e})
    BY <1>3, <2>1 DEF F!close
  <2>3. e \in Clients /\ conn[e] = "open" /\ F!parent \in F!Procs
    BY <2>1, <2>2 DEF ForkInv, ForkHand, F!Procs
  <2> QED
    BY <2>2, <2>3, ReleaseImplements
<1>4. ASSUME NEW d \in Clients, F!Child(d)
      PROVE  F!Echo!Next \/ UNCHANGED F!Echo!vars
  <2>1. PICK s, b : s = child[d] /\ b = buf[d]
    OBVIOUS
  <2>2. Progress(d, s, b) /\ d \in F!Procs /\ d # Listener
    BY <2>1, OtherNames DEF ForkInv, ForkAnswers, F!Procs
  <2>3. CASE F!ChildRead(d)
    <3>1. F!Read(d)
      BY <2>3 DEF F!ChildRead
    <3>2. Read(d)
      BY <3>1 DEF F!Read, Read, F!Readable, Readable, F!ReadResult, ReadResult, F!Bytes, Bytes, F!Min, Min
    <3> QED
      BY <3>2, QuietAbstract, AbstractSteps
  <2>4. CASE F!ChildWrite(d)
    <3>1. s = "write" /\ Write(d, b)
      BY <2>1, <2>4 DEF F!ChildWrite, F!Write, Write, F!WriteKills, WriteKills
    <3>2. Filled(d, b) /\ conn[d] = "open"
      BY <2>2, <3>1 DEF Progress
    <3> QED
      BY <3>1, <3>2, WriteAbstract, AbstractSteps
  <2>5. CASE F!ChildStart(d)
    <3>1. F!Release(d, {Listener}) /\ {Listener} \cap Clients = {}
      BY <2>5, OtherNames DEF F!ChildStart, F!Listener, Listener
    <3> QED
      BY <2>2, <3>1, ReleaseImplements
  <2>6. CASE F!ChildClose(d)
    <3>1. F!Release(d, {d}) /\ s = "close"
      BY <2>1, <2>6 DEF F!ChildClose
    <3>2. conn[d] = "open"
      BY <2>2, <3>1 DEF Progress
    <3> QED
      BY <2>2, <3>1, <3>2, ReleaseImplements
  <2>7. CASE F!ChildEnds(d)
    <3>1. PICK fs : fs = files[d]
      OBVIOUS
    <3>2. F!Release(d, fs) /\ s \in {"exit", "write"}
      BY <2>1, <2>7, <3>1 DEF F!ChildEnds
    <3>3. fs \cap Clients \subseteq {d} /\ (d \in fs => s = "write")
      BY <2>1, <2>2, <3>1, <3>2, OtherNames DEF ForkInv, ForkFiles
    <3>4. d \in fs => conn[d] = "open"
      BY <2>2, <3>3 DEF Progress
    <3> QED
      BY <2>2, <3>2, <3>3, <3>4, ReleaseImplements
  <2> QED
    BY <1>4, <2>3, <2>4, <2>5, <2>6, <2>7 DEF F!Child
<1> QED
  BY <1>1, <1>2, <1>3, <1>4 DEF F!Next, F!Parent

\* threadserv.c does what an echo server does.
LEMMA ThreadImplements ==
    ASSUME Sockets, ThreadInv, T!Next
    PROVE  T!Echo!Next \/ UNCHANGED T!Echo!vars
<1>1. CASE T!Clientele
  <2>1. PICK d \in Clients : Connect(d) \/ Send(d) \/ Departs(d)
    BY <1>1 DEF T!Clientele, T!Connect, Connect, T!Client, T!Send, Send, T!Leave, Departs
  <2>2. Echo!Next
    BY <2>1, ConnectAbstract, ClientAbstract
  <2> QED
    BY <2>2, AbstractSteps
<1>2. CASE T!Main
  <2>1. UNCHANGED sockvars \/ Accept
    BY <1>2 DEF T!Main, T!malloc, T!accept, T!Accept, Accept, T!pthread_create, T!CreateFails, T!sockvars, sockvars
  <2> QED
    BY <2>1, QuietAbstract, AbstractSteps
<1>3. ASSUME NEW t \in Threads, T!Thread(t)
      PROVE  Echo!Next \/ UNCHANGED Echo!vars
  <2>1. PICK d, b : d = file[thread[t].fd] /\ b = thread[t].buf
    OBVIOUS
  <2>2. CASE T!start(t) \/ T!free(t)
    BY <2>2, QuietAbstract DEF T!start, T!free, T!sockvars, sockvars
  <2>3. ASSUME thread[t].pc \in {"read", "write", "close"}
        PROVE  /\ d \in Clients /\ conn[d] = "open"
               /\ thread[t].pc = "write" => Filled(d, b)
               /\ thread[t].pc = "close" => Answered(d)
    <3>1. ThreadFiles /\ ThreadAnswers
      BY <2>3, ThreadAlive
    <3> QED
      BY <2>1, <2>3, <3>1 DEF ThreadFiles, ThreadAnswers, Past
  <2>4. CASE T!read(t)
    <3>1. thread[t].pc = "read" /\ T!Read(d)
      BY <2>1, <2>4 DEF T!read, T!Conn
    <3>2. Read(d)
      BY <3>1 DEF T!Read, Read, T!Readable, Readable, T!ReadResult, ReadResult, T!Bytes, Bytes, T!Min, Min
    <3> QED
      BY <2>3, <3>1, <3>2, QuietAbstract
  <2>5. CASE T!write(t)
    <3>1. thread[t].pc = "write" /\ T!Write(d, b)
      BY <2>1, <2>5 DEF T!write, T!Conn
    <3>2. Write(d, b)
      BY <3>1 DEF T!Write, Write, T!WriteKills, WriteKills
    <3> QED
      BY <2>3, <3>1, <3>2, WriteAbstract
  <2>6. CASE T!SIGPIPE(t)
    <3>1. thread[t].pc = "write" /\ link[d] = "reset" /\ Exit
      BY <2>1, <2>6 DEF T!SIGPIPE, T!Conn, T!WriteKills, T!Exit, Exit
    <3>2. Echo!Fail
      BY <2>3, <3>1, ExitAbstract
    <3> QED
      BY <3>2 DEF Echo!Next
  <2>7. CASE T!close(t)
    <3>1. thread[t].pc = "close" /\ Close({d})
      BY <2>1, <2>7 DEF T!close, T!Conn, T!Close, Close
    <3>2. Echo!HangUp(d)
      BY <2>3, <3>1, CloseAbstract
    <3> QED
      BY <2>3, <3>1, <3>2 DEF Echo!Next
  <2> QED
    BY <1>3, <2>2, <2>4, <2>5, <2>6, <2>7 DEF T!Thread
<1> QED
  BY <1>1, <1>2, <1>3, AbstractSteps DEF T!Next

\* The four servers answer as an echo server does, whichever is started: each
\* client is answered once, with its own first bytes, and then hung up.
THEOREM AllServersImplementEcho == ServersSpec => AllImplementEcho
<1>1. ServersInit => /\ which = "echo" => E!Echo!Init
                     /\ which = "select" => Echo!Init
                     /\ which = "fork" => F!Echo!Init
                     /\ which = "thread" => T!Echo!Init
  BY DEF ServersInit, E!Init, E!SockInit, Init, SockInit, F!Init, F!SockInit, T!Init, T!SockInit,
         E!Echo!Init, Echo!Init, F!Echo!Init, T!Echo!Init
<1>2. ServersInv /\ [ServersNext]_allvars =>
        [/\ which = "echo" => [E!Echo!Next]_(E!Echo!vars)
         /\ which = "select" => [Echo!Next]_(Echo!vars)
         /\ which = "fork" => [F!Echo!Next]_(F!Echo!vars)
         /\ which = "thread" => [T!Echo!Next]_(T!Echo!vars)]_allvars
  <2> SUFFICES ASSUME ServersInv, ServersNext
               PROVE  /\ which = "echo" => E!Echo!Next \/ UNCHANGED E!Echo!vars
                      /\ which = "select" => Echo!Next \/ UNCHANGED Echo!vars
                      /\ which = "fork" => F!Echo!Next \/ UNCHANGED F!Echo!vars
                      /\ which = "thread" => T!Echo!Next \/ UNCHANGED T!Echo!vars
    OBVIOUS
  <2>1. CASE EchoOnly /\ E!Next
    <3>1. which = "echo" /\ Sockets /\ EchoInv
      BY <2>1 DEF EchoOnly, ServersInv
    <3> QED
      BY <2>1, <3>1, EchoImplements
  <2>2. CASE SelectOnly /\ Next
    <3>1. which = "select" /\ SelectInv
      BY <2>2 DEF SelectOnly, ServersInv
    <3> QED
      BY <2>2, <3>1, SelectStepImplements
  <2>3. CASE ForkOnly /\ F!Next
    <3>1. which = "fork" /\ Sockets /\ ForkInv
      BY <2>3 DEF ForkOnly, ServersInv
    <3> QED
      BY <2>3, <3>1, ForkImplements
  <2>4. CASE ThreadOnly /\ T!Next
    <3>1. which = "thread" /\ Sockets /\ ThreadInv
      BY <2>4 DEF ThreadOnly, ServersInv
    <3> QED
      BY <2>4, <3>1, ThreadImplements
  <2> QED
    BY <2>1, <2>2, <2>3, <2>4 DEF ServersNext
<1> QED
  BY <1>1, <1>2, ServersInvariant, PTL DEF ServersSpec, AllImplementEcho

==============================================================================
