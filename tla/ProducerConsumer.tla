-------------------------- MODULE ProducerConsumer ---------------------------
(***************************************************************************)
(* cs351/examples/threads/p_c.c: one producer and several consumers share  *)
(* a ring buffer.  Consumers wait on the condition variable not_empty; the *)
(* producer spins on count without the mutex, and signals after unlocking. *)
(***************************************************************************)
EXTENDS Integers, FiniteSets

CONSTANTS BUFFER_SIZE,   \* 10 in the code
          Consumers,     \* the consumer threads: two in main
          Producer,      \* the producer thread
          Nobody,        \* holder of a free mutex
          INT_MOD,       \* number of values of an int: item++ comes round
          MayHoist,      \* the compiler may read count once in the spin loop
          Spurious       \* pthread_cond_wait may return without a signal

ASSUME PCConstants ==
    /\ BUFFER_SIZE \in Nat \ {0}
    /\ Consumers # {} /\ Producer \notin Consumers
    /\ Nobody \notin Consumers \cup {Producer}
    /\ INT_MOD \in Nat /\ BUFFER_SIZE < INT_MOD
    /\ MayHoist \in BOOLEAN /\ Spurious \in BOOLEAN

VARIABLES in, out, count, buffer,
          mtx,        \* who holds the mutex
          waiting,    \* the consumers inside pthread_cond_wait
          pc,         \* the next statement of each thread
          item,       \* the producer's local: next item to produce
          expected    \* history: the item that was produced first of those
                      \* not yet consumed

vars == <<in, out, count, buffer, mtx, waiting, pc, item, expected>>

Threads == Consumers \cup {Producer}

\* The slot after x of the ring, and the int after x.
Succ(x) == (x + 1) % BUFFER_SIZE
NextInt(x) == (x + 1) % INT_MOD

Init ==
    /\ in = 0 /\ out = 0 /\ count = 0
    /\ buffer = [s \in 0 .. BUFFER_SIZE - 1 |-> -1]
    /\ mtx = Nobody
    /\ waiting = {}
    /\ pc = [t \in Threads |-> IF t = Producer THEN "spin" ELSE "lock"]
    /\ item = 0 /\ expected = 0

Goto(t, l) == pc' = [pc EXCEPT ![t] = l]

\* pthread_mutex_lock and pthread_mutex_unlock
Lock(t, l) == mtx = Nobody /\ mtx' = t /\ Goto(t, l)
Unlock(t, l) == mtx' = Nobody /\ Goto(t, l)

-----------------------------------------------------------------------------
(* producer_thread_fn *)

\* Variant: the loop lets one item too many through.
Bug_Spin_bound ==
    /\ pc[Producer] = "spin"
    /\ count # BUFFER_SIZE + 1
    /\ Goto(Producer, "lock")
    /\ UNCHANGED <<in, out, count, buffer, mtx, waiting, item, expected>>

\* Leaves the loop "while (count == BUFFER_SIZE)", which takes no mutex.
Spin ==
    /\ pc[Producer] = "spin"
    /\ count # BUFFER_SIZE
    /\ Goto(Producer, "lock")
    /\ UNCHANGED <<in, out, count, buffer, mtx, waiting, item, expected>>

\* count is a plain int read outside the mutex: a compiler may read it once.
SpinForever ==
    /\ MayHoist
    /\ pc[Producer] = "spin"
    /\ count = BUFFER_SIZE
    /\ Goto(Producer, "hung")
    /\ UNCHANGED <<in, out, count, buffer, mtx, waiting, item, expected>>

ProducerLock ==
    /\ pc[Producer] = "lock"
    /\ Lock(Producer, "put")
    /\ UNCHANGED <<in, out, count, buffer, waiting, item, expected>>

\* Variant: in is advanced before the item is stored.
Bug_Put_order ==
    /\ pc[Producer] = "put"
    /\ buffer' = [buffer EXCEPT ![Succ(in)] = item]
    /\ item' = NextInt(item)
    /\ in' = Succ(in)
    /\ count' = count + 1
    /\ Goto(Producer, "unlock")
    /\ UNCHANGED <<out, mtx, waiting, expected>>

Put ==
    /\ pc[Producer] = "put"
    /\ buffer' = [buffer EXCEPT ![in] = item]
    /\ item' = NextInt(item)
    /\ in' = Succ(in)
    /\ count' = count + 1
    /\ Goto(Producer, "unlock")
    /\ UNCHANGED <<out, mtx, waiting, expected>>

\* Variant: no signal after the unlock.
Bug_ProducerUnlock_silent ==
    /\ pc[Producer] = "unlock"
    /\ Unlock(Producer, "spin")
    /\ UNCHANGED <<in, out, count, buffer, waiting, item, expected>>

ProducerUnlock ==
    /\ pc[Producer] = "unlock"
    /\ Unlock(Producer, "signal")
    /\ UNCHANGED <<in, out, count, buffer, waiting, item, expected>>

\* pthread_cond_signal after the unlock: one waiting consumer, if any, wakes.
Signal ==
    /\ pc[Producer] = "signal"
    /\ \/ /\ waiting = {}
          /\ Goto(Producer, "spin")
          /\ UNCHANGED waiting
       \/ \E c \in waiting :
          /\ waiting' = waiting \ {c}
          /\ pc' = [pc EXCEPT ![Producer] = "spin", ![c] = "relock"]
    /\ UNCHANGED <<in, out, count, buffer, mtx, item, expected>>

-----------------------------------------------------------------------------
(* consumer_thread_fn *)

\* The first lock, and the lock pthread_cond_wait takes again when it returns.
ConsumerLock(c) ==
    /\ pc[c] \in {"lock", "relock"}
    /\ Lock(c, "test")
    /\ UNCHANGED <<in, out, count, buffer, waiting, item, expected>>

\* Variant: a consumer leaves the last item.
Bug_Empty_one == count <= 1

Empty == count = 0

\* Variant: the consumer polls.
Bug_Wait_poll(c) ==
    /\ pc[c] = "test"
    /\ Empty
    /\ Unlock(c, "lock")
    /\ UNCHANGED <<in, out, count, buffer, waiting, item, expected>>

\* pthread_cond_wait releases the mutex and waits in one step.
Wait(c) ==
    /\ pc[c] = "test"
    /\ Empty
    /\ waiting' = waiting \cup {c}
    /\ Unlock(c, "waiting")
    /\ UNCHANGED <<in, out, count, buffer, item, expected>>

WakeUnsignalled(c) ==
    /\ Spurious
    /\ c \in waiting
    /\ waiting' = waiting \ {c}
    /\ Goto(c, "relock")
    /\ UNCHANGED <<in, out, count, buffer, mtx, item, expected>>

Take(c) ==
    /\ pc[c] = "test"
    /\ ~Empty
    /\ out' = Succ(out)
    /\ count' = count - 1
    /\ expected' = NextInt(expected)
    /\ Goto(c, "unlock")
    /\ UNCHANGED <<in, buffer, mtx, waiting, item>>

ConsumerUnlock(c) ==
    /\ pc[c] = "unlock"
    /\ Unlock(c, "lock")
    /\ UNCHANGED <<in, out, count, buffer, waiting, item, expected>>

ProducerStep == Spin \/ SpinForever \/ ProducerLock \/ Put \/ ProducerUnlock \/ Signal
ConsumerStep(c) == ConsumerLock(c) \/ Wait(c) \/ Take(c) \/ ConsumerUnlock(c)

Next ==
    \/ ProducerStep
    \/ \E c \in Consumers : ConsumerStep(c) \/ WakeUnsignalled(c)

Spec == Init /\ [][Next]_vars

\* Threads are scheduled; nothing is assumed of who gets a contended mutex.
FairSpec == Spec /\ WF_vars(ProducerStep)
                 /\ \A c \in Consumers : WF_vars(ConsumerStep(c))

-----------------------------------------------------------------------------
(* Properties *)

\* Types of p_c.c's globals and of each thread's position.
TypeOK ==
    /\ in \in 0 .. BUFFER_SIZE - 1 /\ out \in 0 .. BUFFER_SIZE - 1
    /\ count \in 0 .. BUFFER_SIZE
    /\ buffer \in [0 .. BUFFER_SIZE - 1 -> -1 .. INT_MOD - 1]
    /\ mtx \in Threads \cup {Nobody}
    /\ waiting \subseteq Consumers
    /\ pc \in [Threads -> {"spin", "hung", "lock", "put", "unlock", "signal",
                           "relock", "test", "waiting"}]
    /\ item \in 0 .. INT_MOD - 1 /\ expected \in 0 .. INT_MOD - 1

\* Exactly the thread inside its critical section holds the mutex.
InSection(t) ==
    IF t = Producer THEN pc[t] \in {"put", "unlock"} ELSE pc[t] \in {"test", "unlock"}
MutexHeld == \A t \in Threads : InSection(t) <=> mtx = t

\* Each thread is at a statement of its own function, and a consumer waits
\* exactly while it is inside pthread_cond_wait.
Positions ==
    /\ pc[Producer] \in {"spin", "hung", "lock", "put", "unlock", "signal"}
    /\ \A c \in Consumers :
        /\ pc[c] \in {"lock", "relock", "test", "unlock", "waiting"}
        /\ pc[c] = "waiting" <=> c \in waiting

\* The producer tests count without the mutex, yet never writes to a full
\* buffer: between its test and its put only consumers change count.
NoOverflow == pc[Producer] \in {"lock", "put"} => count < BUFFER_SIZE

\* x + k in a ring of n values, for x < n and k <= n.
Around(x, k, n) == IF x + k < n THEN x + k ELSE x + k - n

\* The count slots from out on hold the items not yet consumed, oldest first,
\* and in is the slot after them: items leave in the order they entered, none
\* is lost and none is read twice.
FIFO ==
    /\ in = Around(out, count, BUFFER_SIZE)
    /\ item = Around(expected, count, INT_MOD)
    /\ \A k \in 0 .. count - 1 :
         buffer[Around(out, k, BUFFER_SIZE)] = Around(expected, k, INT_MOD)

\* The signal is sent after the unlock, without the mutex: still, items never
\* sit in the buffer with every consumer asleep, unless a signal is coming.
NoLostWakeup ==
    count > 0 /\ waiting = Consumers => pc[Producer] \in {"unlock", "signal"}

PCInv == TypeOK /\ MutexHeld /\ Positions /\ NoOverflow /\ FIFO /\ NoLostWakeup

\* Every item that enters the buffer is consumed.
ItemsConsumed ==
    \A v \in 0 .. INT_MOD - 1 : (count > 0 /\ expected = v) ~> (expected # v)

\* The producer always comes to put again, unless its compiler reads count once
\* or consumers wake without a signal again and again, and take the mutex.
ProducerPutsForever ==
    \/ []<>(pc[Producer] = "put")
    \/ <>(pc[Producer] = "hung")
    \/ []<><<\E c \in Consumers : WakeUnsignalled(c)>>_vars

\* Neither side waits for ever for the other.
KeepsGoing == ItemsConsumed /\ ProducerPutsForever

=============================================================================
