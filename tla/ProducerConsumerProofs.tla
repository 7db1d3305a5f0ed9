----------------------- MODULE ProducerConsumerProofs ------------------------
(* p_c.c: its invariants for every ring, every number of consumers, every    *)
(* width of int, with and without spurious wakeups.                          *)
EXTENDS ProducerConsumer, TLAPS

\* The remainders that p_c.c computes: the next slot and the next int come
\* round at the end of their range.
LEMMA RoundFacts ==
    ASSUME NEW n \in Nat \ {0}, NEW x \in 0 .. n - 1
    PROVE  (x + 1) % n = Around(x, 1, n)
<1>1. CASE x + 1 < n
  BY <1>1, SMT DEF Around
<1>2. CASE x + 1 = n
  BY <1>2, SMT DEF Around
<1> QED
  BY <1>1, <1>2, SMT

\* Going on by one from x + k in a ring of n is going on by k + 1 from x, and by
\* k from the one after x.
LEMMA AroundFacts ==
    ASSUME NEW n \in Nat \ {0}, NEW x \in 0 .. n - 1, NEW k \in 0 .. n - 1
    PROVE  /\ Around(x, k, n) \in 0 .. n - 1
           /\ Around(Around(x, k, n), 1, n) = Around(x, k + 1, n)
           /\ Around(Around(x, 1, n), k, n) = Around(x, k + 1, n)
           /\ Around(x, 0, n) = x
           /\ \A j \in 0 .. n - 1 : Around(x, j, n) = Around(x, k, n) => j = k
BY SMT DEF Around

\* The ring and the ints of p_c.c as ranges.
LEMMA Ranges ==
    ASSUME TypeOK
    PROVE  /\ BUFFER_SIZE \in Nat \ {0} /\ INT_MOD \in Nat \ {0} /\ BUFFER_SIZE < INT_MOD
           /\ in \in 0 .. BUFFER_SIZE - 1 /\ out \in 0 .. BUFFER_SIZE - 1
           /\ count \in 0 .. BUFFER_SIZE
           /\ item \in 0 .. INT_MOD - 1 /\ expected \in 0 .. INT_MOD - 1
           /\ Succ(in) = Around(in, 1, BUFFER_SIZE) /\ Succ(in) \in 0 .. BUFFER_SIZE - 1
           /\ Succ(out) = Around(out, 1, BUFFER_SIZE) /\ Succ(out) \in 0 .. BUFFER_SIZE - 1
           /\ NextInt(item) = Around(item, 1, INT_MOD) /\ NextInt(item) \in 0 .. INT_MOD - 1
           /\ NextInt(expected) = Around(expected, 1, INT_MOD)
           /\ NextInt(expected) \in 0 .. INT_MOD - 1
<1>1. /\ BUFFER_SIZE \in Nat \ {0} /\ INT_MOD \in Nat \ {0} /\ BUFFER_SIZE < INT_MOD
      /\ in \in 0 .. BUFFER_SIZE - 1 /\ out \in 0 .. BUFFER_SIZE - 1
      /\ count \in 0 .. BUFFER_SIZE
      /\ item \in 0 .. INT_MOD - 1 /\ expected \in 0 .. INT_MOD - 1
  BY PCConstants, SMT DEF TypeOK, PCConstants
<1>2. /\ Succ(in) = Around(in, 1, BUFFER_SIZE) /\ Succ(out) = Around(out, 1, BUFFER_SIZE)
      /\ NextInt(item) = Around(item, 1, INT_MOD)
      /\ NextInt(expected) = Around(expected, 1, INT_MOD)
  BY <1>1, RoundFacts DEF Succ, NextInt
<1>3. ASSUME NEW n \in Nat \ {0}, NEW x \in 0 .. n - 1
      PROVE  Around(x, 1, n) \in 0 .. n - 1
  BY SMT DEF Around
<1> QED
  BY <1>1, <1>2, <1>3

\* What is known of a thread that is at a statement of its own.
LEMMA ThreadFacts ==
    ASSUME PCInv
    PROVE  /\ Producer \in Threads /\ Producer \notin Consumers /\ Consumers \subseteq Threads
           /\ Nobody \notin Threads /\ Consumers # {}
           /\ DOMAIN pc = Threads
           /\ \A t, u \in Threads : InSection(t) /\ InSection(u) => t = u
           /\ mtx = Nobody => \A t \in Threads : ~InSection(t)
BY PCConstants, SMT DEF PCInv, TypeOK, MutexHeld, Threads, PCConstants

\* main starts the threads with an empty ring.
LEMMA PCInit == Init => PCInv
<1> SUFFICES ASSUME Init PROVE PCInv
  OBVIOUS
<1>1. TypeOK
  BY PCConstants, SMT DEF Init, TypeOK, PCConstants, Threads
<1>2. MutexHeld /\ Positions
  BY PCConstants, SMT DEF Init, MutexHeld, Positions, InSection, PCConstants, Threads
<1>3. NoOverflow /\ NoLostWakeup
  BY PCConstants, SMT DEF Init, NoOverflow, NoLostWakeup, PCConstants, Threads
<1>4. FIFO
  BY PCConstants, SMT DEF Init, FIFO, Around, PCConstants
<1> QED
  BY <1>1, <1>2, <1>3, <1>4 DEF PCInv

\* A step that leaves the ring and its history alone keeps the order of the
\* items.
LEMMA SameRing ==
    ASSUME FIFO, UNCHANGED <<in, out, count, buffer, item, expected>>
    PROVE  FIFO'
BY DEF FIFO

\* The producer leaves its loop: there is room, and there will be until it puts,
\* for only consumers change count in between.
LEMMA SpinInv == PCInv /\ (Spin \/ SpinForever) => PCInv'
<1> SUFFICES ASSUME PCInv, Spin \/ SpinForever PROVE PCInv'
  OBVIOUS
<1> USE ThreadFacts
<1>1. TypeOK' /\ FIFO'
  BY SameRing, SMT DEF PCInv, TypeOK, Spin, SpinForever, Goto
<1>2. MutexHeld'
  BY SMT DEF PCInv, TypeOK, MutexHeld, InSection, Spin, SpinForever, Goto
<1>3. Positions'
  BY SMT DEF PCInv, TypeOK, Positions, Spin, SpinForever, Goto
<1>4. NoOverflow' 
  BY Ranges, SMT DEF PCInv, NoOverflow, Spin, SpinForever, Goto
<1>5. NoLostWakeup'
  BY SMT DEF PCInv, NoLostWakeup, Spin, SpinForever, Goto
<1> QED
  BY <1>1, <1>2, <1>3, <1>4, <1>5 DEF PCInv

\* Whoever takes the free mutex is then the only one in its section.
LEMMA LockInv ==
    PCInv /\ (ProducerLock \/ \E c \in Consumers : ConsumerLock(c)) => PCInv'
<1> SUFFICES ASSUME PCInv, NEW t \in Threads,
                    \/ t = Producer /\ ProducerLock
                    \/ t \in Consumers /\ ConsumerLock(t)
             PROVE  PCInv'
  BY DEF Threads
<1> USE ThreadFacts
<1>1. TypeOK' /\ FIFO'
  BY SameRing, SMT DEF PCInv, TypeOK, ProducerLock, ConsumerLock, Lock, Goto, Threads
<1>2. MutexHeld'
  BY SMT DEF PCInv, TypeOK, MutexHeld, InSection, ProducerLock, ConsumerLock, Lock, Goto
<1>3. Positions'
  BY SMT DEF PCInv, TypeOK, Positions, ProducerLock, ConsumerLock, Lock, Goto
<1>4. NoOverflow' /\ NoLostWakeup'
  BY SMT DEF PCInv, NoOverflow, NoLostWakeup, ProducerLock, ConsumerLock, Lock, Goto
<1> QED
  BY <1>1, <1>2, <1>3, <1>4 DEF PCInv

\* The new item goes behind the ones in the ring, into a slot that none uses.
LEMMA PutInv == PCInv /\ Put => PCInv'
<1> SUFFICES ASSUME PCInv, Put PROVE PCInv'
  OBVIOUS
<1> USE ThreadFacts
<1>1. /\ TypeOK /\ count < BUFFER_SIZE /\ count' = count + 1
      /\ in' = Succ(in) /\ item' = NextInt(item)
      /\ buffer' = [buffer EXCEPT ![in] = item]
      /\ UNCHANGED <<out, mtx, waiting, expected>>
  BY DEF PCInv, NoOverflow, Put
<1>2. TypeOK'
  <2>1. in' \in 0 .. BUFFER_SIZE - 1 /\ item' \in 0 .. INT_MOD - 1
    BY <1>1, Ranges DEF TypeOK
  <2>2. count' \in 0 .. BUFFER_SIZE
    BY <1>1, Ranges DEF TypeOK
  <2>3. item \in -1 .. INT_MOD - 1
    BY <1>1, Ranges DEF TypeOK
  <2>4. buffer' \in [0 .. BUFFER_SIZE - 1 -> -1 .. INT_MOD - 1]
    BY <1>1, <2>3 DEF TypeOK
  <2>5. pc' = [pc EXCEPT ![Producer] = "unlock"]
    BY DEF Put, Goto
  <2> QED
    BY <1>1, <2>1, <2>2, <2>4, <2>5 DEF TypeOK
<1>3. MutexHeld'
  BY SMT DEF PCInv, TypeOK, MutexHeld, InSection, Put, Goto
<1>4. Positions'
  BY SMT DEF PCInv, TypeOK, Positions, Put, Goto
<1>5. NoOverflow' /\ NoLostWakeup'
  BY SMT DEF NoOverflow, NoLostWakeup, Put, Goto
<1>6. FIFO'
  <2>1. in' = Around(out, count + 1, BUFFER_SIZE)
    BY <1>1, Ranges, AroundFacts, SMT DEF PCInv, FIFO
  <2>2. item' = Around(expected, count + 1, INT_MOD)
    BY <1>1, Ranges, AroundFacts, SMT DEF PCInv, FIFO
  <2>3. ASSUME NEW k \in 0 .. count
        PROVE  buffer'[Around(out, k, BUFFER_SIZE)] = Around(expected, k, INT_MOD)
    <3>0. k \in 0 .. BUFFER_SIZE - 1 /\ count \in 0 .. BUFFER_SIZE - 1
      BY <1>1, Ranges, SMT
    <3>1. Around(out, k, BUFFER_SIZE) \in DOMAIN buffer
      BY <1>1, <3>0, Ranges, AroundFacts DEF TypeOK
    <3>2. CASE k = count
      BY <1>1, <3>1, <3>2 DEF PCInv, FIFO
    <3>3. CASE k # count
      <4>1. Around(out, k, BUFFER_SIZE) # in
        BY <1>1, <3>0, <3>3, Ranges, AroundFacts DEF PCInv, FIFO
      <4>2. k \in 0 .. count - 1
        BY <3>3, Ranges, SMT DEF PCInv
      <4> QED
        BY <1>1, <3>1, <4>1, <4>2 DEF PCInv, FIFO
    <3> QED
      BY <3>2, <3>3
  <2>4. 0 .. count' - 1 = 0 .. count
    BY <1>1, Ranges, SMT
  <2> QED
    BY <1>1, <2>1, <2>2, <2>3, <2>4 DEF FIFO
<1> QED
  BY <1>2, <1>3, <1>4, <1>5, <1>6 DEF PCInv

\* Who unlocks leaves its section; the producer goes on to signal.
LEMMA UnlockInv ==
    PCInv /\ (ProducerUnlock \/ \E c \in Consumers : ConsumerUnlock(c)) => PCInv'
<1> SUFFICES ASSUME PCInv, NEW t \in Threads,
                    \/ t = Producer /\ ProducerUnlock
                    \/ t \in Consumers /\ ConsumerUnlock(t)
             PROVE  PCInv'
  BY DEF Threads
<1> USE ThreadFacts
<1>1. TypeOK' /\ FIFO'
  BY SameRing, SMT DEF PCInv, TypeOK, ProducerUnlock, ConsumerUnlock, Unlock, Goto
<1>2. MutexHeld'
  BY SMT DEF PCInv, TypeOK, MutexHeld, InSection, ProducerUnlock, ConsumerUnlock, Unlock, Goto
<1>3. Positions'
  BY SMT DEF PCInv, TypeOK, Positions, ProducerUnlock, ConsumerUnlock, Unlock, Goto
<1>4. NoOverflow' /\ NoLostWakeup'
  BY SMT DEF PCInv, NoOverflow, NoLostWakeup, ProducerUnlock, ConsumerUnlock, Unlock, Goto
<1> QED
  BY <1>1, <1>2, <1>3, <1>4 DEF PCInv

\* A consumer that the signal or nothing at all wakes is awake: after the signal
\* not every consumer waits.
LEMMA WakeInv ==
    PCInv /\ (Signal \/ \E c \in Consumers : WakeUnsignalled(c)) => PCInv'
<1> SUFFICES ASSUME PCInv, Signal \/ \E c \in Consumers : WakeUnsignalled(c) PROVE PCInv'
  OBVIOUS
<1> USE ThreadFacts
<1>0. waiting \subseteq Consumers
  BY DEF PCInv, TypeOK
<1>1. TypeOK' /\ FIFO'
  BY SameRing, SMT DEF PCInv, TypeOK, Signal, WakeUnsignalled, Goto
<1>2. MutexHeld'
  BY <1>0, SMT DEF PCInv, TypeOK, MutexHeld, Positions, InSection, Signal, WakeUnsignalled, Goto
<1>3. Positions'
  BY <1>0, SMT DEF PCInv, TypeOK, Positions, Signal, WakeUnsignalled, Goto
<1>4. NoOverflow'
  BY <1>0, SMT DEF PCInv, NoOverflow, Signal, WakeUnsignalled, Goto
<1>5. NoLostWakeup'
  BY <1>0, SMT DEF PCInv, NoLostWakeup, Signal, WakeUnsignalled, Goto
<1> QED
  BY <1>1, <1>2, <1>3, <1>4, <1>5 DEF PCInv

\* A consumer goes to sleep only on an empty ring, with the mutex in hand.
LEMMA WaitInv == ASSUME NEW c \in Consumers PROVE PCInv /\ Wait(c) => PCInv'
<1> SUFFICES ASSUME PCInv, Wait(c) PROVE PCInv'
  OBVIOUS
<1> USE ThreadFacts
<1>1. TypeOK' /\ FIFO'
  BY SameRing, SMT DEF PCInv, TypeOK, Wait, Unlock, Goto
<1>2. MutexHeld'
  BY SMT DEF PCInv, TypeOK, MutexHeld, InSection, Wait, Unlock, Goto
<1>3. Positions'
  BY SMT DEF PCInv, TypeOK, Positions, Wait, Unlock, Goto
<1>4. NoOverflow' /\ NoLostWakeup'
  BY SMT DEF PCInv, NoOverflow, NoLostWakeup, Wait, Empty, Unlock, Goto
<1> QED
  BY <1>1, <1>2, <1>3, <1>4 DEF PCInv

\* A consumer takes the oldest item: the rest keep their order.
LEMMA TakeInv == ASSUME NEW c \in Consumers PROVE PCInv /\ Take(c) => PCInv'
<1> SUFFICES ASSUME PCInv, Take(c) PROVE PCInv'
  OBVIOUS
<1> USE ThreadFacts
<1>1. /\ TypeOK /\ 0 < count /\ count <= BUFFER_SIZE /\ count' = count - 1
      /\ out' = Succ(out) /\ expected' = NextInt(expected)
      /\ UNCHANGED <<in, buffer, mtx, waiting, item>>
  BY Ranges, SMT DEF PCInv, Take, Empty
<1>2. TypeOK'
  BY <1>1, Ranges, SMT DEF TypeOK, Take, Goto
<1>3. MutexHeld'
  BY SMT DEF PCInv, TypeOK, MutexHeld, InSection, Take, Goto
<1>4. Positions'
  BY SMT DEF PCInv, TypeOK, Positions, Take, Goto
<1>5. NoOverflow'
  BY <1>1, Ranges, SMT DEF PCInv, NoOverflow, Take, Goto
<1>6. NoLostWakeup'
  BY SMT DEF PCInv, Positions, NoLostWakeup, Take, Goto
<1>7. FIFO'
  <2>1. /\ Around(out', count', BUFFER_SIZE) = Around(out, count, BUFFER_SIZE)
        /\ Around(expected', count', INT_MOD) = Around(expected, count, INT_MOD)
    BY <1>1, Ranges, AroundFacts, SMT
  <2>2. ASSUME NEW k \in 0 .. count' - 1
        PROVE  buffer[Around(out', k, BUFFER_SIZE)] = Around(expected', k, INT_MOD)
    <3>1. k + 1 \in 0 .. count - 1 /\ k \in 0 .. BUFFER_SIZE - 1 /\ k \in 0 .. INT_MOD - 1
      BY <1>1, Ranges, SMT
    <3>2. /\ Around(out', k, BUFFER_SIZE) = Around(out, k + 1, BUFFER_SIZE)
          /\ Around(expected', k, INT_MOD) = Around(expected, k + 1, INT_MOD)
      BY <1>1, <3>1, Ranges, AroundFacts
    <3> QED
      BY <3>1, <3>2 DEF PCInv, FIFO
  <2> QED
    BY <1>1, <2>1, <2>2 DEF PCInv, FIFO
<1> QED
  BY <1>2, <1>3, <1>4, <1>5, <1>6, <1>7 DEF PCInv

\* Every statement of p_c.c keeps the invariant.
LEMMA PCStep == PCInv /\ [Next]_vars => PCInv'
<1> SUFFICES ASSUME PCInv, [Next]_vars PROVE PCInv'
  OBVIOUS
<1>1. CASE ProducerStep
  BY <1>1, SpinInv, LockInv, PutInv, UnlockInv, WakeInv DEF ProducerStep
<1>2. ASSUME NEW c \in Consumers, ConsumerStep(c) \/ WakeUnsignalled(c) PROVE PCInv'
  BY <1>2, LockInv, WaitInv, TakeInv, UnlockInv, WakeInv DEF ConsumerStep
<1>3. CASE UNCHANGED vars
  BY <1>3 DEF vars, PCInv, TypeOK, MutexHeld, InSection, Positions, NoOverflow, FIFO, NoLostWakeup
<1> QED
  BY <1>1, <1>2, <1>3 DEF Next

\* The inductive invariant of p_c.c, for every ring, number of consumers and
\* width of int: the mutex is held by whoever is in its section, and the parts
\* below.
THEOREM PCInvariant == Spec => []PCInv
<1> QED
  BY PCInit, PCStep, PTL DEF Spec

\* The producer, which tests count without the mutex, never writes to a full
\* ring.
THEOREM NeverOverflows == Spec => []NoOverflow
<1>1. PCInv => NoOverflow
  BY DEF PCInv
<1> QED
  BY <1>1, PCInvariant, PTL

\* Items leave the ring in the order they entered it.
THEOREM FirstInFirstOut == Spec => []FIFO
<1>1. PCInv => FIFO
  BY DEF PCInv
<1> QED
  BY <1>1, PCInvariant, PTL

\* Items never lie in the ring with every consumer asleep and no signal coming.
THEOREM WakeupsNotLost == Spec => []NoLostWakeup
<1>1. PCInv => NoLostWakeup
  BY DEF PCInv
<1> QED
  BY <1>1, PCInvariant, PTL

=============================================================================
