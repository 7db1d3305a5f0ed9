---------------------------- MODULE MemLibProofs -----------------------------
(* Lemmas on the arithmetic of the malloc packages. *)
EXTENDS MemLib, TLAPS

\* The ALIGN macro rounds up to the next multiple of the alignment.
LEMMA AlignFacts ==
    ASSUME NEW s \in Nat
    PROVE  /\ ALIGN(s) \in Nat
           /\ s <= ALIGN(s) /\ ALIGN(s) < s + ALIGNMENT
           /\ ALIGN(s) % ALIGNMENT = 0
<1>1. CASE ALIGNMENT = 2
  BY <1>1, SMT DEF ALIGN
<1>2. CASE ALIGNMENT = 4
  BY <1>2, SMT DEF ALIGN
<1>3. CASE ALIGNMENT = 8
  BY <1>3, SMT DEF ALIGN
<1>4. CASE ALIGNMENT = 16
  BY <1>4, SMT DEF ALIGN
<1> QED
  BY <1>1, <1>2, <1>3, <1>4, MemLibConstants DEF MemLibConstants

\* Multiples of the alignment are closed under addition, and even.
LEMMA AlignedSum ==
    ASSUME NEW s \in Int, NEW t \in Int,
           s % ALIGNMENT = 0, t % ALIGNMENT = 0
    PROVE  (s + t) % ALIGNMENT = 0 /\ s % 2 = 0
<1>1. CASE ALIGNMENT = 2
  BY <1>1, SMT
<1>2. CASE ALIGNMENT = 4
  BY <1>2, SMT
<1>3. CASE ALIGNMENT = 8
  BY <1>3, SMT
<1>4. CASE ALIGNMENT = 16
  BY <1>4, SMT
<1> QED
  BY <1>1, <1>2, <1>3, <1>4, MemLibConstants DEF MemLibConstants

\* The first byte of the heap is aligned.
LEMMA ZeroAligned == 0 % ALIGNMENT = 0 /\ 0 % 2 = 0
<1>1. CASE ALIGNMENT = 2
  BY <1>1, SMT
<1>2. CASE ALIGNMENT = 4
  BY <1>2, SMT
<1>3. CASE ALIGNMENT = 8
  BY <1>3, SMT
<1>4. CASE ALIGNMENT = 16
  BY <1>4, SMT
<1> QED
  BY <1>1, <1>2, <1>3, <1>4, MemLibConstants DEF MemLibConstants

\* Clearing and setting bit 0 of a size.
LEMMA BitFacts ==
    ASSUME NEW n \in Nat
    PROVE  /\ n % 2 \in {0, 1}
           /\ n - (n % 2) \in Nat /\ (n - (n % 2)) % 2 = 0
           /\ n - (n % 2) <= n /\ n <= n - (n % 2) + 1
           /\ n % 2 = 0 => n - (n % 2) = n /\ (n + 1) % 2 = 1
  BY SMT

=============================================================================
