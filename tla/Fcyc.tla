-------------------------------- MODULE Fcyc --------------------------------
(***************************************************************************)
(* cs351/mps/05/fcyc.c: the time of a function is the smallest of several  *)
(* samples, taken until the kbest smallest are within epsilon of each      *)
(* other, or until there are maxsamples of them.  A sample is what the     *)
(* counter of clock.c returns; the parameters are set between the calls.   *)
(***************************************************************************)
EXTENDS Integers, Sequences

CONSTANTS Times,          \* what a measurement may return
          Ks, MaxSamples, \* arguments of set_fcyc_k and set_fcyc_maxsamples
          Epsilons,       \* tolerances, in halves
          Sizes           \* cache sizes in bytes

ASSUME FcycConstants ==
    /\ Times \subseteq Int
    /\ Ks \subseteq Nat \ {0}
    /\ MaxSamples \subseteq Nat
    /\ Epsilons \subseteq Nat
    /\ Sizes \subseteq Nat \ {0}

VARIABLES kbest, maxsamples, epsilon, clear_cache, cache_bytes,
          cache_buf,            \* the size of the buffer, 0 for NULL
          values, samplecount,  \* values is << >> for NULL
          taken,                \* history: the samples of the last call
          result, pc            \* "idle", "sample", "return" or "exited"

params == <<kbest, maxsamples, epsilon, clear_cache, cache_bytes>>
fcycvars == <<params, cache_buf, values, samplecount, taken, result, pc>>

FcycInit ==
    /\ kbest \in Ks /\ maxsamples \in MaxSamples /\ epsilon \in Epsilons
    /\ clear_cache = FALSE /\ cache_bytes \in Sizes /\ cache_buf = 0
    /\ values = << >> /\ samplecount = 0 /\ taken = << >> /\ result = 0
    /\ pc = "idle"

-----------------------------------------------------------------------------
(* Parameters *)

Setter == pc = "idle" /\ UNCHANGED <<values, samplecount, taken, result, pc>>
set_fcyc_k ==
    /\ Setter /\ kbest' \in Ks
    /\ UNCHANGED <<maxsamples, epsilon, clear_cache, cache_bytes, cache_buf>>
set_fcyc_maxsamples ==
    /\ Setter /\ maxsamples' \in MaxSamples
    /\ UNCHANGED <<kbest, epsilon, clear_cache, cache_bytes, cache_buf>>
set_fcyc_epsilon ==
    /\ Setter /\ epsilon' \in Epsilons
    /\ UNCHANGED <<kbest, maxsamples, clear_cache, cache_bytes, cache_buf>>
set_fcyc_clear_cache ==
    /\ Setter /\ clear_cache' \in BOOLEAN
    /\ UNCHANGED <<kbest, maxsamples, epsilon, cache_bytes, cache_buf>>
Bug_set_fcyc_cache_size ==
    /\ Setter /\ cache_bytes' \in Sizes
    /\ UNCHANGED <<kbest, maxsamples, epsilon, clear_cache, cache_buf>>

\* A buffer of another size is let go.
set_fcyc_cache_size ==
    /\ Setter /\ cache_bytes' \in Sizes
    /\ cache_buf' = IF cache_bytes' # cache_bytes THEN 0 ELSE cache_buf
    /\ UNCHANGED <<kbest, maxsamples, epsilon, clear_cache>>

-----------------------------------------------------------------------------
(* The sampler *)

\* init_sampler
Call ==
    /\ pc = "idle" /\ pc' = "sample"
    /\ values' = [p \in 0 .. kbest - 1 |-> 0]
    /\ samplecount' = 0 /\ taken' = << >>
    /\ UNCHANGED <<params, cache_buf, result>>

\* f with x put at place pos and moved down past the places whose value is
\* larger, as far as there are such.
Place(pos, val) ==
    CHOOSE p \in 0 .. pos :
        /\ p > 0 => values[p - 1] <= val
        /\ \A q \in p .. pos - 1 : values[q] > val
Insert(f, pos, p, x) ==
    [q \in DOMAIN f |-> IF q < p \/ q > pos THEN f[q] ELSE IF q = p THEN x ELSE f[q - 1]]

Bug_add_sample(val) ==
    values' =
      IF samplecount < kbest THEN Insert(values, samplecount, Place(samplecount, val), val)
      ELSE IF val > values[kbest - 1] THEN Insert(values, kbest - 1, Place(kbest - 1, val), val)
      ELSE values

\* A sample that is not among the kbest smallest is dropped.
add_sample(val) ==
    values' =
      IF samplecount < kbest THEN Insert(values, samplecount, Place(samplecount, val), val)
      ELSE IF val < values[kbest - 1] THEN Insert(values, kbest - 1, Place(kbest - 1, val), val)
      ELSE values

has_converged ==
    samplecount' >= kbest /\ (2 + epsilon) * values'[0] >= 2 * values'[kbest - 1]

\* clear needs its buffer.
ClearFails ==
    /\ pc = "sample" /\ clear_cache /\ cache_buf = 0
    /\ pc' = "exited"
    /\ UNCHANGED <<params, cache_buf, values, samplecount, taken, result>>

Sample(val) ==
    /\ pc = "sample"
    /\ cache_buf' = IF clear_cache /\ cache_buf = 0 THEN cache_bytes ELSE cache_buf
    /\ add_sample(val)
    /\ samplecount' = samplecount + 1
    /\ taken' = Append(taken, val)
    /\ pc' = IF ~has_converged /\ samplecount' < maxsamples THEN "sample" ELSE "return"
    /\ UNCHANGED <<params, result>>

Return ==
    /\ pc = "return" /\ pc' = "idle"
    /\ result' = values[0] /\ values' = << >>
    /\ UNCHANGED <<params, cache_buf, samplecount, taken>>

FcycNext ==
    \/ set_fcyc_k \/ set_fcyc_maxsamples \/ set_fcyc_epsilon
    \/ set_fcyc_clear_cache \/ set_fcyc_cache_size
    \/ Call \/ ClearFails \/ Return
    \/ \E val \in Times : Sample(val)

FcycSpec == FcycInit /\ [][FcycNext]_fcycvars

-----------------------------------------------------------------------------
(* Properties *)

\* The number of values that are samples.
Filled == IF samplecount < kbest THEN samplecount ELSE kbest

\* The values are the samples at the places of from: in order, different
\* samples at different places, and no sample left out is smaller.
KBest(from) ==
    /\ from \in [0 .. Filled - 1 -> 1 .. samplecount]
    /\ \A p, r \in 0 .. Filled - 1 : from[p] = from[r] => p = r
    /\ \A p \in 0 .. Filled - 1 : values[p] = taken[from[p]]
    /\ \A p, r \in 0 .. Filled - 1 : p <= r => values[p] <= values[r]
    /\ \A s \in 1 .. samplecount :
         (\A p \in 0 .. Filled - 1 : from[p] # s)
           => samplecount > kbest /\ \A p \in 0 .. Filled - 1 : values[p] <= taken[s]

\* In every turn of the loop values holds the kbest smallest samples in
\* ascending order, whatever their order was and whatever the parameters of the
\* call before were.
BestSamples ==
    pc \in {"sample", "return"} => \E from \in [0 .. Filled - 1 -> 1 .. samplecount] : KBest(from)

\* fcyc returns the smallest sample ("just return best sample found"), also if
\* it gave up before there were kbest of them; and clear, when it walks over
\* cache_bytes, has a buffer of that size.
ReturnsSmallest ==
    /\ pc = "idle" /\ taken # << >> =>
        /\ \E s \in DOMAIN taken : result = taken[s]
        /\ \A s \in DOMAIN taken : result <= taken[s]
    /\ cache_buf \in {0, cache_bytes}

\* The sampler keeps the best samples, and its answer is the best of them.
BestKeptAndReturned == BestSamples /\ ReturnsSmallest

=============================================================================
