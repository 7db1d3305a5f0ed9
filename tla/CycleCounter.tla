---------------------------- MODULE CycleCounter ----------------------------
(***************************************************************************)
(* cs351/mps/05/clock.c: the cycle counter, kept in two unsigned halves,   *)
(* and the counter that takes off the time of the timer interrupts.        *)
(***************************************************************************)
EXTENDS Integers

CONSTANTS Half,         \* values of an unsigned: 2^32 in the code
          Unit,         \* parts of a cycle: a multiple of 1 .. MaxTicks, so that ratios are exact
          Laps,         \* cycles that may pass between two looks at the counter
          NEVENT, THRESHOLD, RECORDTHRESH,
          MaxTicks      \* bound on the ticks the system has charged

ASSUME ClockConstants ==
    /\ Half \in Nat \ {0} /\ Unit \in Nat \ {0}
    /\ Laps \subseteq Nat /\ MaxTicks \in Nat
    /\ NEVENT \in Nat /\ THRESHOLD \in Nat /\ RECORDTHRESH \in Nat

VARIABLES hi, lo,           \* the halves of the processor's counter
          cyc_hi, cyc_lo,   \* where it was at start_counter
          elapsed,          \* history: cycles since start_counter
          tms_utime,        \* ticks charged to the process so far
          start_tick,
          cyc_per_tick,     \* in parts of a cycle, as are ratios and times
          oldt, oldc, e_clock, \* callibrate's variables
          ratios,           \* history: the ratios of callibrate's events
          got,              \* the last answer, and the cycles and ticks it is about
          pc_clock          \* "idle", "callibrate", "started"

clockvars == <<hi, lo, cyc_hi, cyc_lo, elapsed, tms_utime, start_tick, cyc_per_tick,
               oldt, oldc, e_clock, ratios, got, pc_clock>>

NoAnswer == [time |-> 0, elapsed |-> 0, ticks |-> 0]

ClockInit ==
    /\ hi \in 0 .. Half - 1 /\ lo \in 0 .. Half - 1
    /\ cyc_hi = 0 /\ cyc_lo = 0 /\ elapsed = 0
    /\ tms_utime = 0 /\ start_tick = 0 /\ cyc_per_tick = 0
    /\ oldt = 0 /\ oldc = 0 /\ e_clock = 0 /\ ratios = {} /\ got = NoAnswer
    /\ pc_clock = "idle"

\* access_counter, when d cycles have passed since the last look.
Lapse(d) ==
    LET now == (hi * Half + lo + d) % (Half * Half)
    IN  hi' = now \div Half /\ lo' = now % Half

start_counter ==
    /\ cyc_hi' = hi' /\ cyc_lo' = lo'
    /\ elapsed' = 0

Bug_get_counter ==
    LET l == (lo' - cyc_lo) % Half
        borrow == IF l > cyc_lo THEN 1 ELSE 0
        h == (hi' - cyc_hi - borrow) % Half
    IN  h * Half + l

\* A subtraction in two halves, as doubles in the end.
get_counter ==
    LET l == (lo' - cyc_lo) % Half
        borrow == IF l > lo' THEN 1 ELSE 0
        h == (hi' - cyc_hi - borrow) % Half
    IN  h * Half + l

-----------------------------------------------------------------------------

Charged(n) == tms_utime' = tms_utime + n /\ tms_utime + n <= MaxTicks

\* start_comp_counter: callibrate, if it has not yet seen what a tick costs.
StartCallibrate(d, n) ==
    /\ pc_clock = "idle" /\ cyc_per_tick = 0
    /\ Lapse(d) /\ Charged(n) /\ start_counter
    /\ oldt' = 0 /\ oldc' = tms_utime' /\ e_clock' = 0 /\ ratios' = {}
    /\ pc_clock' = "callibrate"
    /\ UNCHANGED <<start_tick, cyc_per_tick, got>>

\* One turn of callibrate's loop.  An event is a jump of the counter, since the
\* last one, during which ticks were charged.
Callibrate(d, n) ==
    LET newt == get_counter
        jump == newt - oldt
        cpt == (jump * Unit) \div (tms_utime' - oldc)
        event == jump >= THRESHOLD /\ tms_utime' > oldc
    IN  /\ pc_clock = "callibrate" /\ e_clock < NEVENT
        /\ Lapse(d) /\ elapsed' = elapsed + d /\ elapsed' < Half * Half
        /\ Charged(n)
        /\ oldt' = IF jump >= THRESHOLD THEN newt ELSE oldt
        /\ IF event
           THEN /\ e_clock' = e_clock + 1 /\ oldc' = tms_utime' /\ ratios' = ratios \cup {cpt}
                /\ cyc_per_tick' = IF (cyc_per_tick = 0 \/ cyc_per_tick > cpt) /\ cpt > RECORDTHRESH * Unit
                                   THEN cpt ELSE cyc_per_tick
           ELSE UNCHANGED <<e_clock, oldc, ratios, cyc_per_tick>>
        /\ UNCHANGED <<cyc_hi, cyc_lo, start_tick, got, pc_clock>>

\* The rest of start_comp_counter; callibrate's variables are gone.
StartCounter(d, n) ==
    /\ \/ pc_clock = "callibrate" /\ e_clock = NEVENT
       \/ pc_clock = "idle" /\ cyc_per_tick # 0
    /\ Lapse(d) /\ Charged(n)
    /\ start_tick' = tms_utime'
    /\ start_counter
    /\ oldt' = 0 /\ oldc' = 0 /\ e_clock' = 0
    /\ pc_clock' = "started"
    /\ UNCHANGED <<cyc_per_tick, ratios, got>>

Wait(d, n) ==
    /\ pc_clock = "started"
    /\ Lapse(d) /\ elapsed' = elapsed + d /\ elapsed' < Half * Half
    /\ Charged(n)
    /\ UNCHANGED <<cyc_hi, cyc_lo, start_tick, cyc_per_tick, oldt, oldc, e_clock, ratios, got,
                   pc_clock>>

\* The ticks are read after the counter.
get_comp_counter(d, n) ==
    /\ pc_clock = "started"
    /\ Lapse(d) /\ elapsed' = elapsed + d /\ elapsed' < Half * Half
    /\ Charged(n)
    /\ got' = [time |-> get_counter * Unit - (tms_utime' - start_tick) * cyc_per_tick,
               elapsed |-> elapsed', ticks |-> tms_utime' - start_tick]
    /\ pc_clock' = "idle"
    /\ UNCHANGED <<cyc_hi, cyc_lo, start_tick, cyc_per_tick, oldt, oldc, e_clock, ratios>>

ClockNext ==
    \E d \in Laps, n \in 0 .. 1 :
        \/ StartCallibrate(d, n) \/ Callibrate(d, n) \/ StartCounter(d, n)
        \/ Wait(d, n) \/ get_comp_counter(d, n)

ClockSpec == ClockInit /\ [][ClockNext]_clockvars

-----------------------------------------------------------------------------

\* As long as less than Half * Half cycles pass, a measurement is the cycles that
\* passed, less the cost of the ticks, wherever the two halves stood when it
\* began; and that cost is the least that callibrate saw above RECORDTHRESH.
CounterIsElapsed ==
    /\ pc_clock = "idle" => got.time = got.elapsed * Unit - got.ticks * cyc_per_tick
    /\ LET seen == {r \in ratios : r > RECORDTHRESH * Unit}
       IN  IF seen = {} THEN cyc_per_tick = 0
           ELSE cyc_per_tick \in seen /\ \A r \in seen : cyc_per_tick <= r

=============================================================================
