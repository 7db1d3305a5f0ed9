----------------------------- MODULE DriverScore ----------------------------
(***************************************************************************)
(* cs351/mps/05/mdriver.c, main: the traces are run on libc malloc if -l   *)
(* asks for it, then on the student's package; the verdicts, utilizations  *)
(* and times of the traces are added up to a performance index.            *)
(* What happens within one trace is in MDriver.  Numbers that are doubles  *)
(* in the code are fractions here: <<n, d>> is n / d.                      *)
(***************************************************************************)
EXTENDS Integers, Sequences, FiniteSets

CONSTANTS Ops,              \* num_ops of each trace file
          Utils, FULL,      \* utilizations, in parts of FULL
          Secs,             \* times that fsecs may return
          AVG_LIBC_THRUPUT,
          UTIL_WEIGHT       \* in hundredths

ASSUME ScoreConstants ==
    /\ Ops \in Seq(Nat \ {0}) /\ Ops # << >>
    /\ FULL \in Nat \ {0} /\ Utils \subseteq 0 .. FULL
    /\ Secs \subseteq Nat
    /\ AVG_LIBC_THRUPUT \in Nat \ {0} /\ UTIL_WEIGHT \in 1 .. 99

VARIABLES phase_score, i_score, \* "libc", "mm", "report", "done" or "exit"
          verbose, run_libc,
          libc_stats, mm_stats, errors,
          table,            \* the results printed for mm: traces, and the total
          perfindex, numcorrect

scorevars == <<phase_score, i_score, verbose, run_libc, libc_stats, mm_stats, errors, table,
               perfindex, numcorrect>>

Traces == DOMAIN Ops
Zero == [valid |-> FALSE, ops |-> 0, secs |-> 0, util |-> 0]
calloc == [t \in Traces |-> Zero]
NoTable == [rows |-> << >>, total |-> << >>]

ScoreInit ==
    /\ verbose \in BOOLEAN /\ run_libc \in BOOLEAN
    /\ phase_score = IF run_libc THEN "libc" ELSE "mm"
    /\ i_score = 1 /\ libc_stats = calloc /\ mm_stats = calloc
    /\ errors = 0 /\ table = NoTable /\ perfindex = <<0, 1>> /\ numcorrect = 0

Advance(there) ==
    IF i_score = Len(Ops) THEN i_score' = 1 /\ phase_score' = there
    ELSE i_score' = i_score + 1 /\ UNCHANGED phase_score

\* eval_libc_valid returns 1 or ends the program; then eval_libc_speed is timed.
LibcTrace(secs) ==
    /\ phase_score = "libc"
    /\ libc_stats' = [libc_stats EXCEPT ![i_score] =
                        [valid |-> TRUE, ops |-> Ops[i_score], secs |-> secs, util |-> 0]]
    /\ Advance("mm")
    /\ UNCHANGED <<verbose, run_libc, mm_stats, errors, table, perfindex, numcorrect>>

\* libc malloc, or in eval_mm_util and eval_mm_speed the package, returns NULL:
\* app_error or unix_error, and nothing is reported.
AppError ==
    /\ phase_score \in {"libc", "mm"}
    /\ phase_score' = "exit"
    /\ errors' \in IF phase_score = "libc" THEN {errors, errors + 1} ELSE {errors}
    /\ UNCHANGED <<i_score, verbose, run_libc, libc_stats, mm_stats, table, perfindex,
                   numcorrect>>

MMValid(util, secs) ==
    /\ phase_score = "mm"
    /\ mm_stats' = [mm_stats EXCEPT ![i_score] =
                        [valid |-> TRUE, ops |-> Ops[i_score], secs |-> secs, util |-> util]]
    /\ Advance("report")
    /\ UNCHANGED <<verbose, run_libc, libc_stats, errors, table, perfindex, numcorrect>>

MMInvalid ==
    /\ phase_score = "mm"
    /\ mm_stats' = [mm_stats EXCEPT ![i_score].ops = Ops[i_score]]
    /\ errors' = errors + 1
    /\ Advance("report")
    /\ UNCHANGED <<verbose, run_libc, libc_stats, table, perfindex, numcorrect>>

-----------------------------------------------------------------------------

\* The sum of the numbers of the traces: so many units of each.
Sum(f) == Cardinality(UNION {{t} \X (1 .. f[t]) : t \in Traces})
Util(stats) == Sum([t \in Traces |-> stats[t].util])
OpsOf(stats) == Sum([t \in Traces |-> stats[t].ops])
SecsOf(stats) == Sum([t \in Traces |-> stats[t].secs])

\* A row for each trace, and a total unless there were errors.
printresults(stats) ==
    [rows |-> [t \in Traces |-> IF stats[t].valid THEN <<stats[t].util, stats[t].ops, stats[t].secs>>
                                ELSE << >>],
     total |-> IF errors = 0 THEN <<Util(stats), OpsOf(stats), SecsOf(stats)>> ELSE << >>]

Bug_Index(stats) ==
    LET d == Len(Ops) * FULL
        ops == OpsOf(stats)
        par == AVG_LIBC_THRUPUT * SecsOf(stats)
    IN  IF ops > par THEN <<UTIL_WEIGHT * Util(stats), d>>
        ELSE <<UTIL_WEIGHT * Util(stats) * par + (100 - UTIL_WEIGHT) * ops * d, d * par>>

\* The weighted utilization and throughput in percent; a throughput above the
\* average of libc, also one of a time too short to be measured, counts as 1.
Index(stats) ==
    LET d == Len(Ops) * FULL
        ops == OpsOf(stats)
        par == AVG_LIBC_THRUPUT * SecsOf(stats)
    IN  IF ops > par THEN <<UTIL_WEIGHT * Util(stats) + (100 - UTIL_WEIGHT) * d, d>>
        ELSE <<UTIL_WEIGHT * Util(stats) * par + (100 - UTIL_WEIGHT) * ops * d, d * par>>

Report ==
    /\ phase_score = "report" /\ phase_score' = "done"
    /\ table' = IF verbose THEN printresults(mm_stats) ELSE table
    /\ numcorrect' = Cardinality({t \in Traces : mm_stats[t].valid})
    /\ perfindex' = IF errors = 0 THEN Index(mm_stats) ELSE <<0, 1>>
    /\ UNCHANGED <<i_score, verbose, run_libc, libc_stats, mm_stats, errors>>

ScoreNext ==
    \/ (\E secs \in Secs : LibcTrace(secs) \/ \E util \in Utils : MMValid(util, secs))
    \/ AppError \/ MMInvalid \/ Report

ScoreSpec == ScoreInit /\ [][ScoreNext]_scorevars

-----------------------------------------------------------------------------

Leq(r, s) == r[1] * s[2] <= s[1] * r[2]
BetterThan(s, better) == better.util >= s.util /\ better.secs <= s.secs

\* The index is at most 100; it is 100 just if the heap was used fully and the
\* throughput is above libc's, and 0 as soon as one trace failed; and a trace
\* that is run faster or in a smaller heap never lowers it.
ScoreIsFair ==
    phase_score = "done" =>
        /\ (numcorrect = Len(Ops)) <=> errors = 0
        /\ verbose => (table.total # << >>) <=> numcorrect = Len(Ops)
        /\ numcorrect < Len(Ops) => perfindex[1] = 0
        /\ Leq(<<0, 1>>, perfindex) /\ Leq(perfindex, <<100, 1>>)
        /\ Leq(<<100, 1>>, perfindex) <=>
             /\ errors = 0 /\ \A t \in Traces : mm_stats[t].util = FULL
             /\ OpsOf(mm_stats) >= AVG_LIBC_THRUPUT * SecsOf(mm_stats)
        /\ errors = 0 => \A t \in Traces, u \in Utils, s \in Secs :
             LET other == [mm_stats EXCEPT ![t].util = u, ![t].secs = s]
             IN  BetterThan(mm_stats[t], other[t]) => Leq(perfindex, Index(other))

=============================================================================
