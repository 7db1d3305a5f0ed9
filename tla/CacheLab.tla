------------------------------- MODULE CacheLab -----------------------------
(***************************************************************************)
(* cs351/mps/04: test-trans.c runs tracegen.c under valgrind for each      *)
(* function that trans.c registers, cuts the function's part out of the    *)
(* trace, has csim-ref simulate it, and emits the result of the function   *)
(* that is submitted.  They hand results over in files that nobody         *)
(* removes.                                                                *)
(* A function is what it does to the matrices: "trans" and "nothing" are   *)
(* those of trans.c, "clear" writes both matrices and "dies" does not      *)
(* return.  Any of them may be registered, under its own name or as the    *)
(* submission.                                                             *)
(***************************************************************************)
EXTENDS Integers, Sequences, FiniteSets

CONSTANTS Lists,        \* what registerFunctions may register
          MAXN, Dims,   \* the largest dimension, and the values of -M and -N
          Values        \* elements of a matrix

ASSUME CacheConstants ==
    /\ Lists \subseteq Seq([does : {"trans", "nothing", "clear", "dies"}, submit : BOOLEAN])
    /\ MAXN \in Nat /\ Dims \subseteq Nat

VARIABLES func_list,    \* the registered functions and what is known of them
          M, N, A, B,
          i_cache, results, pc_cache,   \* i is test-trans's and tracegen's loop variable
          flag,         \* the exit status that system() reports
          trace, part,  \* trace.tmp, and the positions of it that trace.f<i> has
          csim_results, \* .csim_results: whose misses, and their number; << >> if missing
          output,       \* what test-trans emits, or the exit status of tracegen
          ran, failed   \* history: whether each function left a transpose, and the
                        \* turns in which csim-ref failed

cachevars == <<func_list, M, N, A, B, i_cache, results, pc_cache, flag, trace, part,
               csim_results, output, ran, failed>>

INT_MAX == << >>
None == << >>

\* registerTransFunction
Registered(list) ==
    [k \in DOMAIN list |-> [does |-> list[k].does, submit |-> list[k].submit,
                            correct |-> FALSE, misses |-> None]]

CacheInit ==
    /\ \E list \in Lists : func_list = Registered(list)
    /\ M \in Dims /\ N \in Dims
    /\ A = << >> /\ B = << >> /\ i_cache = 1 /\ flag = 0
    /\ results = [funcid |-> 0, correct |-> 0, misses |-> INT_MAX]
    /\ pc_cache \in {"test-trans", "tracegen"}
    /\ trace = << >> /\ part = {}
    /\ csim_results \in {None, <<0, 0>>}    \* none yet, or that of an earlier program
    /\ output = << >> /\ ran = << >> /\ failed = {}

Matrices(rows, columns) == [(0 .. rows - 1) \X (0 .. columns - 1) -> Values]
correctTrans(a) == [p \in (0 .. M - 1) \X (0 .. N - 1) |-> a[<<p[2], p[1]>>]]
validate(m) == m.B = correctTrans(m.A)

\* The matrices after the function is called with a and b.
CallOf(does, a, b) ==
    [A |-> IF does = "clear" THEN [p \in DOMAIN a |-> 0] ELSE a,
     B |-> CASE does = "trans" -> correctTrans(a)
             [] does = "clear" -> [p \in DOMAIN b |-> 0]
             [] OTHER -> b]
IsTranspose(m) == \A r \in 0 .. N - 1, c \in 0 .. M - 1 : m.A[<<r, c>>] = m.B[<<c, r>>]

-----------------------------------------------------------------------------
(* test-trans *)

\* main, up to eval_perf.  A negative dimension is not among Dims.
Start ==
    /\ pc_cache = "test-trans"
    /\ pc_cache' = IF M = 0 \/ N = 0 \/ M > MAXN \/ N > MAXN THEN "exited"
                   ELSE IF func_list = << >> THEN "emit" ELSE "generate"
    /\ UNCHANGED <<func_list, M, N, A, B, i_cache, results, flag, trace, part,
                   csim_results, output, ran, failed>>

Continue ==
    /\ i_cache' = i_cache + 1
    /\ pc_cache' = IF i_cache = Len(func_list) THEN "emit" ELSE "generate"

Bug_RunTracegen ==
    LET f == func_list[i_cache]
    IN  /\ pc_cache = "generate"
        /\ results' = IF f.submit THEN [results EXCEPT !.funcid = i_cache, !.correct = 1] ELSE results
        /\ \E a \in Matrices(N, M), b \in Matrices(M, N) :
             LET m == CallOf(f.does, a, b)
             IN  /\ flag' \in IF f.does = "dies" THEN {0, 139}
                             ELSE {IF validate(m) THEN 0 ELSE i_cache}
                 /\ ran' = Append(ran, IsTranspose(m))
        /\ trace' = IF f.does = "dies" THEN <<"main", "start", "low", "stack", "low">>
                    ELSE <<"main", "start", "low", "stack", "low", "end", "main">>
        /\ IF flag' # 0 THEN Continue ELSE i_cache' = i_cache /\ pc_cache' = "filter"
        /\ UNCHANGED <<func_list, M, N, A, B, part, csim_results, output, failed>>

\* The turn's first half: tracegen -F i in a process of its own, on matrices
\* filled at random.  The shell may report the signal that killed it as 128
\* and more, or be replaced by it: then its WEXITSTATUS is 0.
RunTracegen ==
    LET f == func_list[i_cache]
    IN  /\ pc_cache = "generate"
        /\ results' = IF f.submit THEN [results EXCEPT !.funcid = i_cache] ELSE results
        /\ \E a \in Matrices(N, M), b \in Matrices(M, N) :
             LET m == CallOf(f.does, a, b)
             IN  /\ flag' \in IF f.does = "dies" THEN {0, 139}
                             ELSE {IF validate(m) THEN 0 ELSE i_cache}
                 /\ ran' = Append(ran, IsTranspose(m))
        /\ trace' = IF f.does = "dies" THEN <<"main", "start", "low", "stack", "low">>
                    ELSE <<"main", "start", "low", "stack", "low", "end", "main">>
        /\ IF flag' # 0 THEN Continue ELSE i_cache' = i_cache /\ pc_cache' = "filter"
        /\ UNCHANGED <<func_list, M, N, A, B, part, csim_results, output, failed>>

\* From the start marker on, without the stack, up to the end marker.  Where
\* that is missing the file stays open, and csim-ref sees some of it.
Filter ==
    LET region == {k \in 2 .. Len(trace) : trace[k] # "stack"}
    IN  /\ pc_cache = "filter" /\ pc_cache' = "simulate"
        /\ func_list' = [func_list EXCEPT ![i_cache].correct = TRUE]
        /\ results' = IF results.funcid = i_cache THEN [results EXCEPT !.correct = 1] ELSE results
        /\ IF \E k \in region : trace[k] = "end"
           THEN part' = {k \in region : trace[k] # "main"}
           ELSE \E n \in 1 .. Len(trace) : part' = {k \in region : k <= n}
        /\ UNCHANGED <<M, N, A, B, i_cache, flag, trace, csim_results, output, ran,
                       failed>>

\* csim-ref counts the misses of the accesses, or fails and writes nothing:
\* what it wrote the time before is read again.
Simulate(works) ==
    LET found == IF works THEN <<i_cache, Cardinality(part)>> ELSE csim_results
    IN  /\ pc_cache = "simulate"
        /\ csim_results' = found
        /\ failed' = IF works THEN failed ELSE failed \cup {i_cache}
        /\ IF found = None
           THEN pc_cache' = "exited" /\ UNCHANGED <<func_list, results, i_cache>>
           ELSE /\ func_list' = [func_list EXCEPT ![i_cache].misses = found]
                /\ results' = IF results.funcid = i_cache
                               THEN [results EXCEPT !.misses = found] ELSE results
                /\ Continue
        /\ UNCHANGED <<M, N, A, B, flag, trace, part, output, ran>>

Emit(line) == output' = line /\ pc_cache' = "exited"

\* TEST_TRANS_RESULTS=correct:misses
EmitResults ==
    /\ pc_cache = "emit"
    /\ Emit(IF results.funcid = 0 THEN <<0, <<0, 0>>>> ELSE <<results.correct, results.misses>>)
    /\ UNCHANGED <<func_list, M, N, A, B, i_cache, results, flag, trace, part,
                   csim_results, ran, failed>>

sigalrm_handler ==
    /\ pc_cache \in {"generate", "filter", "simulate", "emit"}
    /\ Emit(<<0, <<0, 0>>>>)
    /\ UNCHANGED <<func_list, M, N, A, B, i_cache, results, flag, trace, part,
                   csim_results, ran, failed>>

-----------------------------------------------------------------------------
(* tracegen without -F: all functions in one process, on the same matrices,*)
(* which are laid out in two arrays of MAXN * MAXN whatever -M and -N say.  *)

initMatrix ==
    /\ pc_cache = "tracegen" /\ M * N <= MAXN * MAXN
    /\ A' \in Matrices(N, M) /\ B' \in Matrices(M, N)
    /\ pc_cache' = "call"
    /\ UNCHANGED <<func_list, M, N, i_cache, results, flag, trace, part, csim_results,
                   output, ran, failed>>

\* Matrices that the arrays do not hold: what follows is undefined.
initMatrixOverrun ==
    /\ pc_cache = "tracegen" /\ M * N > MAXN * MAXN
    /\ pc_cache' = "overrun"
    /\ UNCHANGED <<func_list, M, N, A, B, i_cache, results, flag, trace, part, csim_results,
                   output, ran, failed>>

CallNext ==
    /\ pc_cache = "call" /\ i_cache <= Len(func_list)
    /\ LET m == CallOf(func_list[i_cache].does, A, B)
       IN  A' = m.A /\ B' = m.B /\ ran' = Append(ran, IsTranspose(m))
    /\ IF func_list[i_cache].does = "dies" THEN Emit(<<139>>) /\ i_cache' = i_cache
       ELSE IF validate([A |-> A', B |-> B'])
            THEN i_cache' = i_cache + 1 /\ UNCHANGED <<pc_cache, output>>
       ELSE Emit(<<i_cache>>) /\ i_cache' = i_cache
    /\ UNCHANGED <<func_list, M, N, results, flag, trace, part, csim_results, failed>>

AllValid ==
    /\ pc_cache = "call" /\ i_cache > Len(func_list)
    /\ Emit(<<0>>)
    /\ UNCHANGED <<func_list, M, N, A, B, i_cache, results, flag, trace, part,
                   csim_results, ran, failed>>

CacheNext ==
    \/ Start \/ RunTracegen \/ Filter \/ (\E works \in BOOLEAN : Simulate(works))
    \/ EmitResults \/ sigalrm_handler
    \/ initMatrix \/ initMatrixOverrun \/ CallNext \/ AllValid

CacheSpec == CacheInit /\ [][CacheNext]_cachevars

-----------------------------------------------------------------------------

Survived(k) == func_list[k].does # "dies"
Passed == {k \in DOMAIN func_list : func_list[k].correct}
LastOf(S) == CHOOSE k \in S : \A l \in S : l <= k

\* A function counts as correct if and only if it left the transpose of its
\* matrix, whatever the others did, unless it killed its process; its misses
\* are those of its whole trace, and only a csim-ref that fails gives it those
\* of an earlier one.  What is emitted is the result of the function that was
\* submitted: INT_MAX misses if it failed, 0:0 after a timeout.  tracegen
\* alone returns the first function after which the matrices do not agree.
JudgedByItsOwnRun ==
    /\ \A k \in DOMAIN ran : k < i_cache /\ Survived(k) /\ pc_cache # "call" /\ Len(output) # 1
         => (func_list[k].correct <=> ran[k])
    /\ \A k \in Passed : k < i_cache =>
         IF k \in failed
         THEN func_list[k].misses[1] \in {0} \cup {l \in Passed : l < k}
         ELSE /\ func_list[k].misses[1] = k
              /\ Survived(k) => func_list[k].misses[2] = 4
    /\ Len(output) = 2 /\ output # <<0, <<0, 0>>>> =>
         LET mine == {k \in Passed : func_list[k].submit}
         IN  output = IF mine = {} THEN <<0, INT_MAX>> ELSE <<1, func_list[LastOf(mine)].misses>>
    /\ Len(output) = 1 /\ output # <<139>> =>
         \A k \in DOMAIN func_list : k <= Len(ran) => (ran[k] <=> output[1] # k)

=============================================================================
