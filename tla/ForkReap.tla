------------------------------ MODULE ForkReap ------------------------------
(***************************************************************************)
(* cs351/examples/processes/csapp_forks.c, fork10 to fork15: N children,   *)
(* reaped in any order, in order, after SIGINT, or by a SIGCHLD handler.   *)
(***************************************************************************)
EXTENDS Integers, Sequences, FiniteSets, SequencesExt

CONSTANT N

VARIABLES option,     \* which of the functions runs
          pc, i,      \* the parent: where, and its loop counter
          child,      \* "none", "running", "zombie", "reaped"
          failed,     \* children whose fork returned -1
          sigint,     \* children that SIGINT was sent to
          sigchld,    \* SIGCHLD is pending
          handler,    \* the SIGCHLD handler is running
          ccount,
          reports     \* what was printed of each wait

vars == <<option, pc, i, child, failed, sigint, sigchld, handler, ccount, reports>>

Children == 1 .. N
Counting == option \in {14, 15}
Killing == option \in {12, 13}
InState(s) == {c \in Children : child[c] = s}
Unreaped == InState("running") \cup InState("zombie")

Init ==
    /\ option \in 10 .. 15
    /\ pc = "fork" /\ i = 1
    /\ child = [c \in Children |-> "none"]
    /\ failed = {} /\ sigint = {}
    /\ sigchld = FALSE /\ handler = FALSE
    /\ ccount = N
    /\ reports = <<>>

\* A loop from 0 to N - 1, and where it leads.
Step(there) ==
    IF i < N THEN i' = i + 1 /\ UNCHANGED pc ELSE i' = 1 /\ pc' = there

-----------------------------------------------------------------------------
(* The parent; its handler interrupts it between any two steps *)

Reaping == IF Counting THEN "test" ELSE IF Killing THEN "kill" ELSE "reap"

fork ==
    /\ pc = "fork" /\ ~handler
    /\ child' = [child EXCEPT ![i] = "running"]
    /\ Step(Reaping)
    /\ UNCHANGED <<option, failed, sigint, sigchld, handler, ccount, reports>>

ForkFails ==
    /\ pc = "fork" /\ ~handler
    /\ failed' = failed \cup {i}
    /\ Step(Reaping)
    /\ UNCHANGED <<option, child, sigint, sigchld, handler, ccount, reports>>

\* kill(-1, SIGINT) goes to every process of this user.
kill ==
    /\ pc = "kill"
    /\ sigint' = sigint \cup (IF i \in failed THEN Children \ failed ELSE {i})
    /\ Step("reap")
    /\ UNCHANGED <<option, child, failed, sigchld, handler, ccount, reports>>

Status(c) ==
    CASE option \in {10, 11} -> 100 + c
      [] option = 12 -> "abnormal"
      [] OTHER -> 0

\* waitpid of a child that could not be forked waits for any.
WaitsFor == IF option = 11 /\ i \notin failed THEN {i} ELSE Children

wait ==
    /\ pc = "reap"
    /\ \E c \in WaitsFor \cap InState("zombie") :
        /\ child' = [child EXCEPT ![c] = "reaped"]
        /\ reports' = Append(reports, [wpid |-> c, status |-> Status(c)])
    /\ Step(IF option = 13 THEN "loop" ELSE "done")
    /\ UNCHANGED <<option, failed, sigint, sigchld, handler, ccount>>

\* wait is -1, and the status of the one before is printed again.
WaitFails ==
    /\ pc = "reap" /\ WaitsFor \cap Unreaped = {}
    /\ reports' = Append(reports, [wpid |-> -1, status |-> {}])
    /\ Step(IF option = 13 THEN "loop" ELSE "done")
    /\ UNCHANGED <<option, child, failed, sigint, sigchld, handler, ccount>>

\* while (ccount > 0) pause();  Signals may come between test and pause.
Test ==
    /\ ~handler
    /\ \/ pc = "test" /\ pc' = IF ccount > 0 THEN "call" ELSE "done"
       \/ pc = "call" /\ pc' = "pause"
    /\ UNCHANGED <<option, i, child, failed, sigint, sigchld, handler, ccount, reports>>

-----------------------------------------------------------------------------
(* child_handler of fork14 waits once, child_handler2 of fork15 in a loop *)

Deliver ==
    /\ Counting /\ sigchld /\ ~handler /\ pc # "done"
    /\ sigchld' = FALSE /\ handler' = TRUE
    /\ UNCHANGED <<option, pc, i, child, failed, sigint, ccount, reports>>

Return ==
    /\ handler' = FALSE
    /\ pc' = IF pc = "pause" THEN "test" ELSE pc

Bug_child_handler_once ==
    /\ handler
    /\ \E c \in InState("zombie") : child' = [child EXCEPT ![c] = "reaped"]
    /\ ccount' = ccount - 1
    /\ Return
    /\ UNCHANGED <<option, i, failed, sigint, sigchld, reports>>

child_handler ==
    /\ handler
    /\ \E c \in InState("zombie") : child' = [child EXCEPT ![c] = "reaped"]
    /\ ccount' = ccount - 1
    /\ IF option = 14 THEN Return ELSE UNCHANGED <<handler, pc>>
    /\ UNCHANGED <<option, i, failed, sigint, sigchld, reports>>

Bug_HandlerNoChild == \* counts before it looks at the result, as fork14's does
    /\ handler /\ Unreaped = {}
    /\ ccount' = ccount - 1
    /\ Return
    /\ UNCHANGED <<option, i, child, failed, sigint, sigchld, reports>>

HandlerNoChild ==
    /\ handler /\ Unreaped = {}
    /\ ccount' = IF option = 14 THEN ccount - 1 ELSE ccount
    /\ Return
    /\ UNCHANGED <<option, i, child, failed, sigint, sigchld, reports>>

Parent ==
    \/ fork \/ ForkFails \/ kill \/ wait \/ WaitFails \/ Test
    \/ Deliver \/ child_handler \/ HandlerNoChild

\* A child exits by itself, or when SIGINT ends its loop.
Child(c) ==
    /\ child[c] = "running" /\ (Killing => c \in sigint)
    /\ child' = [child EXCEPT ![c] = "zombie"]
    /\ sigchld' = TRUE
    /\ UNCHANGED <<option, pc, i, failed, sigint, handler, ccount, reports>>

Next == Parent \/ \E c \in Children : Child(c)

Spec == Init /\ [][Next]_vars

-----------------------------------------------------------------------------
(* Properties *)

\* Every wait reports a child of its own, as it ended, in order in fork11; only
\* where fork failed does wait fail.  A handler counts the children it reaps.
EachStatusOnce ==
    /\ \A m, n \in DOMAIN reports :
        m # n /\ reports[m].wpid # -1 => reports[m].wpid # reports[n].wpid
    /\ \A m \in DOMAIN reports :
        LET r == reports[m]
        IN  /\ r.wpid = -1 => failed # {}
            /\ r.wpid # -1 => r.status = Status(r.wpid) /\ child[r.wpid] = "reaped"
            /\ option = 11 /\ failed = {} => r.wpid = m
    /\ Counting => ccount = N - Cardinality(InState("reaped"))

\* The last signal came between the test of ccount and pause.
WakeupLost == pc = "pause" /\ ~sigchld /\ ~handler /\ ccount = 0

\* No child stays a zombie, except with fork14's handler, which takes one
\* child for each signal it is called for.
EveryChildReaped ==
    option # 14 => \A c \in Children : child[c] = "zombie" ~> child[c] = "reaped"

\* The function comes to its end, fork13 to its last loop, unless the last
\* signal was lost, signals were merged (fork14), or a fork failed.
Ends ==
    <>[](\/ pc \in {"done", "loop"} \/ WakeupLost \/ failed # {}
         \/ option = 14 /\ InState("zombie") # {})

=============================================================================
