------------------------------ MODULE ForkTree ------------------------------
(***************************************************************************)
(* cs351/examples/processes/csapp_forks.c, fork1 to fork9, fork16 and      *)
(* fork17: processes that fork, print and exit.                            *)
(* A function is a sequence of steps; a process is named by the forks that *)
(* led to it, << >> is the one that main runs in.  printf writes at once   *)
(* on a terminal; otherwise the text stays in a buffer that fork copies    *)
(* and exit writes.                                                        *)
(***************************************************************************)
EXTENDS Integers, Sequences, FiniteSets, SequencesExt, TLC

CONSTANT Options       \* which of the functions run

VARIABLES option, terminal,
          at, var_x, buffer,    \* of each process: its step, x, and the buffer
          zombies, reaped,      \* processes that exited
          failed,               \* the processes one of whose forks failed
          out                   \* lines in the order in which they were written

treevars == <<option, terminal, at, var_x, buffer, zombies, reaped, failed, out>>

Say(s) == [does |-> "print", text |-> s]
\* Where the child goes on, where the parent.
Fork(child, parent) == [does |-> "fork", child |-> child, parent |-> parent]
Do(s) == [does |-> s]
Jump(k) == [does |-> "jump", to |-> k]
Exit == Do("exit")
Forever == Do("loop")

fork1 == <<Fork(2, 5), Do("++x"), Say("Child"), Jump(7), Do("--x"), Say("Parent"), Say("Bye"), Exit>>
fork2 == <<Say("L0"), Fork(3, 3), Say("L1"), Fork(5, 5), Say("Bye"), Exit>>
fork3 == <<Say("L0"), Fork(3, 3), Say("L1"), Fork(5, 5), Say("L2"), Fork(7, 7), Say("Bye"), Exit>>
fork4 == <<Say("L0"), Fork(7, 3), Say("L1"), Fork(7, 5), Say("L2"), Fork(7, 7), Say("Bye"), Exit>>
fork5 == <<Say("L0"), Fork(3, 7), Say("L1"), Fork(5, 7), Say("L2"), Fork(7, 7), Say("Bye"), Exit>>
fork6 == <<Fork(2, 2), Say("Cleaning up"), Exit>>     \* atexit(cleanup)
fork7 == <<Fork(2, 4), Say("Child"), Exit, Say("Parent"), Forever>>
fork8 == <<Fork(2, 4), Say("Child"), Forever, Say("Parent"), Exit>>
fork9 == <<Fork(2, 4), Say("HC"), Jump(7), Say("HP"), Do("wait"), Say("CT"), Say("Bye"), Exit>>
fork16 == <<Fork(3, 2), Fork(3, 5), Say("Child"), Forever, Exit>>
fork17 == <<Fork(2, 4), Say("Child"), Forever, Say("Parent"), Forever>>

Function ==
    CASE option = 1 -> fork1 [] option = 2 -> fork2 [] option = 3 -> fork3 [] option = 4 -> fork4
      [] option = 5 -> fork5 [] option = 6 -> fork6 [] option = 7 -> fork7 [] option = 8 -> fork8
      [] option = 9 -> fork9 [] option = 16 -> fork16 [] option = 17 -> fork17

TreeInit ==
    /\ option \in Options /\ terminal \in BOOLEAN
    /\ at = (<< >> :> 1) /\ var_x = (<< >> :> 1) /\ buffer = (<< >> :> << >>)
    /\ zombies = {} /\ reaped = {} /\ failed = {} /\ out = << >>

Processes == DOMAIN at
Exited == zombies \cup reaped
ChildrenOf(p) == {q \in Processes : q # << >> /\ Front(q) = p}

Running(p, does) ==
    p \in Processes \ Exited /\ Function[at[p]].does = does
This(p) == Function[at[p]]

Printed(p) ==
    LET line == [text |-> This(p).text, x |-> var_x[p]]
    IN  /\ Running(p, "print")
        /\ IF terminal THEN out' = Append(out, line) /\ UNCHANGED buffer
           ELSE buffer' = [buffer EXCEPT ![p] = Append(@, line)] /\ UNCHANGED out
        /\ at' = [at EXCEPT ![p] = @ + 1]
        /\ UNCHANGED <<option, terminal, var_x, zombies, reaped, failed>>

Bug_Forked(p) ==
    LET c == Append(p, Cardinality(ChildrenOf(p)) + 1)
    IN  /\ Running(p, "fork")
        /\ at' = (c :> This(p).child) @@ [at EXCEPT ![p] = This(p).parent]
        /\ var_x' = (c :> var_x[p]) @@ var_x
        /\ buffer' = (c :> << >>) @@ buffer
        /\ UNCHANGED <<option, terminal, zombies, reaped, failed, out>>

\* The child has a copy of x and of the buffer.
Forked(p) ==
    LET c == Append(p, Cardinality(ChildrenOf(p)) + 1)
    IN  /\ Running(p, "fork")
        /\ at' = (c :> This(p).child) @@ [at EXCEPT ![p] = This(p).parent]
        /\ var_x' = (c :> var_x[p]) @@ var_x
        /\ buffer' = (c :> buffer[p]) @@ buffer
        /\ UNCHANGED <<option, terminal, zombies, reaped, failed, out>>

\* -1 is not 0: the process goes on as a parent.
ForkFailed(p) ==
    /\ Running(p, "fork")
    /\ at' = [at EXCEPT ![p] = This(p).parent]
    /\ failed' = failed \cup {p}
    /\ UNCHANGED <<option, terminal, var_x, buffer, zombies, reaped, out>>

Silent(p) ==
    /\ \/ Running(p, "jump") /\ at' = [at EXCEPT ![p] = This(p).to] /\ UNCHANGED var_x
       \/ /\ Running(p, "++x") \/ Running(p, "--x")
          /\ var_x' = [var_x EXCEPT ![p] = IF This(p).does = "++x" THEN @ + 1 ELSE @ - 1]
          /\ at' = [at EXCEPT ![p] = @ + 1]
    /\ UNCHANGED <<option, terminal, buffer, zombies, reaped, failed, out>>

\* wait takes a zombie, or fails if there is no child left.
Waited(p) ==
    /\ Running(p, "wait")
    /\ \/ \E c \in ChildrenOf(p) \cap zombies :
            zombies' = zombies \ {c} /\ reaped' = reaped \cup {c}
       \/ ChildrenOf(p) \subseteq reaped /\ UNCHANGED <<zombies, reaped>>
    /\ at' = [at EXCEPT ![p] = @ + 1]
    /\ UNCHANGED <<option, terminal, var_x, buffer, failed, out>>

Exiting(p) ==
    /\ Running(p, "exit")
    /\ zombies' = zombies \cup {p}
    /\ out' = out \o buffer[p] /\ buffer' = [buffer EXCEPT ![p] = << >>]
    /\ UNCHANGED <<option, terminal, at, var_x, reaped, failed>>

TreeNext ==
    \E p \in Processes :
        Printed(p) \/ Forked(p) \/ ForkFailed(p) \/ Silent(p) \/ Waited(p) \/ Exiting(p)

-----------------------------------------------------------------------------
(* Properties *)

\* How many processes come from step k and exit, and how many lines with a text
\* they write: what is in a buffer is written by each process that has a copy.
After(k) == IF Function[k].does = "jump" THEN Function[k].to ELSE k + 1
Exits[k \in 1 .. Len(Function)] ==
    LET f == Function[k]
    IN  CASE f.does = "exit" -> 1 [] f.does = "loop" -> 0
          [] f.does = "fork" -> Exits[f.child] + Exits[f.parent]
          [] OTHER -> Exits[After(k)]
LinesOf(text) ==
    LET lines[k \in 1 .. Len(Function)] ==
            LET f == Function[k]
            IN  CASE f.does \in {"exit", "loop"} -> 0
                  [] f.does = "fork" -> lines[f.child] + lines[f.parent]
                  [] f.does = "print" /\ f.text = text ->
                        lines[After(k)] + (IF terminal THEN 1 ELSE Exits[k])
                  [] OTHER -> lines[After(k)]
    IN  lines[1]

Written(text) == {n \in DOMAIN out : out[n].text = text}
Texts == {Function[k].text : k \in {l \in DOMAIN Function : Function[l].does = "print"}}
AllDone == \A p \in Processes : p \in Exited \/ Function[at[p]].does = "loop"

\* Each line has been written as often as the tree of forks says, on a terminal
\* and where buffers are copied; no level was announced before the one above;
\* the two copies of x are apart; and the parent that waited said so after all
\* that its child said.
LinesOfTheTree ==
    /\ failed = {} =>
        /\ \A text \in Texts : Cardinality(Written(text)) = LinesOf(text)
        /\ \A m \in Written("CT") : \E n, l \in 1 .. m : out[n].text = "HC" /\ out[l].text = "Bye"
    /\ \A lower, upper \in Texts : <<upper, lower>> \in {<<"L0", "L1">>, <<"L1", "L2">>} =>
         \A m \in Written(lower) : \E n \in Written(upper) : n < m
    /\ option = 1 => \A m \in DOMAIN out :
         out[m].x \in CASE out[m].text = "Child" -> {2} [] out[m].text = "Parent" -> {0} [] OTHER -> {0, 2}

\* Every process exits or comes to a loop that it never leaves, fork9's parent
\* also when its fork fails, and then the lines are those of the tree.
Ends == <>[](AllDone /\ LinesOfTheTree)

=============================================================================
