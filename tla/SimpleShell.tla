----------------------------- MODULE SimpleShell ----------------------------
(***************************************************************************)
(* cs351/examples/processes/simple_shell1.c and simple_shell2.c: a loop    *)
(* that reads a command, runs it in a child and waits for it; the second   *)
(* program does not wait for a command whose last word begins with an      *)
(* ampersand.   Neither counts the words: the ten pointers of argv are     *)
(* full with the tenth, and argv[10] is written behind them, after which   *)
(* the model stops.                                                        *)
(* The input is a terminal or a pipe.   Of a file, a child whose execvp    *)
(* failed may move the offset it shares with the shell when it exits.      *)
(***************************************************************************)
EXTENDS Integers, Sequences, FiniteSets, SequencesExt

CONSTANT MaxLines     \* bound: lines of input

VARIABLES shell,      \* 1 or 2
          pc,         \* "loop", "parse", "fork", "waitpid", "end", "killed",
                      \* "overrun"
          lines,      \* lines read so far
          eof,        \* feof(stdin)
          buf,        \* the command in buf: its line, and what strtok left of it
          bg, pid,    \* locals; pid is the number of a child, or -1
          child,      \* the children, in the order of fork
          ran         \* history: the line of each child

vars == <<shell, pc, lines, eof, buf, bg, pid, child, ran>>

\* What the shells tell apart in a line: whether its first and its last word
\* begin with an ampersand, "quit" as its first, no words at all, and ten or more.
Commands == {"cmd", "cmd &", "& cmd", "&"}
Kind == Commands \cup {"blank", "quit", "long"}
Uninit == [line |-> 0, kind |-> "blank"]
Background(kind) == kind \in {"cmd &", "&"}

\* What a second strtok finds where the first has put an end to a word.
FirstWord(kind) ==
    CASE kind = "cmd &" -> "cmd" [] kind = "& cmd" -> "&" [] OTHER -> kind

Init ==
    /\ shell \in 1 .. 2
    /\ pc = "loop" /\ lines = 0 /\ eof = FALSE
    /\ buf = Uninit /\ bg = FALSE /\ pid = 0
    /\ child = <<>> /\ ran = <<>>

\* while (!feof(stdin)) and fgets.  The last line may lack its newline, and
\* then feof is true at once.
fgets ==
    /\ pc = "loop" /\ ~eof /\ lines < MaxLines
    /\ \E k \in Kind : buf' = [line |-> lines + 1, kind |-> k]
    /\ eof' \in BOOLEAN
    /\ lines' = lines + 1 /\ pc' = "parse"
    /\ UNCHANGED <<shell, bg, pid, child, ran>>

\* fgets is NULL, and buf still holds the first word of the command before it, or
\* anything if there was none.
fgetsNULL ==
    /\ pc = "loop" /\ ~eof
    /\ eof' = TRUE /\ pc' = "parse"
    /\ IF lines = 0 THEN \E k \in Kind : buf' = [line |-> 0, kind |-> k]
       ELSE buf' = [buf EXCEPT !.kind = FirstWord(buf.kind)]
    /\ UNCHANGED <<shell, lines, bg, pid, child, ran>>

Leave ==
    /\ pc = "loop" /\ eof /\ pc' = "end"
    /\ UNCHANGED <<shell, lines, eof, buf, bg, pid, child, ran>>

\* strtok, the test of the last argument, the test for quit.
parse ==
    /\ pc = "parse" /\ buf.kind # "long" /\ (shell = 1 \/ buf.kind # "blank")
    /\ bg' = (shell = 2 /\ Background(buf.kind))
    /\ pc' = IF buf.kind = "quit" THEN "end" ELSE "fork"
    /\ UNCHANGED <<shell, lines, eof, buf, pid, child, ran>>

\* simple_shell2.c reads and may write through argv[-1], whatever is there.
parseBlank ==
    /\ pc = "parse" /\ shell = 2 /\ buf.kind = "blank"
    /\ \/ pc' = "killed" /\ UNCHANGED bg
       \/ pc' = "fork" /\ bg' \in BOOLEAN
    /\ UNCHANGED <<shell, lines, eof, buf, pid, child, ran>>

\* argv[++i] = strtok(...) with i = 9.
parseLong ==
    /\ pc = "parse" /\ buf.kind = "long"
    /\ pc' = "overrun"
    /\ UNCHANGED <<shell, lines, eof, buf, bg, pid, child, ran>>

AfterFork == IF bg THEN "loop" ELSE "waitpid"

fork ==
    /\ pc = "fork" /\ pc' = AfterFork
    /\ child' = Append(child, "running")
    /\ ran' = Append(ran, [line |-> buf.line, bg |-> bg])
    /\ pid' = Len(child')
    /\ UNCHANGED <<shell, lines, eof, buf, bg>>

ForkFails ==
    /\ pc = "fork" /\ pc' = AfterFork
    /\ pid' = -1
    /\ UNCHANGED <<shell, lines, eof, buf, bg, child, ran>>

Bug_waitpid_any ==    \* wait(NULL)
    /\ pc = "waitpid" /\ pc' = "loop"
    /\ \E c \in DOMAIN child : child[c] = "zombie" /\ child' = [child EXCEPT ![c] = "reaped"]
    /\ UNCHANGED <<shell, lines, eof, buf, bg, pid, ran>>

\* waitpid(-1) waits for any child.
waitpid ==
    /\ pc = "waitpid" /\ pc' = "loop"
    /\ \E c \in DOMAIN child :
        /\ pid \in {c, -1} /\ child[c] = "zombie"
        /\ child' = [child EXCEPT ![c] = "reaped"]
    /\ UNCHANGED <<shell, lines, eof, buf, bg, pid, ran>>

waitpidFails ==
    /\ pc = "waitpid" /\ pid = -1 /\ ToSet(child) \subseteq {"reaped"}
    /\ pc' = "loop"
    /\ UNCHANGED <<shell, lines, eof, buf, bg, pid, child, ran>>

Shell ==
    \/ fgets \/ fgetsNULL \/ Leave \/ parse \/ parseBlank \/ parseLong
    \/ fork \/ ForkFails \/ waitpid \/ waitpidFails

\* The command ends, or execvp fails and the child exits.
Child(c) ==
    /\ child[c] = "running" /\ child' = [child EXCEPT ![c] = "zombie"]
    /\ UNCHANGED <<shell, pc, lines, eof, buf, bg, pid, ran>>

Next == Shell \/ \E c \in DOMAIN child : Child(c)

Spec == Init /\ [][Next]_vars

-----------------------------------------------------------------------------
(* Properties *)

\* When a shell reads the next line, each command it waited for has ended and
\* been reaped, whatever became of the commands in the background.
ForegroundReaped ==
    pc = "loop" =>
        \A c \in DOMAIN child : (shell = 1 \/ ~ran[c].bg) => child[c] = "reaped"

\* No command is run twice or out of order, except that the last one is run
\* again when the end of the input is found by fgets.
RunsInOrder ==
    \A c \in 2 .. Len(ran) :
        \/ ran[c - 1].line < ran[c].line
        \/ ran[c - 1].line = ran[c].line /\ c = Len(ran) /\ eof

\* A shell comes to the end of its input, if no line is too long for argv.
Ends == <>(pc \in {"end", "killed", "overrun"})

=============================================================================
