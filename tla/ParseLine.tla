------------------------------ MODULE ParseLine -----------------------------
(***************************************************************************)
(* cs351/mps/03/tsh.c as handed out: the read/eval loop, eval, which shows *)
(* what parseline made of the line, and parseline.                         *)
(* A character is "a" (any that means nothing), " ", "'", "&" or "n", the  *)
(* newline.                                                                *)
(*                                                                         *)
(* The comments of tsh.c say otherwise in three places.   "Characters      *)
(* enclosed in single quotes are treated as a single argument" (184): only *)
(* a quote that begins an argument encloses anything, one inside a word is *)
(* an ordinary character and spaces behind it separate.   A quoted         *)
(* argument that begins with & and stands last is dropped like a bare one. *)
(* "Ignore blank line" (228): the 1 that is returned is eval's bg, which   *)
(* reports a background job.   And argv has MAXARGS pointers, which        *)
(* parseline does not count: a line of MAXARGS arguments puts a pointer    *)
(* behind it, after which the model stops.                                 *)
(***************************************************************************)
EXTENDS Integers, Sequences, FiniteSets, FiniteSetsExt

CONSTANTS MAXLINE, MAXARGS, \* 1024 and 128 in the code
          Typed             \* what may be typed

Char == {"a", " ", "'", "&", "n"}

ASSUME ParseConstants ==
    /\ MAXLINE \in Nat /\ MAXLINE >= 2 /\ MAXARGS \in Nat \ {0}
    /\ Typed \subseteq Seq(Char)

VARIABLES stdin, typed,     \* what is left of the input, and all of it
          cmdline,          \* what fgets returned
          buf, argv,        \* parseline's position in its copy, from 1, and result
          evals,            \* what eval has shown: bg and argv of each line
          pc_parse          \* "read", "parse", "overrun" or "exited"

parsevars == <<stdin, typed, cmdline, buf, argv, evals, pc_parse>>

ParseInit ==
    /\ typed \in Typed /\ stdin = typed
    /\ cmdline = << >> /\ buf = 1 /\ argv = << >> /\ evals = << >>
    /\ pc_parse = "read"

\* The least of the positions, end if there is none.
FirstIn(S, end) == Min(S \cup {end})
Positions(s, c, from) == {p \in from .. Len(s) : s[p] = c}
AfterSpaces(s, from) == FirstIn({p \in from .. Len(s) : s[p] # " "}, Len(s) + 1)

\* What fgets takes: up to the newline, and at most MAXLINE - 1 characters.
Taken == FirstIn(Positions(stdin, "n", 1), Len(stdin) + 1)
AtEOF == Taken > Len(stdin) /\ Len(stdin) < MAXLINE - 1

\* The last character is taken for the newline: a space replaces it.
ReadLine ==
    LET n == IF Taken > MAXLINE - 1 THEN MAXLINE - 1 ELSE Taken
    IN  /\ pc_parse = "read" /\ ~AtEOF
        /\ cmdline' = [SubSeq(stdin, 1, n) EXCEPT ![n] = " "]
        /\ stdin' = SubSeq(stdin, n + 1, Len(stdin))
        /\ buf' = AfterSpaces(cmdline', 1)
        /\ argv' = << >>
        /\ pc_parse' = "parse"
        /\ UNCHANGED <<typed, evals>>

\* A line that the end of the file cuts short is not evaluated.
EndOfInput ==
    /\ pc_parse = "read" /\ AtEOF
    /\ pc_parse' = "exited" /\ stdin' = << >>
    /\ UNCHANGED <<typed, cmdline, buf, argv, evals>>

Quoted == buf <= Len(cmdline) /\ cmdline[buf] = "'"
Begin == IF Quoted THEN buf + 1 ELSE buf
Delim == FirstIn(Positions(cmdline, IF Quoted THEN "'" ELSE " ", Begin), Len(cmdline) + 1)

Bug_TakeArg ==
    /\ pc_parse = "parse" /\ Delim <= Len(cmdline)
    /\ argv' = Append(argv, SubSeq(cmdline, Begin, Delim - 1))
    /\ buf' = Delim + 1
    /\ pc_parse' = IF Len(argv') = MAXARGS THEN "overrun" ELSE "parse"
    /\ UNCHANGED <<stdin, typed, cmdline, evals>>

\* One turn of the loop over delimiters.  After MAXARGS arguments argv has no
\* room for its final NULL, nor for one more: what follows is undefined.
TakeArg ==
    /\ pc_parse = "parse" /\ Delim <= Len(cmdline)
    /\ argv' = Append(argv, SubSeq(cmdline, Begin, Delim - 1))
    /\ buf' = AfterSpaces(cmdline, Delim + 1)
    /\ pc_parse' = IF Len(argv') = MAXARGS THEN "overrun" ELSE "parse"
    /\ UNCHANGED <<stdin, typed, cmdline, evals>>

AllButLast(args) == SubSeq(args, 1, Len(args) - 1)

\* The end of parseline, and eval.
ShowCommand ==
    LET last == argv[Len(argv)]
        ampersand == argv # << >> /\ last # << >> /\ last[1] = "&"
    IN  /\ pc_parse = "parse" /\ Delim > Len(cmdline)
        /\ evals' = Append(evals, [bg |-> argv = << >> \/ ampersand,
                                   argv |-> IF ampersand THEN AllButLast(argv) ELSE argv])
        /\ pc_parse' = "read"
        /\ UNCHANGED <<stdin, typed, cmdline, buf, argv>>

ParseNext == ReadLine \/ EndOfInput \/ TakeArg \/ ShowCommand

ParseSpec == ParseInit /\ [][ParseNext]_parsevars

-----------------------------------------------------------------------------
(* The same, said character by character *)

\* The k-th of a set of positions.
Nth(S, k) == CHOOSE p \in S : Cardinality({q \in S : q <= p}) = k

\* Lines begin after each newline, and after each MAXLINE - 1 characters since;
\* each is complete but the last, which may be empty.
AfterNewlines == {p \in 2 .. Len(typed) + 1 : typed[p - 1] = "n"}
Begins ==
    {p \in 1 .. Len(typed) + 1 :
        LET s == Max({1} \cup {q \in AfterNewlines : q <= p})
        IN  (p - s) % (MAXLINE - 1) = 0}
LineAt(p) == SubSeq(typed, p, Min({q \in Begins : q > p}) - 1)
Commands == [k \in 1 .. Cardinality(Begins) - 1 |-> LineAt(Nth(Begins, k))]

\* Outside of arguments, in a word, or between quotes, after p characters.  The
\* last character of a line counts as a space.
CharOf(s, p) == IF p = Len(s) THEN " " ELSE s[p]
After(mode, c) ==
    CASE mode = "quote" -> IF c = "'" THEN "out" ELSE "quote"
      [] mode = "word" -> IF c = " " THEN "out" ELSE "word"
      [] OTHER -> IF c = " " THEN "out" ELSE IF c = "'" THEN "quote" ELSE "word"
Mode(s) ==
    LET m[p \in 0 .. Len(s)] == IF p = 0 THEN "out" ELSE After(m[p - 1], CharOf(s, p))
    IN  m
\* An argument goes from where the mode leaves "out" to where it is "out"
\* again; what a quote without its partner opens is no argument.
Ends(s, p) == {q \in p .. Len(s) : Mode(s)[q] = "out"}
From(s) ==
    {p \in 1 .. Len(s) : Mode(s)[p - 1] = "out" /\ Mode(s)[p] # "out" /\ Ends(s, p) # {}}
ArgumentAt(s, p) ==
    SubSeq(s, IF Mode(s)[p] = "quote" THEN p + 1 ELSE p, Min(Ends(s, p)) - 1)
Arguments(s) == [k \in 1 .. Cardinality(From(s)) |-> ArgumentAt(s, Nth(From(s), k))]
IsBackground(args) == args # << >> /\ args[Len(args)] # << >> /\ args[Len(args)][1] = "&"

\* Each complete line is evaluated once, in the order in which they were typed,
\* with the arguments that it has read from left to right.  An argument that
\* begins with & and stands last is not one of them and asks for the
\* background, and so does a blank line.  This ends only with the input, or at
\* a line of MAXARGS arguments or more, of which none is ever evaluated.
CommandsAsTyped ==
    /\ Len(evals) <= Len(Commands)
    /\ pc_parse = "exited" => Len(evals) = Len(Commands)
    /\ \A k \in DOMAIN evals :
        LET args == Arguments(Commands[k])
        IN  /\ Len(args) < MAXARGS
            /\ evals[k].bg = (args = << >> \/ IsBackground(args))
            /\ evals[k].argv = IF IsBackground(args) THEN AllButLast(args) ELSE args
    /\ pc_parse = "overrun" =>
        /\ Len(evals) < Len(Commands)
        /\ Len(Arguments(Commands[Len(evals) + 1])) >= MAXARGS

=============================================================================
