------------------------------- MODULE EvlLex -------------------------------
(***************************************************************************)
(* ECE449/src/lex.cpp: one line of an EasyVL file becomes tokens.          *)
(* A character stands for its class: "a" a letter or '_', "1" a digit,     *)
(* ";" any of the seven single characters, " " any space, "$", "/", and    *)
(* "#" whatever is not allowed.                                            *)
(***************************************************************************)
EXTENDS Integers, Sequences, FiniteSets, FiniteSetsExt

CONSTANT MaxLine    \* bound on the length of a line

ASSUME LexConstants == MaxLine \in Nat

VARIABLES line, i_lex,    \* the line and the index of the next character
          tokens_lex,
          state_lex       \* "scan", "eol" (the line is over) or "error"

lexvars == <<line, i_lex, tokens_lex, state_lex>>

Chars == {"a", "1", ";", " ", "$", "/", "#"}
NameChar == {"a", "1", "$"}
More == state_lex = "scan" /\ i_lex <= Len(line)

\* The first position from p on whose character is not in S.
EndOfRun(p, S) == Min({q \in p .. Len(line) + 1 : q > Len(line) \/ line[q] \notin S})
Push(type, to) ==
    /\ tokens_lex' = Append(tokens_lex, [type |-> type, text |-> SubSeq(line, i_lex, to - 1)])
    /\ i_lex' = to
    /\ UNCHANGED <<line, state_lex>>
Finish(s) == state_lex' = s /\ UNCHANGED <<line, i_lex, tokens_lex>>

LexInit ==
    /\ line \in UNION {[1 .. n -> Chars] : n \in 0 .. MaxLine}
    /\ i_lex = 1 /\ tokens_lex = << >> /\ state_lex = "scan"

Number == More /\ line[i_lex] = "1" /\ Push("NUMBER", EndOfRun(i_lex, {"1"}))

TwoSlashes == i_lex < Len(line) /\ line[i_lex + 1] = "/"
Comment == More /\ line[i_lex] = "/" /\ TwoSlashes /\ Finish("eol")
SingleSlash == More /\ line[i_lex] = "/" /\ ~TwoSlashes /\ Finish("error")

Space ==
    /\ More /\ line[i_lex] = " "
    /\ i_lex' = i_lex + 1 /\ UNCHANGED <<line, tokens_lex, state_lex>>
Single == More /\ line[i_lex] = ";" /\ Push("SINGLE", i_lex + 1)

Bug_Name == More /\ line[i_lex] = "a" /\ Push("NAME", EndOfRun(i_lex, {"a", "$"}))
Name == More /\ line[i_lex] = "a" /\ Push("NAME", EndOfRun(i_lex, NameChar))

Invalid == More /\ line[i_lex] \in {"$", "#"} /\ Finish("error")
EndOfLine == state_lex = "scan" /\ i_lex > Len(line) /\ Finish("eol")

LexNext ==
    Number \/ Comment \/ SingleSlash \/ Space \/ Single \/ Name \/ Invalid \/ EndOfLine

LexSpec == LexInit /\ [][LexNext]_lexvars

-----------------------------------------------------------------------------
(* The same, said of the positions of the line *)

\* Where the comment, and where the first thing that is not allowed, begins.
CommentAt ==
    Min({Len(line) + 1} \cup {p \in 1 .. Len(line) - 1 : line[p] = "/" /\ line[p + 1] = "/"})
InName(p) == \E q \in 1 .. p : line[q] = "a" /\ \A r \in q .. p : line[r] \in NameChar
Illegal(p) == line[p] \in {"/", "#"} \/ (line[p] = "$" /\ ~InName(p))
IllegalAt == Min({Len(line) + 1} \cup {p \in 1 .. Len(line) : Illegal(p)})

\* The kind of token that a position belongs to, and where a token begins and
\* ends: neighbours of one kind share a token, but for single characters.
Kind(p) == CASE InName(p) -> "NAME" [] line[p] = "1" /\ ~InName(p) -> "NUMBER"
             [] line[p] = ";" -> "SINGLE" [] OTHER -> "none"
Starts(n) == {p \in 1 .. n : /\ Kind(p) # "none"
                             /\ p > 1 => Kind(p) = "SINGLE" \/ Kind(p) # Kind(p - 1)}
Last(p, n) == IF Kind(p) = "SINGLE" THEN p
              ELSE Max({q \in p .. n : \A r \in p .. q : Kind(r) = Kind(p)})
TokenAt(p, n) == [type |-> Kind(p), text |-> SubSeq(line, p, Last(p, n))]

\* The tokens of a line are its longest names and numbers and its single
\* characters, in their order, up to the comment; the line is refused if and
\* only if something that is not allowed comes before the comment.
LexedAsWritten ==
    /\ state_lex = "eol" =>
        LET n == CommentAt - 1
        IN  /\ CommentAt <= IllegalAt
            /\ Len(tokens_lex) = Cardinality(Starts(n))
            /\ \A p \in Starts(n) : tokens_lex[Cardinality(Starts(p))] = TokenAt(p, n)
    /\ state_lex = "error" => IllegalAt < CommentAt

=============================================================================
