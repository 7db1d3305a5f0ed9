---------------------------- MODULE MCSequential ----------------------------
(***************************************************************************)
(* The programs that run by themselves: the hash table, the parts of the   *)
(* shell skeleton that are written, the EasyVL simulator, the timing       *)
(* package and the score of the malloc driver, and the cache lab's tests.  *)
(* One of them runs; the variables of the others keep their first value.   *)
(***************************************************************************)
EXTENDS JobList, Fcyc, HashTable, CacheLab, CycleCounter, DriverScore, ParseLine, EvlLex

CONSTANTS Programs,                                         \* those that take part
          CYCLES, INT_BITS                                  \* EvlSim

VARIABLES which,
          text, tokens, t_evl, phase, width, name, pins, wire_list, component_list,
          nets, array_pins, pin_lookup, dffs, cycle, j_evl, files, left

Evl == INSTANCE MCEvl WITH t <- t_evl, j <- j_evl

evlvars == <<text, tokens, t_evl, phase, width, name, pins, wire_list, component_list,
             nets, array_pins, pin_lookup, dffs, cycle, j_evl, files, left>>
seqvars == <<which, vars, fcycvars, hashvars, lexvars, evlvars, clockvars, parsevars, cachevars,
             scorevars>>

\* The others do not matter: each is left at one of its initial states.
Idle ==
    /\ IF which = "hash" THEN TRUE ELSE ht = make_hashtable(1)
    /\ IF which = "lex" THEN TRUE ELSE line = << >>
    /\ IF which = "fcyc" THEN TRUE
       ELSE kbest = 1 /\ maxsamples = 2 /\ epsilon = 0 /\ cache_bytes = 8
    /\ IF which = "clock" THEN TRUE ELSE hi = 0 /\ lo = 0
    /\ IF which = "parse" THEN TRUE ELSE typed = << >>
    /\ IF which = "cache" THEN TRUE
       ELSE func_list = << >> /\ M = 0 /\ N = 0 /\ pc_cache = "tracegen" /\ csim_results = << >>
    /\ IF which = "score" THEN TRUE ELSE verbose = FALSE /\ run_libc = FALSE

SeqInit ==
    /\ which \in Programs /\ Idle
    /\ Init /\ FcycInit /\ HashInit /\ LexInit /\ ClockInit /\ ParseInit /\ CacheInit
    /\ ScoreInit
    /\ IF which = "evl" THEN Evl!MCInit \/ Evl!CircuitInit ELSE Evl!SynInit({<< >>}) /\ Evl!SimInit({<< >>})

JobStep == which = "jobs" /\ Next /\ UNCHANGED <<which, fcycvars, hashvars, lexvars, evlvars, clockvars, parsevars, cachevars, scorevars>>
FcycStep == which = "fcyc" /\ FcycNext /\ UNCHANGED <<which, vars, hashvars, lexvars, evlvars, clockvars, parsevars, cachevars, scorevars>>
HashStep == which = "hash" /\ HashNext /\ UNCHANGED <<which, vars, fcycvars, lexvars, evlvars, clockvars, parsevars, cachevars, scorevars>>
LexStep == which = "lex" /\ LexNext /\ UNCHANGED <<which, vars, fcycvars, hashvars, evlvars, clockvars, parsevars, cachevars, scorevars>>
EvlStep == which = "evl" /\ Evl!EvlNext /\ UNCHANGED <<which, vars, fcycvars, hashvars, lexvars, clockvars, parsevars, cachevars, scorevars>>
ClockStep == which = "clock" /\ ClockNext /\ UNCHANGED <<which, vars, fcycvars, hashvars, lexvars, evlvars, parsevars, cachevars, scorevars>>
ParseStep == which = "parse" /\ ParseNext /\ UNCHANGED <<which, vars, fcycvars, hashvars, lexvars, evlvars, clockvars, cachevars, scorevars>>
CacheStep == which = "cache" /\ CacheNext /\ UNCHANGED <<which, vars, fcycvars, hashvars, lexvars, evlvars, clockvars, parsevars, scorevars>>
ScoreStep == which = "score" /\ ScoreNext /\ UNCHANGED <<which, vars, fcycvars, hashvars, lexvars, evlvars, clockvars, parsevars, cachevars>>

SeqNext ==
    JobStep \/ FcycStep \/ HashStep \/ LexStep \/ EvlStep \/ ClockStep \/ ParseStep \/ CacheStep
    \/ ScoreStep

SeqSpec == SeqInit /\ [][SeqNext]_seqvars

-----------------------------------------------------------------------------
(* The properties of the programs; those of the extended modules are there *)

\* syn.cpp, net.cpp and sim.cpp: the netlist is that of the text, and what is
\* shown of it is what the circuit does, if it is in the order sim.cpp needs.
SimulatesTheText == []Evl!NetlistIsText /\ Evl!ImplementsCircuit

-----------------------------------------------------------------------------
(* Constants *)

CONSTANTS k1, k2, k3

\* Two keys meet in a table of two buckets, all three in a table of one.
MCHash == [k \in Keys |-> IF k = k2 THEN 1 ELSE IF k = k1 THEN 4 ELSE 2]
MCNode == 1 .. Cardinality(Keys) + 1

\* All short inputs, and longer ones that fill the line, argv or both.
Pieces == {<<"a", " ">>, <<"'", "'">>, <<"a", "'">>, <<" ", "&">>, <<"n", "a">>}
MCTyped == UNION {[1 .. n -> {"a", " ", "'", "&", "n"}] : n \in 0 .. 4}
             \cup {q[1] \o q[2] \o q[3] \o q[4] : q \in [1 .. 4 -> Pieces]}

Function(does, submit) == [does |-> does, submit |-> submit]
Does == {"trans", "nothing", "clear", "dies"}
MCLists ==
    {<< >>}
    \cup {<<Function(d, TRUE), Function(f, FALSE)>> : d, f \in Does}
    \cup {<<Function("trans", FALSE), Function(d, s), Function(f, TRUE)>> :
             d, f \in {"trans", "nothing", "dies"}, s \in BOOLEAN}
MCOps == <<2, 5>>

=============================================================================
