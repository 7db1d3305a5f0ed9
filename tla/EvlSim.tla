------------------------------- MODULE EvlSim -------------------------------
(***************************************************************************)
(* ECE449/src/sim.cpp: the netlist that net.cpp hands over is simulated,   *)
(* one component after the other in the order of the file, for a number of *)
(* cycles.  The statement that updates the flip-flops is inside the loop   *)
(* over the components: it runs for evl_output and for every component     *)
(* whose name is none of those the loop looks for.                         *)
(* Wires are vectors of bits; a gate that names a whole wire reads the bit *)
(* whose index is the position of the pin, which may lie outside the wire. *)
(* The files of evl_output are opened to append: what an earlier run of    *)
(* the simulator has left in them stays in front.                          *)
(***************************************************************************)
EXTENDS EvlSyntax

CONSTANTS CYCLES,   \* 1000 in the code
          INT_BITS  \* of an int: 32

VARIABLES pin_lookup,   \* the value of each bit
          dffs,         \* the flip-flops in the order of the file
          cycle, j,     \* the variables of the two loops
          files,        \* by name: the headers and lines of each, in order
          left          \* history: files before this run

simvars == <<pin_lookup, dffs, cycle, j, files, left>>

SimInit(Lefts) ==
    /\ pin_lookup = << >> /\ dffs = << >> /\ cycle = 0 /\ j = 1
    /\ left \in Lefts /\ files = left

Used == {p.name : p \in UNION {ToSet(c.pins) : c \in ToSet(component_list)}}

\* simulate_output, up to the loop.  Every wire must have been declared.
BeginSim ==
    /\ phase = "net" /\ Len(nets) = Len(wire_list)
    /\ phase' = IF Used \subseteq DOMAIN array_pins THEN "sim" ELSE "crashed"
    /\ pin_lookup' = [w \in Used \cap DOMAIN array_pins |-> [b \in 0 .. array_pins[w] - 1 |-> 0]]
    /\ dffs' = SelectSeq(component_list, LAMBDA c : c.name = <<"evl_dff">>)
    /\ UNCHANGED <<text, tokens, t, width, name, pins, wire_list, component_list, netvars,
                   cycle, j, files, left>>

-----------------------------------------------------------------------------
(* Components *)

This == component_list[j]
Kind(n) ==
    /\ phase = "sim" /\ j <= Len(component_list) /\ This.name = n
    /\ j' = j + 1
    /\ UNCHANGED <<synvars, netvars, dffs, cycle, left>>

SetBit(m, w, b, v) == [m EXCEPT ![w][b] = v]
BitAt(pin) == IF pin.bit1 # -1 THEN pin.bit1 ELSE 0
Output(v) == pin_lookup' = SetBit(pin_lookup, This.pins[1].name, 0, v) /\ UNCHANGED files

\* The inputs of a gate are pins 1, 2, ...; what lies beyond the end of a wire
\* is any int: 0, 1 or, for all others, 2.
Index(k) == IF This.pins[k].bit1 # -1 THEN This.pins[k].bit1 ELSE k - 1
GateInputs == 2 .. Len(This.pins)
Beyond == {k \in GateInputs : Index(k) >= array_pins[This.pins[k].name]}
Input(m, beyond, k) ==
    IF k \in Beyond THEN beyond[k] ELSE m[This.pins[k].name][Index(k)]

\* evl_clock and evl_dff do nothing when their turn comes.
Clock == (Kind(<<"evl_clock">>) \/ Kind(<<"evl_dff">>)) /\ UNCHANGED <<pin_lookup, files>>

Constant(v) ==
    /\ pin_lookup' =
         FoldLeft(LAMBDA m, p : [m EXCEPT ![p.name] =
                    [b \in DOMAIN @ |-> IF p.bit1 \in {-1, b} THEN v ELSE @[b]]],
                  pin_lookup, This.pins)
    /\ UNCHANGED files
One == Kind(<<"evl_one">>) /\ Constant(1)
Zero == Kind(<<"evl_zero">>) /\ Constant(0)

\* An and gate only ever clears its output.
And ==
    /\ Kind(<<"and">>)
    /\ \E beyond \in [Beyond -> 0 .. 2] :
        IF \E k \in GateInputs : Input(pin_lookup, beyond, k) = 0
        THEN Output(0) ELSE UNCHANGED <<pin_lookup, files>>

\* An or gate sets its output for a single bit that is 1, and clears it for a
\* whole wire whose bit is 0.
Or ==
    /\ Kind(<<"or">>)
    /\ \E beyond \in [Beyond -> 0 .. 2] :
        pin_lookup' =
          FoldLeft(LAMBDA m, k :
                LET single == This.pins[k].bit1 # -1
                    v == Input(m, beyond, k)
                IN  IF v = (IF single THEN 1 ELSE 0) THEN SetBit(m, This.pins[1].name, 0, v)
                    ELSE m,
              pin_lookup, [k \in 1 .. Len(This.pins) - 1 |-> k + 1])
    /\ UNCHANGED files

Xor ==
    /\ Kind(<<"xor">>)
    /\ \E beyond \in [Beyond -> 0 .. 2] :
        Output(Cardinality({k \in GateInputs : Input(pin_lookup, beyond, k) = 1}) % 2)

First == pin_lookup[This.pins[2].name][0]
Not == Kind(<<"not">>) /\ Output(IF First = 0 THEN 1 ELSE 0)
Buf == Kind(<<"buf">>) /\ Output(IF First = 0 THEN 0 ELSE 1)

\* The flip-flops, one after the other.
UpdateDffs ==
    FoldLeft(LAMBDA m, d : SetBit(m, d.pins[1].name, BitAt(d.pins[1]),
                                  m[d.pins[2].name][BitAt(d.pins[2])]),
             pin_lookup, dffs)

\* A whole wire is added up bit by bit in an int, which is shown without sign:
\* its bits from INT_BITS on are lost.
Hex(p) ==
    IF p.bit1 # -1 THEN pin_lookup[p.name][p.bit1]
    ELSE FoldLeft(LAMBDA h, b : (2 * h + pin_lookup[p.name][array_pins[p.name] - b])
                                  % 2 ^ INT_BITS,
                  0, [b \in 1 .. array_pins[p.name] |-> b])
Header == [is |-> "header",
           pins |-> [k \in DOMAIN This.pins |->
                       IF This.pins[k].bit1 # -1 THEN 1 ELSE array_pins[This.pins[k].name]]]
Line == [is |-> "line", pins |-> [k \in DOMAIN This.pins |-> Hex(This.pins[k])]]

\* syn.cpp joins kind and instance by a space.   A component writes if
\* "evl_output" is anywhere in its name, to the file named by what follows its
\* first eleven characters, and substr throws if it has not that many.
FullName(n) == IF Len(n) = 1 THEN n[1] ELSE n[1] \o " " \o n[2]
Writes(n) == \E k \in 1 .. Len(FullName(n)) - 9 : SubSeq(FullName(n), k, k + 9) = "evl_output"
FileName(n) == SubSeq(FullName(n), 12, Len(FullName(n)))
AtOutput == phase = "sim" /\ j <= Len(component_list) /\ Writes(This.name)

\* Behind what is there: a header in the first cycle, and a line.
Appended ==
    LET f == FileName(This.name)
        there == IF f \in DOMAIN files THEN files[f] ELSE << >>
    IN  (f :> there \o (IF cycle = 0 THEN <<Header>> ELSE << >>) \o <<Line>>) @@ files

\* Variant: the flip-flops are updated from the last to the first.
Bug_evl_output ==
    /\ AtOutput /\ Len(FullName(This.name)) >= 11
    /\ files' = Appended /\ j' = j + 1
    /\ pin_lookup' = FoldRight(LAMBDA d, m : SetBit(m, d.pins[1].name, BitAt(d.pins[1]),
                                  m[d.pins[2].name][BitAt(d.pins[2])]), dffs, pin_lookup)
    /\ UNCHANGED <<synvars, netvars, dffs, cycle, left>>

\* A line of values; then the flip-flops.
evl_output ==
    /\ AtOutput /\ Len(FullName(This.name)) >= 11
    /\ files' = Appended /\ j' = j + 1
    /\ pin_lookup' = UpdateDffs
    /\ UNCHANGED <<synvars, netvars, dffs, cycle, left>>

OutputWithoutName ==
    /\ AtOutput /\ Len(FullName(This.name)) < 11
    /\ phase' = "crashed"
    /\ UNCHANGED <<text, tokens, t, width, name, pins, wire_list, component_list, netvars, simvars>>

\* Gates with an instance name, evl_lut, tris, evl_input: nobody looks for
\* them, and they reach the update of the flip-flops.
Kinds == {"evl_clock", "evl_dff", "evl_one", "evl_zero", "and", "or", "xor", "not", "buf"}
Other ==
    /\ phase = "sim" /\ j <= Len(component_list) /\ ~Writes(This.name)
    /\ This.name \notin {<<k>> : k \in Kinds}
    /\ j' = j + 1 /\ pin_lookup' = UpdateDffs
    /\ UNCHANGED <<synvars, netvars, dffs, cycle, files, left>>

NextCycle ==
    /\ phase = "sim" /\ j > Len(component_list)
    /\ cycle' = cycle + 1 /\ j' = 1
    /\ phase' = IF cycle' = CYCLES THEN "done" ELSE "sim"
    /\ UNCHANGED <<text, tokens, t, width, name, pins, wire_list, component_list, netvars,
                   pin_lookup, dffs, files, left>>

EvlNext ==
    \/ SynNext /\ UNCHANGED simvars
    \/ BeginSim \/ NextCycle
    \/ Clock \/ One \/ Zero \/ And \/ Or \/ Xor \/ Not \/ Buf
    \/ evl_output \/ OutputWithoutName \/ Other

-----------------------------------------------------------------------------
(* Which netlists the simulator gets right *)

BitOf(pin) == <<pin.name, BitAt(pin)>>
Whole1(pin) == pin.bit1 # -1 \/ array_pins[pin.name] = 1
Constants == {<<"evl_one">>, <<"evl_zero">>}
Gates == {<<"and">>, <<"or">>, <<"xor">>, <<"not">>, <<"buf">>}
At(k) == component_list[k].name

\* The bits of the wires that component k drives.
Drives(k) ==
    LET c == component_list[k]
    IN  IF c.name \in Constants
        THEN UNION {{<<p.name, b>> : b \in IF p.bit1 = -1 THEN 0 .. array_pins[p.name] - 1
                                           ELSE {p.bit1}} : p \in ToSet(c.pins)}
        ELSE IF c.name \in Gates \cup {<<"evl_dff">>} THEN {BitOf(c.pins[1])} ELSE {}

\* Each pin of a gate names the one bit that sim.cpp takes for it.
BitsAsNamed(c) ==
    /\ \A p \in ToSet(c.pins) : Whole1(p)
    /\ BitAt(c.pins[1]) = 0
    /\ IF c.name \in {<<"not">>, <<"buf">>} THEN BitAt(c.pins[2]) = 0
       ELSE \A k \in 2 .. Len(c.pins) : c.pins[k].bit1 # -1

\* Gates stand after what drives their inputs, and the one evl_output after
\* all gates; a flip-flop stands before the one whose output it reads.
InOrder ==
    /\ \A k \in DOMAIN component_list :
        /\ At(k) \in Constants \cup Gates \cup {<<"evl_dff">>, <<"evl_clock">>}
             \/ (k = Len(component_list) /\ At(k)[1] = "evl_output" /\ Len(At(k)) = 2)
        /\ At(k) \in Gates =>
            /\ BitsAsNamed(component_list[k])
            /\ \A l \in k .. Len(component_list) : At(l) # <<"evl_dff">> =>
                \A p \in 2 .. Len(component_list[k].pins) :
                    BitOf(component_list[k].pins[p]) \notin Drives(l)
        /\ At(k) = <<"evl_dff">> =>
            /\ \A p \in {1, 2} : Whole1(component_list[k].pins[p])
            /\ \A l \in 1 .. k - 1 : At(l) = <<"evl_dff">> =>
                BitOf(component_list[k].pins[2]) \notin Drives(l)
        /\ \A l \in DOMAIN component_list : Drives(k) \cap Drives(l) # {} => k = l
    /\ At(Len(component_list))[1] = "evl_output"

\* What this run has put into the file of the last component: after a header,
\* the lines.
Entries(fs) ==
    LET f == FileName(component_list[Len(component_list)].name)
    IN  IF f \in DOMAIN fs THEN fs[f] ELSE << >>
Lines == LET n == Len(Entries(left)) + 1
         IN  [k \in 1 .. Len(Entries(files)) - n |-> Entries(files)[n + k].pins]
LeftInFront == \A f \in DOMAIN left : f \in DOMAIN files /\ IsPrefix(left[f], files[f])
Held == [b \in UNION {Drives(k) : k \in {l \in DOMAIN component_list : At(l) = <<"evl_dff">>}} |->
            pin_lookup[b[1]][b[2]]]

C == INSTANCE CircuitSpec
     WITH netlist <- component_list, widths <- array_pins, q <- Held, shown <- Lines,
          ShownBits <- INT_BITS

\* On a netlist in that order, without the gates that move their output one way
\* only, the simulator is the circuit: behind a header and what its file held
\* before, each line shows what the gates settle at, of each wire the low
\* INT_BITS bits, and the flip-flops move together.
ImplementsCircuit ==
    [][phase = "sim" /\ InOrder /\ (\A k \in DOMAIN component_list : At(k) \notin {<<"and">>, <<"or">>})
         => LeftInFront' /\ (C!Cycle \/ UNCHANGED <<Held, Lines>>)]_<<synvars, netvars, simvars>>

\* "support for all of the combinational logic gates [...] resulting in the
\* correct output" (reports/project4): the same for every gate, where no
\* flip-flop is involved.
GatesOutputCorrect ==
    [][phase = "sim" /\ InOrder /\ dffs = << >>
         => C!Cycle \/ UNCHANGED <<Held, Lines>>]_<<synvars, netvars, simvars>>

=============================================================================
