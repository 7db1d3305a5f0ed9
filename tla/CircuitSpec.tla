---------------------------- MODULE CircuitSpec -----------------------------
(***************************************************************************)
(* What a simulator of an EasyVL netlist promises: in each cycle the gates *)
(* settle, evl_output shows its pins, the low ShownBits bits of each wire, *)
(* and then all flip-flops move together.                                  *)
(***************************************************************************)
EXTENDS Integers, Sequences, FiniteSets, FiniteSetsExt, SequencesExt

CONSTANT ShownBits      \* how many bits of a wire evl_output shows

VARIABLES netlist, widths,  \* the components, and the width of each wire
          q,                \* what the flip-flops hold, by the bit they drive
          shown             \* what evl_output has shown, cycle by cycle

circuitvars == <<netlist, widths, q, shown>>

Bits == UNION {{<<w, b>> : b \in 0 .. widths[w] - 1} : w \in DOMAIN widths}
BitOf(pin) == <<pin.name, IF pin.bit1 = -1 THEN 0 ELSE pin.bit1>>
BitsOf(pin) ==
    {<<pin.name, b>> : b \in IF pin.bit1 = -1 THEN 0 .. widths[pin.name] - 1 ELSE {pin.bit1}}
Inputs(c) == {BitOf(c.pins[k]) : k \in 2 .. Len(c.pins)}
Of(kind) == {c \in ToSet(netlist) : c.name[1] = kind}

Driven(c) ==
    CASE c.name[1] \in {"evl_one", "evl_zero"} ->
            UNION {BitsOf(c.pins[k]) : k \in DOMAIN c.pins}
      [] c.name[1] \in {"and", "or", "xor", "not", "buf", "evl_dff"} -> {BitOf(c.pins[1])}
      [] OTHER -> {}

\* The values at which every gate agrees with its inputs; a bit that nothing
\* drives is 0.
Gate(v, c) ==
    CASE c.name[1] = "evl_one" -> 1
      [] c.name[1] = "evl_zero" -> 0
      [] c.name[1] = "and" -> IF \A b \in Inputs(c) : v[b] = 1 THEN 1 ELSE 0
      [] c.name[1] = "or" -> IF \E b \in Inputs(c) : v[b] = 1 THEN 1 ELSE 0
      [] c.name[1] = "xor" -> Cardinality({k \in 2 .. Len(c.pins) : v[BitOf(c.pins[k])] = 1}) % 2
      [] c.name[1] = "not" -> 1 - v[BitOf(c.pins[2])]
      [] c.name[1] = "buf" -> v[BitOf(c.pins[2])]
      [] c.name[1] = "evl_dff" -> q[BitOf(c.pins[1])]
Settled(v) ==
    \A b \in Bits :
        /\ \A c \in ToSet(netlist) : b \in Driven(c) => v[b] = Gate(v, c)
        /\ (\A c \in ToSet(netlist) : b \notin Driven(c)) => v[b] = 0

Number(v, pin) ==
    IF pin.bit1 # -1 THEN v[BitOf(pin)]
    ELSE SumSet({2 ^ b[2] : b \in {d \in BitsOf(pin) : v[d] = 1}})
         % 2 ^ ShownBits

CircuitInit ==
    /\ q = [b \in UNION {Driven(c) : c \in Of("evl_dff")} |-> 0]
    /\ shown = << >>

Cycle ==
    \E v \in [Bits -> {0, 1}] : \E o \in Of("evl_output") :
        /\ Settled(v)
        /\ shown' = Append(shown, [k \in DOMAIN o.pins |-> Number(v, o.pins[k])])
        /\ q' = [b \in DOMAIN q |->
                    LET c == CHOOSE d \in Of("evl_dff") : Driven(d) = {b}
                    IN  v[BitOf(c.pins[2])]]
        /\ UNCHANGED <<netlist, widths>>

CircuitSpec == CircuitInit /\ [][Cycle]_circuitvars

=============================================================================
