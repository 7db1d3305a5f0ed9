----------------------------- MODULE EvlSyntax ------------------------------
(***************************************************************************)
(* ECE449/src/syn.cpp and net.cpp: the tokens of an EasyVL module become   *)
(* wires, components and nets.  The text is grammatical; on any other the  *)
(* loops of syn.cpp read past the end of the tokens.                       *)
(* A text is a sequence of statements; one declares wires of a width, or   *)
(* names a component and its pins.  The name of a component is its kind,   *)
(* followed by the name of the instance if it has one.                     *)
(***************************************************************************)
EXTENDS Integers, Sequences, FiniteSets, FiniteSetsExt, SequencesExt

VARIABLES text,            \* the statements of the module, as written
          tokens, t,       \* the tokens and the index of the next one
          phase,           \* "syn", "wires", "pins", "net" and those of EvlSim
          width,           \* current_wire_width
          name, pins,      \* the component being read
          wire_list, component_list,
          nets, array_pins \* what net.cpp makes of them

synvars == <<text, tokens, t, phase, width, name, pins, wire_list, component_list>>
netvars == <<nets, array_pins>>

Pin(w, bit1, bit2) == [name |-> w, bit1 |-> bit1, bit2 |-> bit2]
Whole(w) == Pin(w, -1, -1)
Bit(w, b) == Pin(w, b, -1)
Component(n, ps) == [name |-> n, pins |-> ps]
Wires(w, ns) == [width |-> w, names |-> ns]

-----------------------------------------------------------------------------
(* The tokens of a text *)

NameToken(v) == [type |-> "NAME", value |-> v, number |-> -1]
SingleToken(v) == [type |-> "SINGLE", value |-> v, number |-> -1]
NumberToken(n) == [type |-> "NUMBER", value |-> "", number |-> n]

Listed(items, end) ==
    FlattenSeq([k \in DOMAIN items |->
        items[k] \o <<SingleToken(IF k = Len(items) THEN end ELSE ",")>>])
PinTokens(p) ==
    <<NameToken(p.name)>>
    \o (IF p.bit1 = -1 THEN << >> ELSE <<SingleToken("["), NumberToken(p.bit1)>>)
    \o (IF p.bit2 = -1 THEN << >> ELSE <<SingleToken(":"), NumberToken(p.bit2)>>)
    \o (IF p.bit1 = -1 THEN << >> ELSE <<SingleToken("]")>>)
StatementTokens(s) ==
    IF "width" \in DOMAIN s
    THEN <<NameToken("wire")>>
         \o (IF s.width = 1 THEN << >>
             ELSE <<SingleToken("["), NumberToken(s.width - 1), SingleToken(":"),
                    NumberToken(0), SingleToken("]")>>)
         \o Listed([k \in DOMAIN s.names |-> <<NameToken(s.names[k])>>], ";")
    ELSE [k \in DOMAIN s.name |-> NameToken(s.name[k])] \o <<SingleToken("(")>>
         \o Listed([k \in DOMAIN s.pins |-> PinTokens(s.pins[k])], ")") \o <<SingleToken(";")>>
ModuleTokens(s) ==
    <<NameToken("module"), NameToken("top"), SingleToken(";")>>
    \o FlattenSeq([k \in DOMAIN s |-> StatementTokens(s[k])])
    \o <<NameToken("endmodule")>>

-----------------------------------------------------------------------------
(* syn.cpp *)

SynInit(Texts) ==
    /\ text \in Texts
    /\ tokens = ModuleTokens(text) /\ t = 1
    /\ phase = "syn" /\ width = 1 /\ name = << >> /\ pins = << >>
    /\ wire_list = << >> /\ component_list = << >>
    /\ nets = << >> /\ array_pins = << >>

Is(k, type) == tokens[k].type = type
Next1(k, v) == tokens[k].value = v
Reading(p) == phase = p /\ t <= Len(tokens) /\ UNCHANGED <<text, tokens, netvars>>

\* Tokens that are not names, and endmodule, mean nothing here.
Skip ==
    /\ Reading("syn")
    /\ ~Is(t, "NAME") \/ Next1(t, "endmodule")
    /\ t' = t + 1
    /\ UNCHANGED <<phase, width, name, pins, wire_list, component_list>>

Module ==
    /\ Reading("syn") /\ Is(t, "NAME") /\ Next1(t, "module")
    /\ t' = t + 2
    /\ UNCHANGED <<phase, width, name, pins, wire_list, component_list>>

\* A bus has its range before the names.
Wire ==
    /\ Reading("syn") /\ Is(t, "NAME") /\ Next1(t, "wire")
    /\ IF Is(t + 1, "NAME")
       THEN width' = 1 /\ t' = t + 1
       ELSE width' = tokens[t + 2].number + 1 /\ t' = t + 6
    /\ phase' = "wires"
    /\ UNCHANGED <<name, pins, wire_list, component_list>>

AddWire ==
    /\ Reading("wires")
    /\ wire_list' = Append(wire_list, [name |-> tokens[t].value, width |-> width])
    /\ t' = t + 2
    /\ phase' = IF Next1(t + 1, ";") THEN "syn" ELSE "wires"
    /\ UNCHANGED <<width, name, pins, component_list>>

ComponentHead ==
    LET n == IF Is(t + 1, "NAME") THEN 2 ELSE 1
    IN  /\ Reading("syn") /\ Is(t, "NAME")
        /\ tokens[t].value \notin {"module", "wire", "endmodule"}
        /\ name' = [k \in 1 .. n |-> tokens[t + k - 1].value]
        /\ pins' = << >>
        /\ t' = t + n + 1
        /\ phase' = "pins"
        /\ UNCHANGED <<width, wire_list, component_list>>

\* How many tokens the pin at k has: its name, [ and ], one number or two.
PinTokenCount(k) ==
    IF ~Next1(k + 1, "[") THEN 1 ELSE IF ~Is(k + 4, "NUMBER") THEN 4 ELSE 6

\* One turn of the loop over pins; the last adds the component and goes on
\* after the semicolon.
AddPin ==
    LET n == PinTokenCount(t)
        pin == Pin(tokens[t].value,
                   IF n > 1 THEN tokens[t + 2].number ELSE -1,
                   IF n > 4 THEN tokens[t + 4].number ELSE -1)
        last == Next1(t + n, ")")
    IN  /\ Reading("pins") /\ Is(t, "NAME")
        /\ pins' = Append(pins, pin)
        /\ t' = t + n + (IF last THEN 2 ELSE 1)
        /\ IF last
           THEN /\ component_list' = Append(component_list, Component(name, pins'))
                /\ phase' = "syn"
           ELSE UNCHANGED <<component_list, phase>>
        /\ UNCHANGED <<width, name, wire_list>>

SynReturn ==
    /\ phase = "syn" /\ t > Len(tokens)
    /\ phase' = "net"
    /\ UNCHANGED <<text, tokens, t, width, name, pins, wire_list, component_list, netvars>>

-----------------------------------------------------------------------------
(* net.cpp *)

Bug_OnBit_range(pin, b) ==
    \/ pin.bit1 = -1
    \/ pin.bit2 # -1 /\ b \in pin.bit1 .. pin.bit2
    \/ pin.bit1 = b

\* A pin with a range is on the bits of the range, and on bit1 in any case.
OnBit(pin, b) ==
    \/ pin.bit1 = -1
    \/ pin.bit2 # -1 /\ b \in pin.bit2 .. pin.bit1
    \/ pin.bit1 = b

\* The pins of a net in the order of the file: the name of the component and
\* the position of the pin.
NetPins(w, b) ==
    FlattenSeq([k \in DOMAIN component_list |->
        LET c == component_list[k]
            at == SelectSeq([l \in DOMAIN c.pins |-> l],
                            LAMBDA l : c.pins[l].name = w /\ OnBit(c.pins[l], b))
        IN  [l \in DOMAIN at |-> <<c.name, at[l] - 1>>]])

\* One turn of the loop over the wires.  The first declaration of a name gives
\* its width.
CreateNets ==
    LET w == wire_list[Len(nets) + 1]
    IN  /\ phase = "net" /\ Len(nets) < Len(wire_list)
        /\ nets' = Append(nets, [b \in 0 .. w.width - 1 |-> NetPins(w.name, b)])
        /\ array_pins' = [n \in DOMAIN array_pins \cup {w.name} |->
                            IF n \in DOMAIN array_pins THEN array_pins[n] ELSE w.width]
        /\ UNCHANGED synvars

SynNext ==
    Skip \/ Module \/ Wire \/ AddWire \/ ComponentHead \/ AddPin \/ SynReturn \/ CreateNets

-----------------------------------------------------------------------------

IsWires(s) == "width" \in DOMAIN s
Declared ==
    FlattenSeq([k \in DOMAIN text |->
        IF ~IsWires(text[k]) THEN << >>
        ELSE [l \in DOMAIN text[k].names |->
                [name |-> text[k].names[l], width |-> text[k].width]]])

\* The bits that a pin names: the whole wire, one bit, or a range [bit1:bit2].
BitsOf(pin, w) ==
    IF pin.bit1 = -1 THEN 0 .. w - 1
    ELSE IF pin.bit2 = -1 THEN {pin.bit1} ELSE pin.bit2 .. pin.bit1

\* Wires and components are read in the order of the text, each with its width
\* or its pins and their bits, wherever in the text they stand; and a net has
\* each pin that names it, once.
NetlistIsText ==
    /\ IsPrefix(wire_list, Declared)
    /\ IsPrefix(component_list, SelectSeq(text, LAMBDA s : ~IsWires(s)))
    /\ phase \notin {"syn", "wires", "pins"} =>
        /\ Len(wire_list) = Len(Declared)
        /\ Len(component_list) = Cardinality({k \in DOMAIN text : ~IsWires(text[k])})
    /\ \A n \in DOMAIN nets : \A b \in DOMAIN nets[n] :
        LET w == wire_list[n]
            names(k) == {l \in DOMAIN component_list[k].pins :
                            /\ component_list[k].pins[l].name = w.name
                            /\ b \in BitsOf(component_list[k].pins[l], w.width)}
            named == UNION {{k} \X names(k) : k \in DOMAIN component_list}
        IN  /\ Len(nets[n][b]) = Cardinality(named)
            /\ ToSet(nets[n][b]) = {<<component_list[k[1]].name, k[2] - 1>> : k \in named}

=============================================================================
