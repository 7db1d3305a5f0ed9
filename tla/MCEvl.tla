------------------------------- MODULE MCEvl --------------------------------
EXTENDS EvlSim

x == Whole("x")
y == Whole("y")
z == Whole("z")
b(k) == Bit("b", k)
Gate(kind, ps) == Component(<<kind>>, ps)
Out(ps) == Component(<<"evl_output", "sim_out">>, ps)

\* Components of the circuits: each kind, with bits and with whole wires, in
\* and out of the order the simulator needs.
Parts ==
    {Gate("evl_one", <<Whole("b")>>), Gate("evl_one", <<y, b(1)>>), Gate("evl_zero", <<b(0)>>),
     Gate("and", <<z, b(0), b(1)>>), Gate("or", <<z, b(0), b(1)>>), Gate("xor", <<z, b(0), b(1)>>),
     Gate("and", <<x, y, Whole("b")>>), Gate("or", <<x, y, Whole("b")>>), Gate("xor", <<z, x, y>>),
     Gate("not", <<x, z>>), Gate("not", <<z, x>>), Gate("buf", <<b(1), y>>), Gate("buf", <<x, b(1)>>),
     Gate("evl_dff", <<y, x, Whole("clk")>>), Gate("evl_dff", <<b(1), b(0), Whole("clk")>>),
     Gate("evl_dff", <<b(0), x, Whole("clk")>>)}
Shown == Out(<<x, y, z, Whole("b"), b(1)>>)
Declarations == <<Wires(1, <<"x", "y", "z">>), Wires(2, <<"b">>), Wires(1, <<"clk">>)>>
Circuits == {Declarations \o s \o <<Shown>> : s \in [1 .. 3 -> Parts]}

Texts ==
    {<<Wires(2, <<"b">>), Wires(1, <<"x">>), Gate("evl_zero", <<b(0)>>), Gate("evl_one", <<b(1)>>),
       Gate("and", <<x, b(0), b(1)>>), Out(<<x, Whole("b")>>)>>,
     <<Wires(3, <<"s", "w">>), Wires(1, <<"nx", "x">>), Out(<<Whole("s"), Pin("s", 2, 1)>>),
       Wires(1, <<"clk">>), Gate("evl_clock", <<Whole("clk")>>),
       Gate("evl_dff", <<Bit("s", 0), x, Whole("clk")>>),
       Gate("evl_dff", <<Bit("s", 1), Bit("s", 0), Whole("clk")>>),
       Gate("evl_dff", <<Bit("s", 2), Bit("s", 1), Whole("clk")>>),
       Gate("xor", <<Whole("nx"), Bit("s", 2), Bit("s", 1)>>), Gate("not", <<x, Whole("nx")>>)>>,
     <<Gate("not", <<y, z>>), Wires(1, <<"y">>), Component(<<"evl_output">>, <<y>>)>>,
     <<Wires(1, <<"y">>), Component(<<"evl_output">>, <<y>>)>>,
     <<Wires(1, <<"y", "x">>), Component(<<"not", "g1">>, <<y, x>>), Out(<<y>>)>>,
     <<Wires(1, <<"y", "x">>), Gate("not", <<y, x>>), Component(<<"tris", "evl_output_2">>, <<x, y>>),
       Gate("my_evl_output", <<x>>), Out(<<y>>), Out(<<y, x>>)>>}

\* The file is new, or an earlier run was about another circuit.
Earlier == "sim_out" :> <<[is |-> "header", pins |-> <<2>>], [is |-> "line", pins |-> <<3>>]>>

MCInit == SynInit(Texts) /\ SimInit({<< >>, Earlier})

\* A circuit as net.cpp hands it over.
CircuitInit ==
    /\ text \in Circuits /\ tokens = << >> /\ t = 1
    /\ phase = "net" /\ width = 1 /\ name = << >> /\ pins = << >>
    /\ wire_list = Declared /\ component_list = SubSeq(text, 4, 7)
    /\ nets = << >> /\ array_pins = << >>
    /\ SimInit({Earlier})
Done == phase \in {"done", "crashed"} /\ UNCHANGED <<synvars, netvars, simvars>>
Spec == (MCInit \/ CircuitInit) /\ [][EvlNext \/ Done]_<<synvars, netvars, simvars>>
=============================================================================
