-------------------------- MODULE MCIc10Toolchain --------------------------
(* Instances of Ic10Toolchain for TLC. *)
EXTENDS Ic10Toolchain

\* One general register with a second beside it, a housing, two lamps of one
\* prefab (1), a sensor of another (2), and a lamp off the cable.
MCDevices == {"housing", "lamp", "spare", "sensor", "far"}
MCPrefab == [housing |-> 0, lamp |-> 1, spare |-> 1, sensor |-> 2, far |-> 1]
MCNames == [housing |-> 0, lamp |-> 5, spare |-> 6, sensor |-> 7, far |-> 5]
MCAttached == [housing |-> {0}, lamp |-> {0}, spare |-> {0}, sensor |-> {0}, far |-> {}]
MCConnections == [h \in {0, 1, 2} |-> 2]
MCPins == [i \in {0, 2} |-> IF i = 0 THEN "sensor" ELSE "far"]
MCNetwork == <<"housing", "lamp", "spare", "sensor">>
MCIds == <<"housing", "lamp", "spare", "sensor", "far">>
MCFields == {"On", "Idle", "LineNumber", "Error", Channel}
MCCatalog == {0, 1, 2}
MCReadable == [f \in MCFields |-> IF f = "On" THEN {1, 2} ELSE IF f \in {"LineNumber", "Error"} THEN {0} ELSE {}]
MCWritable == [f \in MCFields |-> IF f = "On" THEN {1} ELSE IF f = "LineNumber" THEN {0} ELSE {}]
MCSlotFields == {"On"}
MCSlots == {0}
MCSensors == {<<"sensor", "On">>}
MCAbbreviates == {<<"q", "qs">>}
MCShortNames == [x \in {"_p"} |-> <<"a0", "aa0">>]

R0 == Reg(0)
R1 == Reg(1)
Read == Instr("l", <<R0, Pin(0), Field("On")>>)

\* Programs of up to n lines over a set of lines.
TextsOver(alphabet, n) == UNION {[1 .. k -> alphabet] : k \in 1 .. n}

\* Jumps forward and back, by label, by number and by offset, and calls.
Flow == {Empty, Label("a"), Read, Instr("yield", <<>>), Instr("hcf", <<>>),
         Instr("j", <<Name("a")>>), Instr("j", <<Num(2)>>), Instr("jr", <<Num(-1)>>),
         Instr("brnez", <<R0, Num(2)>>), Instr("bnez", <<R0, Name("a")>>),
         Instr("jal", <<Name("a")>>), Instr("bdse", <<Pin(0), Name("a")>>)}

\* Loops and skips of four lines.
Loops == {Empty, Label("a"), Read, Instr("yield", <<>>), Instr("j", <<Name("a")>>),
          Instr("brnez", <<R0, Num(2)>>), Instr("jal", <<Name("a")>>)}

\* The stack, up to its limits.
Stack == {Instr("push", <<Num(1)>>), Instr("pop", <<R0>>), Instr("peek", <<R0>>),
          Instr("move", <<Reg(SP), Num(1)>>), Instr("move", <<Reg(SP), Num(-1)>>),
          Instr("pop", <<Indirect(0)>>), Instr("add", <<Reg(SP), Reg(SP), Num(1)>>),
          Label("a")}

\* Names: defines, aliases and branches through them, an alias of a define and
\* the beginning of a name.
Naming == {Empty, Instr("define", <<Name("k"), Num(1)>>), Instr("define", <<Name("m"), Name("k")>>),
           Instr("alias", <<Name("_p"), R1>>), Instr("alias", <<Name("x"), Name("_p")>>),
           Instr("move", <<Name("_p"), Name("m")>>), Instr("j", <<Name("k")>>),
           Instr("beqz", <<Name("x"), Num(0)>>), Instr("alias", <<Name("x"), Name("k")>>),
           Instr("move", <<R0, Name("x")>>), Instr("define", <<Name("qs"), Num(1)>>),
           Instr("move", <<R0, Name("q")>>)}

\* Devices: fields, slots, memory and batches, through pins, references and the housing.
Device == {Read, Instr("s", <<Reg(0), Field("On"), Num(1)>>), Instr("sdse", <<R0, Pin(1)>>),
           Instr("ls", <<R0, Pin(0), Num(0), Field("On")>>),
           Instr("ss", <<PinOf(0), Num(0), Field("On"), Num(3)>>),
           Instr("get", <<R1, Base, Num(0)>>), Instr("put", <<Num(2), Num(0), Num(1)>>),
           Instr("clr", <<Base>>), Instr("poke", <<Num(1), Num(7)>>),
           Instr("lb", <<R0, Num(1), Field("On"), Num(1)>>),
           Instr("sb", <<Num(1), Field("On"), Num(2)>>), Instr("sb", <<Num(2), Field("On"), Num(1)>>),
           Instr("sb", <<R0, Field("On"), Num(1)>>), Instr("sleep", <<Num(1)>>)}

\* One access of every kind in the environment, after one that may set r0.
DeviceAccesses == {Instr("l", <<R1, Pin(1), Field("On")>>), Instr("l", <<R1, Pin(2), Field("On")>>),
              Instr("l", <<R1, Pin(0), Field("Idle")>>), Instr("s", <<Pin(0), Field("On"), R0>>),
              Instr("s", <<Pin(2), Field("On"), R0>>),
              Instr("l", <<R1, Base, Field(Channel)>>), Instr("l", <<R1, Wire(Base, 0), Field(Channel)>>),
              Instr("s", <<Wire(Pin(0), 0), Field(Channel), Num(1)>>),
              Instr("s", <<Wire(Pin(0), 1), Field(Channel), Num(1)>>),
              Instr("s", <<Wire(Pin(0), 4), Field(Channel), Num(1)>>),
              Instr("l", <<R1, Wire(Pin(2), 0), Field("On")>>),
              Instr("ld", <<R1, Num(2), Field("On")>>), Instr("ld", <<R1, Num(9), Field("On")>>),
              Instr("ld", <<R1, R0, Field("On")>>), Instr("ld", <<R1, Num(5), Field("On")>>),
              Instr("l", <<R1, Base, Field("Error")>>), Instr("ld", <<R1, Num(4), Field("Idle")>>),
              Instr("sd", <<Num(2), Field("On"), Num(1)>>), Instr("sd", <<Num(4), Field("On"), Num(1)>>),
              Instr("ls", <<R1, Pin(0), Num(1), Field("On")>>), Instr("ls", <<R1, Pin(0), Num(0), Field("Idle")>>),
              Instr("ls", <<R1, Pin(0), R0, Field("On")>>), Instr("ss", <<Pin(0), Num(1), Field("On"), R0>>),
              Instr("ss", <<Pin(0), Num(0), Field("Idle"), R0>>),
              Instr("get", <<R1, Pin(0), Num(0)>>), Instr("get", <<R1, Pin(0), Num(1)>>),
              Instr("get", <<R1, Wire(Base, 0), Num(1)>>), Instr("put", <<Pin(0), Num(0), R0>>),
              Instr("put", <<Base, Num(1), R0>>), Instr("put", <<Num(1), Num(0), R0>>),
              Instr("lbn", <<R1, Num(1), Num(5), Field("On"), Num(1)>>),
              Instr("lbs", <<R1, Num(1), Num(0), Field("On"), Num(4)>>),
              Instr("lbns", <<R1, Num(1), Num(6), R0, Field("On"), Num(1)>>),
              Instr("lbs", <<R1, Num(3), Num(1), Field("On"), Num(4)>>),
              Instr("sbn", <<Num(1), Num(5), Field("On"), R0>>),
              Instr("sbs", <<Num(1), Num(0), Field("On"), R0>>), Instr("sbs", <<Num(2), R0, Field("On"), Num(2)>>)}

Environment == {<<Instr("move", <<R0, Num(v)>>), a>> : v \in {-1, 1}, a \in DeviceAccesses}
               \cup {<<Instr("alias", <<Name("x"), t>>), Instr("l", <<R0, Name("x"), Field("On")>>)>> :
                         t \in {Pin(0), Pin(1), Base}}
               \cup {<<a, b>> : a \in {Instr("ss", <<Pin(0), Num(0), Field("Idle"), Num(2)>>)},
                               b \in {Instr("ls", <<R1, Pin(0), Num(0), Field("Idle")>>)}}

\* Longer programs: a call with its return, a loop, code only a device branch reaches.
Whole == {<<Instr("jal", <<Name("a")>>), Instr("hcf", <<>>), Empty, Label("a"), Read,
            Instr("j", <<Reg(RA)>>)>>,
          <<Empty, Label("a"), Instr("yield", <<>>), Read, Instr("brnez", <<R0, Num(2)>>),
            Instr("j", <<Name("a")>>), Instr("hcf", <<>>)>>,
          <<Instr("select", <<R0, Num(1), Num(2), Num(3)>>), Instr("mod", <<R0, R0, Num(2)>>),
            Instr("max", <<Indirect(0), R0, Num(1)>>), Instr("seqz", <<R1, R1>>),
            Instr("sub", <<R1, R1, R0>>), Instr("sgt", <<R1, R0, R1>>)>>,
          <<Instr("abs", <<R0, Num(-2)>>), Instr("clamp", <<R0, R0, Num(0), Num(1)>>),
            Instr("sgn", <<R1, R0>>), Instr("sne", <<R1, R1, R0>>), Instr("snez", <<R1, R0>>),
            Instr("mul", <<R1, R1, R1>>)>>,
          <<Instr("sge", <<R0, Num(1), R1>>), Instr("seq", <<R1, R0, Num(1)>>),
            Instr("min", <<R1, R1, R0>>), Instr("bdnvl", <<Pin(0), Field("On"), Name("a")>>),
            Instr("bdns", <<Pin(1), Name("a")>>), Label("a"), Instr("yield", <<>>)>>,
          <<Instr("brdse", <<Pin(0), Num(2)>>), Instr("hcf", <<>>), Instr("bdseal", <<Pin(0), Num(4)>>),
            Empty, Instr("bnezal", <<R0, Name("a")>>), Label("a"), Instr("beq", <<R0, R1, Num(5)>>)>>,
          <<Instr("bnezal", <<R0, Name("a")>>), Instr("yield", <<>>), Label("a"), Instr("hcf", <<>>)>>}

MCSources ==
    {s \in UNION {TextsOver(Flow, 3), TextsOver(Loops, 4), TextsOver(Stack, 3), TextsOver(Naming, 3), TextsOver(Device, 2), Environment, Whole} :
        Preservable(s)}

=============================================================================
