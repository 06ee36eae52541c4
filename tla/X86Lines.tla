------------------------------ MODULE X86Lines ------------------------------
(***************************************************************************)
(* Lines of source for X86General: the operands of a line in the fields of *)
(* the row of the instruction table that matches them.  An opcode is       *)
(* followed by its alternative.                                            *)
(***************************************************************************)
EXTENDS X86EffAddr

-----------------------------------------------------------------------------
(* Expressions, operands and rows                                          *)

R(type, n) == <<RegTerm(type, n)>>
I(n) == <<IntTerm(n, 0)>>
S(s) == <<SymTerm(s)>>
Bin(op, a, b) == AppendOp(a \o b, op, 2)
Plus(a, b) == Bin("ADD", a, b)
Times(a, b) == Bin("MUL", a, b)

Opcode(a, b) ==
    [b |-> <<[o |-> a, add |-> 0], [o |-> b, add |-> 0], [o |-> b, add |-> 0]>>, len |-> 1]
Insn(bits, operands) ==
    [jmp |-> FALSE, bits |-> bits, opersize |-> 0, def64 |-> 0, default_rel |-> FALSE,
     opcode |-> Opcode("op", "alt"), spare |-> 0, operands |-> operands, prefixes |-> << >>,
     segreg |-> FALSE, vex |-> << >>, gas |-> FALSE, waits |-> {"d", "i"}]
Jump(bits, oper, sel, short, near, external) ==
    [jmp |-> TRUE, bits |-> bits, opersize |-> oper, def64 |-> 0, sel |-> sel,
     shortlen |-> short, nearlen |-> near, external |-> external, prefixes |-> << >>,
     waits |-> {"d"}]
Mem(ts) == [t |-> "mem", type |-> "RM", ts |-> ts, rel |-> FALSE, size |-> 0,
            nosplit |-> FALSE, pc_rel |-> "", segreg |-> FALSE, post |-> "", strict |-> FALSE]
Reg(type, n, roles) ==
    [t |-> "reg", type |-> type, num |-> n, roles |-> roles, post |-> "", strict |-> FALSE]
Imm(ts, size, post) == [t |-> "imm", ts |-> ts, size |-> size, post |-> post, strict |-> FALSE]

\* Symbols of a line that move.
WaitsOf(s) ==
    [s EXCEPT !.waits = {x \in {"d", "i"} : \E n \in DOMAIN s.operands :
        /\ s.operands[n].t # "reg"
        /\ \E p \in DOMAIN s.operands[n].ts : s.operands[n].ts[p] # NoTerm
                                               /\ s.operands[n].ts[p].s = x}]

Disps == {I(0), I(127), I(128), I(-129), S("d")}
Nums(type) == CASE type = "r16" -> {0, 3, 5, 6} [] type = "r32" -> {0, 4, 5} [] OTHER -> {0, 4, 5, 12, 13}
One(type) == {R(type, n) : n \in Nums(type)}
Scaled(type) == {Times(r, I(m)) : r \in One(type), m \in {0, 1, 2, 3, 4, 8, 9}}
Shapes(type) ==
    One(type) \cup Scaled(type)
    \cup {Plus(a, b) : a \in One(type), b \in One(type) \cup Scaled(type)}
    \cup {Times(I(2), Plus(a, I(5))) : a \in One(type)}
    \cup {Bin("SUB", Times(a, I(3)), a) : a \in One(type)}
    \cup {Bin("SUB", Plus(a, b), b) : a \in One(type), b \in One(type)}
Addresses(type) == Shapes(type) \cup {Plus(x, d) : x \in Shapes(type), d \in Disps}

Memory == {[bits |-> 64, ts |-> ts] : ts \in Addresses("r64") \cup Disps}
          \cup {[bits |-> b, ts |-> ts] : b \in {16, 32}, ts \in Addresses("r32")}
          \cup {[bits |-> b, ts |-> ts] : b \in {16, 64}, ts \in Addresses("r16") \cup Disps}
MemoryLines == {WaitsOf(Insn(m.bits, <<Mem(m.ts)>>)) : m \in Memory}

\* Addresses without registers, relative ones, and what the source may insist on.
OddLines ==
    {WaitsOf([Insn(64, <<[Mem(ts) EXCEPT !.rel = rel, !.pc_rel = p, !.segreg = seg,
                                         !.type = type, !.post = post]>>)
                EXCEPT !.default_rel = def, !.prefixes = pre]) :
        ts \in {I(0), I(8), S("d"), R("rip", RIP), Plus(R("rip", RIP), I(8)), R("r64", 5),
                Bin("WRT", I(8), R("rip", RIP))},
        rel \in BOOLEAN, p \in {"", "rel", "abs"}, seg \in BOOLEAN,
        type \in {"RM", "MemOffs"}, post \in {"", "SHORT_MOV"}, def \in BOOLEAN,
        pre \in {<< >>, <<[k |-> "ADDRSIZE", v |-> 32]>>}}

GasLines ==
    {WaitsOf([Insn(bits, <<[Mem(ts) EXCEPT !.rel = rel]>>) EXCEPT !.gas = TRUE]) :
        bits \in {32, 64}, rel \in BOOLEAN,
        ts \in {R("rip", RIP), Plus(I(0), R("rip", RIP)), Plus(R("rip", RIP), I(300)),
                Plus(Plus(S("d"), I(4)), R("rip", RIP)), Plus(I(8), R("r64", 5)), I(8)}}

SizedLines ==
    {WaitsOf([Insn(bits, <<[Mem(ts) EXCEPT !.size = size, !.nosplit = nosplit, !.rel = rel]>>)
                EXCEPT !.segreg = seg]) :
        bits \in {16, 32, 64}, size \in {8, 16, 32, 64}, nosplit \in BOOLEAN,
        rel \in BOOLEAN, seg \in BOOLEAN,
        ts \in {I(8), R("r32", 5), Times(R("r32", 3), I(2)), Plus(R("r16", 5), I(0)),
                Plus(R("r32", 3), S("d")), Plus(R("r32", 4), I(300))}}

VectorLines ==
    {Insn(bits, <<[Mem(Plus(Plus(b, x), I(d))) EXCEPT !.type = type],
                  Reg("xmm", 6, <<"VEX">>), Reg("xmm", n, <<"Spare">>)>>) :
        bits \in {64}, type \in {"MemXMMIndex", "MemYMMIndex"}, d \in {0, 200},
        n \in {1, 10}, b \in {R("r32", 5), R("r64", 13), I(0)},
        x \in {R("xmm", 4), R("xmm", 12), Times(R("ymm", 3), I(4)), R("r32", 0)}}
VexLines ==
    {[s EXCEPT !.vex = v] : s \in VectorLines, v \in {<<1, 0>>, <<1, 1>>, <<2, 0>>}}
    \cup {[Insn(64, <<Reg("xmm", a, <<"Spare", "VEX">>), m>>) EXCEPT !.vex = <<1, w>>] :
            a \in {2, 9}, w \in {0, 1},
            m \in {Mem(R("r64", n)) : n \in {3, 12}} \cup {Reg("xmm", n, <<"EA">>) : n \in {1, 15}}}

Registers8 == {<<"r8", 0>>, <<"r8", 4>>, <<"r8x", 6>>, <<"r8", 9>>}
RegisterLines ==
    {[Insn(64, <<Reg(a[1], a[2], <<r>>), Reg(b[1], b[2], <<"EA">>)>>) EXCEPT !.opersize = w] :
        a \in Registers8, b \in Registers8, r \in {"Spare"}, w \in {0}}
    \cup {[Insn(64, <<Reg(a[1], a[2], <<"Spare">>), Mem(R("r64", n))>>) EXCEPT !.opersize = 0] :
            a \in Registers8, n \in {3, 12}}
    \cup {[Insn(bits, <<Reg("r", n, roles)>>)
              EXCEPT !.opersize = w, !.def64 = def, !.segreg = seg, !.prefixes = pre] :
            bits \in {16, 32, 64}, n \in {1, 7}, w \in {16, 32}, def \in {0}, seg \in BOOLEAN,
            roles \in {<<"Op0Add">>, <<"EA", "Spare">>},
            pre \in {<< >>, <<[k |-> "LOCKREP", v |-> 0], [k |-> "ACQREL", v |-> 0]>>}}
    \cup {[Insn(64, <<Reg("r64", n, roles)>>) EXCEPT !.opersize = 64, !.def64 = def] :
            n \in {1, 12}, def \in {0, 64}, roles \in {<<"Op0Add">>, <<"EA", "Spare">>}}
    \cup {Insn(bits, <<[t |-> "adsize", size |-> size, post |-> "", strict |-> FALSE]>>) :
            bits \in {16, 32, 64}, size \in {16, 32}}

Values == {I(0), I(127), I(128), I(-128), I(-129), I(65408), I(65535), I(65541), I(70000), S("i")}
ImmLines ==
    {WaitsOf([Insn(bits, <<m, [Imm(ts, size, "SImm8") EXCEPT !.strict = strict]>>)
                EXCEPT !.opersize = size, !.opcode = Opcode("ib", "full")]) :
        bits \in {16, 32, 64}, size \in {16, 32}, strict \in BOOLEAN, ts \in Values,
        m \in {Reg("r32", 3, <<"EA">>), Mem(R("r32", 3)), Mem(Plus(R("r32", 3), S("d"))),
               [Mem(S("d")) EXCEPT !.pc_rel = "rel"]}}
    \cup {WaitsOf([Insn(64, <<Imm(ts, 32, "SImm8")>>)
             EXCEPT !.opersize = 64, !.def64 = 64,
                    !.opcode = [b |-> <<[o |-> "ib", add |-> 0], [o |-> "C0", add |-> 0],
                                        [o |-> "full", add |-> 0]>>, len |-> 2]]) : ts \in Values}
    \cup {WaitsOf([Insn(64, <<Reg("r64", n, <<"Op0Add">>), Imm(ts, 64, "SIMM32_AVAIL")>>)
             EXCEPT !.opersize = 64, !.opcode = Opcode("B8", "C7")]) : n \in {0, 12}, ts \in Values}
    \cup {WaitsOf([Insn(bits, <<[t |-> "eaimm", ts |-> ts, size |-> 16, post |-> "ADDRESS16",
                                 strict |-> FALSE], Imm(I(1), 8, "")>>)
             EXCEPT !.prefixes = pre]) :
            bits \in {16, 32, 64}, ts \in {I(0), I(300)},
            pre \in {<< >>, <<[k |-> "ADDRSIZE", v |-> 32]>>}}

JumpLines ==
    {Jump(bits, oper, sel, short, near, external) :
        bits \in {16, 32, 64}, oper \in {0, 16, 32}, sel \in {"NONE", "SHORT", "NEAR"},
        short \in {0, 1}, near \in {0, 1, 2}, external \in BOOLEAN}

AllLines == MemoryLines \cup OddLines \cup GasLines \cup SizedLines \cup VexLines
             \cup RegisterLines \cup ImmLines
             \cup {j \in JumpLines : j.shortlen + j.nearlen > 0}
=============================================================================
