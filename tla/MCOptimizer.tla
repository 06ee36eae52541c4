---------------------------- MODULE MCOptimizer ----------------------------
(***************************************************************************)
(* Small assembly programs for the optimizer.  A label in front of         *)
(* bytecode b is the location <<b, 0>>; the last bytecode is empty and     *)
(* carries the end label.                                                  *)
(***************************************************************************)
EXTENDS Optimizer

L(b) == <<b, 0>>

Const(c) == [add |-> c, k |-> <<0, 0>>, from |-> <<L(1), L(1)>>,
             to |-> <<L(1), L(1)>>, complex |-> FALSE]
\* c + k * (g - f)
Dist(c, k, f, g) == [add |-> c, k |-> <<k, 0>>, from |-> <<L(f), L(1)>>,
                     to |-> <<L(g), L(1)>>, complex |-> FALSE]
Unknown == [Const(0) EXCEPT !.complex = TRUE]

Bytecode == [sect |-> 1, fixed |-> 0, kind |-> "insn", base |-> 0,
             parts |-> << >>, count |-> Const(1), sign |-> FALSE,
             boundary |-> 0, maxskip |-> 0, start |-> 0]

Bytes(n) == [Bytecode EXCEPT !.fixed = n]
Empty == Bytes(0)
\* X86Jmp, `jmp' and `jcc': 2 or 5 bytes, 2 or 6 bytes.
JmpTo(e, grow) == [Bytecode EXCEPT !.base = 2,
    !.parts = <<[expr |-> e, lo |-> -126, hi |-> 129, grow |-> grow]>>]
Jmp(b, j) == JmpTo(Dist(0, 1, b, j), 3)
Jcc(b, j) == JmpTo(Dist(0, 1, b, j), 4)
JmpExtern == JmpTo(Unknown, 3)
\* X86General with a displacement and an immediate.
MovDispImm(d, e) == [Bytecode EXCEPT !.base = 4,
    !.parts = <<[expr |-> d, lo |-> -128, hi |-> 127, grow |-> 3],
                [expr |-> e, lo |-> -128, hi |-> 127, grow |-> 3]>>]
Times(e, n) == [Bytecode EXCEPT !.base = n, !.count = e]
Leb(e, sign) == [Bytecode EXCEPT !.kind = "leb", !.base = 1, !.sign = sign,
    !.parts = <<[expr |-> e, lo |-> IF sign THEN -64 ELSE 0,
                 hi |-> IF sign THEN 63 ELSE 127, grow |-> 0]>>]
Align(n, skip) == [Bytecode EXCEPT !.kind = "align", !.boundary = n, !.maxskip = skip]
Org(n) == [Bytecode EXCEPT !.kind = "org", !.start = n]
Second(p) == [p EXCEPT !.sect = 2]

\* Jumps around a block that puts them next to the limit of their short form,
\* with offset setters and LEB128 values among them.
Item(b, n) ==
    {Jmp(b, j) : j \in {1, 2, 4, n}} \cup
    {Align(8, 8), Align(16, 3), Org(140), Leb(Dist(0, 1, 1, n), FALSE),
     Leb(Dist(60, 1, n, 1), TRUE)}
JumpPrograms ==
    {<<a, b, Bytes(m), c, d, Empty>> : m \in {120, 124},
        a \in Item(1, 6), b \in Item(2, 6), c \in Item(4, 6), d \in Item(5, 6)}

\* Three multiples, each measuring the next one.
TimesCycle == {<<Times(Dist(1, 1, 2, 3), 1), Times(Dist(1, 1, 3, 4), 1),
                 Times(Dist(1, 1, 1, 2), 1), Empty>>}

\* A multiple that pads what follows to 133 bytes, one byte at first, and goes
\* below zero when the jump takes its long form.
TimesBelowZero == {<<Times(Dist(133, -1, 3, 5), 1), Align(4, 4), Jmp(3, 5), Bytes(130), Empty>>}

\* Multiples that pad to a position, measure what precedes or follows them, are
\* constant, negative or unknown, next to jumps, an instruction with two
\* fields, repeated instructions and a second section.
Factor(b, n) ==
    {Times(Dist(130, -1, 1, b), 1), Times(Dist(-2, 1, 1, b), 1),
     Times(Dist(1, 1, b + 1, n), 2), Times(Const(-1), 1), Times(Unknown, 1),
     [MovDispImm(Dist(0, 1, 1, n), Dist(0, -1, 1, b)) EXCEPT !.count = Const(3)],
     MovDispImm(Dist(-6, 1, 1, n), Dist(0, 1, b, n)),
     Leb(Dist(60, 1, n, 1), TRUE), Jcc(b, 1), Jcc(b, n), JmpExtern, Bytes(1), Org(131)}
MultiplePrograms ==
    {<<a, b, Bytes(120), c, Empty, Second(Align(4, 4)), Second(d), Second(Empty)>> :
        a \in Factor(1, 5), b \in Factor(2, 5), c \in Factor(4, 5),
        d \in {Jmp(7, 8), Times(Dist(0, 1, 6, 7), 1), Times(Dist(0, 1, 6, 8), 1)}}
    \cup TimesBelowZero

AllPrograms == JumpPrograms \cup MultiplePrograms

=============================================================================
