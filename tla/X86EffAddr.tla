----------------------------- MODULE X86EffAddr ------------------------------
(***************************************************************************)
(* Effective addresses of x86 instructions                                 *)
(* (modules/arch/x86/X86EffAddr.cpp): Check takes the registers out of the *)
(* address expression, chooses base, index and scale, and sets the fields  *)
(* of ModRM and SIB and the size of the displacement.                      *)
(*                                                                         *)
(* An address is a record: disp, the expression's terms; rel, whether a    *)
(* symbol to relocate against was split off it; size, of the displacement  *)
(* (0: not known); the fields mod and rm of ModRM and scale, index, base   *)
(* of SIB; and the flags of the class.  A register is a term with its type *)
(* and number, rex the bits of a REX prefix.                               *)
(***************************************************************************)
EXTENDS ExprTerms

kREG_NONE == -1
RSP == 4
RBP == 5
RIP == 16
SIMDREGS == 17

NoRex == [on |-> FALSE, never |-> FALSE, b |-> {}]

\* setRexFromReg: a register from 8 up, and the byte registers SPL to DIL,
\* need a REX prefix; AH to BH cannot have one.
RexFromReg(rex, type, num, bits, bit) ==
    CASE bits = 64 /\ (type = "r8x" \/ num >= 8) ->
           [ok |-> ~rex.never,
            rex |-> [rex EXCEPT !.on = TRUE,
                                !.b = IF num % 16 >= 8 THEN @ \cup {bit} ELSE @]]
      [] bits = 64 /\ type = "r8" /\ num \in 4..7 ->
           [ok |-> ~rex.on, rex |-> [rex EXCEPT !.never = TRUE]]
      [] OTHER -> [ok |-> TRUE, rex |-> rex]

-----------------------------------------------------------------------------
(* Addresses                                                               *)

NoEA == [has |-> FALSE, disp |-> << >>, rel |-> FALSE, size |-> 0,
         mod |-> 0, rm |-> 0, scale |-> 0, index |-> 0, base |-> 0,
         need_sib |-> 0, valid_sib |-> FALSE, need_modrm |-> FALSE,
         valid_modrm |-> FALSE, need_disp |-> FALSE, nonzero |-> FALSE,
         nosplit |-> FALSE, pc_rel |-> FALSE, ip_rel |-> FALSE,
         segreg |-> FALSE, vsib |-> 0]

\* Not known before Check (0xff).
Unknown == 255

\* The constructor for a memory operand.
MemoryEA(e, rel) ==
    [NoEA EXCEPT !.has = TRUE, !.disp = e, !.rel = rel, !.need_sib = Unknown,
                 !.need_modrm = TRUE, !.need_disp = TRUE]

setReg(ea, num) ==
    [ea EXCEPT !.has = TRUE, !.mod = 3, !.rm = num % 8,
               !.valid_modrm = TRUE, !.need_modrm = TRUE]

setDispOnly(ea) ==
    [ea EXCEPT !.valid_modrm = FALSE, !.need_modrm = FALSE,
               !.valid_sib = FALSE, !.need_sib = 0]

ContainsReg(ts) == \E p \in DOMAIN ts : ts[p].t = "reg"

-----------------------------------------------------------------------------
(* Multiplications of sums of registers                                    *)

\* getChildren: the two operands of a binary operator.
getChildren(ts, pos) ==
    LET kids == Children(ts, pos)
    IN  IF isOp(ts[pos]) /\ ts[pos].n = 2 /\ Cardinality(kids) = 2
        THEN {[lhs |-> CHOOSE m \in kids : \A k \in kids : m <= k,
               rhs |-> CHOOSE m \in kids : \A k \in kids : k <= m]}
        ELSE {}

\* Fixup: in GAS syntax foo(%rip) is foo, addressed relative to RIP.
Fixup(xform_rip_plus, e) ==
    LET rip == {p \in UNION {{c.lhs, c.rhs} : c \in getChildren(e, Len(e))} :
                   e[p].t = "reg" /\ e[p].s = "rip"}
    IN  IF ~xform_rip_plus \/ Last(e).op # "ADD" \/ rip = {} THEN e
        ELSE AppendOp(Append(Each(e, LAMBDA p : IF p \in rip THEN IntTerm(0, e[p].d) ELSE e[p]),
                             RegTerm("rip", RIP)), "WRT", 2)

\* Where the loop below goes on when a nested multiplication at n has been
\* levelled with the new one at n + 2: before the operands that came up.
RECURSIVE SkipFactors(_, _, _, _)
SkipFactors(ts, m, depth, left) ==
    CASE m < 1 -> m
      [] m >= 1 /\ (isEmpty(ts[m]) \/ ts[m].d > depth + 1) ->
           SkipFactors(ts, m - 1, depth, left)
      [] m >= 1 /\ ~isEmpty(ts[m]) /\ (ts[m].d <= depth
                                       \/ (ts[m].d = depth + 1 /\ left = 0)) -> m
      [] OTHER -> SkipFactors(ts, m - 1, depth, left - 1)

\* The loop of X86DistRegFunctor over the terms of the sum: each is given the
\* factor, integers directly.
RECURSIVE DistLoop(_, _, _, _, _, _)
DistLoop(ts, n, depth, factor, pos, mul) ==
    CASE n < 1 \/ (n >= 1 /\ ~isEmpty(ts[n]) /\ ts[n].d <= depth) ->
           [ts |-> ts, pos |-> pos]
      [] n >= 1 /\ (isEmpty(ts[n]) \/ ts[n].d > depth + 1) ->
           DistLoop(ts, n - 1, depth, factor, pos, mul)
      [] OTHER ->
         IF ts[n].t = "int"
         THEN DistLoop([ts EXCEPT ![n].i = @ * factor, ![n].d = @ - 1],
                       n - 1, depth, factor, pos, mul)
         ELSE LET more == InsertTerms(ts, n, <<IntTerm(factor, depth + 1),
                                               OpTerm("MUL", 2, depth)>>)
              IN  IF ts[n].op # "MUL"
                  THEN DistLoop(more, n - 1, depth, factor, pos + 2, mul)
                  ELSE LET flat == LevelOp(more, n + 2, mul)
                       IN  DistLoop(flat,
                                    SkipFactors(flat, n + 1, depth, flat[n + 2].n),
                                    depth, factor, pos + 2, mul)

\* INT*(REG+...) becomes a sum of products, the only case there is to
\* distribute.
DistReg(ts, pos, mul) ==
    LET same == [ts |-> ts, pos |-> pos]
        found == {c \in getChildren(ts, pos) :
                     ts[pos].op = "MUL" /\ "int" \in {ts[c.lhs].t, ts[c.rhs].t}}
    IN  IF found = {} THEN same
        ELSE LET c == CHOOSE x \in found : TRUE
                 int == IF ts[c.lhs].t = "int" THEN c.lhs ELSE c.rhs
                 sum == IF int = c.lhs THEN c.rhs ELSE c.lhs
             IN  IF ts[sum].op # "ADD" \/ ~ContainsType(ts, "reg", sum) THEN same
                 ELSE DistLoop([ts EXCEPT ![int] = NoTerm, ![sum] = NoTerm,
                                   ![pos] = OpTerm("ADD", ts[sum].n, @.d)],
                               sum - 1, ts[sum].d, ts[int].i, pos, mul)

\* Simplify with the functor: level, distribute, level what is left.
RECURSIVE DistAll(_, _, _)
DistAll(ts, pos, mul) ==
    IF pos > Len(ts) THEN ts
    ELSE IF ~isOp(ts[pos]) THEN DistAll(ts, pos + 1, mul)
    ELSE LET one == LevelOp(ts, pos, mul)
         IN  IF ~isOp(one[pos]) THEN DistAll(one, pos + 1, mul)
             ELSE LET r == DistReg(one, pos, mul)
                  IN  DistAll(LevelOp(r.ts, r.pos, mul), r.pos + 1, mul)

SimplifyDist(ts, mul) == Cleanup(DistAll(TransformNeg(ts), 1, mul))

-----------------------------------------------------------------------------
(* Registers of an address                                                 *)

\* getReg: the number an address of this size has for a register.
getReg(term, bits, addrsize, vsib) ==
    LET num == term.i
    IN  CASE term.s = "r16" /\ addrsize = 16 /\ num \in {3, 5, 6, 7} -> num
          [] term.s = "r32" /\ addrsize = 32 -> num
          [] term.s = "r64" /\ addrsize = 64 -> num
          [] term.s = "xmm" /\ vsib = 1 /\ (bits = 64 \/ num < 8) -> SIMDREGS + num
          [] term.s = "ymm" /\ vsib = 2 /\ (bits = 64 \/ num < 8) -> SIMDREGS + num
          [] term.s = "rip" /\ bits = 64 -> RIP
          [] OTHER -> kREG_NONE

\* GetTermRegUsage: REG or REG*INT is counted and zeroed.  The last, largest
\* multiplier wins the index; a register brought down to 1 loses it again.
TermRegUsage(u, pos, bits, addrsize, vsib) ==
    LET child == u.ts[pos]
        kids == getChildren(u.ts, pos)
        pairs == {p \in {<<c.lhs, c.rhs>> : c \in kids} \cup
                        {<<c.rhs, c.lhs>> : c \in kids} :
                     u.ts[p[1]].t = "reg" /\ u.ts[p[2]].t = "int"}
        count(reg, delta, at) ==
            [u EXCEPT !.mult[reg] = @ + delta, !.ts[at] = IntTerm(0, @.d)]
    IN  IF ~u.ok THEN u
        ELSE IF child.t = "reg"
        THEN LET reg == getReg(child, bits, addrsize, vsib)
                 mult == u.mult[reg] + 1
             IN  IF reg = kREG_NONE THEN [u EXCEPT !.ok = FALSE]
                 ELSE IF mult > 0 /\ u.indexval <= mult /\ ~u.indexmult
                 THEN [count(reg, 1, pos) EXCEPT !.index = reg, !.indexval = mult]
                 ELSE count(reg, 1, pos)
        ELSE IF child.op = "MUL"
        THEN IF pairs = {} THEN u
             ELSE LET p == CHOOSE x \in pairs : TRUE
                      reg == getReg(u.ts[p[1]], bits, addrsize, vsib)
                      delta == u.ts[p[2]].i
                      mult == u.mult[reg] + delta
                  IN  IF reg = kREG_NONE THEN [u EXCEPT !.ok = FALSE]
                      ELSE IF delta > 0 /\ u.indexval <= mult
                      THEN [count(reg, delta, p[1]) EXCEPT
                              !.index = reg, !.indexval = mult, !.indexmult = TRUE]
                      ELSE IF u.index = reg /\ delta < 0 /\ mult <= 1
                      THEN [count(reg, delta, p[1]) EXCEPT
                              !.index = kREG_NONE, !.indexval = 0, !.indexmult = FALSE]
                      ELSE count(reg, delta, p[1])
        ELSE IF isOp(child) /\ ContainsType(u.ts, "reg", pos)
        THEN [u EXCEPT !.ok = FALSE]
        ELSE u

\* The registers of the simplified expression s, term by term.
UsageOf(s, bits, addrsize, vsib) ==
    LET wrt == Last(s).op = "WRT"
        parts == ExtractLHS(s)
        wrtok == parts.rhs[1].t = "reg" /\ parts.rhs[1].s = "rip" /\ bits = 64
        ts == IF wrt THEN parts.lhs ELSE s
        zero == [r \in 0..32 |-> 0]
        u0 == [ok |-> ~wrt \/ wrtok, ts |-> ts,
               mult |-> IF wrt THEN [zero EXCEPT ![RIP] = 1] ELSE zero,
               index |-> kREG_NONE, indexval |-> 0, indexmult |-> FALSE, ip_rel |-> wrt]
        terms == IF Last(ts).op = "ADD"
                 THEN SetToSortSeq(Children(ts, Len(ts)), <) ELSE <<Len(ts)>>
    IN  FoldLeft(LAMBDA acc, pos : TermRegUsage(acc, pos, bits, addrsize, vsib), u0, terms)

Simplified(u) == IF u.ok THEN [u EXCEPT !.ts = SimplifyTerms(@, TRUE)] ELSE u

\* GetRegUsage.  What is left of the expression is the displacement.  Without
\* a wish for an index (16-bit addresses) 1*REG is simplified first.
GetRegUsage(e, bits, addrsize, vsib, wantindex) ==
    Simplified(UsageOf(IF e = << >> THEN <<IntTerm(0, 0)>> ELSE SimplifyDist(e, ~wantindex),
                       bits, addrsize, vsib))

-----------------------------------------------------------------------------
(* ModRM, SIB and displacement                                             *)

Fail(ea, rex) == [ok |-> FALSE, ea |-> ea, rex |-> rex]
Done(ea, rex) == [ok |-> TRUE, ea |-> ea, rex |-> rex]

\* Value::getIntNum: known now, with no symbol to wait for.
Known(ts) == ts = << >> \/ (Len(ts) = 1 /\ ts[1].t = "int")
IntOf(ts) == IF ts = << >> THEN 0 ELSE ts[1].i

\* CalcDispLen.  A size given in the source is kept where it can be; a symbol
\* to relocate needs the full size; a value that is not known yet starts as a
\* byte; zero needs no displacement unless the base register does.
CalcDispLen(ea0, rex, wordsize, noreg, dispreq) ==
    LET ea == [ea0 EXCEPT !.valid_modrm = TRUE]
        long == [ea EXCEPT !.size = wordsize, !.mod = 2]
        num == IntOf(ea.disp)
    IN  CASE ea.size = 8 ->
               Done(IF noreg THEN [ea EXCEPT !.size = wordsize]
                             ELSE [ea EXCEPT !.mod = 1], rex)
          [] ea.size \in {16, 32} ->
               IF ea.size # wordsize THEN Fail(ea0, rex)
               ELSE Done(IF noreg THEN ea ELSE [ea EXCEPT !.mod = 2], rex)
          [] ea.size = 0 /\ noreg -> Done([ea EXCEPT !.size = wordsize], rex)
          [] ea.size = 0 /\ ~noreg /\ ea.rel ->
               Done([long EXCEPT !.nonzero = @ \/ dispreq], rex)
          [] ea.size = 0 /\ ~noreg /\ ~ea.rel /\ ~Known(ea.disp) ->
               Done([ea EXCEPT !.nonzero = TRUE, !.mod = 1], rex)
          [] OTHER ->
               Done(CASE num = 0 /\ ~dispreq /\ ~ea.nonzero ->
                           [ea EXCEPT !.disp = << >>, !.need_disp = FALSE]
                      [] num \in -128..127 /\ (num # 0 \/ dispreq \/ ea.nonzero) ->
                           [ea EXCEPT !.size = 8, !.mod = 1, !.nonzero = @ \/ dispreq]
                      [] OTHER -> [long EXCEPT !.nonzero = @ \/ dispreq], rex)

\* Base and index from the multipliers, in the order of the loop over the
\* registers: the first with multiplier 1 that is not the index becomes the
\* base; without an index, the first other one that is used becomes it.
First(regs) == IF regs = {} THEN kREG_NONE ELSE Min(regs)

FindBase(u) ==
    LET index0 == IF u.index # kREG_NONE /\ u.mult[u.index] # 0 THEN u.index ELSE kREG_NONE
        base == First({i \in 0..32 : i # index0 /\ u.mult[i] = 1})
    IN  [base |-> base, mult |-> u.mult,
         index |-> IF index0 # kREG_NONE THEN index0
                   ELSE First({i \in 0..32 : i # base /\ u.mult[i] > 0})]

\* reg*2 is split into reg+reg, reg*3 into reg+reg*2 and so on when there is no
\* base; a single register is the base.
SplitIndex(c, nosplit) ==
    IF c.index = kREG_NONE \/ c.base # kREG_NONE THEN c
    ELSE CASE c.mult[c.index] = 1 /\ ~nosplit ->
                [c EXCEPT !.base = c.index, !.index = kREG_NONE]
           [] c.mult[c.index] = 2 /\ ~nosplit ->
                [c EXCEPT !.base = c.index, !.mult[c.index] = 1]
           [] c.mult[c.index] \in {3, 5, 9} ->
                [c EXCEPT !.base = c.index, !.mult[c.index] = @ - 1]
           [] OTHER -> c

\* A vector of indices goes into the index, which it must be.
VectorIndex(c) ==
    IF c.base >= SIMDREGS /\ (c.index = kREG_NONE \/ c.mult[c.index] = 1)
    THEN [c EXCEPT !.base = c.index, !.index = c.base] ELSE c


\* ESP is no index: swapped with the base where the multiplier allows.
SwapStack(c) ==
    IF c.index = RSP THEN [c EXCEPT !.index = c.base, !.base = RSP] ELSE c

\* The SIB byte.
SetSib(ea, rex, c, bits) ==
    LET b == RexFromReg(rex, "r64", c.base, bits, "B")
        r1 == IF c.base = kREG_NONE THEN [ok |-> TRUE, rex |-> rex] ELSE b
        num == IF c.index >= SIMDREGS THEN c.index - SIMDREGS ELSE c.index
        x == RexFromReg(r1.rex, "r64", num, bits, "X")
        r2 == IF c.index = kREG_NONE THEN r1 ELSE [x EXCEPT !.ok = @ /\ r1.ok]
        scale == IF c.index = kREG_NONE THEN 0
                 ELSE CASE c.mult[c.index] = 2 -> 1 [] c.mult[c.index] = 4 -> 2
                        [] c.mult[c.index] = 8 -> 3 [] OTHER -> 0
    IN  [ok |-> r2.ok, rex |-> r2.rex,
         ea |-> [ea EXCEPT !.base = IF c.base = kREG_NONE THEN 5 ELSE c.base % 8,
                           !.index = IF c.index = kREG_NONE THEN 4 ELSE num % 8,
                           !.scale = scale, !.valid_sib = TRUE]]

\* ModRM and SIB for base and index c.  need_sib may be set from the start
\* (VSIB).
SetModrm(ea, rex, c, bits) ==
    LET nosib(rm) == [ea EXCEPT !.rm = rm, !.need_sib = 0, !.valid_sib = FALSE]
        sib == [ea EXCEPT !.rm = 4, !.need_sib = 1]
        baserex == RexFromReg(rex, "r64", c.base, bits, "B")
    IN  CASE c.base = kREG_NONE /\ c.index = kREG_NONE ->
               Done(IF bits = 64 THEN sib ELSE nosib(5), rex)
          [] c.base # kREG_NONE /\ c.index = kREG_NONE ->
               [ok |-> baserex.ok, rex |-> baserex.rex,
                ea |-> IF c.base \in {RSP, 12}
                       THEN [sib EXCEPT !.rm = c.base % 8]
                       ELSE nosib(c.base % 8)]
          [] OTHER -> Done(sib, rex)

WithSib(set, c, bits) ==
    IF set.ea.need_sib = 1 THEN SetSib(set.ea, set.rex, c, bits) ELSE set

WithDisp(full, ea, rex, c) ==
    IF ~full.ok THEN Fail(ea, rex)
    ELSE CalcDispLen(full.ea, full.rex, 32, c.base = kREG_NONE, c.base \in {RBP, 13})

\* RIP always has a displacement of 32 bits.
Encode3264(ea, rex, c, bits) ==
    IF c.base = RIP
    THEN Done([ea EXCEPT !.rm = 5, !.need_sib = 0, !.valid_sib = FALSE,
                         !.valid_modrm = TRUE, !.size = 32], rex)
    ELSE WithDisp(WithSib(SetModrm(ea, rex, c, bits), c, bits), ea, rex, c)

\* From the registers used, u, and base and index before ESP is swapped, c1.
Choose3264(ea0, bits, rex, u, c1) ==
    LET pc_rel == ea0.pc_rel /\ bits = 64
        c2 == SwapStack(c1)
        ripbase == pc_rel /\ c2.base = kREG_NONE /\ c2.index = kREG_NONE
        bad == \/ \E i \in 0..32 : u.mult[i] < 0
               \/ ea0.vsib # 0 /\ (c1.base >= RIP \/ c1.index < SIMDREGS)
               \/ \E i \in 0..32 : i \notin {c1.base, c1.index} /\ c1.mult[i] # 0
               \/ c1.index # kREG_NONE /\ c1.mult[c1.index] \notin {1, 2, 4, 8}
               \/ c1.index = RSP /\ (c1.mult[RSP] > 1 \/ c1.base = RSP)
               \/ c2.index = RIP
               \/ c2.base = RIP /\ c2.index # kREG_NONE
        ea == [ea0 EXCEPT !.disp = u.ts, !.pc_rel = pc_rel,
                          !.ip_rel = u.ip_rel \/ ripbase, !.need_modrm = TRUE]
    IN  IF ~u.ok THEN Fail([ea0 EXCEPT !.pc_rel = pc_rel], rex)
        ELSE IF bad THEN Fail(ea, rex)
        ELSE Encode3264(ea, rex, IF ripbase THEN [c2 EXCEPT !.base = RIP] ELSE c2, bits)

BaseAndIndex(ea, found) ==
    IF ea.vsib # 0 THEN VectorIndex(found) ELSE SplitIndex(found, ea.nosplit)

ByUsage3264(ea, bits, rex, u) ==
    Choose3264(ea, bits, rex, u, BaseAndIndex(ea, FindBase(u)))

Check3264(ea, addrsize, bits, rex) ==
    IF addrsize = 64 /\ bits # 64 THEN Fail(ea, rex)
    ELSE ByUsage3264(ea, bits, rex, GetRegUsage(ea.disp, bits, addrsize, ea.vsib, TRUE))

\* The combinations of BX, SI, DI and BP a 16-bit address may have, by R/M.
Regs16 == <<{3, 6}, {3, 7}, {5, 6}, {5, 7}, {6}, {7}, {5}, {3}>>

ByUsage16(ea0, rex, u) ==
    LET used == {r \in {3, 5, 6, 7} : u.mult[r] # 0}
        ea == [ea0 EXCEPT !.disp = u.ts, !.ip_rel = u.ip_rel, !.need_sib = 0,
                          !.valid_sib = FALSE]
        rms == {k \in 1..8 : Regs16[k] = used}
    IN  IF ~u.ok \/ (\E r \in used : u.mult[r] # 1) \/ (used # {} /\ rms = {})
        THEN Fail(ea0, rex)
        ELSE CalcDispLen([ea EXCEPT !.rm = IF used = {} THEN 6
                                           ELSE (CHOOSE k \in rms : TRUE) - 1],
                         rex, 16, used = {}, used = {RBP})

Check16(ea, bits, address16_op, rex) ==
    IF bits = 64 /\ ~address16_op THEN Fail(ea, rex)
    ELSE ByUsage16(ea, rex, GetRegUsage(ea.disp, bits, 16, ea.vsib, FALSE))

\* getRegSize: the first register decides; a vector register decides nothing.
RegSize(ts) ==
    LET regs == {p \in DOMAIN ts : ts[p].t = "reg"}
        type == IF regs = {} THEN "" ELSE ts[CHOOSE p \in regs : \A q \in regs : p <= q].s
    IN  CASE type = "r16" -> 16
          [] type = "r32" -> 32
          [] type \in {"r64", "rip"} -> 64
          [] OTHER -> 0

\* The size of addresses, where no prefix says it.
AddrSize(ea, bits) ==
    LET size == RegSize(ea.disp)
    IN  CASE ea.size = 16 -> 16
          [] ea.size = 64 -> 64
          [] ea.size = 32 /\ (bits # 64 \/ (~ea.need_modrm /\ ea.need_sib = 0)) -> 32
          [] bits = 16 /\ ea.need_sib = 1 /\ ea.size \in {0, 8} -> 32
          [] OTHER -> IF size = 0 THEN bits ELSE size

\* Check.  A displacement without ModRM (MOV of a memory offset) has the size
\* of addresses.
Check(ea, addrsize0, bits, address16_op, rex) ==
    LET addrsize == IF addrsize0 = 0 THEN AddrSize(ea, bits) ELSE addrsize0
        with(r) == [ok |-> r.ok, ea |-> r.ea, rex |-> r.rex, addrsize |-> addrsize]
    IN  CASE addrsize0 = 0 /\ ea.size = 64 /\ (ea.need_modrm \/ ea.need_sib # 0) ->
               with(Fail(ea, rex))
          [] addrsize \in {32, 64} /\ (\/ ea.need_modrm /\ ~ea.valid_modrm
                                       \/ ea.need_sib # 0 /\ ~ea.valid_sib) ->
               with(Check3264(ea, addrsize, bits, rex))
          [] addrsize = 16 /\ ea.need_modrm /\ ~ea.valid_modrm ->
               with(Check16(ea, bits, address16_op, rex))
          [] ~ea.need_modrm /\ ea.need_sib = 0 ->
               with(IF \/ addrsize = 64 /\ bits # 64
                       \/ addrsize = 16 /\ bits = 64 /\ ~address16_op
                    THEN Fail(ea, rex)
                    ELSE Done([ea EXCEPT !.size = addrsize], rex))
          [] OTHER -> with(Done(ea, rex))

=============================================================================
