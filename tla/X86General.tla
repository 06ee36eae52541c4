----------------------------- MODULE X86General ------------------------------
(***************************************************************************)
(* One x86 instruction from its operands to its bytes                      *)
(* (modules/arch/x86): BuildGeneral of X86Insn.cpp applies the operands,   *)
(* X86General finalizes them, computes the length, is expanded by the      *)
(* optimizer while the values it waits for move, and writes the bytes;     *)
(* X86Jmp does the same for relative jumps.                                *)
(*                                                                         *)
(* src is a row of the instruction table with the operands of a line.  The *)
(* roles of an operand are the fields its OPA_ action fills.  Opcode       *)
(* bytes are names with what Add has added to them.  The output is a       *)
(* sequence of items with their sizes in bytes.                            *)
(***************************************************************************)
EXTENDS X86EffAddr

CONSTANTS Sources,    \* instructions with their operands
          Moves,      \* values a symbol takes while offsets change
          MaxMoves    \* bound: changes of offsets

VARIABLES src,        \* the instruction and its operands
          pc,         \* idle, new, appended, final, laid, out or error
          insn,       \* the fields of X86General or X86Jmp
          len,        \* length of the bytecode
          spans,      \* spans that may still expand, of 1 and 2
          env,        \* what the symbols are worth now
          moves,      \* how often they have changed
          out         \* items written

vars == <<src, pc, insn, len, spans, env, moves, out>>

Here == 1000     \* offset of the instruction
Label == 5000    \* address of the symbol a value is relative to

-----------------------------------------------------------------------------
(* Opcodes and prefixes                                                    *)

\* An alternative opcode of one byte follows the opcode.
MakeAlt1(op) == [b |-> [op.b EXCEPT ![1] = op.b[op.len + 1]], len |-> 1]
MakeAlt2(op) == [b |-> [op.b EXCEPT ![1] = op.b[2], ![2] = op.b[3]], len |-> 2]

AddrOverride(c) == c.addrsize # 0 /\ c.addrsize # c.bits
OperOverride(c) == IF c.bits = 64 THEN c.opersize = 16 ELSE c.opersize # c.bits

getLen(c) == Truth(AddrOverride(c)) + Truth(OperOverride(c))
             + Truth(c.lockrep) + Truth(c.acqrel)

Item(k, size, v) == [k |-> k, size |-> size, v |-> v]
If(cond, item) == IF cond THEN <<item>> ELSE << >>

ToBytes(c, segreg) ==
    If(segreg, Item("seg", 1, 0)) \o If(AddrOverride(c), Item("67", 1, 0))
    \o If(OperOverride(c), Item("66", 1, 0))
    \o If(c.acqrel, Item("acqrel", 1, 0)) \o If(c.lockrep, Item("lockrep", 1, 0))

OpcodeBytes(op) == [k \in 1..op.len |-> Item("op", 1, op.b[k])]

\* Prefixes in the order of the line.  Errors do not stop the loop.
ApplyPrefix(g, p) ==
    CASE p.k = "ACQREL" -> [g EXCEPT !.common.acqrel = TRUE]
      [] p.k \in {"LOCKREP", "SEGREG"} -> [g EXCEPT !.common.lockrep = TRUE]
      [] p.k = "ADDRSIZE" ->
           [g EXCEPT !.common.addrsize = p.v, !.ok = @ /\ ~(g.common.bits = 64 /\ p.v = 16)]
      [] p.k = "OPERSIZE" ->
           [g EXCEPT !.common.opersize = p.v,
                     !.ok = @ /\ ~(g.common.bits = 64 /\ p.v = 32),
                     !.rex = IF g.common.bits = 64 /\ p.v = 64 /\ src.def64 # 64 /\ ~@.never
                             THEN [@ EXCEPT !.on = TRUE, !.b = {"W"}] ELSE @]

Finish(c) == [c EXCEPT !.opersize = IF @ # 0 THEN @ ELSE IF c.bits = 64 THEN 32 ELSE c.bits]

NoCommon == [bits |-> src.bits, addrsize |-> 0, opersize |-> 0,
             lockrep |-> FALSE, acqrel |-> FALSE]

-----------------------------------------------------------------------------
(* Operands                                                                *)

NoImm == [has |-> FALSE, ts |-> << >>, size |-> 0]

\* A register goes into every field its role names.
RegisterInto(g, o, role) ==
    LET bit == IF role = "Spare" THEN "R" ELSE "B"
        r == RexFromReg(g.rex, o.type, o.num, src.bits, bit)
        set == [g EXCEPT !.rex = r.rex]
    IN  IF role = "VEX" THEN [g EXCEPT !.vexreg = o.num]
        ELSE IF ~r.ok THEN [g EXCEPT !.ok = FALSE]
        ELSE CASE role = "EA" -> [set EXCEPT !.ea = setReg(@, o.num)]
               [] role = "Spare" -> [set EXCEPT !.spare = o.num % 8]
               [] role = "Op0Add" -> [set EXCEPT !.opcode.b[1].add = @ + (o.num % 8)]
               [] role = "Op1Add" -> [set EXCEPT !.opcode.b[2].add = @ + (o.num % 8)]

\* A memory operand: by the operand's type in the table, an offset without
\* ModRM, a vector of addresses, or an address that may be RIP-relative.
MemoryInto(g, o) ==
    LET ea == [MemoryEA(Fixup(src.gas, o.ts), o.rel) EXCEPT !.size = o.size, !.nosplit = o.nosplit,
                                            !.segreg = o.segreg, !.pc_rel = o.pc_rel = "rel"]
    IN  [g EXCEPT !.ea =
           CASE o.type = "MemOffs" -> setDispOnly(ea)
             [] o.type = "MemXMMIndex" -> [ea EXCEPT !.vsib = 1, !.need_sib = 1]
             [] o.type = "MemYMMIndex" -> [ea EXCEPT !.vsib = 2, !.need_sib = 1]
             [] OTHER -> [ea EXCEPT !.pc_rel = @ \/ /\ src.default_rel
                                                    /\ o.pc_rel # "abs"
                                                    /\ ~o.segreg
                                                    /\ ~ContainsReg(o.ts)]]

AssignOperand(g, o) ==
    CASE o.t = "reg" -> FoldLeft(LAMBDA acc, role : RegisterInto(acc, o, role), g, o.roles)
      [] o.t = "mem" -> MemoryInto(g, o)
      [] o.t = "imm" -> [g EXCEPT !.imm = [has |-> TRUE, ts |-> o.ts, size |-> o.size]]
      [] o.t = "eaimm" -> [g EXCEPT !.ea = [@ EXCEPT !.has = TRUE, !.disp = o.ts,
                                                     !.size = o.size, !.need_disp = TRUE]]
      [] o.t = "adsize" ->
           [g EXCEPT !.common.addrsize = o.size, !.ok = @ /\ ~(src.bits = 64 /\ o.size = 16)]

\* The operand's action, then what is postponed: a size the source insists on
\* chooses the long opcode at once.
Postpone(g, o) ==
    CASE o.post = "SImm8" -> IF o.strict THEN [g EXCEPT !.opcode = MakeAlt1(@)]
                             ELSE [g EXCEPT !.postop = "SIGNEXT_IMM8"]
      [] o.post = "" -> g
      [] OTHER -> [g EXCEPT !.postop = o.post]

ApplyOperand(g, o) == Postpone(AssignOperand(g, o), o)

UpdateRex == IF src.bits = 64 /\ src.opersize = 64 /\ src.def64 # 64
             THEN [NoRex EXCEPT !.on = TRUE, !.b = {"W"}] ELSE NoRex

\* A segment override of the line goes into the address, or else in front.
ApplySegReg(g) ==
    CASE src.segreg /\ g.ea.has -> [g EXCEPT !.ea.segreg = TRUE]
      [] src.segreg /\ ~g.ea.has -> [g EXCEPT !.special = "seg"]
      [] OTHER -> g

\* Two bytes of VEX and one of opcode replace the opcode.
ToVex(g) ==
    IF src.vex = << >> THEN g
    ELSE [g EXCEPT !.special = "C4",
                   !.opcode = [len |-> 3,
                               b |-> << [o |-> "map", add |-> src.vex[1]],
                                        [o |-> "WvvvvLpp", add |-> src.vex[2]],
                                        g.opcode.b[1]>>]]

\* DoAppendGeneral
BuildGeneral ==
    LET g0 == [ok |-> TRUE, jmp |-> FALSE, common |-> [NoCommon EXCEPT !.opersize = src.opersize],
               ea |-> NoEA, imm |-> NoImm, opcode |-> src.opcode, spare |-> src.spare,
               vexreg |-> 0, rex |-> UpdateRex, special |-> "", postop |-> "NONE"]
        g1 == ApplySegReg(FoldLeft(ApplyOperand, g0, src.operands))
        g == FoldLeft(ApplyPrefix, g1, src.prefixes)
    IN  ToVex([g EXCEPT !.common = Finish(@)])

-----------------------------------------------------------------------------
(* General instructions                                                    *)

\* Value::Finalize, with the relative symbol split off already: simplified, and
\* zero is nothing.
NonZero(ts) == IF Len(ts) = 1 /\ ts[1].t = "int" /\ ts[1].i = 0 THEN << >> ELSE ts
FinalizeValue(ts) == IF ts = << >> THEN << >> ELSE NonZero(SimplifyTerms(ts, FALSE))

\* MOV of a register number B8+r with a 32-bit immediate is C7 /0.
ShortImm(i) ==
    [i EXCEPT !.ea = setReg(NoEA, i.opcode.b[1].add), !.spare = 0,
              !.opcode = MakeAlt1(@), !.imm.size = 32, !.postop = "NONE"]

\* What was postponed until the values are final.
DoPostponed(i) ==
    CASE i.postop = "ADDRESS16" -> [i EXCEPT !.common.addrsize = 0]
      [] i.postop = "SHORT_MOV" ->
           IF /\ ~src.default_rel
              /\ i.common.bits = 64
              /\ i.common.addrsize = 32
              /\ ~ContainsReg(i.ea.disp)
           THEN [i EXCEPT !.ea = setDispOnly(@), !.opcode = MakeAlt1(@), !.postop = "NONE"]
           ELSE [i EXCEPT !.postop = "NONE"]
      [] i.postop = "SIMM32_AVAIL" ->
           IF Known(i.imm.ts) THEN ShortImm(i) ELSE [i EXCEPT !.postop = "NONE"]
      [] OTHER -> i

FinalizeGeneral(i) ==
    DoPostponed([i EXCEPT !.ea.disp = FinalizeValue(@), !.imm.ts = FinalizeValue(@)])

\* The three-byte VEX prefix is shortened when X, B and W are zero and the
\* opcode map is the first.
VexOptimize(i) ==
    IF /\ i.special = "C4"
       /\ i.opcode.b[1].add = 1
       /\ i.opcode.b[2].add = 0
       /\ i.rex.never \/ i.rex.b \cap {"W", "X", "B"} = {}
    THEN [i EXCEPT !.opcode = MakeAlt2(@), !.special = "C5"]
    ELSE i

WritesRex(i) == i.rex.on /\ ~i.rex.never /\ i.special \notin {"C4", "C5"}

SignExtend(v, size) ==
    CASE size = 8 -> ((v + 128) % 256) - 128
      [] size = 16 -> ((v + 32768) % 65536) - 32768
      [] OTHER -> v

\* The immediate of an opcode with a byte form: a value that is not known yet
\* starts as a byte (span 2).
CalcImm(i) ==
    LET num == SignExtend(IntOf(i.imm.ts), i.imm.size)
    IN  CASE i.postop # "SIGNEXT_IMM8" -> [insn |-> i, len |-> i.imm.size \div 8, spans |-> {}]
          [] i.postop = "SIGNEXT_IMM8" /\ ~Known(i.imm.ts) ->
               [insn |-> i, len |-> 1, spans |-> {2}]
          [] i.postop = "SIGNEXT_IMM8" /\ Known(i.imm.ts) /\ num \in -128..127 ->
               [insn |-> [i EXCEPT !.imm.size = 8, !.imm.ts = <<IntTerm(num, 0)>>,
                                   !.postop = "NONE"],
                len |-> 1, spans |-> {}]
          [] OTHER -> [insn |-> [i EXCEPT !.opcode = MakeAlt1(@), !.postop = "NONE"],
                       len |-> i.imm.size \div 8, spans |-> {}]

\* The address; a displacement that is not known yet starts as a byte (span 1).
EALen(i, a16, r) ==
    LET wait == r.ea.size = 0 /\ r.ea.nonzero
        ea == IF wait THEN [r.ea EXCEPT !.size = 8] ELSE r.ea
    IN  [ok |-> r.ok,
         insn |-> [i EXCEPT !.ea = ea, !.rex = r.rex,
                            !.common.addrsize = IF a16 THEN 0 ELSE r.addrsize],
         len |-> ea.size \div 8 + Truth(ea.need_modrm) + Truth(ea.need_sib # 0)
                 + Truth(ea.segreg),
         spans |-> IF wait THEN {1} ELSE {}]

CalcEA(i) ==
    LET a16 == i.postop = "ADDRESS16"
    IN  IF ~i.ea.has THEN [ok |-> TRUE, insn |-> i, len |-> 0, spans |-> {}]
        ELSE EALen(i, a16, Check(i.ea, i.common.addrsize, i.common.bits, a16, i.rex))

\* The whole length, from that of the address, a, and of the immediate, m.
TotalLen(a, m) ==
    LET v == VexOptimize(m.insn)
    IN  [ok |-> a.ok, insn |-> v, spans |-> a.spans \cup m.spans,
         len |-> a.len + m.len + Truth(WritesRex(v)) + v.opcode.len
                 + getLen(v.common) + Truth(v.special # "")]

WithImm(a) == TotalLen(a, CalcImm(a.insn))

CalcLenGeneral(i) == WithImm(CalcEA(i))

\* For a mutation: the opcode is taken to be one byte in both forms.
ExpandOneByte(i, n, span) ==
    CASE i.ea.has /\ span = 1 /\ i.ea.size = 8 ->
           LET size == IF i.common.addrsize = 16 THEN 16 ELSE 32
           IN  [insn |-> [i EXCEPT !.ea.size = size, !.ea.mod = 2],
                len |-> n - 1 + size \div 8]
      [] i.imm.has /\ span = 2 /\ i.postop = "SIGNEXT_IMM8" ->
           [insn |-> [i EXCEPT !.opcode = MakeAlt1(@), !.postop = "NONE"],
            len |-> n - 1 + i.imm.size \div 8]
      [] OTHER -> [insn |-> i, len |-> n]

ExpandGeneral(i, n, span) ==
    LET size == IF i.common.addrsize = 16 THEN 16 ELSE 32
    IN  CASE i.ea.has /\ span = 1 /\ i.ea.size = 8 ->
               [insn |-> [i EXCEPT !.ea.size = size, !.ea.mod = 2],
                len |-> n - 1 + size \div 8]
          [] i.imm.has /\ span = 2 /\ i.postop = "SIGNEXT_IMM8" ->
               [insn |-> [i EXCEPT !.opcode = MakeAlt1(@), !.postop = "NONE"],
                len |-> n - i.opcode.len + i.imm.size \div 8]
          [] OTHER -> [insn |-> i, len |-> n]

\* The bits of REX, inverted in VEX; the two-byte VEX has only R.
GeneralToBytes(i0) ==
    LET i == VexOptimize(i0)
        bits == IF i.special = "C5" THEN i.rex.b \cap {"R"}
                ELSE i.rex.b \cup (IF i.opcode.b[2].add = 1 THEN {"W"} ELSE {})
    IN  ToBytes(i.common, i.ea.segreg)
        \o If(i.special = "seg", Item("seg", 1, 0))
        \o If(i.special \in {"C4", "C5"}, Item("vex", 1, [b |-> bits, vvvv |-> i.vexreg]))
        \o If(WritesRex(i), Item("rex", 1, [b |-> i.rex.b]))
        \o OpcodeBytes(i.opcode)

Size(items) == FoldLeft(LAMBDA n, item : n + item.size, 0, items)

Worth(ts) == IF ts = << >> THEN 0 ELSE Value(ts, Len(ts), env)

\* The address a displacement stands for, relative to the instruction's start
\* once SubRelative has been called.
DispValue(ea) == Worth(ea.disp) + (IF ea.rel THEN Label ELSE 0) - (IF ea.ip_rel THEN Here ELSE 0)

\* Output: a displacement relative to RIP counts from the end.
GeneralBytes(i) ==
    LET head == GeneralToBytes(i)
                \o If(i.ea.need_modrm, Item("modrm", 1, [mod |-> i.ea.mod, reg |-> i.spare,
                                                        rm |-> i.ea.rm]))
                \o If(i.ea.need_sib # 0, Item("sib", 1, [scale |-> i.ea.scale,
                                                        index |-> i.ea.index,
                                                        base |-> i.ea.base]))
        imm == IF ~i.imm.has THEN 0 ELSE IF i.postop = "SIGNEXT_IMM8" THEN 8 ELSE i.imm.size
        end == Size(head) + (i.ea.size + imm) \div 8
        disp == DispValue(i.ea) - (IF i.ea.ip_rel THEN end ELSE 0)
    IN  head
        \o If(i.ea.need_disp, Item("disp", i.ea.size \div 8, SignExtend(disp, i.ea.size)))
        \o If(i.imm.has, Item("imm", imm \div 8, SignExtend(Worth(i.imm.ts), imm)))

-----------------------------------------------------------------------------
(* Jumps.  The target is worth Here plus what the symbol "d" is worth.     *)

\* DoAppendJmp and AppendJmp: an opcode that does not exist decides.
BuildJmp ==
    LET g == FoldLeft(ApplyPrefix,
                 [ok |-> TRUE, rex |-> NoRex, common |-> [NoCommon EXCEPT !.opersize = src.opersize]],
                 src.prefixes)
    IN  [jmp |-> TRUE, common |-> Finish(g.common),
         ok |-> /\ g.ok
                /\ ~(src.sel = "SHORT" /\ src.shortlen = 0)
                /\ ~(src.sel = "NEAR" /\ src.nearlen = 0),
         sel |-> IF src.nearlen = 0 THEN "SHORT"
                 ELSE IF src.shortlen = 0 THEN "NEAR" ELSE src.sel]

NearSize(i) == IF i.common.opersize = 16 THEN 2 ELSE 4

\* A target that cannot be measured is near.
FinalizeJmp(i) == [i EXCEPT !.sel = IF src.external THEN "NEAR" ELSE "SHORT"]

CalcLenJmp(i) ==
    IF i.sel = "NEAR"
    THEN [ok |-> TRUE, insn |-> i, spans |-> {},
          len |-> getLen(i.common) + src.nearlen + NearSize(i)]
    ELSE [ok |-> TRUE, insn |-> i, spans |-> {1},
          len |-> getLen(i.common) + src.shortlen + 1]

\* The range of span 1, set when the length was computed.
JmpRange(i) ==
    LET ilen == getLen(i.common) + src.shortlen + 1 IN (ilen - 128)..(ilen + 127)

ExpandJmp(i, n) ==
    [insn |-> [i EXCEPT !.sel = "NEAR"],
     len |-> n - (src.shortlen + 1) + src.nearlen + NearSize(i)]

JmpBytes(i) ==
    LET short == i.sel = "SHORT"
        size == IF short THEN 1 ELSE NearSize(i)
        head == ToBytes(i.common, FALSE)
                \o [k \in 1..(IF short THEN src.shortlen ELSE src.nearlen) |-> Item("op", 1, 0)]
    IN  Append(head, Item("disp", size, SignExtend(env["d"] - Size(head) - size, size * 8)))

-----------------------------------------------------------------------------

Symbols == {"d", "i"}

Init ==
    /\ src = << >>
    /\ pc = "idle"
    /\ insn = << >>
    /\ len = 0
    /\ spans = {}
    /\ env = [s \in Symbols |-> 0]
    /\ moves = 0
    /\ out = << >>

\* A line of source with the row of the table that matches it.
ReadLine ==
    /\ pc = "idle"
    /\ src' \in Sources
    /\ pc' = "new"
    /\ UNCHANGED <<insn, len, spans, env, moves, out>>

\* X86Insn::DoAppend: bytes that need no bytecode contents are appended as they
\* are, with a value to fix up; an operand in error ends it.
AppendInsn ==
    /\ pc = "new"
    /\ \E i \in {IF src.jmp THEN BuildJmp ELSE BuildGeneral} :
         LET fixed == IF src.jmp THEN i.sel # "NONE"
                      ELSE i.postop = "NONE" /\ ~i.ea.has
         IN  /\ insn' = i
             /\ pc' = IF ~i.ok THEN "error" ELSE IF fixed THEN "laid" ELSE "appended"
             /\ len' = IF i.ok /\ fixed
                       THEN Size(IF src.jmp THEN JmpBytes(i) ELSE GeneralBytes(i)) ELSE 0
    /\ UNCHANGED <<src, spans, env, moves, out>>

FinalizeInsn ==
    /\ pc = "appended"
    /\ insn' = IF src.jmp THEN FinalizeJmp(insn) ELSE FinalizeGeneral(insn)
    /\ pc' = "final"
    /\ UNCHANGED <<src, len, spans, env, moves, out>>

CalcLen ==
    /\ pc = "final"
    /\ \E r \in {IF src.jmp THEN CalcLenJmp(insn) ELSE CalcLenGeneral(insn)} :
         IF r.ok
         THEN /\ pc' = "laid"
              /\ insn' = r.insn
              /\ len' = r.len
              /\ spans' = r.spans
         ELSE /\ pc' = "error"
              /\ UNCHANGED <<insn, len, spans>>
    /\ UNCHANGED <<src, env, moves, out>>

\* The optimizer: other bytecodes grow, so a distance changes.
Move(s) ==
    /\ pc = "laid"
    /\ moves < MaxMoves
    /\ s \in src.waits
    /\ \E v \in Moves : env' = [env EXCEPT ![s] = v]
    /\ moves' = moves + 1
    /\ UNCHANGED <<src, pc, insn, len, spans, out>>

\* A span whose value has left its range.
Due(span) ==
    /\ span \in spans
    /\ CASE src.jmp -> env["d"] \notin JmpRange(insn)
         [] ~src.jmp /\ span = 1 -> DispValue(insn.ea) \notin -128..127
         [] OTHER -> Worth(insn.imm.ts) \notin -128..127

\* No span is kept once it is expanded.
Expand(span) ==
    /\ pc = "laid"
    /\ Due(span)
    /\ \E r \in {IF src.jmp THEN ExpandJmp(insn, len) ELSE ExpandGeneral(insn, len, span)} :
         insn' = r.insn /\ len' = r.len
    /\ spans' = spans \ {span}
    /\ UNCHANGED <<src, pc, env, moves, out>>

Output ==
    /\ pc = "laid"
    /\ \A span \in spans : ~Due(span)
    /\ out' = IF src.jmp THEN JmpBytes(insn) ELSE GeneralBytes(insn)
    /\ pc' = "out"
    /\ UNCHANGED <<src, insn, len, spans, env, moves>>

Next ==
    \/ ReadLine
    \/ AppendInsn
    \/ FinalizeInsn
    \/ CalcLen
    \/ \E s \in Symbols : Move(s)
    \/ \E span \in {1, 2} : Expand(span)
    \/ Output

Spec == Init /\ [][Next]_vars

-----------------------------------------------------------------------------
(* What a processor reads: prefixes, ModRM, SIB and displacement.          *)

Has(k) == \E n \in DOMAIN out : out[n].k = k
The(k) == out[CHOOSE n \in DOMAIN out : out[n].k = k]

ReadBits == IF Has("rex") THEN The("rex").v.b ELSE IF Has("vex") THEN The("vex").v.b ELSE {}
Ext(bit) == IF bit \in ReadBits THEN 8 ELSE 0
ReadAddrSize == IF ~Has("67") THEN src.bits ELSE IF src.bits = 32 THEN 16 ELSE 32
ReadOperSize ==
    CASE "W" \in ReadBits -> 64
      [] "W" \notin ReadBits /\ Has("66") -> IF src.bits = 16 THEN 32 ELSE 16
      [] OTHER -> IF src.bits = 64 THEN (IF src.def64 = 64 THEN 64 ELSE 32) ELSE src.bits
ReadDisp == IF Has("disp") THEN The("disp") ELSE Item("disp", 0, 0)

\* Registers with their multipliers, the displacement's size, and whether the
\* address counts from the next instruction.  vector is the type of the index
\* registers the opcode takes, if any.
ReadAddress(vector) ==
    LET m == The("modrm").v
        s == The("sib").v
        type == CASE ReadAddrSize = 16 -> "r16" [] ReadAddrSize = 32 -> "r32" [] OTHER -> "r64"
        bysize == CASE m.mod = 0 -> 0 [] m.mod = 1 -> 1 [] OTHER -> IF type = "r16" THEN 2 ELSE 4
        nobase == m.mod = 0 /\ (IF m.rm = 4 THEN s.base ELSE m.rm) = 5
        base == IF nobase THEN {} ELSE {<<type, (IF m.rm = 4 THEN s.base ELSE m.rm) + Ext("B"), 1, "base">>}
        index == IF m.rm # 4 \/ (vector = "" /\ s.index + Ext("X") = 4) THEN {}
                 ELSE {<<IF vector = "" THEN type ELSE vector, s.index + Ext("X"), 2^s.scale, "index">>}
        none16 == m.mod = 0 /\ m.rm = 6
    IN  IF type = "r16"
        THEN [regs |-> IF none16 THEN {} ELSE {<<type, r, 1, "base">> : r \in Regs16[m.rm + 1]},
              size |-> IF none16 THEN 2 ELSE bysize, next |-> FALSE, sib |-> FALSE]
        ELSE [regs |-> base \cup index, size |-> IF nobase THEN 4 ELSE bysize,
              next |-> src.bits = 64 /\ nobase /\ m.rm = 5, sib |-> m.rm = 4]

-----------------------------------------------------------------------------
(* What the source line says                                               *)

\* The expression with one of register k (type and number) and none of others.
With(ts, k) ==
    Each(ts, LAMBDA p : IF ts[p].t # "reg" THEN ts[p]
                        ELSE IntTerm(Truth(<<ts[p].s, ts[p].i>> = k), ts[p].d))
Constant(ts) == Worth(With(ts, << >>))
Coefficient(ts, k) == Worth(With(ts, k)) - Constant(ts)

Registers(ts) == {<<ts[p].s, ts[p].i>> : p \in {q \in DOMAIN ts : ts[q].t = "reg"}}

Wanted(o) == Constant(o.ts) + (IF o.rel THEN Label ELSE 0)

ReadCoefficient(regs, k) ==
    FoldSet(LAMBDA r, n : n + r[3], 0, {r \in regs : <<r[1], r[2]>> = k})

\* The bytes address what the operand says: the same multiple of every
\* register and the same displacement, at the size of addresses.
AddressRead(o) ==
    LET vector == CASE o.type = "MemXMMIndex" -> "xmm" [] o.type = "MemYMMIndex" -> "ymm"
                    [] OTHER -> ""
        a == ReadAddress(vector)
        want == Wanted(o)
        rip == IF src.gas /\ Len(o.ts) > 1 THEN 0 ELSE Coefficient(o.ts, <<"rip", RIP>>)
        same(x, y) == SignExtend(x, ReadAddrSize) = SignExtend(y, ReadAddrSize)
    IN  IF ~Has("modrm")
        THEN ReadDisp.size = ReadAddrSize \div 8 /\ same(ReadDisp.v, want)
        ELSE /\ ReadDisp.size = a.size
             /\ Has("sib") = a.sib
             /\ \A k \in Registers(o.ts) \cup {<<r[1], r[2]>> : r \in a.regs} :
                   k[1] = "rip" \/ Coefficient(o.ts, k) = ReadCoefficient(a.regs, k)
             /\ IF a.next /\ rip = 0 THEN same(Here + Size(out) + ReadDisp.v, want)
                ELSE (a.next <=> rip = 1) /\ same(ReadDisp.v, want)

\* A register is read from every field it was put into; SPL to DIL need a REX
\* prefix, AH to BH must not have one.
RegisterRead(o, role) ==
    LET opcode == SelectSeq(out, LAMBDA item : item.k = "op")
        rm == The("modrm").v.rm + Ext("B")
    IN  /\ o.type = "r8x" => Has("rex")
        /\ o.type = "r8" /\ o.num \in 4..7 => ~Has("rex")
        /\ CASE role = "EA" -> The("modrm").v.mod = 3 /\ rm = o.num
             [] role = "Spare" -> The("modrm").v.reg + Ext("R") = o.num
             [] role = "VEX" -> The("vex").v.vvvv = o.num
             [] role = "Op0Add" -> IF Has("modrm") THEN The("modrm").v.mod = 3 /\ rm = o.num
                                   ELSE opcode[1].v.add + Ext("B") = o.num
             [] role = "Op1Add" -> opcode[2].v.add + Ext("B") = o.num

\* The opcode's form has an immediate of its own size, worth the operand.
ImmediateRead(o) ==
    LET form == The("op").v.o
        imm == The("imm")
        width == IF form = "ib" THEN ReadOperSize ELSE imm.size * 8
    IN  /\ imm.size = (CASE form = "ib" -> 1 [] form = "C7" -> 4 [] OTHER -> o.size \div 8)
        /\ SignExtend(imm.v, width) = SignExtend(Worth(o.ts), width)

\* A displacement the source makes too small is reported as an overflow.
Overflows(o) == o.size = 8 /\ Wanted(o) \notin -128..127

OperandRead(o) ==
    CASE o.t = "reg" -> \A n \in DOMAIN o.roles : RegisterRead(o, o.roles[n])
      [] o.t = "mem" -> Overflows(o) \/ AddressRead(o)
      [] o.t = "imm" -> ImmediateRead(o)
      [] o.t = "eaimm" -> ReadDisp.size = o.size \div 8 /\ ReadDisp.v = Worth(o.ts) /\ ~Has("67")
      [] o.t = "adsize" -> ReadAddrSize = o.size

TargetRead ==
    LET n == IF insn.common.opersize = 16 THEN 16 ELSE 32
    IN  \/ insn.sel = "SHORT" /\ spans = {} /\ env["d"] \notin JmpRange(insn)
        \/ SignExtend(Size(out) + ReadDisp.v, n) = SignExtend(env["d"], n)


\* The length CalcLen and Expand account for, from which every later offset is
\* computed, is the number of bytes Output writes: one that chose another
\* form would shift all that follows.
LengthKept == pc = "out" => Size(out) = len

=============================================================================
