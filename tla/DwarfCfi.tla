------------------------------ MODULE DwarfCfi ------------------------------
(***************************************************************************)
(* DWARF call frame information: the .cfi_ directives, which build a frame *)
(* description (FDE) for each procedure, and GenerateCfi, which writes     *)
(* them to .eh_frame and .debug_frame with shared headers (CIEs).          *)
(* The machine is amd64.  An address is a byte offset.  The source         *)
(* location of an instruction is the address its directive stands at.      *)
(***************************************************************************)
EXTENDS Integers, Sequences
LOCAL INSTANCE SequencesExt

CONSTANTS Insns,            \* instructions of directives that add just one
          Offsets,          \* operands of the directives with a relative offset
          Columns,          \* operands of .cfi_return_column
          Encodings,        \* encodings for .cfi_personality and .cfi_lsda, Omit among them
          Routines,         \* expressions for .cfi_personality and .cfi_lsda
          Gaps,             \* bytes of code between two directives
          MaxDirectives,    \* bound: directives
          MaxBytes,         \* bound: bytes of code
          Omit              \* DW_EH_PE_omit

VARIABLES
    phase,      \* "parse", "eh", "debug" or "done"
    count,      \* directives so far
    here,       \* bytes of code so far
    fdes,       \* m_fdes
    m_cur_fde,  \* index of the open FDE, 0 outside of a procedure
    last,       \* m_last_address
    stack,      \* m_cfa_stack
    m_cfa_cur_offset,
    frames,     \* sections asked for: a subset of {"eh", "debug"}
    cies,       \* CIEs of the section being written
    out,        \* what was written, by section: CIEs, and FDEs with their CIE
    diags       \* diagnostics

vars == <<phase, count, here, fdes, m_cur_fde, last, stack, m_cfa_cur_offset, frames, cies,
          out, diags>>

-----------------------------------------------------------------------------
(* Instructions.  An op with its operands, and where its directive stands. *)

Insn(op, args) == [op |-> op, args |-> args, at |-> here]

NewFde == [start |-> here, end |-> here, insns |-> << >>, personality |-> Omit,
           personality_encoding |-> Omit, lsda |-> Omit, lsda_encoding |-> Omit,
           return_column |-> 16, signal_frame |-> FALSE]

\* x86_amd64_frame_initial_insns
InitialInsns == <<Insn("def_cfa", <<7, 8>>), Insn("offset", <<16, -8>>)>>

Report(kind) ==
    /\ diags' = diags \cup {kind}
    /\ UNCHANGED <<fdes, m_cur_fde, last, stack, m_cfa_cur_offset, frames>>

Directive ==
    /\ phase = "parse" /\ count < MaxDirectives
    /\ count' = count + 1
    /\ UNCHANGED <<phase, here, cies, out>>

\* AdvanceCfiAddress, then the instruction.
\* Mutant: the address is not remembered.
MutPush(insn) ==
    /\ fdes' = [fdes EXCEPT ![m_cur_fde].insns = @ \o
                 (IF here = last THEN << >> ELSE <<Insn("advance_loc", <<here - last>>)>>)
                 \o <<insn>>]
    /\ UNCHANGED last
Push(insn) ==
    /\ fdes' = [fdes EXCEPT ![m_cur_fde].insns = @ \o
                 (IF here = last THEN << >> ELSE <<Insn("advance_loc", <<here - last>>)>>)
                 \o <<insn>>]
    /\ last' = here

-----------------------------------------------------------------------------
(* Directives *)

Emit(n) ==
    /\ phase = "parse" /\ here + n <= MaxBytes
    /\ here' = here + n
    /\ UNCHANGED <<phase, count, fdes, m_cur_fde, last, stack, m_cfa_cur_offset, frames, cies,
                   out, diags>>

DirCfiStartproc(simple) ==
    /\ Directive
    /\ \/ m_cur_fde # 0 /\ Report("err_nested_cfi")
       \/ /\ m_cur_fde = 0
          /\ fdes' = Append(fdes, [NewFde EXCEPT !.insns = IF simple THEN << >> ELSE InitialInsns])
          /\ m_cur_fde' = Len(fdes')
          /\ last' = here
          /\ UNCHANGED <<stack, m_cfa_cur_offset, frames, diags>>

DirCfiEndproc ==
    /\ Directive
    /\ \/ m_cur_fde = 0 /\ Report("warn_cfi_endproc_before_startproc")
       \/ /\ m_cur_fde # 0
          /\ fdes' = [fdes EXCEPT ![m_cur_fde].end = here]
          /\ m_cur_fde' = 0 /\ last' = 0
          /\ UNCHANGED <<stack, m_cfa_cur_offset, frames, diags>>

DirCfiSections(set) ==
    /\ Directive
    /\ frames' = set
    /\ UNCHANGED <<fdes, m_cur_fde, last, stack, m_cfa_cur_offset, diags>>

\* A directive that does nothing but add an instruction.
AddInsn(op, args) ==
    /\ Directive
    /\ \/ m_cur_fde = 0 /\ Report("warn_outside_cfiproc")
       \/ /\ m_cur_fde # 0
          /\ Push(Insn(op, args))
          /\ UNCHANGED <<m_cur_fde, stack, m_cfa_cur_offset, frames, diags>>

DirCfiDefCfa(i) ==
    i.op \in {"def_cfa", "def_cfa_register", "def_cfa_offset"} /\ AddInsn(i.op, i.args)
DirCfiAdjustCfaOffset(off) == AddInsn("def_cfa_offset", <<m_cfa_cur_offset + off>>)
DirCfiOffset(i) == i.op = "offset" /\ AddInsn(i.op, i.args)
DirCfiRelOffset(off) == AddInsn("offset", <<3, off - m_cfa_cur_offset>>)
DirCfiRegister(i) ==
    i.op \in {"register", "restore", "undefined", "same_value"} /\ AddInsn(i.op, i.args)
DirCfiEscape(i) ==
    i.op \in {"window_save", "escape", "val_encoded_addr"} /\ AddInsn(i.op, i.args)

DirCfiRememberState ==
    /\ Directive
    /\ \/ m_cur_fde = 0 /\ Report("warn_outside_cfiproc")
       \/ /\ m_cur_fde # 0
          /\ stack' = Append(stack, m_cfa_cur_offset)
          /\ Push(Insn("remember_state", << >>))
          /\ UNCHANGED <<m_cur_fde, m_cfa_cur_offset, frames, diags>>

\* The instruction is made by MakeRememberState.
DirCfiRestoreState ==
    /\ Directive
    /\ \/ m_cur_fde = 0 /\ Report("warn_outside_cfiproc")
       \/ m_cur_fde # 0 /\ stack = << >> /\ Report("err_cfi_state_stack_empty")
       \/ /\ m_cur_fde # 0 /\ stack # << >>
          /\ m_cfa_cur_offset' = Last(stack)
          /\ stack' = Front(stack)
          /\ Push(Insn("remember_state", << >>))
          /\ UNCHANGED <<m_cur_fde, frames, diags>>

\* .cfi_personality and .cfi_lsda; DirCfiEncLabel stores the encoding Omit alone.
SetLabel(f, which, enc, routine) ==
    IF enc = Omit
    THEN IF which = "personality" THEN [f EXCEPT !.personality_encoding = Omit]
         ELSE [f EXCEPT !.lsda_encoding = Omit]
    ELSE IF which = "personality"
         THEN [f EXCEPT !.personality_encoding = enc, !.personality = routine]
         ELSE [f EXCEPT !.lsda_encoding = enc, !.lsda = routine]

Change(f) ==
    /\ fdes' = [fdes EXCEPT ![m_cur_fde] = f]
    /\ UNCHANGED <<m_cur_fde, last, stack, m_cfa_cur_offset, frames, diags>>

DirCfiLabel(which, enc, routine) ==
    /\ Directive
    /\ \/ m_cur_fde = 0 /\ Report("warn_outside_cfiproc")
       \/ m_cur_fde # 0 /\ Change(SetLabel(fdes[m_cur_fde], which, enc, routine))

DirCfiReturnColumn(reg) ==
    /\ Directive
    /\ \/ m_cur_fde = 0 /\ Report("warn_outside_cfiproc")
       \/ m_cur_fde # 0 /\ Change([fdes[m_cur_fde] EXCEPT !.return_column = reg])

\* A directive that needs operands has too few of them, or one of the wrong kind.
DirCfiBadArgs ==
    /\ Directive
    /\ m_cur_fde # 0 /\ Report("err_arguments")

DirCfiSignalFrame ==
    /\ Directive
    /\ \/ m_cur_fde = 0 /\ Report("warn_outside_cfiproc")
       \/ m_cur_fde # 0 /\ Change([fdes[m_cur_fde] EXCEPT !.signal_frame = TRUE])

-----------------------------------------------------------------------------
(* DwarfCfiInsn::Output.  An encoded instruction is its opcode and operands;  *)
(* an opcode that holds an operand in its low bits is a byte with its value.  *)

DataAlignment == -8
Scale(off) == IF off >= 0 THEN -(off \div 8) ELSE (-off) \div 8     \* off / DataAlignment

Advance(n) ==
    CASE n <= 63 -> <<"byte", 64 + n>>                             \* 0x40 | n
      [] n > 63 /\ n <= 255 -> <<"advance_loc1", n>>
      [] n > 255 /\ n <= 65535 -> <<"advance_loc2", n>>
      [] OTHER -> <<"advance_loc4", n>>

Offset(reg, off) ==
    CASE off < 0 -> <<"offset_extended_sf", reg, off>>
      [] off >= 0 /\ reg <= 63 -> <<"byte", 128 + reg, off>>       \* 0x80 | reg
      [] OTHER -> <<"offset_extended", reg, off>>

Restore(reg) ==
    IF reg <= 63 THEN <<"byte", 112 + (reg % 16)>>                 \* 0x70 | reg
    ELSE <<"restore_extended", reg>>

Encode(i) ==
    CASE i.op = "advance_loc" -> Advance(i.args[1])
      [] i.op = "offset" -> Offset(i.args[1], Scale(i.args[2]))
      [] i.op = "restore" -> Restore(i.args[1])
      [] i.op = "def_cfa" /\ i.args[2] < 0 -> <<"def_cfa_sf", i.args[1], Scale(i.args[2])>>
      [] i.op = "def_cfa_offset" /\ i.args[1] < 0 -> <<"def_cfa_offset_sf", Scale(i.args[1])>>
      [] OTHER -> <<i.op>> \o i.args

EncodeAll(insns) == [k \in DOMAIN insns |-> Encode(insns[k])]

-----------------------------------------------------------------------------
(* GenerateCfi *)

EndsCie(insn) == insn.op \in {"advance_loc", "remember_state", "escape", "val_encoded_addr"}

\* DwarfCfiCie: how many instructions of the FDE go into its CIE.
NumInsns(f) ==
    LET stop == SelectInSeq(f.insns, EndsCie)
    IN  IF stop = 0 THEN Len(f.insns) ELSE stop - 1

\* DwarfCfiInsn::operator==
SameInsn(a, b) ==
    a.op = b.op /\ a.op \notin {"escape", "val_encoded_addr"} /\ a.args = b.args

IsFdeMatch(cie, f) ==
    LET g == cie.fde
        n == cie.num
    IN  /\ g.personality_encoding = f.personality_encoding
        /\ g.lsda_encoding = f.lsda_encoding
        /\ g.return_column = f.return_column
        /\ g.signal_frame = f.signal_frame
        /\ n <= Len(f.insns)
        /\ \A k \in 1..n : SameInsn(g.insns[k], f.insns[k])
        /\ n = Len(f.insns) \/ EndsCie(f.insns[n + 1])

\* The CIE of an FDE: the first of the section that matches, else a new one.
CieFor(f) ==
    LET k == SelectInSeq(cies, LAMBDA c : IsFdeMatch(c, f))
    IN  IF k # 0 THEN cies[k] ELSE [fde |-> f, num |-> NumInsns(f)]

\* Output of a CIE and of an FDE.
CieOutput(c) ==
    [personality_encoding |-> c.fde.personality_encoding,
     personality |-> IF c.fde.personality_encoding = Omit THEN Omit ELSE c.fde.personality,
     lsda_encoding |-> c.fde.lsda_encoding, return_column |-> c.fde.return_column,
     signal_frame |-> c.fde.signal_frame, code |-> EncodeAll(SubSeq(c.fde.insns, 1, c.num))]
FdeOutput(f, c) ==
    [start |-> f.start, length |-> f.end - f.start,
     lsda |-> IF f.lsda_encoding = Omit THEN Omit ELSE f.lsda,
     code |-> EncodeAll(SubSeq(f.insns, c.num + 1, Len(f.insns))), cie |-> CieOutput(c)]

Errors == diags \cap {"err_nested_cfi", "err_cfi_state_stack_empty", "err_arguments"}

\* The sections in the order GenerateCfi writes them.
\* Mutant: .debug_frame comes first.
MutOrder == SelectSeq(<<"debug", "eh">>, LAMBDA x : x \in frames)
Order == SelectSeq(<<"eh", "debug">>, LAMBDA x : x \in frames)

NextSection(done) ==
    IF done >= Len(Order) THEN "done" ELSE Order[done + 1]

GenerateCfi ==
    /\ phase = "parse" /\ Errors = {}
    /\ \/ m_cur_fde # 0 /\ phase' = "done" /\ diags' = diags \cup {"err_eof_inside_cfiproc"}
       \/ m_cur_fde = 0 /\ phase' = (IF fdes = << >> THEN "done" ELSE NextSection(0))
          /\ UNCHANGED diags
    /\ UNCHANGED <<count, here, fdes, m_cur_fde, last, stack, m_cfa_cur_offset, frames, cies, out>>

\* One FDE of the loop in GenerateCfiSection.
GenerateFde ==
    /\ phase \in {"eh", "debug"} /\ Len(out[phase]) < Len(fdes)
    /\ LET i == Len(out[phase]) + 1
           f == IF phase = "eh" THEN fdes[i]
                ELSE [fdes[i] EXCEPT !.personality_encoding = Omit, !.lsda_encoding = Omit]
           c == CieFor(f)
       IN  /\ fdes' = [fdes EXCEPT ![i] = f]
           /\ cies' = IF c \in ToSet(cies) THEN cies ELSE Append(cies, c)
           /\ out' = [out EXCEPT ![phase] = Append(@, FdeOutput(f, c))]
    /\ UNCHANGED <<phase, count, here, m_cur_fde, last, stack, m_cfa_cur_offset, frames, diags>>

SectionDone ==
    /\ phase \in {"eh", "debug"} /\ Len(out[phase]) = Len(fdes)
    /\ phase' = NextSection(IndexFirstSubSeq(<<phase>>, Order))
    /\ cies' = << >>
    /\ UNCHANGED <<count, here, fdes, m_cur_fde, last, stack, m_cfa_cur_offset, frames, out, diags>>

-----------------------------------------------------------------------------
Init ==
    /\ phase = "parse" /\ count = 0 /\ here = 0
    /\ fdes = << >> /\ m_cur_fde = 0 /\ last = 0
    /\ stack = << >> /\ m_cfa_cur_offset = 0
    /\ frames = {"eh"} /\ cies = << >>
    /\ out = [eh |-> << >>, debug |-> << >>]
    /\ diags = {}

Next ==
    \/ \E n \in Gaps : Emit(n)
    \/ \E simple \in BOOLEAN : DirCfiStartproc(simple)
    \/ DirCfiEndproc
    \/ \E set \in SUBSET {"eh", "debug"} : DirCfiSections(set)
    \/ \E i \in Insns :
         DirCfiDefCfa(i) \/ DirCfiOffset(i) \/ DirCfiRegister(i) \/ DirCfiEscape(i)
    \/ \E off \in Offsets : DirCfiAdjustCfaOffset(off) \/ DirCfiRelOffset(off)
    \/ DirCfiRememberState \/ DirCfiRestoreState
    \/ \E which \in {"personality", "lsda"}, enc \in Encodings, r \in Routines :
         DirCfiLabel(which, enc, r)
    \/ \E reg \in Columns : DirCfiReturnColumn(reg)
    \/ DirCfiSignalFrame \/ DirCfiBadArgs
    \/ GenerateCfi \/ GenerateFde \/ SectionDone

Spec == Init /\ [][Next]_vars

-----------------------------------------------------------------------------
(* The reader of call frame instructions, from the DWARF standard *)

Decode(e) ==
    CASE e[1] = "byte" /\ e[2] \in 64..127 -> <<"advance_loc", e[2] - 64>>
      [] e[1] = "byte" /\ e[2] \in 128..191 -> <<"offset", e[2] - 128, e[3] * DataAlignment>>
      [] e[1] = "byte" /\ e[2] \in 192..255 -> <<"restore", e[2] - 192>>
      [] e[1] \in {"advance_loc1", "advance_loc2", "advance_loc4"} -> <<"advance_loc", e[2]>>
      [] e[1] \in {"offset_extended", "offset_extended_sf"} ->
           <<"offset", e[2], e[3] * DataAlignment>>
      [] e[1] = "restore_extended" -> <<"restore", e[2]>>
      [] e[1] = "def_cfa_sf" -> <<"def_cfa", e[2], e[3] * DataAlignment>>
      [] e[1] = "def_cfa_offset_sf" -> <<"def_cfa_offset", e[2] * DataAlignment>>
      [] OTHER -> e

-----------------------------------------------------------------------------
(* Properties *)


\* Every instruction takes effect at the address where its directive stands:
\* the advances before it add up to its distance from the start of the procedure.
AppliedWhereWritten ==
    \A k \in DOMAIN fdes :
        LET f == fdes[k]
            Delta(i) == IF f.insns[i].op = "advance_loc" THEN f.insns[i].args[1] ELSE 0
        IN  \A i \in DOMAIN f.insns :
              f.insns[i].at = f.start + FoldLeft(LAMBDA sum, j : sum + Delta(j), 0,
                                                 [j \in 1..i |-> j])

\* "note this means eh_frame version must be called first if generating both!"
\* (GenerateCfiSection): the encodings a directive gave are dropped for
\* .debug_frame only once .eh_frame, if asked for, has been written with them.
HandlersKept ==
    [][phase # "parse" /\ "eh" \in frames =>
         \A k \in DOMAIN fdes : fdes'[k] # fdes[k] =>
             /\ k \in DOMAIN out["eh"]
             /\ out["eh"][k].cie.personality_encoding = fdes[k].personality_encoding
             /\ out["eh"][k].cie.lsda_encoding = fdes[k].lsda_encoding]_vars

\* "check for equal personality" (IsFdeMatch): the CIE of an FDE names its routine.
SamePersonality ==
    phase = "eh" => \A k \in DOMAIN out["eh"] :
        fdes[k].personality_encoding # Omit => out["eh"][k].cie.personality = fdes[k].personality

=============================================================================
