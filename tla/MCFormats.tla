----------------------------- MODULE MCFormats ------------------------------
(* What is written in formats with a reader of their own: line number         *)
(* programs, call frame information, Win64 unwind information and the         *)
(* encodings of x86 instructions.  A behaviour exercises one of them, its     *)
(* part, and leaves the others in their initial states.                       *)
EXTENDS DwarfLine, TLC

CONSTANTS Parts,                         \* the components to check
          Omit, CfiInsns, CfiDirectives, \* of DwarfCfi
          UnwindDirectives, UnwindSizes, UnwindOffsets, UnwindXmm, UnwindFrames  \* of Unwind

VARIABLES part,
          c_phase, c_count, c_here, fdes, m_cur_fde, last, stack, m_cfa_cur_offset,
          frames, cies, c_out, c_diags,                                 \* DwarfCfi
          u_phase, u_count, u_here, m_unwind, m_done_prolog, infos, u_out, u_errs, \* Unwind
          x_src, x_pc, x_insn, x_len, x_spans, x_env, x_moves, x_out    \* X86General

cfiVars == <<c_phase, c_count, c_here, fdes, m_cur_fde, last, stack, m_cfa_cur_offset,
             frames, cies, c_out, c_diags>>
unwindVars == <<u_phase, u_count, u_here, m_unwind, m_done_prolog, infos, u_out, u_errs>>
x86Vars == <<x_src, x_pc, x_insn, x_len, x_spans, x_env, x_moves, x_out>>

-----------------------------------------------------------------------------
(* DwarfLine: operands in both forms, two directories, and a source file that *)
(* the source manager lists twice.                                            *)

Opts == { << >>, <<Num(2), Id("is_stmt"), Num(1)>>, <<Id("prologue_end")>>,
          <<Num(0), Named("isa", 1), Id("basic_block"), Id("discriminator"), Num(3)>> }
Pths == { [dir |-> ".", file |-> "a"], [dir |-> "d", file |-> "a"] }
Srcs == << [dir |-> ".", file |-> "a"], [dir |-> "d", file |-> "a"], [dir |-> ".", file |-> "a"] >>

-----------------------------------------------------------------------------
(* DwarfCfi: an instruction that ends the shared prefix of two procedures, one *)
(* that does not, and the first register that does not fit into an opcode.     *)

SomeInsns == { [op |-> "def_cfa", args |-> <<7, 8>>], [op |-> "offset", args |-> <<64, -16>>],
               [op |-> "restore", args |-> <<3>>], [op |-> "escape", args |-> <<1>>] }

Cfi == INSTANCE DwarfCfi WITH
           Insns <- CfiInsns, Offsets <- {16}, Columns <- {3}, Encodings <- {Omit, "pcrel"},
           Routines <- {"f", "g"}, Gaps <- {64}, MaxDirectives <- CfiDirectives, MaxBytes <- 64,
           phase <- c_phase, count <- c_count, here <- c_here, out <- c_out, diags <- c_diags

-----------------------------------------------------------------------------
(* Unwind: sizes and offsets at the limits of every form, constants and      *)
(* distances that grow, and a procedure that may have five slots.             *)

Max8  == 8 * 64 * 1024 - 8
Max16 == 16 * 64 * 1024 - 16

SomeSizes   == {<<0>>, <<128>>, <<132>>, <<136>>, <<Max8>>, <<Max8 + 8>>, <<8, 136, Max8 + 8>>}
SomeOffsets == {<<Max8>>, <<0, Max8 + 8>>, <<4>>}
SomeXmm     == {<<Max16>>, <<Max16 + 16>>, <<8>>}
SomeFrames  == {<<240>>, <<256>>}

Unw == INSTANCE Unwind WITH
           Sizes <- UnwindSizes, Offsets <- UnwindOffsets, XmmOffsets <- UnwindXmm,
           FrameOffsets <- UnwindFrames, Gaps <- {1, 3}, ByteMax <- 5,
           MaxDirectives <- UnwindDirectives, MaxCodes <- 2, MaxErrors <- 1,
           phase <- u_phase, count <- u_count, here <- u_here, out <- u_out, errs <- u_errs

-----------------------------------------------------------------------------
(* X86General: distances on both sides of the limits of a signed byte, after  *)
(* two and after three more bytes of a jump, and beyond them.                 *)

X86Source == INSTANCE X86Lines

X86 == INSTANCE X86General WITH
           Sources <- X86Source!AllLines, Moves <- {0, 3, 127, 128, 130, 131, 300}, MaxMoves <- 2,
           src <- x_src, pc <- x_pc, insn <- x_insn, len <- x_len, spans <- x_spans,
           env <- x_env, moves <- x_moves, out <- x_out

-----------------------------------------------------------------------------
PartsInit == part \in Parts /\ Init /\ Cfi!Init /\ Unw!Init /\ X86!Init

PartsNext ==
    /\ UNCHANGED part
    /\ \/ part = "line"   /\ Next     /\ UNCHANGED <<cfiVars, unwindVars, x86Vars>>
       \/ part = "cfi"    /\ Cfi!Next /\ UNCHANGED <<vars, unwindVars, x86Vars>>
       \/ part = "unwind" /\ Unw!Next /\ UNCHANGED <<vars, cfiVars, x86Vars>>
       \/ part = "x86"    /\ X86!Next /\ UNCHANGED <<vars, cfiVars, unwindVars>>

PartsSpec == PartsInit /\ [][PartsNext]_<<part, vars, cfiVars, unwindVars, x86Vars>>

-----------------------------------------------------------------------------

\* Every call frame instruction takes effect where its directive stands.
AppliedWhereWritten == Cfi!AppliedWhereWritten

\* Encodings are dropped for .debug_frame only once .eh_frame has been written.
HandlersKept == Cfi!HandlersKept

\* "check for equal personality" (IsFdeMatch): the CIE of an FDE names its routine.
SamePersonality == Cfi!SamePersonality

\* An unwinder finds the operations of the directives, last one first.
UnwindReadsBack == Unw!UnwindReadsBack


\* "Get current position in .xdata section": a .pdata entry refers to its unwind info.
EntryRefersToInfo == Unw!EntryRefersToInfo


\* Output writes as many bytes as CalcLen and Expand have counted.
LengthKept == X86!LengthKept

=============================================================================
