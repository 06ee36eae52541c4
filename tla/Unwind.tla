------------------------------- MODULE Unwind -------------------------------
(* Unwind information of Win64 objects: the directives that describe a        *)
(* prologue (Win64Object.cpp), the codes that they generate in .xdata and how *)
(* these grow (UnwindCode.cpp, UnwindInfo.cpp), and the entries of .pdata.    *)
(*                                                                            *)
(* An operand that is an offset is the sequence of the values that it has     *)
(* while the optimizer runs: one value if it is a constant, more if it is a   *)
(* distance between labels.                                                   *)
EXTENDS Integers, Sequences, SequencesExt

CONSTANTS None,
          Sizes, Offsets, XmmOffsets,   \* operands of allocstack, savereg, savexmm128
          FrameOffsets,                 \* operands of setframe
          Gaps,                         \* bytes of code before a directive
          ByteMax,                      \* 255: prologue bytes and slots of a procedure
          MaxDirectives, MaxCodes, MaxErrors    \* bounds

VARIABLES phase,        \* "parse", "layout", "optimized", "done" or "failed"
          count, here,  \* number of directives; position in the code section
          m_unwind,     \* the open procedure: m_proc_frame and m_unwind
          m_done_prolog,
          infos,        \* what Generate has appended to .xdata
          out,          \* the bytes of every info
          errs

vars == <<phase, count, here, m_unwind, m_done_prolog, infos, out, errs>>

-----------------------------------------------------------------------------
(* Directives.                                                                *)

Directive == /\ phase = "parse" /\ count < MaxDirectives
             /\ count' = count + 1
             /\ \E g \in Gaps : here' = here + g

Rejected == /\ errs < MaxErrors
            /\ errs' = errs + 1
            /\ UNCHANGED <<phase, m_unwind, m_done_prolog, infos, out>>

CheckProcFrameState == m_unwind # None /\ ~m_done_prolog

NewInfo(handler) == [proc |-> here', prolog |-> here', handler |-> handler,
                     framereg |-> 0, frameoff |-> <<0>>, codes |-> << >>]

DirProcFrame(handler) ==
    /\ Directive
    /\ IF m_unwind # None THEN Rejected
       ELSE /\ m_unwind' = NewInfo(handler) /\ m_done_prolog' = FALSE
            /\ UNCHANGED <<phase, infos, out, errs>>

\* The handler is not a name: the procedure is open all the same.
DirProcFrameBadHandler ==
    /\ Directive /\ errs < MaxErrors
    /\ IF m_unwind # None THEN UNCHANGED <<m_unwind, m_done_prolog>>
       ELSE m_unwind' = NewInfo(FALSE) /\ m_done_prolog' = FALSE
    /\ errs' = errs + 1
    /\ UNCHANGED <<phase, infos, out>>

\* A directive of the prologue; AddCode appends to m_codes.
Prolog(op, info, off, Set(_)) ==
    /\ Directive
    /\ IF ~CheckProcFrameState THEN Rejected
       ELSE /\ Len(m_unwind.codes) < MaxCodes
            /\ m_unwind' = [Set(m_unwind) EXCEPT
                               !.codes = Append(@, [loc |-> here', op |-> op, info |-> info,
                                                    off |-> off])]
            /\ UNCHANGED <<phase, m_done_prolog, infos, out, errs>>

Keep(u) == u

DirPushReg(reg) == Prolog("PUSH_NONVOL", reg % 16, <<0>>, Keep)

DirSetFrame(reg, off) ==
    Prolog("SET_FPREG", reg % 16, off,
           LAMBDA u : [u EXCEPT !.framereg = reg, !.frameoff = off])

DirAllocStack(size) == Prolog("ALLOC_SMALL", 0, size, Keep)

DirSaveReg(reg, off)    == Prolog("SAVE_NONVOL", reg % 16, off, Keep)
DirSaveXMM128(reg, off) == Prolog("SAVE_XMM128", reg % 16, off, Keep)

DirPushFrame(code) == Prolog("PUSH_MACHFRAME", code, <<0>>, Keep)

\* No register, no offset or no expression where one is needed.
DirBadOperand == Directive /\ Rejected

DirEndProlog ==
    /\ Directive
    /\ IF ~CheckProcFrameState THEN Rejected
       ELSE /\ m_unwind' = [m_unwind EXCEPT !.prolog = here']
            /\ m_done_prolog' = TRUE
            /\ UNCHANGED <<phase, infos, out, errs>>

\* Generate appends the info and, in reverse order, its codes.
DirEndProcFrame ==
    /\ Directive
    /\ CASE m_unwind = None -> Rejected
         [] m_unwind # None /\ ~m_done_prolog ->
                /\ errs < MaxErrors /\ errs' = errs + 1
                /\ m_unwind' = None
                /\ UNCHANGED <<phase, m_done_prolog, infos, out>>
         [] OTHER ->
                /\ infos' = Append(infos, [m_unwind EXCEPT !.codes = Reverse(@)])
                /\ m_unwind' = None /\ m_done_prolog' = FALSE
                /\ UNCHANGED <<phase, out, errs>>

\* The end of the source: an open procedure is an error of Output.
EndOfSource ==
    /\ phase = "parse"
    /\ phase' = IF errs = 0 /\ m_unwind = None THEN "layout" ELSE "failed"
    /\ UNCHANGED <<count, here, m_unwind, m_done_prolog, infos, out, errs>>

-----------------------------------------------------------------------------
(* UnwindCode: the size of a code.  A code in layout has the number of its    *)
(* bytes behind the offset in the prologue, len, the thresholds low and high  *)
(* of its span, whether it still has a span, and whether it failed.           *)

Short == {"PUSH_NONVOL", "SET_FPREG", "PUSH_MACHFRAME"}

\* The 16-bit fields, scaled by 8 and by 16.
Max8  == 8 * 64 * 1024 - 8
Max16 == 16 * 64 * 1024 - 16

First(c) == c.off[1]
Final(c) == Last(c.off)
Unit(c)  == IF c.op \in {"SAVE_XMM128", "SAVE_XMM128_FAR"} THEN 16 ELSE 8

Expand(c, new_val) ==
    LET grown == IF c.op = "ALLOC_SMALL" /\ new_val > 128
                 THEN [c EXCEPT !.op = "ALLOC_LARGE", !.len = @ + 2] ELSE c
    IN  CASE new_val < 0 -> [c EXCEPT !.failed = TRUE]
          [] new_val \in 0..Max8 /\ c.op \in {"ALLOC_SMALL", "ALLOC_LARGE"} ->
                 [grown EXCEPT !.high = Max8, !.span = TRUE]
          [] new_val > Max8 /\ c.op \in {"ALLOC_SMALL", "ALLOC_LARGE"} ->
                 [grown EXCEPT !.info = 1, !.len = @ + 2, !.span = FALSE]
          [] new_val >= 0 /\ c.op = "SAVE_NONVOL" ->
                 [c EXCEPT !.op = "SAVE_NONVOL_FAR", !.len = @ + 2, !.span = FALSE]
          [] new_val >= 0 /\ c.op = "SAVE_XMM128" ->
                 [c EXCEPT !.op = "SAVE_XMM128_FAR", !.len = @ + 2, !.span = FALSE]
          [] OTHER -> [c EXCEPT !.span = FALSE]

Start(c) ==
    [loc |-> c.loc, op |-> c.op, off |-> c.off, failed |-> FALSE, span |-> FALSE,
     info |-> IF c.op = "ALLOC_SMALL" THEN 0 ELSE c.info,
     len  |-> IF c.op \in {"SAVE_NONVOL", "SAVE_XMM128"} THEN 3 ELSE 1,
     low  |-> IF c.op = "ALLOC_SMALL" THEN 8 ELSE 0,
     high |-> CASE c.op = "ALLOC_SMALL" -> 128 [] c.op = "SAVE_XMM128" -> Max16 [] OTHER -> Max8]

CalcLen(c) ==
    LET s == Start(c)
        v == First(c)
        e == IF v > s.high THEN Expand(s, v) ELSE s
    IN  CASE c.op \in Short -> s
          [] c.op \notin Short /\ Len(c.off) > 1 -> [s EXCEPT !.span = TRUE]
          [] OTHER -> [e EXCEPT !.failed = @ \/ v < e.low \/ v % Unit(c) # 0]

\* The optimizer expands a code whose value has left the thresholds of its span.
Reach(c, v) == IF c.span /\ ~(c.low <= v /\ v <= c.high) THEN Expand(c, v) ELSE c
Optimized(c) == IF Len(c.off) = 1 THEN c ELSE FoldLeft(Reach, c, c.off)

-----------------------------------------------------------------------------
(* UnwindInfo: limits of a procedure.                                         *)

Slots(i) == LET bytes == FoldLeft(LAMBDA n, c : n + 1 + c.len, 0, i.codes) IN bytes \div 2

\* CalcLen and Expand of UnwindInfo, once the sizes of the codes are final.
InfoFails(i) ==
    \/ i.prolog - i.proc > ByteMax
    \/ Slots(i) > ByteMax
    \/ Last(i.frameoff) \notin 0..240
    \/ Last(i.frameoff) % 16 # 0

Layout ==
    /\ phase = "layout"
    /\ infos' = [k \in DOMAIN infos |-> [infos[k] EXCEPT !.codes =
                    [j \in DOMAIN @ |-> Optimized(CalcLen(@[j]))]]]
    /\ phase' = IF \E k \in DOMAIN infos' :
                       \/ InfoFails(infos'[k])
                       \/ \E j \in DOMAIN infos'[k].codes : infos'[k].codes[j].failed
                THEN "failed" ELSE "optimized"
    /\ UNCHANGED <<count, here, m_unwind, m_done_prolog, out, errs>>

-----------------------------------------------------------------------------
(* Output.                                                                    *)


\* Bytes of the offset field, the range of the offset and the bits it is shifted by.
Field(c) ==
    CASE c.op = "ALLOC_SMALL" -> [size |-> 0, low |-> 8, high |-> 128, scale |-> 8]
      [] c.op = "ALLOC_LARGE" /\ c.info = 0 -> [size |-> 2, low |-> 136, high |-> Max8, scale |-> 8]
      [] c.op = "SAVE_NONVOL" -> [size |-> 2, low |-> 0, high |-> Max8, scale |-> 8]
      [] c.op = "SAVE_XMM128" -> [size |-> 2, low |-> 0, high |-> Max16, scale |-> 16]
      [] OTHER -> [size |-> 4, low |-> 0, high |-> 0, scale |-> 1]

CodeFails(c) ==
    /\ c.op \notin Short
    /\ \/ Field(c).size # 4 /\ Final(c) \notin Field(c).low..Field(c).high
       \/ Final(c) % Unit(c) # 0

\* As if the large form were scaled as well.
ScaledAlways(c) ==
    LET v == Final(c) \div Unit(c) IN
    IF c.op \in Short THEN [op |-> c.op, info |-> c.info, size |-> 0, value |-> 0]
    ELSE [op |-> c.op, size |-> Field(c).size, value |-> v,
          info |-> IF Field(c).size = 0 THEN v - 1 ELSE c.info]

\* AppendUnwindCode, UnwindCode::Output
WriteCode(c) ==
    LET v == Final(c) \div Field(c).scale IN
    IF c.op \in Short THEN [op |-> c.op, info |-> c.info, size |-> 0, value |-> 0]
    ELSE [op |-> c.op, size |-> Field(c).size, value |-> v,
          info |-> IF Field(c).size = 0 THEN v - 1 ELSE c.info]

\* UnwindInfo::Output and the codes behind it.
WriteInfo(i) ==
    [handler |-> i.handler, prolog |-> i.prolog - i.proc, slots |-> Slots(i),
     framereg |-> i.framereg % 16, frameoff |-> Last(i.frameoff),
     codes |-> [j \in DOMAIN i.codes |->
                   WriteCode(i.codes[j]) @@ [at |-> i.codes[j].loc - i.proc]]]

Output ==
    /\ phase = "optimized"
    /\ IF \E k \in DOMAIN infos : \E j \in DOMAIN infos[k].codes : CodeFails(infos[k].codes[j])
       THEN phase' = "failed" /\ UNCHANGED out
       ELSE phase' = "done" /\ out' = [k \in DOMAIN infos |-> WriteInfo(infos[k])]
    /\ UNCHANGED <<count, here, m_unwind, m_done_prolog, infos, errs>>

-----------------------------------------------------------------------------
Init ==
    /\ phase = "parse" /\ count = 0 /\ here = 0
    /\ m_unwind = None /\ m_done_prolog = FALSE
    /\ infos = << >> /\ out = << >> /\ errs = 0

Next ==
    \/ DirProcFrame(TRUE) \/ DirProcFrame(FALSE) \/ DirProcFrameBadHandler
    \/ DirPushReg(19)
    \/ \E off \in FrameOffsets : DirSetFrame(5, off)
    \/ \E size \in Sizes : DirAllocStack(size)
    \/ \E off \in Offsets : DirSaveReg(6, off)
    \/ \E off \in XmmOffsets : DirSaveXMM128(7, off)
    \/ DirPushFrame(0) \/ DirPushFrame(1)
    \/ DirBadOperand \/ DirEndProlog \/ DirEndProcFrame
    \/ EndOfSource \/ Layout \/ Output

Spec == Init /\ [][Next]_vars

-----------------------------------------------------------------------------
(* What the unwinder of the system reads: slots of two bytes, the latest      *)
(* operation first, and what an operation stands for.                         *)

Operation(w) ==
    CASE w.op = "ALLOC_SMALL" -> <<"alloc", 8 * w.info + 8>>
      [] w.op = "ALLOC_LARGE" /\ w.info = 0 -> <<"alloc", 8 * w.value>>
      [] w.op = "ALLOC_LARGE" /\ w.info = 1 -> <<"alloc", w.value>>
      [] w.op = "SAVE_NONVOL" -> <<"save", w.info, 8 * w.value>>
      [] w.op = "SAVE_NONVOL_FAR" -> <<"save", w.info, w.value>>
      [] w.op = "SAVE_XMM128" -> <<"xmm", w.info, 16 * w.value>>
      [] w.op = "SAVE_XMM128_FAR" -> <<"xmm", w.info, w.value>>
      [] OTHER -> <<w.op, w.info>>

\* What the directive of a code asked for.
Wanted(c) ==
    CASE c.op \in {"ALLOC_SMALL", "ALLOC_LARGE"} -> <<"alloc", Final(c)>>
      [] c.op \in {"SAVE_NONVOL", "SAVE_NONVOL_FAR"} -> <<"save", c.info, Final(c)>>
      [] c.op \in {"SAVE_XMM128", "SAVE_XMM128_FAR"} -> <<"xmm", c.info, Final(c)>>
      [] OTHER -> <<c.op, c.info>>

SlotsOf(w) == 1 + w.size \div 2

\* Whatever form CalcLen and Expand chose for a code, an unwinder that reads as
\* many slots as the header counts finds the operations of the directives with their
\* sizes and offsets, from the end of the prologue to its start.
UnwindReadsBack ==
    phase = "done" =>
        \A k \in DOMAIN out :
            LET o == out[k] IN
            /\ o.slots = FoldLeft(LAMBDA n, w : n + SlotsOf(w), 0, o.codes)
            /\ \A j \in DOMAIN o.codes :
                   /\ Operation(o.codes[j]) = Wanted(infos[k].codes[j])
                   /\ o.codes[j].at \in 0..o.prolog
                   /\ j > 1 => o.codes[j].at <= o.codes[j - 1].at

\* The sizes and offsets that some form of the code holds.
Holdable(c) ==
    \/ c.op \in Short
    \/ Final(c) % Unit(c) = 0 /\ Final(c) >= (IF c.op \in {"ALLOC_SMALL", "ALLOC_LARGE"} THEN 8 ELSE 0)


-----------------------------------------------------------------------------
(* The entries of .pdata.                                                     *)

Up4(n) == ((n + 3) \div 4) * 4

\* Where the k-th info starts in .xdata, and where the one before it ends: behind
\* its codes, then behind the padding and the handler.
RECURSIVE InfoAt(_)
CodesEnd(k) == InfoAt(k) + 4 + 2 * Slots(infos[k])
InfoAt(k) == IF k = 1 THEN 0
             ELSE Up4(CodesEnd(k - 1)) + (IF infos[k - 1].handler THEN 4 ELSE 0)

\* DirEndProcFrame takes the end of the fixed part of the last bytecode of .xdata
\* for the current position.  The last bytecode is the padding, which has no fixed
\* part, or else holds the handler.
UnwindPos(k) ==
    IF k = 1 THEN 0
    ELSE IF infos[k - 1].handler THEN InfoAt(k) ELSE CodesEnd(k - 1)

\* "Get current position in .xdata section": the entry of a procedure in .pdata
\* refers to the unwind info of that procedure.
EntryRefersToInfo ==
    phase = "done" => \A k \in DOMAIN infos : UnwindPos(k) = InfoAt(k)

=============================================================================
