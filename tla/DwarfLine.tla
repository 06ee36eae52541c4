------------------------------ MODULE DwarfLine ------------------------------
(***************************************************************************)
(* DWARF line numbers: the .loc and .file directives (DirLoc, DirFile) and *)
(* the line number program that Generate_line writes for every section.    *)
(* Bytes of code are an offset, expressions are integers, names are drawn  *)
(* from small sets.  An operand of a directive is a NameValue.             *)
(***************************************************************************)
EXTENDS Integers, Sequences
LOCAL INSTANCE SequencesExt

CONSTANTS CodeSections,     \* sections with isCode()
          DataSections,     \* other sections
          Gaps,             \* bytes of code between two directives
          FileNums,         \* file numbers in directives
          Lines,            \* line numbers in .loc
          Options,          \* what may follow the line number in .loc
          Paths,            \* file names, records [dir, file]
          SourceFiles,      \* files of the source manager, a sequence of paths
          MaxDirectives,    \* bound: directives
          MaxBytes,         \* bound: bytes of code in a section
          None

VARIABLES
    phase,      \* "parse", "generate", "done" or "assert" (a failed assertion)
    count,      \* directives so far
    asm_source, \* the line numbers are those of the assembly source
    cur,        \* current section
    here,       \* bytes in each section so far
    locs,       \* DwarfSection::locs by section; None without a DwarfSection
    dirs,       \* m_dirs
    filenames,  \* m_filenames; a number that is not assigned has file None
    header,     \* files written to the prologue
    program,    \* the line number program of each section, None if it has none
    diags       \* errors reported

vars == <<phase, count, asm_source, cur, here, locs, dirs, filenames, header, program, diags>>

AllSections == CodeSections \cup DataSections

-----------------------------------------------------------------------------
(* NameValues and the options of .loc *)

Num(v)      == [name |-> "", type |-> "expr", val |-> v]
Id(s)       == [name |-> "", type |-> "id", val |-> s]
Named(n, v) == [name |-> n, type |-> "expr", val |-> v]
isExpr(nv)   == nv.type \in {"id", "expr"}
isIntNum(nv) == nv.type = "expr"            \* a symbol is no integer

ValueOptions == {"is_stmt", "isa", "discriminator"}
FlagOptions  == {"basic_block", "prologue_end", "epilogue_begin"}

\* DwarfLoc as its constructor leaves it.
NewLoc(file, line, at) ==
    [file |-> file, line |-> line, column |-> 0, discriminator |-> 0, isa_change |-> FALSE,
     isa |-> 0, is_stmt |-> "nochange", flags |-> {}, loc |-> at]

\* The value of an option; the parse state is the location, the option that
\* waits for its value and whether an error ended the parse.
SetOption(st, option, nv) ==
    LET v    == nv.val
        done == [st EXCEPT !.waiting = None]
        bad  == [done EXCEPT !.error = TRUE]
    IN  CASE ~isIntNum(nv) -> bad
          [] isIntNum(nv) /\ option = "is_stmt" ->
               IF v = 0 THEN [done EXCEPT !.loc.is_stmt = "set"]
               ELSE IF v = 1 THEN [done EXCEPT !.loc.is_stmt = "clear"] ELSE bad
          [] isIntNum(nv) /\ option = "isa" ->
               IF v < 0 THEN bad ELSE [done EXCEPT !.loc.isa_change = TRUE, !.loc.isa = v]
          [] isIntNum(nv) /\ option = "discriminator" ->
               IF v < 0 THEN bad ELSE [done EXCEPT !.loc.discriminator = v]

\* One turn of the option loop.
NextOption(st, nv) ==
    CASE st.error -> st
      [] ~st.error /\ st.waiting # None -> SetOption(st, st.waiting, nv)
      [] ~st.error /\ st.waiting = None ->
           IF nv.name = "" /\ nv.type = "id" /\ nv.val \in ValueOptions
           THEN [st EXCEPT !.waiting = nv.val]
           ELSE IF nv.name = "" /\ nv.type = "id" /\ nv.val \in FlagOptions
           THEN [st EXCEPT !.loc.flags = @ \cup {nv.val}]
           ELSE IF nv.name \in ValueOptions THEN SetOption(st, nv.name, nv) ELSE st

\* What follows the line number: an optional column, then options.
ParseLoc(loc, nvs) ==
    LET start   == [loc |-> loc, waiting |-> None, error |-> FALSE]
        column  == nvs # << >> /\ isExpr(nvs[1])
        options == IF column THEN Tail(nvs) ELSE nvs
        st      == IF column /\ ~isIntNum(nvs[1]) THEN [start EXCEPT !.error = TRUE]
                   ELSE IF column
                   THEN FoldLeft(NextOption, [start EXCEPT !.loc.column = nvs[1].val], options)
                   ELSE FoldLeft(NextOption, start, options)
    IN  [st EXCEPT !.error = @ \/ st.waiting # None]

-----------------------------------------------------------------------------
(* Directives *)

Emit(n) ==
    /\ phase = "parse" /\ here[cur] + n <= MaxBytes
    /\ here' = [here EXCEPT ![cur] = @ + n]
    /\ UNCHANGED <<phase, count, asm_source, cur, locs, dirs, filenames, header, program, diags>>

SwitchSection(s) ==
    /\ phase = "parse" /\ count < MaxDirectives /\ s # cur
    /\ cur' = s /\ count' = count + 1
    /\ UNCHANGED <<phase, asm_source, here, locs, dirs, filenames, header, program, diags>>

\* The DwarfSection is created before the options are parsed, so it stays when
\* an option is in error.
DirLoc(file, line, nvs) ==
    /\ phase = "parse" /\ count < MaxDirectives
    /\ count' = count + 1
    /\ LET st  == ParseLoc(NewLoc(file, line, here[cur]), nvs)
           old == IF locs[cur] = None THEN << >> ELSE locs[cur]
       IN  IF file <= 0
           THEN diags' = diags \cup {"loc_file_number_invalid"} /\ UNCHANGED locs
           ELSE /\ locs' = [locs EXCEPT ![cur] = IF st.error THEN old ELSE Append(old, st.loc)]
                /\ diags' = IF st.error THEN diags \cup {"loc_option"} ELSE diags
    /\ UNCHANGED <<phase, asm_source, cur, here, dirs, filenames, header, program>>

\* AddDir: the index of the directory, and the table with it.
AddDir(table, dir) == IF dir \in ToSet(table) THEN table ELSE Append(table, dir)
DirIndex(table, dir) == SelectInSeq(table, LAMBDA d : d = dir)

Unassigned == [dir |-> 0, file |-> None]
Resize(s, n) == IF Len(s) >= n THEN s ELSE s \o [i \in 1..(n - Len(s)) |-> Unassigned]

DirFile(num, path) ==
    /\ phase = "parse" /\ count < MaxDirectives
    /\ count' = count + 1
    /\ dirs' = AddDir(dirs, path.dir)
    /\ IF num = 0 THEN phase' = "assert" /\ UNCHANGED filenames
       ELSE /\ filenames' = [Resize(filenames, num) EXCEPT
                   ![num] = [dir |-> DirIndex(dirs', path.dir), file |-> path.file]]
            /\ UNCHANGED phase
    /\ UNCHANGED <<asm_source, cur, here, locs, header, program, diags>>

\* An operand of .loc or .file is missing or of the wrong kind.  (A .file with just
\* a name sets the name of the source file and nothing else.)
DirBadArgs ==
    /\ phase = "parse" /\ count < MaxDirectives
    /\ count' = count + 1
    /\ diags' = diags \cup {"arguments"}
    /\ UNCHANGED <<phase, asm_source, cur, here, locs, dirs, filenames, header, program>>

-----------------------------------------------------------------------------
(* Generate_line *)

LineBase == -5
LineRange == 14
OpcodeBase == 13
m_min_insn_len == 1
MaxSpecialAddrDelta == ((255 - OpcodeBase) \div LineRange) * m_min_insn_len

When(cond, op) == IF cond THEN <<op>> ELSE << >>

\* The byte of a special opcode.
Special(opcode) == <<"special", opcode % 256>>

\* The opcodes for the line and address deltas of a row.
\* Mutant: the special opcode is used without looking at the limit of a byte.
MutDeltaOps(line_delta, addr_delta) ==
    LET fits    == line_delta >= LineBase /\ line_delta < LineBase + LineRange
        d       == IF fits THEN line_delta ELSE 0
        base    == OpcodeBase + d - LineBase
        opcode1 == base + LineRange * (addr_delta \div m_min_insn_len)
    IN  When(~fits, <<"advance_line", line_delta>>) \o
        (IF d = 0 /\ addr_delta = 0 THEN << <<"copy">> >>
         ELSE IF addr_delta <= MaxSpecialAddrDelta THEN <<Special(opcode1)>>
         ELSE << <<"advance_pc", addr_delta>>, IF d = 0 THEN <<"copy">> ELSE Special(base)>>)
DeltaOps(line_delta, addr_delta) ==
    LET fits    == line_delta >= LineBase /\ line_delta < LineBase + LineRange
        d       == IF fits THEN line_delta ELSE 0
        base    == OpcodeBase + d - LineBase
        opcode1 == base + LineRange * (addr_delta \div m_min_insn_len)
        opcode2 == base + LineRange * ((addr_delta - MaxSpecialAddrDelta) \div m_min_insn_len)
    IN  When(~fits, <<"advance_line", line_delta>>) \o
        (IF d = 0 /\ addr_delta = 0 THEN << <<"copy">> >>
         ELSE IF addr_delta <= MaxSpecialAddrDelta /\ opcode1 <= 255 THEN <<Special(opcode1)>>
         ELSE IF addr_delta <= 2 * MaxSpecialAddrDelta /\ opcode2 <= 255
         THEN << <<"const_add_pc">>, Special(opcode2)>>
         ELSE << <<"advance_pc", addr_delta>>, IF d = 0 THEN <<"copy">> ELSE Special(base)>>)

NewStmt(is_stmt, loc) ==
    CASE loc.is_stmt = "set" -> TRUE [] loc.is_stmt = "clear" -> FALSE [] OTHER -> is_stmt

\* GenerateLineOp: the state and the program after one location.
GenerateLineOp(st, loc) ==
    LET stmt  == NewStmt(st.is_stmt, loc)
        delta == IF st.prevloc = None THEN 0 ELSE loc.loc - st.prevloc
        ops   == When(st.file # loc.file, <<"set_file", loc.file>>)
              \o When(st.column # loc.column, <<"set_column", loc.column>>)
              \o When(loc.discriminator # 0, <<"set_discriminator", loc.discriminator>>)
              \o When(loc.isa_change, <<"set_isa", loc.isa>>)
              \o When(stmt # st.is_stmt, <<"negate_stmt">>)
              \o When("basic_block" \in loc.flags, <<"set", "basic_block">>)
              \o When("prologue_end" \in loc.flags, <<"set", "prologue_end">>)
              \o When("epilogue_begin" \in loc.flags, <<"set", "epilogue_begin">>)
              \o DeltaOps(loc.line - st.line, delta)
    IN  [file |-> loc.file, column |-> loc.column, line |-> loc.line, is_stmt |-> stmt,
         prevloc |-> loc.loc, ops |-> st.ops \o ops]

\* What ends the sequence of a section.
EndSequence(addr_delta) ==
    (IF addr_delta = MaxSpecialAddrDelta THEN << <<"const_add_pc">> >>
     ELSE When(addr_delta > 0, <<"advance_pc", addr_delta>>)) \o << <<"end_sequence">> >>

GenerateLineSection(s, asm) ==
    LET st0 == [file |-> 1, line |-> 1, column |-> 0, is_stmt |-> TRUE, prevloc |-> None,
                ops |-> << >>]
        st  == IF asm \/ locs[s] = None THEN st0 ELSE FoldLeft(GenerateLineOp, st0, locs[s])
        from == IF st.prevloc = None THEN 0 ELSE st.prevloc
    IN  IF locs[s] = None /\ (~asm \/ s \notin CodeSections) THEN None
        ELSE << <<"set_address", 0>> >> \o st.ops \o EndSequence(here[s] - from)

\* AddFile of a file of the source manager, when there are no .file directives.
AddFile(t, path) ==
    LET d == AddDir(t.dirs, path.dir)
        entry == [dir |-> DirIndex(d, path.dir), file |-> path.file]
    IN  [dirs |-> d, files |-> IF entry \in ToSet(t.files) THEN t.files ELSE Append(t.files, entry)]

\* AppendSPP writes the files it knows and reports the numbers it does not.
PrologueErrors(files) ==
    IF \E i \in DOMAIN files : files[i].file = None THEN {"file_number_unassigned"} ELSE {}

Generate ==
    /\ phase = "parse" /\ diags = {}
    /\ phase' = "done"
    /\ asm_source' = (filenames = << >>)
    /\ LET t == FoldLeft(AddFile, [dirs |-> dirs, files |-> << >>], SourceFiles)
       IN  /\ dirs' = IF asm_source' THEN t.dirs ELSE dirs
           /\ filenames' = IF asm_source' THEN t.files ELSE filenames
           /\ program' = [s \in AllSections |-> GenerateLineSection(s, asm_source')]
    /\ header' = SelectSeq(filenames', LAMBDA f : f.file # None)
    /\ diags' = PrologueErrors(filenames')
    /\ UNCHANGED <<count, cur, here, locs>>

-----------------------------------------------------------------------------
Init ==
    /\ phase = "parse" /\ count = 0 /\ asm_source = FALSE
    /\ cur \in CodeSections
    /\ here = [s \in AllSections |-> 0]
    /\ locs = [s \in AllSections |-> None]
    /\ dirs = << >> /\ filenames = << >> /\ header = << >>
    /\ program = [s \in AllSections |-> None]
    /\ diags = {}

Next ==
    \/ \E n \in Gaps : Emit(n)
    \/ \E s \in AllSections : SwitchSection(s)
    \/ \E f \in FileNums, l \in Lines, o \in Options : DirLoc(f, l, o)
    \/ \E f \in FileNums, p \in Paths : DirFile(f, p)
    \/ DirBadArgs
    \/ Generate

Spec == Init /\ [][Next]_vars

-----------------------------------------------------------------------------
(* The reader of a line number program, from the DWARF standard *)

Step(m, op) ==
    CASE op[1] = "set_address"  -> [m EXCEPT !.address = op[2]]
      [] op[1] = "advance_pc"   -> [m EXCEPT !.address = @ + m_min_insn_len * op[2]]
      [] op[1] = "const_add_pc" -> [m EXCEPT !.address = @ + MaxSpecialAddrDelta]
      [] op[1] = "advance_line" -> [m EXCEPT !.line = @ + op[2]]
      [] op[1] = "set_file"     -> [m EXCEPT !.file = op[2]]
      [] op[1] = "set_column"   -> [m EXCEPT !.column = op[2]]
      [] op[1] = "set_isa"      -> [m EXCEPT !.isa = op[2]]
      [] op[1] = "set_discriminator" -> [m EXCEPT !.discriminator = op[2]]
      [] op[1] = "negate_stmt"  -> [m EXCEPT !.is_stmt = ~@]
      [] op[1] = "set"          -> [m EXCEPT !.flags = @ \cup {op[2]}]
      [] OTHER ->
           LET adj  == IF op[1] = "special" THEN op[2] - OpcodeBase ELSE -LineBase
               addr == m.address + (adj \div LineRange) * m_min_insn_len
               line == m.line + LineBase + (adj % LineRange)
               row  == [loc |-> addr, line |-> line, file |-> m.file, column |-> m.column,
                        isa |-> m.isa, is_stmt |-> m.is_stmt, flags |-> m.flags,
                        discriminator |-> m.discriminator, end |-> op[1] = "end_sequence"]
           IN  [m EXCEPT !.address = addr, !.line = line, !.flags = {}, !.discriminator = 0,
                         !.rows = Append(@, row)]

Rows(prog) ==
    FoldLeft(Step, [address |-> 0, line |-> 1, file |-> 1, column |-> 0, isa |-> 0,
                    is_stmt |-> TRUE, flags |-> {}, discriminator |-> 0, rows |-> << >>],
             prog).rows

-----------------------------------------------------------------------------
(* Properties *)

\* The isa and is_stmt registers at location i, as the directives set them.
LastIsa(ls, i) ==
    FoldLeft(LAMBDA isa, l : IF l.isa_change THEN l.isa ELSE isa, 0, SubSeq(ls, 1, i))
LastStmt(ls, i) == FoldLeft(NewStmt, TRUE, SubSeq(ls, 1, i))

\* "bring address to end of section" (GenerateLineSection): the sequence of a
\* section ends at its end, as far as the first .loc stood at its start.
SequenceEnds(s) ==
    LET end == Last(Rows(program[s])) IN
    /\ end.end
    /\ asm_source \/ locs[s] = << >> \/ locs[s][1].loc = 0 => end.loc = here[s]

\* The program that GenerateLineOp packs into special opcodes, read back by the
\* rules of DWARF, has one row for each .loc with its line, file, column and
\* flags, at the distance of that .loc from the first one of its section; it
\* ends the sequence where the section ends.
RowsDecode ==
    phase = "done" => \A s \in AllSections : program[s] # None =>
        LET rows == Rows(program[s])
            ls   == locs[s]
        IN  /\ SequenceEnds(s)
            /\ ~asm_source =>
                 /\ Len(rows) = Len(ls) + 1
                 /\ \A i \in DOMAIN ls :
                      /\ rows[i].line = ls[i].line /\ rows[i].file = ls[i].file
                      /\ rows[i].column = ls[i].column /\ rows[i].flags = ls[i].flags
                      /\ rows[i].discriminator = ls[i].discriminator
                      /\ rows[i].isa = LastIsa(ls, i) /\ rows[i].is_stmt = LastStmt(ls, i)
                      /\ rows[i].loc - rows[1].loc = ls[i].loc - ls[1].loc

=============================================================================
