------------------------------ MODULE ElfObject ------------------------------
(* The ELF object format: from the statements that describe symbols, sections *)
(* and groups to the symbol table, the relocations and the group sections of  *)
(* the file (ElfObject.cpp, ElfSymbol.cpp, ElfConfig.cpp, ElfReloc.cpp and    *)
(* the x86 machines).                                                         *)
(*                                                                            *)
(* The record of a symbol holds its Symbol and its ElfSymbol data; "built"    *)
(* says whether it has the latter.  A value is a symbol plus a number; with   *)
(* NoSym it is the number, and NoSym is the name of the object's absolute     *)
(* symbol.  References are the 32-bit operands of instructions of five bytes, *)
(* one byte in.  Statements that the symbol table rejects end the assembly    *)
(* and are left out (see SymbolTable).  Sizes, file positions and string      *)
(* offsets are left out.                                                      *)
EXTENDS Integers, Sequences, FiniteSets, TLC

CONSTANTS DotL,         \* the symbols whose names start with .L
          Scenarios     \* what a source may say: records with the fields max (number of
                        \* statements), kinds, names, sections, groups and refs

VARIABLES scen,         \* the scenario of this source
          rela,         \* amd64 (relocations with addends) or x86
          stage,        \* "parse", "finalize", "output", "done" or "failed"
          count,        \* statements so far
          symbols,      \* Object::m_symbols, in the order of creation
          sym,          \* the data of every symbol
          sects,        \* Object::m_sections
          size,         \* the bytes in every section
          cur,          \* the current section
          groups,       \* m_groups
          refs,         \* the references as the source says them
          values,       \* ... and as Value::Finalize leaves them
          said,         \* history: the statements about symbols
          file          \* what has been written

source == <<symbols, sym, sects, size, cur, groups, refs, said>>
vars == <<scen, rela, stage, count, source, values, file>>

NoSym   == ""
FileSym == ".file"
GOT     == "_GLOBAL_OFFSET_TABLE_"
Text    == ".text"
Bss     == ".bss"

SHN_UNDEF  == 0
SHN_ABS    == 65521
SHN_COMMON == 65522

Names      == UNION {s.names : s \in Scenarios}
SectNames  == {Text, Bss} \cup UNION {s.sections : s \in Scenarios}
GroupNames == UNION {s.groups : s \in Scenarios}
AllSyms    == Names \cup SectNames \cup GroupNames \cup {NoSym, FileSym, GOT}

Elements(s) == {s[i] : i \in DOMAIN s}

Fresh == [def |-> "no", sect |-> NoSym, off |-> 0, equ |-> [sym |-> NoSym, k |-> 0],
          vis |-> {}, used |-> FALSE,
          built |-> FALSE, shsect |-> NoSym, index |-> SHN_UNDEF, value |-> 0,
          bind |-> "LOCAL", type |-> "NOTYPE", symindex |-> 0, inTable |-> TRUE,
          weakRef |-> FALSE, weakRefr |-> FALSE]

Defined(s) == s.def # "no"

(* The flags of a section that output looks at: by its name, or given by the   *)
(* .section directive.                                                         *)
FlagsOf(sect) ==
    CASE sect = ".tdata" -> {"TLS"} [] sect = ".str" -> {"MERGE"} [] OTHER -> {}

SectionLabel(sect) == [Fresh EXCEPT !.def = "label", !.sect = sect]

Init ==
    /\ scen \in Scenarios /\ rela \in BOOLEAN
    /\ stage = "parse" /\ count = 0
    /\ symbols = <<FileSym, Text>>
    /\ sym = [n \in AllSyms |->
                IF n = FileSym
                THEN [Fresh EXCEPT !.def = "special", !.built = TRUE, !.index = SHN_ABS,
                                   !.type = "FILE", !.symindex = 1]
                ELSE IF n = Text THEN SectionLabel(Text) ELSE Fresh]
    /\ sects = <<Text>> /\ size = [s \in SectNames |-> 0] /\ cur = Text
    /\ groups = << >> /\ refs = << >> /\ values = << >> /\ said = {} /\ file = << >>

-----------------------------------------------------------------------------
(* Statements.                                                                 *)

Statement(kind) ==
    /\ stage = "parse" /\ count < scen.max /\ kind \in scen.kinds
    /\ count' = count + 1
    /\ UNCHANGED <<scen, rela, stage, values, file>>

Got(list, n) == IF n \in Elements(list) THEN list ELSE Append(list, n)

(* AppendSection, unless the section is there: its symbol is a label at its start. *)
WithSection(list, sect) ==
    IF sect \in Elements(sects)
    THEN [symbols |-> list, sym |-> sym, sects |-> sects]
    ELSE [symbols |-> Append(list, sect), sym |-> [sym EXCEPT ![sect] = SectionLabel(sect)],
          sects |-> Append(sects, sect)]

Label(n) ==
    /\ Statement("label") /\ ~Defined(sym[n])
    /\ symbols' = Got(symbols, n)
    /\ sym' = [sym EXCEPT ![n].def = "label", ![n].sect = cur, ![n].off = size[cur]]
    /\ said' = said \cup {<<"define", n>>}
    /\ UNCHANGED <<sects, size, cur, groups, refs>>

(* An assignment; a symbol in its expression is used. *)
Equ(n, e) ==
    /\ Statement("equ") /\ ~Defined(sym[n]) /\ e.sym # n
    /\ symbols' = IF e.sym = NoSym THEN Got(symbols, n) ELSE Got(Got(symbols, e.sym), n)
    /\ sym' = [m \in AllSyms |->
                 CASE m = n -> [sym[n] EXCEPT !.def = "equ", !.equ = e]
                   [] m = e.sym /\ m # NoSym -> [sym[m] EXCEPT !.used = TRUE]
                   [] OTHER -> sym[m]]
    /\ said' = said \cup {<<"define", n>>, <<"use", e.sym>>}
    /\ UNCHANGED <<sects, size, cur, groups, refs>>

OkToDeclare(s, v) ==
    \/ v = "GLOBAL"
    \/ ~Defined(s) /\ CASE "COMMON" \in s.vis -> v = "COMMON"
                        [] "EXTERN" \in s.vis -> v = "EXTERN"
                        [] OTHER -> TRUE

Declare(n, v) ==
    /\ Statement(v) /\ OkToDeclare(sym[n], v)
    /\ v = "COMMON" => sym[n].vis # {"DLOCAL"}
    /\ symbols' = Got(symbols, n)
    /\ sym' = [sym EXCEPT ![n].vis = @ \cup {v}]
    /\ said' = said \cup {<<v, n>>}
    /\ UNCHANGED <<sects, size, cur, groups, refs>>

(* .lcomm, and .comm of a symbol declared .local: a label in .bss and a gap. *)
DefineLcomm(n) ==
    /\ \/ Statement("lcomm")
       \/ Statement("COMMON") /\ sym[n].vis = {"DLOCAL"}
    /\ ~Defined(sym[n])
    /\ LET w == WithSection(Got(symbols, n), Bss)
       IN /\ symbols' = w.symbols /\ sects' = w.sects
          /\ sym' = [w.sym EXCEPT ![n].def = "label", ![n].sect = Bss, ![n].off = size[Bss]]
    /\ size' = [size EXCEPT ![Bss] = @ + 4]
    /\ said' = said \cup {<<"define", n>>}
    /\ UNCHANGED <<cur, groups, refs>>

BuildSymbol(s) == [s EXCEPT !.built = TRUE]

setBinding(s, b) == [s EXCEPT !.bind = b, !.weakRefr = FALSE]

DirWeak(n) ==
    /\ Statement("weak")
    /\ symbols' = Got(symbols, n)
    /\ sym' = [sym EXCEPT ![n] = setBinding(BuildSymbol([@ EXCEPT !.vis = @ \cup {"GLOBAL"}]), "WEAK")]
    /\ said' = said \cup {<<"weak", n>>, <<"GLOBAL", n>>}
    /\ UNCHANGED <<sects, size, cur, groups, refs>>

(* .hidden, .internal and .protected: setVisibility clears the mark of a weak reference. *)
VisibilityDir(n) ==
    /\ Statement("hidden")
    /\ symbols' = Got(symbols, n)
    /\ sym' = [sym EXCEPT ![n] = [BuildSymbol(@) EXCEPT !.vis = @ \cup {"GLOBAL"}, !.weakRefr = FALSE]]
    /\ said' = said \cup {<<"hidden", n>>}
    /\ UNCHANGED <<sects, size, cur, groups, refs>>

DirWeakRef(n, target) ==
    /\ Statement("weakref") /\ ~Defined(sym[n]) /\ n # target
    /\ symbols' = Got(Got(symbols, n), target)
    /\ sym' = [sym EXCEPT
                 ![n] = [BuildSymbol(@) EXCEPT !.weakRef = TRUE, !.def = "equ",
                                               !.equ = [sym |-> target, k |-> 0]],
                 ![target] = IF @.built THEN @ ELSE [BuildSymbol(@) EXCEPT !.weakRefr = TRUE]]
    /\ said' = said \cup {<<"define", n>>}
    /\ UNCHANGED <<sects, size, cur, groups, refs>>

AddToGroup(g, sect) ==
    IF \E i \in DOMAIN groups : groups[i].name = g
    THEN [i \in DOMAIN groups |->
            IF groups[i].name = g THEN [groups[i] EXCEPT !.sects = @ \cup {sect}] ELSE groups[i]]
    ELSE Append(groups, [name |-> g, sects |-> {sect}])

(* .section, with the name of a group or without one (NoSym). *)
DirGasSection(sect, g) ==
    /\ Statement("section") /\ <<sect, g>> # <<cur, NoSym>>
    /\ LET w == WithSection(symbols, sect)
       IN symbols' = w.symbols /\ sym' = w.sym /\ sects' = w.sects
    /\ cur' = sect
    /\ groups' = IF g = NoSym THEN groups ELSE AddToGroup(g, sect)
    /\ UNCHANGED <<size, refs, said>>

(* An instruction with a reference r: symbol, number, pc (relative to the next *)
(* instruction) and wrt (@PLT and the like, or "no").  @GOTOFF has 64 bits on  *)
(* amd64; code there reaches the global offset table relative to rip, code for *)
(* x86 as an immediate operand.                                                *)
Refer(r) ==
    /\ Statement("refer")
    /\ r.wrt = "gotoff" => ~rela
    /\ r.sym = GOT => (r.pc <=> rela)
    /\ symbols' = IF r.sym = NoSym THEN symbols ELSE Got(symbols, r.sym)
    /\ sym' = IF r.sym = NoSym THEN sym ELSE [sym EXCEPT ![r.sym].used = TRUE]
    /\ refs' = Append(refs, [sym |-> r.sym, k |-> r.k, pc |-> r.pc, wrt |-> r.wrt,
                             sect |-> cur, at |-> size[cur] + 1])
    /\ size' = [size EXCEPT ![cur] = @ + 5]
    /\ said' = said \cup {<<"use", r.sym>>}
    /\ UNCHANGED <<sects, cur, groups>>

(* The end of GasParser::Parse: used and undefined symbols become extern. *)
ExternUndefinedSymbols ==
    /\ stage = "parse" /\ stage' = "finalize"
    /\ sym' = [n \in AllSyms |->
                 IF sym[n].used /\ ~Defined(sym[n]) /\ sym[n].vis \cap {"EXTERN", "COMMON"} = {}
                 THEN [sym[n] EXCEPT !.vis = @ \cup {"EXTERN"}] ELSE sym[n]]
    /\ UNCHANGED <<scen, rela, count, symbols, sects, size, cur, groups, refs, said, values, file>>

-----------------------------------------------------------------------------
(* ExpandEqu: the values that stand for e, one equ after the other; the last   *)
(* one still has an equ if they are circular.                                  *)

Chain(S, e) ==
    LET value[i \in 0..Cardinality(Names)] ==
          IF i = 0 THEN e
          ELSE LET v == value[i - 1]
               IN IF v.sym # NoSym /\ S[v.sym].def = "equ"
                  THEN [sym |-> S[v.sym].equ.sym, k |-> v.k + S[v.sym].equ.k] ELSE v
    IN value

Expanded(chain) == chain[Cardinality(Names)]

Circular(S, chain) == Expanded(chain).sym # NoSym /\ S[Expanded(chain).sym].def = "equ"

(* "Mark symbol as used if it wasn't already." *)
UsedBy(S, chain) ==
    [n \in AllSyms |-> IF n # NoSym /\ \E i \in DOMAIN chain : chain[i].sym = n
                       THEN [S[n] EXCEPT !.used = TRUE] ELSE S[n]]

(* Value::SubRelative for the distance to the next instruction: a label of the *)
(* same section that is not global moves into the absolute part.               *)
Subtracted(S, r, e) ==
    IF e.sym # NoSym /\ r.wrt = "no" /\ S[e.sym].def = "label" /\ S[e.sym].sect = r.sect
       /\ "GLOBAL" \notin S[e.sym].vis
    THEN [r EXCEPT !.sym = NoSym, !.k = e.k + S[e.sym].off - (r.at + 4), !.pc = FALSE]
    ELSE [r EXCEPT !.sym = e.sym, !.k = e.k]

FinalValue(S, r, e) ==
    IF r.pc THEN Subtracted(S, r, e) ELSE [r EXCEPT !.sym = e.sym, !.k = e.k]

ExprOf(r) == [sym |-> r.sym, k |-> r.k]

(* Object::Finalize.  A value relative to the next instruction without a       *)
(* symbol gets the absolute symbol.                                            *)
Finalize ==
    /\ stage = "finalize"
    /\ LET chains == [i \in DOMAIN refs |-> Chain(sym, ExprOf(refs[i]))]
           final  == [i \in DOMAIN refs |-> FinalValue(sym, refs[i], Expanded(chains[i]))]
           needsAbs == \E i \in DOMAIN refs : refs[i].pc /\ Expanded(chains[i]).sym = NoSym
           reached == {chains[i][j].sym : i \in DOMAIN refs, j \in 0..Cardinality(Names)}
       IN IF \E i \in DOMAIN refs : Circular(sym, chains[i])
          THEN stage' = "failed" /\ UNCHANGED <<symbols, sym, values>>
          ELSE /\ stage' = "output"
               /\ values' = final
               /\ symbols' = IF needsAbs THEN Got(symbols, NoSym) ELSE symbols
               /\ sym' = [n \in AllSyms |->
                            IF n = NoSym
                            THEN IF needsAbs THEN [Fresh EXCEPT !.def = "equ", !.used = TRUE] ELSE sym[n]
                            ELSE IF n \in reached THEN [sym[n] EXCEPT !.used = TRUE] ELSE sym[n]]
    /\ UNCHANGED <<scen, rela, count, sects, size, cur, groups, refs, said, file>>

-----------------------------------------------------------------------------
(* Output.  S is the data of the symbols as they change.                       *)

\* A mutant of isLocal that forgets .local.
isUndeclared(s) == s.vis = {}

isLocal(s) == s.vis = {} \/ "DLOCAL" \in s.vis

AsGlobal(s) == IF s.bind = "LOCAL" THEN setBinding(s, "GLOBAL") ELSE s

BuildExtern(s) == AsGlobal(BuildSymbol(s))

(* setVisibility clears the mark of a weak reference. *)
BuildGlobal(s) == [AsGlobal(BuildSymbol(s)) EXCEPT !.weakRefr = FALSE]

(* The value of a common symbol is its alignment; its size is 4 here. *)
BuildCommon(s) ==
    [AsGlobal(BuildSymbol(s)) EXCEPT !.index = SHN_COMMON, !.value = 4,
                                     !.type = IF @ = "NOTYPE" THEN "OBJECT" ELSE @]

setSymbolSectionValue(s) ==
    IF s.def = "label" THEN [s EXCEPT !.shsect = s.sect, !.value = s.off] ELSE s

(* ElfSymbol::Finalize, first what it decides about weak references ...        *)
WeakRefrFinal(s) ==
    IF ~s.weakRefr \/ Defined(s) THEN s
    ELSE IF s.vis \cap {"GLOBAL", "COMMON"} = {}
         THEN IF s.used
              THEN setBinding([s EXCEPT !.inTable = TRUE, !.vis = @ \cup {"GLOBAL"}], "WEAK")
              ELSE [s EXCEPT !.inTable = FALSE]
         ELSE IF "GLOBAL" \in s.vis THEN setBinding(s, "GLOBAL") ELSE s

LeftOut(s) == s.weakRef /\ s.vis \in {{"DLOCAL"}, {}}

TypeFinal(s) == IF s.def = "label" /\ "TLS" \in FlagsOf(s.sect) THEN [s EXCEPT !.type = "TLS"] ELSE s

(* ... then the value of an equ: a number, a place, or nothing to put in the   *)
(* table.                                                                      *)
EquFinal(S, s, e) ==
    IF e.sym = NoSym THEN [s EXCEPT !.index = SHN_ABS, !.value = e.k]
    ELSE IF S[e.sym].def = "label"
         THEN [s EXCEPT !.shsect = S[e.sym].sect, !.value = S[e.sym].off + e.k]
         ELSE [s EXCEPT !.inTable = FALSE]

EquExpanded(S, n, s, chain) ==
    IF Circular(S, chain) THEN [UsedBy(S, chain) EXCEPT ![n] = s]
    ELSE [UsedBy(S, chain) EXCEPT ![n] = EquFinal(S, s, Expanded(chain))]

ElfFinalize(S, n, s) ==
    IF s.weakRefr /\ ~Defined(s) /\ ~s.inTable THEN [S EXCEPT ![n] = s]
    ELSE IF LeftOut(s) THEN [S EXCEPT ![n] = [s EXCEPT !.inTable = FALSE]]
    ELSE IF s.def = "equ" THEN EquExpanded(S, n, TypeFinal(s), Chain(S, s.equ))
    ELSE [S EXCEPT ![n] = TypeFinal(s)]

(* The ElfSymbol data of a defined symbol that has none: sections always get   *)
(* it, other local symbols only on request.                                    *)
BuildLocal(n, s, all_syms) ==
    IF s.built \/ s.def \notin {"label", "equ"} THEN s
    ELSE IF s.def = "label" /\ s.sect = n THEN [BuildSymbol(s) EXCEPT !.type = "SECTION"]
    ELSE IF all_syms /\ n \notin DotL THEN BuildSymbol(s) ELSE s

BuiltFinal(n, s, all_syms) ==
    LET declared == CASE "EXTERN" \in s.vis -> BuildExtern(s)
                      [] "EXTERN" \notin s.vis /\ "COMMON" \in s.vis -> BuildCommon(s)
                      [] OTHER -> s
        global == IF s.vis \cap {"COMMON", "GLOBAL"} = {"GLOBAL"} THEN BuildGlobal(declared) ELSE declared
    IN IF ~Defined(s) THEN declared ELSE setSymbolSectionValue(BuildLocal(n, global, all_syms))

FinalizeSymbol(S, n, all_syms) ==
    LET s == BuiltFinal(n, S[n], all_syms)
    IN IF ~s.built THEN S ELSE ElfFinalize(S, n, WeakRefrFinal(s))

FinalizeSymbols(S, list, all_syms) ==
    LET done[i \in 0..Len(list)] ==
          IF i = 0 THEN S ELSE FinalizeSymbol(done[i - 1], list[i], all_syms)
    IN done[Len(list)]

(* The symbols of the groups; a group whose name is no symbol gets a section   *)
(* symbol of its own.                                                          *)
GroupSymbols(S) ==
    [n \in AllSyms |->
        IF \A i \in DOMAIN groups : groups[i].name # n THEN S[n]
        ELSE IF n \in Elements(symbols) THEN BuildSymbol(S[n])
        ELSE [BuildSymbol(S[n]) EXCEPT !.type = "SECTION",
                !.index = CHOOSE i \in DOMAIN groups : groups[i].name = n]]

WithGroups ==
    LET list[i \in 0..Len(groups)] ==
          IF i = 0 THEN symbols ELSE Got(list[i - 1], groups[i].name)
    IN list[Len(groups)]

SectionIndex(sect) == Len(groups) + (CHOOSE i \in DOMAIN sects : sects[i] = sect)

-----------------------------------------------------------------------------
(* ConvertValueToBytes: the relocation of a value.                             *)

SymRelative(wrt) == wrt \in {"plt", "got", "gottpoff", "tpoff"}
ThreadLocal(wrt) == wrt \in {"gottpoff", "tpoff"}
NeedsGOT(wrt)    == wrt # "no"

IsRelative(v) == v.sym # NoSym \/ v.pc

\* A mutant of Against that forgets the sections that may be merged.
AgainstMerged(S, v) ==
    IF ~SymRelative(v.wrt) /\ isLocal(S[v.sym]) /\ S[v.sym].def = "label"
    THEN [sym |-> S[v.sym].sect, k |-> v.k + S[v.sym].off]
    ELSE [sym |-> v.sym, k |-> v.k]

(* A local label is relocated against its section, unless that may be merged   *)
(* or the relocation is about the symbol itself.                               *)
Against(S, v) ==
    IF ~SymRelative(v.wrt) /\ isLocal(S[v.sym]) /\ S[v.sym].def = "label"
       /\ "MERGE" \notin FlagsOf(S[v.sym].sect)
    THEN [sym |-> S[v.sym].sect, k |-> v.k + S[v.sym].off]
    ELSE [sym |-> v.sym, k |-> v.k]

CalcPCRelSub(v) == IF v.pc THEN v.at - (v.at + 4) ELSE 0

RelocType(v, e) ==
    CASE v.wrt # "no" -> v.wrt
      [] v.wrt = "no" /\ e.sym = GOT /\ GOT \in Elements(symbols) -> "gotpc"
      [] OTHER -> IF v.pc THEN "pc" ELSE "abs"

(* Without addends in the relocations, the place in the instruction is added   *)
(* to the distance to the global offset table.                                 *)
HandleAddend(v, type, k) == IF type = "gotpc" /\ ~rela THEN k + 1 ELSE k

MakeReloc(v, e, type) ==
    [sect |-> v.sect, at |-> v.at, sym |-> e.sym, type |-> type,
     k |-> HandleAddend(v, type, e.k + CalcPCRelSub(v))]

RelocOf(v, e) == MakeReloc(v, e, RelocType(v, e))

(* The relocations, section by section. *)
Relocs(S) ==
    LET here(sect) == SelectSeq(values, LAMBDA v : v.sect = sect /\ IsRelative(v))
        upto[i \in 0..Len(sects)] ==
          IF i = 0 THEN << >>
          ELSE upto[i - 1] \o
               [j \in 1..Len(here(sects[i])) |->
                  RelocOf(here(sects[i])[j], Against(S, here(sects[i])[j]))]
    IN upto[Len(sects)]

(* setWrt: "Force TLS type; this is required by the linker." *)
ForceTLS(S, relocs) ==
    [n \in AllSyms |->
        IF S[n].built /\ \E i \in DOMAIN relocs : relocs[i].sym = n /\ ThreadLocal(relocs[i].type)
        THEN [S[n] EXCEPT !.type = "TLS"] ELSE S[n]]

(* Output's loop over the relocations: their symbols have to be in the table. *)
ForceInTable(S, relocs, all_syms) ==
    LET forced(T, n) ==
          IF all_syms /\ T[n].built THEN T
          ELSE ElfFinalize(T, n, WeakRefrFinal([setSymbolSectionValue(BuildSymbol(T[n])) EXCEPT
                                                  !.inTable = TRUE]))
        done[i \in 0..Len(relocs)] == IF i = 0 THEN S ELSE forced(done[i - 1], relocs[i].sym)
    IN done[Len(relocs)]

GOTMissing == GOT \notin Elements(symbols) /\ \E i \in DOMAIN values : NeedsGOT(values[i].wrt)

WithGOT(S) ==
    IF GOTMissing THEN FinalizeSymbol([S EXCEPT ![GOT].vis = {"EXTERN"}], GOT, FALSE) ELSE S

(* "Partition symbol table to put local symbols first" *)
Partitioned(S, list) ==
    SelectSeq(list, LAMBDA n : isLocal(S[n])) \o SelectSeq(list, LAMBDA n : ~isLocal(S[n]))

NumberSections(S) ==
    [n \in AllSyms |-> IF n \in Elements(sects)
                       THEN [S[n] EXCEPT !.symindex = 1 + (CHOOSE i \in DOMAIN sects : sects[i] = n)]
                       ELSE S[n]]

(* AssignSymbolIndices: the next number, the number of local symbols and S.    *)
AssignSymbolIndices(S, list) ==
    LET one(t, n) ==
          IF ~t.S[n].built \/ ~t.S[n].inTable \/ t.S[n].symindex # 0 THEN t
          ELSE [num |-> t.num + 1, nlocal |-> IF t.S[n].bind = "LOCAL" THEN t.num + 1 ELSE t.nlocal,
                S |-> [t.S EXCEPT ![n].symindex = t.num]]
        done[i \in 0..Len(list)] ==
          IF i = 0 THEN [num |-> 2 + Len(sects), nlocal |-> 2 + Len(sects), S |-> S]
          ELSE one(done[i - 1], list[i])
    IN done[Len(list)]

(* ElfSymbol::Write: an alias takes over the type. *)
TypeWritten(S, s) ==
    IF s.type = "NOTYPE" /\ s.def = "equ" /\ s.shsect # NoSym
    THEN S[Expanded(Chain(S, s.equ)).sym].type ELSE s.type

Entry(S, n) ==
    [name |-> n, bind |-> S[n].bind, type |-> TypeWritten(S, S[n]), value |-> S[n].value,
     index |-> IF S[n].shsect # NoSym THEN SectionIndex(S[n].shsect) ELSE S[n].index]

(* WriteSymbolTable, after the entry for no symbol and in the order of the     *)
(* indices.                                                                    *)
WriteSymbolTable(S, list) ==
    LET written == SortSeq(SelectSeq(list, LAMBDA n : S[n].built /\ S[n].inTable),
                           LAMBDA m, n : S[m].symindex < S[n].symindex)
    IN [i \in DOMAIN written |-> Entry(S, written[i])]

WriteReloc(S, r) ==
    [sect |-> r.sect, at |-> r.at, type |-> r.type, sym |-> S[r.sym].symindex, k |-> r.k]

WriteFile(t, relocs, list) ==
    [table  |-> WriteSymbolTable(t.S, list),
     nlocal |-> t.nlocal,
     relocs |-> [i \in DOMAIN relocs |-> WriteReloc(t.S, relocs[i])],
     groups |-> [i \in DOMAIN groups |->
                   [info |-> t.S[groups[i].name].symindex,
                    members |-> {SectionIndex(sect) : sect \in groups[i].sects}]]]

CircularEqu(S) ==
    \E n \in Names : S[n].built /\ S[n].def = "equ" /\ ~LeftOut(S[n]) /\ Circular(S, Chain(S, S[n].equ))

Written(S, relocs, list) ==
    WriteFile(AssignSymbolIndices(NumberSections(S), Partitioned(S, list)), relocs, list)

Finished(S, relocs, list) ==
    /\ sym' = S
    /\ IF CircularEqu(S) THEN stage' = "failed" /\ file' = file
       ELSE stage' = "done" /\ file' = Written(S, relocs, list)

(* The symbols that are forced into the table come from the relocations, which *)
(* depend on how the symbols were finalized.                                   *)
Referenced(S, relocs, all_syms, list) ==
    Finished(WithGOT(ForceInTable(ForceTLS(S, relocs), relocs, all_syms)), relocs, list)

Output(all_syms) ==
    /\ stage = "output"
    /\ symbols' = IF GOTMissing THEN Append(WithGroups, GOT) ELSE WithGroups
    /\ \E S \in {FinalizeSymbols(GroupSymbols(sym), WithGroups, all_syms)} :
         \E relocs \in {Relocs(S)} : Referenced(S, relocs, all_syms, symbols')
    /\ UNCHANGED <<scen, rela, count, sects, size, cur, groups, refs, said, values>>

-----------------------------------------------------------------------------
Statements ==
    \/ \E n \in scen.names : Label(n) \/ DefineLcomm(n) \/ DirWeak(n) \/ VisibilityDir(n)
    \/ \E n \in scen.names, v \in {"GLOBAL", "EXTERN", "COMMON", "DLOCAL"} : Declare(n, v)
    \/ \E n \in scen.names, target \in scen.names : DirWeakRef(n, target)
    \/ \E n \in scen.names, target \in scen.names \cup {NoSym}, k \in {0, 2} : Equ(n, [sym |-> target, k |-> k])
    \/ \E sect \in scen.sections, g \in scen.groups \cup {NoSym} : DirGasSection(sect, g)
    \/ \E r \in scen.refs : Refer(r)

Next ==
    \/ Statements
    \/ ExternUndefinedSymbols
    \/ Finalize
    \/ \E all_syms \in BOOLEAN : Output(all_syms)

Spec == Init /\ [][Next]_vars

-----------------------------------------------------------------------------
(* What a linker reads.                                                        *)

Said(what, n) == <<what, n>> \in said
Signature(n)  == \E i \in DOMAIN groups : groups[i].name = n

(* Sources about whose symbols the object format and its directives agree: a   *)
(* symbol said to be local is defined and not declared otherwise, and a symbol *)
(* that only a visibility directive or a group names is defined or used.       *)
Coherent ==
    \A n \in Names :
        /\ Said("DLOCAL", n) => Said("define", n) /\ sym[n].vis = {"DLOCAL"}
        /\ (Said("hidden", n) \/ (Said("GLOBAL", n) /\ Signature(n)))
           => \E what \in {"define", "use", "weak", "EXTERN", "COMMON"} : Said(what, n)

(* What the source means with reference r: a number, a place or a name. *)
Meaning(e) ==
    CASE e.sym = NoSym -> [is |-> "number", of |-> NoSym, k |-> e.k]
      [] e.sym # NoSym /\ Said("define", e.sym)
           /\ ~\E what \in {"GLOBAL", "hidden"} : Said(what, e.sym) ->
             [is |-> "place", of |-> sym[e.sym].sect, k |-> sym[e.sym].off + e.k]
      [] OTHER -> [is |-> "name", of |-> e.sym, k |-> e.k]

(* What a linker makes of an entry of the symbol table and a number.  The      *)
(* relocations about a symbol itself take its name or, if it is local, place.  *)
Denotes(entry, k) ==
    CASE entry.bind # "LOCAL" -> [is |-> "name", of |-> entry.name, k |-> k]
      [] entry.bind = "LOCAL" /\ entry.index = SHN_ABS ->
             [is |-> "number", of |-> NoSym, k |-> entry.value + k]
      [] entry.bind = "LOCAL" /\ entry.index - Len(groups) \in DOMAIN sects ->
             [is |-> "place", of |-> sects[entry.index - Len(groups)], k |-> entry.value + k]
      [] OTHER -> [is |-> "nothing", of |-> NoSym, k |-> k]

(* The number a relocation adds to the symbol: the addend is relative to the   *)
(* field, the source to the next instruction or, for the distance to the       *)
(* global offset table, to the instruction.                                    *)
Bias(r) == CASE r.pc -> -4 [] ~r.pc /\ r.sym = GOT -> 1 [] OTHER -> 0

TypeMeant(r) == IF r.sym = GOT THEN "gotpc" ELSE IF r.wrt # "no" THEN r.wrt ELSE IF r.pc THEN "pc" ELSE "abs"

(* A global symbol of this file that is not declared global may be reached     *)
(* either way.                                                                 *)
EitherWay(e) == e.sym # NoSym /\ Said("define", e.sym) /\ \E w \in {"EXTERN", "COMMON"} : Said(w, e.sym)

Resolved(i, m) ==
    /\ ~IsRelative(values[i])
    /\ \/ m.is = "number" /\ ~refs[i].pc /\ values[i].k = m.k
       \/ m.is = "place" /\ m.of = refs[i].sect /\ refs[i].pc /\ values[i].k = m.k - (refs[i].at + 4)

RelocRead(r, e, m, reloc) ==
    /\ reloc.type = TypeMeant(r)
    /\ reloc.sym \in DOMAIN file.table
    /\ LET entry == file.table[reloc.sym]
           read  == Denotes(entry, reloc.k - Bias(r))
       IN /\ \/ read = m
             \/ EitherWay(e) /\ read = [is |-> "name", of |-> e.sym, k |-> e.k]
          /\ SymRelative(r.wrt) => entry.name = e.sym /\ reloc.k - Bias(r) = e.k
          /\ "MERGE" \in FlagsOf(m.of) /\ m.is = "place" => entry.name = e.sym
          /\ ThreadLocal(r.wrt) /\ (m.is = "place" => "TLS" \in FlagsOf(m.of)) => entry.type = "TLS"

RefRead(i, e) ==
    LET at == {j \in DOMAIN file.relocs : file.relocs[j].sect = refs[i].sect /\ file.relocs[j].at = refs[i].at}
    IN IF at = {} THEN Resolved(i, Meaning(e))
       ELSE \A j \in at : Cardinality(at) = 1 /\ RelocRead(refs[i], e, Meaning(e), file.relocs[j])

(* A linker that reads the relocations and the symbol table finds at every     *)
(* reference what the source says there: the number, the place plus the offset *)
(* or the global name plus the offset, with the right kind of relocation, and  *)
(* nothing else; strings that may be merged and thread-local or GOT references *)
(* name the symbol itself.  Every group names its signature and its sections   *)
(* (FinalizeSymbol, ConvertValueToBytes, AssignSymbolIndices, WriteSymbolTable *)
(* and OutputGroup together).                                                  *)
LinkerReads ==
    stage = "done" /\ Coherent =>
        /\ \A i \in DOMAIN refs : RefRead(i, Expanded(Chain(sym, ExprOf(refs[i]))))
        /\ \A i \in DOMAIN groups :
             /\ file.groups[i].info \in DOMAIN file.table
             /\ file.table[file.groups[i].info].name = groups[i].name
             /\ {sects[m - Len(groups)] : m \in file.groups[i].members} = groups[i].sects

ReachedByRef(n) ==
    \E i \in DOMAIN refs : Expanded(Chain(sym, ExprOf(refs[i]))).sym = n

(* The binding a symbol must have. *)
Binding(n) ==
    IF Said("weak", n) THEN "WEAK"
    ELSE IF \E what \in {"GLOBAL", "hidden", "EXTERN", "COMMON"} : Said(what, n) THEN "GLOBAL"
    ELSE IF Said("define", n) \/ (Signature(n) /\ ~Said("use", n)) THEN "LOCAL"
    ELSE IF Said("use", n) THEN "GLOBAL" ELSE "WEAK"

(* Symbols keep the binding the statements give them in any order: weak if     *)
(* said so; weak, too, if undefined and only reached through .weakref; global  *)
(* if declared or undefined and used directly; local otherwise.  The local     *)
(* entries are exactly those below sh_info, which is what AssignSymbolIndices, *)
(* the partition and the forced symbols have to agree about, and the symbol of *)
(* the global offset table is there if a relocation needs the table.           *)
SymbolsBound ==
    stage = "done" /\ Coherent =>
        /\ \A i \in DOMAIN file.table :
             LET entry == file.table[i]
             IN /\ entry.bind = "LOCAL" <=> i < file.nlocal
                /\ entry.name \in Names => entry.bind = Binding(entry.name)
        /\ \A n \in Names : ReachedByRef(n) /\ ~Said("define", n)
                             => \E i \in DOMAIN file.table : file.table[i].name = n
        /\ (\E i \in DOMAIN refs : NeedsGOT(refs[i].wrt))
           => \E i \in DOMAIN file.table : file.table[i].name = GOT /\ file.table[i].bind = "GLOBAL"
=============================================================================
