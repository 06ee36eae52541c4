---------------------------- MODULE SymbolTable ----------------------------
(***************************************************************************)
(* The symbol table of an Object through one assembly: symbols predefined  *)
(* on the command line (ygas --defsym), the statements of the source file  *)
(* that use, define or declare symbols, the parser's pass over undefined   *)
(* symbols, and the version symbols ELF output creates.                    *)
(*                                                                         *)
(* A source location is the number of the statement; 0 is invalid.  The    *)
(* value of a definition is the location of the statement that made it.    *)
(* A name is a base name and the version suffix ELF may give it.  `hist'   *)
(* is a history variable: which effect every statement had asked for.      *)
(***************************************************************************)
EXTENDS Integers, Sequences

CONSTANTS Base,         \* names a source file may use
          MaxSource,    \* bound: statements and command line options
          MaxSymVer     \* bound: .symver directives

VARIABLES symbols,      \* Object::m_symbols, in creation order
          sym_map,      \* Impl::sym_map, name to position (0: absent)
          symvers,      \* ElfObject::m_symvers
          parser,       \* which parser reads the file
          phase, src, err,
          hist

vars == <<symbols, sym_map, symvers, parser, phase, src, err, hist>>
tableVars == <<symbols, sym_map>>

Suffix == {"", "@", "@@"}
Name == Base \X Suffix
Plain(b) == <<b, "">>

Symbol(n) ==
    [name |-> n, type |-> "UNKNOWN", defined |-> FALSE, used |-> FALSE, vis |-> {},
     def_source |-> 0, decl_source |-> 0, use_source |-> 0, value |-> 0, csize |-> 0]

Defined(s, type) == [s EXCEPT !.type = type, !.defined = TRUE, !.value = src + 1]
Positioned(s) == [s EXCEPT !.def_source = src + 1]

-----------------------------------------------------------------------------
(* Object::FindSymbol and getSymbol *)

Known(n) == sym_map[n] # 0
Lookup(n) == IF Known(n) THEN symbols[sym_map[n]] ELSE Symbol(n)

\* Mutant: a new symbol is entered in the map but not in the list.
MutStore(n, s) ==
    /\ symbols' = IF Known(n) THEN [symbols EXCEPT ![sym_map[n]] = s] ELSE symbols
    /\ sym_map' = [sym_map EXCEPT ![n] = IF @ = 0 THEN Len(symbols) + 1 ELSE @]
\* getSymbol(n), whose record the caller leaves as s.
Store(n, s) ==
    /\ symbols' = IF Known(n) THEN [symbols EXCEPT ![sym_map[n]] = s]
                              ELSE Append(symbols, s)
    /\ sym_map' = [sym_map EXCEPT ![n] = IF @ = 0 THEN Len(symbols) + 1 ELSE @]

\* Symbol::okToDeclare for one visibility flag.
\* Mutant: COMMON is not looked at.
MutOkToDeclare(s, v) ==
    \/ v = "GLOBAL"
    \/ ~s.defined /\ ("EXTERN" \in s.vis => v = "EXTERN")
OkToDeclare(s, v) ==
    \/ v = "GLOBAL"
    \/ /\ ~s.defined
       /\ "COMMON" \in s.vis => v = "COMMON"
       /\ ("EXTERN" \in s.vis /\ "COMMON" \notin s.vis) => v = "EXTERN"

\* Symbol::isUndefined
IsUndefined(s) == s.used /\ ~s.defined /\ s.vis \cap {"EXTERN", "COMMON"} = {}

-----------------------------------------------------------------------------
(* Statements *)

Init ==
    /\ symbols = << >> /\ sym_map = [n \in Name |-> 0] /\ symvers = << >>
    /\ parser \in {"gas", "nasm"}
    /\ phase = IF parser = "gas" THEN "cmdline" ELSE "parse"
    /\ src = 0 /\ err = FALSE /\ hist = << >>

Statement(op, b) ==
    /\ src < MaxSource
    /\ src' = src + 1
    /\ hist' = Append(hist, [op |-> op, base |-> b])
    /\ UNCHANGED <<symvers, parser>>

\* ygas --defsym: DefineEqu without a check, so a second one fails its assertion.
Predefine(b) ==
    /\ phase = "cmdline"
    /\ Statement("define", b)
    /\ LET s == Lookup(Plain(b)) IN
       IF s.defined THEN phase' = "abort" /\ UNCHANGED tableVars
       ELSE Store(Plain(b), Defined(s, "EQU")) /\ UNCHANGED phase
    /\ UNCHANGED err

StartParse ==
    /\ phase = "cmdline"
    /\ phase' = "parse"
    /\ UNCHANGED <<tableVars, symvers, parser, src, err, hist>>

\* A symbol in an expression.
Use(b) ==
    /\ phase = "parse"
    /\ Statement("use", b)
    /\ LET s == Lookup(Plain(b)) IN
       Store(Plain(b), [s EXCEPT !.used = TRUE,
                                 !.use_source = IF @ = 0 THEN src + 1 ELSE @])
    /\ UNCHANGED <<phase, err>>

\* CheckedDefineLabel and CheckedDefineEqu, by DefineCheck.
\* Mutant: redefinition is only noticed for symbols that have a position.
MutCheckedDefine(b, type) ==
    LET s == Lookup(Plain(b)) IN
    /\ err' = (err \/ (s.defined /\ s.def_source # 0))
    /\ Store(Plain(b), IF s.defined /\ s.def_source # 0 THEN s ELSE Positioned(Defined(s, type)))
CheckedDefine(b, type) ==
    LET s == Lookup(Plain(b)) IN
    /\ err' = (err \/ s.defined)
    /\ Store(Plain(b), IF s.defined THEN s ELSE Positioned(Defined(s, type)))

Label(b) ==
    /\ phase = "parse"
    /\ Statement("define", b)
    /\ CheckedDefine(b, "LABEL")
    /\ UNCHANGED phase

Equ(b) ==
    /\ phase = "parse"
    /\ Statement("define", b)
    /\ CheckedDefine(b, "EQU")
    /\ UNCHANGED phase

CheckedDeclare(b, v, size) ==
    LET s  == Lookup(Plain(b))
        ok == OkToDeclare(s, v)
        d  == IF ok THEN [s EXCEPT !.decl_source = src + 1, !.vis = @ \cup {v}] ELSE s
    IN  /\ err' = (err \/ ~ok)
        /\ Store(Plain(b), IF size = 0 THEN d ELSE [d EXCEPT !.csize = size])

Extern(b) ==
    /\ phase = "parse"
    /\ Statement("EXTERN", b)
    /\ CheckedDeclare(b, "EXTERN", 0)
    /\ UNCHANGED phase

Global(b) ==
    /\ phase = "parse"
    /\ Statement("GLOBAL", b)
    /\ CheckedDeclare(b, "GLOBAL", 0)
    /\ UNCHANGED phase

Local(b) ==
    /\ phase = "parse" /\ parser = "gas"
    /\ Statement("DLOCAL", b)
    /\ CheckedDeclare(b, "DLOCAL", 0)
    /\ UNCHANGED phase

\* .comm and `common': the size is attached even when the declaration fails.
\* A symbol that is declared local and nothing else gets storage of its own.
Comm(b) ==
    /\ phase = "parse" /\ Lookup(Plain(b)).vis # {"DLOCAL"}
    /\ Statement("COMMON", b)
    /\ CheckedDeclare(b, "COMMON", src + 1)
    /\ UNCHANGED phase

Lcomm(b) ==
    /\ phase = "parse" /\ parser = "gas"
    /\ Statement("define", b)
    /\ CheckedDefine(b, "LABEL")
    /\ UNCHANGED phase

SymVer(b, c, mode) ==
    /\ phase = "parse" /\ parser = "gas"
    /\ Len(symvers) < MaxSymVer
    /\ symvers' = Append(symvers, [real |-> b, name |-> c, mode |-> mode])
    /\ UNCHANGED <<tableVars, parser, phase, src, err, hist>>

-----------------------------------------------------------------------------
(* End of parsing and output *)

\* Object::ExternUndefinedSymbols (gas) or FinalizeSymbols (nasm); with an
\* error Assembler::Assemble stops here.
Completed(s) == IF IsUndefined(s) THEN [s EXCEPT !.vis = @ \cup {"EXTERN"}] ELSE s

EndParse ==
    /\ phase = "parse"
    /\ IF parser = "gas"
       THEN /\ symbols' = [x \in 1..Len(symbols) |-> Completed(symbols[x])]
            /\ UNCHANGED err
       ELSE /\ err' = (err \/ \E x \in 1..Len(symbols) : IsUndefined(symbols[x]))
            /\ UNCHANGED symbols
    /\ phase' = IF err' THEN "rejected" ELSE "output"
    /\ UNCHANGED <<sym_map, symvers, parser, src, hist>>

\* Object::RenameSymbol: an entry under the new name is not replaced.
\* Mutant: the old name is not removed.
MutRenamed(x, n) ==
    [sym_map EXCEPT ![n] = IF @ = 0 THEN x ELSE @]
Renamed(x, n) ==
    [sym_map EXCEPT ![symbols[x].name] = 0, ![n] = IF @ = 0 THEN x ELSE @]

Alias(s, n) == [Symbol(n) EXCEPT !.vis = s.vis, !.type = "EQU", !.defined = TRUE,
                                 !.value = s.value]

\* The next record of m_symvers in ElfOutput.
VersionAbsent ==
    /\ phase = "output" /\ symvers # << >> /\ ~Known(Plain(Head(symvers).real))
    /\ symvers' = Tail(symvers)
    /\ UNCHANGED <<tableVars, parser, phase, src, err, hist>>

\* name@version: renamed; a defined symbol leaves an alias under its old name.
VersionStandard ==
    /\ phase = "output" /\ symvers # << >> /\ Known(Plain(Head(symvers).real))
    /\ Head(symvers).mode = "Standard"
    /\ LET old == Plain(Head(symvers).real)
           new == <<Head(symvers).name, "@">>
           x   == sym_map[old]
           ren == [symbols EXCEPT ![x].name = new]
       IN  IF symbols[x].defined
           THEN /\ symbols' = Append(ren, Alias(symbols[x], old))
                /\ sym_map' = [Renamed(x, new) EXCEPT ![old] = Len(symbols) + 1]
           ELSE symbols' = ren /\ sym_map' = Renamed(x, new)
    /\ symvers' = Tail(symvers)
    /\ UNCHANGED <<parser, phase, src, err, hist>>

\* name@@version: an alias of its own, which must not exist yet.
VersionDefault ==
    /\ phase = "output" /\ symvers # << >> /\ Known(Plain(Head(symvers).real))
    /\ Head(symvers).mode = "Default"
    /\ LET new == <<Head(symvers).name, "@@">> IN
       IF Lookup(new).defined THEN phase' = "abort" /\ UNCHANGED tableVars
       ELSE /\ Store(new, Alias(Lookup(Plain(Head(symvers).real)), new))
            /\ UNCHANGED phase
    /\ symvers' = Tail(symvers)
    /\ UNCHANGED <<parser, src, err, hist>>

VersionAuto ==
    /\ phase = "output" /\ symvers # << >> /\ Known(Plain(Head(symvers).real))
    /\ Head(symvers).mode = "Auto"
    /\ LET x   == sym_map[Plain(Head(symvers).real)]
           new == <<Head(symvers).name, IF symbols[x].defined THEN "@@" ELSE "@">>
       IN  symbols' = [symbols EXCEPT ![x].name = new] /\ sym_map' = Renamed(x, new)
    /\ symvers' = Tail(symvers)
    /\ UNCHANGED <<parser, phase, src, err, hist>>

Finish ==
    /\ phase = "output" /\ symvers = << >>
    /\ phase' = "done"
    /\ UNCHANGED <<tableVars, symvers, parser, src, err, hist>>

Next ==
    \/ \E b \in Base : \/ Predefine(b) \/ Use(b) \/ Label(b) \/ Equ(b) \/ Extern(b)
                       \/ Global(b) \/ Local(b) \/ Comm(b) \/ Lcomm(b)
    \/ \E b, c \in Base, m \in {"Standard", "Default", "Auto"} : SymVer(b, c, m)
    \/ StartParse \/ EndParse
    \/ VersionAbsent \/ VersionStandard \/ VersionDefault \/ VersionAuto
    \/ Finish

Spec == Init /\ [][Next]_vars

-----------------------------------------------------------------------------
(* Properties *)

Flags == {"GLOBAL", "COMMON", "EXTERN", "DLOCAL"}
SymbolRecord ==
    [name : Name, type : {"UNKNOWN", "EQU", "LABEL"}, defined : BOOLEAN,
     used : BOOLEAN, vis : SUBSET Flags, def_source : Nat, decl_source : Nat,
     use_source : Nat, value : Nat, csize : Nat]
SymVersion == [real : Base, name : Base, mode : {"Standard", "Default", "Auto"}]

\* Type invariant: every map entry is a position of the symbol list.
TypeOK ==
    /\ symbols \in Seq(SymbolRecord)
    /\ sym_map \in [Name -> 0..Len(symbols)]
    /\ symvers \in Seq(SymVersion)
    /\ parser \in {"gas", "nasm"}
    /\ phase \in {"cmdline", "parse", "output", "done", "rejected", "abort"}
    /\ src \in Nat /\ err \in BOOLEAN

\* "#EXTERN and #COMMON are mutually exclusive": in no order of declarations,
\* definitions, uses and the final pass does a symbol become both.
ExternCommonExclusive ==
    \A x \in 1..Len(symbols) : ~({"EXTERN", "COMMON"} \subseteq symbols[x].vis)

\* A name finds a symbol of that name, also while ELF output renames symbols
\* under the table; until then every symbol can be found, so no two of them
\* share a name.
MapConsistent ==
    /\ \A n \in Name : Known(n) => symbols[sym_map[n]].name = n
    /\ phase \in {"cmdline", "parse"} =>
          \A x \in 1..Len(symbols) : sym_map[symbols[x].name] = x

\* A definition is final: whatever follows it, output's renaming included,
\* keeps its type, value and position, and no declaration is ever withdrawn.
DefinitionIsFinal ==
    [][/\ Len(symbols') >= Len(symbols)
       /\ \A x \in 1..Len(symbols) :
            /\ symbols[x].vis \subseteq symbols'[x].vis
            /\ symbols[x].defined =>
                 /\ symbols'[x].defined
                 /\ symbols'[x].type = symbols[x].type
                 /\ symbols'[x].value = symbols[x].value
                 /\ symbols'[x].def_source = symbols[x].def_source]_vars

\* Which sequences of statements are accepted, said without the table: a name is
\* defined once, declared extern, common or local only before that, and these
\* three are compatible only with themselves, except that local may come first.
Conflict(first, second) ==
    \/ first = "define" /\ second \in {"define", "EXTERN", "COMMON", "DLOCAL"}
    \/ first = "EXTERN" /\ second \in {"COMMON", "DLOCAL"}
    \/ first = "COMMON" /\ second \in {"EXTERN", "DLOCAL"}

=============================================================================
