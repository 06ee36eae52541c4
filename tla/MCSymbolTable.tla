--------------------------- MODULE MCSymbolTable ---------------------------
(* The symbol table, and the symbols and relocations of an ELF object.  A     *)
(* behaviour exercises one of them, its part, and leaves the other in its     *)
(* initial state.                                                             *)
EXTENDS SymbolTable, TLC

VARIABLES part,
          scen, rela, stage, count, e_symbols, e_sym, sects, size, cur,     \* ElfObject
          groups, refs, values, said, file

elfVars == <<scen, rela, stage, count, e_symbols, e_sym, sects, size, cur, groups, refs,
             values, said, file>>

Symmetry == Permutations(Base)

-----------------------------------------------------------------------------
(* Two base names suffice for the symbol table: statements touch one name,    *)
(* renaming two.  A behaviour has many statements and no .symver directive,   *)
(* the bounds of the configuration, or fewer statements and up to two of them *)
(* (part "renaming").                                                         *)

Renaming == INSTANCE SymbolTable WITH MaxSource <- 3, MaxSymVer <- 2

-----------------------------------------------------------------------------
(* ElfObject: sources of four or five statements about how symbols are bound, *)
(* about sections, about thread-local and position-independent references,    *)
(* and about groups, one of them named like a symbol.                         *)

Dot == ".Lx"
Sig == "sig"

References(names, pcs, wrts, k) ==
    {[sym |-> n, k |-> k, pc |-> pc, wrt |-> w] : n \in names, pc \in pcs, w \in wrts}

Sources(max, kinds, names, sections, grps, rs) ==
    [max |-> max, kinds |-> kinds, names |-> names, sections |-> sections, groups |-> grps, refs |-> rs]

ElfSources == {
    Sources(4, {"label", "GLOBAL", "EXTERN", "COMMON", "DLOCAL", "weak", "hidden", "weakref", "refer"},
            Base, {}, {}, References(Base, {FALSE}, {"no"}, 0)),
    Sources(5, {"GLOBAL", "weak", "weakref", "equ", "refer"},
            Base, {}, {}, References(Base, {FALSE}, {"no"}, 0)),
    Sources(4, {"label", "GLOBAL", "section", "equ", "lcomm", "refer"},
            Base, {".data", ".str"}, {}, References(Base, BOOLEAN, {"no"}, 3)),
    Sources(4, {"label", "section", "refer"},
            {Dot}, {".data", ".str"}, {}, References({Dot}, BOOLEAN, {"no"}, 0)),
    Sources(4, {"label", "GLOBAL", "weakref", "section", "refer"}, Base, {".tdata"}, {},
            References(Base, {FALSE}, {"got", "gotoff", "tpoff"}, 0)
                \cup References(Base, {TRUE}, {"plt"}, 0)
                \cup References({"_GLOBAL_OFFSET_TABLE_"}, BOOLEAN, {"no"}, 0)),
    Sources(5, {"label", "GLOBAL", "section", "refer"},
            {Sig}, {".data", ".f"}, {"g", Sig}, References({Sig}, {FALSE}, {"no"}, 0)) }

Elf == INSTANCE ElfObject WITH
           DotL <- {Dot}, Scenarios <- ElfSources, symbols <- e_symbols, sym <- e_sym

-----------------------------------------------------------------------------
\* The state in which the ELF part rests while the symbol table is exercised.
ElfIdle ==
    /\ Elf!Init
    /\ ~rela /\ scen = CHOOSE s \in ElfSources : TRUE

PartsInit ==
    /\ Init
    /\ \/ part \in {"table", "renaming"} /\ ElfIdle
       \/ part = "elf" /\ parser = "gas" /\ Elf!Init

PartsNext ==
    /\ UNCHANGED part
    /\ \/ part = "table" /\ Next /\ UNCHANGED elfVars
       \/ part = "renaming" /\ Renaming!Next /\ UNCHANGED elfVars
       \/ part = "elf" /\ Elf!Next /\ UNCHANGED vars

PartsSpec == PartsInit /\ [][PartsNext]_<<vars, part, elfVars>>

-----------------------------------------------------------------------------
\* The relocations, the symbol table and the groups of an ELF file say to a
\* linker what the source says (ElfObject::Output).
LinkerReads == Elf!LinkerReads

\* The entries of the symbol table of an ELF file have the bindings the source
\* asks for, and the local ones come first (AssignSymbolIndices).
SymbolsBound == Elf!SymbolsBound

=============================================================================
