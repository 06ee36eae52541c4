------------------------- MODULE SymbolTableProofs -------------------------
(***************************************************************************)
(* What holds of the symbol table for every set of names and every number  *)
(* of statements.                                                          *)
(***************************************************************************)
EXTENDS SymbolTable, TLAPS

\* A fresh symbol is well formed.
LEMMA SymbolType == ASSUME NEW n \in Name PROVE Symbol(n) \in SymbolRecord
BY DEF Symbol, SymbolRecord, Flags

\* A name of the source file is a name of the table.
LEMMA PlainType == ASSUME NEW b \in Base PROVE Plain(b) \in Name
BY DEF Plain, Name, Suffix

\* Looking a name up gives a well-formed symbol, fresh or from the table.
LEMMA LookupType ==
    ASSUME TypeOK, NEW n \in Name
    PROVE  Lookup(n) \in SymbolRecord
<1>1. CASE Known(n)
  <2>1. sym_map[n] \in 1..Len(symbols)
    BY <1>1 DEF TypeOK, Known
  <2> QED BY <1>1, <2>1 DEF TypeOK, Lookup
<1>2. CASE ~Known(n)
  BY <1>2, SymbolType DEF Lookup
<1> QED BY <1>1, <1>2

\* getSymbol keeps the table well formed, whatever its caller does to the symbol.
LEMMA StoreType ==
    ASSUME TypeOK, NEW n \in Name, NEW s \in SymbolRecord, Store(n, s)
    PROVE  /\ symbols' \in Seq(SymbolRecord)
           /\ sym_map' \in [Name -> 0..Len(symbols')]
<1>1. CASE Known(n)
  BY <1>1 DEF TypeOK, Store, Known
<1>2. CASE ~Known(n)
  <2>1. symbols' = Append(symbols, s) /\ sym_map' = [sym_map EXCEPT ![n] = Len(symbols) + 1]
    BY <1>2 DEF TypeOK, Store, Known
  <2>2. symbols' \in Seq(SymbolRecord) /\ Len(symbols') = Len(symbols) + 1
    BY <2>1 DEF TypeOK
  <2> QED BY <2>1, <2>2 DEF TypeOK
<1> QED BY <1>1, <1>2

\* The updates of a symbol keep it well formed.
LEMMA UpdateType ==
    ASSUME src \in Nat, NEW s \in SymbolRecord
    PROVE  /\ \A t \in {"EQU", "LABEL"} : Defined(s, t) \in SymbolRecord
           /\ Positioned(s) \in SymbolRecord
           /\ \A v \in Flags :
                [s EXCEPT !.decl_source = src + 1, !.vis = @ \cup {v}] \in SymbolRecord
           /\ \A n \in Nat : [s EXCEPT !.csize = n] \in SymbolRecord
<1>1. src + 1 \in Nat
  OBVIOUS
<1>2. ASSUME NEW t \in {"EQU", "LABEL"} PROVE Defined(s, t) \in SymbolRecord
  BY <1>1 DEF Defined, SymbolRecord
<1>3. Positioned(s) \in SymbolRecord
  BY <1>1 DEF Positioned, SymbolRecord
<1>4. ASSUME NEW v \in Flags
      PROVE  [s EXCEPT !.decl_source = src + 1, !.vis = @ \cup {v}] \in SymbolRecord
  BY <1>1 DEF SymbolRecord
<1>5. ASSUME NEW n \in Nat PROVE [s EXCEPT !.csize = n] \in SymbolRecord
  BY DEF SymbolRecord
<1> QED BY <1>2, <1>3, <1>4, <1>5

\* CheckedDefineLabel and CheckedDefineEqu keep the table well formed.
LEMMA CheckedDefineType ==
    ASSUME TypeOK, NEW b \in Base, NEW t \in {"EQU", "LABEL"}, CheckedDefine(b, t)
    PROVE  /\ symbols' \in Seq(SymbolRecord)
           /\ sym_map' \in [Name -> 0..Len(symbols')]
           /\ err' \in BOOLEAN
<1> DEFINE s == Lookup(Plain(b))
<1>1. Plain(b) \in Name /\ s \in SymbolRecord
  BY PlainType, LookupType
<1>2. Positioned(Defined(s, t)) \in SymbolRecord
  BY <1>1, UpdateType DEF TypeOK
<1>3. err' \in BOOLEAN
  BY DEF CheckedDefine
<1>4. Store(Plain(b), IF s.defined THEN s ELSE Positioned(Defined(s, t)))
  BY DEF CheckedDefine
<1> QED BY <1>1, <1>2, <1>3, <1>4, StoreType

\* CheckedDeclare, with or without a common size, keeps the table well formed.
LEMMA CheckedDeclareType ==
    ASSUME TypeOK, NEW b \in Base, NEW v \in Flags, NEW size \in Nat,
           CheckedDeclare(b, v, size)
    PROVE  /\ symbols' \in Seq(SymbolRecord)
           /\ sym_map' \in [Name -> 0..Len(symbols')]
           /\ err' \in BOOLEAN
<1> DEFINE s  == Lookup(Plain(b))
           e  == [s EXCEPT !.decl_source = src + 1, !.vis = @ \cup {v}]
           d  == IF OkToDeclare(s, v) THEN e ELSE s
<1>1. Plain(b) \in Name /\ s \in SymbolRecord
  BY PlainType, LookupType
<1>2. e \in SymbolRecord
  BY <1>1, UpdateType DEF TypeOK
<1>3. d \in SymbolRecord
  BY <1>1, <1>2
<1>4. [d EXCEPT !.csize = size] \in SymbolRecord
  BY <1>3, UpdateType DEF TypeOK
<1>5. err' \in BOOLEAN
  BY DEF CheckedDeclare
<1>6. Store(Plain(b), IF size = 0 THEN d ELSE [d EXCEPT !.csize = size])
  BY DEF CheckedDeclare
<1> HIDE DEF d
<1> QED BY <1>1, <1>3, <1>4, <1>5, <1>6, StoreType

\* Only a statement counts up the source location.
LEMMA StatementType ==
    ASSUME TypeOK, NEW op, NEW b, Statement(op, b)
    PROVE  src' \in Nat /\ symvers' \in Seq(SymVersion) /\ parser' \in {"gas", "nasm"}
BY DEF TypeOK, Statement

\* A renamed symbol and a version alias are well formed.
LEMMA VersionType ==
    ASSUME NEW s \in SymbolRecord, NEW n \in Name
    PROVE  [s EXCEPT !.name = n] \in SymbolRecord /\ Alias(s, n) \in SymbolRecord
<1>1. [s EXCEPT !.name = n] \in SymbolRecord
  BY DEF SymbolRecord
<1>2. Alias(s, n) \in SymbolRecord
  BY DEF Alias, Symbol, SymbolRecord
<1> QED BY <1>1, <1>2

\* Renaming keeps the map within the symbol list.
LEMMA RenamedType ==
    ASSUME TypeOK, NEW x \in 1..Len(symbols), NEW n \in Name
    PROVE  Renamed(x, n) \in [Name -> 0..Len(symbols)]
BY DEF TypeOK, Renamed

\* Every action keeps the types.
LEMMA TypeStep == TypeOK /\ [Next]_vars => TypeOK'
<1> SUFFICES ASSUME TypeOK, [Next]_vars PROVE TypeOK'
  OBVIOUS
<1>1. ASSUME NEW b \in Base, Predefine(b) PROVE TypeOK'
  <2> DEFINE s == Lookup(Plain(b))
  <2>1. Plain(b) \in Name /\ s \in SymbolRecord /\ Defined(s, "EQU") \in SymbolRecord
    BY PlainType, LookupType, UpdateType DEF TypeOK
  <2>2. src' \in Nat /\ symvers' \in Seq(SymVersion) /\ parser' \in {"gas", "nasm"}
    BY <1>1, StatementType DEF Predefine
  <2>3. CASE s.defined
    BY <1>1, <2>2, <2>3 DEF Predefine, TypeOK, tableVars
  <2>4. CASE ~s.defined
    <3>1. Store(Plain(b), Defined(s, "EQU")) /\ UNCHANGED <<phase, err>>
      BY <1>1, <2>4 DEF Predefine
    <3> QED BY <2>1, <2>2, <3>1, StoreType DEF TypeOK
  <2> QED BY <2>3, <2>4
<1>2. ASSUME NEW b \in Base, Use(b) PROVE TypeOK'
  <2> DEFINE s == Lookup(Plain(b))
             u == [s EXCEPT !.used = TRUE, !.use_source = IF @ = 0 THEN src + 1 ELSE @]
  <2>1. Plain(b) \in Name /\ s \in SymbolRecord
    BY PlainType, LookupType
  <2>2. src \in Nat
    BY DEF TypeOK
  <2>3. u \in SymbolRecord
    <3>1. (IF s.use_source = 0 THEN src + 1 ELSE s.use_source) \in Nat
      BY <2>1, <2>2 DEF SymbolRecord
    <3> HIDE DEF s
    <3> QED BY <2>1, <3>1 DEF SymbolRecord
  <2>4. Store(Plain(b), u) /\ UNCHANGED <<phase, err>> /\ Statement("use", b)
    BY <1>2 DEF Use
  <2> HIDE DEF u
  <2> QED BY <2>1, <2>3, <2>4, StoreType, StatementType DEF TypeOK
<1>3. ASSUME NEW b \in Base, Label(b) \/ Equ(b) \/ Lcomm(b) PROVE TypeOK'
  <2>1. \E t \in {"EQU", "LABEL"} : CheckedDefine(b, t)
    BY <1>3 DEF Label, Equ, Lcomm
  <2>2. Statement("define", b) /\ UNCHANGED phase
    BY <1>3 DEF Label, Equ, Lcomm
  <2> QED BY <2>1, <2>2, CheckedDefineType, StatementType DEF TypeOK
<1>4. ASSUME NEW b \in Base, Extern(b) \/ Global(b) \/ Local(b) \/ Comm(b) PROVE TypeOK'
  <2>1. \E v \in Flags, size \in Nat : CheckedDeclare(b, v, size)
    <3>1. src + 1 \in Nat
      BY DEF TypeOK
    <3> QED BY <1>4, <3>1 DEF Extern, Global, Local, Comm, Flags
  <2>2. (\E op : Statement(op, b)) /\ UNCHANGED phase
    BY <1>4 DEF Extern, Global, Local, Comm
  <2> QED BY <2>1, <2>2, CheckedDeclareType, StatementType DEF TypeOK
<1>5. ASSUME NEW b \in Base, NEW c \in Base, NEW m \in {"Standard", "Default", "Auto"},
             SymVer(b, c, m)
      PROVE  TypeOK'
  <2>1. [real |-> b, name |-> c, mode |-> m] \in SymVersion
    BY DEF SymVersion
  <2> QED BY <1>5, <2>1 DEF SymVer, TypeOK, tableVars
<1>6. CASE StartParse \/ VersionAbsent \/ Finish
  <2>1. UNCHANGED <<symbols, sym_map, parser, src, err>>
    BY <1>6 DEF StartParse, VersionAbsent, Finish, tableVars
  <2>2. symvers' \in Seq(SymVersion)
    <3>1. CASE VersionAbsent
      <4>1. symvers \in Seq(SymVersion) /\ symvers # << >> /\ symvers' = Tail(symvers)
        BY <3>1 DEF VersionAbsent, TypeOK
      <4> QED BY <4>1
    <3>2. CASE StartParse \/ Finish
      BY <3>2 DEF StartParse, Finish, TypeOK
    <3> QED BY <1>6, <3>1, <3>2
  <2>3. phase' \in {phase, "parse", "done"}
    BY <1>6 DEF StartParse, VersionAbsent, Finish
  <2> QED BY <2>1, <2>2, <2>3 DEF TypeOK
<1>7. CASE EndParse
  <2>1. \A x \in 1..Len(symbols) : Completed(symbols[x]) \in SymbolRecord
    <3> TAKE x \in 1..Len(symbols)
    <3>1. symbols[x] \in SymbolRecord
      BY DEF TypeOK
    <3> QED BY <3>1 DEF Completed, SymbolRecord, Flags
  <2>2. symbols' \in Seq(SymbolRecord) /\ Len(symbols') = Len(symbols)
    <3>1. CASE symbols' = [x \in 1..Len(symbols) |-> Completed(symbols[x])]
      BY <2>1, <3>1 DEF TypeOK
    <3>2. CASE symbols' = symbols
      BY <3>2 DEF TypeOK
    <3> QED BY <1>7, <3>1, <3>2 DEF EndParse
  <2>3. err' \in BOOLEAN
    BY <1>7 DEF EndParse, TypeOK
  <2> QED BY <1>7, <2>2, <2>3 DEF EndParse, TypeOK
<1>8. CASE VersionStandard
  <2> DEFINE old == Plain(Head(symvers).real)
             new == <<Head(symvers).name, "@">>
             x   == sym_map[old]
             ren == [symbols EXCEPT ![x].name = new]
  <2>1. Head(symvers) \in SymVersion /\ Tail(symvers) \in Seq(SymVersion)
    BY <1>8 DEF VersionStandard, TypeOK
  <2>2. old \in Name /\ new \in Name
    BY <2>1 DEF SymVersion, Plain, Name, Suffix
  <2>3. x \in 1..Len(symbols)
    BY <1>8, <2>2 DEF VersionStandard, Known, TypeOK
  <2>4. symbols[x] \in SymbolRecord
    BY <2>3 DEF TypeOK
  <2> HIDE DEF old, new, x
  <2>5. ren \in Seq(SymbolRecord) /\ Len(ren) = Len(symbols)
    <3>1. [symbols[x] EXCEPT !.name = new] \in SymbolRecord
      BY <2>2, <2>4, VersionType
    <3> QED BY <2>3, <3>1 DEF TypeOK
  <2>6. Alias(symbols[x], old) \in SymbolRecord
    BY <2>2, <2>4, VersionType
  <2>7. Renamed(x, new) \in [Name -> 0..Len(symbols)]
    BY <2>2, <2>3, RenamedType
  <2> HIDE DEF ren
  <2>8. symbols' \in Seq(SymbolRecord) /\ sym_map' \in [Name -> 0..Len(symbols')]
    <3>1. CASE symbols[x].defined
      <4>1. /\ symbols' = Append(ren, Alias(symbols[x], old))
            /\ sym_map' = [Renamed(x, new) EXCEPT ![old] = Len(symbols) + 1]
        BY <1>8, <3>1 DEF VersionStandard, ren, x, old, new
      <4>2. symbols' \in Seq(SymbolRecord) /\ Len(symbols') = Len(symbols) + 1
        BY <2>5, <2>6, <4>1
      <4>3. Len(symbols) \in Nat
        BY DEF TypeOK
      <4> QED BY <2>2, <2>7, <4>1, <4>2, <4>3
    <3>2. CASE ~symbols[x].defined
      <4>1. symbols' = ren /\ sym_map' = Renamed(x, new)
        BY <1>8, <3>2 DEF VersionStandard, ren, x, old, new
      <4> QED BY <2>5, <2>7, <4>1
    <3> QED BY <3>1, <3>2
  <2> QED BY <1>8, <2>1, <2>8 DEF VersionStandard, TypeOK
<1>9. CASE VersionDefault
  <2> DEFINE old == Plain(Head(symvers).real)
             new == <<Head(symvers).name, "@@">>
  <2>1. Head(symvers) \in SymVersion /\ Tail(symvers) \in Seq(SymVersion)
    BY <1>9 DEF VersionDefault, TypeOK
  <2>2. old \in Name /\ new \in Name
    BY <2>1 DEF SymVersion, Plain, Name, Suffix
  <2>3. Alias(Lookup(old), new) \in SymbolRecord
    BY <2>2, LookupType, VersionType
  <2> HIDE DEF old, new
  <2>4. \/ phase' = "abort" /\ UNCHANGED <<symbols, sym_map>>
        \/ Store(new, Alias(Lookup(old), new)) /\ UNCHANGED phase
    BY <1>9 DEF VersionDefault, tableVars, old, new
  <2>5. symbols' \in Seq(SymbolRecord) /\ sym_map' \in [Name -> 0..Len(symbols')]
    BY <2>2, <2>3, <2>4, StoreType DEF TypeOK
  <2> QED BY <1>9, <2>1, <2>4, <2>5 DEF VersionDefault, TypeOK
<1>10. CASE VersionAuto
  <2> DEFINE x   == sym_map[Plain(Head(symvers).real)]
             new == <<Head(symvers).name, IF symbols[x].defined THEN "@@" ELSE "@">>
  <2>1. Head(symvers) \in SymVersion /\ Tail(symvers) \in Seq(SymVersion)
    BY <1>10 DEF VersionAuto, TypeOK
  <2>2. Plain(Head(symvers).real) \in Name /\ new \in Name
    BY <2>1 DEF SymVersion, Plain, Name, Suffix
  <2>3. x \in 1..Len(symbols)
    BY <1>10, <2>2 DEF VersionAuto, Known, TypeOK
  <2>4. symbols' = [symbols EXCEPT ![x].name = new] /\ sym_map' = Renamed(x, new)
    BY <1>10 DEF VersionAuto
  <2> HIDE DEF x, new
  <2>5. [symbols[x] EXCEPT !.name = new] \in SymbolRecord
    BY <2>2, <2>3, VersionType DEF TypeOK
  <2>6. symbols' \in Seq(SymbolRecord) /\ Len(symbols') = Len(symbols)
    BY <2>3, <2>4, <2>5 DEF TypeOK
  <2>7. sym_map' \in [Name -> 0..Len(symbols')]
    BY <2>2, <2>3, <2>4, <2>6, RenamedType
  <2> QED BY <1>10, <2>1, <2>6, <2>7 DEF VersionAuto, TypeOK
<1>11. CASE UNCHANGED vars
  BY <1>11 DEF vars, TypeOK
<1> QED
  BY <1>1, <1>2, <1>3, <1>4, <1>5, <1>6, <1>7, <1>8, <1>9, <1>10, <1>11 DEF Next

\* The table is well formed in every reachable state.
THEOREM TypeCorrect == Spec => []TypeOK
<1>1. Init => TypeOK
  <2> SUFFICES ASSUME Init PROVE TypeOK
    OBVIOUS
  <2>1. symbols \in Seq(SymbolRecord) /\ symvers \in Seq(SymVersion) /\ Len(symbols) = 0
    BY DEF Init
  <2>2. sym_map \in [Name -> 0..Len(symbols)]
    BY <2>1 DEF Init
  <2>3. /\ parser \in {"gas", "nasm"} /\ phase \in {"cmdline", "parse"}
        /\ src \in Nat /\ err \in BOOLEAN
    BY DEF Init
  <2> QED BY <2>1, <2>2, <2>3 DEF TypeOK
<1> QED BY <1>1, TypeStep, PTL DEF Spec

-----------------------------------------------------------------------------
(* EXTERN and COMMON exclude each other *)

\* No symbol is both extern and common.
Exclusive(s) == ~({"EXTERN", "COMMON"} \subseteq s.vis)

\* Looking up keeps this: a fresh symbol has no visibility.
LEMMA LookupExclusive ==
    ASSUME TypeOK, ExternCommonExclusive, NEW n \in Name
    PROVE  Exclusive(Lookup(n))
<1>1. CASE Known(n)
  <2>1. sym_map[n] \in 1..Len(symbols)
    BY <1>1 DEF TypeOK, Known
  <2> QED BY <1>1, <2>1 DEF Lookup, ExternCommonExclusive, Exclusive
<1>2. CASE ~Known(n)
  BY <1>2 DEF Lookup, Symbol, Exclusive
<1> QED BY <1>1, <1>2

\* Storing a symbol that is not both leaves none that is.
LEMMA StoreExclusive ==
    ASSUME TypeOK, ExternCommonExclusive, NEW n \in Name, NEW s \in SymbolRecord,
           Exclusive(s), Store(n, s)
    PROVE  ExternCommonExclusive'
<1>1. CASE Known(n)
  <2>1. sym_map[n] \in 1..Len(symbols) /\ symbols' = [symbols EXCEPT ![sym_map[n]] = s]
    BY <1>1 DEF TypeOK, Known, Store
  <2>2. symbols \in Seq(SymbolRecord)
    BY DEF TypeOK
  <2> QED BY <2>1, <2>2 DEF ExternCommonExclusive, Exclusive
<1>2. CASE ~Known(n)
  <2>1. symbols \in Seq(SymbolRecord) /\ symbols' = Append(symbols, s)
    BY <1>2 DEF TypeOK, Store
  <2>2. /\ Len(symbols') = Len(symbols) + 1
        /\ \A x \in 1..Len(symbols) : symbols'[x] = symbols[x]
        /\ symbols'[Len(symbols) + 1] = s
    BY <2>1
  <2> QED BY <2>1, <2>2 DEF ExternCommonExclusive, Exclusive
<1> QED BY <1>1, <1>2

\* okToDeclare keeps a symbol from becoming both.
LEMMA DeclareExclusive ==
    ASSUME NEW s \in SymbolRecord, Exclusive(s), NEW v \in Flags, OkToDeclare(s, v)
    PROVE  Exclusive([s EXCEPT !.decl_source = src + 1, !.vis = @ \cup {v}])
<1>1. [s EXCEPT !.decl_source = src + 1, !.vis = @ \cup {v}].vis = s.vis \cup {v}
  BY DEF SymbolRecord
<1>2. ~({"EXTERN", "COMMON"} \subseteq s.vis \cup {v})
  BY DEF Exclusive, OkToDeclare, Flags
<1> QED BY <1>1, <1>2 DEF Exclusive

\* Every action keeps extern and common apart.
LEMMA ExclusiveStep ==
    TypeOK /\ ExternCommonExclusive /\ [Next]_vars => ExternCommonExclusive'
<1> SUFFICES ASSUME TypeOK, ExternCommonExclusive, [Next]_vars
             PROVE  ExternCommonExclusive'
  OBVIOUS
<1>0. symbols \in Seq(SymbolRecord) /\ src \in Nat
  BY DEF TypeOK
<1>1. ASSUME NEW b \in Base, Predefine(b) PROVE ExternCommonExclusive'
  <2> DEFINE s == Lookup(Plain(b))
  <2>1. /\ Plain(b) \in Name /\ s \in SymbolRecord /\ Exclusive(s)
        /\ Defined(s, "EQU") \in SymbolRecord
    BY <1>0, PlainType, LookupType, LookupExclusive, UpdateType
  <2>2. Exclusive(Defined(s, "EQU"))
    BY <2>1 DEF Exclusive, Defined, SymbolRecord
  <2>3. UNCHANGED symbols \/ Store(Plain(b), Defined(s, "EQU"))
    BY <1>1 DEF Predefine, tableVars
  <2>4. CASE UNCHANGED symbols
    BY <2>4 DEF ExternCommonExclusive
  <2> QED BY <2>1, <2>2, <2>3, <2>4, StoreExclusive
<1>2. ASSUME NEW b \in Base, Use(b) PROVE ExternCommonExclusive'
  <2> DEFINE s == Lookup(Plain(b))
             w == IF s.use_source = 0 THEN src + 1 ELSE s.use_source
             u == [s EXCEPT !.used = TRUE, !.use_source = w]
  <2>1. Plain(b) \in Name /\ s \in SymbolRecord /\ Exclusive(s)
    BY PlainType, LookupType, LookupExclusive
  <2>2. w \in Nat
    BY <1>0, <2>1 DEF SymbolRecord
  <2>3. Store(Plain(b), u)
    BY <1>2 DEF Use
  <2> HIDE DEF s, w
  <2>4. u \in SymbolRecord /\ u.vis = s.vis
    BY <2>1, <2>2 DEF SymbolRecord
  <2>5. Exclusive(u)
    BY <2>1, <2>4 DEF Exclusive
  <2> QED BY <2>1, <2>3, <2>4, <2>5, StoreExclusive
<1>3. ASSUME NEW b \in Base, Label(b) \/ Equ(b) \/ Lcomm(b) PROVE ExternCommonExclusive'
  <2> DEFINE s == Lookup(Plain(b))
  <2>1. PICK t \in {"EQU", "LABEL"} : CheckedDefine(b, t)
    BY <1>3 DEF Label, Equ, Lcomm
  <2> DEFINE d == Positioned(Defined(s, t))
  <2>2. Plain(b) \in Name /\ s \in SymbolRecord /\ Exclusive(s)
    BY PlainType, LookupType, LookupExclusive
  <2>3. d \in SymbolRecord
    BY <1>0, <2>2, UpdateType
  <2>4. Exclusive(d)
    BY <2>2 DEF Exclusive, Positioned, Defined, SymbolRecord
  <2>5. Store(Plain(b), s) \/ Store(Plain(b), d)
    BY <2>1 DEF CheckedDefine
  <2> QED BY <2>2, <2>3, <2>4, <2>5, StoreExclusive
<1>4. ASSUME NEW b \in Base, Extern(b) \/ Global(b) \/ Local(b) \/ Comm(b)
      PROVE  ExternCommonExclusive'
  <2>1. PICK v \in Flags, size \in Nat : CheckedDeclare(b, v, size)
    <3>1. src + 1 \in Nat
      BY <1>0
    <3> QED BY <1>4, <3>1 DEF Extern, Global, Local, Comm, Flags
  <2> DEFINE s == Lookup(Plain(b))
             e == [s EXCEPT !.decl_source = src + 1, !.vis = @ \cup {v}]
             d == IF OkToDeclare(s, v) THEN e ELSE s
             c == [d EXCEPT !.csize = size]
  <2>2. Plain(b) \in Name /\ s \in SymbolRecord /\ Exclusive(s)
    BY PlainType, LookupType, LookupExclusive
  <2>3. e \in SymbolRecord
    BY <1>0, <2>2, UpdateType
  <2>4. Store(Plain(b), IF size = 0 THEN d ELSE c)
    BY <2>1 DEF CheckedDeclare
  <2>5. d \in SymbolRecord /\ Exclusive(d)
    BY <2>2, <2>3, DeclareExclusive
  <2> HIDE DEF d
  <2>6. c \in SymbolRecord /\ c.vis = d.vis
    BY <2>5 DEF SymbolRecord
  <2>7. Exclusive(c)
    BY <2>5, <2>6 DEF Exclusive
  <2> HIDE DEF c
  <2>8. CASE Store(Plain(b), d)
    BY <2>2, <2>5, <2>8, StoreExclusive
  <2>9. CASE Store(Plain(b), c)
    BY <2>2, <2>6, <2>7, <2>9, StoreExclusive
  <2> QED BY <2>4, <2>8, <2>9
<1>5. CASE UNCHANGED symbols
  BY <1>5 DEF ExternCommonExclusive
<1>6. ASSUME NEW b, NEW c, NEW m, SymVer(b, c, m) PROVE ExternCommonExclusive'
  BY <1>5, <1>6 DEF SymVer, tableVars
<1>7. CASE StartParse \/ VersionAbsent \/ Finish \/ UNCHANGED vars
  BY <1>5, <1>7 DEF StartParse, VersionAbsent, Finish, tableVars, vars
<1>8. CASE EndParse
  <2>1. CASE symbols' = [x \in 1..Len(symbols) |-> Completed(symbols[x])]
    <3>1. \A x \in 1..Len(symbols) : Exclusive(Completed(symbols[x]))
      <4> TAKE x \in 1..Len(symbols)
      <4>1. symbols[x] \in SymbolRecord /\ Exclusive(symbols[x])
        BY <1>0 DEF ExternCommonExclusive, Exclusive
      <4> QED BY <4>1 DEF Completed, IsUndefined, Exclusive, SymbolRecord
    <3>2. Len(symbols') = Len(symbols)
      BY <1>0, <2>1
    <3> QED BY <2>1, <3>1, <3>2 DEF ExternCommonExclusive, Exclusive
  <2> QED BY <1>5, <1>8, <2>1 DEF EndParse
<1>9. ASSUME NEW x \in 1..Len(symbols), NEW n, symbols' = [symbols EXCEPT ![x].name = n]
      PROVE  ExternCommonExclusive'
  <2>1. Len(symbols') = Len(symbols)
    BY <1>0, <1>9
  <2>2. \A y \in 1..Len(symbols) : symbols'[y].vis = symbols[y].vis
    BY <1>0, <1>9 DEF SymbolRecord
  <2> QED BY <2>1, <2>2 DEF ExternCommonExclusive
<1>10. CASE VersionStandard
  <2> DEFINE old == Plain(Head(symvers).real)
             new == <<Head(symvers).name, "@">>
             x   == sym_map[old]
             ren == [symbols EXCEPT ![x].name = new]
  <2>1. Head(symvers) \in SymVersion
    BY <1>10 DEF VersionStandard, TypeOK
  <2>2. old \in Name /\ new \in Name
    BY <2>1 DEF SymVersion, Plain, Name, Suffix
  <2>3. x \in 1..Len(symbols)
    BY <1>10, <2>2 DEF VersionStandard, Known, TypeOK
  <2>4. symbols' = ren \/ symbols' = Append(ren, Alias(symbols[x], old))
    BY <1>10 DEF VersionStandard
  <2> HIDE DEF old, new, x
  <2>5. CASE symbols' = ren
    BY <1>9, <2>3, <2>5
  <2>6. CASE symbols' = Append(ren, Alias(symbols[x], old))
    <3>1. symbols[x] \in SymbolRecord
      BY <1>0, <2>3
    <3>2. [symbols[x] EXCEPT !.name = new] \in SymbolRecord
      BY <2>2, <3>1, VersionType
    <3>3. /\ ren \in Seq(SymbolRecord) /\ Len(ren) = Len(symbols)
          /\ \A y \in 1..Len(symbols) : ren[y].vis = symbols[y].vis
      <4>1. ren \in Seq(SymbolRecord) /\ Len(ren) = Len(symbols)
        BY <1>0, <2>3, <3>2
      <4>2. \A y \in 1..Len(symbols) : ren[y].vis = symbols[y].vis
        <5> TAKE y \in 1..Len(symbols)
        <5>1. CASE y = x
          <6>1. ren[y] = [symbols[x] EXCEPT !.name = new]
            BY <1>0, <2>3, <5>1
          <6> QED BY <3>1, <5>1, <6>1 DEF SymbolRecord
        <5>2. CASE y # x
          BY <1>0, <2>3, <5>2
        <5> QED BY <5>1, <5>2
      <4> QED BY <4>1, <4>2
    <3>4. Alias(symbols[x], old).vis = symbols[x].vis
      BY DEF Alias, Symbol
    <3> HIDE DEF ren
    <3>5. /\ Len(symbols') = Len(symbols) + 1
          /\ \A y \in 1..Len(symbols) : symbols'[y] = ren[y]
          /\ symbols'[Len(symbols) + 1] = Alias(symbols[x], old)
      BY <2>6, <3>3
    <3>6. Len(symbols) \in Nat
      BY <1>0
    <3>7. SUFFICES ASSUME NEW y \in 1..Len(symbols')
                   PROVE  ~({"EXTERN", "COMMON"} \subseteq symbols'[y].vis)
      BY DEF ExternCommonExclusive
    <3>8. y \in 1..Len(symbols) \/ y = Len(symbols) + 1
      BY <3>5, <3>6
    <3>9. CASE y \in 1..Len(symbols)
      <4>1. symbols'[y].vis = symbols[y].vis
        BY <3>3, <3>5, <3>9
      <4> QED BY <3>9, <4>1 DEF ExternCommonExclusive
    <3>10. CASE y = Len(symbols) + 1
      <4>1. symbols'[y].vis = symbols[x].vis
        BY <3>4, <3>5, <3>10
      <4> QED BY <2>3, <4>1 DEF ExternCommonExclusive
    <3> QED BY <3>8, <3>9, <3>10
  <2> QED BY <2>4, <2>5, <2>6
<1>11. CASE VersionDefault
  <2> DEFINE old == Plain(Head(symvers).real)
             new == <<Head(symvers).name, "@@">>
             a   == Alias(Lookup(old), new)
  <2>1. Head(symvers) \in SymVersion
    BY <1>11 DEF VersionDefault, TypeOK
  <2>2. old \in Name /\ new \in Name
    BY <2>1 DEF SymVersion, Plain, Name, Suffix
  <2>3. UNCHANGED symbols \/ Store(new, a)
    BY <1>11 DEF VersionDefault, tableVars
  <2> HIDE DEF old, new
  <2>4. a \in SymbolRecord
    BY <2>2, LookupType, VersionType
  <2>5. Exclusive(a)
    BY <2>2, LookupExclusive DEF Exclusive, Alias, Symbol
  <2> HIDE DEF a
  <2> QED BY <1>5, <2>2, <2>3, <2>4, <2>5, StoreExclusive
<1>12. CASE VersionAuto
  <2>1. Head(symvers) \in SymVersion
    BY <1>12 DEF VersionAuto, TypeOK
  <2>2. Plain(Head(symvers).real) \in Name
    BY <2>1 DEF SymVersion, Plain, Name, Suffix
  <2>3. sym_map[Plain(Head(symvers).real)] \in 1..Len(symbols)
    BY <1>12, <2>2 DEF VersionAuto, Known, TypeOK
  <2> QED BY <1>9, <1>12, <2>3 DEF VersionAuto
<1> QED
  BY <1>1, <1>2, <1>3, <1>4, <1>6, <1>7, <1>8, <1>10, <1>11, <1>12 DEF Next

\* EXTERN and COMMON are mutually exclusive, as Symbol.h says.
THEOREM ExternCommon == Spec => []ExternCommonExclusive
<1>1. Init => ExternCommonExclusive
  BY DEF Init, ExternCommonExclusive
<1> QED BY <1>1, TypeCorrect, ExclusiveStep, PTL DEF Spec

=============================================================================
