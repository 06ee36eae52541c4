----------------------------- MODULE GasParser ------------------------------
(* Statements of the GAS parser that change what is parsed next or where it   *)
(* goes (GasParser_parse.cpp): conditionals, .rept, .include, sections and    *)
(* numeric labels.  The parser holds one token, in.tok; the others come from  *)
(* the Preprocessor in.pp, which ParseLine asks for one token ahead.          *)
(*                                                                            *)
(* A line of source is a sequence of words, a file a sequence of lines.       *)
EXTENDS Naturals, FiniteSets, Sequences, SequencesExt

CONSTANTS Programs,     \* main files
          Files,        \* what .include finds: a function from names to files
          MaxAllowedIncludeStackDepth

VARIABLES program, in,
          cond,         \* m_cond_stack
          sect, prev,   \* the current section and m_previous_section
          stack,        \* m_section_stack
          local,        \* m_local: how often each numeric label is defined
          trace,        \* the statements that took effect, in order
          errs          \* number of errors

vars == <<program, in, cond, sect, prev, stack, local, trace, errs>>

Word(w, sol) == [x |-> w, sol |-> sol]
Eof == Word("eof", FALSE)
Eol == Word("eol", FALSE)

LineTokens(l) == Append([i \in 1..Len(l) |-> Word(l[i], i = 1)], Eol)
FileTokens(f) == FlattenSeq([i \in 1..Len(f) |-> LineTokens(f[i])])

PP == INSTANCE Preprocessor WITH
          EOF <- Eof, Blank <- Word("", FALSE), MainFile <- << >>, Includable <- {},
          Streams <- {}, Inserted <- {}, MaxEntered <- 0, MaxMarks <- 0, MaxLook <- 0,
          pp <- in.pp, got <- in.tok, entered <- 0

None == "none"
Numbers == {"1"}                                \* the numeric labels
Constants == {"0", "1", "2"}                    \* expressions that are numbers
Exprs == Constants \cup {"sym", "1b", "1f"}
Count(w) == CASE w = "0" -> 0 [] w = "1" -> 1 [] w = "2" -> 2

isEndOfStatement(t) == t \in {Eol, Eof}

\* The GasToken::label tokens: words that begin with a dot.
Labels == {".if", ".ifb", ".ifnb", ".else", ".elseif", ".endif", ".rept", ".endr", ".include",
           ".data", ".text", ".pushsection", ".popsection", ".previous", ".lcomm", ".byte"}

-----------------------------------------------------------------------------
(* Tokens.                                                                    *)

ConsumeToken(i) == PP!Let(PP!Lex(i.pp), LAMBDA r : [pp |-> r.pp, tok |-> r.tok])

NextToken(i) == PP!Look(i.pp, 0).tok
Peeked(i) == [i EXCEPT !.pp = PP!Look(i.pp, 0).pp]

\* SkipUntil(eol, semi, true, false)
RECURSIVE SkipUntil(_)
SkipUntil(i) ==
    CASE i.tok = Eol -> ConsumeToken(i)
      [] i.tok = Eof -> i
      [] OTHER -> PP!Let(ConsumeToken(i), SkipUntil)

\* Files and streams are to be entered from a lexer, not from the token cache.
Enter(p, q) == [q EXCEPT !.fault = @ \/ PP!isInCachingLexMode(p)]

\* What ParseLine does before it calls the handler of a directive.
Operands == PP!Let(Peeked(in), ConsumeToken)

\* The rest of DoParse once a handler has returned ok, having read up to i.
EndOfLine(i, ok, errors) ==
    \E j \in {i} :
        /\ in' = SkipUntil(j)
        /\ errs' = errs + errors + (IF ok /\ ~isEndOfStatement(j.tok) THEN 1 ELSE 0)

At(name) == in.tok.x = name

-----------------------------------------------------------------------------
(* Conditionals.  A handler's result has the tokens left, whether it          *)
(* succeeded, the number of errors and the new m_cond_stack.                  *)

Failed(i, c) == [in |-> i, ok |-> FALSE, errs |-> 1, cond |-> c]

\* Up to the next .else, .elseif or .endif of the same conditional, which is put
\* back behind the token before it, the end of its line.
RECURSIVE Skip(_, _, _)
Skip(i, before, depth) ==
    LET t == i.tok
        on(d) == PP!Let(ConsumeToken(i), LAMBDA j : Skip(j, t, d))
    IN  CASE t = Eof -> [in |-> i, errs |-> 1]
          [] t # Eof /\ ~(t.sol /\ t.x \in Labels) -> on(depth)
          [] t.sol /\ t.x \in {".if", ".ifb", ".ifnb"} -> on(depth + 1)
          [] t.sol /\ t.x = ".endif" /\ depth > 1 -> on(depth - 1)
          [] t.sol /\ t.x \in {".else", ".elseif", ".endif"} /\ depth = 1 ->
                 [in |-> [pp |-> PP!WithToken(i.pp, t), tok |-> before], errs |-> 0]
          [] OTHER -> on(depth)

SkipConditional(i) == Skip(i, i.tok, 1)

HandleIf(i, is_true, c) ==
    LET s == IF is_true THEN [in |-> i, errs |-> 0] ELSE SkipConditional(i)
    IN  [in |-> s.in, ok |-> TRUE, errs |-> s.errs,
         cond |-> Append(c, [done |-> is_true, saw_else |-> FALSE])]

ParseDirIf(i, c) ==
    CASE i.tok.x \notin Exprs -> Failed(i, c)
      [] i.tok.x \in Exprs \ Constants -> Failed(ConsumeToken(i), c)
      [] OTHER -> HandleIf(ConsumeToken(i), i.tok.x # "0", c)

ParseDirIfb(i, negate) ==
    LET blank == isEndOfStatement(i.tok)
    IN  HandleIf(IF blank THEN i ELSE SkipUntil(i), blank # negate, cond)

\* .else and .elseif of a conditional that has had its branch.
SkipBranch(i, c) == LET s == SkipConditional(i)
                    IN  [in |-> s.in, ok |-> TRUE, errs |-> s.errs, cond |-> c]

ParseDirElse(i) ==
    IF cond = << >> \/ (cond # << >> /\ Last(cond).saw_else) THEN Failed(i, cond)
    ELSE LET c == Append(Front(cond), [done |-> TRUE, saw_else |-> TRUE])
         IN  IF Last(cond).done THEN SkipBranch(i, c)
             ELSE [in |-> i, ok |-> TRUE, errs |-> 0, cond |-> c]


ParseDirElseif(i) ==
    CASE cond = << >> \/ (cond # << >> /\ Last(cond).saw_else) -> Failed(i, cond)
      [] cond # << >> /\ ~Last(cond).saw_else /\ Last(cond).done -> SkipBranch(i, cond)
      [] OTHER -> ParseDirIf(i, Front(cond))

\* As if .endif without .if were ignored.
EndifSilently(i) ==
    [in |-> i, ok |-> TRUE, errs |-> 0, cond |-> IF cond = << >> THEN cond ELSE Front(cond)]

ParseDirEndif(i) ==
    IF cond = << >> THEN Failed(i, cond)
    ELSE [in |-> i, ok |-> TRUE, errs |-> 0, cond |-> Front(cond)]

Conditional(name, Handler(_)) ==
    /\ At(name)
    /\ \E i \in {Operands} : \E r \in {Handler(i)} :
           EndOfLine(r.in, r.ok, r.errs) /\ cond' = r.cond
    /\ UNCHANGED <<program, sect, prev, stack, local, trace>>

DirIf     == Conditional(".if", LAMBDA i : ParseDirIf(i, cond))
DirIfb    == Conditional(".ifb", LAMBDA i : ParseDirIfb(i, FALSE))
DirIfnb   == Conditional(".ifnb", LAMBDA i : ParseDirIfb(i, TRUE))
DirElse   == Conditional(".else", ParseDirElse)
DirElseif == Conditional(".elseif", ParseDirElseif)
DirEndif  == Conditional(".endif", ParseDirEndif)

-----------------------------------------------------------------------------
(* Repetition and inclusion.                                                  *)

\* As if nested .rept were not counted.
RECURSIVE GatherFlat(_, _, _)
GatherFlat(i, tokens, depth) ==
    CASE i.tok = Eof -> [in |-> i, tokens |-> tokens, closed |-> FALSE]
      [] i.tok.sol /\ i.tok.x = ".endr" -> [in |-> i, tokens |-> tokens, closed |-> TRUE]
      [] OTHER -> PP!Let(ConsumeToken(i), LAMBDA j : GatherFlat(j, Append(tokens, i.tok), depth))

\* The tokens up to the matching .endr, which becomes the current token.
RECURSIVE Gather(_, _, _)
Gather(i, tokens, depth) ==
    LET t == i.tok
        on(d) == PP!Let(ConsumeToken(i), LAMBDA j : Gather(j, Append(tokens, t), d))
    IN  CASE t = Eof -> [in |-> i, tokens |-> tokens, closed |-> FALSE]
          [] t.sol /\ t.x = ".endr" /\ depth = 1 -> [in |-> i, tokens |-> tokens, closed |-> TRUE]
          [] t.sol /\ t.x = ".endr" /\ depth > 1 -> on(depth - 1)
          [] t.sol /\ t.x = ".rept" -> on(depth + 1)
          [] OTHER -> on(depth)

Repeated(tokens, n) == FlattenSeq([k \in 1..n |-> tokens])

DirRept ==
    /\ At(".rept")
    /\ \E i \in {Operands} : \E g \in {Gather(ConsumeToken(i), << >>, 1)} :
        LET q == PP!WithTokenStream(g.in.pp, Repeated(g.tokens, Count(i.tok.x))) IN
           CASE i.tok.x \notin Exprs -> EndOfLine(i, FALSE, 1)
             [] i.tok.x \in Exprs \ Constants -> EndOfLine(ConsumeToken(i), FALSE, 1)
             [] i.tok.x \in Constants /\ ~g.closed -> EndOfLine(g.in, FALSE, 1)
             [] OTHER -> EndOfLine(ConsumeToken([pp |-> Enter(g.in.pp, q), tok |-> g.in.tok]),
                                   TRUE, 0)
    /\ UNCHANGED <<program, cond, sect, prev, stack, local, trace>>

DirEndr ==
    /\ At(".endr")
    /\ EndOfLine(Operands, FALSE, 1)
    /\ UNCHANGED <<program, cond, sect, prev, stack, local, trace>>


\* HandleInclude, once the name has been read.
DirInclude ==
    LET i == Operands
        j == ConsumeToken(i)
        q == PP!WithSourceFile(j.pp, FileTokens(Files[i.tok.x]))
    IN  /\ At(".include")
        /\ CASE isEndOfStatement(i.tok) -> EndOfLine(i, FALSE, 1)
             [] ~isEndOfStatement(i.tok) /\ (\/ i.tok.x \notin DOMAIN Files
                                             \/ Len(j.pp.stack) = MaxAllowedIncludeStackDepth - 1) ->
                    EndOfLine(j, FALSE, 1)
             [] OTHER -> EndOfLine([pp |-> Enter(j.pp, q), tok |-> j.tok], TRUE, 0)
        /\ UNCHANGED <<program, cond, sect, prev, stack, local, trace>>

-----------------------------------------------------------------------------
(* Sections, labels and data.                                                 *)

\* A statement took effect: its words, the sections after it, and the name of the
\* numeric label that it defines or refers to.
Took(words, name) ==
    trace' = Append(trace, [words |-> words, sect |-> sect', prev |-> prev', name |-> name])

\* ParseDirTextSection, ParseDirDataSection
DirSwitch(name) ==
    /\ At(name)
    /\ EndOfLine(Operands, TRUE, 0)
    /\ prev' = sect /\ sect' = name
    /\ Took(<<name>>, << >>)
    /\ UNCHANGED <<program, cond, stack, local>>

\* ParseDirSection with a non-zero param.
DirPushSection ==
    LET i == Operands
        missing == isEndOfStatement(i.tok)
    IN  /\ At(".pushsection")
        /\ stack' = Append(stack, [sect |-> sect, prev |-> prev])
        /\ IF missing THEN EndOfLine(i, FALSE, 1) ELSE EndOfLine(ConsumeToken(i), TRUE, 0)
        /\ sect' = IF missing THEN sect ELSE i.tok.x
        /\ prev' = IF missing THEN prev ELSE sect
        /\ Took(IF missing THEN <<".pushsection">> ELSE <<".pushsection", i.tok.x>>, << >>)
        /\ UNCHANGED <<program, cond, local>>

\* As if only the current section were restored.
PopCurrentOnly ==
    /\ At(".popsection")
    /\ EndOfLine(Operands, TRUE, 0)
    /\ stack' = IF stack = << >> THEN stack ELSE Front(stack)
    /\ sect' = IF stack = << >> THEN sect ELSE Last(stack).sect
    /\ prev' = sect
    /\ Took(<<".popsection">>, << >>)
    /\ UNCHANGED <<program, cond, local>>

DirPopSection ==
    /\ At(".popsection")
    /\ EndOfLine(Operands, TRUE, 0)
    /\ stack' = IF stack = << >> THEN stack ELSE Front(stack)
    /\ sect' = IF stack = << >> THEN sect ELSE Last(stack).sect
    /\ prev' = IF stack = << >> THEN prev ELSE Last(stack).prev
    /\ Took(<<".popsection">>, << >>)
    /\ UNCHANGED <<program, cond, local>>

DirPrevious ==
    /\ At(".previous")
    /\ EndOfLine(Operands, TRUE, 0)
    /\ sect' = IF prev = None THEN sect ELSE prev
    /\ prev' = IF prev = None THEN prev ELSE sect
    /\ Took(<<".previous">>, << >>)
    /\ UNCHANGED <<program, cond, stack, local>>

\* ParseDirComm, DefineLcomm, getSection: the space is in .bss, and the current
\* section is what it was before the .section handler switched to .bss.
DirLcomm ==
    /\ At(".lcomm")
    /\ EndOfLine(ConsumeToken(Operands), TRUE, 0)
    /\ UNCHANGED <<program, cond, sect, prev, stack, local>>
    /\ Took(<<".lcomm", "v">>, << >>)

\* As if a forward reference counted like a definition before it.
LocalLabelLate(num, suffix) == <<num, local[num] + (IF suffix = "f" THEN 0 ELSE 1)>>

\* getLocalLabel: the definition that a label or reference with this suffix names.
LocalLabel(num, suffix) == <<num, local[num] + (IF suffix = "b" THEN 0 ELSE 1)>>

\* A numeric label; ParseLine goes on with what follows it.
NumericLabel ==
    /\ in.tok.x \in Numbers
    /\ IF NextToken(in) = Word(":", FALSE)
       THEN /\ in' = ConsumeToken(ConsumeToken(Peeked(in)))
            /\ local' = [local EXCEPT ![in.tok.x] = @ + 1]
            /\ UNCHANGED <<program, cond, sect, prev, stack, errs>>
            /\ Took(<<in.tok.x, ":">>, LocalLabel(in.tok.x, ":"))
       ELSE /\ EndOfLine(Peeked(in), FALSE, 1)
            /\ UNCHANGED <<program, cond, sect, prev, stack, local, trace>>

\* ParseDirData with one operand or none.
DirData ==
    LET i == Operands
        w == i.tok.x
    IN  /\ At(".byte")
        /\ EndOfLine(IF w \in Exprs THEN ConsumeToken(i) ELSE i, TRUE, 0)
        /\ UNCHANGED <<program, cond, sect, prev, stack, local>>
        /\ Took(IF w \in Exprs THEN <<".byte", w>> ELSE <<".byte">>,
                CASE w = "1b" -> LocalLabel("1", "b")
                  [] w = "1f" -> LocalLabel("1", "f")
                  [] OTHER -> << >>)

\* As if the end of an empty line were left for ParseLine.
EmptyLineKept ==
    /\ in.tok = Eol
    /\ UNCHANGED vars

\* ParseLine passes over the end of an empty line.
EmptyLine ==
    /\ in.tok = Eol
    /\ in' = ConsumeToken(in)
    /\ UNCHANGED <<program, cond, sect, prev, stack, local, trace, errs>>

\* Anything else is no statement.
NoStatement ==
    /\ in.tok \notin {Eol, Eof} /\ in.tok.x \notin Labels \cup Numbers
    /\ EndOfLine(in, FALSE, 1)
    /\ UNCHANGED <<program, cond, sect, prev, stack, local, trace>>

-----------------------------------------------------------------------------
Init ==
    /\ program \in Programs
    /\ in = ConsumeToken([pp |-> PP!Entered(FileTokens(program)), tok |-> Eol])
    /\ cond = << >> /\ stack = << >>
    /\ sect = ".text" /\ prev = None
    /\ local = [n \in Numbers |-> 0]
    /\ trace = << >> /\ errs = 0

Next ==
    \/ DirIf \/ DirIfb \/ DirIfnb \/ DirElse \/ DirElseif \/ DirEndif
    \/ DirRept \/ DirEndr \/ DirInclude
    \/ DirSwitch(".text") \/ DirSwitch(".data")
    \/ DirPushSection \/ DirPopSection \/ DirPrevious \/ DirLcomm
    \/ NumericLabel \/ DirData \/ EmptyLine \/ NoStatement

\* One thread runs DoParse to its end.
Spec == Init /\ [][Next]_vars /\ WF_vars(Next)

-----------------------------------------------------------------------------
(* What a program means: the plain lines that take effect, in order.          *)

Openers == {".if", ".ifb", ".ifnb", ".rept"}
Closers == {".endif", ".endr"}

\* Every conditional and repetition is closed by a line of its own kind, .else is
\* the last branch, and the operands are as the directive wants them.
Nesting(p) ==
    FoldLeft(LAMBDA s, l :
        CASE s = <<"bad">> -> s
          [] s # <<"bad">> /\ l[1] \in Openers -> Append(s, IF l[1] = ".rept" THEN "rept" ELSE "if")
          [] s # <<"bad">> /\ l[1] = ".endr" ->
                 IF s # << >> /\ Last(s) = "rept" THEN Front(s) ELSE <<"bad">>
          [] s # <<"bad">> /\ l[1] = ".endif" ->
                 IF s # << >> /\ Last(s) \in {"if", "else"} THEN Front(s) ELSE <<"bad">>
          [] s # <<"bad">> /\ l[1] \in {".else", ".elseif"} ->
                 IF s # << >> /\ Last(s) = "if"
                 THEN Append(Front(s), IF l[1] = ".else" THEN "else" ELSE "if") ELSE <<"bad">>
          [] OTHER -> s, << >>, p)

WellFormed(p) ==
    /\ Nesting(p) = << >>
    /\ \A k \in DOMAIN p :
           /\ p[k][1] \in Labels \/ p[k] = <<"1", ":">>
           /\ p[k][1] \in {".if", ".elseif", ".rept"} => Len(p[k]) = 2 /\ p[k][2] \in Constants
           /\ p[k][1] \in {".ifb", ".ifnb"} => Len(p[k]) = 1
           /\ p[k][1] = ".include" => Len(p[k]) = 2 /\ p[k][2] \in DOMAIN Files
                                      /\ \A m \in DOMAIN Files[p[k][2]] :
                                             Files[p[k][2]][m][1] \notin {".include"} \cup Openers \cup Closers
           /\ p[k][1] = ".pushsection" => Len(p[k]) = 2

\* The nesting depth after k lines, and the line that closes the first one.
Level(p, k) == Cardinality({j \in 1..k : p[j][1] \in Openers})
                 - Cardinality({j \in 1..k : p[j][1] \in Closers})
Close(p) == CHOOSE k \in DOMAIN p : Level(p, k) = 0 /\ \A j \in 1..k-1 : Level(p, j) > 0

Holds(l) ==
    CASE l[1] \in {".if", ".elseif"} -> l[2] # "0"
      [] l[1] \in {".ifb", ".else"} -> TRUE
      [] l[1] = ".ifnb" -> FALSE

\* The first branch of the conditional p that holds.
Branch(p) ==
    LET heads == {1} \cup {k \in 2..Len(p) - 1 : p[k][1] \in {".else", ".elseif"} /\ Level(p, k) = 1}
        true == {k \in heads : Holds(p[k])}
        first == Min(true)
    IN  IF true = {} THEN << >>
        ELSE SubSeq(p, first + 1, Min({k \in heads \cup {Len(p)} : k > first}) - 1)

RECURSIVE Meaning(_)
Meaning(p) ==
    IF p = << >> THEN << >>
    ELSE LET rest == SubSeq(p, Close(p) + 1, Len(p))
             group == SubSeq(p, 1, Close(p))
         IN  CASE p[1][1] = ".rept" ->
                      Meaning(FlattenSeq([k \in 1..Count(p[1][2]) |-> Tail(Front(group))]) \o rest)
               [] p[1][1] \in Openers \ {".rept"} -> Meaning(Branch(group) \o rest)
               [] p[1][1] = ".include" -> Meaning(Files[p[1][2]] \o Tail(p))
               [] OTHER -> <<p[1]>> \o Meaning(Tail(p))

Parsed == in.tok = Eof

-----------------------------------------------------------------------------
(* Properties.                                                                *)


\* An .else, .elseif or .endif without .if, and a branch after .else, are reported,
\* also when the branches before them were skipped (unless .rept has hidden them, or
\* they are nested in a conditional, which may be skipped as a whole).
StrayReported ==
    LET bad == {k \in DOMAIN program : Nesting(SubSeq(program, 1, k)) = <<"bad">>}
    IN  /\ Parsed /\ bad # {}
        /\ \A k \in DOMAIN program : program[k][1] \notin {".rept", ".endr", ".include"}
        /\ Len(Nesting(SubSeq(program, 1, Min(bad) - 1))) <= 1
        => errs > 0

\* .popsection gives back both the section and the previous section of its
\* .pushsection, whatever was pushed, switched and popped in between.
SectionsRestored ==
    LET before(k) == IF k = 1 THEN <<".text", None>> ELSE <<trace[k-1].sect, trace[k-1].prev>>
        pushes(j, k) == Cardinality({m \in j..k : trace[m].words[1] = ".pushsection"})
        pops(j, k) == Cardinality({m \in j..k : trace[m].words[1] = ".popsection"})
    IN  \A j, k \in DOMAIN trace :
            /\ j < k /\ trace[j].words[1] = ".pushsection" /\ pushes(j, k) = pops(j, k)
            /\ \A m \in j..k-1 : pushes(j, m) > pops(j, m)
            => <<trace[k].sect, trace[k].prev>> = before(j)

\* "1b" is the last label 1 before it and "1f" the next one after it, also when
\* .rept repeats the label, the reference or both; no two labels share a name.
LocalLabelsResolve ==
    LET defs == {k \in DOMAIN trace : trace[k].words[1] \in Numbers}
    IN  /\ \A j, k \in defs : j # k => trace[j].name # trace[k].name
        /\ \A k \in DOMAIN trace :
               LET back == {d \in defs : d < k}
                   fwd  == {d \in defs : d > k}
               IN  /\ trace[k].words = <<".byte", "1b">> /\ back # {} =>
                          trace[k].name = trace[Max(back)].name
                   /\ trace[k].words = <<".byte", "1f">> /\ fwd # {} =>
                          trace[k].name = trace[Min(fwd)].name


\* Every program is parsed to its end, also when a file includes itself.
ParsingEnds == <>Parsed

=============================================================================
