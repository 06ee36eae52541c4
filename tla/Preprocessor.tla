---------------------------- MODULE Preprocessor ----------------------------
(* The token source of the parsers (Preprocessor, PPLexerChange.cpp and       *)
(* PPCaching.cpp): a stack of file lexers and token streams, and a cache for  *)
(* tokens that were looked at, taken back or inserted.                        *)
(*                                                                            *)
(* The state of a Preprocessor is a record pp:                                *)
(*    cur       m_cur_lexer or m_cur_token_lexer; neither in caching mode     *)
(*    stack     m_include_macro_stack, last entry on top                      *)
(*    cached    m_cached_tokens; pos is m_cached_lex_pos                      *)
(*    marks     m_backtrack_positions                                         *)
(*    fault     an assertion on the stack has failed                          *)
(* A lexer is the sequence of the tokens that it has left.  The reuse of old  *)
(* token lexers (m_token_lexer_cache) is left out.                            *)
EXTENDS Naturals, Sequences, SequencesExt

CONSTANTS EOF, Blank,           \* the token at the end; a token that is not set
          MainFile,             \* tokens of the main file
          Includable, Streams,  \* tokens of other files; of token streams
          Inserted,             \* tokens for EnterToken
          MaxEntered,           \* bound: calls of the three Enter functions
          MaxMarks, MaxLook     \* bounds: nested backtracking, look-ahead

VARIABLES pp, got, entered

vars == <<pp, got, entered>>

NoLexer == [kind |-> "none", toks |-> << >>]
FileLexer(ts) == [kind |-> "file", toks |-> ts]
TokenLexer(ts) == [kind |-> "stream", toks |-> ts]

\* EnterMainSourceFile
Entered(ts) == [cur |-> FileLexer(ts), stack |-> << >>, cached |-> << >>, pos |-> 0,
                marks |-> << >>, fault |-> FALSE]

-----------------------------------------------------------------------------
(* The lexer stack.                                                           *)

PushIncludeMacroStack(p) == [p EXCEPT !.stack = Append(@, p.cur), !.cur = NoLexer]

PopIncludeMacroStack(p) == [p EXCEPT !.cur = Last(p.stack), !.stack = Front(@)]

RemoveTopOfLexerStack(p) ==
    IF p.stack = << >> THEN [p EXCEPT !.fault = TRUE] ELSE PopIncludeMacroStack(p)

isInCachingLexMode(p) == p.cur.kind = "none"

EnterCachingLexMode(p) == IF isInCachingLexMode(p) THEN p ELSE PushIncludeMacroStack(p)
ExitCachingLexMode(p)  == IF isInCachingLexMode(p) THEN RemoveTopOfLexerStack(p) ELSE p

\* F(v), where TLC evaluates v once.
Let(v, F(_)) == CHOOSE y \in {F(x) : x \in {v}} : TRUE

RECURSIVE Lex(_)

\* From the cache while it lasts; a token from elsewhere is cached for backtracking.
CachingLex(p) ==
    IF p.pos < Len(p.cached)
    THEN [tok |-> p.cached[p.pos + 1], pp |-> [p EXCEPT !.pos = @ + 1]]
    ELSE Let(Let(ExitCachingLexMode(p), Lex), LAMBDA r :
             LET q == EnterCachingLexMode(r.pp) IN
             [tok |-> r.tok,
              pp  |-> CASE p.marks = << >> -> [r.pp EXCEPT !.cached = << >>, !.pos = 0]
                        [] p.marks # << >> /\ r.tok = EOF -> q
                        [] OTHER -> [q EXCEPT !.cached = Append(@, r.tok), !.pos = @ + 1]])

\* HandleEndOfFile and HandleEndOfTokenLexer: pop a level, or end the main file.
HandleEnd(p) ==
    IF p.stack # << >> THEN Let(RemoveTopOfLexerStack(p), Lex)
    ELSE [tok |-> EOF, pp |-> [p EXCEPT !.cur = NoLexer]]

Lex(p) ==
    CASE p.fault -> [tok |-> EOF, pp |-> p]
      [] ~p.fault /\ isInCachingLexMode(p) -> CachingLex(p)
      [] ~isInCachingLexMode(p) /\ p.cur.toks = << >> -> HandleEnd(p)
      [] OTHER -> [tok |-> Head(p.cur.toks), pp |-> [p EXCEPT !.cur.toks = Tail(@)]]

-----------------------------------------------------------------------------
(* Looking ahead.                                                             *)

\* An unset token joins the cache first; Lex then writes into it.
PeekOne(p) ==
    Let(Let([p EXCEPT !.cached = Append(@, Blank)], Lex),
        LAMBDA r : [r.pp EXCEPT !.cached = [@ EXCEPT ![Len(@)] = r.tok]])

PeekAhead(p, n) ==
    LET c == p.pos + n - Len(p.cached)
    IN  Let(FoldLeft(LAMBDA q, i : Let(q, PeekOne), ExitCachingLexMode(p), [i \in 1..c |-> i]),
            EnterCachingLexMode)

\* The token n places after the next one, and the preprocessor that has read so far.
Look(p, n) ==
    IF p.pos + n < Len(p.cached) THEN [tok |-> p.cached[p.pos + n + 1], pp |-> p]
    ELSE Let(PeekAhead(p, n + 1), LAMBDA q : [tok |-> Last(q.cached), pp |-> q])

-----------------------------------------------------------------------------
(* Inserting tokens.                                                          *)

\* As if the insertion point were always the end of the cache.
WithTokenAtEnd(p, t) == [EnterCachingLexMode(p) EXCEPT !.cached = Append(@, t)]

\* EnterToken
WithToken(p, t) ==
    [EnterCachingLexMode(p) EXCEPT !.cached = InsertAt(@, p.pos + 1, t)]

\* EnterTokenStream
WithTokenStream(p, ts) ==
    [PushIncludeMacroStack(p) EXCEPT !.cur = TokenLexer(ts)]

\* EnterSourceFile, EnterSourceFileWithLexer
WithSourceFile(p, ts) ==
    [(IF isInCachingLexMode(p) THEN p ELSE PushIncludeMacroStack(p))
        EXCEPT !.cur = FileLexer(ts)]

-----------------------------------------------------------------------------
(* The tokens that are still to come: those in the cache, then those of every *)
(* lexer from the top of the stack down, and the end of the main file.        *)

Unread(p) == SubSeq(p.cached, p.pos + 1, Len(p.cached))

Pending(p) ==
    Unread(p)
    \o FlattenSeq(Reverse([i \in 1..Len(p.stack) + 1 |-> Append(p.stack, p.cur)[i].toks]))
    \o (IF isInCachingLexMode(p) /\ p.stack = << >> THEN << >> ELSE <<EOF>>)

-----------------------------------------------------------------------------
(* A client: it reads and looks ahead up to the end of the main file, enters  *)
(* files and streams when the cache is not in use, and does not read the end  *)
(* of the file, unless it has seen it before, while it may still go back.     *)

Init == pp = Entered(MainFile) /\ got = Blank /\ entered = 0

DoLex ==
    LET r == Lex(pp) IN
    /\ Pending(pp) # << >>
    /\ pp.marks # << >> /\ Unread(pp) = << >> => r.tok # EOF
    /\ pp' = r.pp /\ got' = r.tok
    /\ UNCHANGED entered

\* LookAhead(n)
LookAhead(n) ==
    LET r == Look(pp, n) IN
    /\ n < Len(Pending(pp))
    /\ pp' = r.pp /\ got' = r.tok
    /\ UNCHANGED entered

EnableBacktrackAtThisPos ==
    /\ Len(pp.marks) < MaxMarks
    /\ Pending(pp) # << >>
    /\ pp' = EnterCachingLexMode([pp EXCEPT !.marks = Append(@, pp.pos)])
    /\ UNCHANGED <<got, entered>>

CommitBacktrackedTokens ==
    /\ pp.marks # << >>
    /\ pp' = [pp EXCEPT !.marks = Front(@)]
    /\ UNCHANGED <<got, entered>>

Backtrack ==
    /\ pp.marks # << >>
    /\ pp' = [pp EXCEPT !.pos = Last(pp.marks), !.marks = Front(@)]
    /\ UNCHANGED <<got, entered>>

RevertCachedTokens(n) ==
    /\ pp.marks # << >>
    /\ pp.pos >= Last(pp.marks) + n
    /\ pp' = [pp EXCEPT !.pos = @ - n]
    /\ UNCHANGED <<got, entered>>

EnterToken(t) ==
    /\ entered < MaxEntered /\ entered' = entered + 1
    /\ Pending(pp) # << >>
    /\ pp' = WithToken(pp, t)
    /\ UNCHANGED got

EnterTokenStream(ts) ==
    /\ entered < MaxEntered /\ entered' = entered + 1
    /\ ~isInCachingLexMode(pp)
    /\ pp' = WithTokenStream(pp, ts)
    /\ UNCHANGED got

EnterSourceFile(ts) ==
    /\ entered < MaxEntered /\ entered' = entered + 1
    /\ pp.cur.kind = "file"
    /\ pp' = WithSourceFile(pp, ts)
    /\ UNCHANGED got

Next ==
    \/ DoLex \/ EnableBacktrackAtThisPos \/ CommitBacktrackedTokens \/ Backtrack
    \/ \E n \in 0..MaxLook : LookAhead(n) \/ RevertCachedTokens(n)
    \/ \E t \in Inserted : EnterToken(t)
    \/ \E ts \in Streams : EnterTokenStream(ts)
    \/ \E ts \in Includable : EnterSourceFile(ts)

Spec == Init /\ [][Next]_vars

-----------------------------------------------------------------------------
Tokens == {EOF, Blank} \cup Inserted
              \cup UNION {ToSet(ts) : ts \in {MainFile} \cup Includable \cup Streams}

Queue == INSTANCE TokenQueue WITH
             Token <- Tokens,
             pending <- Pending(pp),
             past <- IF pp.marks = << >> THEN << >>
                     ELSE SubSeq(pp.cached, pp.marks[1] + 1, pp.pos),
             marks <- [i \in DOMAIN pp.marks |-> pp.marks[i] - pp.marks[1]]

\* Whatever a client looks at, inserts, enters or takes back, the lexer stack and
\* the token cache of Preprocessor together deliver the tokens of one queue, each
\* once and in order; LookAhead(n) tells what the n+1st Lex will return.
ImplementsQueue == Queue!Spec

=============================================================================
