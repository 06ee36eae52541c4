----------------------------- MODULE MCLibrary ------------------------------
(* Components of the library that share no state, checked on their own: the   *)
(* hash trie, LEB128 numbers, integers, expressions and the token source of   *)
(* the parsers.                                                               *)
(* A behaviour exercises one of them, its part, and leaves the others in      *)
(* their initial states.                                                      *)
EXTENDS Integers, TLC

CONSTANTS Parts,                \* the components to check
          NULL, Memory          \* of Hamt

VARIABLES part,
          root, call, result,                   \* Hamt
          l_phase, sign, val, size, len, neg_thres, pos_thres, l_out, warned,  \* Leb128
          acc, i_call, ok, ops,                 \* IntNum
          pp, got, entered,                     \* Preprocessor
          stack, worth, pushed, unaries, covered, far   \* Expr

trieVars == <<root, call, result>>
lebVars == <<l_phase, sign, val, size, len, neg_thres, pos_thres, l_out, warned>>
intVars == <<acc, i_call, ok, ops>>
ppVars == <<pp, got, entered>>
exprVars == <<stack, worth, pushed, unaries, covered, far>>

-----------------------------------------------------------------------------
(* Leb128: values on both sides of every boundary between encodings of one,   *)
(* two and three bytes.  Only a negative value in unsigned form reaches the   *)
(* last bits of an integer, as in the code, where those are bits 252 to 255.  *)

Boundaries == {0, 1, 2^20 - 1, -(2^20)}
    \cup UNION {{2^n - 1, 2^n, -(2^n), -(2^n) - 1} : n \in {6, 7, 13, 14}}

Leb == INSTANCE Leb128 WITH
           Values <- Boundaries, NativeSize <- 25, WordBits <- 15, IntBits <- 16,
           phase <- l_phase, out <- l_out

-----------------------------------------------------------------------------
(* Hamt: four keys, a symbol for each and a second one for k1.  k1 and k2     *)
(* collide until the second rehash; k3 has the digits of k1 in a hash of its  *)
(* own and is separated by the first rehash; k4 differs from k1 in the second *)
(* digit.                                                                     *)

Keys    == {"k1", "k2", "k3", "k4"}
Symbols == Keys \cup {"k1bis"}
Names   == [d \in Symbols |-> IF d = "k1bis" THEN "k1" ELSE d]

Hashes == ("k1" :> (0 :> 0  @@ 1 :> 0 @@ 3 :> 0)) @@
          ("k2" :> (0 :> 0  @@ 1 :> 0 @@ 3 :> 1)) @@
          ("k3" :> (0 :> 16 @@ 1 :> 4 @@ 3 :> 0)) @@
          ("k4" :> (0 :> 4  @@ 1 :> 0 @@ 3 :> 0))

\* Memory from a pool that is not set before it is read: zero, or an old pointer.
Zeroed == {NULL}
Stale  == {NULL, "k1"}

Trie == INSTANCE Hamt WITH
            Key <- Keys, Data <- Symbols, KeyOf <- Names, HashOf <- Hashes,
            Fanout <- 4, Digits <- 2, Uninit <- Memory

-----------------------------------------------------------------------------
(* IntNum: values around the limits of a word of seven bits and of the values *)
(* that setBV keeps in a word, in numbers of twelve bits.                     *)

Limits == {0, 1, 7, 31, 32, 63, 64, 127, 128, 2047, -1, -5, -31, -32, -33, -64, -65}

Digits == { <<16, <<15>> >>, <<16, <<3, 15>> >>, <<16, <<7, 15>> >>, <<16, <<15, 15, 15>> >>,
            <<2, <<1, 1, 1, 1, 1>> >>, <<2, <<1, 0, 0, 0, 0, 0>> >>, <<8, <<1, 2, 3, 4, 5>> >>,
            <<10, <<9, 9>> >>, <<10, <<1, 2, 8>> >> }

Num == INSTANCE IntNum WITH
           SV_BITS <- 6, NativeSize <- 12, Values <- Limits, Strings <- Digits,
           Shifts <- {0, 1, 5, -2}, MaxOps <- 2, call <- i_call

-----------------------------------------------------------------------------
(* Preprocessor: files and streams, empty ones among them, within each other. *)

Toks == INSTANCE Preprocessor WITH
            EOF <- "eof", Blank <- "blank", MainFile <- <<"a", "b", "c">>,
            Includable <- {<<"d">>, << >>}, Streams <- {<<"e", "f">>, << >>}, Inserted <- {"i"},
            MaxEntered <- 2, MaxMarks <- 2, MaxLook <- 1

-----------------------------------------------------------------------------
(* Expr: the identities of every operator, a negative number and one that is  *)
(* no identity, and a symbol.                                                 *)

Exprs == INSTANCE Expr WITH
             Ints <- {2, -1, 0, 1}, Syms <- {"a"}, Unary <- {"NEG", "NOT"},
             Binary <- {"ADD", "SUB", "MUL", "DIV", "LT"}, MaxPush <- 3, MaxUnary <- 1

-----------------------------------------------------------------------------
PartsInit ==
    /\ part \in Parts
    /\ Trie!Init /\ Leb!Init /\ Num!Init /\ Toks!Init /\ Exprs!Init

PartsNext ==
    /\ UNCHANGED part
    /\ \/ part = "trie"   /\ Trie!Next  /\ UNCHANGED <<lebVars, intVars, ppVars, exprVars>>
       \/ part = "leb"    /\ Leb!Next   /\ UNCHANGED <<trieVars, intVars, ppVars, exprVars>>
       \/ part = "int"    /\ Num!Next   /\ UNCHANGED <<trieVars, lebVars, ppVars, exprVars>>
       \/ part = "tokens" /\ Toks!Next  /\ UNCHANGED <<trieVars, lebVars, intVars, exprVars>>
       \/ part = "expr"   /\ Exprs!Next /\ UNCHANGED <<trieVars, lebVars, intVars, ppVars>>

PartsSpec == PartsInit /\ [][PartsNext]_<<part, trieVars, lebVars, intVars, ppVars, exprVars>>

-----------------------------------------------------------------------------
\* A node of hamt is a value or a subtrie with a child per bit, never a mixture.
NodeForms == Trie!NodeForms

\* InsRep, Remove and Find of hamt answer as a map from names to symbols does.
ImplementsMap == Trie!ImplementsMap


\* The operations of IntNum compute exact results in both forms of a number.
CalcExact == Num!CalcExact


\* The lexer stack and the token cache of Preprocessor deliver one queue of tokens.
ImplementsQueue == Toks!ImplementsQueue

\* Simplify, ExtractSegOff and ExtractWRT of Expr keep what an expression is worth.
KeepsValue == Exprs!KeepsValue

\* "-(a-b) ==> -a+b" (TransformNegImpl): negation is pushed down for every a and b.
SimplifyKeepsValue == Exprs!SimplifyKeepsValue

=============================================================================
