-------------------------------- MODULE Expr --------------------------------
(***************************************************************************)
(* The expressions of a source line (yasm::Expr, include/yasmx/Expr.h):    *)
(* the parsers build them from operands with Append and Calc, and they are *)
(* simplified, or taken apart at a ':' or WRT, at any time.                *)
(*                                                                         *)
(* The parser's expressions are a stack.  For every expression on it the   *)
(* model keeps what it should be worth for each assignment of the symbols  *)
(* (Envs), computed from the operands when the operator is applied, so the *)
(* rewritten array can be compared with it.                                *)
(***************************************************************************)
EXTENDS ExprTerms

CONSTANTS Ints,      \* integers a source line may contain
          Syms,      \* symbols, not known until the layout is
          Unary,     \* unary operators used
          Binary,    \* binary operators used
          MaxPush,   \* bound: operands of a line
          MaxUnary   \* bound: unary operators of a line

VARIABLES stack,     \* the parser's expressions, the last one on top
          worth,     \* what each of them should be worth, per assignment
          pushed,    \* operands so far
          unaries,   \* unary operators so far
          covered,   \* every Simplify so far got an expression of Covered
          far        \* what ExtractSegOff or ExtractWRT took off the top

vars == <<stack, worth, pushed, unaries, covered, far>>

-----------------------------------------------------------------------------
(* The parser's operations                                                 *)

Envs == [Syms -> {3, -2}]

Top == Last(stack)

\* A line ends when its expression is taken apart.  The array Simplify makes
\* of an expression outside Covered is not looked at again.
Open == far = <<>> /\ covered

Operands == {IntTerm(i, 0) : i \in Ints} \cup {SymTerm(s) : s \in Syms}

Init ==
    /\ stack = <<>>
    /\ worth = <<>>
    /\ pushed = 0
    /\ unaries = 0
    /\ covered = TRUE
    /\ far = <<>>

\* An operand: Append of one term to an empty expression.
Push(term) ==
    /\ Open
    /\ pushed < MaxPush
    /\ stack' = Append(stack, <<term>>)
    /\ worth' = Append(worth, [env \in Envs |-> Value(<<term>>, 1, env)])
    /\ pushed' = pushed + 1
    /\ UNCHANGED <<unaries, covered, far>>

\* Calc(op) of the expression on top.
Calc1(op) ==
    /\ Open
    /\ stack # <<>>
    /\ unaries < MaxUnary
    /\ stack' = Append(Front(stack), AppendOp(Top, op, 1))
    /\ worth' = Append(Front(worth),
                       [env \in Envs |-> CalcUnary(op, Last(worth)[env])])
    /\ unaries' = unaries + 1
    /\ UNCHANGED <<pushed, covered, far>>

\* Calc(op, rhs): the expression below the top with the one on top.  The
\* divisors of a line are positive integers.
Calc2(op) ==
    /\ Open
    /\ Len(stack) > 1
    /\ op = "DIV" => Top[1].t = "int" /\ Len(Top) = 1 /\ Top[1].i > 0
    /\ LET k == Len(stack) - 1
       IN  /\ stack' = Append(SubSeq(stack, 1, k - 1),
                              AppendOp(stack[k] \o Top, op, 2))
           /\ worth' = Append(SubSeq(worth, 1, k - 1),
                              [env \in Envs |-> CalcInt(op, worth[k][env],
                                                        Last(worth)[env])])
    /\ UNCHANGED <<pushed, unaries, covered, far>>

\* a ? b : c
Cond ==
    /\ Open
    /\ Len(stack) > 2
    /\ LET k == Len(stack) - 2
       IN  /\ stack' = Append(SubSeq(stack, 1, k - 1),
                              AppendOp(stack[k] \o stack[k + 1] \o Top, "COND", 3))
           /\ worth' = Append(SubSeq(worth, 1, k - 1),
                              [env \in Envs |->
                                  IF worth[k][env] # 0 THEN worth[k + 1][env]
                                                       ELSE Last(worth)[env]])
    /\ UNCHANGED <<pushed, unaries, covered, far>>

\* SEG of the pair the two expressions on top make.
Seg ==
    /\ Open
    /\ Len(stack) > 1
    /\ LET k == Len(stack) - 1
       IN  /\ stack' = Append(SubSeq(stack, 1, k - 1),
                              AppendOp(AppendOp(stack[k] \o Top, "SEGOFF", 2),
                                       "SEG", 1))
           /\ worth' = Front(worth)
    /\ UNCHANGED <<pushed, unaries, covered, far>>

\* Simplify of the expression on top.
Simplify ==
    /\ Open
    /\ stack # <<>>
    /\ \E ts \in {SimplifyTerms(Top, TRUE)} :
          /\ ts # Top
          /\ stack' = Append(Front(stack), ts)
    /\ covered' = (covered /\ Covered(Top))
    /\ UNCHANGED <<worth, pushed, unaries, far>>

\* seg:off or WRT of the two expressions on top, simplified and taken apart
\* again (a far jump's target, a WRT of an address).  ExtractSegOff keeps the
\* offset and returns the segment; ExtractWRT keeps the left side.
Extract(op) ==
    /\ Open
    /\ Len(stack) = 2
    /\ LET pair == AppendOp(stack[1] \o Top, op, 2)
           r == ExtractLHS(SimplifyTerms(pair, TRUE))
       IN  /\ Covered(pair)
           /\ IF op = "SEGOFF"
              THEN /\ stack' = <<r.rhs>>
                   /\ far' = r.lhs
                   /\ worth' = Reverse(worth)
              ELSE /\ stack' = <<r.lhs>>
                   /\ far' = r.rhs
                   /\ UNCHANGED worth
    /\ UNCHANGED <<pushed, unaries, covered>>

Next ==
    \/ \E term \in Operands : Push(term)
    \/ \E op \in Unary : Calc1(op)
    \/ \E op \in Binary : Calc2(op)
    \/ Cond
    \/ Seg
    \/ Simplify
    \/ \E op \in {"SEGOFF", "WRT"} : Extract(op)

Spec == Init /\ [][Next]_vars

-----------------------------------------------------------------------------
(* Properties                                                              *)

Is(ts, w) == WellFormed(ts) /\ \A env \in Envs : Value(ts, Len(ts), env) = w[env]

AllKept ==
    /\ \A k \in DOMAIN stack : Is(stack[k], worth[k])
    /\ far # <<>> => Is(far, worth[2])

\* Whatever order operands, operators and simplifications come in, the array
\* of an expression stays one tree whose operators count their operands, and
\* that tree is worth what the source line says for every value the symbols
\* may get: negation pushed down, integers folded, identities dropped,
\* operators levelled, SEG and ?: resolved, seg:off and WRT taken apart.
\* Covered names the expressions whose negations TransformNegImpl takes apart
\* completely.
KeepsValue == covered => AllKept

\* "-(a-b) ==> -a+b, so don't negate right side, but do negate left side."
\* (Expr.cpp, TransformNegImpl): the sign is pushed down so that the value is
\* kept, whatever a and b are.
SimplifyKeepsValue == AllKept

=============================================================================
