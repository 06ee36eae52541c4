------------------------------ MODULE ExprTerms ------------------------------
(***************************************************************************)
(* The term array of yasm::Expr and what rewrites it (lib/yasmx/Expr.cpp). *)
(* An expression is a postfix array of terms, each with its depth in the   *)
(* tree; an operator is preceded by its operands, one level deeper.        *)
(* Simplify rewrites the array in place: TransformNeg turns NEG and SUB    *)
(* into multiplications by -1, LevelOp folds integers, drops identities    *)
(* and levels nested associative operators.  Cleared terms stay in the     *)
(* array until Cleanup.                                                    *)
(***************************************************************************)
EXTENDS Integers, Sequences, FiniteSets, SequencesExt

-----------------------------------------------------------------------------
(* Terms                                                                   *)

NoTerm == [t |-> "none", op |-> "", n |-> 0, i |-> 0, s |-> "", d |-> 0]
IntTerm(i, d) == [NoTerm EXCEPT !.t = "int", !.i = i, !.d = d]
SymTerm(s) == [NoTerm EXCEPT !.t = "sym", !.s = s]
RegTerm(type, num) == [NoTerm EXCEPT !.t = "reg", !.s = type, !.i = num]
OpTerm(op, n, d) == [NoTerm EXCEPT !.t = "op", !.op = op, !.n = n, !.d = d]

isEmpty(term) == term.t = "none"
isOp(term) == term.t = "op"

isUnary(op) == op \in {"IDENT", "NEG", "NOT", "LNOT", "SEG"}

isAssociative(op) ==
    op \in {"ADD", "MUL", "OR", "AND", "XOR", "XNOR", "LOR", "LAND", "LXOR",
            "LXNOR", "COND"}

\* op < Op::NONNUM
Numeric(op) == op \notin {"COND", "SEG", "WRT", "SEGOFF"}

\* Every position rewritten.
Each(ts, F(_)) == <<>> \o [p \in DOMAIN ts |-> F(p)]

Clear(ts, p) == [ts EXCEPT ![p] = NoTerm]

Cleanup(ts) == SelectSeq(ts, LAMBDA term : ~isEmpty(term))

\* The positions before pos that the operator at pos spans: up to the first
\* term that is not deeper.
Span(ts, pos) ==
    {m \in 1..(pos - 1) :
        /\ ~isEmpty(ts[m])
        /\ \A k \in m..(pos - 1) : isEmpty(ts[k]) \/ ts[k].d > ts[pos].d}

Children(ts, pos) == {m \in Span(ts, pos) : ts[m].d = ts[pos].d + 1}

\* Contains (of one type): only the terms below an operator are looked at.
ContainsType(ts, type, pos) ==
    IF isOp(ts[pos]) THEN \E m \in Span(ts, pos) : ts[m].t = type
                     ELSE ts[pos].t = type

-----------------------------------------------------------------------------
(* Values                                                                  *)

Abs(a) == IF a < 0 THEN -a ELSE a
Truth(b) == IF b THEN 1 ELSE 0

\* IntNum::Calc.  A division by zero is reported, so no value is promised.
CalcUnary(op, a) ==
    CASE op = "NEG" -> -a
      [] op = "NOT" -> -a - 1
      [] op = "LNOT" -> Truth(a = 0)
      [] OTHER -> a

CalcInt(op, a, b) ==
    CASE op = "ADD" -> a + b
      [] op = "SUB" -> a - b
      [] op = "MUL" -> a * b
      [] op = "DIV" -> IF b = 0 THEN 0
                       ELSE (IF (a < 0) = (b < 0) THEN 1 ELSE -1)
                            * (Abs(a) \div Abs(b))
      [] op = "LT" -> Truth(a < b)
      [] OTHER -> CalcUnary(op, a)

\* The value of the tree that ends at pos, read off the array by depth.
RECURSIVE Value(_, _, _)
Value(ts, pos, env) ==
    LET kids == SetToSortSeq(Children(ts, pos), <)
        v(k) == Value(ts, kids[k], env)
        r == ts[pos]
    IN  CASE r.t = "int" -> r.i
          [] r.t = "sym" -> env[r.s]
          [] r.op = "SEG" -> Value(ts, CHOOSE m \in Children(ts, kids[1]) :
                                 \A k \in Children(ts, kids[1]) : m <= k, env)
          [] r.op = "COND" -> IF v(1) # 0 THEN v(2) ELSE v(3)
          [] Len(kids) = 1 -> CalcUnary(r.op, v(1))
          [] OTHER -> FoldLeftDomain(LAMBDA acc, k :
                          IF k = 1 THEN v(1) ELSE CalcInt(r.op, acc, v(k)),
                          0, kids)

\* Every term hangs below an operator that counts it, and one tree is there.
WellFormed(ts) ==
    /\ ts # <<>>
    /\ Last(ts).d = 0
    /\ \A p \in DOMAIN ts :
          /\ ~isEmpty(ts[p])
          /\ p < Len(ts) => ts[p].d > 0
          /\ isOp(ts[p]) => ts[p].n > 0 /\ Cardinality(Children(ts, p)) = ts[p].n
          /\ p > 1 /\ ts[p - 1].d > ts[p].d =>
                isOp(ts[p]) /\ ts[p - 1].d = ts[p].d + 1

-----------------------------------------------------------------------------
(* Building                                                                *)

\* AppendOp: everything goes one level down; a one-operand operator that is
\* not unary is no operator at all.
AppendOp(ts, op, n) ==
    LET down == Each(ts, LAMBDA p : [ts[p] EXCEPT !.d = @ + 1])
    IN  IF op = "IDENT" \/ (n = 1 /\ ~isUnary(op)) THEN down
        ELSE Append(down, OpTerm(op, n, 0))

ReduceDepth(ts, pos) ==
    LET up == IF isOp(ts[pos]) THEN Span(ts, pos) \cup {pos} ELSE {pos}
    IN  Each(ts, LAMBDA p : IF p \in up THEN [ts[p] EXCEPT !.d = @ - 1] ELSE ts[p])

ClearExcept(ts, pos, keep) ==
    Each(ts, LAMBDA p : IF p \in Span(ts, pos) \ {keep} THEN NoTerm ELSE ts[p])

-----------------------------------------------------------------------------
(* Negation                                                                *)

InsertTerms(ts, p, new) == SubSeq(ts, 1, p) \o new \o SubSeq(ts, p + 1, Len(ts))

\* TransformNegImpl returns the rewritten array and the position it reached.
\* A term that is not negated and is neither NEG nor SUB is left where it is,
\* with the terms below it still to be visited by the caller's loop.
RECURSIVE TransformNegImpl(_, _, _, _, _)
RECURSIVE NegChildren(_, _, _, _, _)

\* `times` calls, each going on from where the one before it ended.
NegChildren(r, times, stop, delta, negating) ==
    IF times = 0 THEN r
    ELSE NegChildren(TransformNegImpl(r.ts, r.n - 1, stop, delta, negating),
                     times - 1, stop, delta, negating)

TransformNegImpl(ts, n, stop, delta, negating) ==
    IF n < 1 THEN [ts |-> ts, n |-> n]
    ELSE IF isEmpty(ts[n]) THEN TransformNegImpl(ts, n - 1, stop, delta, negating)
    ELSE
    LET child == [ts[n] EXCEPT !.d = @ + delta]
        d == child.d
        moved == [ts EXCEPT ![n] = child]
        here(terms) == [ts |-> terms, n |-> n]
        r == CASE child.op = "NEG" ->
                    TransformNegImpl(Clear(ts, n), n - 1, d, delta - 1, ~negating)
               [] child.op = "SUB" ->
                    LET right == TransformNegImpl([moved EXCEPT ![n].op = "ADD"],
                                     n - 1, d + 1, delta, ~negating)
                    IN  TransformNegImpl(right.ts, right.n - 1, d + 1, delta,
                                         negating)
               [] ~negating /\ child.op \notin {"NEG", "SUB"} -> here(moved)
               [] negating /\ child.op = "ADD" ->
                    NegChildren(here(moved), child.n, d + 1, delta, TRUE)
               [] negating /\ child.op = "MUL" ->
                    here(InsertTerms([moved EXCEPT ![n] = IntTerm(-1, d + 1)], n,
                                     <<OpTerm("MUL", child.n + 1, d)>>))
               [] negating /\ child.t = "int" ->
                    here([moved EXCEPT ![n].i = -@])
               [] OTHER ->
                    NegChildren(here(InsertTerms([moved EXCEPT ![n].d = d + 1], n,
                                         <<IntTerm(-1, d + 1), OpTerm("MUL", 2, d)>>)),
                                child.n, d + 2, delta + 1, FALSE)
    IN  IF d <= stop THEN r
        ELSE TransformNegImpl(r.ts, r.n - 1, stop, delta, negating)

TransformNeg(ts) ==
    IF isOp(Last(ts))
    THEN TransformNegImpl(ts, Len(ts), Last(ts).d - 1, 0, FALSE).ts
    ELSE ts

-----------------------------------------------------------------------------
(* Levelling                                                               *)

isConstantIdentity(op, i) ==
    \/ i = 0 /\ op \in {"MUL", "AND", "LAND"}
    \/ i = -1 /\ op = "OR"

\* For a mutation: 1/x is not x.
LeftIdentityOfDiv(op, i) ==
    \/ i = 1 /\ op \in {"MUL", "DIV"}
    \/ i = 0 /\ op \in {"ADD", "OR", "LOR"}
    \/ i = -1 /\ op = "AND"
    \/ i # 0 /\ op = "LAND"

isLeftIdentity(op, i) ==
    \/ i = 1 /\ op = "MUL"
    \/ i = 0 /\ op \in {"ADD", "OR", "LOR"}
    \/ i = -1 /\ op = "AND"
    \/ i # 0 /\ op = "LAND"

isRightIdentity(op, i) ==
    \/ isLeftIdentity(op, i)
    \/ i = 1 /\ op = "DIV"
    \/ i = 0 /\ op \in {"SUB", "SHL", "SHR"}

AddNumChild(ts, pos, delta) == [ts EXCEPT ![pos].n = @ + delta]

\* SEG of seg:off: the offset goes, the segment comes up two levels, both
\* operators go.
SegOfSegOff(ts, pos, n) ==
    LET kids == Children(ts, n)
        seg == CHOOSE m \in kids : \A k \in kids : m <= k
    IN  Each(ts, LAMBDA p :
            CASE p \in {pos, n} \/ (p \in Span(ts, n) /\ p > seg) -> NoTerm
              [] p \in Span(ts, n) /\ p <= seg -> [ts[p] EXCEPT !.d = @ - 2]
              [] OTHER -> ts[p])

\* a ? b : c once a is reached.  One of b and c goes, with its own term only;
\* an a that is no integer counts as true.
CondPick(ts, pos, n, b, c) ==
    LET pickb == ts[n].t # "int" \/ ts[n].i # 0
    IN  AddNumChild(Clear(Clear(ts, n), IF pickb THEN c ELSE b), pos, -2)

\* The loop of LevelOp over the operands, last one first.  k: the integer
\* operand others are folded into (0: none yet; COND keeps c there), b: the
\* second operand of COND, num: which operand this is (0 is the first).
RECURSIVE LevelLoop(_, _, _, _, _, _, _)
LevelLoop(ts, pos, n, k, b, num, mul) ==
    LET root == ts[pos]
        child == ts[n]
        next(terms, k2, b2) == LevelLoop(terms, pos, n - 1, k2, b2, num - 1, mul)
    IN
    CASE n < 1 \/ (n >= 1 /\ ~isEmpty(ts[n]) /\ ts[n].d <= root.d) ->
           [ts |-> ts, k |-> k, ended |-> FALSE]
      [] n >= 1 /\ (isEmpty(ts[n]) \/ ts[n].d > root.d + 1) ->
           LevelLoop(ts, pos, n - 1, k, b, num, mul)
      [] OTHER ->
         CASE root.op = "SEG" /\ child.op = "SEGOFF" ->
                [ts |-> SegOfSegOff(ts, pos, n), k |-> 0, ended |-> TRUE]
           [] root.op = "COND" /\ k = 0 -> next(ts, n, 0)
           [] root.op = "COND" /\ k # 0 /\ b = 0 -> next(ts, k, n)
           [] root.op = "COND" /\ k # 0 /\ b # 0 ->
                next(CondPick(ts, pos, n, b, k), k, b)
           [] root.op # "COND" /\ child.t = "int" ->
                CASE /\ \/ mul \/ root.op # "MUL" \/ child.i # 1
                        \/ ~ContainsType(ts, "reg", pos)
                     /\ root.n > 1
                     /\ IF num # 1 THEN isRightIdentity(root.op, child.i)
                                   ELSE isLeftIdentity(root.op, child.i) ->
                       next(AddNumChild(Clear(ts, n), pos, -1), k, b)
                  [] isConstantIdentity(root.op, child.i) ->
                       [ts |-> Clear([ClearExcept(ts, pos, n) EXCEPT ![n].d = @ - 1],
                                     pos),
                        k |-> 0, ended |-> TRUE]
                  [] OTHER ->
                       IF k = 0 THEN next(ts, n, b)
                       ELSE IF ~Numeric(root.op) THEN next(ts, k, b)
                       ELSE next(AddNumChild(Clear(
                                [ts EXCEPT ![k].i = CalcInt(root.op, child.i, @)], n),
                                pos, -1), k, b)
           [] root.op # "COND" /\ isAssociative(root.op) /\ child.op = root.op ->
                next(Clear(ReduceDepth(AddNumChild(ts, pos, child.n - 1), n), n), k, b)
           [] OTHER -> next(ts, k, b)

\* What is left of the operator once the loop is through.
LevelEnd(r, pos) ==
    LET root == r.ts[pos]
    IN  CASE r.ended -> r.ts
          [] ~r.ended /\ root.n = 1 /\ isUnary(root.op) /\ Numeric(root.op)
                /\ r.k # 0 ->
               Clear([r.ts EXCEPT ![r.k].i = CalcUnary(root.op, @), ![r.k].d = @ - 1],
                     pos)
          [] ~r.ended /\ root.n = 1 /\ ~isUnary(root.op) ->
               Clear(ReduceDepth(r.ts, pos), pos)
          [] ~r.ended /\ root.n = 0 ->
               [r.ts EXCEPT ![pos] = IntTerm(0, root.d)]
          [] OTHER -> r.ts

LevelOp(ts, pos, mul) ==
    IF ~isOp(ts[pos]) THEN ts
    ELSE LevelEnd(LevelLoop(ts, pos, pos - 1, 0, 0, ts[pos].n, mul), pos)

RECURSIVE LevelAll(_, _, _)
LevelAll(ts, pos, mul) ==
    IF pos > Len(ts) THEN ts ELSE LevelAll(LevelOp(ts, pos, mul), pos + 1, mul)

SimplifyTerms(ts, mul) == Cleanup(LevelAll(TransformNeg(ts), 1, mul))

-----------------------------------------------------------------------------
(* Taking seg:off and WRT apart                                            *)

\* ExtractLHS of the operator at the end: the right operand comes up and
\* stays, the left one is returned.
ExtractLHS(ts) ==
    LET pos == Len(ts)
        lhs == CHOOSE m \in Children(ts, pos) : \A k \in Children(ts, pos) : m <= k
        up(a, b) == [p \in 1..(b - a) |-> [ts[a + p] EXCEPT !.d = @ - 1]]
    IN  [rhs |-> up(lhs, pos - 1), lhs |-> up(0, lhs)]

-----------------------------------------------------------------------------
(* Which expressions TransformNegImpl takes apart completely.  A call that *)
(* is to handle one operand must end at that operand's first term: the     *)
(* terms it leaves are visited by the next call, with the sign and the     *)
(* depth of another operand.                                               *)

RECURSIVE Consumed(_, _, _)
Consumed(ts, pos, negating) ==
    LET kids == SetToSortSeq(Children(ts, pos), <)
        each(neg) == \A k \in DOMAIN kids : Consumed(ts, kids[k], neg)
    IN  CASE ~isOp(ts[pos]) -> TRUE
          [] ts[pos].op = "NEG" -> each(~negating)
          [] ts[pos].op = "SUB" -> /\ Consumed(ts, kids[1], negating)
                                   /\ Consumed(ts, kids[2], ~negating)
          [] ts[pos].op = "ADD" -> negating /\ each(TRUE)
          [] ts[pos].op = "MUL" -> FALSE
          [] OTHER -> negating /\ each(FALSE)

\* What is left over is harmless where nothing around it is negated.
RECURSIVE Visited(_, _)
Visited(ts, pos) ==
    LET kids == SetToSortSeq(Children(ts, pos), <)
        each == \A k \in DOMAIN kids : Visited(ts, kids[k])
        factors(p) == Children(ts, p)
    IN  CASE ~isOp(ts[pos]) -> TRUE
          [] ts[pos].op = "NEG" -> Consumed(ts, kids[1], TRUE)
          [] ts[pos].op = "SUB" ->
               /\ Visited(ts, kids[1])
               /\ \/ Consumed(ts, kids[2], TRUE)
                  \/ /\ ts[kids[2]].op = "MUL"
                     /\ \A m \in factors(kids[2]) : Visited(ts, m)
          [] OTHER -> each

\* The conditional drops one term of the operand it does not take.
CondSimple(ts) ==
    \A p \in DOMAIN ts : ts[p].op = "COND" =>
        LET kids == SetToSortSeq(Children(ts, p), <)
        IN  ts[kids[1]].t = "int" /\ ~isOp(ts[kids[2]]) /\ ~isOp(ts[kids[3]])

Covered(ts) == Visited(ts, Len(ts)) /\ CondSimple(ts)

=============================================================================
