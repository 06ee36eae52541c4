---------------------------- MODULE IntervalTree ----------------------------
(***************************************************************************)
(* IntervalTree<T>: a red-black tree ordered by `low' whose nodes carry    *)
(* the largest `high' below them.  The sentinels Root and Nil are nodes;   *)
(* Root's left child is the real root.  A side and its mirror image share  *)
(* one definition.  An operation works on the whole tree and is one action. *)
(***************************************************************************)
EXTENDS Integers, Sequences, FiniteSetsExt, TLC

CONSTANTS Node,         \* bound: nodes that can be allocated
          Nil, Root,    \* the sentinels m_nil and m_root
          Interval,     \* intervals <<low, high>>, low <= high, as ITreeAdd makes them
          Infinity      \* stands for LONG_MAX

VARIABLES tree,         \* node to its fields
          query,        \* the interval of the last Enumerate, << >> after a change
          found         \* node to the number of its callbacks

vars == <<tree, query, found>>

Live == DOMAIN tree \ {Nil, Root}

Other(side) == IF side = "left" THEN "right" ELSE "left"

NewNode(i) ==
    [c |-> [left |-> Nil, right |-> Nil], parent |-> Nil,
     low |-> i[1], high |-> i[2], maxHigh |-> i[2], red |-> FALSE]

SideOf(t, x) == IF x = t[t[x].parent].c.left THEN "left" ELSE "right"

SetMaxHigh(t, x) ==
    [t EXCEPT ![x].maxHigh =
        Max({t[x].high, t[t[x].c.left].maxHigh, t[t[x].c.right].maxHigh})]

\* LeftRotate(x) for side "left", RightRotate(x) for "right": the child on the
\* other side moves up.  Nil's parent must stay as it is.
\* Mutant: the maxHigh of the node that moved down is kept.
MutRotate(t, x, side) ==
    LET y    == t[x].c[Other(side)]
        mid  == t[y].c[side]
        p    == t[x].parent
        down == [t EXCEPT ![x].c[Other(side)] = mid, ![y].parent = p]
        back == IF mid = Nil THEN down ELSE [down EXCEPT ![mid].parent = x]
        up   == [back EXCEPT ![p].c[SideOf(t, x)] = y]
        done == [up EXCEPT ![y].c[side] = x, ![x].parent = y]
    IN  SetMaxHigh(done, y)
Rotate(t, x, side) ==
    LET y    == t[x].c[Other(side)]
        mid  == t[y].c[side]
        p    == t[x].parent
        down == [t EXCEPT ![x].c[Other(side)] = mid, ![y].parent = p]
        back == IF mid = Nil THEN down ELSE [down EXCEPT ![mid].parent = x]
        up   == [back EXCEPT ![p].c[SideOf(t, x)] = y]
        done == [up EXCEPT ![y].c[side] = x, ![x].parent = y]
    IN  SetMaxHigh(SetMaxHigh(done, x), y)

RECURSIVE FixUpMaxHigh(_, _)
FixUpMaxHigh(t, x) == IF x = Root THEN t ELSE FixUpMaxHigh(SetMaxHigh(t, x), t[x].parent)

-----------------------------------------------------------------------------
(* Insert *)

RECURSIVE Descend(_, _, _, _)
Descend(t, x, y, low) ==
    IF x = Nil THEN y
    ELSE Descend(t, t[x].c[IF t[x].low > low THEN "left" ELSE "right"], x, low)

TreeInsertHelp(t, z) ==
    LET y    == Descend(t, t[Root].c.left, Root, t[z].low)
        side == IF y = Root \/ t[y].low > t[z].low THEN "left" ELSE "right"
    IN  [t EXCEPT ![z].parent = y, ![y].c[side] = z]

\* The loop of Insert: x is red, and so may be its parent.
RECURSIVE InsertFixUp(_, _)
InsertFixUp(t, x) ==
    LET p == t[x].parent IN
    IF ~t[p].red THEN [t EXCEPT ![t[Root].c.left].red = FALSE]
    ELSE LET g     == t[p].parent
             side  == SideOf(t, p)
             uncle == t[g].c[Other(side)]
         IN IF t[uncle].red
            THEN InsertFixUp([t EXCEPT ![p].red = FALSE, ![uncle].red = FALSE,
                                       ![g].red = TRUE], g)
            ELSE LET inner == x = t[p].c[Other(side)]
                     t1 == IF inner THEN Rotate(t, p, side) ELSE t
                     x1 == IF inner THEN p ELSE x
                     p1 == t1[x1].parent
                 IN  InsertFixUp(Rotate([t1 EXCEPT ![p1].red = FALSE, ![g].red = TRUE],
                                        g, Other(side)), x1)

Insert(i) ==
    /\ \E z \in Node \ Live :
       LET t1 == TreeInsertHelp(tree @@ (z :> NewNode(i)), z)
           t2 == FixUpMaxHigh(t1, t1[z].parent)
       IN  tree' = InsertFixUp([t2 EXCEPT ![z].red = TRUE], z)
    /\ query' = << >> /\ found' = << >>

-----------------------------------------------------------------------------
(* DeleteNode *)

RECURSIVE Leftmost(_, _)
Leftmost(t, y) == IF t[y].c.left = Nil THEN y ELSE Leftmost(t, t[y].c.left)

\* `rootLeft' is the root when the fix-up starts; it ends the loop.
RECURSIVE DeleteFixUp(_, _, _)
DeleteFixUp(t, x, rootLeft) ==
    IF t[x].red \/ x = rootLeft THEN [t EXCEPT ![x].red = FALSE]
    ELSE
    LET p    == t[x].parent
        side == SideOf(t, x)
        far  == Other(side)
        w0   == t[p].c[far]
        t1   == IF ~t[w0].red THEN t
                ELSE Rotate([t EXCEPT ![w0].red = FALSE, ![p].red = TRUE], p, side)
        w1   == t1[p].c[far]
    IN  IF ~t1[t1[w1].c.left].red /\ ~t1[t1[w1].c.right].red
        THEN DeleteFixUp([t1 EXCEPT ![w1].red = TRUE], p, rootLeft)
        ELSE LET t2 == IF t1[t1[w1].c[far]].red THEN t1
                       ELSE Rotate([t1 EXCEPT ![t1[w1].c[side]].red = FALSE,
                                              ![w1].red = TRUE], w1, far)
                 w2 == t2[p].c[far]
                 t3 == [t2 EXCEPT ![w2].red = t2[p].red, ![p].red = FALSE,
                                  ![t2[w2].c[far]].red = FALSE]
             IN  DeleteFixUp(Rotate(t3, p, side), rootLeft, rootLeft)

DeleteNode(z) ==
    /\ z \in Live
    /\ LET t  == tree
           y  == IF Nil \in {t[z].c.left, t[z].c.right} THEN z ELSE Leftmost(t, t[z].c.right)
           x  == IF t[y].c.left = Nil THEN t[y].c.right ELSE t[y].c.left
           p  == t[y].parent
           \* y is spliced out and x takes its place ...
           t1 == [t EXCEPT ![x].parent = p, ![p].c[SideOf(t, y)] = x]
           \* ... and y takes that of z.
           t2 == IF y = z THEN t1
                 ELSE LET a == [t1 EXCEPT ![y].maxHigh = -Infinity, ![y].c = t1[z].c,
                                          ![y].parent = t1[z].parent]
                          b == [a EXCEPT ![a[z].c.left].parent = y, ![a[z].c.right].parent = y]
                      IN  [b EXCEPT ![b[z].parent].c[SideOf(b, z)] = y]
           t3 == FixUpMaxHigh(t2, t2[x].parent)
           t4 == IF y = z THEN t3 ELSE [t3 EXCEPT ![y].red = t[z].red]
           t5 == IF t[y].red THEN t4 ELSE DeleteFixUp(t4, x, t4[Root].c.left)
       IN  tree' = [n \in DOMAIN t \ {z} |-> t5[n]]
    /\ query' = << >> /\ found' = << >>

-----------------------------------------------------------------------------
(* Enumerate *)

\* One frame per left branch taken, above an initial one; cur indexes the frame
\* that learns of an overlap.
Frame(n, parent) == [start |-> n, parent |-> parent, tryRight |-> FALSE]

\* The inner loop: back to the nearest frame whose right branch is worth a try.
RECURSIVE Unwind(_, _, _)
Unwind(t, stack, cur) ==
    IF Len(stack) <= 1 THEN [x |-> Nil, stack |-> stack, cur |-> cur]
    ELSE LET top  == stack[Len(stack)]
             rest == SubSeq(stack, 1, Len(stack) - 1)
         IN  IF ~top.tryRight THEN Unwind(t, rest, cur)
             ELSE LET marked == [rest EXCEPT ![top.parent].tryRight = TRUE]
                      right  == t[top.start].c.right
                  IN  IF right = Nil THEN Unwind(t, marked, top.parent)
                      ELSE [x |-> right, stack |-> marked, cur |-> top.parent]

\* The test of Overlap(a1, a2, b1, b2).
Overlap(i, n) == IF i[1] <= n.low THEN n.low <= i[2] ELSE i[1] <= n.high

\* Mutant: the left branch is only taken for a maxHigh strictly above low.
MutGoLeft(t, x, i) == t[t[x].c.left].maxHigh > i[1]
GoLeft(t, x, i) == t[t[x].c.left].maxHigh >= i[1]

RECURSIVE Search(_, _, _, _, _, _)
Search(t, i, x, stack, cur, hits) ==
    IF x = Nil THEN hits
    ELSE LET hit == Overlap(i, t[x])
             s1  == IF hit THEN [stack EXCEPT ![cur].tryRight = TRUE] ELSE stack
             h1  == IF hit THEN Append(hits, x) ELSE hits
             go  == GoLeft(t, x, i)
             s2  == IF go THEN Append(s1, Frame(x, cur)) ELSE s1
             c2  == IF go THEN Len(s2) ELSE cur
             n   == t[x].c[IF go THEN "left" ELSE "right"]
         IN  IF n # Nil THEN Search(t, i, n, s2, c2, h1)
             ELSE LET u == Unwind(t, s2, c2) IN Search(t, i, u.x, u.stack, u.cur, h1)

Enumerate(i) ==
    /\ query' = i
    /\ LET hits == Search(tree, i, tree[Root].c.left, <<Frame(Nil, 1)>>, 1, << >>)
       IN  found' = [n \in {hits[k] : k \in DOMAIN hits} |->
                        Cardinality({k \in DOMAIN hits : hits[k] = n})]
    /\ UNCHANGED tree

-----------------------------------------------------------------------------
Init ==
    /\ tree = (Nil :> NewNode(<<-Infinity, -Infinity>>)) @@ (Root :> NewNode(<<Infinity, Infinity>>))
    /\ query = << >> /\ found = << >>

Next ==
    \/ \E i \in Interval : Insert(i) \/ Enumerate(i)
    \/ \E z \in Node : DeleteNode(z)

Spec == Init /\ [][Next]_vars

-----------------------------------------------------------------------------
(* Properties *)

RECURSIVE Below(_)
Below(x) == IF x = Nil THEN {} ELSE {x} \cup Below(tree[x].c.left) \cup Below(tree[x].c.right)

RECURSIVE BlackHeights(_)
BlackHeights(x) ==
    IF x = Nil THEN {0}
    ELSE {h + (IF tree[x].red THEN 0 ELSE 1) :
              h \in BlackHeights(tree[x].c.left) \cup BlackHeights(tree[x].c.right)}

\* The red-black invariants that bound every search: the sentinels and the root
\* are black ("assert(!m_nil->red)"), no red node has a red child, and all paths
\* have the same number of black nodes.
Balanced ==
    /\ ~tree[Nil].red /\ ~tree[Root].red /\ ~tree[tree[Root].c.left].red
    /\ \A n \in Live : tree[n].red => ~tree[tree[n].c.left].red /\ ~tree[tree[n].c.right].red
    /\ Cardinality(BlackHeights(tree[Root].c.left)) = 1

\* CheckAssumptions, after any mix of Insert and DeleteNode: the tree is balanced,
\* every maxHigh is the largest high below the node, also after rotations and after
\* the successor of a deleted node has taken its place; the tree is ordered, links
\* back and forth agree, and no node is lost.
WellFormed ==
    /\ Balanced
    /\ Below(tree[Root].c.left) = Live
    /\ tree[Nil].maxHigh = -Infinity
    /\ \A n \in Live :
         /\ tree[n].maxHigh = Max({tree[m].high : m \in Below(n)})
         /\ \A m \in Below(tree[n].c.left) : tree[m].low <= tree[n].low
         /\ \A m \in Below(tree[n].c.right) : tree[m].low >= tree[n].low
         /\ \A m \in {tree[n].c.left, tree[n].c.right} \ {Nil} : tree[m].parent = n

\* The tree implements the collection: in particular Enumerate reports every
\* overlapping interval exactly once, although it skips a right branch whenever
\* the left one had no overlap.
Abstract == INSTANCE IntervalSet WITH
    Handle <- Node,
    stored <- [n \in Live |-> <<tree[n].low, tree[n].high>>],
    answer <- found
ImplementsIntervalSet == Abstract!Spec

=============================================================================
