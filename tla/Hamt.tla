-------------------------------- MODULE Hamt --------------------------------
(***************************************************************************)
(* hamt<Key, T, GetKey>: the hash array mapped trie behind the symbol      *)
(* tables of Object.  A digit of the hash selects a slot at each level; when *)
(* the digits are used up the key is hashed again with the level.  The code *)
(* has 7 digits of 5 bits; here their number and range are constants.  Keys *)
(* stand for names, case folded when the table is case-insensitive.        *)
(***************************************************************************)
EXTENDS Integers, Sequences, FiniteSetsExt
Seqs == INSTANCE SequencesExt

CONSTANTS Key, Data, NULL,
          KeyOf,        \* get_key: data to its key
          HashOf,       \* key to level to hash: HashKey at 0, RehashKey above
          Fanout,       \* 32 in the code
          Digits,       \* digits in a hash, 7 in the code
          Uninit        \* what a word of memory the code has not set may hold

VARIABLES root,         \* m_root: digit to node
          call, result  \* the last call, and what it returned

vars == <<root, call, result>>

-----------------------------------------------------------------------------
(* Nodes.  bm is bitmap_key: the hash of a value node, the bitmap of a     *)
(* subtrie, whose children follow in the order of their digits.            *)

Leaf(h, d)      == [bm |-> h, value |-> d, sub |-> << >>]
Subtrie(bm, s)  == [bm |-> bm, value |-> NULL, sub |-> s]
Bit(bm, i)      == (bm \div 2^i) % 2 = 1
BitCount(bm)    == Cardinality({i \in 0..(Fanout - 1) : Bit(bm, i)})
\* The position of digit i among the children.
Slot(bm, i)     == 1 + Cardinality({j \in 0..(i - 1) : Bit(bm, j)})

\* Where a walk for key k is: key is the hash in use, digit the one in use.
Start(k)  == [key |-> HashOf[k][0], digit |-> 0, level |-> 0]
Part(w)   == (w.key \div Fanout^w.digit) % Fanout
Deeper(w) == [w EXCEPT !.level = @ + 1]
\* keypartbits += 5, with a rehash once the hash is used up.
Advance(w, k) ==
    IF w.digit + 1 < Digits THEN [w EXCEPT !.digit = @ + 1]
    ELSE [w EXCEPT !.digit = 0, !.key = HashOf[k][w.level]]

IsEntry(n, w, k) == n.bm = w.key /\ KeyOf[n.value] = k

-----------------------------------------------------------------------------
(* InsRep *)

\* "build tree downward until keys differ": value node n and data d share slots.
\* Mutant: the hash of the node that moves down is not updated.
RECURSIVE MutSplit(_, _, _, _)
MutSplit(n, d, w, w2) ==
    LET v     == Advance(w, KeyOf[d])
        v2    == Advance(w2, KeyOf[n.value])
        entry == Leaf(v.key, d)
    IN  IF Part(v) = Part(v2)
        THEN Subtrie(2^Part(v), <<MutSplit(n, d, Deeper(v), Deeper(v2))>>)
        ELSE Subtrie(2^Part(v) + 2^Part(v2),
                     IF Part(v2) < Part(v) THEN <<n, entry>> ELSE <<entry, n>>)
RECURSIVE Split(_, _, _, _)
Split(n, d, w, w2) ==
    LET v     == Advance(w, KeyOf[d])
        v2    == Advance(w2, KeyOf[n.value])
        entry == Leaf(v.key, d)
        moved == [n EXCEPT !.bm = v2.key]
    IN  IF Part(v) = Part(v2)
        THEN Subtrie(2^Part(v), <<Split(moved, d, Deeper(v), Deeper(v2))>>)
        ELSE Subtrie(2^Part(v) + 2^Part(v2),
                     IF Part(v2) < Part(v) THEN <<moved, entry>> ELSE <<entry, moved>>)

RECURSIVE InsertBelow(_, _, _, _)
InsertBelow(n, d, replace, w) ==
    IF n.value # NULL
    THEN IF IsEntry(n, w, KeyOf[d])
         THEN [node |-> IF replace THEN [n EXCEPT !.value = d] ELSE n, old |-> n.value]
         ELSE [node |-> Split(n, d, w, [w EXCEPT !.key = n.bm]), old |-> NULL]
    ELSE LET v == Advance(w, KeyOf[d])
             s == Slot(n.bm, Part(v))
         IN  IF ~Bit(n.bm, Part(v))
             THEN [node |-> Subtrie(n.bm + 2^Part(v), Seqs!InsertAt(n.sub, s, Leaf(v.key, d))),
                   old |-> NULL]
             ELSE LET r == InsertBelow(n.sub[s], d, replace, Deeper(v))
                  IN  [node |-> [n EXCEPT !.sub[s] = r.node], old |-> r.old]

InsRep(d, replace) ==
    LET w == Start(KeyOf[d])
        r == IF root[Part(w)] = NULL THEN [node |-> Leaf(w.key, d), old |-> NULL]
             ELSE InsertBelow(root[Part(w)], d, replace, w)
    IN  /\ root' = [root EXCEPT ![Part(w)] = r.node]
        /\ result' = r.old

Insert(d)  == call' = <<"Insert", d>> /\ InsRep(d, FALSE)
Replace(d) == call' = <<"Replace", d>> /\ InsRep(d, TRUE)

-----------------------------------------------------------------------------
(* Find *)

RECURSIVE FindBelow(_, _, _)
FindBelow(n, k, w) ==
    IF n.value # NULL THEN IF IsEntry(n, w, k) THEN n.value ELSE NULL
    ELSE LET v == Advance(w, k)
         IN  IF Bit(n.bm, Part(v))
             THEN FindBelow(n.sub[Slot(n.bm, Part(v))], k, Deeper(v))
             ELSE NULL

Lookup(k) ==
    LET n == root[Part(Start(k))]
    IN  IF n = NULL THEN NULL ELSE FindBelow(n, k, Start(k))

Find(k) ==
    /\ call' = <<"Find", k>>
    /\ result' = Lookup(k)
    /\ UNCHANGED root

-----------------------------------------------------------------------------
(* Remove *)

\* The copy of the parent without the child at digit i; nothing sets its value.
Shrink(n, i, garbage) ==
    [bm |-> n.bm - 2^i, value |-> garbage, sub |-> Seqs!RemoveAt(n.sub, Slot(n.bm, i))]

RECURSIVE RemoveBelow(_, _, _, _)
RemoveBelow(n, k, w, garbage) ==
    LET v == Advance(w, k)
        s == Slot(n.bm, Part(v))
        c == n.sub[s]
    IN  IF c.value # NULL
        THEN Shrink(n, Part(v), garbage)
        ELSE [n EXCEPT !.sub[s] = RemoveBelow(c, k, Deeper(v), garbage)]

Remove(k) ==
    /\ call' = <<"Remove", k>>
    /\ result' = Lookup(k)
    /\ LET w == Start(k)
           n == root[Part(w)]
       IN  IF Lookup(k) = NULL THEN UNCHANGED root
           ELSE IF n.value # NULL
           THEN root' = [root EXCEPT ![Part(w)] = NULL]
           ELSE \E garbage \in Uninit :
                root' = [root EXCEPT ![Part(w)] = RemoveBelow(n, k, w, garbage)]

-----------------------------------------------------------------------------
Init ==
    /\ root = [i \in 0..(Fanout - 1) |-> NULL]
    /\ call = << >> /\ result = NULL

Next ==
    \/ \E k \in Key : Find(k)
    \/ \E k \in Key : Remove(k)
    \/ \E d \in Data : Insert(d)
    \/ \E d \in Data : Replace(d)

Spec == Init /\ [][Next]_vars

-----------------------------------------------------------------------------
(* Properties *)

RECURSIVE NodesBelow(_)
NodesBelow(n) == {n} \cup UNION {NodesBelow(n.sub[i]) : i \in DOMAIN n.sub}

Nodes == UNION {NodesBelow(root[i]) : i \in {j \in DOMAIN root : root[j] # NULL}}

\* The comment on Node: a value node has a value and no children; a node tree
\* has "value = 0" and is followed by one child per bit of its bitmap.  The walk
\* of every operation tells the two apart by the value alone.
NodeForms == \A n \in Nodes : IF n.sub = << >> /\ n.value # NULL THEN n.value \in Data
                              ELSE n.value = NULL /\ Len(n.sub) = BitCount(n.bm)

\* The trie implements a map: rehashing, splitting and shrinking never lose,
\* duplicate or misplace an entry, whatever the collisions, and Insert, Replace,
\* Remove and Find return what their comments say.
Abstract == INSTANCE SymbolMap WITH map <- [k \in Key |-> Lookup(k)]
ImplementsMap == Abstract!Spec

=============================================================================
