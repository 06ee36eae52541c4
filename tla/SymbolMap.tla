----------------------------- MODULE SymbolMap -----------------------------
(***************************************************************************)
(* What hamt.h promises in the comments of Find, Insert, Replace and       *)
(* Remove: a map from keys to data that returns the data it already had.   *)
(***************************************************************************)
EXTENDS Naturals

CONSTANTS Key, Data, NULL,
          KeyOf         \* data to its key

VARIABLES map,          \* key to data or NULL
          call, result  \* the last call, and what it returned

Init == map = [k \in Key |-> NULL] /\ call = << >> /\ result = NULL

Find(k) ==
    /\ call' = <<"Find", k>>
    /\ result' = map[k]
    /\ UNCHANGED map

Insert(d) ==
    /\ call' = <<"Insert", d>>
    /\ result' = map[KeyOf[d]]
    /\ map' = IF result' = NULL THEN [map EXCEPT ![KeyOf[d]] = d] ELSE map

Replace(d) ==
    /\ call' = <<"Replace", d>>
    /\ result' = map[KeyOf[d]]
    /\ map' = [map EXCEPT ![KeyOf[d]] = d]

Remove(k) ==
    /\ call' = <<"Remove", k>>
    /\ result' = map[k]
    /\ map' = [map EXCEPT ![k] = NULL]

Next == \/ \E k \in Key : Find(k) \/ Remove(k)
        \/ \E d \in Data : Insert(d) \/ Replace(d)

Spec == Init /\ [][Next]_<<map, call, result>>

=============================================================================
