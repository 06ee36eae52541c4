---------------------------- MODULE IntervalSet ----------------------------
(***************************************************************************)
(* What the optimizer expects of an IntervalTree: a collection of closed   *)
(* intervals, each under a handle, that can be asked for all the intervals *)
(* that overlap a given one, each of them once.                            *)
(***************************************************************************)
EXTENDS Integers, FiniteSets

CONSTANTS Handle,       \* handles of stored intervals (nodes)
          Interval      \* intervals <<low, high>> that are stored or asked for

VARIABLES stored,       \* handle to interval, for the handles in use
          query,        \* the interval of the last query, or << >> after a change
          answer        \* the handles it reported, with their count

Overlaps(i, j) == i[1] <= j[2] /\ j[1] <= i[2]

Init == stored = << >> /\ query = << >> /\ answer = << >>

Insert(i) ==
    \E h \in Handle \ DOMAIN stored :
        /\ stored' = [g \in DOMAIN stored \cup {h} |-> IF g = h THEN i ELSE stored[g]]
        /\ query' = << >> /\ answer' = << >>

Delete(h) ==
    /\ h \in DOMAIN stored
    /\ stored' = [g \in DOMAIN stored \ {h} |-> stored[g]]
    /\ query' = << >> /\ answer' = << >>

Enumerate(i) ==
    /\ query' = i
    /\ answer' = [h \in {g \in DOMAIN stored : Overlaps(stored[g], i)} |-> 1]
    /\ UNCHANGED stored

Next == \/ \E i \in Interval : Insert(i) \/ Enumerate(i)
        \/ \E h \in Handle : Delete(h)

Spec == Init /\ [][Next]_<<stored, query, answer>>

=============================================================================
