----------------------------- MODULE TokenQueue -----------------------------
(* What a parser may expect of a preprocessor: the tokens that it will get,   *)
(* in order, and the tokens that it can take back.                            *)
EXTENDS Naturals, Sequences

CONSTANTS Token,        \* what the parser gets
          MaxLook       \* how far it looks ahead

VARIABLES pending,      \* the tokens to come, up to the end of the main file
          past,         \* the tokens taken since the oldest mark
          marks,        \* how many of them each mark keeps
          got           \* the answer to the last Lex or LookAhead

vars == <<pending, past, marks, got>>

Init ==
    /\ pending \in Seq(Token)
    /\ past = << >>
    /\ marks = << >>
    /\ got \in Token

\* The next token; it can be taken back if there is a mark.
Lex ==
    /\ pending # << >>
    /\ got' = Head(pending)
    /\ pending' = Tail(pending)
    /\ past' = IF marks = << >> THEN << >> ELSE Append(past, Head(pending))
    /\ UNCHANGED marks

\* Looking ahead takes nothing.
LookAhead(n) ==
    /\ n < Len(pending)
    /\ got' = pending[n + 1]
    /\ UNCHANGED <<pending, past, marks>>

\* Tokens put in front of those to come.
Enter ==
    /\ \E n \in 0..Len(pending') :
           /\ SubSeq(pending', n + 1, Len(pending')) = pending
           /\ \A i \in 1..n : pending'[i] \in Token
    /\ UNCHANGED <<past, marks, got>>

Mark == marks' = Append(marks, Len(past)) /\ UNCHANGED <<pending, past, got>>

Outer == SubSeq(marks, 1, Len(marks) - 1)

Commit ==
    /\ marks # << >>
    /\ marks' = Outer
    /\ past' = IF Outer = << >> THEN << >> ELSE past
    /\ UNCHANGED <<pending, got>>

\* The n last tokens are to come again.
GiveBack(n) == pending' = SubSeq(past, Len(past) - n + 1, Len(past)) \o pending

Backtrack ==
    /\ marks # << >>
    /\ GiveBack(Len(past) - marks[Len(marks)])
    /\ marks' = Outer
    /\ past' = IF Outer = << >> THEN << >> ELSE SubSeq(past, 1, marks[Len(marks)])
    /\ UNCHANGED got

Revert(n) ==
    /\ marks # << >>
    /\ n \in 0..(Len(past) - marks[Len(marks)])
    /\ GiveBack(n)
    /\ past' = SubSeq(past, 1, Len(past) - n)
    /\ UNCHANGED <<marks, got>>

Next ==
    \/ Lex \/ Enter \/ Mark \/ Commit \/ Backtrack
    \/ \E n \in 0..MaxLook : LookAhead(n) \/ Revert(n)

Spec == Init /\ [][Next]_vars

=============================================================================
