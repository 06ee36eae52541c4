---------------------------- MODULE MCGasParser -----------------------------
(* Short programs over the lines that interact: conditionals with every kind  *)
(* of operand; repetitions around conditionals, labels and files; sections.   *)
EXTENDS GasParser

UpTo(n, lines) == UNION {[1..k -> lines] : k \in 0..n}

Conditions == { <<".if", "0">>, <<".if", "1">>, <<".if", "sym">>, <<".ifnb">>, <<".else">>,
                <<".elseif", "0">>, <<".elseif", "1">>, <<".endif">>, <<".byte", "2">> }

Repetitions == { <<".rept", "0">>, <<".rept", "2">>, <<".endr">>, <<".if", "0">>, <<".endif">>,
                 <<"1", ":">>, <<".byte", "1b">>, <<".byte", "1f">>, <<".include", "two">> }

Loops == { <<".rept", "2">>, <<".endr">>, <<"1", ":">>, <<".byte", "1b">>, <<".byte", "1f">> }

SectionLines == { <<".data">>, <<".pushsection", ".data">>, <<".popsection">>, <<".previous">>,
                  <<".lcomm", "v">> }

Odd == { << <<".if">> >>, << <<".rept", "sym">>, <<".endr">> >>, << <<".rept">> >>,
         << <<".ifb", "2">>, <<".byte", "2">>, <<".endif">> >>, << <<".ifb">>, <<".byte", "2">>, <<".endif">> >>,
         << <<".ifnb", "2">>, <<".byte", "2">>, <<".endif">> >>, << <<".pushsection">>, <<".text">> >>,
         << <<".include">> >>, << <<".include", "none">> >>, << <<".include", "self">>, <<".byte">> >>,
         << <<"sym">>, <<"1">>, <<":">> >> }

Main == UpTo(5, Conditions) \cup UpTo(4, Repetitions) \cup UpTo(5, Loops) \cup UpTo(5, SectionLines) \cup Odd

Found == [f \in {"two", "self"} |->
             IF f = "two" THEN << <<"1", ":">>, <<".byte", "1b">> >>
             ELSE << <<".byte", "2">>, <<".include", "self">>, <<".byte", "1">> >>]

=============================================================================
