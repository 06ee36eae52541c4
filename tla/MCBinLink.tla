------------------------------ MODULE MCBinLink ------------------------------
(* Three sections and up to three directives.  The attributes include starts   *)
(* before and after the origin, forward, backward, circular and unknown        *)
(* follows, and alignments above and below each other.                         *)
EXTENDS BinLink

Sects == {".text", ".data", ".bss"}

Attrs == { [start |-> 2], [start |-> 16], [start |-> Complex],
           [follows |-> ".text"], [follows |-> ".data"], [follows |-> ".bss"],
           [follows |-> "nowhere"], [start |-> 2, follows |-> ".text"],
           [valign |-> 16, bss |-> FALSE], [align |-> 16], [align |-> 8, content |-> 16],
           [vstart |-> 6], [vfollows |-> ".text"], [vfollows |-> ".data"] }

Orgs == {4, -1, Complex}

=============================================================================
