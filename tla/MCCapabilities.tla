--------------------------- MODULE MCCapabilities ---------------------------
(* Capabilities with two processes whose tables lie next to each other *)
EXTENDS Capabilities

\* Process 2's table lies right before the shell's; other memory follows.
RootsAdjacent == [p \in Proc |-> IF p = 1 THEN 1 ELSE 0]

\* A word of zeros, and one with every bit set
ZerosAndOnes == {[i \in Index |-> {}], [i \in Index |-> Right]}
=============================================================================
