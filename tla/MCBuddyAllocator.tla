-------------------------- MODULE MCBuddyAllocator --------------------------
(* BuddyAllocator with small pools *)
EXTENDS BuddyAllocator

\* Orders 0 to 2, and the one that is too large
Size3 == [k \in 0..3 |-> 2^k]
=============================================================================
