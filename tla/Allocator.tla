----------------------------- MODULE Allocator -----------------------------
(* What a page allocator promises: blocks of consecutive pages, aligned to   *)
(* their size, no two of which overlap; a block is refused only when none of *)
(* its size is free, and after that nothing is handed out any more.          *)
EXTENDS Integers

CONSTANTS
  Page,    \* the pages of the pool
  Order,   \* the orders blocks have
  Size,    \* Size[k]: pages in a block of order k
  Request  \* the orders callers ask for

VARIABLES
  held,    \* the blocks handed out
  refused  \* the order of the request that was refused, in a set, or {}

Extent(b) == b.first..(b.first + Size[b.order] - 1)

Block == {b \in [first : Page, order : Order] :
            b.first % Size[b.order] = 0 /\ Extent(b) \subseteq Page}

Fits(b) == \A c \in held : Extent(b) \cap Extent(c) = {}

Init == held = {} /\ refused = {}

Alloc(b) ==
  /\ refused = {} /\ Fits(b)
  /\ held' = held \cup {b}
  /\ UNCHANGED refused

Free(b) ==
  /\ refused = {} /\ b \in held
  /\ held' = held \ {b}
  /\ UNCHANGED refused

\* A request for an order that does not exist, or for more than there is
Refuse(k) ==
  /\ refused = {}
  /\ \A b \in Block : b.order = k => ~Fits(b)
  /\ refused' = {k}
  /\ UNCHANGED held

Next == (\E b \in Block : Alloc(b) \/ Free(b)) \/ (\E k \in Request : Refuse(k))

Spec == Init /\ [][Next]_<<held, refused>>
=============================================================================
