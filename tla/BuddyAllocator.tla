--------------------------- MODULE BuddyAllocator ---------------------------
(***************************************************************************)
(* The physical page allocator of RexOS, kernel/kalloc.c.                  *)
(*                                                                         *)
(* Pages are named by their index in page_array.  A free list, linked      *)
(* through next_idx and prev_idx in the code, is a sequence, head first.   *)
(* kalloc and kfree hold kalloc_lock from their first statement to their   *)
(* last, so each is one step; a hart that panics inside keeps the lock, and *)
(* no call ever returns again.                                             *)
(***************************************************************************)
EXTENDS Integers, Sequences, Functions, Lists

CONSTANTS
  MaxOrder,    \* MAX_ORDER, 12 in the code
  Size,        \* Size[k]: 1 << k, the pages in a block of order k
  PoolStart,   \* the first page after the kernel and page_array, rounded up
  TotalPages,  \* pages of RAM
  Request      \* the orders callers ask for

Order == 0..MaxOrder - 1
Top   == MaxOrder - 1
Page  == 0..TotalPages - 1
Pool  == PoolStart..TotalPages - 1

\* kalloc_init rounds PoolStart up to the largest block and panics (106) if
\* that leaves nothing.  It does not check that RAM ends on such a boundary:
\* here it does, as in the machines the Makefile starts.
ASSUME BuddyAssumption ==
  /\ MaxOrder \in Nat \ {0}
  /\ DOMAIN Size = 0..MaxOrder /\ Size[0] = 1
  /\ \A k \in Order : Size[k + 1] = 2 * Size[k]
  /\ PoolStart \in Nat /\ TotalPages \in Nat /\ PoolStart < TotalPages
  /\ PoolStart % Size[Top] = 0 /\ TotalPages % Size[Top] = 0
  /\ Request \subseteq Nat

VARIABLES
  flag,    \* flag[p]: 0 heads a free block, 1 heads a block in use, 2 neither
  order,   \* order[p]: of the block p heads
  free,    \* free[k]: free_lists[k]
  held,    \* history: the blocks handed out and not given back
  refused, \* history: the order kalloc refused, in a set, or {}
  panic    \* the argument of kpanic, or 0

vars == <<flag, order, free, held, refused, panic>>

TypeOK ==
  /\ flag \in [Page -> 0..2]
  /\ order \in [Page -> Order]
  /\ free \in [Order -> Seq(Page)]
  /\ held \subseteq [first : Pool, order : Order]
  /\ refused \in SUBSET Request
  /\ panic \in {0, 100, 101, 103, 105}

\* The pool is cut into largest blocks, each pushed on its list in turn.
Init ==
  LET blocks == (TotalPages - PoolStart) \div Size[Top]
  IN  free = [k \in Order |->
                IF k = Top
                THEN [n \in 1..blocks |-> TotalPages - n * Size[Top]]
                ELSE <<>>]
  /\ flag = [p \in Page |-> IF p \in Range(free[Top]) THEN 0 ELSE 2]
  /\ order = [p \in Page |-> IF p \in Range(free[Top]) THEN Top ELSE 0]
  /\ held = {}
  /\ refused = {}
  /\ panic = 0

-----------------------------------------------------------------------------
(* kalloc *)

\* Variant: the half that is kept goes on the list.
HalvesLower(i, k, c) == [j \in k..c - 1 |-> i]

\* The upper halves of the block at i, from order c down to k
Halves(i, k, c) == [j \in k..c - 1 |-> i + Size[j]]

\* The list without the block that is taken
Rest(s) == Tail(s)

\* Take the first block of the smallest order there is and halve it until
\* it has order k.
Kalloc(k) ==
  /\ panic = 0 /\ k \in Order
  /\ LET fit == {j \in k..Top : free[j] # <<>>}
         c   == Least(fit)
         i   == Head(free[c])
         up  == Halves(i, k, c)
     IN
     /\ fit # {}
     /\ free' = [j \in Order |->
                   IF j = c THEN Rest(free[j])
                   ELSE IF j \in DOMAIN up THEN <<up[j]>> \o free[j]
                   ELSE free[j]]
     /\ flag' = [p \in Page |->
                   IF p = i THEN 1 ELSE IF p \in Range(up) THEN 0 ELSE flag[p]]
     /\ order' = [p \in Page |->
                    IF p = i THEN k
                    ELSE IF p \in Range(up) THEN Inverse(up, DOMAIN up, Range(up))[p]
                    ELSE order[p]]
     /\ held' = held \cup {[first |-> i, order |-> k]}
  /\ UNCHANGED <<refused, panic>>

\* kpanic(100) for an order that does not exist, kpanic(101) when no list
\* has a block that is large enough
KallocPanics(k) ==
  /\ panic = 0
  /\ \A j \in Order : j >= k => free[j] = <<>>
  /\ panic' = IF k \in Order THEN 101 ELSE 100
  /\ refused' = {k}
  /\ UNCHANGED <<flag, order, free, held>>

-----------------------------------------------------------------------------
(* kfree *)

\* idx ^ (1 << k), and idx with that bit cleared
Buddy(i, k) == IF (i \div Size[k]) % 2 = 0 THEN i + Size[k] ELSE i - Size[k]
Base(i, k)  == i - (i % Size[k])

\* Variants: any free buddy is merged, a smaller one too; or no lower one.
MergeableAnyOrder(i, k) ==
  Buddy(Base(i, k), k) \in Page /\ flag[Buddy(Base(i, k), k)] = 0

MergeableUpper(i, k) ==
  LET b == Buddy(Base(i, k), k)
  IN  b > i /\ b \in Page /\ flag[b] = 0 /\ order[b] = k

\* The block of order k that i is in by now can be merged with its buddy.
Mergeable(i, k) ==
  LET b == Buddy(Base(i, k), k)
  IN  b \in Page /\ flag[b] = 0 /\ order[b] = k

MergeLimit == Top

\* The order at which the merging ends
Merged(i, k) ==
  Greatest({m \in k..MergeLimit : \A j \in k..m - 1 : Mergeable(i, j)})

\* Give back the block that p heads, merging it with its buddy as long as
\* that is free and whole.  A buddy loses its flag; p itself keeps flag 1
\* when it becomes the upper half of a larger block.
Kfree(p) ==
  /\ panic = 0 /\ flag[p] = 1
  /\ LET k == order[p]
         m == Merged(p, k)
         b == [j \in k..m - 1 |-> Buddy(Base(p, j), j)]
         i == Base(p, m)
     IN
     /\ free' = [j \in Order |->
                   IF j = m THEN <<i>> \o free[j]
                   ELSE IF j \in DOMAIN b THEN Remove(free[j], b[j])
                   ELSE free[j]]
     /\ flag' = [q \in Page |->
                   IF q = i THEN 0 ELSE IF q \in Range(b) THEN 2 ELSE flag[q]]
     /\ order' = [q \in Page |->
                    IF q = i THEN m ELSE IF q \in Range(b) THEN 0 ELSE order[q]]
  /\ UNCHANGED <<refused, panic>>

\* kpanic(103) for a page that heads a free block, kpanic(105) for one that
\* heads none
KfreePanics(p) ==
  /\ panic = 0 /\ flag[p] # 1
  /\ panic' = IF flag[p] = 0 THEN 103 ELSE 105
  /\ UNCHANGED <<flag, order, free, refused>>

-----------------------------------------------------------------------------
\* The kernel gives back a block it was handed ...
Release(b) ==
  /\ Kfree(b.first)
  /\ held' = held \ {b}

\* ... or, by mistake, a page that heads none of them, if kfree notices.  It
\* does not notice a page that was merged into a lower block: what follows
\* that is outside this specification, as nobody in the kernel does it.
Unheld(p) == \A b \in held : b.first # p

ReleaseCaught(p) == Unheld(p) /\ KfreePanics(p) /\ UNCHANGED held

Next ==
  \/ \E k \in Request : Kalloc(k) \/ KallocPanics(k)
  \/ \E b \in held : Release(b)
  \/ \E p \in Page : ReleaseCaught(p)

Spec == Init /\ [][Next]_vars

-----------------------------------------------------------------------------
Alloc == INSTANCE Allocator WITH Page <- Pool

\* The allocator keeps the promise of Allocator: blocks handed out are aligned
\* and never overlap, the block given back is the one that becomes free, and
\* "[Out of Physical Memory]" (main.c:131) is said only when no aligned block
\* of the order asked for is free: the merging leaves no room unused.
Implements == Alloc!Spec

FreeBlocks ==
  UNION {{[first |-> p, order |-> k] : p \in Range(free[k])} : k \in Order}

\* Every page of the pool is in exactly one block, free or handed out, and
\* no block is linked twice: splitting and merging neither lose pages nor use
\* them twice.  (kalloc.c:82-96 and 123-158 relink blocks by hand.)
Partition ==
  /\ \A k \in Order : IsInjective(free[k])
  /\ \A p \in Pool : \E b \in held \cup FreeBlocks : p \in Alloc!Extent(b)
  /\ \A b, c \in held \cup FreeBlocks :
       b # c => Alloc!Extent(b) \cap Alloc!Extent(c) = {}

\* page_array says of the head of a block what the block is; kfree decides
\* by it what to merge and how much to give back.
FlagsExact ==
  /\ \A b \in held : flag[b.first] = 1 /\ order[b.first] = b.order
  /\ \A p \in Page : flag[p] = 0 <=>
       \E k \in Order : p \in Range(free[k]) /\ order[p] = k

=============================================================================
