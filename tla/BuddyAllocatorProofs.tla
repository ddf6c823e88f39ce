------------------------ MODULE BuddyAllocatorProofs ------------------------
(***************************************************************************)
(* Theorems about BuddyAllocator, for any number of orders and any pool.   *)
(* First the numbers: blocks are aligned intervals, of which two are either *)
(* nested or apart.  Then sets of blocks that tile the pool, and what       *)
(* splitting and merging do to such a tiling.  Then the lists and flags.    *)
(***************************************************************************)
EXTENDS BuddyAllocator, ListLemmas

-----------------------------------------------------------------------------
(* Aligned intervals *)

\* An aligned interval that meets a larger one is in it.
LEMMA MulNested ==
  ASSUME NEW a \in Nat, NEW b \in Nat, NEW d \in Nat, NEW q \in Nat, NEW w \in Nat,
         a * d <= w, w < a * d + d, b * (q * d) <= w, w < b * (q * d) + q * d
  PROVE  b * (q * d) <= a * d /\ a * d + d <= b * (q * d) + q * d
OBVIOUS

-----------------------------------------------------------------------------
(* Sizes of blocks *)

LEMMA Numbers ==
  /\ MaxOrder \in Nat \ {0} /\ Top \in Nat /\ Top \in Order
  /\ Order = 0..Top /\ Order \subseteq Nat
  /\ PoolStart \in Nat /\ TotalPages \in Nat
  /\ Pool \subseteq Page /\ Page \subseteq Nat
  /\ \A w : w \in Pool <=> w \in Nat /\ PoolStart <= w /\ w < TotalPages
BY BuddyAssumption DEF Order, Top, Pool, Page

LEMMA SizeFacts == \A k \in Order : Size[k] \in Nat \ {0}
<1> DEFINE S == {k \in Order : Size[k] \notin Nat \ {0}}
<1> SUFFICES ASSUME S # {}  PROVE FALSE
  OBVIOUS
<1>1. S \in SUBSET Nat  BY Numbers
<1>2. Least(S) \in S /\ \A j \in S : Least(S) <= j  BY <1>1, LeastFacts
<1>3. PICK k \in S : \A j \in S : k <= j  BY <1>2
<1>4. k \in Order /\ k \in Nat  BY <1>1
<1>5. k # 0  BY <1>4, BuddyAssumption
<1>6. k - 1 \in Order /\ k - 1 < k  BY <1>4, <1>5, Numbers
<1>7. Size[k - 1] \in Nat \ {0}  BY <1>3, <1>6, Numbers
<1>8. Size[(k - 1) + 1] = 2 * Size[k - 1]  BY <1>6, BuddyAssumption
<1>9. (k - 1) + 1 = k  BY <1>4
<1> QED  BY <1>3, <1>7, <1>8, <1>9

LEMMA SizeDivides ==
  ASSUME NEW j \in Order, NEW k \in Order, j <= k
  PROVE  \E q \in Nat \ {0} : Size[k] = q * Size[j]
<1> DEFINE Fits(l) == \E q \in Nat \ {0} : Size[l] = q * Size[j]
           S == {l \in Order : j <= l /\ ~Fits(l)}
<1> SUFFICES ASSUME S # {}  PROVE FALSE
  OBVIOUS
<1>1. S \in SUBSET Nat  BY Numbers
<1>2. PICK l \in S : \A i \in S : l <= i  BY <1>1, LeastFacts
<1>3. l \in Order /\ l \in Nat /\ j \in Nat /\ j <= l /\ ~Fits(l)  BY <1>1, <1>2, Numbers
<1>4. Fits(j)  BY SizeFacts
<1>5. l - 1 \in Order /\ j <= l - 1 /\ l - 1 < l /\ (l - 1) + 1 = l
  BY <1>3, <1>4, Numbers
<1>6. Fits(l - 1)
  <2>1. l - 1 \notin S  BY <1>2, <1>5, Numbers
  <2> HIDE DEF Fits
  <2> QED  BY <1>5, <2>1
<1>7. PICK q \in Nat \ {0} : Size[l - 1] = q * Size[j]  BY <1>6
<1>8. Size[l] = 2 * Size[l - 1]  BY <1>5, BuddyAssumption
<1>9. Size[l] = (2 * q) * Size[j]  BY <1>7, <1>8, SizeFacts
<1>10. 2 * q \in Nat \ {0}  OBVIOUS
<1> QED  BY <1>3, <1>9, <1>10

\* A larger block is at least twice the size.
LEMMA SizeGrows ==
  ASSUME NEW j \in Order, NEW k \in Order, j < k
  PROVE  2 * Size[j] <= Size[k]
<1>1. j + 1 \in Order /\ j + 1 <= k  BY Numbers
<1>2. PICK q \in Nat \ {0} : Size[k] = q * Size[j + 1]  BY <1>1, SizeDivides
<1>3. Size[j + 1] = 2 * Size[j]  BY BuddyAssumption
<1>4. Size[j] \in Nat \ {0}  BY SizeFacts
<1>5. Size[j + 1] \in Nat  BY <1>3, <1>4
<1>6. 1 * Size[j + 1] <= q * Size[j + 1]  BY <1>5, MulMono
<1> QED  BY <1>2, <1>3, <1>4, <1>5, <1>6

-----------------------------------------------------------------------------
(* Aligned intervals *)

Aligned(x, k) == \E n \in Nat : x = n * Size[k]

\* w is in the interval of order k at x
In(w, x, k) == x <= w /\ w < x + Size[k]

LEMMA AlignedMod ==
  ASSUME NEW x \in Nat, NEW k \in Order
  PROVE  x % Size[k] = 0 <=> Aligned(x, k)
<1>1. Size[k] \in Nat \ {0}  BY SizeFacts
<1>2. ASSUME x % Size[k] = 0  PROVE Aligned(x, k)
  <2>1. x \div Size[k] \in Nat /\ x = (x \div Size[k]) * Size[k] + (x % Size[k])
    BY <1>1, DivMod
  <2>2. (x \div Size[k]) * Size[k] \in Nat  BY <1>1, <2>1, MulNat
  <2>3. x = (x \div Size[k]) * Size[k]  BY <1>2, <2>1, <2>2
  <2> QED  BY <2>1, <2>3 DEF Aligned
<1>3. ASSUME Aligned(x, k)  PROVE x % Size[k] = 0
  <2>1. PICK n \in Nat : x = n * Size[k]  BY <1>3 DEF Aligned
  <2> QED  BY <1>1, <2>1, DivModOf
<1> QED  BY <1>2, <1>3

\* Two intervals that meet are nested.
LEMMA Nested ==
  ASSUME NEW x \in Nat, NEW y \in Nat, NEW w \in Nat, NEW k \in Order, NEW m \in Order,
         k <= m, Aligned(x, k), Aligned(y, m), In(w, x, k), In(w, y, m)
  PROVE  y <= x /\ x + Size[k] <= y + Size[m]
<1>1. PICK a \in Nat : x = a * Size[k]  BY DEF Aligned
<1>2. PICK b \in Nat : y = b * Size[m]  BY DEF Aligned
<1>3. PICK q \in Nat \ {0} : Size[m] = q * Size[k]  BY SizeDivides
<1>4. Size[k] \in Nat  BY SizeFacts
<1>5. y = b * (q * Size[k])  BY <1>2, <1>3
<1>6. /\ a * Size[k] <= w /\ w < a * Size[k] + Size[k]
      /\ b * (q * Size[k]) <= w /\ w < b * (q * Size[k]) + q * Size[k]
  BY <1>1, <1>3, <1>5 DEF In
<1>7. /\ b * (q * Size[k]) <= a * Size[k]
      /\ a * Size[k] + Size[k] <= b * (q * Size[k]) + q * Size[k]
  BY <1>4, <1>6, MulNested
<1> QED  BY <1>1, <1>3, <1>5, <1>7

LEMMA AlignedUnique ==
  ASSUME NEW x \in Nat, NEW y \in Nat, NEW w \in Nat, NEW k \in Order,
         Aligned(x, k), Aligned(y, k), In(w, x, k), In(w, y, k)
  PROVE  x = y
<1>1. k <= k  BY Numbers
<1>2. y <= x /\ x <= y  BY <1>1, Nested
<1> QED  BY <1>2

LEMMA AlignedDown ==
  ASSUME NEW x \in Nat, NEW k \in Order, NEW m \in Order, k <= m, Aligned(x, m)
  PROVE  Aligned(x, k)
<1>1. PICK n \in Nat : x = n * Size[m]  BY DEF Aligned
<1>2. PICK q \in Nat \ {0} : Size[m] = q * Size[k]  BY SizeDivides
<1>3. Size[k] \in Nat  BY SizeFacts
<1>4. x = (n * q) * Size[k]  BY <1>1, <1>2, <1>3
<1>5. n * q \in Nat  BY MulNat
<1> QED  BY <1>4, <1>5 DEF Aligned

\* Base(p, k) is the interval of order k that p is in.
LEMMA BaseFacts ==
  ASSUME NEW p \in Nat, NEW k \in Order
  PROVE  Base(p, k) \in Nat /\ Aligned(Base(p, k), k) /\ In(p, Base(p, k), k)
<1>1. Size[k] \in Nat \ {0}  BY SizeFacts
<1>2. /\ p \div Size[k] \in Nat /\ p % Size[k] \in 0..Size[k] - 1
      /\ p = (p \div Size[k]) * Size[k] + (p % Size[k])
  BY <1>1, DivMod
<1>3. (p \div Size[k]) * Size[k] \in Nat  BY <1>1, <1>2, MulNat
<1>4. Base(p, k) = (p \div Size[k]) * Size[k]  BY <1>1, <1>2, <1>3 DEF Base
<1>5. Aligned(Base(p, k), k)  BY <1>2, <1>4 DEF Aligned
<1>6. In(p, Base(p, k), k)
  <2>1. PICK r \in 0..Size[k] - 1, z \in Nat : r = p % Size[k] /\ z = Base(p, k)
    BY <1>2, <1>3, <1>4
  <2>2. p = z + r  BY <1>2, <1>4, <2>1
  <2>3. z <= p /\ p < z + Size[k]  BY <1>1, <2>1, <2>2
  <2> QED  BY <2>1, <2>3 DEF In
<1> QED  BY <1>3, <1>4, <1>5, <1>6

LEMMA NextOrder ==
  ASSUME NEW k \in Order, k < Top
  PROVE  /\ k \in Nat /\ k + 1 \in Order
         /\ Size[k] \in Nat \ {0} /\ Size[k + 1] = 2 * Size[k]
<1>1. k \in Nat /\ k + 1 \in Order  BY Numbers
<1>2. Size[k + 1] = 2 * Size[k]  BY BuddyAssumption
<1> QED  BY <1>1, <1>2, SizeFacts

\* Two buddies are the halves of an interval of the next order.
LEMMA HalfBuddy ==
  ASSUME NEW i \in Nat, NEW k \in Order, k < Top, Aligned(i, k + 1)
  PROVE  /\ Size[k + 1] = 2 * Size[k]
         /\ Aligned(i, k) /\ Aligned(i + Size[k], k)
         /\ Buddy(i, k) = i + Size[k] /\ Buddy(i + Size[k], k) = i
<1>1. Size[k] \in Nat \ {0} /\ Size[k + 1] = 2 * Size[k] /\ k + 1 \in Order
  BY NextOrder
<1>2. PICK n \in Nat : i = n * Size[k + 1]  BY DEF Aligned
<1>3. i = (2 * n) * Size[k] /\ i + Size[k] = (2 * n + 1) * Size[k]
  BY <1>1, <1>2
<1>4. 2 * n \in Nat /\ 2 * n + 1 \in Nat  OBVIOUS
<1>5. i \div Size[k] = 2 * n /\ (i + Size[k]) \div Size[k] = 2 * n + 1
  <2>1. ((2 * n) * Size[k]) \div Size[k] = 2 * n  BY <1>1, <1>4, DivModOf
  <2>2. ((2 * n + 1) * Size[k]) \div Size[k] = 2 * n + 1  BY <1>1, <1>4, DivModOf
  <2> QED  BY <1>3, <2>1, <2>2
<1>6. (2 * n) % 2 = 0 /\ (2 * n + 1) % 2 # 0  OBVIOUS
<1>7. Buddy(i, k) = i + Size[k]  BY <1>5, <1>6 DEF Buddy
<1>8. Buddy(i + Size[k], k) = (i + Size[k]) - Size[k]  BY <1>5, <1>6 DEF Buddy
<1>9. (i + Size[k]) - Size[k] = i  BY <1>1
<1> QED  BY <1>1, <1>3, <1>4, <1>7, <1>8, <1>9 DEF Aligned

LEMMA BuddyFacts ==
  ASSUME NEW x \in Nat, NEW k \in Order, k < Top, Aligned(x, k)
  PROVE  LET b == Buddy(x, k)
             i == Base(x, k + 1)
         IN  /\ b \in Nat /\ b # x /\ Aligned(b, k) /\ Buddy(b, k) = x
             /\ i \in Nat /\ Aligned(i, k + 1)
             /\ Size[k + 1] = 2 * Size[k]
             /\ \/ x = i /\ b = i + Size[k]
                \/ x = i + Size[k] /\ b = i
<1> DEFINE i == Base(x, k + 1)
<1>1. Size[k] \in Nat \ {0} /\ Size[k + 1] = 2 * Size[k] /\ k + 1 \in Order
  BY NextOrder
<1>2. i \in Nat /\ Aligned(i, k + 1) /\ In(x, i, k + 1)  BY <1>1, BaseFacts
<1>3. /\ Aligned(i, k) /\ Aligned(i + Size[k], k)
      /\ Buddy(i, k) = i + Size[k] /\ Buddy(i + Size[k], k) = i
  BY <1>2, HalfBuddy
<1> HIDE DEF i
<1>4. x = i \/ x = i + Size[k]
  <2>1. In(x, x, k) /\ i + Size[k] \in Nat  BY <1>1, <1>2 DEF In
  <2>2. CASE x < i + Size[k]
    <3>1. In(x, i, k)  BY <1>2, <2>2 DEF In
    <3> QED  BY <1>2, <1>3, <2>1, <3>1, AlignedUnique
  <2>3. CASE x >= i + Size[k]
    <3>1. In(x, i + Size[k], k)  BY <1>1, <1>2, <2>3 DEF In
    <3> QED  BY <1>2, <1>3, <2>1, <3>1, AlignedUnique
  <2> QED  BY <1>1, <1>2, <2>2, <2>3
<1>5. i # i + Size[k] /\ i + Size[k] \in Nat  BY <1>1, <1>2
<1> QED  BY <1>1, <1>2, <1>3, <1>4, <1>5 DEF i

\* The pool starts and ends on a boundary of the largest blocks.
LEMMA PoolFacts ==
  ASSUME NEW x \in Nat, NEW w \in Pool, NEW k \in Order, Aligned(x, k), In(w, x, k)
  PROVE  x \in Pool /\ x + Size[k] <= TotalPages
<1> DEFINE z == Base(w, Top)
           S == Size[Top]
<1>1. w \in Nat /\ PoolStart <= w /\ w < TotalPages  BY Numbers
<1>2. z \in Nat /\ Aligned(z, Top) /\ In(w, z, Top)  BY <1>1, Numbers, BaseFacts
<1>3. S \in Nat \ {0} /\ Size[k] \in Nat \ {0}  BY SizeFacts, Numbers
<1> HIDE DEF z, S
<1>4. PICK n \in Nat : z = n * S  BY <1>2 DEF Aligned, S
<1>5. PICK s \in Nat, t \in Nat : PoolStart = s * S /\ TotalPages = t * S
  BY AlignedMod, BuddyAssumption, Numbers DEF Aligned, S
<1>6. z <= w /\ w < z + S  BY <1>2 DEF In, S
<1>7. PoolStart <= z
  <2>1. (n + 1) * S = z + S  BY <1>3, <1>4
  <2>2. s * S < (n + 1) * S  BY <1>1, <1>2, <1>3, <1>5, <1>6, <2>1, Numbers
  <2>3. s < n + 1  BY <1>3, <2>2, MulLess
  <2> QED  BY <1>3, <1>4, <1>5, <2>3, MulMono
<1>8. z + S <= TotalPages
  <2>1. n * S < t * S  BY <1>1, <1>2, <1>3, <1>4, <1>5, <1>6, Numbers
  <2>2. n < t  BY <1>3, <2>1, MulLess
  <2>3. (n + 1) * S <= t * S  BY <1>3, <2>2, MulMono
  <2>4. (n + 1) * S = z + S  BY <1>3, <1>4
  <2> QED  BY <1>5, <2>3, <2>4
<1>9. z <= x /\ x + Size[k] <= z + S
  <2>1. k <= Top  BY Numbers
  <2> QED  BY <1>1, <1>2, <2>1, Nested, Numbers DEF S
<1>10. x < TotalPages /\ PoolStart <= x /\ x + Size[k] <= TotalPages
  BY <1>1, <1>2, <1>3, <1>7, <1>8, <1>9, Numbers DEF In
<1> QED  BY <1>10, Numbers

-----------------------------------------------------------------------------
(* Blocks, and sets of blocks that tile the pool *)

Blk(p, k) == [first |-> p, order |-> k]

LEMMA BlkFacts ==
  /\ \A p, k : Blk(p, k).first = p /\ Blk(p, k).order = k
  /\ \A b \in Alloc!Block : b.first \in Pool /\ b.order \in Order
                            /\ b = Blk(b.first, b.order)
BY DEF Blk, Alloc!Block

LEMMA BlkEqual ==
  ASSUME NEW p, NEW k, NEW q, NEW j, Blk(p, k) = Blk(q, j)
  PROVE  p = q /\ k = j
BY BlkFacts

LEMMA ExtentIn ==
  ASSUME NEW p \in Nat, NEW k \in Order, NEW w \in Nat
  PROVE  w \in Alloc!Extent(Blk(p, k)) <=> In(w, p, k)
<1>1. Alloc!Extent(Blk(p, k)) = p..(p + Size[k] - 1)  BY BlkFacts DEF Alloc!Extent
<1>2. Size[k] \in Nat \ {0}  BY SizeFacts
<1> QED  BY <1>1, <1>2 DEF In

LEMMA BlockIff ==
  ASSUME NEW p \in Pool, NEW k \in Order
  PROVE  Blk(p, k) \in Alloc!Block <=> Aligned(p, k)
<1>1. p \in Nat  BY Numbers
<1>2. Blk(p, k) \in [first : Pool, order : Order]  BY DEF Blk
<1>3. Blk(p, k) \in Alloc!Block <=>
        p % Size[k] = 0 /\ Alloc!Extent(Blk(p, k)) \subseteq Pool
  BY <1>2, BlkFacts DEF Alloc!Block
<1>4. Size[k] \in Nat \ {0}  BY SizeFacts
<1>5. ASSUME Aligned(p, k)  PROVE Alloc!Extent(Blk(p, k)) \subseteq Pool
  <2>1. In(p, p, k)  BY <1>1, <1>4 DEF In
  <2>2. p + Size[k] <= TotalPages  BY <1>1, <1>5, <2>1, PoolFacts
  <2>3. Alloc!Extent(Blk(p, k)) = p..(p + Size[k] - 1)  BY BlkFacts DEF Alloc!Extent
  <2>4. ASSUME NEW w \in p..(p + Size[k] - 1)  PROVE w \in Pool
    BY <1>1, <1>4, <2>2, Numbers
  <2> QED  BY <2>3, <2>4
<1> QED  BY <1>1, <1>3, <1>5, AlignedMod

\* What is known of a block
LEMMA BlockFacts ==
  ASSUME NEW b \in Alloc!Block
  PROVE  /\ b.first \in Pool /\ b.first \in Nat /\ b.order \in Order
         /\ Aligned(b.first, b.order)
         /\ In(b.first, b.first, b.order)
         /\ b.first \in Alloc!Extent(b)
         /\ Alloc!Extent(b) \subseteq Pool
         /\ \A w \in Nat : w \in Alloc!Extent(b) <=> In(w, b.first, b.order)
<1>1. b.first \in Pool /\ b.order \in Order /\ b = Blk(b.first, b.order)  BY BlkFacts
<1>2. b.first \in Nat  BY <1>1, Numbers
<1>3. Aligned(b.first, b.order)  BY <1>1, BlockIff
<1>4. Alloc!Extent(b) \subseteq Pool  BY DEF Alloc!Block
<1>5. In(b.first, b.first, b.order)  BY <1>1, <1>2, SizeFacts DEF In
<1>6. \A w \in Nat : w \in Alloc!Extent(b) <=> In(w, b.first, b.order)
  BY <1>1, <1>2, ExtentIn
<1>7. b.first \in Alloc!Extent(b)  BY <1>2, <1>5, <1>6
<1> QED  BY <1>1, <1>2, <1>3, <1>4, <1>5, <1>6, <1>7

Apart(B) == \A b, c \in B : b # c => Alloc!Extent(b) \cap Alloc!Extent(c) = {}
Covered(B) == UNION {Alloc!Extent(b) : b \in B}
Tiles(B) == B \subseteq Alloc!Block /\ Apart(B) /\ Covered(B) = Pool

\* Blocks may be replaced by others that cover the same pages.
LEMMA Retile ==
  ASSUME NEW B, Tiles(B), NEW Old \in SUBSET B,
         NEW New \in SUBSET Alloc!Block, Apart(New), Covered(New) = Covered(Old)
  PROVE  Tiles((B \ Old) \cup New)
<1>1. (B \ Old) \cup New \subseteq Alloc!Block  BY DEF Tiles
<1>2. ASSUME NEW b \in B \ Old, NEW c \in New  PROVE Alloc!Extent(b) \cap Alloc!Extent(c) = {}
  <2>1. ASSUME NEW w \in Alloc!Extent(b), w \in Alloc!Extent(c)  PROVE FALSE
    <3>1. w \in Covered(Old)  BY <2>1 DEF Covered
    <3>2. PICK o \in Old : w \in Alloc!Extent(o)  BY <3>1 DEF Covered
    <3>3. o # b /\ o \in B /\ b \in B  OBVIOUS
    <3> QED  BY <2>1, <3>2, <3>3 DEF Tiles, Apart
  <2> QED  BY <2>1
<1>3. Apart((B \ Old) \cup New)
  <2>1. ASSUME NEW b \in (B \ Old) \cup New, NEW c \in (B \ Old) \cup New, b # c
        PROVE  Alloc!Extent(b) \cap Alloc!Extent(c) = {}
    <3>1. CASE b \in B \ Old /\ c \in B \ Old  BY <2>1, <3>1 DEF Tiles, Apart
    <3>2. CASE b \in New /\ c \in New  BY <2>1, <3>2 DEF Apart
    <3>3. CASE b \in B \ Old /\ c \in New  BY <3>3, <1>2
    <3>4. CASE b \in New /\ c \in B \ Old  BY <3>4, <1>2
    <3> QED  BY <3>1, <3>2, <3>3, <3>4
  <2> QED  BY <2>1 DEF Apart
<1>4. Covered((B \ Old) \cup New) = Covered(B \ Old) \cup Covered(New)
  BY DEF Covered
<1>5. Covered(B) = Covered(B \ Old) \cup Covered(Old)  BY DEF Covered
<1> QED  BY <1>1, <1>3, <1>4, <1>5 DEF Tiles

\* A block of a tiling is the only one on its pages.
LEMMA OnlyOwner ==
  ASSUME NEW B, Tiles(B), NEW b \in B, NEW c \in B, NEW w,
         w \in Alloc!Extent(b), w \in Alloc!Extent(c)
  PROVE  b = c
BY DEF Tiles, Apart

-----------------------------------------------------------------------------
(* The inductive invariant *)

\* The pages that head a block say which block, and free lists hold the blocks
\* their flags say.
HeadsExact ==
  /\ \A b \in held : flag[b.first] = 1 /\ order[b.first] = b.order
  /\ \A k \in Order : \A p \in Range(free[k]) : flag[p] = 0 /\ order[p] = k
  /\ \A p \in Page : flag[p] = 0 => p \in Range(free[order[p]])

\* No two free blocks are buddies: what can be merged has been.
NoBuddies ==
  \A k \in Order : \A p \in Range(free[k]) :
    k < Top => Buddy(p, k) \notin Range(free[k])

BuddyInv ==
  /\ TypeOK
  /\ \A k \in Order : IsInjective(free[k])
  /\ Tiles(held \cup FreeBlocks)
  /\ HeadsExact
  /\ NoBuddies
  /\ panic = 0 => refused = {}

-----------------------------------------------------------------------------
(* Splitting *)

LEMMA SizeMono ==
  ASSUME NEW j \in Order, NEW k \in Order, j <= k
  PROVE  Size[j] <= Size[k]
<1>1. Size[j] \in Nat /\ Size[k] \in Nat /\ j \in Nat /\ k \in Nat  BY SizeFacts, Numbers
<1>2. j = k \/ j < k  BY <1>1
<1>3. j < k => 2 * Size[j] <= Size[k]  BY SizeGrows
<1> QED  BY <1>1, <1>2, <1>3

\* The halves are blocks, and heads of different halves differ.
LEMMA HalvesFacts ==
  ASSUME NEW i \in Pool, NEW k \in Order, NEW c \in Order, k <= c, Aligned(i, c),
         NEW j \in k..c - 1
  PROVE  /\ j \in Order /\ j < Top
         /\ i + Size[j] \in Pool /\ i + Size[j] # i
         /\ Aligned(i + Size[j], j) /\ Aligned(i, j)
         /\ Buddy(i + Size[j], j) = i
         /\ Size[k] <= Size[j] /\ 2 * Size[j] <= Size[c]
<1>1. i \in Nat /\ j \in Nat /\ j \in Order /\ j < Top /\ j + 1 <= c /\ j < c /\ k <= j
  BY Numbers
<1>2. j + 1 \in Order /\ Size[j] \in Nat \ {0}  BY <1>1, NextOrder
<1>3. Aligned(i, j + 1)  BY <1>1, <1>2, AlignedDown
<1>4. Aligned(i, j) /\ Aligned(i + Size[j], j) /\ Buddy(i + Size[j], j) = i
  BY <1>1, <1>3, HalfBuddy
<1>5. Size[k] <= Size[j] /\ 2 * Size[j] <= Size[c]  BY <1>1, SizeMono, SizeGrows
<1>6. Size[c] \in Nat \ {0}  BY SizeFacts
<1>7. In(i, i, c)  BY <1>1, <1>6 DEF In
<1>8. i + Size[c] <= TotalPages  BY <1>1, <1>7, PoolFacts
<1>9. i + Size[j] \in Pool
  <2>1. PICK a \in Nat \ {0}, z \in Nat \ {0} : a = Size[j] /\ z = Size[c]
    BY <1>2, <1>6
  <2>2. PoolStart <= i + a /\ i + a < TotalPages
    BY <1>1, <1>5, <1>8, <2>1, Numbers
  <2> QED  BY <1>1, <2>1, <2>2, Numbers
<1>10. i + Size[j] # i  BY <1>1, <1>2
<1> QED  BY <1>1, <1>4, <1>5, <1>9, <1>10

LEMMA HalvesTile ==
  ASSUME NEW i \in Pool, NEW k \in Order, NEW c \in Order, k <= c, Aligned(i, c)
  PROVE  LET New == {Blk(i, k)} \cup {Blk(i + Size[j], j) : j \in k..c - 1}
         IN  /\ New \subseteq Alloc!Block
             /\ Apart(New)
             /\ Covered(New) = Covered({Blk(i, c)})
<1> DEFINE New == {Blk(i, k)} \cup {Blk(i + Size[j], j) : j \in k..c - 1}
<1>1. i \in Nat /\ k \in Nat /\ c \in Nat /\ Size[k] \in Nat \ {0} /\ Size[c] \in Nat \ {0}
  BY Numbers, SizeFacts
<1>2. Aligned(i, k)  BY <1>1, AlignedDown
<1>3. New \subseteq Alloc!Block
  <2>1. Blk(i, k) \in Alloc!Block  BY <1>2, BlockIff
  <2>2. ASSUME NEW j \in k..c - 1  PROVE Blk(i + Size[j], j) \in Alloc!Block
    BY HalvesFacts, BlockIff
  <2> QED  BY <2>1, <2>2
<1>4. ASSUME NEW w \in Nat, NEW j \in k..c - 1
      PROVE  w \in Alloc!Extent(Blk(i + Size[j], j)) <=> i + Size[j] <= w /\ w < i + 2 * Size[j]
  <2>1. j \in Order /\ i + Size[j] \in Nat /\ Size[j] \in Nat  BY HalvesFacts, SizeFacts, Numbers
  <2> QED  BY <1>1, <2>1, ExtentIn DEF In
<1>5. ASSUME NEW w \in Nat
      PROVE  /\ w \in Alloc!Extent(Blk(i, k)) <=> i <= w /\ w < i + Size[k]
             /\ w \in Alloc!Extent(Blk(i, c)) <=> i <= w /\ w < i + Size[c]
  BY <1>1, ExtentIn DEF In
<1>6. Apart(New)
  <2>1. ASSUME NEW j \in k..c - 1, NEW w \in Nat, w \in Alloc!Extent(Blk(i, k)),
               w \in Alloc!Extent(Blk(i + Size[j], j))
        PROVE  FALSE
    <3>1. Size[k] <= Size[j] /\ Size[j] \in Nat  BY HalvesFacts, SizeFacts
    <3> QED  BY <1>1, <1>4, <1>5, <2>1, <3>1
  <2>2. ASSUME NEW j \in k..c - 1, NEW l \in k..c - 1, j < l, NEW w \in Nat,
               w \in Alloc!Extent(Blk(i + Size[j], j)),
               w \in Alloc!Extent(Blk(i + Size[l], l))
        PROVE  FALSE
    <3>1. j \in Order /\ l \in Order  BY HalvesFacts
    <3>2. 2 * Size[j] <= Size[l] /\ Size[j] \in Nat /\ Size[l] \in Nat
      BY <2>2, <3>1, SizeGrows, SizeFacts
    <3> QED  BY <1>1, <1>4, <2>2, <3>2
  <2>3. ASSUME NEW b \in New, NEW d \in New, b # d, NEW w \in Alloc!Extent(b), w \in Alloc!Extent(d)
        PROVE  FALSE
    <3>1. w \in Nat  BY <1>3, BlockFacts, Numbers
    <3>2. \/ b = Blk(i, k) /\ \E j \in k..c - 1 : d = Blk(i + Size[j], j)
          \/ d = Blk(i, k) /\ \E j \in k..c - 1 : b = Blk(i + Size[j], j)
          \/ \E j, l \in k..c - 1 : b = Blk(i + Size[j], j) /\ d = Blk(i + Size[l], l)
      BY <2>3
    <3>3. CASE \E j, l \in k..c - 1 : b = Blk(i + Size[j], j) /\ d = Blk(i + Size[l], l)
      <4>1. PICK j \in k..c - 1, l \in k..c - 1 : b = Blk(i + Size[j], j) /\ d = Blk(i + Size[l], l)
        BY <3>3
      <4>2. j < l \/ l < j  BY <1>1, <2>3, <4>1
      <4> QED  BY <2>2, <2>3, <3>1, <4>1, <4>2
    <3> QED  BY <2>1, <2>3, <3>1, <3>2, <3>3
  <2> HIDE DEF New
  <2> QED  BY <2>3 DEF Apart
<1>7. ASSUME NEW w \in Nat
      PROVE  (\E b \in New : w \in Alloc!Extent(b)) <=> w \in Alloc!Extent(Blk(i, c))
  <2>1. ASSUME w \in Alloc!Extent(Blk(i, k))  PROVE w \in Alloc!Extent(Blk(i, c))
    BY <1>1, <1>5, <2>1, SizeMono
  <2>2. ASSUME NEW j \in k..c - 1, w \in Alloc!Extent(Blk(i + Size[j], j))
        PROVE  w \in Alloc!Extent(Blk(i, c))
    <3>1. 2 * Size[j] <= Size[c] /\ Size[j] \in Nat  BY HalvesFacts, SizeFacts
    <3> QED  BY <1>1, <1>4, <1>5, <2>2, <3>1
  <2>3. ASSUME w \in Alloc!Extent(Blk(i, c))
        PROVE  \E b \in New : w \in Alloc!Extent(b)
    <3> DEFINE T == {l \in k..c : w < i + Size[l]}
    <3>1. c \in T /\ T \in SUBSET Nat  BY <1>1, <1>5, <2>3
    <3>2. PICK l \in T : \A j \in T : l <= j  BY <3>1, LeastFacts
    <3>3. CASE l = k
      <4>1. w \in Alloc!Extent(Blk(i, k))  BY <1>5, <2>3, <3>2, <3>3
      <4> QED  BY <4>1
    <3>4. CASE l # k
      <4>1. l - 1 \in k..c - 1 /\ l - 1 \in k..c /\ ~(l <= l - 1) /\ (l - 1) + 1 = l  BY <1>1, <3>2, <3>4
      <4>2. l - 1 \in Order /\ l - 1 < Top /\ Size[l - 1] \in Nat
        BY <4>1, HalvesFacts, SizeFacts
      <4>3. Size[l] = 2 * Size[l - 1]  BY <4>1, <4>2, NextOrder
      <4>4. ~(w < i + Size[l - 1])  BY <3>2, <4>1
      <4>5. w \in Alloc!Extent(Blk(i + Size[l - 1], l - 1))
        BY <1>1, <1>4, <3>2, <4>1, <4>2, <4>3, <4>4
      <4>6. Blk(i + Size[l - 1], l - 1) \in New  BY <4>1
      <4> QED  BY <4>5, <4>6
    <3> QED  BY <3>3, <3>4
  <2> QED  BY <2>1, <2>2, <2>3
<1>8. Covered(New) = Covered({Blk(i, c)})
  <2>1. Blk(i, c) \in Alloc!Block  BY BlockIff
  <2> HIDE DEF New
  <2>2. \A b \in New \cup {Blk(i, c)} : Alloc!Extent(b) \subseteq Nat
    BY <1>3, <2>1, BlockFacts, Numbers
  <2> QED  BY <1>7, <2>2 DEF Covered
<1> QED  BY <1>3, <1>6, <1>8

-----------------------------------------------------------------------------
(* Merging *)

LEMMA BaseSelf ==
  ASSUME NEW p \in Nat, NEW k \in Order, Aligned(p, k)
  PROVE  Base(p, k) = p
<1>1. Base(p, k) \in Nat /\ Aligned(Base(p, k), k) /\ In(p, Base(p, k), k)  BY BaseFacts
<1>2. In(p, p, k)  BY SizeFacts DEF In
<1> QED  BY <1>1, <1>2, AlignedUnique

LEMMA BaseNested ==
  ASSUME NEW p \in Nat, NEW j \in Order, NEW m \in Order, j <= m
  PROVE  Base(p, m) <= Base(p, j) /\ Base(p, j) + Size[j] <= Base(p, m) + Size[m]
<1>1. Base(p, j) \in Nat /\ Aligned(Base(p, j), j) /\ In(p, Base(p, j), j)  BY BaseFacts
<1>2. Base(p, m) \in Nat /\ Aligned(Base(p, m), m) /\ In(p, Base(p, m), m)  BY BaseFacts
<1> QED  BY <1>1, <1>2, Nested

LEMMA InNested ==
  ASSUME NEW p \in Nat, NEW j \in Order, NEW m \in Order, j <= m,
         NEW w \in Nat, In(w, Base(p, j), j)
  PROVE  In(w, Base(p, m), m)
<1>1. Base(p, j) \in Nat /\ Base(p, m) \in Nat  BY BaseFacts
<1>2. Size[j] \in Nat /\ Size[m] \in Nat  BY SizeFacts
<1>3. Base(p, m) <= Base(p, j) /\ Base(p, j) + Size[j] <= Base(p, m) + Size[m]
  BY BaseNested
<1> QED  BY <1>1, <1>2, <1>3 DEF In

LEMMA BaseNext ==
  ASSUME NEW p \in Nat, NEW k \in Order, k < Top
  PROVE  Base(Base(p, k), k + 1) = Base(p, k + 1)
<1> DEFINE x == Base(p, k)
           y == Base(p, k + 1)
           z == Base(x, k + 1)
<1>1. k \in Nat /\ k + 1 \in Order /\ k <= k + 1  BY NextOrder
<1>2. x \in Nat /\ Aligned(x, k) /\ In(p, x, k)  BY BaseFacts
<1>3. y \in Nat /\ Aligned(y, k + 1) /\ In(p, y, k + 1)  BY <1>1, BaseFacts
<1>4. z \in Nat /\ Aligned(z, k + 1) /\ In(x, z, k + 1)  BY <1>1, <1>2, BaseFacts
<1>5. Base(x, k) = x  BY <1>2, BaseSelf
<1>6. In(p, Base(x, k), k)  BY <1>2, <1>5
<1> HIDE DEF x, y, z
<1>7. In(p, Base(x, k + 1), k + 1)  BY <1>1, <1>2, <1>6, InNested
<1>8. In(p, z, k + 1)  BY <1>7 DEF z
<1>9. z = y  BY <1>1, <1>3, <1>4, <1>8, AlignedUnique
<1> QED  BY <1>9 DEF x, y, z

\* A block and its buddy are exactly the block they merge into.
LEMMA MergeFacts ==
  ASSUME NEW p \in Pool, NEW j \in Order, j < Top
  PROVE  LET x == Base(p, j)
             b == Buddy(x, j)
         IN  /\ x \in Pool /\ b \in Pool /\ b # x
             /\ Aligned(x, j) /\ Aligned(b, j) /\ Buddy(b, j) = x
             /\ \A w \in Nat : In(w, Base(p, j + 1), j + 1) <=> In(w, x, j) \/ In(w, b, j)
<1> DEFINE x == Base(p, j)
           b == Buddy(x, j)
           i == Base(p, j + 1)
<1>1. p \in Nat  BY Numbers
<1>2. x \in Nat /\ Aligned(x, j) /\ In(p, x, j)  BY <1>1, BaseFacts
<1>3. j + 1 \in Order /\ Size[j] \in Nat \ {0} /\ Size[j + 1] = 2 * Size[j]  BY NextOrder
<1>4. Base(x, j + 1) = i  BY <1>1, BaseNext
<1>5. i \in Nat /\ Aligned(i, j + 1) /\ In(p, i, j + 1)  BY <1>1, <1>3, BaseFacts
<1> HIDE DEF x
<1>6. /\ b \in Nat /\ b # x /\ Aligned(b, j) /\ Buddy(b, j) = x
      /\ \/ x = i /\ b = i + Size[j]
         \/ x = i + Size[j] /\ b = i
  BY <1>2, <1>4, BuddyFacts
<1> HIDE DEF b, i
<1>7. \A w \in Nat : In(w, i, j + 1) <=> In(w, x, j) \/ In(w, b, j)
  BY <1>3, <1>5, <1>6 DEF In
<1>8. x \in Pool  BY <1>2, PoolFacts
<1>9. i \in Pool /\ i + Size[j + 1] <= TotalPages  BY <1>3, <1>5, PoolFacts
<1>10. b \in Pool
  <2>1. b = i \/ b = i + Size[j]  BY <1>6
  <2>2. PICK a \in Nat \ {0} : a = Size[j]  BY <1>3
  <2>3. i + a < TotalPages  BY <1>3, <1>5, <1>9, <2>2, Numbers
  <2>4. i + a \in Pool  BY <1>9, <2>2, <2>3, Numbers
  <2> QED  BY <1>9, <2>1, <2>2, <2>4
<1> QED  BY <1>2, <1>6, <1>7, <1>8, <1>10 DEF x, b, i

LEMMA MergeTile ==
  ASSUME NEW p \in Pool, NEW k \in Order, NEW m \in Order, k <= m, Aligned(p, k)
  PROVE  LET Old == {Blk(p, k)} \cup {Blk(Buddy(Base(p, j), j), j) : j \in k..m - 1}
         IN  /\ Base(p, m) \in Pool /\ Aligned(Base(p, m), m)
             /\ Blk(Base(p, m), m) \in Alloc!Block
             /\ Covered({Blk(Base(p, m), m)}) = Covered(Old)
<1> DEFINE Old == {Blk(p, k)} \cup {Blk(Buddy(Base(p, j), j), j) : j \in k..m - 1}
           i == Base(p, m)
<1>1. p \in Nat /\ k \in Nat /\ m \in Nat  BY Numbers
<1>2. i \in Nat /\ Aligned(i, m) /\ In(p, i, m)  BY <1>1, BaseFacts
<1>3. i \in Pool  BY <1>2, PoolFacts
<1>4. Blk(i, m) \in Alloc!Block  BY <1>2, <1>3, BlockIff
<1>5. Base(p, k) = p  BY <1>1, BaseSelf
<1>6. ASSUME NEW j \in k..m - 1
      PROVE  /\ j \in Order /\ j < Top /\ j + 1 \in Order /\ j + 1 <= m
             /\ Buddy(Base(p, j), j) \in Pool
             /\ Aligned(Buddy(Base(p, j), j), j)
  <2>1. j \in Order /\ j < Top /\ j + 1 \in Order /\ j + 1 <= m  BY <1>1, Numbers
  <2> QED  BY <2>1, MergeFacts
<1>7. Old \subseteq Alloc!Block
  <2>1. Blk(p, k) \in Alloc!Block  BY BlockIff
  <2>2. ASSUME NEW j \in k..m - 1  PROVE Blk(Buddy(Base(p, j), j), j) \in Alloc!Block
    BY <1>6, BlockIff
  <2> QED  BY <2>1, <2>2
<1>8. ASSUME NEW w \in Nat, NEW j \in k..m - 1
      PROVE  w \in Alloc!Extent(Blk(Buddy(Base(p, j), j), j)) <=> In(w, Buddy(Base(p, j), j), j)
  BY <1>6, ExtentIn, Numbers
<1>9. ASSUME NEW w \in Nat
      PROVE  /\ w \in Alloc!Extent(Blk(p, k)) <=> In(w, Base(p, k), k)
             /\ w \in Alloc!Extent(Blk(i, m)) <=> In(w, i, m)
  BY <1>1, <1>2, <1>5, ExtentIn
<1>10. ASSUME NEW w \in Nat
       PROVE  (\E b \in Old : w \in Alloc!Extent(b)) <=> w \in Alloc!Extent(Blk(i, m))
  <2>1. ASSUME w \in Alloc!Extent(Blk(p, k))  PROVE w \in Alloc!Extent(Blk(i, m))
    BY <1>1, <1>9, <2>1, InNested
  <2>2. ASSUME NEW j \in k..m - 1, w \in Alloc!Extent(Blk(Buddy(Base(p, j), j), j))
        PROVE  w \in Alloc!Extent(Blk(i, m))
    <3>1. In(w, Base(p, j + 1), j + 1)  BY <1>6, <1>8, <2>2, MergeFacts
    <3>2. In(w, i, m)  BY <1>1, <1>6, <3>1, InNested
    <3> QED  BY <1>9, <3>2
  <2>3. ASSUME w \in Alloc!Extent(Blk(i, m))
        PROVE  \E b \in Old : w \in Alloc!Extent(b)
    <3> DEFINE T == {l \in k..m : In(w, Base(p, l), l)}
    <3>1. m \in T /\ T \in SUBSET Nat  BY <1>1, <1>9, <2>3
    <3>2. PICK l \in T : \A j \in T : l <= j  BY <3>1, LeastFacts
    <3>3. CASE l = k
      <4>1. w \in Alloc!Extent(Blk(p, k))  BY <1>9, <3>2, <3>3
      <4> QED  BY <4>1
    <3>4. CASE l # k
      <4>1. l - 1 \in k..m - 1 /\ l - 1 \in k..m /\ ~(l <= l - 1) /\ (l - 1) + 1 = l
        BY <1>1, <3>2, <3>4
      <4>2. ~In(w, Base(p, l - 1), l - 1)  BY <3>2, <4>1
      <4>3. In(w, Base(p, (l - 1) + 1), (l - 1) + 1)  BY <3>2, <4>1
      <4>4. In(w, Buddy(Base(p, l - 1), l - 1), l - 1)
        BY <1>6, <4>1, <4>2, <4>3, MergeFacts
      <4>5. w \in Alloc!Extent(Blk(Buddy(Base(p, l - 1), l - 1), l - 1))
        BY <1>8, <4>1, <4>4
      <4>6. Blk(Buddy(Base(p, l - 1), l - 1), l - 1) \in Old  BY <4>1
      <4> QED  BY <4>5, <4>6
    <3> QED  BY <3>3, <3>4
  <2> QED  BY <2>1, <2>2, <2>3
<1>11. Covered({Blk(i, m)}) = Covered(Old)
  <2> HIDE DEF Old
  <2>1. \A b \in Old \cup {Blk(i, m)} : Alloc!Extent(b) \subseteq Nat
    BY <1>4, <1>7, BlockFacts, Numbers
  <2> QED  BY <1>10, <2>1 DEF Covered
<1> QED  BY <1>2, <1>3, <1>4, <1>11

-----------------------------------------------------------------------------
(* What the invariant says of a free block *)

LEMMA FreeIn ==
  /\ \A k \in Order : \A p \in Range(free[k]) : Blk(p, k) \in FreeBlocks
  /\ \A b \in FreeBlocks : \E k \in Order : \E p \in Range(free[k]) : b = Blk(p, k)
BY DEF FreeBlocks, Blk

LEMMA FreeFacts ==
  ASSUME BuddyInv, NEW k \in Order, NEW p \in Range(free[k])
  PROVE  /\ p \in Pool /\ p \in Page /\ p \in Nat /\ Aligned(p, k)
         /\ Blk(p, k) \in Alloc!Block
         /\ Blk(p, k) \in FreeBlocks /\ Blk(p, k) \notin held
         /\ flag[p] = 0 /\ order[p] = k
<1>1. Blk(p, k) \in FreeBlocks  BY FreeIn
<1>2. Blk(p, k) \in Alloc!Block  BY <1>1 DEF BuddyInv, Tiles
<1>3. p \in Pool /\ Aligned(p, k)  BY <1>2, BlkFacts, BlockFacts
<1>4. flag[p] = 0 /\ order[p] = k  BY DEF BuddyInv, HeadsExact
<1>5. Blk(p, k) \notin held
  <2>1. ASSUME Blk(p, k) \in held  PROVE FALSE
    <3>1. flag[Blk(p, k).first] = 1  BY <2>1 DEF BuddyInv, HeadsExact
    <3> QED  BY <1>4, <3>1, BlkFacts
  <2> QED  BY <2>1
<1> QED  BY <1>1, <1>2, <1>3, <1>4, <1>5, Numbers

LEMMA HeldFacts ==
  ASSUME BuddyInv, NEW b \in held
  PROVE  /\ b \in Alloc!Block /\ b.first \in Pool /\ b.order \in Order
         /\ b.first \in Page /\ b.first \in Nat /\ b \notin FreeBlocks
         /\ b = Blk(b.first, b.order)
         /\ flag[b.first] = 1 /\ order[b.first] = b.order
<1>1. b \in Alloc!Block  BY DEF BuddyInv, Tiles
<1>2. b.first \in Pool /\ b.order \in Order /\ b = Blk(b.first, b.order)  BY <1>1, BlkFacts
<1>3. flag[b.first] = 1 /\ order[b.first] = b.order  BY DEF BuddyInv, HeadsExact
<1>4. b \notin FreeBlocks
  <2>1. ASSUME b \in FreeBlocks  PROVE FALSE
    <3>1. PICK k \in Order : \E p \in Range(free[k]) : b = Blk(p, k)  BY <2>1, FreeIn
    <3>2. PICK p \in Range(free[k]) : b = Blk(p, k)  BY <3>1
    <3>3. b.first = p  BY <3>2, BlkFacts
    <3> QED  BY <1>3, <3>3, FreeFacts
  <2> QED  BY <2>1
<1> QED  BY <1>1, <1>2, <1>3, <1>4, Numbers

\* A block of the tiling whose head lies in another is that other.
LEMMA OtherHeads ==
  ASSUME BuddyInv, NEW b \in held \cup FreeBlocks, NEW c \in held \cup FreeBlocks,
         b # c
  PROVE  b.first \notin Alloc!Extent(c)
<1>1. Tiles(held \cup FreeBlocks)  BY DEF BuddyInv
<1>2. b \in Alloc!Block  BY <1>1 DEF Tiles
<1>3. b.first \in Alloc!Extent(b)  BY <1>2, BlockFacts
<1> QED  BY <1>1, <1>3, OnlyOwner

-----------------------------------------------------------------------------
(* kalloc *)

\* The block that is taken, and the lists that are empty below it
LEMMA KallocBlock ==
  ASSUME BuddyInv, NEW k \in Order, NEW c, NEW i, {j \in k..Top : free[j] # <<>>} # {},
         c = Least({j \in k..Top : free[j] # <<>>}), i = Head(free[c])
  PROVE  /\ c \in Order /\ k <= c /\ free[c] # <<>> /\ i \in Range(free[c])
         /\ \A j \in k..c - 1 : j \in Order /\ free[j] = <<>>
<1> DEFINE fit == {j \in k..Top : free[j] # <<>>}
<1>1. fit \in SUBSET Nat /\ fit # {}  BY Numbers
<1>2. c \in fit /\ \A j \in fit : c <= j  BY <1>1, LeastFacts
<1>3. c \in Order /\ k <= c /\ c \in Nat /\ k \in Nat /\ free[c] # <<>>  BY <1>2, Numbers
<1>4. free[c] \in Seq(Page)  BY <1>3 DEF BuddyInv, TypeOK
<1>5. i \in Range(free[c])  BY <1>3, <1>4, TailFacts
<1>6. ASSUME NEW j \in k..c - 1  PROVE j \in Order /\ free[j] = <<>>
  <2>1. j \in k..Top /\ j \in Order /\ ~(c <= j)  BY <1>3, Numbers
  <2> QED  BY <1>2, <2>1
<1> QED  BY <1>3, <1>5, <1>6

\* The lists after the split
LEMMA KallocLists ==
  ASSUME BuddyInv, NEW k \in Order, NEW c \in Order, k <= c, NEW i \in Range(free[c]),
         free[c] # <<>>, i = Head(free[c]), \A j \in k..c - 1 : free[j] = <<>>,
         free' = [j \in Order |-> free'[j]],
         free'[c] = Tail(free[c]),
         \A j \in k..c - 1 : free'[j] = <<i + Size[j]>> \o free[j],
         \A j \in Order : j # c /\ j \notin k..c - 1 => free'[j] = free[j]
  PROVE  /\ free' \in [Order -> Seq(Page)]
         /\ \A j \in Order : IsInjective(free'[j])
         /\ Range(free'[c]) = Range(free[c]) \ {i}
         /\ \A j \in k..c - 1 : Range(free'[j]) = {i + Size[j]}
         /\ \A j \in Order : j # c /\ j \notin k..c - 1 => free'[j] = free[j]
<1>1. \A j \in Order : free[j] \in Seq(Page) /\ IsInjective(free[j])
  BY DEF BuddyInv, TypeOK
<1>2. i \in Pool /\ Aligned(i, c)  BY FreeFacts
<1>3. /\ free'[c] \in Seq(Page) /\ IsInjective(free'[c])
      /\ Range(free'[c]) = Range(free[c]) \ {i}
  <2>1. free[c] \in Seq(Page) /\ IsInjective(free[c])  BY <1>1
  <2>2. /\ Tail(free[c]) \in Seq(Page) /\ IsInjective(Tail(free[c]))
        /\ Range(free[c]) = {i} \cup Range(Tail(free[c]))
        /\ i \notin Range(Tail(free[c]))
    BY <2>1, TailFacts
  <2>3. Range(Tail(free[c])) = Range(free[c]) \ {i}  BY <2>2
  <2> QED  BY <2>2, <2>3, Zenon
<1>4. ASSUME NEW j \in k..c - 1
      PROVE  /\ j \in Order /\ free'[j] \in Seq(Page) /\ IsInjective(free'[j])
             /\ Range(free'[j]) = {i + Size[j]}
  <2>1. j \in Order /\ i + Size[j] \in Page  BY <1>2, HalvesFacts, Numbers
  <2>2. free'[j] = <<i + Size[j]>> \o free[j] /\ free[j] = <<>>  OBVIOUS
  <2>3. Range(free[j]) = {}  BY <2>2 DEF Range
  <2>4. free[j] \in Seq(Page) /\ IsInjective(free[j])  BY <1>1, <2>1
  <2> DEFINE s == <<i + Size[j]>> \o free[j]
  <2>5. /\ s \in Seq(Page) /\ Range(s) = {i + Size[j]} \cup Range(free[j])
        /\ IsInjective(s)
    BY <2>1, <2>3, <2>4, PushFacts
  <2>6. free'[j] = s  BY <2>2
  <2> HIDE DEF s
  <2>7. Range(s) = {i + Size[j]}  BY <2>3, <2>5
  <2> QED  BY <2>1, <2>5, <2>6, <2>7, Zenon
<1>5. ASSUME NEW j \in Order  PROVE free'[j] \in Seq(Page) /\ IsInjective(free'[j])
  BY <1>1, <1>3, <1>4
<1>6. free' \in [Order -> Seq(Page)]  BY <1>5
<1> QED  BY <1>3, <1>4, <1>5, <1>6

LEMMA FreeNext ==
  /\ \A k \in Order : \A p \in Range(free'[k]) : Blk(p, k) \in FreeBlocks'
  /\ \A b \in FreeBlocks' : \E k \in Order : \E p \in Range(free'[k]) : b = Blk(p, k)
BY DEF FreeBlocks, Blk

\* The block taken is replaced by its halves and the block handed out.
LEMMA KallocTiles ==
  ASSUME BuddyInv, NEW k \in Order, NEW c \in Order, k <= c, NEW i \in Range(free[c]),
         \A j \in k..c - 1 : free[j] = <<>>,
         Range(free'[c]) = Range(free[c]) \ {i},
         \A j \in k..c - 1 : Range(free'[j]) = {i + Size[j]},
         \A j \in Order : j # c /\ j \notin k..c - 1 => free'[j] = free[j],
         held' = held \cup {Blk(i, k)}
  PROVE  Tiles(held' \cup FreeBlocks')
<1> DEFINE B   == held \cup FreeBlocks
           Up  == {Blk(i + Size[j], j) : j \in k..c - 1}
           New == {Blk(i, k)} \cup Up
<1>1. /\ i \in Pool /\ Aligned(i, c)
      /\ Blk(i, c) \in FreeBlocks /\ Blk(i, c) \notin held
  BY FreeFacts
<1>2. /\ New \subseteq Alloc!Block /\ Apart(New)
      /\ Covered(New) = Covered({Blk(i, c)})
  BY <1>1, HalvesTile
<1>3. \A j \in k..c - 1 : j \in Order /\ j # c  BY <1>1, HalvesFacts, Numbers
<1>4. FreeBlocks' = (FreeBlocks \ {Blk(i, c)}) \cup Up
  <2>1. ASSUME NEW b \in FreeBlocks'  PROVE b \in (FreeBlocks \ {Blk(i, c)}) \cup Up
    <3>1. PICK j \in Order : \E p \in Range(free'[j]) : b = Blk(p, j)  BY FreeNext
    <3>2. PICK p \in Range(free'[j]) : b = Blk(p, j)  BY <3>1
    <3>3. CASE j = c
      <4>1. p \in Range(free[c]) /\ p # i  BY <3>2, <3>3
      <4>2. b \in FreeBlocks  BY <3>2, <3>3, <4>1, FreeIn
      <4>3. b # Blk(i, c)  BY <3>2, <4>1, BlkEqual
      <4> QED  BY <4>2, <4>3
    <3>4. CASE j \in k..c - 1
      <4>1. p = i + Size[j]  BY <3>2, <3>4
      <4> QED  BY <3>2, <3>4, <4>1
    <3>5. CASE j # c /\ j \notin k..c - 1
      <4>1. p \in Range(free[j])  BY <3>2, <3>5
      <4>2. b \in FreeBlocks  BY <3>2, <4>1, FreeIn
      <4>3. b # Blk(i, c)  BY <3>2, <3>5, BlkEqual
      <4> QED  BY <4>2, <4>3
    <3> QED  BY <3>3, <3>4, <3>5
  <2>2. ASSUME NEW b \in FreeBlocks, b # Blk(i, c)  PROVE b \in FreeBlocks'
    <3>1. PICK j \in Order : \E p \in Range(free[j]) : b = Blk(p, j)  BY FreeIn
    <3>2. PICK p \in Range(free[j]) : b = Blk(p, j)  BY <3>1
    <3>3. j \notin k..c - 1
      <4>1. ASSUME j \in k..c - 1  PROVE FALSE
        <5>1. free[j] = <<>>  BY <4>1
        <5> QED  BY <3>2, <5>1 DEF Range
      <4> QED  BY <4>1
    <3>4. p \in Range(free'[j])
      <4>1. CASE j = c  BY <2>2, <3>2, <4>1
      <4>2. CASE j # c
        <5>1. free'[j] = free[j]  BY <3>3, <4>2
        <5> QED  BY <3>2, <5>1
      <4> QED  BY <4>1, <4>2
    <3> QED  BY <3>2, <3>4, FreeNext
  <2>3. ASSUME NEW j \in k..c - 1  PROVE Blk(i + Size[j], j) \in FreeBlocks'
    <3>1. i + Size[j] \in Range(free'[j]) /\ j \in Order  BY <1>3
    <3> QED  BY <3>1, FreeNext
  <2> QED  BY <2>1, <2>2, <2>3
<1>5. held' \cup FreeBlocks' = (B \ {Blk(i, c)}) \cup New
  BY <1>1, <1>4
<1>6. Tiles(B)  BY DEF BuddyInv
<1>7. {Blk(i, c)} \in SUBSET B  BY <1>1
<1> HIDE DEF B, New
<1>8. Tiles((B \ {Blk(i, c)}) \cup New)  BY <1>2, <1>6, <1>7, Retile
<1> QED  BY <1>5, <1>8

\* The flags after the split
LEMMA KallocHeads ==
  ASSUME BuddyInv, NEW k \in Order, NEW c \in Order, k <= c, NEW i \in Range(free[c]),
         \A j \in k..c - 1 : free[j] = <<>>,
         Range(free'[c]) = Range(free[c]) \ {i},
         \A j \in k..c - 1 : Range(free'[j]) = {i + Size[j]},
         \A j \in Order : j # c /\ j \notin k..c - 1 => free'[j] = free[j],
         held' = held \cup {Blk(i, k)},
         flag'[i] = 1, order'[i] = k,
         \A j \in k..c - 1 : flag'[i + Size[j]] = 0 /\ order'[i + Size[j]] = j,
         \A p \in Page : p # i /\ (\A j \in k..c - 1 : p # i + Size[j]) =>
                           flag'[p] = flag[p] /\ order'[p] = order[p]
  PROVE  HeadsExact'
<1>1. /\ i \in Pool /\ i \in Nat /\ Aligned(i, c) /\ flag[i] = 0 /\ order[i] = c
      /\ Blk(i, c) \in FreeBlocks /\ Blk(i, c) \notin held
      /\ Blk(i, c) \in Alloc!Block
  BY FreeFacts
<1>2. ASSUME NEW b \in held \cup FreeBlocks, b # Blk(i, c)
      PROVE  /\ flag'[b.first] = flag[b.first] /\ order'[b.first] = order[b.first]
             /\ b.first # i /\ \A j \in k..c - 1 : b.first # i + Size[j]
  <2>1. b.first \notin Alloc!Extent(Blk(i, c))  BY <1>1, <1>2, OtherHeads
  <2>2. b \in Alloc!Block  BY DEF BuddyInv, Tiles
  <2>3. b.first \in Page  BY <2>2, BlockFacts, Numbers
  <2>4. i \in Alloc!Extent(Blk(i, c))  BY <1>1, BlockFacts, BlkFacts
  <2>5. ASSUME NEW j \in k..c - 1  PROVE i + Size[j] \in Alloc!Extent(Blk(i, c))
    <3>1. /\ i + Size[j] \in Pool /\ 2 * Size[j] <= Size[c]
          /\ Size[j] \in Nat \ {0} /\ Size[c] \in Nat
      BY <1>1, HalvesFacts, SizeFacts
    <3>2. In(i + Size[j], i, c)  BY <1>1, <3>1 DEF In
    <3> QED  BY <1>1, <3>1, <3>2, ExtentIn, Numbers
  <2> QED  BY <2>1, <2>3, <2>4, <2>5
<1>3. ASSUME NEW b \in held'  PROVE flag'[b.first] = 1 /\ order'[b.first] = b.order
  <2>1. CASE b = Blk(i, k)  BY <2>1, BlkFacts
  <2>2. CASE b \in held
    <3>1. b # Blk(i, c)  BY <1>1, <2>2
    <3>2. flag[b.first] = 1 /\ order[b.first] = b.order  BY <2>2, HeldFacts
    <3> QED  BY <1>2, <2>2, <3>1, <3>2
  <2> QED  BY <2>1, <2>2
<1>4. ASSUME NEW j \in Order, NEW p \in Range(free'[j])  PROVE flag'[p] = 0 /\ order'[p] = j
  <2>1. CASE j \in k..c - 1
    <3>1. p = i + Size[j]  BY <2>1
    <3> QED  BY <2>1, <3>1
  <2>2. CASE j \notin k..c - 1
    <3>1. p \in Range(free[j]) /\ ~(p = i /\ j = c)
      <4>1. CASE j = c  BY <4>1
      <4>2. CASE j # c
        <5>1. free'[j] = free[j]  BY <2>2, <4>2
        <5> QED  BY <4>2, <5>1
      <4> QED  BY <4>1, <4>2
    <3>2. Blk(p, j) # Blk(i, c)  BY <3>1, BlkEqual
    <3>3. Blk(p, j) \in FreeBlocks /\ flag[p] = 0 /\ order[p] = j  BY <3>1, FreeFacts
    <3>4. Blk(p, j).first = p  BY BlkFacts
    <3> QED  BY <1>2, <3>2, <3>3, <3>4
  <2> QED  BY <2>1, <2>2
<1>5. ASSUME NEW p \in Page, flag'[p] = 0  PROVE p \in Range(free'[order'[p]])
  <2>1. p # i  BY <1>5
  <2>2. CASE \E j \in k..c - 1 : p = i + Size[j]  BY <2>2
  <2>3. CASE \A j \in k..c - 1 : p # i + Size[j]
    <3>1. flag[p] = 0 /\ order'[p] = order[p]  BY <1>5, <2>1, <2>3
    <3>2. p \in Range(free[order[p]]) /\ order[p] \in Order
      BY <3>1 DEF BuddyInv, HeadsExact, TypeOK
    <3>3. p \in Range(free'[order[p]])
      <4>1. CASE order[p] = c  BY <2>1, <3>2, <4>1
      <4>2. CASE order[p] # c
        <5>1. order[p] \notin k..c - 1
          <6>1. ASSUME order[p] \in k..c - 1  PROVE FALSE
            <7>1. free[order[p]] = <<>>  BY <6>1
            <7> QED  BY <3>2, <7>1 DEF Range
          <6> QED  BY <6>1
        <5>2. free'[order[p]] = free[order[p]]  BY <3>2, <4>2, <5>1
        <5> QED  BY <3>2, <5>2
      <4> QED  BY <4>1, <4>2
    <3> QED  BY <3>1, <3>3
  <2> QED  BY <2>2, <2>3
<1> QED  BY <1>3, <1>4, <1>5 DEF HeadsExact

LEMMA KallocBuddies ==
  ASSUME BuddyInv, NEW k \in Order, NEW c \in Order, k <= c, NEW i \in Range(free[c]),
         Range(free'[c]) = Range(free[c]) \ {i},
         \A j \in k..c - 1 : Range(free'[j]) = {i + Size[j]},
         \A j \in Order : j # c /\ j \notin k..c - 1 => free'[j] = free[j]
  PROVE  NoBuddies'
<1>1. i \in Pool /\ Aligned(i, c)  BY FreeFacts
<1>2. ASSUME NEW j \in Order, NEW p \in Range(free'[j]), j < Top
      PROVE  Buddy(p, j) \notin Range(free'[j])
  <2>1. CASE j \in k..c - 1
    <3>1. /\ Buddy(i + Size[j], j) = i /\ i # i + Size[j]
      BY <1>1, <2>1, HalvesFacts
    <3>2. Range(free'[j]) = {i + Size[j]}  BY <2>1
    <3> QED  BY <1>2, <3>1, <3>2
  <2>2. CASE j \notin k..c - 1
    <3>1. Range(free'[j]) \subseteq Range(free[j])
      <4>1. CASE j = c  BY <4>1
      <4>2. CASE j # c
        <5>1. free'[j] = free[j]  BY <2>2, <4>2
        <5> QED  BY <5>1
      <4> QED  BY <4>1, <4>2
    <3>2. p \in Range(free[j])  BY <1>2, <3>1
    <3>3. Buddy(p, j) \notin Range(free[j])  BY <1>2, <3>2 DEF BuddyInv, NoBuddies
    <3> QED  BY <3>1, <3>3
  <2> QED  BY <2>1, <2>2
<1> QED  BY <1>2 DEF NoBuddies

\* kalloc keeps the invariant, and hands out a block nobody holds.
LEMMA KallocStep ==
  ASSUME BuddyInv, NEW k \in Request, Kalloc(k)
  PROVE  BuddyInv' /\ \E b \in Alloc!Block : Alloc!Alloc(b)
<1> DEFINE c  == Least({j \in k..Top : free[j] # <<>>})
           i  == Head(free[c])
           up == Halves(i, k, c)
<1>1. /\ panic = 0 /\ k \in Order /\ {j \in k..Top : free[j] # <<>>} # {}
      /\ free' = [j \in Order |->
                    IF j = c THEN Rest(free[j])
                    ELSE IF j \in DOMAIN up THEN <<up[j]>> \o free[j]
                    ELSE free[j]]
      /\ flag' = [p \in Page |->
                    IF p = i THEN 1 ELSE IF p \in Range(up) THEN 0 ELSE flag[p]]
      /\ order' = [p \in Page |->
                     IF p = i THEN k
                     ELSE IF p \in Range(up) THEN Inverse(up, DOMAIN up, Range(up))[p]
                     ELSE order[p]]
      /\ held' = held \cup {Blk(i, k)}
      /\ refused' = refused /\ panic' = panic
  BY DEF Kalloc, Blk
<1>2. /\ c \in Order /\ k <= c /\ free[c] # <<>> /\ i \in Range(free[c])
      /\ \A j \in k..c - 1 : j \in Order /\ free[j] = <<>>
  BY <1>1, KallocBlock
<1>3. i = Head(free[c]) /\ up = Halves(i, k, c)  OBVIOUS
<1> HIDE DEF c, i, up
<1>4. /\ i \in Pool /\ i \in Page /\ Aligned(i, c)
      /\ Blk(i, c) \in FreeBlocks /\ Blk(i, c) \notin held
  BY <1>2, FreeFacts
<1>5. /\ free' \in [Order -> Seq(Page)]
      /\ \A j \in Order : IsInjective(free'[j])
      /\ Range(free'[c]) = Range(free[c]) \ {i}
      /\ \A j \in k..c - 1 : Range(free'[j]) = {i + Size[j]}
      /\ \A j \in Order : j # c /\ j \notin k..c - 1 => free'[j] = free[j]
  <2>1. \A j \in k..c - 1 : free[j] = <<>>  BY <1>2
  <2>2. k \in Order /\ c \in Order /\ k <= c /\ i \in Range(free[c]) /\ free[c] # <<>>
    BY <1>1, <1>2
  <2>3. free' = [j \in Order |-> free'[j]] /\ free'[c] = Tail(free[c])
    BY <1>1, <2>2 DEF Rest
  <2>4. DOMAIN up = k..c - 1 /\ \A j \in k..c - 1 : up[j] = i + Size[j]
    BY <1>3 DEF Halves
  <2>5. \A j \in k..c - 1 : j \in Order /\ j # c  BY <1>2, Numbers
  <2>6. \A j \in k..c - 1 : free'[j] = <<i + Size[j]>> \o free[j]
    BY <1>1, <2>4, <2>5
  <2>7. \A j \in Order : j # c /\ j \notin k..c - 1 => free'[j] = free[j]
    BY <1>1, <2>4
  <2> QED  BY <1>3, <2>1, <2>2, <2>3, <2>6, <2>7, KallocLists, Zenon
<1>6. /\ DOMAIN up = k..c - 1
      /\ \A j \in k..c - 1 : up[j] = i + Size[j]
      /\ \A p : p \in Range(up) <=> \E j \in k..c - 1 : p = i + Size[j]
  BY <1>3 DEF Halves, Range
<1>7. ASSUME NEW j \in k..c - 1
      PROVE  /\ i + Size[j] \in Page /\ i + Size[j] # i /\ j \in Order
             /\ Inverse(up, DOMAIN up, Range(up))[i + Size[j]] = j
  <2>1. i + Size[j] \in Pool /\ i + Size[j] # i /\ j \in Order  BY <1>1, <1>2, <1>4, HalvesFacts
  <2>2. ASSUME NEW l \in k..c - 1, up[l] = i + Size[j]  PROVE l = j
    <3>1. l \in Order /\ Size[l] \in Nat \ {0} /\ Size[j] \in Nat \ {0} /\ i \in Nat
      BY <1>1, <1>2, <1>4, <2>1, HalvesFacts, SizeFacts, Numbers
    <3>2. Size[l] = Size[j]  BY <1>6, <2>2, <3>1
    <3>3. l < j => 2 * Size[l] <= Size[j]  BY <2>1, <3>1, SizeGrows
    <3>4. j < l => 2 * Size[j] <= Size[l]  BY <2>1, <3>1, SizeGrows
    <3> QED  BY <1>1, <3>1, <3>2, <3>3, <3>4
  <2>3. i + Size[j] \in Range(up) /\ up[j] = i + Size[j]  BY <1>6
  <2>4. Inverse(up, DOMAIN up, Range(up))[i + Size[j]]
          = CHOOSE l \in k..c - 1 : i + Size[j] \in Range(up) => up[l] = i + Size[j]
    BY <1>6, <2>3 DEF Inverse
  <2>5. Inverse(up, DOMAIN up, Range(up))[i + Size[j]] = j
    BY <2>2, <2>3, <2>4
  <2> QED  BY <2>1, <2>5, Numbers
<1>8. /\ flag'[i] = 1 /\ order'[i] = k
      /\ \A j \in k..c - 1 : flag'[i + Size[j]] = 0 /\ order'[i + Size[j]] = j
      /\ \A p \in Page : p # i /\ (\A j \in k..c - 1 : p # i + Size[j]) =>
                           flag'[p] = flag[p] /\ order'[p] = order[p]
  BY <1>1, <1>4, <1>6, <1>7
<1>9. Tiles(held' \cup FreeBlocks')
  BY <1>1, <1>2, <1>5, KallocTiles
<1>10. HeadsExact'
  <2>1. \A j \in k..c - 1 : free[j] = <<>>  BY <1>2
  <2>2. k \in Order /\ c \in Order /\ k <= c /\ i \in Range(free[c])  BY <1>1, <1>2
  <2>3. held' = held \cup {Blk(i, k)}  BY <1>1
  <2> QED  BY <1>5, <1>8, <2>1, <2>2, <2>3, KallocHeads
<1>11. NoBuddies'
  BY <1>1, <1>2, <1>5, KallocBuddies
<1>12. Blk(i, k) \in Alloc!Block
  BY <1>1, <1>2, <1>4, AlignedDown, BlockIff, Numbers
<1>13. TypeOK'
  <2>1. flag' \in [Page -> 0..2]  BY <1>1 DEF BuddyInv, TypeOK
  <2>2. order' \in [Page -> Order]
    <3>1. ASSUME NEW p \in Page  PROVE order'[p] \in Order
      <4>1. CASE p = i  BY <1>1, <1>8, <4>1
      <4>2. CASE \E j \in k..c - 1 : p = i + Size[j]  BY <1>7, <1>8, <4>2
      <4>3. CASE p # i /\ \A j \in k..c - 1 : p # i + Size[j]
        BY <1>8, <4>3 DEF BuddyInv, TypeOK
      <4> QED  BY <4>1, <4>2, <4>3
    <3>2. order' = [p \in Page |-> order'[p]]  BY <1>1
    <3> QED  BY <3>1, <3>2
  <2>3. held' \subseteq [first : Pool, order : Order]
    <3>1. Blk(i, k) \in [first : Pool, order : Order]  BY <1>12 DEF Alloc!Block
    <3> QED  BY <1>1, <3>1 DEF BuddyInv, TypeOK
  <2> QED  BY <1>1, <1>5, <2>1, <2>2, <2>3 DEF BuddyInv, TypeOK
<1>14. BuddyInv'
  BY <1>1, <1>5, <1>9, <1>10, <1>11, <1>13 DEF BuddyInv
<1>15. Alloc!Alloc(Blk(i, k))
  <2>1. refused = {}  BY <1>1 DEF BuddyInv
  <2>2. ASSUME NEW d \in held  PROVE Alloc!Extent(Blk(i, k)) \cap Alloc!Extent(d) = {}
    <3>1. Alloc!Extent(Blk(i, c)) \cap Alloc!Extent(d) = {}
      BY <1>4 DEF BuddyInv, Tiles, Apart
    <3>2. Alloc!Extent(Blk(i, k)) \subseteq Alloc!Extent(Blk(i, c))
      <4>1. Covered({Blk(i, k)} \cup {Blk(i + Size[j], j) : j \in k..c - 1}) = Covered({Blk(i, c)})
        BY <1>1, <1>2, <1>4, HalvesTile
      <4> QED  BY <4>1 DEF Covered
    <3> QED  BY <3>1, <3>2
  <2>3. Alloc!Fits(Blk(i, k))  BY <2>2 DEF Alloc!Fits
  <2> QED  BY <1>1, <2>1, <2>3 DEF Alloc!Alloc
<1> QED  BY <1>12, <1>14, <1>15

-----------------------------------------------------------------------------
(* kfree *)

BuddyOf(p, j) == Buddy(Base(p, j), j)

\* The blocks that become one: the one given back, and the buddies
Gone(p, k, m) == {Blk(p, k)} \cup {Blk(BuddyOf(p, j), j) : j \in k..m - 1}

\* The block b, of order k at p, can be merged up to order m: every buddy on the
\* way is a free block, and the buddy of what comes out is none.
Merging(b, p, k, m) ==
  /\ b \in held /\ b = Blk(p, k)
  /\ p \in Pool /\ k \in Order /\ m \in Order /\ k <= m /\ Aligned(p, k)
  /\ \A j \in k..m - 1 : j \in Order /\ j < Top /\ BuddyOf(p, j) \in Range(free[j])
  /\ m < Top => BuddyOf(p, m) \notin Range(free[m])

\* The lists, what is on them, and the flags after the merging
Relinked(p, k, m) ==
  /\ free'[m] = <<Base(p, m)>> \o free[m]
  /\ \A j \in k..m - 1 : free'[j] = Remove(free[j], BuddyOf(p, j))
  /\ \A j \in Order : j # m /\ j \notin k..m - 1 => free'[j] = free[j]

Relisted(p, k, m) ==
  /\ Range(free'[m]) = Range(free[m]) \cup {Base(p, m)}
  /\ \A j \in k..m - 1 : Range(free'[j]) = Range(free[j]) \ {BuddyOf(p, j)}
  /\ \A j \in Order : j # m /\ j \notin k..m - 1 => free'[j] = free[j]

Reflagged(p, k, m) ==
  /\ flag'[Base(p, m)] = 0 /\ order'[Base(p, m)] = m
  /\ \A j \in k..m - 1 : BuddyOf(p, j) # Base(p, m) => flag'[BuddyOf(p, j)] = 2
  /\ \A q \in Page : q # Base(p, m) /\ (\A j \in k..m - 1 : q # BuddyOf(p, j)) =>
                        flag'[q] = flag[q] /\ order'[q] = order[q]

\* kfree merges as far as it can.
LEMMA KfreeMerge ==
  ASSUME BuddyInv, NEW b \in held
  PROVE  Merging(b, b.first, b.order, Merged(b.first, b.order))
<1> DEFINE p == b.first
           k == b.order
           m == Merged(p, k)
<1> DEFINE S == {l \in k..MergeLimit : \A j \in k..l - 1 : Mergeable(p, j)}
<1>1. p \in Pool /\ p \in Nat /\ k \in Order /\ Aligned(p, k)
  BY HeldFacts, BlockFacts
<1>2. k \in Nat /\ k <= Top /\ Top \in Nat  BY <1>1, Numbers
<1>3. k \in S  BY <1>2 DEF MergeLimit
<1>4. S \in SUBSET (0..Top)  BY <1>2 DEF MergeLimit
<1>5. m = Greatest(S)  BY DEF Merged
<1> HIDE DEF S, p, k, m
<1>6. m \in S /\ \A l \in S : m >= l  BY <1>2, <1>3, <1>4, <1>5, GreatestFacts
<1>7. m \in Nat /\ k <= m /\ m <= Top /\ \A j \in k..m - 1 : Mergeable(p, j)
  BY <1>2, <1>6 DEF S, MergeLimit
<1>8. m \in Order  BY <1>2, <1>7, Numbers
<1>9. ASSUME NEW j \in Order, Mergeable(p, j)  PROVE BuddyOf(p, j) \in Range(free[j])
  <2>1. BuddyOf(p, j) \in Page /\ flag[BuddyOf(p, j)] = 0 /\ order[BuddyOf(p, j)] = j
    BY <1>9 DEF Mergeable, BuddyOf
  <2>2. BuddyOf(p, j) \in Range(free[order[BuddyOf(p, j)]])
    BY <2>1 DEF BuddyInv, HeadsExact
  <2> QED  BY <2>1, <2>2
<1>10. ASSUME NEW j \in k..m - 1
       PROVE  j \in Order /\ j < Top /\ BuddyOf(p, j) \in Range(free[j])
  <2>1. j \in Order /\ j < Top  BY <1>2, <1>7, Numbers
  <2> QED  BY <1>7, <1>9, <2>1
<1>11. ASSUME m < Top, BuddyOf(p, m) \in Range(free[m])  PROVE FALSE
  <2>1. BuddyOf(p, m) \in Page /\ flag[BuddyOf(p, m)] = 0 /\ order[BuddyOf(p, m)] = m
    BY <1>8, <1>11, FreeFacts
  <2>2. Mergeable(p, m)  BY <2>1 DEF Mergeable, BuddyOf
  <2>3. m + 1 \in k..Top /\ \A j \in k..(m + 1) - 1 : j \in k..m - 1 \/ j = m
    BY <1>2, <1>7, <1>11
  <2>4. m + 1 \in S  BY <1>7, <2>2, <2>3 DEF S, MergeLimit
  <2> QED  BY <1>6, <1>7, <2>4
<1>12. Merging(b, p, k, m)
  <2>1. b = Blk(p, k)  BY HeldFacts DEF p, k
  <2>2. m < Top => BuddyOf(p, m) \notin Range(free[m])  BY <1>11
  <2> QED  BY <1>1, <1>7, <1>8, <1>10, <2>1, <2>2 DEF Merging
<1> QED  BY <1>12 DEF p, k, m

\* What comes out of the merging is one block on the pages of those it is
\* made from, which were the block given back and free ones.
LEMMA GoneFacts ==
  ASSUME BuddyInv, NEW b, NEW p, NEW k, NEW m, Merging(b, p, k, m)
  PROVE  /\ Base(p, m) \in Pool /\ Aligned(Base(p, m), m)
         /\ Blk(Base(p, m), m) \in Alloc!Block
         /\ Covered({Blk(Base(p, m), m)}) = Covered(Gone(p, k, m))
         /\ Gone(p, k, m) \subseteq {b} \cup FreeBlocks
         /\ b \in Gone(p, k, m)
         /\ Base(p, m) \notin Range(free[m])
<1>0. /\ b \in held /\ b = Blk(p, k)
      /\ p \in Pool /\ k \in Order /\ m \in Order /\ k <= m /\ Aligned(p, k)
      /\ \A j \in k..m - 1 : j \in Order /\ j < Top /\ BuddyOf(p, j) \in Range(free[j])
  BY DEF Merging
<1> USE <1>0
<1>1. /\ Base(p, m) \in Pool /\ Aligned(Base(p, m), m)
      /\ Blk(Base(p, m), m) \in Alloc!Block
      /\ Covered({Blk(Base(p, m), m)}) = Covered(Gone(p, k, m))
  BY MergeTile DEF Gone, BuddyOf
<1>2. b = Blk(p, k) /\ b \in Alloc!Block /\ b \notin FreeBlocks  BY HeldFacts
<1>3. \A j \in k..m - 1 : Blk(BuddyOf(p, j), j) \in FreeBlocks  BY FreeIn
<1>4. Gone(p, k, m) \subseteq {b} \cup FreeBlocks  BY <1>2, <1>3 DEF Gone
<1>5. b \in Gone(p, k, m)  BY <1>2 DEF Gone
<1>6. ASSUME Base(p, m) \in Range(free[m])  PROVE FALSE
  <2>1. Blk(Base(p, m), m) \in FreeBlocks  BY <1>6, FreeIn
  <2>2. p \in Alloc!Extent(b)  BY <1>2, BlockFacts, BlkFacts
  <2>3. Alloc!Extent(b) \subseteq Covered(Gone(p, k, m))  BY <1>5 DEF Covered
  <2>4. p \in Alloc!Extent(Blk(Base(p, m), m))  BY <1>1, <2>2, <2>3 DEF Covered
  <2>5. Tiles(held \cup FreeBlocks)  BY DEF BuddyInv
  <2>6. Blk(Base(p, m), m) = b  BY <2>1, <2>2, <2>4, <2>5, OnlyOwner
  <2> QED  BY <1>2, <2>1, <2>6
<1> QED  BY <1>1, <1>4, <1>5, <1>6

\* The lists after the merging
LEMMA KfreeLists ==
  ASSUME BuddyInv, NEW b, NEW p, NEW k, NEW m, Merging(b, p, k, m), Relinked(p, k, m)
  PROVE  /\ \A j \in Order : free'[j] \in Seq(Page) /\ IsInjective(free'[j])
         /\ Relisted(p, k, m)
<1> DEFINE i == Base(p, m)
<1>0. /\ b \in held /\ b = Blk(p, k)
      /\ p \in Pool /\ k \in Order /\ m \in Order /\ k <= m /\ Aligned(p, k)
      /\ \A j \in k..m - 1 : j \in Order /\ j < Top /\ BuddyOf(p, j) \in Range(free[j])
  BY DEF Merging
<1>a. /\ free'[m] = <<i>> \o free[m]
      /\ \A j \in k..m - 1 : free'[j] = Remove(free[j], BuddyOf(p, j))
      /\ \A j \in Order : j # m /\ j \notin k..m - 1 => free'[j] = free[j]
  BY DEF Relinked
<1>b. i \in Page /\ i \notin Range(free[m])  BY GoneFacts, Numbers
<1> HIDE DEF i
<1> USE <1>0, <1>a, <1>b
<1>1. \A j \in Order : free[j] \in Seq(Page) /\ IsInjective(free[j])
  BY DEF BuddyInv, TypeOK
<1>2. /\ free'[m] \in Seq(Page) /\ IsInjective(free'[m])
      /\ Range(free'[m]) = Range(free[m]) \cup {i}
  <2> DEFINE s == <<i>> \o free[m]
  <2>1. free[m] \in Seq(Page) /\ IsInjective(free[m])  BY <1>1
  <2>2. s \in Seq(Page) /\ Range(s) = {i} \cup Range(free[m]) /\ IsInjective(s)
    BY <2>1, PushFacts
  <2>3. free'[m] = s  OBVIOUS
  <2> HIDE DEF s
  <2>4. Range(s) = Range(free[m]) \cup {i}  BY <2>2
  <2> QED  BY <2>2, <2>3, <2>4, Zenon
<1>3. ASSUME NEW j \in k..m - 1
      PROVE  /\ free'[j] \in Seq(Page) /\ IsInjective(free'[j])
             /\ Range(free'[j]) = Range(free[j]) \ {BuddyOf(p, j)}
  <2>1. free[j] \in Seq(Page) /\ IsInjective(free[j]) /\ BuddyOf(p, j) \in Range(free[j])
    BY <1>1
  <2> DEFINE s == Remove(free[j], BuddyOf(p, j))
  <2>2. s \in Seq(Page) /\ IsInjective(s) /\ Range(s) = Range(free[j]) \ {BuddyOf(p, j)}
    BY <2>1, RemoveFacts
  <2>3. free'[j] = s  OBVIOUS
  <2> HIDE DEF s
  <2> QED  BY <2>2, <2>3, Zenon
<1>4. ASSUME NEW j \in Order  PROVE free'[j] \in Seq(Page) /\ IsInjective(free'[j])
  BY <1>1, <1>2, <1>3
<1>5. Relisted(p, k, m)  BY <1>2, <1>3 DEF Relisted, i
<1> QED  BY <1>4, <1>5

\* Of the blocks that were free, those merged are no longer, and only the one
\* that came out has been added.
LEMMA KfreeFree ==
  ASSUME BuddyInv, NEW b, NEW p, NEW k, NEW m, Merging(b, p, k, m), Relisted(p, k, m)
  PROVE  FreeBlocks' = (FreeBlocks \ Gone(p, k, m)) \cup {Blk(Base(p, m), m)}
<1> DEFINE i == Base(p, m)
<1>0. /\ b \in held /\ b = Blk(p, k)
      /\ p \in Pool /\ k \in Order /\ m \in Order /\ k <= m /\ Aligned(p, k)
      /\ \A j \in k..m - 1 : j \in Order /\ j < Top /\ BuddyOf(p, j) \in Range(free[j])
  BY DEF Merging
<1>a. /\ Range(free'[m]) = Range(free[m]) \cup {i}
      /\ \A j \in k..m - 1 : Range(free'[j]) = Range(free[j]) \ {BuddyOf(p, j)}
      /\ \A j \in Order : j # m /\ j \notin k..m - 1 => free'[j] = free[j]
  BY DEF Relisted
<1>b. /\ i \in Pool /\ i \in Page /\ i \notin Range(free[m])
      /\ Blk(i, m) \in Alloc!Block
      /\ Covered({Blk(i, m)}) = Covered(Gone(p, k, m))
      /\ Gone(p, k, m) \subseteq {b} \cup FreeBlocks
  BY GoneFacts, Numbers
<1> HIDE DEF i
<1> USE <1>0, <1>a, <1>b
<1>1. b \notin FreeBlocks /\ k \in Nat /\ m \in Nat  BY HeldFacts, Numbers
<1>2. ASSUME NEW j \in Order, NEW q \in Range(free[j])
      PROVE  Blk(q, j) \in Gone(p, k, m) <=> j \in k..m - 1 /\ q = BuddyOf(p, j)
  <2>1. Blk(q, j) \in FreeBlocks  BY FreeIn
  <2>2. Blk(q, j) # Blk(p, k)  BY <1>1, <2>1
  <2>3. ASSUME Blk(q, j) \in Gone(p, k, m)  PROVE j \in k..m - 1 /\ q = BuddyOf(p, j)
    <3>1. PICK l \in k..m - 1 : Blk(q, j) = Blk(BuddyOf(p, l), l)
      BY <2>2, <2>3 DEF Gone
    <3>2. q = BuddyOf(p, l) /\ j = l  BY <3>1, BlkEqual
    <3> QED  BY <3>1, <3>2
  <2>4. ASSUME j \in k..m - 1, q = BuddyOf(p, j)  PROVE Blk(q, j) \in Gone(p, k, m)
    BY <2>4 DEF Gone
  <2> QED  BY <2>3, <2>4
<1>3. ASSUME NEW c \in FreeBlocks'  PROVE c \in (FreeBlocks \ Gone(p, k, m)) \cup {Blk(i, m)}
  <2>1. PICK j \in Order : \E q \in Range(free'[j]) : c = Blk(q, j)  BY FreeNext
  <2>2. PICK q \in Range(free'[j]) : c = Blk(q, j)  BY <2>1
  <2>3. ASSUME q \in Range(free[j]), ~(j \in k..m - 1 /\ q = BuddyOf(p, j))
        PROVE  c \in FreeBlocks \ Gone(p, k, m)
    <3>1. c \in FreeBlocks  BY <2>2, <2>3, FreeIn
    <3> QED  BY <1>2, <2>2, <2>3, <3>1
  <2>4. CASE j = m
    <3>1. q = i \/ q \in Range(free[m])  BY <2>2, <2>4
    <3>2. m \notin k..m - 1  BY <1>1
    <3> QED  BY <2>2, <2>3, <2>4, <3>1, <3>2
  <2>5. CASE j \in k..m - 1
    <3>1. q \in Range(free[j]) /\ q # BuddyOf(p, j)  BY <2>2, <2>5
    <3> QED  BY <2>3, <3>1
  <2>6. CASE j # m /\ j \notin k..m - 1
    <3>1. free'[j] = free[j]  BY <2>6
    <3>2. q \in Range(free[j])  BY <2>2, <3>1
    <3> QED  BY <2>3, <2>6, <3>2
  <2> QED  BY <2>4, <2>5, <2>6
<1>4. ASSUME NEW c \in FreeBlocks, c \notin Gone(p, k, m)  PROVE c \in FreeBlocks'
  <2>1. PICK j \in Order : \E q \in Range(free[j]) : c = Blk(q, j)  BY FreeIn
  <2>2. PICK q \in Range(free[j]) : c = Blk(q, j)  BY <2>1
  <2>3. ~(j \in k..m - 1 /\ q = BuddyOf(p, j))  BY <1>2, <1>4, <2>2
  <2>4. q \in Range(free'[j])
    <3>1. CASE j = m  BY <2>2, <3>1
    <3>2. CASE j \in k..m - 1  BY <2>2, <2>3, <3>2
    <3>3. CASE j # m /\ j \notin k..m - 1
      <4>1. free'[j] = free[j]  BY <3>3
      <4> QED  BY <2>2, <4>1
    <3> QED  BY <3>1, <3>2, <3>3
  <2> QED  BY <2>2, <2>4, FreeNext
<1>5. Blk(i, m) \in FreeBlocks'
  <2>1. i \in Range(free'[m])  OBVIOUS
  <2> QED  BY <2>1, FreeNext
<1> QED  BY <1>3, <1>4, <1>5 DEF i

LEMMA KfreeTiles ==
  ASSUME BuddyInv, NEW b \in held, NEW G, NEW n \in Alloc!Block,
         b \in G, G \subseteq {b} \cup FreeBlocks, Covered({n}) = Covered(G),
         FreeBlocks' = (FreeBlocks \ G) \cup {n},
         held' = held \ {b}
  PROVE  Tiles(held' \cup FreeBlocks')
<1> DEFINE B == held \cup FreeBlocks
<1>1. \A c \in held : c \notin FreeBlocks  BY HeldFacts
<1>2. held' \cup FreeBlocks' = (B \ G) \cup {n}  BY <1>1
<1>3. Tiles(B) /\ G \in SUBSET B  BY DEF BuddyInv
<1>4. Apart({n})  BY DEF Apart
<1> HIDE DEF B
<1>5. Tiles((B \ G) \cup {n})  BY <1>3, <1>4, Retile
<1> QED  BY <1>2, <1>5

LEMMA KfreeHeads ==
  ASSUME BuddyInv, NEW b, NEW p, NEW k, NEW m, Merging(b, p, k, m), Relisted(p, k, m),
         Reflagged(p, k, m), held' = held \ {b}
  PROVE  HeadsExact'
<1> DEFINE i == Base(p, m)
<1>0. /\ b \in held /\ b = Blk(p, k)
      /\ p \in Pool /\ k \in Order /\ m \in Order /\ k <= m /\ Aligned(p, k)
      /\ \A j \in k..m - 1 : j \in Order /\ j < Top /\ BuddyOf(p, j) \in Range(free[j])
  BY DEF Merging
<1>a. /\ Range(free'[m]) = Range(free[m]) \cup {i}
      /\ \A j \in k..m - 1 : Range(free'[j]) = Range(free[j]) \ {BuddyOf(p, j)}
      /\ \A j \in Order : j # m /\ j \notin k..m - 1 => free'[j] = free[j]
  BY DEF Relisted
<1>b. /\ i \in Pool /\ i \in Page /\ i \notin Range(free[m])
      /\ Blk(i, m) \in Alloc!Block
      /\ Covered({Blk(i, m)}) = Covered(Gone(p, k, m))
      /\ Gone(p, k, m) \subseteq {b} \cup FreeBlocks
  BY GoneFacts, Numbers
<1>c. /\ flag'[i] = 0 /\ order'[i] = m
      /\ \A j \in k..m - 1 : BuddyOf(p, j) # i => flag'[BuddyOf(p, j)] = 2
      /\ \A q \in Page : q # i /\ (\A j \in k..m - 1 : q # BuddyOf(p, j)) =>
                           flag'[q] = flag[q] /\ order'[q] = order[q]
  BY DEF Reflagged
<1>d. FreeBlocks' = (FreeBlocks \ Gone(p, k, m)) \cup {Blk(i, m)}  BY KfreeFree
<1> HIDE DEF i
<1> USE <1>0, <1>a, <1>b, <1>c, <1>d
<1> DEFINE G == Gone(p, k, m)
<1>1. b \notin FreeBlocks  BY HeldFacts
<1>2. Tiles(held \cup FreeBlocks)  BY DEF BuddyInv
<1>3. ASSUME NEW c \in held \cup FreeBlocks, c \notin G
      PROVE  flag'[c.first] = flag[c.first] /\ order'[c.first] = order[c.first]
  <2>1. c \in Alloc!Block /\ c.first \in Alloc!Extent(c)  BY <1>2, BlockFacts DEF Tiles
  <2>2. c.first \in Page  BY <2>1, BlockFacts, Numbers
  <2>3. c.first \notin Covered(G)
    <3>1. ASSUME c.first \in Covered(G)  PROVE FALSE
      <4>1. PICK g \in G : c.first \in Alloc!Extent(g)  BY <3>1 DEF Covered
      <4>2. g \in held \cup FreeBlocks  BY <4>1
      <4>3. g = c  BY <1>2, <2>1, <4>1, <4>2, OnlyOwner
      <4> QED  BY <1>3, <4>1, <4>3
    <3> QED  BY <3>1
  <2>4. i \in Covered(G)
    <3>1. i \in Alloc!Extent(Blk(i, m))  BY BlockFacts, BlkFacts
    <3> QED  BY <3>1 DEF Covered
  <2>5. ASSUME NEW j \in k..m - 1  PROVE BuddyOf(p, j) \in Covered(G)
    <3>1. Blk(BuddyOf(p, j), j) \in Alloc!Block  BY FreeFacts
    <3>2. BuddyOf(p, j) \in Alloc!Extent(Blk(BuddyOf(p, j), j))  BY <3>1, BlockFacts, BlkFacts
    <3>3. Blk(BuddyOf(p, j), j) \in G  BY DEF Gone
    <3> QED  BY <3>2, <3>3 DEF Covered
  <2> QED  BY <2>2, <2>3, <2>4, <2>5
<1>4. ASSUME NEW c \in held'  PROVE flag'[c.first] = 1 /\ order'[c.first] = c.order
  <2>1. c \in held /\ c # b  BY <1>4
  <2>2. c \notin FreeBlocks /\ flag[c.first] = 1 /\ order[c.first] = c.order
    BY <2>1, HeldFacts
  <2>3. c \notin G  BY <2>1, <2>2
  <2> QED  BY <1>3, <2>1, <2>2, <2>3
<1>5. ASSUME NEW j \in Order, NEW q \in Range(free'[j])  PROVE flag'[q] = 0 /\ order'[q] = j
  <2>1. Blk(q, j) \in FreeBlocks'  BY FreeNext
  <2>2. CASE Blk(q, j) = Blk(i, m)
    <3>1. q = i /\ j = m  BY <2>2, BlkEqual
    <3> QED  BY <3>1
  <2>3. CASE Blk(q, j) \in FreeBlocks \ G
    <3>1. PICK l \in Order : \E r \in Range(free[l]) : Blk(q, j) = Blk(r, l)  BY <2>3, FreeIn
    <3>2. PICK r \in Range(free[l]) : Blk(q, j) = Blk(r, l)  BY <3>1
    <3>3. q = r /\ j = l  BY <3>2, BlkEqual
    <3>4. flag[q] = 0 /\ order[q] = j  BY <3>2, <3>3, FreeFacts
    <3>5. Blk(q, j).first = q  BY BlkFacts
    <3> QED  BY <1>3, <2>3, <3>4, <3>5
  <2> QED  BY <2>1, <2>2, <2>3
<1>6. ASSUME NEW q \in Page, flag'[q] = 0  PROVE q \in Range(free'[order'[q]])
  <2>1. CASE q = i
    <3>1. i \in Range(free'[m])  OBVIOUS
    <3> QED  BY <2>1, <3>1
  <2>2. CASE q # i
    <3>1. ASSUME NEW j \in k..m - 1  PROVE q # BuddyOf(p, j)  BY <1>6, <2>2
    <3>2. flag[q] = 0 /\ order'[q] = order[q]  BY <1>6, <2>2, <3>1
    <3>3. q \in Range(free[order[q]]) /\ order[q] \in Order
      BY <3>2 DEF BuddyInv, HeadsExact, TypeOK
    <3>4. q \in Range(free'[order[q]])
      <4>1. CASE order[q] = m  BY <3>3, <4>1
      <4>2. CASE order[q] \in k..m - 1  BY <3>1, <3>3, <4>2
      <4>3. CASE order[q] # m /\ order[q] \notin k..m - 1
        <5>1. free'[order[q]] = free[order[q]]  BY <3>3, <4>3
        <5> QED  BY <3>3, <5>1
      <4> QED  BY <4>1, <4>2, <4>3
    <3> QED  BY <3>2, <3>4
  <2> QED  BY <2>1, <2>2
<1> QED  BY <1>4, <1>5, <1>6 DEF HeadsExact

LEMMA KfreeBuddies ==
  ASSUME BuddyInv, NEW b, NEW p, NEW k, NEW m, Merging(b, p, k, m), Relisted(p, k, m)
  PROVE  NoBuddies'
<1> DEFINE i == Base(p, m)
<1>0. /\ b \in held /\ b = Blk(p, k)
      /\ p \in Pool /\ k \in Order /\ m \in Order /\ k <= m /\ Aligned(p, k)
      /\ \A j \in k..m - 1 : j \in Order /\ j < Top /\ BuddyOf(p, j) \in Range(free[j])
  BY DEF Merging
<1>a. /\ Range(free'[m]) = Range(free[m]) \cup {i}
      /\ \A j \in k..m - 1 : Range(free'[j]) = Range(free[j]) \ {BuddyOf(p, j)}
      /\ \A j \in Order : j # m /\ j \notin k..m - 1 => free'[j] = free[j]
  BY DEF Relisted
<1>b. /\ i \in Pool /\ i \in Page /\ i \notin Range(free[m])
      /\ Blk(i, m) \in Alloc!Block
      /\ Covered({Blk(i, m)}) = Covered(Gone(p, k, m))
      /\ Gone(p, k, m) \subseteq {b} \cup FreeBlocks
  BY GoneFacts, Numbers
<1>c. (m < Top => BuddyOf(p, m) \notin Range(free[m])) /\ i = Base(p, m)  BY DEF Merging
<1> HIDE DEF i
<1> USE <1>0, <1>a, <1>b, <1>c
<1>1. ASSUME NEW j \in Order, NEW q \in Range(free'[j]), j < Top
      PROVE  Buddy(q, j) \notin Range(free'[j])
  <2>1. ASSUME q \in Range(free[j])  PROVE Buddy(q, j) \notin Range(free[j])
    BY <1>1, <2>1 DEF BuddyInv, NoBuddies
  <2>2. CASE j = m
    <3>1. /\ Buddy(i, m) = BuddyOf(p, m) /\ Buddy(i, m) # i
          /\ Buddy(i, m) \notin Range(free[m])
      BY <1>1, <2>2, MergeFacts DEF BuddyOf
    <3>2. CASE q = i  BY <2>2, <3>1, <3>2
    <3>3. CASE q \in Range(free[m])
      <4>1. q \in Nat /\ Aligned(q, m)  BY <3>3, FreeFacts
      <4>2. Buddy(Buddy(q, m), m) = q  BY <1>1, <2>2, <4>1, BuddyFacts
      <4>3. Buddy(q, m) # i  BY <3>1, <3>3, <4>2
      <4> QED  BY <2>1, <2>2, <3>3, <4>3
    <3> QED  BY <1>1, <2>2, <3>2, <3>3
  <2>3. CASE j # m
    <3>1. Range(free'[j]) \subseteq Range(free[j])
      <4>1. CASE j \in k..m - 1  BY <4>1
      <4>2. CASE j \notin k..m - 1
        <5>1. free'[j] = free[j]  BY <2>3, <4>2
        <5> QED  BY <5>1
      <4> QED  BY <4>1, <4>2
    <3> QED  BY <1>1, <2>1, <3>1
  <2> QED  BY <2>2, <2>3
<1> QED  BY <1>1 DEF NoBuddies

\* kfree of a block that is held keeps the invariant, and frees that block.
LEMMA ReleaseStep ==
  ASSUME BuddyInv, NEW b \in held, Release(b)
  PROVE  BuddyInv' /\ b \in Alloc!Block /\ Alloc!Free(b)
<1> DEFINE p == b.first
           k == order[p]
           m == Merged(p, k)
           u == [j \in k..m - 1 |-> Buddy(Base(p, j), j)]
           i == Base(p, m)
<1>1. /\ panic = 0
      /\ free' = [j \in Order |->
                    IF j = m THEN <<i>> \o free[j]
                    ELSE IF j \in DOMAIN u THEN Remove(free[j], u[j])
                    ELSE free[j]]
      /\ flag' = [q \in Page |->
                    IF q = i THEN 0 ELSE IF q \in Range(u) THEN 2 ELSE flag[q]]
      /\ order' = [q \in Page |->
                     IF q = i THEN m ELSE IF q \in Range(u) THEN 0 ELSE order[q]]
      /\ held' = held \ {b}
      /\ refused' = refused /\ panic' = panic
  BY DEF Release, Kfree
<1>2. /\ b \in Alloc!Block /\ k = b.order /\ b = Blk(p, k)  BY HeldFacts
<1>3. /\ DOMAIN u = k..m - 1
      /\ \A j \in k..m - 1 : u[j] = BuddyOf(p, j)
      /\ \A q : q \in Range(u) <=> \E j \in k..m - 1 : q = BuddyOf(p, j)
  BY DEF BuddyOf, Range
<1>4. Merging(b, p, k, m)  BY <1>2, KfreeMerge
<1>5. i = Base(p, m)  OBVIOUS
<1> HIDE DEF p, k, m, u, i
<1>6. /\ k \in Order /\ m \in Order
      /\ \A j \in k..m - 1 : j \in Order /\ j # m /\ BuddyOf(p, j) \in Page
  <2>1. /\ k \in Order /\ m \in Order
        /\ \A j \in k..m - 1 : j \in Order /\ BuddyOf(p, j) \in Range(free[j])
    BY <1>4 DEF Merging
  <2>2. \A j \in k..m - 1 : j # m  BY <2>1, Numbers
  <2> QED  BY <2>1, <2>2, FreeFacts
<1>7. /\ i \in Page /\ Blk(i, m) \in Alloc!Block
      /\ Covered({Blk(i, m)}) = Covered(Gone(p, k, m))
      /\ Gone(p, k, m) \subseteq {b} \cup FreeBlocks
      /\ b \in Gone(p, k, m)
  BY <1>4, <1>5, GoneFacts, Numbers
<1>8. Relinked(p, k, m)
  <2>1. free'[m] = <<i>> \o free[m]  BY <1>1, <1>6
  <2>2. \A j \in k..m - 1 : free'[j] = Remove(free[j], BuddyOf(p, j))  BY <1>1, <1>3, <1>6
  <2>3. \A j \in Order : j # m /\ j \notin k..m - 1 => free'[j] = free[j]  BY <1>1, <1>3
  <2> QED  BY <1>5, <2>1, <2>2, <2>3 DEF Relinked
<1>9. /\ \A j \in Order : free'[j] \in Seq(Page) /\ IsInjective(free'[j])
      /\ Relisted(p, k, m)
  BY <1>4, <1>8, KfreeLists
<1>10. FreeBlocks' = (FreeBlocks \ Gone(p, k, m)) \cup {Blk(i, m)}
  BY <1>4, <1>5, <1>9, KfreeFree
<1>11. held' = held \ {b}  BY <1>1
<1>12. Tiles(held' \cup FreeBlocks')
  BY <1>7, <1>10, <1>11, KfreeTiles, Zenon
<1>13. Reflagged(p, k, m)
  <2>1. flag'[i] = 0 /\ order'[i] = m  BY <1>1, <1>7
  <2>2. \A j \in k..m - 1 : BuddyOf(p, j) # i => flag'[BuddyOf(p, j)] = 2
    BY <1>1, <1>3, <1>6
  <2>3. \A q \in Page : q # i /\ (\A j \in k..m - 1 : q # BuddyOf(p, j)) =>
                           flag'[q] = flag[q] /\ order'[q] = order[q]
    BY <1>1, <1>3
  <2> QED  BY <1>5, <2>1, <2>2, <2>3 DEF Reflagged
<1>14. HeadsExact'
  BY <1>4, <1>9, <1>11, <1>13, KfreeHeads
<1>15. NoBuddies'
  BY <1>4, <1>9, KfreeBuddies
<1>16. TypeOK'
  <2>1. flag' \in [Page -> 0..2]  BY <1>1 DEF BuddyInv, TypeOK
  <2>2. order' \in [Page -> Order]
    <3>1. 0 \in Order  BY Numbers
    <3> QED  BY <1>1, <1>6, <3>1 DEF BuddyInv, TypeOK
  <2>3. free' \in [Order -> Seq(Page)]
    <3>1. free' = [j \in Order |-> free'[j]]  BY <1>1
    <3> QED  BY <1>9, <3>1
  <2> QED  BY <1>1, <2>1, <2>2, <2>3 DEF BuddyInv, TypeOK
<1>17. BuddyInv'
  BY <1>1, <1>9, <1>12, <1>14, <1>15, <1>16 DEF BuddyInv
<1>18. Alloc!Free(b)
  BY <1>1 DEF Alloc!Free, BuddyInv
<1> QED  BY <1>2, <1>17, <1>18

-----------------------------------------------------------------------------
(* The initial state *)

LEMMA InitBlocks ==
  /\ \A n \in 1..((TotalPages - PoolStart) \div Size[Top]) :
       TotalPages - n * Size[Top] \in Pool /\ Aligned(TotalPages - n * Size[Top], Top)
  /\ \A w \in Pool : \E n \in 1..((TotalPages - PoolStart) \div Size[Top]) :
       In(w, TotalPages - n * Size[Top], Top)
  /\ \A n, l \in 1..((TotalPages - PoolStart) \div Size[Top]) :
       TotalPages - n * Size[Top] = TotalPages - l * Size[Top] => n = l
  /\ (TotalPages - PoolStart) \div Size[Top] \in Nat
<1> DEFINE S == Size[Top]
           N == (TotalPages - PoolStart) \div S
<1>1. S \in Nat \ {0}  BY SizeFacts, Numbers
<1> HIDE DEF S
<1>2. PICK s \in Nat, t \in Nat : PoolStart = s * S /\ TotalPages = t * S
  BY AlignedMod, BuddyAssumption, Numbers DEF Aligned, S
<1>3. s < t
  <2>1. s * S < t * S  BY <1>2, BuddyAssumption
  <2> QED  BY <1>1, <2>1, MulLess
<1>4. t - s \in Nat /\ TotalPages - PoolStart = (t - s) * S  BY <1>1, <1>2, <1>3
<1>5. N = t - s  BY <1>1, <1>4, DivModOf
<1>6. ASSUME NEW n \in Nat, n <= t  PROVE TotalPages - n * S = (t - n) * S
  BY <1>1, <1>2
<1> HIDE DEF N
<1>7. ASSUME NEW n \in 1..N
      PROVE  TotalPages - n * S \in Pool /\ Aligned(TotalPages - n * S, Top)
  <2>1. n \in Nat /\ n <= t /\ t - n \in Nat /\ s <= t - n /\ t - n < t  BY <1>3, <1>5
  <2>2. TotalPages - n * S = (t - n) * S  BY <1>6, <2>1
  <2>3. Aligned(TotalPages - n * S, Top)  BY <2>1, <2>2 DEF Aligned, S
  <2>4. s * S <= (t - n) * S /\ (t - n) * S \in Nat  BY <1>1, <2>1, MulMono, MulNat
  <2>5. (t - n) * S < t * S  BY <1>1, <2>1
  <2>6. TotalPages - n * S \in Pool  BY <1>2, <2>2, <2>4, <2>5, Numbers
  <2> QED  BY <2>3, <2>6
<1>8. ASSUME NEW w \in Pool  PROVE \E n \in 1..N : In(w, TotalPages - n * S, Top)
  <2>1. w \in Nat /\ PoolStart <= w /\ w < TotalPages  BY Numbers
  <2>2. /\ Base(w, Top) \in Nat /\ Aligned(Base(w, Top), Top) /\ In(w, Base(w, Top), Top)
    BY <2>1, Numbers, BaseFacts
  <2>3. PICK z \in Nat : Base(w, Top) = z * S  BY <2>2 DEF Aligned, S
  <2>4. z * S <= w /\ w < z * S + S  BY <2>2, <2>3 DEF In, S
  <2>5. (z + 1) * S = z * S + S /\ z * S \in Nat  BY <1>1, MulNat
  <2>6. s * S < (z + 1) * S /\ z * S < t * S  BY <1>1, <1>2, <2>1, <2>4, <2>5
  <2>7. s < z + 1 /\ z < t  BY <1>1, <2>6, MulLess
  <2>8. t - z \in 1..N /\ t - z \in Nat /\ t - z <= t /\ t - (t - z) = z  BY <1>5, <2>7
  <2>9. TotalPages - (t - z) * S = z * S  BY <1>6, <2>8
  <2> QED  BY <2>2, <2>3, <2>8, <2>9
<1>9. ASSUME NEW n \in 1..N, NEW l \in 1..N, TotalPages - n * S = TotalPages - l * S
      PROVE  n = l
  <2>1. n \in Nat /\ l \in Nat /\ n * S \in Nat /\ l * S \in Nat  BY <1>1, <1>5, MulNat
  <2>2. n * S = l * S  BY <1>9, <2>1, Numbers
  <2>3. n < l => n * S < l * S  BY <1>1, <2>1
  <2>4. l < n => l * S < n * S  BY <1>1, <2>1
  <2> QED  BY <2>1, <2>2, <2>3, <2>4
<1>10. N \in Nat  BY <1>4, <1>5
<1> QED  BY <1>7, <1>8, <1>9, <1>10 DEF S, N

LEMMA BuddyInit ==
  ASSUME Init
  PROVE  BuddyInv
<1> DEFINE N == (TotalPages - PoolStart) \div Size[Top]
           s == [n \in 1..N |-> TotalPages - n * Size[Top]]
<1>1. /\ free = [k \in Order |-> IF k = Top THEN s ELSE <<>>]
      /\ flag = [p \in Page |-> IF p \in Range(free[Top]) THEN 0 ELSE 2]
      /\ order = [p \in Page |-> IF p \in Range(free[Top]) THEN Top ELSE 0]
      /\ held = {} /\ refused = {} /\ panic = 0
  BY DEF Init
<1>2. /\ \A n \in 1..N : s[n] \in Pool /\ Aligned(s[n], Top)
      /\ \A w \in Pool : \E n \in 1..N : In(w, s[n], Top)
      /\ \A n, l \in 1..N : s[n] = s[l] => n = l
      /\ N \in Nat /\ DOMAIN s = 1..N
  BY InitBlocks
<1>3. \A n \in 1..N : s[n] \in Page  BY <1>2, Numbers
<1>4. s \in Seq(Page)
  <2>1. s = [n \in 1..N |-> s[n]]  OBVIOUS
  <2> HIDE DEF s, N
  <2> QED  BY <1>2, <1>3, <2>1
<1> HIDE DEF s, N
<1>5. IsInjective(s)  BY <1>2 DEF IsInjective
<1>6. /\ Top \in Order /\ free[Top] = s
      /\ \A k \in Order : k # Top => free[k] = <<>>
  BY <1>1, Numbers
<1>7. \A k \in Order : k # Top => Range(free[k]) = {} /\ IsInjective(free[k])
  BY <1>6 DEF Range, IsInjective
<1>8. \A p : p \in Range(s) <=> \E n \in 1..N : p = s[n]  BY <1>2 DEF Range
<1>9. ASSUME NEW b \in FreeBlocks  PROVE \E n \in 1..N : b = Blk(s[n], Top)
  <2>1. PICK k \in Order : \E p \in Range(free[k]) : b = Blk(p, k)  BY FreeIn
  <2>2. k = Top  BY <1>7, <2>1
  <2> QED  BY <1>6, <1>8, <2>1, <2>2
<1>10. ASSUME NEW n \in 1..N
       PROVE  Blk(s[n], Top) \in FreeBlocks /\ Blk(s[n], Top) \in Alloc!Block
  <2>1. s[n] \in Range(free[Top])  BY <1>6, <1>8
  <2> QED  BY <1>2, <1>6, <2>1, FreeIn, BlockIff
<1>11. FreeBlocks \subseteq Alloc!Block  BY <1>9, <1>10
<1>12. ASSUME NEW n \in 1..N, NEW w \in Nat
       PROVE  w \in Alloc!Extent(Blk(s[n], Top)) <=> In(w, s[n], Top)
  BY <1>2, <1>6, ExtentIn, Numbers
<1>13. Apart(FreeBlocks)
  <2>1. ASSUME NEW b \in FreeBlocks, NEW c \in FreeBlocks,
               NEW w \in Alloc!Extent(b), w \in Alloc!Extent(c)
        PROVE  b = c
    <3>1. w \in Nat  BY <1>11, BlockFacts, Numbers
    <3>2. PICK n \in 1..N : b = Blk(s[n], Top)  BY <1>9
    <3>3. PICK l \in 1..N : c = Blk(s[l], Top)  BY <1>9
    <3>4. In(w, s[n], Top) /\ In(w, s[l], Top)  BY <1>12, <2>1, <3>1, <3>2, <3>3
    <3>5. s[n] = s[l]  BY <1>2, <1>6, <3>1, <3>4, AlignedUnique, Numbers
    <3> QED  BY <3>2, <3>3, <3>5
  <2> QED  BY <2>1 DEF Apart
<1>14. Covered(FreeBlocks) = Pool
  <2>1. Covered(FreeBlocks) \subseteq Pool  BY <1>11, BlockFacts DEF Covered
  <2>2. ASSUME NEW w \in Pool  PROVE w \in Covered(FreeBlocks)
    <3>1. PICK n \in 1..N : In(w, s[n], Top)  BY <1>2
    <3>2. w \in Alloc!Extent(Blk(s[n], Top))  BY <1>12, <3>1, Numbers
    <3> QED  BY <1>10, <3>2 DEF Covered
  <2> QED  BY <2>1, <2>2
<1>15. Tiles(held \cup FreeBlocks)
  <2>1. held \cup FreeBlocks = FreeBlocks  BY <1>1
  <2>2. Tiles(FreeBlocks)  BY <1>11, <1>13, <1>14 DEF Tiles
  <2> QED  BY <2>1, <2>2
<1>16. HeadsExact
  <2>1. \A p \in Range(free[Top]) : p \in Page  BY <1>3, <1>6, <1>8
  <2>2. ASSUME NEW k \in Order, NEW p \in Range(free[k])  PROVE flag[p] = 0 /\ order[p] = k
    BY <1>1, <1>7, <2>1, <2>2
  <2>3. ASSUME NEW p \in Page, flag[p] = 0  PROVE p \in Range(free[order[p]])
    BY <1>1, <2>3
  <2> QED  BY <1>1, <2>2, <2>3 DEF HeadsExact
<1>17. NoBuddies
  <2>1. \A k \in Order : k < Top => k # Top  BY Numbers
  <2>2. ASSUME NEW k \in Order, NEW p \in Range(free[k]), k < Top  PROVE FALSE
    <3>1. Range(free[k]) = {}  BY <1>7, <2>1, <2>2
    <3> QED  BY <2>2, <3>1
  <2> QED  BY <2>2 DEF NoBuddies
<1>18. TypeOK
  <2>1. <<>> \in Seq(Page) /\ 0 \in Order  BY Numbers
  <2>2. free \in [Order -> Seq(Page)]  BY <1>1, <1>4, <2>1
  <2>3. flag \in [Page -> 0..2]  BY <1>1
  <2>4. order \in [Page -> Order]  BY <1>1, <1>6, <2>1
  <2> QED  BY <1>1, <2>2, <2>3, <2>4 DEF TypeOK
<1> QED  BY <1>1, <1>5, <1>6, <1>7, <1>15, <1>16, <1>17, <1>18 DEF BuddyInv

-----------------------------------------------------------------------------
(* Refusals *)

\* When no list has a block of order k or above, no aligned block of that
\* order is free: a least free block in it would have a free buddy.
LEMMA NothingFits ==
  ASSUME BuddyInv, NEW k \in Nat, \A j \in Order : j >= k => free[j] = <<>>,
         NEW c \in Alloc!Block, c.order = k
  PROVE  ~Alloc!Fits(c)
<1> SUFFICES ASSUME Alloc!Fits(c)  PROVE FALSE
  OBVIOUS
<1> DEFINE x == c.first
<1>1. /\ x \in Pool /\ x \in Nat /\ k \in Order /\ Aligned(x, k)
      /\ Alloc!Extent(c) \subseteq Pool
      /\ \A w \in Nat : w \in Alloc!Extent(c) <=> In(w, x, k)
      /\ In(x, x, k)
  BY BlockFacts
<1> HIDE DEF x
<1>2. Tiles(held \cup FreeBlocks)  BY DEF BuddyInv
\* Every page of c is on a free block of lower order, which is in c.
<1>3. ASSUME NEW w \in Nat, In(w, x, k)
      PROVE  \E j \in Order : \E q \in Range(free[j]) :
               j < k /\ In(w, q, j) /\ In(q, x, k)
  <2>1. w \in Pool /\ w \in Alloc!Extent(c)  BY <1>1, <1>3
  <2>2. PICK b \in held \cup FreeBlocks : w \in Alloc!Extent(b)
    BY <1>2, <2>1 DEF Tiles, Covered
  <2>3. b \notin held
    BY <2>1, <2>2 DEF Alloc!Fits
  <2>4. PICK j \in Order : \E q \in Range(free[j]) : b = Blk(q, j)  BY <2>2, <2>3, FreeIn
  <2>5. PICK q \in Range(free[j]) : b = Blk(q, j)  BY <2>4
  <2>6. q \in Nat /\ Aligned(q, j)  BY FreeFacts
  <2>7. In(w, q, j)  BY <2>2, <2>5, <2>6, ExtentIn
  <2>8. j < k
    <3>1. free[j] # <<>>  BY DEF Range
    <3> QED  BY <3>1, Numbers
  <2>9. x <= q /\ q + Size[j] <= x + Size[k]
    BY <1>1, <1>3, <2>6, <2>7, <2>8, Nested, Numbers
  <2>10. In(q, x, k)
    <3>1. Size[j] \in Nat \ {0} /\ Size[k] \in Nat  BY <1>1, SizeFacts
    <3> QED  BY <1>1, <2>6, <2>9, <3>1 DEF In
  <2> QED  BY <2>7, <2>8, <2>10
<1> DEFINE T == {j \in Order : \E q \in Range(free[j]) : In(q, x, k)}
<1>4. T # {} /\ T \in SUBSET Nat  BY <1>1, <1>3, Numbers
<1>5. PICK j \in T : \A l \in T : j <= l  BY <1>4, LeastFacts
<1>6. PICK q \in Range(free[j]) : In(q, x, k)  BY <1>5
<1>7. j \in Order /\ j < k /\ j < Top /\ j \in Nat
  <2>1. free[j] # <<>>  BY <1>6 DEF Range
  <2> QED  BY <1>1, <1>5, <2>1, Numbers
<1>8. q \in Nat /\ q \in Pool /\ Aligned(q, j) /\ Blk(q, j) \in FreeBlocks
  BY <1>7, FreeFacts
\* Its buddy is in c too ...
<1> DEFINE b == Buddy(q, j)
           i == Base(q, j + 1)
<1>9. Base(q, j) = q  BY <1>7, <1>8, BaseSelf
<1>10. /\ b \in Pool /\ b \in Nat /\ b # q /\ Aligned(b, j)
       /\ \A w \in Nat : In(w, i, j + 1) <=> In(w, q, j) \/ In(w, b, j)
  BY <1>7, <1>8, <1>9, MergeFacts, Numbers
<1>11. i \in Nat /\ Aligned(i, j + 1) /\ j + 1 \in Order /\ j + 1 <= k
  BY <1>7, <1>8, NextOrder, BaseFacts, Numbers
<1> HIDE DEF b, i
<1>12. In(q, q, j) /\ In(b, b, j)  BY <1>7, <1>8, <1>10, SizeFacts DEF In
<1>13. In(q, i, j + 1) /\ In(b, i, j + 1)  BY <1>8, <1>10, <1>12
<1>14. In(b, x, k)
  <2>1. x <= i /\ i + Size[j + 1] <= x + Size[k]
    BY <1>1, <1>6, <1>8, <1>11, <1>13, Nested
  <2>2. Size[j + 1] \in Nat /\ Size[k] \in Nat  BY <1>1, <1>11, SizeFacts
  <2> QED  BY <1>1, <1>10, <1>11, <1>13, <2>1, <2>2 DEF In
\* ... on a free block that is not smaller, by the choice of q, so it is
\* either the buddy itself or holds q as well.
<1>15. PICK l \in Order : \E r \in Range(free[l]) : In(b, r, l) /\ In(r, x, k)
  BY <1>3, <1>10, <1>14
<1>16. PICK r \in Range(free[l]) : In(b, r, l) /\ In(r, x, k)  BY <1>15
<1>17. j <= l  BY <1>5, <1>15, <1>16
<1>18. r \in Nat /\ Aligned(r, l) /\ Blk(r, l) \in FreeBlocks  BY <1>15, FreeFacts
<1>19. CASE l = j
  <2>1. r = b  BY <1>7, <1>10, <1>12, <1>16, <1>18, <1>19, AlignedUnique
  <2>2. Buddy(q, j) \notin Range(free[j])  BY <1>6, <1>7 DEF BuddyInv, NoBuddies
  <2> QED  BY <1>16, <1>19, <2>1, <2>2 DEF b
<1>20. CASE l # j
  <2>1. j + 1 <= l  BY <1>7, <1>15, <1>17, <1>20, Numbers
  <2>2. r <= i /\ i + Size[j + 1] <= r + Size[l]
    BY <1>10, <1>11, <1>13, <1>15, <1>16, <1>18, <2>1, Nested
  <2>3. In(q, r, l)
    <3>1. Size[j + 1] \in Nat /\ Size[l] \in Nat  BY <1>11, <1>15, SizeFacts
    <3> QED  BY <1>8, <1>11, <1>13, <1>18, <2>2, <3>1 DEF In
  <2>4. q \in Alloc!Extent(Blk(r, l)) /\ q \in Alloc!Extent(Blk(q, j))
    BY <1>7, <1>8, <1>12, <1>15, <1>18, <2>3, ExtentIn
  <2>5. Blk(r, l) = Blk(q, j)  BY <1>2, <1>8, <1>18, <2>4, OnlyOwner
  <2> QED  BY <1>20, <2>5, BlkEqual
<1> QED  BY <1>19, <1>20

\* kpanic in kalloc changes nothing else, and the request cannot be met.
LEMMA KallocPanicsStep ==
  ASSUME BuddyInv, NEW k \in Request, KallocPanics(k)
  PROVE  BuddyInv' /\ Alloc!Refuse(k)
<1>1. /\ panic = 0 /\ panic' \in {100, 101} /\ refused' = {k}
      /\ \A j \in Order : j >= k => free[j] = <<>>
      /\ flag' = flag /\ order' = order /\ free' = free /\ held' = held
  BY DEF KallocPanics
<1>2. k \in Nat  BY BuddyAssumption
<1>3. FreeBlocks' = FreeBlocks  BY <1>1 DEF FreeBlocks
<1>4. TypeOK'  BY <1>1 DEF BuddyInv, TypeOK
<1>5. HeadsExact' /\ NoBuddies'  BY <1>1 DEF BuddyInv, HeadsExact, NoBuddies
<1>6. Tiles(held' \cup FreeBlocks')  BY <1>1, <1>3 DEF BuddyInv
<1>7. BuddyInv'  BY <1>1, <1>4, <1>5, <1>6 DEF BuddyInv
<1>8. refused = {}  BY <1>1 DEF BuddyInv
<1>9. Alloc!Refuse(k)
  BY <1>1, <1>2, <1>8, NothingFits DEF Alloc!Refuse
<1> QED  BY <1>7, <1>9

\* kpanic in kfree changes nothing else.
LEMMA ReleaseCaughtStep ==
  ASSUME BuddyInv, NEW p \in Page, ReleaseCaught(p)
  PROVE  BuddyInv' /\ UNCHANGED <<held, refused>>
<1>1. /\ panic = 0 /\ panic' \in {103, 105} /\ refused' = refused
      /\ flag' = flag /\ order' = order /\ free' = free /\ held' = held
  BY DEF ReleaseCaught, KfreePanics
<1>2. FreeBlocks' = FreeBlocks  BY <1>1 DEF FreeBlocks
<1>3. TypeOK'  BY <1>1 DEF BuddyInv, TypeOK
<1>4. HeadsExact' /\ NoBuddies'  BY <1>1 DEF BuddyInv, HeadsExact, NoBuddies
<1>5. Tiles(held' \cup FreeBlocks')  BY <1>1, <1>2 DEF BuddyInv
<1> QED  BY <1>1, <1>3, <1>4, <1>5 DEF BuddyInv

LEMMA BuddyStep ==
  ASSUME BuddyInv, [Next]_vars
  PROVE  BuddyInv' /\ [Alloc!Next]_<<held, refused>>
<1>1. ASSUME NEW k \in Request, Kalloc(k)  PROVE BuddyInv' /\ [Alloc!Next]_<<held, refused>>
  <2>1. BuddyInv' /\ \E b \in Alloc!Block : Alloc!Alloc(b)  BY <1>1, KallocStep
  <2> QED  BY <2>1 DEF Alloc!Next
<1>2. ASSUME NEW k \in Request, KallocPanics(k)
      PROVE  BuddyInv' /\ [Alloc!Next]_<<held, refused>>
  <2>1. BuddyInv' /\ Alloc!Refuse(k)  BY <1>2, KallocPanicsStep
  <2> QED  BY <2>1 DEF Alloc!Next
<1>3. ASSUME NEW b \in held, Release(b)
      PROVE  BuddyInv' /\ [Alloc!Next]_<<held, refused>>
  <2>1. BuddyInv' /\ b \in Alloc!Block /\ Alloc!Free(b)  BY <1>3, ReleaseStep
  <2> QED  BY <2>1 DEF Alloc!Next
<1>4. ASSUME NEW p \in Page, ReleaseCaught(p)
      PROVE  BuddyInv' /\ [Alloc!Next]_<<held, refused>>
  BY <1>4, ReleaseCaughtStep
<1>5. ASSUME UNCHANGED vars
      PROVE  BuddyInv' /\ [Alloc!Next]_<<held, refused>>
  <2>1. /\ flag' = flag /\ order' = order /\ free' = free /\ held' = held
        /\ refused' = refused /\ panic' = panic
    BY <1>5 DEF vars
  <2>2. FreeBlocks' = FreeBlocks  BY <2>1 DEF FreeBlocks
  <2>3. TypeOK' /\ HeadsExact' /\ NoBuddies'
    BY <2>1 DEF BuddyInv, TypeOK, HeadsExact, NoBuddies
  <2>4. Tiles(held' \cup FreeBlocks')  BY <2>1, <2>2 DEF BuddyInv
  <2> QED  BY <2>1, <2>3, <2>4 DEF BuddyInv
<1> QED  BY <1>1, <1>2, <1>3, <1>4, <1>5 DEF Next

-----------------------------------------------------------------------------
(* The theorems *)

\* The invariant holds of every behaviour of kalloc and kfree.
THEOREM BuddyInvariant == Spec => []BuddyInv
<1>1. Init => BuddyInv  BY BuddyInit
<1>2. BuddyInv /\ [Next]_vars => BuddyInv'  BY BuddyStep
<1> QED  BY <1>1, <1>2, PTL DEF Spec

\* Every page of the pool is in exactly one block, free or handed out: kalloc's
\* splitting and kfree's merging (kalloc.c:82-96, 123-158) lose no page and use
\* none twice, in a pool of any size.
THEOREM PartitionTheorem == Spec => []Partition
<1>1. BuddyInv => Partition
  <2> SUFFICES ASSUME BuddyInv  PROVE Partition
    OBVIOUS
  <2>1. \A k \in Order : IsInjective(free[k])  BY DEF BuddyInv
  <2>2. \A p \in Pool : \E b \in held \cup FreeBlocks : p \in Alloc!Extent(b)
    BY DEF BuddyInv, Tiles, Covered
  <2>3. \A b, c \in held \cup FreeBlocks :
          b # c => Alloc!Extent(b) \cap Alloc!Extent(c) = {}
    BY DEF BuddyInv, Tiles, Apart
  <2> QED  BY <2>1, <2>2, <2>3 DEF Partition
<1> QED  BY <1>1, BuddyInvariant, PTL

\* The flags and orders in page_array, by which kfree merges, are those of the
\* blocks that start there.
THEOREM FlagsTheorem == Spec => []FlagsExact
<1>1. BuddyInv => FlagsExact
  <2> SUFFICES ASSUME BuddyInv  PROVE FlagsExact
    OBVIOUS
  <2>1. \A b \in held : flag[b.first] = 1 /\ order[b.first] = b.order
    BY DEF BuddyInv, HeadsExact
  <2>2. ASSUME NEW p \in Page
        PROVE  flag[p] = 0 <=> \E k \in Order : p \in Range(free[k]) /\ order[p] = k
    BY DEF BuddyInv, TypeOK, HeadsExact
  <2> QED  BY <2>1, <2>2 DEF FlagsExact
<1> QED  BY <1>1, BuddyInvariant, PTL

\* kalloc and kfree are an allocator of aligned blocks that never overlap, and
\* kalloc panics only when no aligned block of the order asked for is free.
THEOREM BuddyImplementsAllocator == Spec => Implements
<1>1. Init => Alloc!Init  BY DEF Init, Alloc!Init
<1>2. BuddyInv /\ [Next]_vars => [Alloc!Next]_<<held, refused>>  BY BuddyStep
<1> QED  BY <1>1, <1>2, BuddyInvariant, PTL DEF Spec, Implements, Alloc!Spec
=============================================================================
