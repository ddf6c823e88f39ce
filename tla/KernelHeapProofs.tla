--------------------------- MODULE KernelHeapProofs ---------------------------
(***************************************************************************)
(* Theorems about KernelHeap, for any caches, page size and memory.        *)
(* First where the objects of a slab lie, then what one call does to the   *)
(* lists and to the slab it works on, and from that the invariant.         *)
(***************************************************************************)
EXTENDS KernelHeap, ListLemmas, FiniteSetTheorems

-----------------------------------------------------------------------------
(* The invariant, over a heap h and the set out of the addresses of objects  *)
(* that are out: in a caller's hands, or the struct slab of another slab.    *)

Names == {"full", "partial", "empty"}

CacheLists == [full : Seq(Page), partial : Seq(Page), empty : Seq(Page)]

Slab == [active : Nat, free : Seq(Address), header : Address \cup {NoHeader}]

HeapType == [list : [Cache -> CacheLists], slab : [Page -> Slab],
             parent : [Page -> {0} \cup (Cache \ OffSlab)],
             blocks : SUBSET PageAllocator!Block]

On(h, c, p) == \E n \in Names : FoundIn(h, c, p, n)

\* The list for a slab of cache c with this many objects out
Place(c, active) ==
  IF active = MaxObjs(c) THEN "full" ELSE IF active = 0 THEN "empty" ELSE "partial"

Obj(c, p, i) == FirstObj(c, p) + i * ObjSize[c]
Objs(c, p)   == {Obj(c, p, i) : i \in 0..MaxObjs(c) - 1}

\* Every page is in one list at most, and there once.
ListsOK(h) ==
  /\ \A c \in Cache, n \in Names : IsInjective(h.list[c][n])
  /\ \A c, d \in Cache, m, n \in Names, p \in Page :
       FoundIn(h, c, p, m) /\ FoundIn(h, d, p, n) => c = d /\ m = n

\* The count of a slab says where it is linked; its objects are free or out.
SlabOK(h, c, p, out) ==
  LET s == h.slab[p]
  IN  /\ FoundIn(h, c, p, Place(c, s.active))
      /\ s.active + Len(s.free) = MaxObjs(c)
      /\ IsInjective(s.free)
      /\ Range(s.free) \cap out = {}
      /\ Range(s.free) \cup {a \in out : PageOf(a) = p} = Objs(c, p)
      /\ h.parent[p] = IF c \in OffSlab THEN 0 ELSE c
      /\ BlockAt(p, 0) \in h.blocks

\* The struct slab is at the base of its page or an object of HeaderCache of
\* its own.
HeaderOK(h, c, p, out) ==
  LET a == h.slab[p].header
  IN  IF c \in OffSlab THEN a \in out /\ On(h, HeaderCache, PageOf(a))
                       ELSE a = p * PageSize

SlabsOK(h, out) ==
  /\ \A c \in Cache, p \in Page :
       On(h, c, p) => SlabOK(h, c, p, out) /\ HeaderOK(h, c, p, out)
  /\ \A p, q \in Page : p # q /\ h.slab[p].header # NoHeader =>
       h.slab[p].header # h.slab[q].header
  /\ \A p \in Page : (\A c \in Cache : ~On(h, c, p)) =>
       h.slab[p].header = NoHeader /\ h.slab[p].free = <<>> /\ h.parent[p] = 0

BlocksOK(h) ==
  \A b, d \in h.blocks :
    b # d => PageAllocator!Extent(b) \cap PageAllocator!Extent(d) = {}

OutOK(h, out) ==
  \A a \in out : PageOf(a) \in Page /\ \E c \in Cache : On(h, c, PageOf(a))

HeapOK(h, out) ==
  /\ h \in HeapType
  /\ ListsOK(h) /\ SlabsOK(h, out) /\ BlocksOK(h) /\ OutOK(h, out)

\* The struct slabs that are objects of HeaderCache
OffHeaders(h) ==
  {h.slab[p].header : p \in {q \in Page : \E c \in OffSlab : On(h, c, q)}}

\* What callers hold of caches, and all the objects that are out
SmallIn(H)   == {o \in H : SmallSize(o.size)}
LiveIn(h, H) == {o.addr : o \in SmallIn(H)} \cup OffHeaders(h)

\* A caller holds a whole block, on a page that is not a slab.
HasBlock(h, o) ==
  \E b \in h.blocks : /\ b.order = OrderFor(o.size) /\ o.addr = b.first * PageSize
                      /\ h.slab[b.first].header = NoHeader

\* What callers hold, H: objects of the right caches, and whole blocks
HeldOK(h, H) ==
  /\ H \subseteq [addr : Address, size : Request]
  /\ \A o, u \in H : o.addr = u.addr => o = u
  /\ \A o \in SmallIn(H) :
       o.addr \notin OffHeaders(h) /\ On(h, CacheFor(o.size), PageOf(o.addr))
  /\ \A o \in H \ SmallIn(H) : HasBlock(h, o)

HeapAndHeld(h, H) == HeapOK(h, LiveIn(h, H)) /\ HeldOK(h, H)

HeapInv == HeapAndHeld(Heap, held) /\ panic \in {0, 100, 101}

-----------------------------------------------------------------------------
(* Where the objects of a slab lie *)

LEMMA Sizes ==
  /\ Pages \in Nat /\ PageSize \in Nat \ {0} /\ HeaderSize \in Nat \ {0}
  /\ Page \subseteq Nat /\ Cache \subseteq Nat \ {0}
  /\ HeaderCache \in Cache /\ HeaderCache \notin OffSlab /\ OffSlab \subseteq Cache
  /\ \A c \in Cache : ObjSize[c] \in Nat \ {0}
BY HeapAssumption DEF Page, Cache, OffSlab

LEMMA Quotient ==
  ASSUME NEW x \in Int, NEW d \in Nat \ {0}
  PROVE  x \div d \in Int /\ (x \div d) * d <= x
OBVIOUS

LEMMA QuotientIs ==
  ASSUME NEW p \in Nat, NEW a \in Int, NEW d \in Nat \ {0},
         p * d <= a, a < p * d + d
  PROVE  a \div d = p
OBVIOUS

LEMMA PageOfFact ==
  ASSUME NEW p \in Page, NEW a \in Int, p * PageSize <= a, a < p * PageSize + PageSize
  PROVE  PageOf(a) = p
BY Sizes, QuotientIs DEF PageOf

LEMMA MulNext ==
  ASSUME NEW a \in Int, NEW d \in Int
  PROVE  (a + 1) * d = a * d + d
OBVIOUS

\* What fits on the page
LEMMA MaxObjsFacts ==
  ASSUME NEW c \in Cache
  PROVE  /\ MaxObjs(c) \in Nat /\ MaxObjs(c) > 1
         /\ MaxObjs(c) * ObjSize[c] <=
              IF c \in OffSlab THEN PageSize ELSE PageSize - HeaderSize
<1>1. ObjSize[c] \in Nat \ {0} /\ PageSize \in Int /\ PageSize - HeaderSize \in Int
  BY Sizes
<1>2. /\ PageSize \div ObjSize[c] \in Int
      /\ (PageSize \div ObjSize[c]) * ObjSize[c] <= PageSize
  BY <1>1, Quotient
<1>3. /\ (PageSize - HeaderSize) \div ObjSize[c] \in Int
      /\ ((PageSize - HeaderSize) \div ObjSize[c]) * ObjSize[c] <= PageSize - HeaderSize
  BY <1>1, Quotient
<1>4. MaxObjs(c) > 1  BY HeapAssumption
<1> QED  BY <1>2, <1>3, <1>4 DEF MaxObjs

LEMMA FirstObjFacts ==
  ASSUME NEW c \in Cache, NEW p \in Page
  PROVE  /\ FirstObj(c, p) \in Nat /\ p * PageSize \in Nat
         /\ FirstObj(c, p) = p * PageSize + (IF c \in OffSlab THEN 0 ELSE HeaderSize)
<1>1. p * PageSize \in Nat  BY Sizes, MulNat
<1> QED  BY <1>1, Sizes DEF FirstObj

LEMMA ObjRange ==
  ASSUME NEW c \in Cache, NEW p \in Page, NEW i \in 0..MaxObjs(c) - 1
  PROVE  /\ Obj(c, p, i) \in Nat
         /\ p * PageSize <= Obj(c, p, i)
         /\ c \notin OffSlab => p * PageSize + HeaderSize <= Obj(c, p, i)
         /\ Obj(c, p, i) + ObjSize[c] <= p * PageSize + PageSize
<1> DEFINE s == ObjSize[c]
           n == MaxObjs(c)
<1>1. s \in Nat \ {0} /\ n \in Nat /\ i \in Nat /\ i + 1 <= n
  BY Sizes, MaxObjsFacts
<1>2. i * s \in Nat  BY <1>1, MulNat
<1>3. (i + 1) * s <= n * s
  <2>1. i + 1 \in Int /\ n \in Int /\ s \in Nat  BY <1>1
  <2> QED  BY <2>1, <1>1, MulMono
<1>4. (i + 1) * s = i * s + s
  <2>1. i \in Int /\ s \in Int  BY <1>1
  <2> QED  BY <2>1, MulNext
<1>5. n * s <= IF c \in OffSlab THEN PageSize ELSE PageSize - HeaderSize
  BY MaxObjsFacts
<1>6. Obj(c, p, i) = FirstObj(c, p) + i * s
  BY DEF Obj
<1>7. n * s \in Nat  BY <1>1, MulNat
<1> HIDE DEF s, n
<1> QED
  BY <1>1, <1>2, <1>3, <1>4, <1>5, <1>6, <1>7, FirstObjFacts, Sizes DEF s, n

LEMMA ObjApart ==
  ASSUME NEW c \in Cache, NEW p \in Page,
         NEW i \in 0..MaxObjs(c) - 1, NEW j \in 0..MaxObjs(c) - 1, i < j
  PROVE  Obj(c, p, i) + ObjSize[c] <= Obj(c, p, j)
<1> DEFINE s == ObjSize[c]
<1>1. s \in Nat \ {0} /\ i \in Nat /\ j \in Nat /\ i + 1 <= j
  BY Sizes, MaxObjsFacts
<1>2. (i + 1) * s <= j * s
  <2>1. i + 1 \in Int /\ j \in Int /\ s \in Nat  BY <1>1
  <2> QED  BY <2>1, <1>1, MulMono
<1>3. (i + 1) * s = i * s + s /\ i * s \in Nat /\ j * s \in Nat
  <2>1. i \in Int /\ s \in Int  BY <1>1
  <2> QED  BY <2>1, <1>1, MulNext, MulNat
<1> HIDE DEF s
<1>4. FirstObj(c, p) + i * s + s <= FirstObj(c, p) + j * s
  BY <1>1, <1>2, <1>3, FirstObjFacts
<1> QED  BY <1>4 DEF Obj, s

\* An object is known by its page, its index and its size.
LEMMA ObjsFacts ==
  ASSUME NEW c \in Cache, NEW p \in Page, NEW a \in Objs(c, p)
  PROVE  /\ a \in Address /\ PageOf(a) = p
         /\ p * PageSize <= a /\ a + ObjSize[c] <= p * PageSize + PageSize
         /\ c \notin OffSlab => p * PageSize + HeaderSize <= a
         /\ \A b \in Objs(c, p) : a # b =>
              a + ObjSize[c] <= b \/ b + ObjSize[c] <= a
<1>1. PICK i \in 0..MaxObjs(c) - 1 : a = Obj(c, p, i)
  BY DEF Objs
<1>2. /\ a \in Nat /\ p * PageSize <= a
      /\ c \notin OffSlab => p * PageSize + HeaderSize <= a
      /\ a + ObjSize[c] <= p * PageSize + PageSize
  BY <1>1, ObjRange
<1>3. p * PageSize \in Nat /\ ObjSize[c] \in Nat \ {0} /\ PageSize \in Nat
  BY FirstObjFacts, Sizes
<1>4. a < p * PageSize + PageSize  BY <1>2, <1>3
<1>5. PageOf(a) = p  BY <1>2, <1>4, PageOfFact
<1>6. a \in Address
  <2>1. (p + 1) * PageSize <= Pages * PageSize
    <3>1. p + 1 \in Int /\ Pages \in Int /\ p + 1 <= Pages /\ PageSize \in Nat
      BY Sizes DEF Page
    <3> QED  BY <3>1, MulMono
  <2>2. (p + 1) * PageSize = p * PageSize + PageSize /\ Pages * PageSize \in Nat
    <3>1. p \in Int /\ PageSize \in Int  BY Sizes
    <3> QED  BY <3>1, Sizes, MulNext, MulNat
  <2> QED  BY <2>1, <2>2, <1>2, <1>3, <1>4 DEF Address
<1>7. ASSUME NEW b \in Objs(c, p), a # b
      PROVE  a + ObjSize[c] <= b \/ b + ObjSize[c] <= a
  <2>1. PICK j \in 0..MaxObjs(c) - 1 : b = Obj(c, p, j)
    BY DEF Objs
  <2>2. i < j \/ j < i
    BY <1>1, <2>1, <1>7, MaxObjsFacts
  <2> QED  BY <1>1, <2>1, <2>2, ObjApart
<1> QED  BY <1>2, <1>5, <1>6, <1>7

\* A slab has room for MaxObjs objects and no more.
LEMMA SlabHolds ==
  ASSUME NEW c \in Cache, NEW p \in Page, NEW s \in Seq(Objs(c, p)), IsInjective(s)
  PROVE  Len(s) <= MaxObjs(c)
<1> DEFINE n == MaxObjs(c)
           f == [j \in 1..Len(s) |-> CHOOSE i \in 0..n - 1 : s[j] = Obj(c, p, i)]
<1>1. n \in Nat /\ Len(s) \in Nat /\ DOMAIN s = 1..Len(s)
  BY MaxObjsFacts
<1>2. \A j \in 1..Len(s) : f[j] \in 0..n - 1 /\ s[j] = Obj(c, p, f[j])
  <2> TAKE j \in 1..Len(s)
  <2>1. s[j] \in Objs(c, p)  BY <1>1
  <2>2. \E i \in 0..n - 1 : s[j] = Obj(c, p, i)  BY <2>1 DEF Objs
  <2> QED  BY <2>2
<1> HIDE DEF n
<1>3. f \in [1..Len(s) -> 0..n - 1]  BY <1>2
<1>4. \A i, j \in 1..Len(s) : i # j => f[i] # f[j]
  BY <1>1, <1>2 DEF IsInjective
<1> HIDE DEF f
<1>5. SUFFICES ASSUME Len(s) > n  PROVE FALSE
  BY <1>1 DEF n
<1>6. IsFiniteSet(1..Len(s)) /\ Cardinality(1..Len(s)) = Len(s)
  BY <1>1, <1>5, FS_Interval
<1>7. IsFiniteSet(0..n - 1) /\ Cardinality(0..n - 1) = n
  <2>1. 0 \in Int /\ n - 1 \in Int  BY <1>1
  <2>2. /\ IsFiniteSet(0..n - 1)
        /\ Cardinality(0..n - 1) = IF 0 > n - 1 THEN 0 ELSE (n - 1) - 0 + 1
    BY <2>1, FS_Interval
  <2> QED  BY <1>1, <2>2
<1>8. \E x, y \in 1..Len(s) : x # y /\ f[x] = f[y]
  <2>1. Cardinality(0..n - 1) < Cardinality(1..Len(s))
    BY <1>5, <1>6, <1>7
  <2> QED  BY <2>1, <1>3, <1>6, <1>7, FS_PigeonHole
<1> QED  BY <1>4, <1>8

-----------------------------------------------------------------------------
(* Slabs that move from list to list *)

\* In g, p is in list k of cache c; all other slabs are where they are in h.
Moved(h, g, c, p, k) ==
  /\ \A d \in Cache, n \in Names : IsInjective(g.list[d][n])
  /\ \A d \in Cache, n \in Names, q \in Page :
       FoundIn(g, d, q, n) <=> IF q = p THEN d = c /\ n = k ELSE FoundIn(h, d, q, n)

LEMMA ListFacts ==
  ASSUME NEW h \in HeapType, NEW c \in Cache, NEW n \in Names
  PROVE  h.list[c] \in CacheLists /\ h.list[c][n] \in Seq(Page)
<1>1. h.list[c] \in CacheLists  BY DEF HeapType
<1> QED  BY <1>1 DEF CacheLists, Names

LEMMA MovedLists ==
  ASSUME NEW h, NEW g, NEW c \in Cache, NEW p \in Page, NEW k \in Names,
         ListsOK(h), Moved(h, g, c, p, k)
  PROVE  /\ ListsOK(g)
         /\ FoundIn(g, c, p, k) /\ On(g, c, p)
         /\ \A d \in Cache, q \in Page : q # p => (On(g, d, q) <=> On(h, d, q))
         /\ \A d \in Cache : On(g, d, p) => d = c
<1>1. ListsOK(g)  BY DEF ListsOK, Moved
<1>2. FoundIn(g, c, p, k) /\ On(g, c, p)  BY DEF Moved, On
<1>3. \A d \in Cache, q \in Page : q # p => (On(g, d, q) <=> On(h, d, q))
  BY DEF Moved, On
<1>4. \A d \in Cache : On(g, d, p) => d = c
  BY DEF Moved, On
<1> QED  BY <1>1, <1>2, <1>3, <1>4

\* A slab is in the lists of one cache, and in one of them.
LEMMA OnUnique ==
  ASSUME NEW h, ListsOK(h), NEW c \in Cache, NEW d \in Cache, NEW p \in Page,
         On(h, c, p)
  PROVE  /\ On(h, d, p) => c = d
         /\ \A m, n \in Names : FoundIn(h, c, p, m) /\ FoundIn(h, c, p, n) => m = n
BY DEF On, ListsOK

LEMMA NotMoved ==
  ASSUME NEW h, NEW g, NEW c \in Cache, NEW p \in Page, NEW k \in Names,
         ListsOK(h), FoundIn(h, c, p, k), g.list = h.list
  PROVE  Moved(h, g, c, p, k)
BY DEF ListsOK, Moved, FoundIn

\* The heap's lists with those of c replaced
ListSet(h, c, l) == [h.list EXCEPT ![c] = l]

LEMMA ListSetFacts ==
  ASSUME NEW h \in HeapType, NEW c \in Cache, NEW l \in CacheLists
  PROVE  /\ ListSet(h, c, l) \in [Cache -> CacheLists]
         /\ ListSet(h, c, l)[c] = l
         /\ \A d \in Cache \ {c} : ListSet(h, c, l)[d] = h.list[d]
BY DEF ListSet, HeapType

\* Taking p out of one list of c and pushing it on another
LEMMA MoveList ==
  ASSUME NEW h \in HeapType, NEW g, NEW c \in Cache, NEW p \in Page,
         NEW from \in Names, NEW to \in Names, from # to,
         ListsOK(h), FoundIn(h, c, p, from),
         g.list = ListSet(h, c, Relinked(h.list[c], p, from, to))
  PROVE  g.list \in [Cache -> CacheLists] /\ Moved(h, g, c, p, to)
<1> DEFINE f == h.list[c][from]
           t == h.list[c][to]
<1>1. h.list \in [Cache -> CacheLists] /\ f \in Seq(Page) /\ t \in Seq(Page)
  BY ListFacts DEF HeapType
<1>2. IsInjective(f) /\ IsInjective(t) /\ p \in Range(f) /\ p \notin Range(t)
  BY DEF ListsOK, FoundIn
<1>3. /\ Remove(f, p) \in Seq(Page) /\ IsInjective(Remove(f, p))
      /\ Range(Remove(f, p)) = Range(f) \ {p}
  BY <1>1, <1>2, RemoveFacts
<1>4. /\ <<p>> \o t \in Seq(Page) /\ IsInjective(<<p>> \o t)
      /\ Range(<<p>> \o t) = {p} \cup Range(t)
  BY <1>1, <1>2, PushFacts
<1>5. /\ \A d \in Cache \ {c} : g.list[d] = h.list[d]
      /\ g.list[c] = Relinked(h.list[c], p, from, to)
      /\ DOMAIN g.list = Cache
  BY <1>1 DEF ListSet
<1>6. /\ g.list[c][from] = Remove(f, p) /\ g.list[c][to] = <<p>> \o t
      /\ \A n \in Names \ {from, to} : g.list[c][n] = h.list[c][n]
      /\ g.list[c] \in CacheLists
  <2>1. h.list[c] \in CacheLists  BY <1>1
  <2> DEFINE l == h.list[c]
  <2>2. l \in [Names -> Seq(Page)]  BY <2>1 DEF CacheLists, Names
  <2>3. g.list[c] = [l EXCEPT ![from] = Remove(f, p), ![to] = <<p>> \o t]
    BY <1>5 DEF Relinked
  <2> HIDE DEF f, t, l
  <2>4. g.list[c] \in [Names -> Seq(Page)]  BY <1>3, <1>4, <2>2, <2>3
  <2>5. \A n \in Names \ {from, to} : g.list[c][n] = l[n]  BY <2>2, <2>3
  <2>6. g.list[c][from] = Remove(f, p) /\ g.list[c][to] = <<p>> \o t  BY <2>2, <2>3
  <2>7. g.list[c] \in CacheLists  BY <2>4 DEF CacheLists, Names
  <2> QED  BY <2>5, <2>6, <2>7 DEF l
<1>7. g.list \in [Cache -> CacheLists]
  BY <1>5, <1>6, ListSetFacts
<1>8. ASSUME NEW d \in Cache, NEW n \in Names
      PROVE  IsInjective(g.list[d][n])
  <2>1. CASE d = c  BY <2>1, <1>3, <1>4, <1>6 DEF ListsOK
  <2>2. CASE d # c  BY <2>2, <1>5 DEF ListsOK
  <2> QED  BY <2>1, <2>2
<1>9. ASSUME NEW d \in Cache, NEW n \in Names, NEW q \in Page
      PROVE  FoundIn(g, d, q, n) <=> IF q = p THEN d = c /\ n = to ELSE FoundIn(h, d, q, n)
  <2>1. CASE d # c
    <3>1. g.list[d][n] = h.list[d][n]  BY <2>1, <1>5
    <3>2. ~FoundIn(h, d, p, n)  BY <2>1 DEF ListsOK
    <3> QED  BY <2>1, <3>1, <3>2 DEF FoundIn
  <2>2. CASE d = c /\ n = from
    BY <2>2, <1>3, <1>6 DEF FoundIn
  <2>3. CASE d = c /\ n = to
    BY <2>3, <1>4, <1>6 DEF FoundIn
  <2>4. CASE d = c /\ n \notin {from, to}
    <3>1. g.list[d][n] = h.list[d][n]  BY <2>4, <1>6
    <3>2. ~FoundIn(h, d, p, n)  BY <2>4 DEF ListsOK
    <3> QED  BY <2>4, <3>1, <3>2 DEF FoundIn
  <2> QED  BY <2>1, <2>2, <2>3, <2>4
<1> QED  BY <1>7, <1>8, <1>9 DEF Moved

\* A new slab in a list that was empty
LEMMA NewInList ==
  ASSUME NEW h \in HeapType, NEW g, NEW c \in Cache, NEW p \in Page,
         ListsOK(h), \A d \in Cache : ~On(h, d, p), h.list[c]["partial"] = <<>>,
         g.list = ListSet(h, c, [h.list[c] EXCEPT !["partial"] = <<p>>])
  PROVE  g.list \in [Cache -> CacheLists] /\ Moved(h, g, c, p, "partial")
<1> DEFINE k == "partial"
<1>1. h.list \in [Cache -> CacheLists] /\ k \in Names
  BY DEF HeapType, Names
<1>2. /\ \A d \in Cache \ {c} : g.list[d] = h.list[d]
      /\ g.list[c] = [h.list[c] EXCEPT ![k] = <<p>>]
      /\ DOMAIN g.list = Cache
  BY <1>1 DEF ListSet
<1>3. <<p>> \in Seq(Page) /\ IsInjective(<<p>>) /\ Range(<<p>>) = {p}
  <2>1. DOMAIN <<p>> = {1} /\ <<p>>[1] = p  OBVIOUS
  <2> QED  BY <2>1 DEF IsInjective, Range
<1>4. /\ g.list[c][k] = <<p>> /\ g.list[c] \in CacheLists
      /\ \A n \in Names \ {k} : g.list[c][n] = h.list[c][n]
  <2>1. h.list[c] \in CacheLists  BY <1>1
  <2> QED  BY <1>2, <1>3, <2>1 DEF CacheLists, Names
<1>5. g.list \in [Cache -> CacheLists]
  <2> DEFINE l == [h.list[c] EXCEPT !["partial"] = <<p>>]
  <2>1. l = g.list[c] /\ g.list = ListSet(h, c, l)  BY <1>2
  <2> HIDE DEF l
  <2>2. l \in CacheLists  BY <2>1, <1>4
  <2>3. ListSet(h, c, l) \in [Cache -> CacheLists]  BY <2>2, ListSetFacts
  <2> QED  BY <2>1, <2>3
<1>6. ASSUME NEW d \in Cache, NEW n \in Names
      PROVE  IsInjective(g.list[d][n])
  <2>1. CASE d = c  BY <2>1, <1>3, <1>4 DEF ListsOK
  <2>2. CASE d # c  BY <2>2, <1>2 DEF ListsOK
  <2> QED  BY <2>1, <2>2
<1>7. ASSUME NEW d \in Cache, NEW n \in Names, NEW q \in Page
      PROVE  FoundIn(g, d, q, n) <=> IF q = p THEN d = c /\ n = k ELSE FoundIn(h, d, q, n)
  <2>1. ~FoundIn(h, d, p, n)  BY DEF On
  <2>2. CASE d = c /\ n = k
    <3>1. ~FoundIn(h, d, q, n)
      <4>1. Range(<<>>) = {}  BY DEF Range
      <4> QED  BY <2>2, <4>1 DEF FoundIn
    <3> QED  BY <2>2, <3>1, <1>3, <1>4 DEF FoundIn
  <2>3. CASE d # c \/ n # k
    <3>1. g.list[d][n] = h.list[d][n]  BY <2>3, <1>2, <1>4
    <3> QED  BY <2>1, <2>3, <3>1 DEF FoundIn
  <2> QED  BY <2>2, <2>3
<1> QED  BY <1>5, <1>6, <1>7 DEF Moved

-----------------------------------------------------------------------------
(* One slab of a heap changes *)

LEMMA OnSlab ==
  ASSUME NEW h, NEW out, HeapOK(h, out), NEW c \in Cache, NEW p \in Page, On(h, c, p)
  PROVE  /\ SlabOK(h, c, p, out) /\ HeaderOK(h, c, p, out)
         /\ h.slab[p] \in Slab /\ h.slab[p].free \in Seq(Objs(c, p))
         /\ h.slab[p].header # NoHeader /\ Range(h.slab[p].free) \subseteq Objs(c, p)
<1>1. SlabOK(h, c, p, out) /\ HeaderOK(h, c, p, out) /\ h.slab[p] \in Slab
  BY DEF HeapOK, SlabsOK, HeapType
<1>2. Range(h.slab[p].free) \subseteq Objs(c, p)
  BY <1>1 DEF SlabOK
<1>3. h.slab[p].free \in Seq(Objs(c, p))
  <2> DEFINE s == h.slab[p].free
  <2>1. s \in Seq(Address)  BY <1>1 DEF Slab
  <2>2. \A i \in 1..Len(s) : s[i] \in Objs(c, p)
    BY <1>2, <2>1 DEF Range
  <2> HIDE DEF s
  <2>3. s \in Seq(Objs(c, p))
    BY <2>1, <2>2
  <2> QED  BY <2>3 DEF s
<1>4. h.slab[p].header # NoHeader
  <2>1. CASE c \in OffSlab
    <3>1. h.slab[p].header \in out  BY <2>1, <1>1 DEF HeaderOK
    <3>2. PageOf(h.slab[p].header) \in Page  BY <3>1 DEF HeapOK, OutOK
    <3>3. PageOf(NoHeader) \notin Page
      BY Sizes DEF PageOf, NoHeader, Page
    <3> QED  BY <3>2, <3>3
  <2>2. CASE c \notin OffSlab
    <3>1. h.slab[p].header = p * PageSize  BY <2>2, <1>1 DEF HeaderOK
    <3> QED  BY <3>1, FirstObjFacts DEF NoHeader
  <2> QED  BY <2>1, <2>2
<1> QED  BY <1>1, <1>2, <1>3, <1>4

\* An address that is out is an object of the slab on its page.
LEMMA OutIsObj ==
  ASSUME NEW h, NEW out, HeapOK(h, out), NEW a \in out
  PROVE  /\ PageOf(a) \in Page
         /\ \A c \in Cache : On(h, c, PageOf(a)) => a \in Objs(c, PageOf(a))
         /\ \E c \in Cache : On(h, c, PageOf(a))
<1>1. PageOf(a) \in Page /\ \E c \in Cache : On(h, c, PageOf(a))
  BY DEF HeapOK, OutOK
<1>2. ASSUME NEW c \in Cache, On(h, c, PageOf(a))  PROVE a \in Objs(c, PageOf(a))
  BY <1>1, <1>2, OnSlab DEF SlabOK
<1> QED  BY <1>1, <1>2

\* A change to p and to what is out of its objects leaves the other slabs as
\* they were.
LEMMA OthersOK ==
  ASSUME NEW h, NEW g, NEW out, NEW new, NEW c \in Cache, NEW p \in Page, NEW k \in Names,
         HeapOK(h, out), Moved(h, g, c, p, k),
         \A d \in Cache : On(h, d, p) => d = c,
         \A q \in Page : q # p => g.slab[q] = h.slab[q] /\ g.parent[q] = h.parent[q],
         h.blocks \subseteq g.blocks,
         \A a : PageOf(a) # p => (a \in new <=> a \in out),
         \A d \in OffSlab, q \in Page : On(h, d, q) => h.slab[q].header \in new
  PROVE  \A d \in Cache, q \in Page : q # p /\ On(g, d, q) =>
           On(h, d, q) /\ SlabOK(g, d, q, new) /\ HeaderOK(g, d, q, new)
<1> SUFFICES ASSUME NEW d \in Cache, NEW q \in Page, q # p, On(g, d, q)
             PROVE  On(h, d, q) /\ SlabOK(g, d, q, new) /\ HeaderOK(g, d, q, new)
  OBVIOUS
<1>1. /\ \A e \in Cache, r \in Page : r # p => (On(g, e, r) <=> On(h, e, r))
      /\ On(g, c, p) /\ ListsOK(h)
  <2>1. ListsOK(h)  BY DEF HeapOK
  <2>2. /\ On(g, c, p)
        /\ \A e \in Cache, r \in Page : r # p => (On(g, e, r) <=> On(h, e, r))
    BY DEF Moved, On
  <2> QED  BY <2>1, <2>2
<1>2. On(h, d, q) /\ SlabOK(h, d, q, out) /\ HeaderOK(h, d, q, out)
  BY <1>1, OnSlab
<1>3. \A e \in Cache, r \in Page : On(h, e, r) => On(g, e, r)
  BY <1>1
<1>4. g.slab[q] = h.slab[q] /\ g.parent[q] = h.parent[q] /\ BlockAt(q, 0) \in g.blocks
  BY <1>2 DEF SlabOK
<1>5. {a \in new : PageOf(a) = q} = {a \in out : PageOf(a) = q}
  OBVIOUS
<1>6. Range(h.slab[q].free) \cap new = {}
  <2>1. SUFFICES ASSUME NEW a \in Range(h.slab[q].free), a \in new  PROVE FALSE
    OBVIOUS
  <2>2. a \in Objs(d, q)  BY <2>1, <1>2, OnSlab
  <2>3. PageOf(a) = q  BY <2>2, ObjsFacts
  <2>4. a \in out  BY <2>1, <2>3
  <2> QED  BY <2>1, <2>4, <1>2 DEF SlabOK
<1>7. FoundIn(g, d, q, Place(d, g.slab[q].active))
  <2>1. Place(d, h.slab[q].active) \in Names  BY DEF Place, Names
  <2> QED  BY <2>1, <1>2, <1>4 DEF SlabOK, Moved
<1>8. SlabOK(g, d, q, new)
  BY <1>2, <1>4, <1>5, <1>6, <1>7 DEF SlabOK
<1>9. HeaderOK(g, d, q, new)
  <2>1. CASE d \in OffSlab
    <3>1. h.slab[q].header \in new  BY <2>1, <1>2
    <3>2. On(h, HeaderCache, PageOf(h.slab[q].header))
      BY <2>1, <1>2 DEF HeaderOK
    <3>3. h.slab[q].header \in out  BY <2>1, <1>2 DEF HeaderOK
    <3>4. PageOf(h.slab[q].header) \in Page  BY <3>3, OutIsObj
    <3> QED  BY <2>1, <3>1, <3>2, <3>4, <1>3, <1>4, Sizes DEF HeaderOK
  <2>2. CASE d \notin OffSlab
    BY <2>2, <1>2, <1>4 DEF HeaderOK
  <2> QED  BY <2>1, <2>2
<1> QED  BY <1>2, <1>8, <1>9

\* The rest of the invariant, once slab p and the others are known to be right
LEMMA ChangeOK ==
  ASSUME NEW h, NEW g \in HeapType, NEW out, NEW new, NEW c \in Cache, NEW p \in Page,
         NEW k \in Names, HeapOK(h, out), Moved(h, g, c, p, k),
         \A d \in Cache : On(h, d, p) => d = c,
         \A q \in Page : q # p => g.slab[q] = h.slab[q] /\ g.parent[q] = h.parent[q],
         h.blocks \subseteq g.blocks, BlocksOK(g),
         \A a : PageOf(a) # p => (a \in new <=> a \in out),
         \A d \in OffSlab, q \in Page : On(h, d, q) => h.slab[q].header \in new,
         SlabOK(g, c, p, new), HeaderOK(g, c, p, new),
         \A q \in Page : q # p => g.slab[p].header # h.slab[q].header
  PROVE  HeapOK(g, new)
<1>1. /\ ListsOK(g) /\ On(g, c, p)
      /\ \A e \in Cache, r \in Page : r # p => (On(g, e, r) <=> On(h, e, r))
      /\ \A d \in Cache : On(g, d, p) => d = c
  <2>1. ListsOK(h)  BY DEF HeapOK
  <2> QED  BY <2>1, MovedLists
<1>2. ASSUME NEW d \in Cache, NEW q \in Page, On(g, d, q)
      PROVE  SlabOK(g, d, q, new) /\ HeaderOK(g, d, q, new)
  <2>1. CASE q = p  BY <2>1, <1>1, <1>2
  <2>2. CASE q # p  BY <2>2, <1>2, OthersOK
  <2> QED  BY <2>1, <2>2
<1>3. ASSUME NEW q \in Page, NEW r \in Page, q # r, g.slab[q].header # NoHeader
      PROVE  g.slab[q].header # g.slab[r].header
  <2>1. SlabsOK(h, out)  BY DEF HeapOK
  <2>2. CASE q # p /\ r # p  BY <2>1, <2>2, <1>3 DEF SlabsOK
  <2>3. CASE q = p \/ r = p  BY <2>3, <1>3
  <2> QED  BY <2>2, <2>3
<1>4. ASSUME NEW q \in Page, \A d \in Cache : ~On(g, d, q)
      PROVE  g.slab[q].header = NoHeader /\ g.slab[q].free = <<>> /\ g.parent[q] = 0
  <2>1. q # p  BY <1>1, <1>4
  <2>2. \A d \in Cache : ~On(h, d, q)  BY <2>1, <1>1, <1>4
  <2> QED  BY <2>1, <2>2 DEF HeapOK, SlabsOK
<1>5. SlabsOK(g, new)  BY <1>2, <1>3, <1>4 DEF SlabsOK
<1>6. OutOK(g, new)
  <2>1. SUFFICES ASSUME NEW a \in new
                 PROVE  PageOf(a) \in Page /\ \E d \in Cache : On(g, d, PageOf(a))
    BY DEF OutOK
  <2>2. CASE PageOf(a) = p  BY <2>2, <1>1
  <2>3. CASE PageOf(a) # p
    <3>1. a \in out  BY <2>3
    <3> QED  BY <3>1, <2>3, <1>1, OutIsObj
  <2> QED  BY <2>2, <2>3
<1> QED  BY <1>1, <1>5, <1>6 DEF HeapOK

\* Other slabs have other struct slabs.
LEMMA HeaderApart ==
  ASSUME NEW h, NEW out, HeapOK(h, out), NEW c \in Cache, NEW p \in Page, On(h, c, p),
         NEW q \in Page, q # p
  PROVE  h.slab[p].header # h.slab[q].header
<1>1. h.slab[p].header # NoHeader  BY OnSlab
<1> QED  BY <1>1 DEF HeapOK, SlabsOK

\* The heap with other lists, another count and another chain for slab p
SlabSet(h, p, n, f, lists) ==
  [list   |-> lists,
   slab   |-> [h.slab EXCEPT ![p] =
                [active |-> n, free |-> f, header |-> h.slab[p].header]],
   parent |-> h.parent,
   blocks |-> h.blocks]

\* An object of slab p is taken off its chain.
TakenFrom(h, p, lists) ==
  SlabSet(h, p, h.slab[p].active + 1, Tail(h.slab[p].free), lists)

LEMMA TakeOK ==
  ASSUME NEW h, NEW out, HeapOK(h, out), NEW c \in Cache, NEW p \in Page, On(h, c, p),
         h.slab[p].free # <<>>, NEW lists \in [Cache -> CacheLists],
         Moved(h, TakenFrom(h, p, lists), c, p, Place(c, h.slab[p].active + 1))
  PROVE  LET a == Head(h.slab[p].free)
         IN  /\ HeapOK(TakenFrom(h, p, lists), out \cup {a})
             /\ a \notin out /\ a \in Objs(c, p)
<1> DEFINE g == TakenFrom(h, p, lists)
           s == h.slab[p]
           a == Head(s.free)
           t == [active |-> s.active + 1, free |-> Tail(s.free), header |-> s.header]
           new == out \cup {a}
           k == Place(c, s.active + 1)
<1>1. /\ SlabOK(h, c, p, out) /\ HeaderOK(h, c, p, out) /\ s \in Slab
      /\ s.free \in Seq(Objs(c, p)) /\ ListsOK(h) /\ h \in HeapType /\ k \in Names
  BY OnSlab DEF HeapOK, Place, Names
<1>2. /\ a \in Objs(c, p) /\ a \in Range(s.free)
      /\ Range(s.free) = {a} \cup Range(Tail(s.free))
      /\ Tail(s.free) \in Seq(Objs(c, p))
      /\ IsInjective(Tail(s.free)) /\ a \notin Range(Tail(s.free))
  BY <1>1, TailFacts DEF SlabOK
<1>3. a \notin out /\ PageOf(a) = p /\ Objs(c, p) \subseteq Address
  BY <1>1, <1>2, ObjsFacts DEF SlabOK
<1>4. t \in Slab
  <2>1. Tail(s.free) \in Seq(Address)
    <3>1. s.free \in Seq(Address)  BY <1>1 DEF Slab
    <3> QED  BY <3>1, TailFacts
  <2> QED  BY <2>1, <1>1 DEF Slab
<1>5. g \in HeapType
  BY <1>1, <1>4 DEF HeapType, TakenFrom, SlabSet
<1>6. /\ g.slab[p] = t /\ g.parent = h.parent /\ g.blocks = h.blocks
      /\ \A q \in Page : q # p => g.slab[q] = h.slab[q]
  BY <1>1 DEF HeapType, TakenFrom, SlabSet
<1> HIDE DEF g, t
<1>7. SlabOK(g, c, p, new)
  <2>1. FoundIn(g, c, p, k)
    <3>1. Moved(h, g, c, p, k)  BY DEF g
    <3> HIDE DEF k
    <3> QED  BY <3>1, <1>1 DEF Moved
  <2>2. t.active = s.active + 1 /\ t.free = Tail(s.free) /\ t.header = s.header
    BY DEF t
  <2>3. t.active + Len(t.free) = MaxObjs(c)
    <3>1. Len(Tail(s.free)) = Len(s.free) - 1 /\ Len(s.free) \in Nat
      BY <1>1
    <3>2. s.active + Len(s.free) = MaxObjs(c) /\ s.active \in Nat
      BY <1>1 DEF SlabOK, Slab
    <3>3. s.active + 1 + (Len(s.free) - 1) = MaxObjs(c)  BY <3>1, <3>2
    <3> QED  BY <2>2, <3>1, <3>3
  <2>4. Range(t.free) \cap new = {}  BY <1>1, <1>2, <2>2 DEF SlabOK
  <2>5. Range(t.free) \cup {b \in new : PageOf(b) = p} = Objs(c, p)
    <3>1. {b \in new : PageOf(b) = p} = {b \in out : PageOf(b) = p} \cup {a}
      BY <1>3
    <3> QED  BY <3>1, <1>1, <1>2, <2>2 DEF SlabOK
  <2> QED
    BY <2>1, <2>2, <2>3, <2>4, <2>5, <1>1, <1>2, <1>6 DEF SlabOK
<1>8. HeaderOK(g, c, p, new)
  <2>1. CASE c \in OffSlab
    <3>1. h.slab[p].header \in out /\ On(h, HeaderCache, PageOf(h.slab[p].header))
      BY <2>1, <1>1 DEF HeaderOK
    <3>2. PageOf(h.slab[p].header) \in Page  BY <3>1, OutIsObj
    <3>3. PageOf(h.slab[p].header) # p
      BY <2>1, <3>1, <1>1, OnUnique, Sizes
    <3>4. On(g, HeaderCache, PageOf(h.slab[p].header))
      <4>1. \A d \in Cache, q \in Page : q # p => (On(g, d, q) <=> On(h, d, q))
        <5>1. Moved(h, g, c, p, k)  BY DEF g
        <5> QED  BY <5>1 DEF Moved, On
      <4> QED  BY <3>1, <3>2, <3>3, <4>1, Sizes
    <3>5. g.slab[p].header = h.slab[p].header  BY <1>6 DEF t
    <3> QED  BY <2>1, <3>1, <3>4, <3>5 DEF HeaderOK
  <2>2. CASE c \notin OffSlab
    BY <2>2, <1>1, <1>6 DEF HeaderOK, t
  <2> QED  BY <2>1, <2>2
<1>9. HeapOK(g, new)
  <2>1. Moved(h, g, c, p, k)  BY DEF g
  <2>2. \A d \in Cache : On(h, d, p) => d = c  BY <1>1, OnUnique
  <2>3. \A q \in Page : q # p => g.slab[q] = h.slab[q] /\ g.parent[q] = h.parent[q]
    BY <1>6
  <2>4. BlocksOK(g) /\ h.blocks \subseteq g.blocks  BY <1>6 DEF HeapOK, BlocksOK
  <2>5. \A b : PageOf(b) # p => (b \in new <=> b \in out)  BY <1>3
  <2>6. \A d \in OffSlab, q \in Page : On(h, d, q) => h.slab[q].header \in new
    BY OnSlab, Sizes DEF HeaderOK
  <2>7. \A q \in Page : q # p => g.slab[p].header # h.slab[q].header
    BY <1>6, HeaderApart DEF t
  <2> HIDE DEF new, k
  <2> QED
    BY <1>1, <1>5, <1>7, <1>8, <2>1, <2>2, <2>3, <2>4, <2>5, <2>6, <2>7, ChangeOK
<1> QED  BY <1>2, <1>3, <1>9 DEF g

-----------------------------------------------------------------------------
(* kvmem_cache_alloc *)

LEMMA HeapRecord ==
  ASSUME NEW h \in HeapType
  PROVE  /\ h = [list |-> h.list, slab |-> h.slab, parent |-> h.parent, blocks |-> h.blocks]
         /\ h.list \in [Cache -> CacheLists] /\ h.slab \in [Page -> Slab]
         /\ h.blocks \subseteq PageAllocator!Block
BY DEF HeapType

\* Updates of records, field by field
LEMMA SlabRecord ==
  ASSUME NEW s \in Slab, NEW n, NEW f
  PROVE  [s EXCEPT !.active = n, !.free = f] =
           [active |-> n, free |-> f, header |-> s.header]
<1> DEFINE t == [s EXCEPT !.active = n]
<1>1. s = [active |-> s.active, free |-> s.free, header |-> s.header]  BY DEF Slab
<1>2. t = [active |-> n, free |-> s.free, header |-> s.header]  BY <1>1
<1>3. [t EXCEPT !.free = f] = [active |-> n, free |-> f, header |-> s.header]
  <2> HIDE DEF t
  <2> QED  BY <1>2
<1> QED  BY <1>3

Updated(h, c, p, n, f, l) ==
  [h EXCEPT !.slab[p].active = n, !.slab[p].free = f, !.list[c] = l]

LEMMA HeapUpdate ==
  ASSUME NEW h \in HeapType, NEW c \in Cache, NEW p \in Page, NEW n, NEW f, NEW l
  PROVE  Updated(h, c, p, n, f, l) = SlabSet(h, p, n, f, ListSet(h, c, l))
<1> DEFINE s  == h.slab[p]
           t  == [s EXCEPT !.active = n]
           u  == [active |-> n, free |-> f, header |-> s.header]
           h1 == [h EXCEPT !.slab[p].active = n]
           h2 == [h1 EXCEPT !.slab[p].free = f]
           h3 == [h2 EXCEPT !.list[c] = l]
<1>1. /\ h = [list |-> h.list, slab |-> h.slab,
              parent |-> h.parent, blocks |-> h.blocks]
      /\ h.slab \in [Page -> Slab]
  BY HeapRecord
<1>2. h1 = [list |-> h.list, slab |-> [h.slab EXCEPT ![p] = t],
            parent |-> h.parent, blocks |-> h.blocks]
  BY <1>1
<1>3. h2 = [list |-> h.list, slab |-> [h.slab EXCEPT ![p] = [t EXCEPT !.free = f]],
            parent |-> h.parent, blocks |-> h.blocks]
  <2> HIDE DEF h1, t
  <2>1. h1.slab[p] = t  BY <1>1, <1>2
  <2>2. [h1.slab EXCEPT ![p] = [@ EXCEPT !.free = f]] =
          [h.slab EXCEPT ![p] = [t EXCEPT !.free = f]]
    BY <1>1, <1>2, <2>1
  <2> QED  BY <1>2, <2>2
<1>4. [t EXCEPT !.free = f] = u
  <2>1. s \in Slab  BY <1>1
  <2> HIDE DEF s
  <2> QED  BY <2>1, SlabRecord DEF t, u
<1>5. h3 = [list |-> [h.list EXCEPT ![c] = l], slab |-> [h.slab EXCEPT ![p] = u],
            parent |-> h.parent, blocks |-> h.blocks]
  <2> HIDE DEF h2, t, u
  <2> QED  BY <1>3, <1>4
<1> QED  BY <1>5 DEF Updated, SlabSet, ListSet, t

\* The list a slab is in says how many of its objects are out.
LEMMA CountOf ==
  ASSUME NEW h, NEW out, HeapOK(h, out), NEW c \in Cache, NEW p \in Page, NEW n \in Names,
         FoundIn(h, c, p, n)
  PROVE  /\ On(h, c, p) /\ Place(c, h.slab[p].active) = n
         /\ h.slab[p].active \in Nat /\ Len(h.slab[p].free) \in Nat
         /\ h.slab[p].active + Len(h.slab[p].free) = MaxObjs(c)
         /\ n = "partial" => h.slab[p].active \in 1..MaxObjs(c) - 1
         /\ n = "empty" => h.slab[p].active = 0
         /\ n = "full" => h.slab[p].active = MaxObjs(c)
<1>1. On(h, c, p)  BY DEF On
<1>2. SlabOK(h, c, p, out) /\ h.slab[p] \in Slab /\ ListsOK(h)
  BY <1>1, OnSlab DEF HeapOK
<1>3. Place(c, h.slab[p].active) = n
  <2>1. Place(c, h.slab[p].active) \in Names  BY DEF Place, Names
  <2> QED  BY <2>1, <1>1, <1>2, OnUnique DEF SlabOK
<1>4. /\ h.slab[p].active \in Nat /\ Len(h.slab[p].free) \in Nat
      /\ h.slab[p].active + Len(h.slab[p].free) = MaxObjs(c)
  BY <1>2 DEF SlabOK, Slab
<1> QED  BY <1>1, <1>3, <1>4, MaxObjsFacts DEF Place

LEMMA FromPartialIs ==
  ASSUME NEW h, NEW out, HeapOK(h, out), NEW c \in Cache, h.list[c]["partial"] # <<>>
  PROVE  LET p == Head(h.list[c]["partial"])
             r == FromPartial(h, c)
         IN  /\ p \in Page /\ FoundIn(h, c, p, "partial")
             /\ r.slot = Head(h.slab[p].free)
             /\ r.heap = TakenFrom(h, p,
                  IF IsFull(c, h.slab[p].active + 1)
                  THEN ListSet(h, c, Relinked(h.list[c], p, "partial", "full"))
                  ELSE h.list)
<1> DEFINE p == Head(h.list[c]["partial"])
           s == h.slab[p]
<1>1. h \in HeapType /\ "partial" \in Names  BY DEF HeapOK, Names
<1>2. h.list[c]["partial"] \in Seq(Page)  BY <1>1, ListFacts
<1>3. p \in Page /\ p \in Range(h.list[c]["partial"])
  BY <1>2, TailFacts
<1>4. s \in Slab  BY <1>1, <1>3 DEF HeapType
<1> HIDE DEF p
<1>5. [h.list EXCEPT ![c] = h.list[c]] = h.list
  BY <1>1 DEF HeapType
<1>6. FromPartial(h, c).heap =
        Updated(h, c, p, s.active + 1, Tail(s.free),
                IF IsFull(c, s.active + 1) THEN Relinked(h.list[c], p, "partial", "full")
                ELSE h.list[c])
  BY DEF FromPartial, Updated, p
<1>7. FromPartial(h, c).heap = TakenFrom(h, p,
        ListSet(h, c, IF IsFull(c, s.active + 1)
                      THEN Relinked(h.list[c], p, "partial", "full") ELSE h.list[c]))
  BY <1>1, <1>3, <1>6, HeapUpdate DEF TakenFrom
<1>8. FromPartial(h, c).slot = Head(s.free)
  BY DEF FromPartial, p
<1> QED  BY <1>3, <1>5, <1>7, <1>8 DEF p, FoundIn, ListSet

LEMMA FromEmptyIs ==
  ASSUME NEW h, NEW out, HeapOK(h, out), NEW c \in Cache, h.list[c]["empty"] # <<>>
  PROVE  LET p == Head(h.list[c]["empty"])
             r == FromEmpty(h, c)
         IN  /\ p \in Page /\ FoundIn(h, c, p, "empty")
             /\ r.slot = Head(h.slab[p].free)
             /\ r.heap = TakenFrom(h, p,
                  ListSet(h, c, Relinked(h.list[c], p, "empty", "partial")))
<1> DEFINE p == Head(h.list[c]["empty"])
           s == h.slab[p]
<1>1. h \in HeapType /\ "empty" \in Names  BY DEF HeapOK, Names
<1>2. h.list[c]["empty"] \in Seq(Page)  BY <1>1, ListFacts
<1>3. p \in Page /\ p \in Range(h.list[c]["empty"])
  BY <1>2, TailFacts
<1>4. s \in Slab  BY <1>1, <1>3 DEF HeapType
<1>5. s.active = 0
  BY <1>1, <1>3, CountOf DEF FoundIn
<1> HIDE DEF p
<1>6. FromEmpty(h, c).heap =
        Updated(h, c, p, 1, Tail(s.free),
                Relinked(h.list[c], p, "empty", "partial"))
  BY DEF FromEmpty, Updated, p
<1>7. FromEmpty(h, c).heap = TakenFrom(h, p,
        ListSet(h, c, Relinked(h.list[c], p, "empty", "partial")))
  <2>1. s.active + 1 = 1  BY <1>5
  <2> QED  BY <1>1, <1>3, <1>6, <2>1, HeapUpdate DEF TakenFrom
<1>8. FromEmpty(h, c).slot = Head(s.free)
  BY DEF FromEmpty, p
<1> QED  BY <1>3, <1>7, <1>8 DEF p, FoundIn, ListSet

\* Slabs stay, and what they were cut from; new ones are on pages that were
\* not in use.
Grown(h, g) ==
  /\ \A d \in Cache, q \in Page :
       On(h, d, q) => On(g, d, q) /\ g.slab[q].header = h.slab[q].header
  /\ \A d \in Cache, q \in Page :
       On(g, d, q) /\ ~On(h, d, q) => \A b \in h.blocks : q \notin PageAllocator!Extent(b)
  /\ h.blocks \subseteq g.blocks

\* r is an outcome of kvmem_cache_alloc for cache c that needs no new struct
\* slab from HeaderCache.
Allocated(h, out, c, r) ==
  /\ HeapOK(r.heap, out \cup {r.slot}) /\ r.slot \notin out
  /\ PageOf(r.slot) \in Page /\ On(r.heap, c, PageOf(r.slot))
  /\ Grown(h, r.heap)
  /\ \A d \in Cache \ {c} :
       /\ r.heap.list[d] = h.list[d]
       /\ \A q \in Page : On(r.heap, d, q) <=> On(h, d, q)

SameSlabs(h, g) == \A d \in Cache, q \in Page : On(g, d, q) <=> On(h, d, q)

LEMMA TakeAllocates ==
  ASSUME NEW h, NEW out, HeapOK(h, out), NEW c \in Cache, NEW p \in Page, On(h, c, p),
         h.slab[p].free # <<>>, NEW lists \in [Cache -> CacheLists],
         \A d \in Cache \ {c} : lists[d] = h.list[d],
         Moved(h, TakenFrom(h, p, lists), c, p, Place(c, h.slab[p].active + 1)),
         NEW r, r.heap = TakenFrom(h, p, lists), r.slot = Head(h.slab[p].free)
  PROVE  Allocated(h, out, c, r) /\ SameSlabs(h, r.heap)
<1> DEFINE g == TakenFrom(h, p, lists)
           k == Place(c, h.slab[p].active + 1)
<1>1. HeapOK(g, out \cup {r.slot}) /\ r.slot \notin out /\ r.slot \in Objs(c, p)
  BY TakeOK
<1>2. PageOf(r.slot) = p  BY <1>1, ObjsFacts
<1>3. /\ h \in HeapType /\ ListsOK(h) /\ k \in Names
  BY DEF HeapOK, Place, Names
<1>4. /\ g.list = lists /\ g.blocks = h.blocks
      /\ \A q \in Page : g.slab[q].header = h.slab[q].header
  BY <1>3 DEF TakenFrom, SlabSet, HeapType
<1>5. Moved(h, g, c, p, k)  OBVIOUS
<1> HIDE DEF g, k
<1>6. \A d \in Cache, q \in Page : On(g, d, q) <=> On(h, d, q)
  <2> TAKE d \in Cache, q \in Page
  <2>1. CASE q # p  BY <2>1, <1>5 DEF Moved, On
  <2>2. CASE q = p
    <3>1. On(g, d, p) <=> d = c  BY <1>3, <1>5 DEF Moved, On
    <3>2. On(h, d, p) <=> d = c  BY <1>3, OnUnique
    <3> QED  BY <2>2, <3>1, <3>2
  <2> QED  BY <2>1, <2>2
<1>7. Grown(h, g)  BY <1>4, <1>6 DEF Grown
<1> QED  BY <1>1, <1>2, <1>4, <1>6, <1>7 DEF Allocated, SameSlabs, g

LEMMA FromPartialOK ==
  ASSUME NEW h, NEW out, HeapOK(h, out), NEW c \in Cache, h.list[c]["partial"] # <<>>
  PROVE  Allocated(h, out, c, FromPartial(h, c)) /\ SameSlabs(h, FromPartial(h, c).heap)
<1> DEFINE p == Head(h.list[c]["partial"])
           s == h.slab[p]
           k == Place(c, s.active + 1)
           lists == IF IsFull(c, s.active + 1)
                    THEN ListSet(h, c, Relinked(h.list[c], p, "partial", "full"))
                    ELSE h.list
           r == FromPartial(h, c)
<1>1. /\ p \in Page /\ FoundIn(h, c, p, "partial")
      /\ r.slot = Head(s.free) /\ r.heap = TakenFrom(h, p, lists)
  BY FromPartialIs
<1>2. h \in HeapType /\ ListsOK(h) /\ "partial" \in Names /\ "full" \in Names
  BY DEF HeapOK, Names
<1> HIDE DEF p, r
<1>3. /\ On(h, c, p) /\ s.active \in 1..MaxObjs(c) - 1
      /\ s.active + Len(s.free) = MaxObjs(c) /\ Len(s.free) \in Nat
  BY <1>1, <1>2, CountOf
<1>4. s.free # <<>>
  BY <1>3, MaxObjsFacts
<1>5. /\ lists \in [Cache -> CacheLists]
      /\ \A d \in Cache \ {c} : lists[d] = h.list[d]
      /\ Moved(h, TakenFrom(h, p, lists), c, p, k)
  <2>0. TakenFrom(h, p, lists).list = lists  BY DEF TakenFrom, SlabSet
  <2>1. CASE IsFull(c, s.active + 1)
    <3>1. k = "full"  BY <2>1 DEF IsFull, Place
    <3>2. lists = ListSet(h, c, Relinked(h.list[c], p, "partial", "full"))
      BY <2>1
    <3> HIDE DEF lists, k
    <3>3. /\ lists \in [Cache -> CacheLists]
          /\ Moved(h, TakenFrom(h, p, lists), c, p, "full")
      BY <1>1, <1>2, <2>0, <3>2, MoveList
    <3>4. \A d \in Cache \ {c} : lists[d] = h.list[d]
      BY <3>2, <1>2, HeapRecord DEF ListSet
    <3> QED  BY <3>1, <3>3, <3>4
  <2>2. CASE ~IsFull(c, s.active + 1)
    <3>1. k = "partial"
      <4>1. s.active + 1 # MaxObjs(c)  BY <2>2 DEF IsFull
      <4>2. s.active + 1 # 0  BY <1>3, MaxObjsFacts
      <4> QED  BY <4>1, <4>2 DEF Place
    <3>2. lists = h.list  BY <2>2
    <3> HIDE DEF lists, k
    <3>3. Moved(h, TakenFrom(h, p, lists), c, p, "partial")
      BY <1>1, <1>2, <2>0, <3>2, NotMoved
    <3> QED  BY <1>2, <3>1, <3>2, <3>3, HeapRecord
  <2> QED  BY <2>1, <2>2
<1> HIDE DEF lists
<1> QED  BY <1>1, <1>3, <1>4, <1>5, TakeAllocates DEF r

LEMMA FromEmptyOK ==
  ASSUME NEW h, NEW out, HeapOK(h, out), NEW c \in Cache, h.list[c]["empty"] # <<>>
  PROVE  Allocated(h, out, c, FromEmpty(h, c)) /\ SameSlabs(h, FromEmpty(h, c).heap)
<1> DEFINE p == Head(h.list[c]["empty"])
           s == h.slab[p]
           k == Place(c, s.active + 1)
           lists == ListSet(h, c, Relinked(h.list[c], p, "empty", "partial"))
           r == FromEmpty(h, c)
<1>1. /\ p \in Page /\ FoundIn(h, c, p, "empty")
      /\ r.slot = Head(s.free) /\ r.heap = TakenFrom(h, p, lists)
  BY FromEmptyIs
<1>2. h \in HeapType /\ ListsOK(h) /\ "partial" \in Names /\ "empty" \in Names
  BY DEF HeapOK, Names
<1> HIDE DEF p, r
<1>3. /\ On(h, c, p) /\ s.active = 0
      /\ s.active + Len(s.free) = MaxObjs(c) /\ Len(s.free) \in Nat
  BY <1>1, <1>2, CountOf
<1>4. s.free # <<>> /\ k = "partial"
  <2>1. s.active + 1 = 1 /\ 1 # MaxObjs(c) /\ Len(s.free) > 0
    BY <1>3, MaxObjsFacts
  <2> QED  BY <2>1 DEF Place
<1>5. TakenFrom(h, p, lists).list = lists  BY DEF TakenFrom, SlabSet
<1>6. \A d \in Cache \ {c} : lists[d] = h.list[d]
  BY <1>2, HeapRecord DEF ListSet
<1>7. lists = ListSet(h, c, Relinked(h.list[c], p, "empty", "partial"))
  OBVIOUS
<1> HIDE DEF lists
<1>8. /\ lists \in [Cache -> CacheLists]
      /\ Moved(h, TakenFrom(h, p, lists), c, p, "partial")
  BY <1>1, <1>2, <1>5, <1>7, MoveList
<1> QED  BY <1>1, <1>3, <1>4, <1>6, <1>8, TakeAllocates DEF r

\* The chain of a new slab has all objects but the first.
Chain(c, p) == [i \in 1..MaxObjs(c) - 1 |-> FirstObj(c, p) + i * ObjSize[c]]

LEMMA NewChain ==
  ASSUME NEW c \in Cache, NEW p \in Page
  PROVE  LET f == Chain(c, p)
         IN  /\ f \in Seq(Objs(c, p)) /\ f \in Seq(Address)
             /\ Len(f) = MaxObjs(c) - 1 /\ IsInjective(f)
             /\ FirstObj(c, p) \in Objs(c, p) /\ FirstObj(c, p) \notin Range(f)
             /\ Range(f) \cup {FirstObj(c, p)} = Objs(c, p)
<1> DEFINE n == MaxObjs(c) - 1
           f == [i \in 1..n |-> FirstObj(c, p) + i * ObjSize[c]]
<1>1. n \in Nat \ {0} /\ ObjSize[c] \in Nat \ {0} /\ FirstObj(c, p) \in Nat
  BY MaxObjsFacts, Sizes, FirstObjFacts
<1>2. \A i \in 1..n : f[i] = Obj(c, p, i)  BY DEF Obj
<1>3. Obj(c, p, 0) = FirstObj(c, p)
  BY <1>1 DEF Obj
<1> DEFINE m == MaxObjs(c)
<1>4. n = m - 1 /\ m \in Nat
  BY <1>1, MaxObjsFacts
<1> HIDE DEF n
<1>5. /\ \A i \in 1..n : Obj(c, p, i) \in Objs(c, p)
      /\ Obj(c, p, 0) \in Objs(c, p)
  BY <1>1, <1>4 DEF Objs
<1>6. \A i, j \in 0..n : Obj(c, p, i) = Obj(c, p, j) => i = j
  <2> SUFFICES ASSUME NEW i \in 0..n, NEW j \in 0..n, Obj(c, p, i) = Obj(c, p, j), i < j
               PROVE  FALSE
    BY <1>1
  <2>1. i \in 0..m - 1 /\ j \in 0..m - 1  BY <1>4
  <2>2. Obj(c, p, i) + ObjSize[c] <= Obj(c, p, j) /\ Obj(c, p, i) \in Nat
    BY <2>1, ObjApart, ObjRange
  <2> QED  BY <2>2, <1>1
<1>7. f \in Seq(Objs(c, p)) /\ Len(f) = n /\ DOMAIN f = 1..n
  <2>1. \A i \in 1..n : f[i] \in Objs(c, p)  BY <1>2, <1>5
  <2>2. f \in [1..n -> Objs(c, p)]  BY <2>1
  <2> HIDE DEF f
  <2> QED  BY <1>1, <2>2
<1> HIDE DEF f
<1>8. f \in Seq(Address)
  <2>1. Objs(c, p) \subseteq Address  BY ObjsFacts
  <2>2. \A i \in 1..n : f[i] \in Address  BY <1>7, <2>1
  <2> QED  BY <1>7, <2>2
<1>9. IsInjective(f)
  BY <1>1, <1>2, <1>6, <1>7 DEF IsInjective
<1>10. FirstObj(c, p) \notin Range(f)
  <2> SUFFICES ASSUME FirstObj(c, p) \in Range(f)  PROVE FALSE
    OBVIOUS
  <2>1. PICK i \in 1..n : f[i] = FirstObj(c, p)  BY <1>7 DEF Range
  <2>2. Obj(c, p, i) = Obj(c, p, 0) /\ i \in 0..n /\ 0 \in 0..n  BY <2>1, <1>1, <1>2, <1>3
  <2>3. i = 0  BY <2>2, <1>6
  <2> QED  BY <2>1, <2>3
<1>11. Range(f) \cup {FirstObj(c, p)} = Objs(c, p)
  <2>1. Range(f) \cup {FirstObj(c, p)} \subseteq Objs(c, p)
    BY <1>2, <1>3, <1>5, <1>7 DEF Range
  <2>2. ASSUME NEW a \in Objs(c, p), a # FirstObj(c, p)  PROVE a \in Range(f)
    <3>1. PICK i \in 0..m - 1 : a = Obj(c, p, i)  BY DEF Objs
    <3>2. i # 0  BY <3>1, <2>2, <1>3
    <3>3. i \in 1..n  BY <3>1, <3>2, <1>4
    <3>4. f[i] = a  BY <3>1, <3>3, <1>2
    <3> QED  BY <3>3, <3>4, <1>7 DEF Range
  <2> QED  BY <2>1, <2>2
<1> QED  BY <1>3, <1>5, <1>7, <1>8, <1>9, <1>10, <1>11 DEF f, n, Chain

\* The pages of a slab and of blocks
LEMMA ExtentFacts ==
  ASSUME NEW p \in Page
  PROVE  /\ BlockAt(p, 0) \in PageAllocator!Block
         /\ PageAllocator!Extent(BlockAt(p, 0)) = {p}
<1> DEFINE b == BlockAt(p, 0)
<1>1. p \in Nat /\ 0 \in Order /\ Size[0] = 1
  BY Sizes, HeapAssumption DEF Order
<1>2. b.first = p /\ b.order = 0 /\ b \in [first : Page, order : Order]
  BY <1>1 DEF BlockAt
<1>3. PageAllocator!Extent(b) = p..(p + 1 - 1)
  BY <1>1, <1>2 DEF PageAllocator!Extent
<1>4. PageAllocator!Extent(b) = {p}
  BY <1>1, <1>3
<1>5. b.first % Size[b.order] = 0
  BY <1>1, <1>2
<1> QED  BY <1>2, <1>4, <1>5 DEF PageAllocator!Block

LEMMA BaseFacts ==
  ASSUME NEW p \in Page
  PROVE  p * PageSize \in Address /\ PageOf(p * PageSize) = p
<1>1. HeaderCache \in Cache  BY Sizes
<1>2. p * PageSize \in Nat /\ PageSize \in Nat \ {0}  BY <1>1, FirstObjFacts, Sizes
<1>3. PageOf(p * PageSize) = p  BY <1>2, PageOfFact
<1>4. FirstObj(HeaderCache, p) \in Address
  BY <1>1, NewChain, ObjsFacts
<1>5. p * PageSize \in Address
  BY <1>1, <1>2, <1>4, FirstObjFacts, Sizes DEF Address
<1> QED  BY <1>3, <1>5

\* The struct slab of another slab is on the page of a slab.
LEMMA HeaderPage ==
  ASSUME NEW h, NEW out, HeapOK(h, out), NEW c \in Cache, NEW q \in Page, On(h, c, q)
  PROVE  /\ PageOf(h.slab[q].header) \in Page
         /\ \E d \in Cache : On(h, d, PageOf(h.slab[q].header))
         /\ h.slab[q].header \in Address
<1>1. HeaderOK(h, c, q, out)  BY OnSlab
<1>2. CASE c \in OffSlab
  <2>1. h.slab[q].header \in out  BY <1>1, <1>2 DEF HeaderOK
  <2>2. /\ PageOf(h.slab[q].header) \in Page
        /\ \E d \in Cache : On(h, d, PageOf(h.slab[q].header))
    BY <2>1, OutIsObj
  <2>3. h.slab[q].header \in Address
    BY <2>1, <2>2, OutIsObj, ObjsFacts
  <2> QED  BY <2>2, <2>3
<1>3. CASE c \notin OffSlab
  <2>1. h.slab[q].header = q * PageSize  BY <1>1, <1>3 DEF HeaderOK
  <2> QED  BY <2>1, <1>3, BaseFacts
<1> QED  BY <1>2, <1>3

\* Room for the slab that page p becomes
FitFor(h, out, c, p, header) ==
  /\ \A d \in Cache : ~On(h, d, p)
  /\ h.list[c]["partial"] = <<>>
  /\ \A b \in h.blocks :
       b # BlockAt(p, 0) => p \notin PageAllocator!Extent(b)
  /\ \A q \in Page : header # h.slab[q].header
  /\ IF c \in OffSlab THEN header \in out /\ On(h, HeaderCache, PageOf(header))
                      ELSE header = p * PageSize

\* The lists of cache c when page p becomes its only slab with free objects
NewList(h, c, p) == ListSet(h, c, [h.list[c] EXCEPT !["partial"] = <<p>>])

LEMMA NewSlabIs ==
  ASSUME NEW h \in HeapType, NEW c \in Cache, NEW p \in Page, NEW header,
         header \in Address
  PROVE  LET g == NewSlab(h, c, p, header).heap
         IN  /\ g.list \in [Cache -> CacheLists] => g \in HeapType
             /\ g.list = NewList(h, c, p)
             /\ g.blocks = h.blocks \cup {BlockAt(p, 0)}
             /\ g.parent[p] = IF c \in OffSlab THEN 0 ELSE c
             /\ g.slab[p] = [active |-> 1, free |-> Chain(c, p), header |-> header]
             /\ \A q \in Page : q # p => g.slab[q] = h.slab[q] /\ g.parent[q] = h.parent[q]
<1> DEFINE f == Chain(c, p)
           s == [active |-> 1, free |-> f, header |-> header]
           o == IF c \in OffSlab THEN 0 ELSE c
           g == [list   |-> [h.list EXCEPT ![c] = [h.list[c] EXCEPT !["partial"] = <<p>>]],
                 slab   |-> [h.slab EXCEPT ![p] = s],
                 parent |-> [h.parent EXCEPT ![p] = o],
                 blocks |-> h.blocks \cup {BlockAt(p, 0)}]
<1>1. /\ h = [list |-> h.list, slab |-> h.slab, parent |-> h.parent, blocks |-> h.blocks]
      /\ h.slab \in [Page -> Slab] /\ h.blocks \subseteq PageAllocator!Block
      /\ h.parent \in [Page -> {0} \cup (Cache \ OffSlab)]
  BY DEF HeapType
<1>2. s \in Slab
  <2>1. f \in Seq(Address)  BY NewChain
  <2> HIDE DEF f
  <2> QED  BY <2>1 DEF Slab
<1>3. o \in {0} \cup (Cache \ OffSlab)  OBVIOUS
<1>4. BlockAt(p, 0) \in PageAllocator!Block  BY ExtentFacts
<1>5. NewSlab(h, c, p, header).heap = g
  <2> HIDE DEF f
  <2>1. NewSlab(h, c, p, header).heap =
          [h EXCEPT !.blocks = h.blocks \cup {BlockAt(p, 0)}, !.parent[p] = o,
                    !.slab[p] = s, !.list[c].partial = <<p>>]
    BY DEF NewSlab, f, Chain
  <2> HIDE DEF s, o
  <2> DEFINE h1 == [h EXCEPT !.blocks = h.blocks \cup {BlockAt(p, 0)}]
             h2 == [h1 EXCEPT !.parent[p] = o]
             h3 == [h2 EXCEPT !.slab[p] = s]
             h4 == [h3 EXCEPT !.list[c].partial = <<p>>]
  <2>2. h1 = [list |-> h.list, slab |-> h.slab, parent |-> h.parent, blocks |-> g.blocks]
    BY <1>1
  <2>3. h2 = [list |-> h.list, slab |-> h.slab, parent |-> g.parent, blocks |-> g.blocks]
    <3> HIDE DEF h1
    <3> QED  BY <2>2
  <2>4. h3 = [list |-> h.list, slab |-> g.slab, parent |-> g.parent, blocks |-> g.blocks]
    <3> HIDE DEF h2
    <3> QED  BY <2>3
  <2>5. h4 = g
    <3> HIDE DEF h3
    <3> QED  BY <2>4
  <2> QED  BY <2>1, <2>5
<1> HIDE DEF s, o
<1>6. /\ g.slab \in [Page -> Slab] /\ g.slab[p] = s
      /\ g.parent \in [Page -> {0} \cup (Cache \ OffSlab)] /\ g.parent[p] = o
      /\ g.blocks \subseteq PageAllocator!Block /\ g.blocks = h.blocks \cup {BlockAt(p, 0)}
      /\ \A q \in Page : q # p => g.slab[q] = h.slab[q] /\ g.parent[q] = h.parent[q]
  BY <1>1, <1>2, <1>3, <1>4
<1>7. /\ g.list = NewList(h, c, p)
      /\ g = [list |-> g.list, slab |-> g.slab, parent |-> g.parent, blocks |-> g.blocks]
  BY DEF NewList, ListSet
<1>8. g.list \in [Cache -> CacheLists] => g \in HeapType
  <2> HIDE DEF g
  <2> QED  BY <1>6, <1>7 DEF HeapType
<1> HIDE DEF g
<1> QED  BY <1>5, <1>6, <1>7, <1>8 DEF s, o, f

\* What g has that h does not, when page p became a slab of cache c
SlabAdded(h, g, c, p, header) ==
  /\ \A d \in Cache, q \in Page : On(g, d, q) <=> On(h, d, q) \/ (d = c /\ q = p)
  /\ \A d \in Cache \ {c} : g.list[d] = h.list[d]
  /\ \A q \in Page : g.slab[q].header = IF q = p THEN header ELSE h.slab[q].header
  /\ g.blocks = h.blocks \cup {BlockAt(p, 0)}

LEMMA NewSlabOK ==
  ASSUME NEW h, NEW out, HeapOK(h, out), NEW c \in Cache, NEW p \in Page,
         NEW header \in Address, FitFor(h, out, c, p, header)
  PROVE  LET r == NewSlab(h, c, p, header)
         IN  /\ HeapOK(r.heap, out \cup {r.slot})
             /\ r.slot \notin out /\ r.slot \in Objs(c, p)
             /\ SlabAdded(h, r.heap, c, p, header)
<1> DEFINE g == NewSlab(h, c, p, header).heap
           a == FirstObj(c, p)
           f == Chain(c, p)
           t == [active |-> 1, free |-> f, header |-> header]
           new == out \cup {a}
           k == "partial"
<1>1. /\ h \in HeapType /\ ListsOK(h) /\ BlocksOK(h) /\ k \in Names
      /\ NewSlab(h, c, p, header).slot = a
  BY DEF HeapOK, Names, NewSlab
<1>2. /\ g.list \in [Cache -> CacheLists] => g \in HeapType
      /\ g.list = NewList(h, c, p)
      /\ g.blocks = h.blocks \cup {BlockAt(p, 0)}
      /\ g.parent[p] = IF c \in OffSlab THEN 0 ELSE c
      /\ g.slab[p] = t
      /\ \A q \in Page : q # p => g.slab[q] = h.slab[q] /\ g.parent[q] = h.parent[q]
  BY <1>1, NewSlabIs
<1>3. /\ f \in Seq(Objs(c, p)) /\ f \in Seq(Address)
      /\ Len(f) = MaxObjs(c) - 1 /\ IsInjective(f)
      /\ a \in Objs(c, p) /\ a \notin Range(f)
      /\ Range(f) \cup {a} = Objs(c, p)
  BY NewChain
<1>4. PageOf(a) = p  BY <1>3, ObjsFacts
<1>5. \A b \in out : PageOf(b) # p  BY OutIsObj DEF FitFor
<1> HIDE DEF g, f, a
<1>6. g.list \in [Cache -> CacheLists] /\ Moved(h, g, c, p, k) /\ g \in HeapType
  BY <1>1, <1>2, NewInList DEF FitFor, NewList
<1>7. t.active = 1 /\ t.free = f /\ t.header = header
  OBVIOUS
<1> HIDE DEF t
<1>8. SlabOK(g, c, p, new)
  <2>1. FoundIn(g, c, p, k)  BY <1>1, <1>6 DEF Moved
  <2>2. Place(c, 1) = k  BY MaxObjsFacts DEF Place
  <2>3. 1 + Len(f) = MaxObjs(c)  BY <1>3, MaxObjsFacts
  <2>4. Range(f) \cap new = {}
    <3>1. SUFFICES ASSUME NEW b \in Range(f), b \in out  PROVE FALSE
      BY <1>3
    <3>2. b \in Objs(c, p)  BY <3>1, <1>3
    <3>3. PageOf(b) = p  BY <3>2, ObjsFacts
    <3> QED  BY <3>1, <3>3, <1>5
  <2>5. {b \in new : PageOf(b) = p} = {a}  BY <1>4, <1>5
  <2>6. BlockAt(p, 0) \in g.blocks  BY <1>2
  <2> HIDE DEF k, new
  <2> QED
    BY <2>1, <2>2, <2>3, <2>4, <2>5, <2>6, <1>2, <1>3, <1>7 DEF SlabOK
<1>9. \A d \in Cache, q \in Page : On(g, d, q) <=> On(h, d, q) \/ (d = c /\ q = p)
  <2> TAKE d \in Cache, q \in Page
  <2>1. CASE q # p  BY <2>1, <1>6 DEF Moved, On
  <2>2. CASE q = p  BY <2>2, <1>1, <1>6 DEF Moved, On, FitFor
  <2> QED  BY <2>1, <2>2
<1>10. HeaderOK(g, c, p, new)
  <2>1. CASE c \in OffSlab
    <3>1. header \in out /\ On(h, HeaderCache, PageOf(header))
      BY <2>1 DEF FitFor
    <3>2. PageOf(header) \in Page  BY <3>1, OutIsObj
    <3>3. On(g, HeaderCache, PageOf(header))  BY <3>1, <3>2, <1>9, Sizes
    <3> QED  BY <2>1, <3>1, <3>3, <1>2, <1>7 DEF HeaderOK
  <2>2. CASE c \notin OffSlab
    BY <2>2, <1>2, <1>7 DEF HeaderOK, FitFor
  <2> QED  BY <2>1, <2>2
<1>11. BlocksOK(g)
  <2>1. PageAllocator!Extent(BlockAt(p, 0)) = {p}  BY ExtentFacts
  <2>2. \A b \in h.blocks : b # BlockAt(p, 0) =>
          PageAllocator!Extent(b) \cap PageAllocator!Extent(BlockAt(p, 0)) = {}
    BY <2>1 DEF FitFor
  <2> QED  BY <2>2, <1>1, <1>2 DEF BlocksOK
<1>12. HeapOK(g, new)
  <2>1. \A d \in Cache : On(h, d, p) => d = c  BY DEF FitFor
  <2>2. h.blocks \subseteq g.blocks  BY <1>2
  <2>3. \A b : PageOf(b) # p => (b \in new <=> b \in out)  BY <1>4
  <2>4. \A d \in OffSlab, q \in Page : On(h, d, q) => h.slab[q].header \in new
    BY OnSlab, Sizes DEF HeaderOK
  <2>5. \A q \in Page : q # p => g.slab[p].header # h.slab[q].header
    BY <1>2, <1>7 DEF FitFor
  <2> HIDE DEF new, k
  <2> QED
    BY <1>1, <1>2, <1>6, <1>8, <1>10, <1>11, <2>1, <2>2, <2>3, <2>4, <2>5, ChangeOK
<1>13. SlabAdded(h, g, c, p, header)
  <2>1. \A d \in Cache \ {c} : g.list[d] = h.list[d]
    BY <1>1, <1>2, HeapRecord DEF NewList, ListSet
  <2> QED  BY <2>1, <1>2, <1>7, <1>9 DEF SlabAdded
<1>14. a \notin out  BY <1>4, <1>5
<1> QED  BY <1>1, <1>3, <1>12, <1>13, <1>14 DEF g

\* No struct slab is on a page that is not a slab, nor where an object is that
\* is not out.
LEMMA HeaderElsewhere ==
  ASSUME NEW h, NEW out, HeapOK(h, out), NEW q \in Page, NEW a \in Nat,
         h.slab[q].header = a
  PROVE  /\ PageOf(a) \in Page
         /\ \E d \in Cache : On(h, d, PageOf(a))
         /\ \/ a = q * PageSize /\ PageOf(a) = q
            \/ \E d \in OffSlab : On(h, d, q)
<1>1. PICK c \in Cache : On(h, c, q)
  <2>1. a # NoHeader  BY DEF NoHeader
  <2> QED  BY <2>1 DEF HeapOK, SlabsOK
<1>2. PageOf(a) \in Page /\ \E d \in Cache : On(h, d, PageOf(a))
  BY <1>1, HeaderPage
<1>3. c \notin OffSlab => a = q * PageSize
  BY <1>1, OnSlab DEF HeaderOK
<1>4. a = q * PageSize => PageOf(a) = q
  BY PageOfFact, Sizes
<1> QED  BY <1>1, <1>2, <1>3, <1>4

-----------------------------------------------------------------------------
(* Blocks of pages come and go *)

WithBlock(h, b) == [h EXCEPT !.blocks = @ \cup {b}]

LEMMA AvailableFacts ==
  ASSUME NEW h \in HeapType, NEW k \in Order, NEW b \in Available(h, k)
  PROVE  /\ b \in PageAllocator!Block /\ b.order = k /\ b = BlockAt(b.first, k)
         /\ b.first \in Page /\ b.first \in PageAllocator!Extent(b)
         /\ \A d \in h.blocks : PageAllocator!Extent(b) \cap PageAllocator!Extent(d) = {}
<1>1. /\ b \in PageAllocator!Block /\ b.order = k
      /\ \A d \in h.blocks : PageAllocator!Extent(b) \cap PageAllocator!Extent(d) = {}
  BY DEF Available
<1>2. b \in [first : Page, order : Order]  BY <1>1 DEF PageAllocator!Block
<1>3. b = BlockAt(b.first, k) /\ b.first \in Page
  BY <1>1, <1>2 DEF BlockAt
<1>4. b.first \in PageAllocator!Extent(b)
  <2>1. Size[b.order] \in Nat \ {0} /\ b.first \in Nat
    BY <1>1, <1>3, Sizes, HeapAssumption
  <2> QED  BY <2>1 DEF PageAllocator!Extent
<1> QED  BY <1>1, <1>3, <1>4

\* No block the heap has but slab p's own has page p.
LEMMA SlabPage ==
  ASSUME NEW h, NEW out, HeapOK(h, out), NEW c \in Cache, NEW p \in Page, On(h, c, p),
         NEW b \in h.blocks, p \in PageAllocator!Extent(b)
  PROVE  b = BlockAt(p, 0)
<1>1. BlockAt(p, 0) \in h.blocks  BY OnSlab DEF SlabOK
<1>2. p \in PageAllocator!Extent(BlockAt(p, 0))  BY ExtentFacts
<1> QED  BY <1>1, <1>2 DEF HeapOK, BlocksOK

LEMMA WithBlockOK ==
  ASSUME NEW h, NEW out, HeapOK(h, out), NEW k \in Order, NEW b \in Available(h, k)
  PROVE  LET g == WithBlock(h, b)
         IN  /\ HeapOK(g, out)
             /\ g.list = h.list /\ g.slab = h.slab /\ g.parent = h.parent
             /\ g.blocks = h.blocks \cup {b}
             /\ \A d \in Cache, q \in Page : On(g, d, q) <=> On(h, d, q)
             /\ \A d \in Cache, q \in Page : On(h, d, q) => q \notin PageAllocator!Extent(b)
<1> DEFINE g == WithBlock(h, b)
<1>1. h \in HeapType /\ ListsOK(h) /\ BlocksOK(h) /\ SlabsOK(h, out) /\ OutOK(h, out)
  BY DEF HeapOK
<1>2. g = [list |-> h.list, slab |-> h.slab, parent |-> h.parent, blocks |-> h.blocks \cup {b}]
  <2>1. h = [list |-> h.list, slab |-> h.slab, parent |-> h.parent, blocks |-> h.blocks]
    BY <1>1, HeapRecord
  <2> QED  BY <2>1 DEF WithBlock
<1>3. /\ b \in PageAllocator!Block
      /\ \A d \in h.blocks : PageAllocator!Extent(b) \cap PageAllocator!Extent(d) = {}
  BY <1>1, AvailableFacts
<1>4. g.list = h.list /\ g.slab = h.slab /\ g.parent = h.parent /\ g.blocks = h.blocks \cup {b}
  BY <1>2
<1>5. g \in HeapType  BY <1>1, <1>2, <1>3 DEF HeapType
<1> HIDE DEF g
<1>6. \A d \in Cache, q \in Page, n \in Names : FoundIn(g, d, q, n) <=> FoundIn(h, d, q, n)
  BY <1>4 DEF FoundIn
<1>7. \A d \in Cache, q \in Page : On(g, d, q) <=> On(h, d, q)
  BY <1>6 DEF On
<1>8. ListsOK(g) /\ BlocksOK(g)
  BY <1>1, <1>3, <1>4, <1>6 DEF ListsOK, BlocksOK
<1>9. ASSUME NEW d \in Cache, NEW q \in Page, On(h, d, q)
      PROVE  SlabOK(g, d, q, out) /\ HeaderOK(g, d, q, out)
  <2>1. SlabOK(h, d, q, out) /\ HeaderOK(h, d, q, out)  BY <1>9, OnSlab
  <2>2. SlabOK(g, d, q, out)
    BY <2>1, <1>4 DEF SlabOK, FoundIn
  <2>3. HeaderOK(g, d, q, out)
    <3>1. h.slab[q].header \in out => PageOf(h.slab[q].header) \in Page
      BY <1>1 DEF OutOK
    <3> QED  BY <3>1, <2>1, <1>4, <1>7, Sizes DEF HeaderOK
  <2> QED  BY <2>2, <2>3
<1>10. SlabsOK(g, out)
  BY <1>1, <1>4, <1>7, <1>9 DEF SlabsOK
<1>11. OutOK(g, out)  BY <1>1, <1>7 DEF OutOK
<1>12. \A d \in Cache, q \in Page : On(h, d, q) => q \notin PageAllocator!Extent(b)
  BY <1>3, OnSlab, ExtentFacts DEF SlabOK
<1> QED  BY <1>4, <1>5, <1>7, <1>8, <1>10, <1>11, <1>12 DEF HeapOK, g

-----------------------------------------------------------------------------
(* kvmem_cache_alloc keeps the invariant *)

LEMMA OnSlabAllocOK ==
  ASSUME NEW h, NEW out, HeapOK(h, out), NEW c \in Cache, c \notin OffSlab,
         NEW r \in OnSlabAlloc(h, c)
  PROVE  Allocated(h, out, c, r)
<1>1. CASE h.list[c]["partial"] # <<>>
  <2>1. r = FromPartial(h, c)  BY <1>1 DEF OnSlabAlloc
  <2> QED  BY <1>1, <2>1, FromPartialOK
<1>2. CASE h.list[c]["partial"] = <<>> /\ h.list[c]["empty"] # <<>>
  <2>1. r = FromEmpty(h, c)  BY <1>2 DEF OnSlabAlloc
  <2> QED  BY <1>2, <2>1, FromEmptyOK
<1>3. CASE h.list[c]["partial"] = <<>> /\ h.list[c]["empty"] = <<>>
  <2>1. PICK b \in Available(h, 0) : r = NewSlab(h, c, b.first, b.first * PageSize)
    BY <1>3 DEF OnSlabAlloc
  <2> DEFINE p == b.first
             g == r.heap
  <2>2. /\ h \in HeapType /\ 0 \in Order  BY HeapAssumption DEF HeapOK, Order
  <2>3. /\ p \in Page /\ p \in PageAllocator!Extent(b)
        /\ \A d \in h.blocks : PageAllocator!Extent(b) \cap PageAllocator!Extent(d) = {}
    BY <2>2, AvailableFacts
  <2> HIDE DEF p, g
  <2>4. \A d \in h.blocks : p \notin PageAllocator!Extent(d)
    BY <2>3
  <2>5. \A d \in Cache : ~On(h, d, p)
    BY <2>3, <2>4, OnSlab, ExtentFacts DEF SlabOK
  <2>6. p * PageSize \in Address /\ PageOf(p * PageSize) = p /\ Address \subseteq Nat
    BY <2>3, BaseFacts, Sizes DEF Address
  <2>7. \A q \in Page : p * PageSize # h.slab[q].header
    BY <2>5, <2>6, HeaderElsewhere
  <2>8. FitFor(h, out, c, p, p * PageSize)
    BY <1>3, <2>4, <2>5, <2>7 DEF FitFor
  <2>9. /\ HeapOK(g, out \cup {r.slot}) /\ r.slot \notin out
        /\ r.slot \in Objs(c, p) /\ SlabAdded(h, g, c, p, p * PageSize)
    BY <2>1, <2>3, <2>6, <2>8, NewSlabOK DEF p, g
  <2>10. PageOf(r.slot) = p /\ On(g, c, p)
    BY <2>3, <2>9, ObjsFacts DEF SlabAdded
  <2>11. Grown(h, g)
    BY <2>4, <2>5, <2>9 DEF Grown, SlabAdded
  <2>12. \A d \in Cache \ {c} :
           g.list[d] = h.list[d] /\ \A q \in Page : On(g, d, q) <=> On(h, d, q)
    BY <2>9 DEF SlabAdded
  <2> QED  BY <2>3, <2>9, <2>10, <2>11, <2>12 DEF Allocated, g
<1> QED  BY <1>1, <1>2, <1>3

\* r is an outcome of kvmem_cache_alloc for cache c, whatever it needed.
Given(h, out, c, r) ==
  /\ HeapOK(r.heap, out \cup {r.slot} \cup OffHeaders(r.heap))
  /\ r.slot \notin out \cup OffHeaders(r.heap)
  /\ \A a \in OffHeaders(r.heap) \ OffHeaders(h) : a \notin out
  /\ PageOf(r.slot) \in Page /\ On(r.heap, c, PageOf(r.slot))
  /\ Grown(h, r.heap)

LEMMA GivenSame ==
  ASSUME NEW h, NEW out, OffHeaders(h) \subseteq out, NEW c \in Cache, NEW r,
         Allocated(h, out, c, r),
         \A d \in OffSlab, q \in Page : On(r.heap, d, q) <=> On(h, d, q)
  PROVE  Given(h, out, c, r)
<1>1. OffHeaders(r.heap) = OffHeaders(h)
  <2>1. \A d \in OffSlab, q \in Page :
          On(h, d, q) => r.heap.slab[q].header = h.slab[q].header
    BY Sizes DEF Allocated, Grown
  <2>2. \A a \in OffHeaders(r.heap) : a \in OffHeaders(h)
    BY <2>1 DEF OffHeaders
  <2>3. \A a \in OffHeaders(h) : a \in OffHeaders(r.heap)
    BY <2>1 DEF OffHeaders
  <2> QED  BY <2>2, <2>3
<1>2. out \cup {r.slot} \cup OffHeaders(r.heap) = out \cup {r.slot}
  BY <1>1
<1> QED  BY <1>1, <1>2 DEF Given, Allocated

\* The struct slab comes from HeaderCache, on a page taken before.
LEMMA HeaderThenSlab ==
  ASSUME NEW h, NEW out, HeapOK(h, out), OffHeaders(h) \subseteq out, NEW c \in OffSlab,
         h.list[c]["partial"] = <<>>, NEW b \in Available(h, 0),
         NEW s \in OnSlabAlloc(WithBlock(h, b), HeaderCache)
  PROVE  Given(h, out, c, NewSlab(s.heap, c, b.first, s.slot))
<1> DEFINE p  == b.first
           h1 == WithBlock(h, b)
           g1 == s.heap
           r  == NewSlab(s.heap, c, b.first, s.slot)
           g  == r.heap
           mid == out \cup {s.slot}
<1>1. h \in HeapType /\ 0 \in Order /\ c \in Cache /\ c # HeaderCache
  BY HeapAssumption, Sizes DEF HeapOK, Order
<1>2. /\ p \in Page /\ b = BlockAt(p, 0) /\ p \in PageAllocator!Extent(b)
      /\ \A d \in h.blocks : PageAllocator!Extent(b) \cap PageAllocator!Extent(d) = {}
  BY <1>1, AvailableFacts
<1>3. /\ HeapOK(h1, out)
      /\ h1.list = h.list /\ h1.slab = h.slab /\ h1.blocks = h.blocks \cup {b}
      /\ \A d \in Cache, q \in Page : On(h1, d, q) <=> On(h, d, q)
      /\ \A d \in Cache, q \in Page : On(h, d, q) => q \notin PageAllocator!Extent(b)
  BY <1>1, WithBlockOK
<1> HIDE DEF p, h1
<1>4. Allocated(h1, out, HeaderCache, s)
  BY <1>3, Sizes, OnSlabAllocOK DEF h1
<1> HIDE DEF g1
<1>5. /\ HeapOK(g1, mid) /\ s.slot \notin out
      /\ PageOf(s.slot) \in Page /\ On(g1, HeaderCache, PageOf(s.slot))
      /\ \A d \in Cache, q \in Page :
           On(h1, d, q) => On(g1, d, q) /\ g1.slab[q].header = h1.slab[q].header
      /\ \A d \in Cache, q \in Page :
           On(g1, d, q) /\ ~On(h1, d, q) => \A e \in h1.blocks : q \notin PageAllocator!Extent(e)
      /\ h1.blocks \subseteq g1.blocks
      /\ \A d \in Cache \ {HeaderCache} :
           /\ g1.list[d] = h1.list[d]
           /\ \A q \in Page : On(g1, d, q) <=> On(h1, d, q)
  BY <1>4 DEF Allocated, Grown, g1
<1>6. s.slot \in Objs(HeaderCache, PageOf(s.slot)) /\ s.slot \in Address
  <2>1. s.slot \in Objs(HeaderCache, PageOf(s.slot))
    BY <1>5, OutIsObj, Sizes
  <2> QED  BY <2>1, <1>5, ObjsFacts, Sizes
<1>7. \A d \in Cache : ~On(g1, d, p)
  <2> SUFFICES ASSUME NEW d \in Cache, On(g1, d, p)  PROVE FALSE
    OBVIOUS
  <2>1. CASE On(h1, d, p)  BY <2>1, <1>2, <1>3
  <2>2. CASE ~On(h1, d, p)  BY <2>2, <1>2, <1>3, <1>5
  <2> QED  BY <2>1, <2>2
<1>8. \A e \in g1.blocks : e # BlockAt(p, 0) => p \notin PageAllocator!Extent(e)
  <2>1. BlocksOK(g1) /\ BlockAt(p, 0) \in g1.blocks
    BY <1>2, <1>3, <1>5 DEF HeapOK
  <2> QED  BY <2>1, <1>2 DEF BlocksOK
<1>9. \A q \in Page : s.slot # g1.slab[q].header
  <2> SUFFICES ASSUME NEW q \in Page, s.slot = g1.slab[q].header  PROVE FALSE
    OBVIOUS
  <2>1. s.slot \in Nat  BY <1>6, Sizes DEF Address
  <2>2. CASE s.slot = q * PageSize /\ PageOf(s.slot) = q
    <3>1. q * PageSize + HeaderSize <= s.slot
      BY <2>2, <1>6, ObjsFacts, Sizes
    <3> QED  BY <3>1, <2>2, FirstObjFacts, Sizes
  <2>3. CASE \E d \in OffSlab : On(g1, d, q)
    <3>1. PICK d \in OffSlab : On(g1, d, q)  BY <2>3
    <3>2. d \in Cache /\ d # HeaderCache  BY Sizes
    <3>3. On(h, d, q) /\ g1.slab[q].header = h.slab[q].header
      BY <3>1, <3>2, <1>3, <1>5
    <3>4. h.slab[q].header \in out  BY <3>2, <3>3, OnSlab DEF HeaderOK
    <3> QED  BY <3>3, <3>4, <1>5
  <2> QED  BY <2>1, <2>2, <2>3, <1>5, HeaderElsewhere
<1>10. FitFor(g1, mid, c, p, s.slot)
  <2>1. g1.list[c]["partial"] = <<>>  BY <1>1, <1>3, <1>5
  <2> QED  BY <2>1, <1>5, <1>7, <1>8, <1>9 DEF FitFor
<1>11. /\ HeapOK(g, mid \cup {r.slot}) /\ r.slot \notin mid
       /\ r.slot \in Objs(c, p) /\ SlabAdded(g1, g, c, p, s.slot)
  <2>1. r = NewSlab(g1, c, p, s.slot)  BY DEF p, g1
  <2> HIDE DEF r
  <2> HIDE DEF mid
  <2> QED  BY <2>1, <1>1, <1>2, <1>5, <1>6, <1>10, NewSlabOK
<1> HIDE DEF r, g
<1>12. PageOf(r.slot) = p /\ On(g, c, p)
  BY <1>1, <1>2, <1>11, ObjsFacts DEF SlabAdded
<1>13. OffHeaders(g) = OffHeaders(h) \cup {s.slot}
  <2>1. \A d \in OffSlab, q \in Page :
          On(g, d, q) <=> On(h, d, q) \/ (d = c /\ q = p)
    BY <1>3, <1>5, <1>11, Sizes DEF SlabAdded
  <2>2. \A d \in OffSlab, q \in Page : On(h, d, q) => q # p /\ g.slab[q].header = h.slab[q].header
    BY <1>2, <1>3, <1>5, <1>11, Sizes DEF SlabAdded
  <2>3. g.slab[p].header = s.slot  BY <1>2, <1>11 DEF SlabAdded
  <2>4. \A a \in OffHeaders(g) : a \in OffHeaders(h) \cup {s.slot}
    BY <2>1, <2>2, <2>3 DEF OffHeaders
  <2>5. \A a \in OffHeaders(h) : a \in OffHeaders(g)
    BY <2>1, <2>2 DEF OffHeaders
  <2>6. s.slot \in OffHeaders(g)
    BY <1>2, <2>1, <2>3 DEF OffHeaders
  <2> QED  BY <2>4, <2>5, <2>6
<1>14. Grown(h, g)
  <2>1. \A d \in Cache, q \in Page :
          On(h, d, q) => On(g, d, q) /\ g.slab[q].header = h.slab[q].header
    BY <1>2, <1>3, <1>5, <1>11 DEF SlabAdded
  <2>2. \A d \in Cache, q \in Page : On(g, d, q) /\ ~On(h, d, q) =>
          \A e \in h.blocks : q \notin PageAllocator!Extent(e)
    <3> TAKE d \in Cache, q \in Page
    <3>1. CASE q = p  BY <3>1, <1>2
    <3>2. CASE q # p  BY <3>2, <1>3, <1>5, <1>11 DEF SlabAdded
    <3> QED  BY <3>1, <3>2
  <2>3. h.blocks \subseteq g.blocks  BY <1>3, <1>5, <1>11 DEF SlabAdded
  <2> QED  BY <2>1, <2>2, <2>3 DEF Grown
<1>15. out \cup {r.slot} \cup OffHeaders(g) = mid \cup {r.slot}
  BY <1>13
<1> QED
  BY <1>2, <1>5, <1>11, <1>12, <1>13, <1>14, <1>15 DEF Given, r, g

LEMMA CacheAllocOK ==
  ASSUME NEW h, NEW out, HeapOK(h, out), OffHeaders(h) \subseteq out, NEW c \in Cache,
         NEW r \in CacheAlloc(h, c)
  PROVE  Given(h, out, c, r)
<1>1. CASE c \notin OffSlab
  <2>1. Allocated(h, out, c, r)  BY <1>1, OnSlabAllocOK DEF CacheAlloc
  <2>2. \A d \in OffSlab, q \in Page : On(r.heap, d, q) <=> On(h, d, q)
    BY <2>1, <1>1, Sizes DEF Allocated
  <2> QED  BY <2>1, <2>2, GivenSame
<1>2. CASE c \in OffSlab /\ h.list[c]["partial"] # <<>>
  <2>1. r = FromPartial(h, c)  BY <1>2 DEF CacheAlloc, OffSlabAlloc
  <2>2. Allocated(h, out, c, r) /\ SameSlabs(h, r.heap)
    BY <1>2, <2>1, FromPartialOK
  <2> QED  BY <2>2, GivenSame, Sizes DEF SameSlabs
<1>3. CASE c \in OffSlab /\ h.list[c]["partial"] = <<>> /\ h.list[c]["empty"] # <<>>
  <2>1. r = FromEmpty(h, c)  BY <1>3 DEF CacheAlloc, OffSlabAlloc
  <2>2. Allocated(h, out, c, r) /\ SameSlabs(h, r.heap)
    BY <1>3, <2>1, FromEmptyOK
  <2> QED  BY <2>2, GivenSame, Sizes DEF SameSlabs
<1>4. CASE c \in OffSlab /\ h.list[c]["partial"] = <<>> /\ h.list[c]["empty"] = <<>>
  <2>1. PICK b \in Available(h, 0) : \E s \in OnSlabAlloc(WithBlock(h, b), HeaderCache) :
          r = NewSlab(s.heap, c, b.first, s.slot)
    BY <1>4 DEF CacheAlloc, OffSlabAlloc, WithBlock
  <2> QED  BY <1>4, <2>1, HeaderThenSlab
<1> QED  BY <1>1, <1>2, <1>3, <1>4

-----------------------------------------------------------------------------
(* kvmalloc *)

LEMMA CacheForFacts ==
  ASSUME NEW size \in Request, SmallSize(size)
  PROVE  CacheFor(size) \in Cache /\ ObjSize[CacheFor(size)] >= size
<1> DEFINE S == {c \in Cache : ObjSize[c] >= size}
<1>1. S \in SUBSET Nat  BY Sizes
<1>2. S # {}  BY DEF SmallSize
<1> HIDE DEF S
<1>3. Least(S) \in S  BY <1>1, <1>2, LeastFacts
<1> QED  BY <1>3 DEF S, CacheFor

LEMMA OrderForFacts ==
  ASSUME NEW size \in Request, OrderFor(size) \in Order
  PROVE  PageSize * Size[OrderFor(size)] >= size
<1> DEFINE S == {k \in Order : PageSize * Size[k] >= size} \cup {Orders}
<1>1. S \in SUBSET Nat /\ S # {}  BY HeapAssumption DEF Order
<1>2. Orders \notin Order  BY HeapAssumption DEF Order
<1> HIDE DEF S
<1>3. Least(S) \in S  BY <1>1, LeastFacts
<1> QED  BY <1>2, <1>3 DEF S, OrderFor

\* A block that is on no slab stays so.
LEMMA StaysBlock ==
  ASSUME NEW h, NEW g, NEW out, NEW new, HeapOK(h, out), HeapOK(g, new), Grown(h, g),
         NEW o, HasBlock(h, o)
  PROVE  /\ HasBlock(g, o)
         /\ PageOf(o.addr) \in Page /\ \A c \in Cache : ~On(g, c, PageOf(o.addr))
<1>1. PICK b \in h.blocks : /\ b.order = OrderFor(o.size) /\ o.addr = b.first * PageSize
                            /\ h.slab[b.first].header = NoHeader
  BY DEF HasBlock
<1>2. b \in PageAllocator!Block  BY HeapRecord DEF HeapOK
<1>3. b.first \in Page /\ b.order \in Order  BY <1>2 DEF PageAllocator!Block
<1>4. b.first \in PageAllocator!Extent(b)
  <2>1. Size[b.order] \in Nat \ {0} /\ b.first \in Nat
    BY <1>3, Sizes, HeapAssumption
  <2> QED  BY <2>1 DEF PageAllocator!Extent
<1>5. \A c \in Cache : ~On(h, c, b.first)  BY <1>1, <1>3, OnSlab
<1>6. \A c \in Cache : ~On(g, c, b.first)
  BY <1>3, <1>4, <1>5 DEF Grown
<1>7. g.slab[b.first].header = NoHeader
  BY <1>3, <1>6 DEF HeapOK, SlabsOK
<1>8. PageOf(o.addr) = b.first  BY <1>1, <1>3, BaseFacts
<1> QED  BY <1>1, <1>3, <1>6, <1>7, <1>8 DEF HasBlock, Grown

\* One more object or block is held.
LEMMA HeldMore ==
  ASSUME NEW h, NEW g, NEW H, HeapAndHeld(h, H), NEW out, HeapOK(g, out), Grown(h, g),
         \A a \in OffHeaders(g) \ OffHeaders(h) : a \notin LiveIn(h, H),
         NEW o \in [addr : Address, size : Request],
         IF SmallSize(o.size)
         THEN /\ o.addr \notin LiveIn(h, H) \cup OffHeaders(g)
              /\ PageOf(o.addr) \in Page /\ On(g, CacheFor(o.size), PageOf(o.addr))
         ELSE /\ HasBlock(g, o)
              /\ \A u \in H \ SmallIn(H) : u.addr # o.addr
  PROVE  HeldOK(g, H \cup {o})
<1>1. HeldOK(h, H) /\ HeapOK(h, LiveIn(h, H))  BY DEF HeapAndHeld
<1>2. H \cup {o} \subseteq [addr : Address, size : Request]
  BY <1>1 DEF HeldOK
<1>3. \A u \in H \cup {o} : SmallSize(u.size) => CacheFor(u.size) \in Cache
  BY <1>2, CacheForFacts
<1>4. ASSUME NEW u \in H \cup {o}, SmallSize(u.size)
      PROVE  /\ u.addr \notin OffHeaders(g)
             /\ PageOf(u.addr) \in Page /\ On(g, CacheFor(u.size), PageOf(u.addr))
  <2>1. CASE u = o  BY <2>1, <1>4
  <2>2. CASE u \in H
    <3>1. u \in SmallIn(H) /\ u.addr \in LiveIn(h, H)
      BY <2>2, <1>4 DEF SmallIn, LiveIn
    <3>2. /\ u.addr \notin OffHeaders(h)
          /\ On(h, CacheFor(u.size), PageOf(u.addr))
      BY <3>1, <1>1 DEF HeldOK
    <3>3. PageOf(u.addr) \in Page  BY <3>1, <1>1, OutIsObj
    <3> QED  BY <3>1, <3>2, <3>3, <1>3, <1>4 DEF Grown
  <2> QED  BY <2>1, <2>2
<1>5. ASSUME NEW u \in H, ~SmallSize(u.size)
      PROVE  /\ HasBlock(g, u)
             /\ PageOf(u.addr) \in Page /\ \A c \in Cache : ~On(g, c, PageOf(u.addr))
  <2>1. HasBlock(h, u)  BY <1>1, <1>5 DEF HeldOK, SmallIn
  <2> QED  BY <2>1, <1>1, StaysBlock
<1>6. ~SmallSize(o.size) => HasBlock(g, o) /\ \A c \in Cache : ~On(g, c, PageOf(o.addr))
  <2> SUFFICES ASSUME ~SmallSize(o.size)
               PROVE  HasBlock(g, o) /\ \A c \in Cache : ~On(g, c, PageOf(o.addr))
    OBVIOUS
  <2>1. HasBlock(g, o)  OBVIOUS
  <2>2. Grown(g, g)  BY DEF Grown
  <2> QED  BY <2>1, <2>2, StaysBlock
<1>7. \A u \in H : u.addr # o.addr
  <2> SUFFICES ASSUME NEW u \in H, u.addr = o.addr  PROVE FALSE
    OBVIOUS
  <2>1. CASE SmallSize(u.size) /\ SmallSize(o.size)
    BY <2>1 DEF LiveIn, SmallIn
  <2>2. CASE SmallSize(u.size) /\ ~SmallSize(o.size)
    BY <2>2, <1>3, <1>4, <1>6
  <2>3. CASE ~SmallSize(u.size) /\ SmallSize(o.size)
    BY <2>3, <1>3, <1>5
  <2>4. CASE ~SmallSize(u.size) /\ ~SmallSize(o.size)
    BY <2>4 DEF SmallIn
  <2> QED  BY <2>1, <2>2, <2>3, <2>4
<1> QED
  BY <1>1, <1>2, <1>4, <1>5, <1>6, <1>7 DEF HeldOK, SmallIn

LEMMA KvmallocOK ==
  ASSUME NEW size \in Request, HeapAndHeld(Heap, held), NEW r \in Outcomes(size)
  PROVE  HeapAndHeld(r.heap, held \cup {[addr |-> r.slot, size |-> size]})
<1> DEFINE h == Heap
           H == held
           g == r.heap
           out == LiveIn(h, H)
           o == [addr |-> r.slot, size |-> size]
<1>1. HeapOK(h, out) /\ HeldOK(h, H) /\ h \in HeapType  BY DEF HeapAndHeld, HeapOK
<1>2. CASE SmallSize(size)
  <2> DEFINE c == CacheFor(size)
  <2>1. c \in Cache  BY <1>2, CacheForFacts
  <2>2. r \in CacheAlloc(h, c)  BY <1>2 DEF Outcomes
  <2>3. OffHeaders(h) \subseteq out  BY DEF LiveIn
  <2> HIDE DEF c, out, h
  <2>4. Given(h, out, c, r)  BY <1>1, <2>1, <2>2, <2>3, CacheAllocOK
  <2>5. /\ HeapOK(g, out \cup {r.slot} \cup OffHeaders(g))
        /\ r.slot \notin out \cup OffHeaders(g)
        /\ \A a \in OffHeaders(g) \ OffHeaders(h) : a \notin out
        /\ PageOf(r.slot) \in Page /\ On(g, c, PageOf(r.slot))
        /\ Grown(h, g)
    BY <2>4 DEF Given
  <2> HIDE DEF g
  <2>6. r.slot \in Address
    <3>1. r.slot \in Objs(c, PageOf(r.slot))  BY <2>1, <2>5, OutIsObj
    <3> QED  BY <3>1, <2>1, <2>5, ObjsFacts
  <2>7. o \in [addr : Address, size : Request] /\ o.addr = r.slot /\ o.size = size
    BY <2>6
  <2> HIDE DEF o, H
  <2>8. HeldOK(g, H \cup {o})
    BY <1>2, <2>5, <2>7, HeldMore DEF c, out, h, H
  <2>9. LiveIn(g, H \cup {o}) = out \cup {r.slot} \cup OffHeaders(g)
    <3>1. SmallIn(H \cup {o}) = SmallIn(H) \cup {o}  BY <1>2, <2>7 DEF SmallIn
    <3>2. OffHeaders(h) \subseteq OffHeaders(g)
      BY <2>5, Sizes DEF OffHeaders, Grown
    <3> QED  BY <3>1, <3>2, <2>7 DEF LiveIn, out
  <2> QED  BY <2>5, <2>8, <2>9 DEF HeapAndHeld, g, H, o
<1>3. CASE ~SmallSize(size)
  <2> DEFINE k == OrderFor(size)
  <2>1. PICK b \in Available(h, k) : r.slot = b.first * PageSize /\ g = WithBlock(h, b)
    <3>1. PICK b \in Available(Heap, OrderFor(size)) :
            r = [slot |-> b.first * PageSize, heap |-> WithBlock(Heap, b)]
      BY <1>3, Zenon DEF Outcomes, WithBlock
    <3> QED  BY <3>1
  <2>2. k \in Order  BY <2>1 DEF Available, PageAllocator!Block
  <2> HIDE DEF k, g, h, out
  <2>3. /\ HeapOK(g, out)
        /\ g.list = h.list /\ g.slab = h.slab
        /\ g.blocks = h.blocks \cup {b}
        /\ \A d \in Cache, q \in Page : On(g, d, q) <=> On(h, d, q)
        /\ \A d \in Cache, q \in Page : On(h, d, q) => q \notin PageAllocator!Extent(b)
    BY <1>1, <2>1, <2>2, WithBlockOK
  <2>4. /\ b.first \in Page /\ b.order = k /\ b.first \in PageAllocator!Extent(b)
        /\ \A d \in h.blocks : PageAllocator!Extent(b) \cap PageAllocator!Extent(d) = {}
    BY <1>1, <2>1, <2>2, AvailableFacts
  <2>5. Grown(h, g)  BY <2>3 DEF Grown
  <2>6. OffHeaders(g) = OffHeaders(h)
    <3>1. OffSlab \subseteq Cache  BY Sizes
    <3> QED  BY <3>1, <2>3 DEF OffHeaders
  <2>7. o \in [addr : Address, size : Request] /\ o.addr = r.slot /\ o.size = size
    BY <2>1, <2>4, BaseFacts
  <2> HIDE DEF o, H
  <2>8. HasBlock(g, o)
    <3>1. h.slab[b.first].header = NoHeader
      BY <1>1, <2>3, <2>4 DEF HeapOK, SlabsOK
    <3> QED  BY <3>1, <2>1, <2>3, <2>4, <2>7 DEF HasBlock, k
  <2>9. ASSUME NEW u \in H \ SmallIn(H), u.addr = o.addr  PROVE FALSE
    <3>1. HasBlock(h, u)  BY <1>1, <2>9 DEF HeldOK
    <3>2. PICK e \in h.blocks : u.addr = e.first * PageSize  BY <3>1 DEF HasBlock
    <3>3. e \in PageAllocator!Block  BY <1>1, HeapRecord
    <3>4. e.first \in Page /\ e.order \in Order  BY <3>3 DEF PageAllocator!Block
    <3>5. e.first \in PageAllocator!Extent(e)
      <4>1. Size[e.order] \in Nat \ {0} /\ e.first \in Nat
        BY <3>4, Sizes, HeapAssumption
      <4> QED  BY <4>1 DEF PageAllocator!Extent
    <3>6. e.first = b.first
      <4>1. PageOf(u.addr) = e.first  BY <3>2, <3>4, BaseFacts
      <4>2. PageOf(o.addr) = b.first  BY <2>1, <2>4, <2>7, BaseFacts
      <4> QED  BY <4>1, <4>2, <2>9
    <3> QED  BY <3>5, <3>6, <2>4
  <2>10. HeldOK(g, H \cup {o})
    BY <1>3, <2>3, <2>5, <2>6, <2>7, <2>8, <2>9, HeldMore DEF out, h, H
  <2>11. LiveIn(g, H \cup {o}) = out
    <3>1. SmallIn(H \cup {o}) = SmallIn(H)  BY <1>3, <2>7 DEF SmallIn
    <3> QED  BY <3>1, <2>6 DEF LiveIn, out
  <2> QED  BY <2>3, <2>10, <2>11 DEF HeapAndHeld, g, H, o
<1> QED  BY <1>2, <1>3

-----------------------------------------------------------------------------
(* kvmfree *)

\* Slot a goes back on the chain of slab p.
PutTo(h, p, a, lists) ==
  SlabSet(h, p, h.slab[p].active - 1, <<a>> \o h.slab[p].free, lists)

LEMMA PutBackIs ==
  ASSUME NEW h \in HeapType, NEW p \in Page, NEW a
  PROVE  /\ PutBack(h, p, a) = PutTo(h, p, a, h.list)
         /\ PutBack(h, p, a).slab[p].active = h.slab[p].active - 1
<1> DEFINE s  == h.slab[p]
           n  == s.active - 1
           f  == <<a>> \o s.free
           h1 == [h EXCEPT !.slab[p].active = n]
           h2 == [h1 EXCEPT !.slab[p].free = f]
           t  == [active |-> n, free |-> f, header |-> s.header]
<1>1. /\ h = [list |-> h.list, slab |-> h.slab, parent |-> h.parent, blocks |-> h.blocks]
      /\ h.slab \in [Page -> Slab] /\ s \in Slab
  BY HeapRecord
<1>2. PutBack(h, p, a) = h2
  <2>1. h1.slab[p].free = s.free
    <3>1. h1.slab = [h.slab EXCEPT ![p] = [s EXCEPT !.active = n]]  BY <1>1
    <3>2. h1.slab[p] = [s EXCEPT !.active = n]  BY <3>1, <1>1
    <3> QED  BY <3>2, <1>1 DEF Slab
  <2> QED  BY <2>1 DEF PutBack
<1> HIDE DEF n, f
<1>3. h1 = [list |-> h.list, slab |-> [h.slab EXCEPT ![p] = [s EXCEPT !.active = n]],
            parent |-> h.parent, blocks |-> h.blocks]
  BY <1>1
<1>4. h2 = [list |-> h.list, slab |-> [h.slab EXCEPT ![p] = t],
            parent |-> h.parent, blocks |-> h.blocks]
  <2>1. h1.slab[p] = [s EXCEPT !.active = n]  BY <1>1, <1>3
  <2>2. [[s EXCEPT !.active = n] EXCEPT !.free = f] = t
    <3> HIDE DEF s
    <3> QED  BY <1>1, SlabRecord
  <2> HIDE DEF h1
  <2>3. [h1.slab EXCEPT ![p] = [h1.slab[p] EXCEPT !.free = f]] = [h.slab EXCEPT ![p] = t]
    BY <1>1, <1>3, <2>1, <2>2
  <2> QED  BY <2>3, <1>3
<1>5. h2.slab[p] = t  BY <1>1, <1>4
<1> HIDE DEF h2
<1> QED  BY <1>2, <1>4, <1>5 DEF PutTo, SlabSet, n, f

LEMMA MoveIs ==
  ASSUME NEW h \in HeapType, NEW p \in Page, NEW c \in Cache, NEW a, NEW from, NEW to
  PROVE  Move(PutTo(h, p, a, h.list), c, p, from, to) =
           PutTo(h, p, a, ListSet(h, c, Relinked(h.list[c], p, from, to)))
<1> DEFINE g == PutTo(h, p, a, h.list)
           l == Relinked(h.list[c], p, from, to)
           z == [h.slab EXCEPT ![p] = [active |-> h.slab[p].active - 1,
                                       free |-> <<a>> \o h.slab[p].free,
                                       header |-> h.slab[p].header]]
<1>1. g = [list |-> h.list, slab |-> z, parent |-> h.parent, blocks |-> h.blocks]
  BY DEF PutTo, SlabSet
<1>2. PutTo(h, p, a, ListSet(h, c, l)) =
        [list |-> ListSet(h, c, l), slab |-> z, parent |-> h.parent, blocks |-> h.blocks]
  BY DEF PutTo, SlabSet
<1> HIDE DEF z
<1>3. Move(g, c, p, from, to) = [g EXCEPT !.list[c] = l]
  <2>1. g.list[c] = h.list[c]  BY <1>1
  <2> HIDE DEF g
  <2> QED  BY <2>1 DEF Move
<1> HIDE DEF g, l
<1>4. [g EXCEPT !.list[c] = l] =
        [list |-> ListSet(h, c, l), slab |-> z, parent |-> h.parent, blocks |-> h.blocks]
  BY <1>1 DEF ListSet
<1> QED  BY <1>2, <1>3, <1>4 DEF g, l

\* The lists after the count of slab p of cache c went from n to m
Relisted(h, c, p, n, m) ==
  IF Place(c, n) = Place(c, m) THEN h.list
  ELSE ListSet(h, c, Relinked(h.list[c], p, Place(c, n), Place(c, m)))

\* A slot that is out belongs to a slab that counts it.
LEMMA OutCounts ==
  ASSUME NEW h, NEW out, HeapOK(h, out), NEW c \in Cache, NEW p \in Page, On(h, c, p),
         NEW a \in out, PageOf(a) = p
  PROVE  /\ h.slab[p].active \in 1..MaxObjs(c) /\ a \in Objs(c, p)
         /\ a \notin Range(h.slab[p].free)
         /\ FoundIn(h, c, p, Place(c, h.slab[p].active))
<1> DEFINE f == h.slab[p].free
<1>1. /\ SlabOK(h, c, p, out) /\ h.slab[p] \in Slab /\ f \in Seq(Objs(c, p))
  BY OnSlab
<1>2. a \in Objs(c, p) /\ a \notin Range(f) /\ IsInjective(f)
  BY <1>1, OutIsObj DEF SlabOK
<1>3. /\ h.slab[p].active + Len(f) = MaxObjs(c)
      /\ FoundIn(h, c, p, Place(c, h.slab[p].active))
      /\ h.slab[p].active \in Nat /\ Len(f) \in Nat /\ MaxObjs(c) \in Nat
  BY <1>1, MaxObjsFacts DEF SlabOK, Slab
<1> HIDE DEF f
<1>4. <<a>> \o f \in Seq(Objs(c, p)) /\ IsInjective(<<a>> \o f)
  BY <1>1, <1>2, PushFacts
<1>5. Len(<<a>> \o f) = Len(f) + 1  BY <1>1
<1>6. Len(f) + 1 <= MaxObjs(c)  BY <1>4, <1>5, SlabHolds
<1> QED  BY <1>2, <1>3, <1>6 DEF f

LEMMA FreeOnSlabIs ==
  ASSUME NEW h \in HeapType, NEW c \in Cache, NEW p \in Page, NEW a,
         h.slab[p].active \in 1..MaxObjs(c)
  PROVE  FreeOnSlab(h, c, p, a) =
           PutTo(h, p, a, Relisted(h, c, p, h.slab[p].active, h.slab[p].active - 1))
<1> DEFINE n == h.slab[p].active
           g == PutBack(h, p, a)
<1>1. g = PutTo(h, p, a, h.list) /\ g.slab[p].active = n - 1
  BY PutBackIs
<1>2. MaxObjs(c) \in Nat /\ MaxObjs(c) > 1  BY MaxObjsFacts
<1> HIDE DEF n
<1>3. CASE n = MaxObjs(c)
  <2>1. /\ Place(c, n) = "full" /\ Place(c, n - 1) = "partial"
        /\ n - 1 = MaxObjs(c) - 1 /\ n - 1 # 0
    BY <1>2, <1>3 DEF Place
  <2> HIDE DEF g
  <2>2. FreeOnSlab(h, c, p, a) = Move(g, c, p, "full", "partial")
    BY <1>1, <2>1 DEF FreeOnSlab, g
  <2> QED  BY <1>1, <2>1, <2>2, MoveIs DEF Relisted, n
<1>4. CASE n # MaxObjs(c) /\ n = 1
  <2>1. /\ Place(c, n) = "partial" /\ Place(c, n - 1) = "empty"
        /\ n - 1 = 0 /\ n - 1 # MaxObjs(c) - 1
    BY <1>2, <1>4 DEF Place
  <2> HIDE DEF g
  <2>2. FreeOnSlab(h, c, p, a) = Move(g, c, p, "partial", "empty")
    BY <1>1, <2>1 DEF FreeOnSlab, g
  <2> QED  BY <1>1, <2>1, <2>2, MoveIs DEF Relisted, n
<1>5. CASE n # MaxObjs(c) /\ n # 1
  <2>1. /\ Place(c, n) = "partial" /\ Place(c, n - 1) = "partial"
        /\ n - 1 # 0 /\ n - 1 # MaxObjs(c) - 1
    BY <1>2, <1>5 DEF Place, n
  <2> HIDE DEF g
  <2>2. FreeOnSlab(h, c, p, a) = g
    BY <1>1, <2>1 DEF FreeOnSlab, g
  <2> QED  BY <1>1, <2>1, <2>2 DEF Relisted, n
<1> QED  BY <1>3, <1>4, <1>5

LEMMA FreeOffSlabIs ==
  ASSUME NEW h \in HeapType, ListsOK(h), NEW c \in Cache, NEW p \in Page, NEW a,
         h.slab[p].active \in 1..MaxObjs(c),
         FoundIn(h, c, p, Place(c, h.slab[p].active))
  PROVE  FreeOffSlab(h, c, p, a) =
           PutTo(h, p, a, Relisted(h, c, p, h.slab[p].active, h.slab[p].active - 1))
<1> DEFINE n == h.slab[p].active
           g == PutBack(h, p, a)
<1>1. g = PutTo(h, p, a, h.list) /\ g.slab[p].active = n - 1
  BY PutBackIs
<1>2. MaxObjs(c) \in Nat /\ MaxObjs(c) > 1 /\ n \in 1..MaxObjs(c)
  BY MaxObjsFacts
<1>3. FoundIn(h, c, p, "full") <=> n = MaxObjs(c)
  <2>1. Place(c, n) \in Names /\ "full" \in Names  BY DEF Place, Names
  <2>2. Place(c, n) = "full" <=> n = MaxObjs(c)  BY DEF Place
  <2> QED  BY <2>1, <2>2 DEF ListsOK
<1> HIDE DEF n
<1>4. CASE n = MaxObjs(c)
  <2>1. Place(c, n) = "full" /\ Place(c, n - 1) = "partial"
    BY <1>2, <1>4 DEF Place
  <2> HIDE DEF g
  <2>2. FreeOffSlab(h, c, p, a) = Move(g, c, p, "full", "partial")
    BY <1>3, <1>4 DEF FreeOffSlab, g
  <2> QED  BY <1>1, <2>1, <2>2, MoveIs DEF Relisted, n
<1>5. CASE n # MaxObjs(c) /\ n = 1
  <2>1. Place(c, n) = "partial" /\ Place(c, n - 1) = "empty" /\ n - 1 = 0
    BY <1>2, <1>5 DEF Place
  <2> HIDE DEF g
  <2>2. FreeOffSlab(h, c, p, a) = Move(g, c, p, "partial", "empty")
    BY <1>1, <1>3, <1>5, <2>1 DEF FreeOffSlab, g
  <2> QED  BY <1>1, <2>1, <2>2, MoveIs DEF Relisted, n
<1>6. CASE n # MaxObjs(c) /\ n # 1
  <2>1. Place(c, n) = "partial" /\ Place(c, n - 1) = "partial" /\ n - 1 # 0
    BY <1>2, <1>6 DEF Place
  <2> HIDE DEF g
  <2>2. FreeOffSlab(h, c, p, a) = g
    BY <1>1, <1>3, <1>6, <2>1 DEF FreeOffSlab, g
  <2> QED  BY <1>1, <2>1, <2>2 DEF Relisted, n
<1> QED  BY <1>4, <1>5, <1>6

\* An object that is out goes back on its slab.
LEMMA PutOK ==
  ASSUME NEW h, NEW out, HeapOK(h, out), NEW c \in Cache, NEW p \in Page, On(h, c, p),
         NEW a \in out, PageOf(a) = p, a \notin OffHeaders(h)
  PROVE  LET n == h.slab[p].active
             g == PutTo(h, p, a, Relisted(h, c, p, n, n - 1))
         IN  /\ HeapOK(g, out \ {a})
             /\ SameSlabs(h, g) /\ g.blocks = h.blocks
             /\ \A q \in Page : g.slab[q].header = h.slab[q].header
<1> DEFINE s == h.slab[p]
           n == s.active
           k == Place(c, n - 1)
           lists == Relisted(h, c, p, n, n - 1)
           g == PutTo(h, p, a, lists)
           f == <<a>> \o s.free
           t == [active |-> n - 1, free |-> f, header |-> s.header]
           new == out \ {a}
<1>1. /\ SlabOK(h, c, p, out) /\ HeaderOK(h, c, p, out) /\ s \in Slab
      /\ s.free \in Seq(Objs(c, p)) /\ ListsOK(h) /\ h \in HeapType
      /\ k \in Names /\ Place(c, n) \in Names
  BY OnSlab DEF HeapOK, Place, Names
<1>2. /\ n \in 1..MaxObjs(c) /\ a \in Objs(c, p) /\ a \notin Range(s.free)
      /\ FoundIn(h, c, p, Place(c, n))
  BY OutCounts
<1>3. a \in Address /\ MaxObjs(c) \in Nat  BY <1>2, ObjsFacts, MaxObjsFacts
<1>4. /\ f \in Seq(Objs(c, p)) /\ Range(f) = {a} \cup Range(s.free)
      /\ IsInjective(f) /\ Len(f) = Len(s.free) + 1 /\ f \in Seq(Address)
  <2>1. IsInjective(s.free)  BY <1>1 DEF SlabOK
  <2>2. s.free \in Seq(Address)  BY <1>1 DEF Slab
  <2>3. <<a>> \o s.free \in Seq(Address)  BY <1>3, <2>2, PushFacts
  <2>4. Len(<<a>> \o s.free) = Len(s.free) + 1  BY <1>1
  <2> QED  BY <1>1, <1>2, <2>1, <2>3, <2>4, PushFacts
<1>5. g.list = lists /\ g.parent = h.parent /\ g.blocks = h.blocks
  BY DEF PutTo, SlabSet
<1>6. lists \in [Cache -> CacheLists] /\ Moved(h, g, c, p, k)
  <2>1. CASE Place(c, n) = k
    <3>1. lists = h.list  BY <2>1 DEF Relisted
    <3> HIDE DEF g, lists
    <3> QED  BY <1>1, <1>2, <1>5, <2>1, <3>1, NotMoved, HeapRecord
  <2>2. CASE Place(c, n) # k
    <3>1. lists = ListSet(h, c, Relinked(h.list[c], p, Place(c, n), k))
      BY <2>2 DEF Relisted
    <3> HIDE DEF g, lists, k
    <3> QED  BY <1>1, <1>2, <1>5, <2>2, <3>1, MoveList
  <2> QED  BY <2>1, <2>2
<1> HIDE DEF lists
<1>7. /\ g.slab = [h.slab EXCEPT ![p] = t]
      /\ g = [list |-> g.list, slab |-> g.slab, parent |-> g.parent, blocks |-> g.blocks]
  BY DEF PutTo, SlabSet
<1> HIDE DEF g
<1>8. t \in Slab /\ t.active = n - 1 /\ t.free = f /\ t.header = s.header
  <2>1. n - 1 \in Nat  BY <1>2, <1>3
  <2> HIDE DEF f
  <2> QED  BY <2>1, <1>1, <1>4 DEF Slab
<1> HIDE DEF t, f
<1>9. /\ g \in HeapType /\ g.slab[p] = t
      /\ \A q \in Page : q # p => g.slab[q] = h.slab[q]
  <2>1. /\ h.slab \in [Page -> Slab] /\ h.parent \in [Page -> {0} \cup (Cache \ OffSlab)]
        /\ h.blocks \subseteq PageAllocator!Block
    BY <1>1 DEF HeapType
  <2> QED  BY <2>1, <1>5, <1>6, <1>7, <1>8 DEF HeapType
<1>10. SlabOK(g, c, p, new)
  <2>1. FoundIn(g, c, p, k)  BY <1>1, <1>6 DEF Moved
  <2>2. (n - 1) + Len(f) = MaxObjs(c)
    <3>1. n + Len(s.free) = MaxObjs(c) /\ Len(s.free) \in Nat
      BY <1>1 DEF SlabOK
    <3> QED  BY <3>1, <1>2, <1>3, <1>4
  <2>3. Range(f) \cap new = {}  BY <1>1, <1>4 DEF SlabOK
  <2>4. Range(f) \cup {b \in new : PageOf(b) = p} = Objs(c, p)
    <3>1. {b \in out : PageOf(b) = p} = {b \in new : PageOf(b) = p} \cup {a}
      OBVIOUS
    <3> QED  BY <3>1, <1>1, <1>4 DEF SlabOK
  <2> HIDE DEF new
  <2> QED
    BY <2>1, <2>2, <2>3, <2>4, <1>1, <1>4, <1>5, <1>8, <1>9 DEF SlabOK
<1>11. SameSlabs(h, g)
  <2> SUFFICES ASSUME NEW d \in Cache, NEW q \in Page  PROVE On(g, d, q) <=> On(h, d, q)
    BY DEF SameSlabs
  <2> HIDE DEF k
  <2>1. CASE q # p  BY <2>1, <1>6 DEF Moved, On
  <2>2. CASE q = p
    <3>1. On(g, d, p) <=> d = c  BY <1>1, <1>6 DEF Moved, On
    <3>2. On(h, d, p) <=> d = c  BY <1>1, OnUnique
    <3> QED  BY <2>2, <3>1, <3>2
  <2> QED  BY <2>1, <2>2
<1>12. \A q \in Page : g.slab[q].header = h.slab[q].header
  BY <1>8, <1>9
<1>13. \A d \in OffSlab, q \in Page : On(h, d, q) => h.slab[q].header \in new
  <2> SUFFICES ASSUME NEW d \in OffSlab, NEW q \in Page, On(h, d, q)
               PROVE  h.slab[q].header \in new
    OBVIOUS
  <2>1. h.slab[q].header \in out  BY OnSlab, Sizes DEF HeaderOK
  <2>2. h.slab[q].header \in OffHeaders(h)  BY DEF OffHeaders
  <2> QED  BY <2>1, <2>2
<1>14. HeaderOK(g, c, p, new)
  <2>1. CASE c \in OffSlab
    <3>1. h.slab[p].header \in out /\ On(h, HeaderCache, PageOf(h.slab[p].header))
      BY <2>1, <1>1 DEF HeaderOK
    <3>2. PageOf(h.slab[p].header) \in Page  BY <3>1, OutIsObj
    <3>3. On(g, HeaderCache, PageOf(h.slab[p].header))
      BY <3>1, <3>2, <1>11, Sizes DEF SameSlabs
    <3>4. h.slab[p].header \in new  BY <2>1, <1>13
    <3> QED  BY <2>1, <3>3, <3>4, <1>12 DEF HeaderOK
  <2>2. CASE c \notin OffSlab
    BY <2>2, <1>1, <1>12 DEF HeaderOK
  <2> QED  BY <2>1, <2>2
<1>15. HeapOK(g, new)
  <2>1. \A d \in Cache : On(h, d, p) => d = c  BY <1>1, OnUnique
  <2>2. \A q \in Page : q # p => g.slab[q] = h.slab[q] /\ g.parent[q] = h.parent[q]
    BY <1>5, <1>9
  <2>3. BlocksOK(g) /\ h.blocks \subseteq g.blocks  BY <1>5 DEF HeapOK, BlocksOK
  <2>4. \A b : PageOf(b) # p => (b \in new <=> b \in out)  OBVIOUS
  <2>5. \A q \in Page : q # p => g.slab[p].header # h.slab[q].header
    BY <1>12, HeaderApart
  <2>6. g \in HeapType /\ k \in Names /\ Moved(h, g, c, p, k)
    BY <1>1, <1>6, <1>9
  <2> HIDE DEF new, k, s
  <2> QED
    BY <1>10, <1>13, <1>14, <2>1, <2>2, <2>3, <2>4, <2>5, <2>6, ChangeOK
<1> QED  BY <1>5, <1>11, <1>12, <1>15 DEF g, lists

\* The slabs stay where they are, with the struct slabs they have.
SameHeaders(h, g) ==
  SameSlabs(h, g) /\ \A q \in Page : g.slab[q].header = h.slab[q].header

LEMMA SameOffHeaders ==
  ASSUME NEW h, NEW g, SameHeaders(h, g)
  PROVE  OffHeaders(g) = OffHeaders(h)
<1>1. OffSlab \subseteq Cache  BY Sizes
<1>2. {q \in Page : \E c \in OffSlab : On(g, c, q)} =
        {q \in Page : \E c \in OffSlab : On(h, c, q)}
  BY <1>1 DEF SameHeaders, SameSlabs
<1> QED  BY <1>2 DEF OffHeaders, SameHeaders

LEMMA HeldLess ==
  ASSUME NEW h, NEW g, NEW H, HeapAndHeld(h, H), SameHeaders(h, g), NEW o,
         \A u \in H \ {o} : HasBlock(h, u) => HasBlock(g, u)
  PROVE  HeldOK(g, H \ {o})
<1>1. HeldOK(h, H) /\ HeapOK(h, LiveIn(h, H))  BY DEF HeapAndHeld
<1>2. OffHeaders(g) = OffHeaders(h)  BY SameOffHeaders
<1>3. ASSUME NEW u \in H \ {o}, SmallSize(u.size)
      PROVE  u.addr \notin OffHeaders(g) /\ On(g, CacheFor(u.size), PageOf(u.addr))
  <2>1. u \in SmallIn(H) /\ u.addr \in LiveIn(h, H) /\ u.size \in Request
    BY <1>1, <1>3 DEF SmallIn, LiveIn, HeldOK
  <2>2. CacheFor(u.size) \in Cache  BY <2>1, <1>3, CacheForFacts
  <2>3. PageOf(u.addr) \in Page  BY <2>1, <1>1, OutIsObj
  <2> QED  BY <2>1, <2>2, <2>3, <1>1, <1>2 DEF HeldOK, SameHeaders, SameSlabs
<1>4. ASSUME NEW u \in H \ {o}, ~SmallSize(u.size)  PROVE HasBlock(g, u)
  BY <1>1, <1>4 DEF HeldOK, SmallIn
<1> QED  BY <1>1, <1>3, <1>4 DEF HeldOK, SmallIn

\* kvmfree finds the cache of an object, by one way or the other.
LEMMA FreedIs ==
  ASSUME NEW h, NEW out, HeapOK(h, out), NEW c \in Cache, NEW a \in out,
         On(h, c, PageOf(a))
  PROVE  LET p == PageOf(a)
             n == h.slab[p].active
         IN  Freed(h, a) = PutTo(h, p, a, Relisted(h, c, p, n, n - 1))
<1> DEFINE p == PageOf(a)
           n == h.slab[p].active
<1>1. p \in Page  BY OutIsObj
<1>2. /\ h \in HeapType /\ ListsOK(h) /\ SlabOK(h, c, p, out)
      /\ n \in 1..MaxObjs(c) /\ FoundIn(h, c, p, Place(c, n))
  BY <1>1, OnSlab, OutCounts DEF HeapOK
<1> HIDE DEF p
<1>3. CASE c \notin OffSlab
  <2>1. h.parent[p] = c /\ c # 0  BY <1>2, <1>3, Sizes DEF SlabOK
  <2>2. Freed(h, a) = FreeOnSlab(h, c, p, a)  BY <2>1 DEF Freed, p
  <2> QED  BY <2>2, <1>1, <1>2, FreeOnSlabIs DEF p
<1>4. CASE c \in OffSlab
  <2>1. h.parent[p] = 0  BY <1>2, <1>4 DEF SlabOK
  <2>2. Place(c, n) \in {"full", "partial"}
    <3>1. n # 0  BY <1>2, MaxObjsFacts
    <3> QED  BY <3>1 DEF Place
  <2>3. Owners(h, p) = {c}
    <3>1. c \in Owners(h, p)  BY <1>2, <1>4, <2>2 DEF Owners
    <3>2. ASSUME NEW d \in Owners(h, p)  PROVE d = c
      <4>1. d \in Cache /\ On(h, d, p)  BY Sizes DEF Owners, On, Names
      <4> QED  BY <4>1, <1>1, <1>2, OnUnique DEF p
    <3> QED  BY <3>1, <3>2
  <2>4. (CHOOSE d \in Owners(h, p) : TRUE) = c
    BY <2>3
  <2>5. Freed(h, a) = FreeOffSlab(h, c, p, a)
    <3>1. Owners(h, p) # {}  BY <2>3
    <3> QED  BY <2>1, <2>4, <3>1 DEF Freed, p
  <2> QED  BY <2>5, <1>1, <1>2, FreeOffSlabIs DEF p
<1> QED  BY <1>3, <1>4

LEMMA FreedSmall ==
  ASSUME NEW h, NEW H, HeapAndHeld(h, H), NEW o \in SmallIn(H)
  PROVE  /\ HeapAndHeld(Freed(h, o.addr), H \ {o})
         /\ Freed(h, o.addr).blocks = h.blocks
<1> DEFINE a == o.addr
           c == CacheFor(o.size)
           p == PageOf(a)
           out == LiveIn(h, H)
           g == Freed(h, a)
<1>1. HeapOK(h, out) /\ HeldOK(h, H)  BY DEF HeapAndHeld
<1>2. /\ o \in H /\ SmallSize(o.size) /\ o.size \in Request
      /\ a \in out /\ a \notin OffHeaders(h) /\ On(h, c, p)
  BY <1>1 DEF SmallIn, LiveIn, HeldOK
<1>3. c \in Cache /\ p \in Page  BY <1>1, <1>2, CacheForFacts, OutIsObj
<1> HIDE DEF out, c
<1>4. g = PutTo(h, p, a, Relisted(h, c, p, h.slab[p].active, h.slab[p].active - 1))
  BY <1>1, <1>2, <1>3, FreedIs
<1> HIDE DEF g
<1>5. /\ HeapOK(g, out \ {a}) /\ SameSlabs(h, g) /\ g.blocks = h.blocks
      /\ \A q \in Page : g.slab[q].header = h.slab[q].header
  BY <1>1, <1>2, <1>3, <1>4, PutOK
<1>6. SameHeaders(h, g)  BY <1>5 DEF SameHeaders
<1>7. OffHeaders(g) = OffHeaders(h)  BY <1>6, SameOffHeaders
<1>8. LiveIn(g, H \ {o}) = out \ {a}
  <2>1. \A u \in H \ {o} : u.addr # a  BY <1>1, <1>2 DEF HeldOK
  <2>2. SmallIn(H \ {o}) = SmallIn(H) \ {o}  BY DEF SmallIn
  <2>3. SmallIn(H) \subseteq H  BY DEF SmallIn
  <2>4. {u.addr : u \in SmallIn(H) \ {o}} = {u.addr : u \in SmallIn(H)} \ {a}
    BY <2>1, <2>3
  <2> QED  BY <2>2, <2>4, <1>2, <1>7 DEF LiveIn, out
<1>9. HeldOK(g, H \ {o})
  <2>1. \A u \in H : HasBlock(h, u) => HasBlock(g, u)
    <3>1. \A b \in h.blocks : b.first \in Page
      BY <1>1, HeapRecord DEF HeapOK, PageAllocator!Block
    <3> QED  BY <3>1, <1>5 DEF HasBlock
  <2> QED  BY <2>1, <1>6, HeldLess
<1> QED  BY <1>5, <1>8, <1>9 DEF HeapAndHeld, g

LEMMA FreedLarge ==
  ASSUME NEW h, NEW H, HeapAndHeld(h, H), NEW o \in H, ~SmallSize(o.size)
  PROVE  /\ HeapAndHeld(Freed(h, o.addr), H \ {o})
         /\ \A b \in h.blocks \ Freed(h, o.addr).blocks :
              o.addr = b.first * PageSize /\ b.order = OrderFor(o.size)
<1> DEFINE a == o.addr
           out == LiveIn(h, H)
           g == Freed(h, a)
<1>1. HeapOK(h, out) /\ HeldOK(h, H) /\ h \in HeapType /\ BlocksOK(h)
  BY DEF HeapAndHeld, HeapOK
<1>2. HasBlock(h, o)  BY <1>1 DEF HeldOK, SmallIn
<1>3. PICK b \in h.blocks : /\ b.order = OrderFor(o.size) /\ a = b.first * PageSize
                            /\ h.slab[b.first].header = NoHeader
  BY <1>2 DEF HasBlock
<1> DEFINE p == b.first
<1>4. \A e \in h.blocks : e.first \in Page /\ e.first \in PageAllocator!Extent(e)
  <2> SUFFICES ASSUME NEW e \in h.blocks
               PROVE  e.first \in Page /\ e.first \in PageAllocator!Extent(e)
    OBVIOUS
  <2>1. e \in PageAllocator!Block  BY <1>1, HeapRecord
  <2>2. e.first \in Page /\ e.order \in Order  BY <2>1 DEF PageAllocator!Block
  <2>3. Size[e.order] \in Nat \ {0} /\ e.first \in Nat
    BY <2>2, Sizes, HeapAssumption
  <2> QED  BY <2>2, <2>3 DEF PageAllocator!Extent
<1>5. p \in Page /\ PageOf(a) = p  BY <1>3, <1>4, BaseFacts
<1>6. \A e \in h.blocks : e.first = p <=> e = b
  BY <1>4 DEF BlocksOK, HeapOK, HeapAndHeld
<1>7. \A c \in Cache : ~On(h, c, p)  BY <1>1, <1>3, <1>5, OnSlab
<1> HIDE DEF out, p
<1>8. g = FreeBlock(h, p)
  <2>1. h.parent[p] = 0  BY <1>1, <1>5, <1>7 DEF HeapOK, SlabsOK
  <2>2. Owners(h, p) = {}
    BY <1>7, Sizes DEF Owners, On, Names
  <2> QED  BY <1>5, <2>1, <2>2 DEF Freed
<1>9. g = [list |-> h.list, slab |-> h.slab, parent |-> h.parent, blocks |-> h.blocks \ {b}]
  <2>1. h = [list |-> h.list, slab |-> h.slab, parent |-> h.parent, blocks |-> h.blocks]
    BY <1>1, HeapRecord
  <2>2. {e \in h.blocks : e.first # p} = h.blocks \ {b}  BY <1>6
  <2> HIDE DEF g
  <2> QED  BY <1>8, <2>1, <2>2 DEF FreeBlock
<1>10. g.list = h.list /\ g.slab = h.slab /\ g.parent = h.parent /\ g.blocks = h.blocks \ {b}
  <2> HIDE DEF g
  <2> QED  BY <1>9
<1>11. g \in HeapType
  <2> HIDE DEF g
  <2> QED  BY <1>1, <1>9, <1>10 DEF HeapType
<1> HIDE DEF g
<1>12. \A d \in Cache, q \in Page, n \in Names : FoundIn(g, d, q, n) <=> FoundIn(h, d, q, n)
  BY <1>10 DEF FoundIn
<1>13. SameHeaders(h, g)
  BY <1>10, <1>12 DEF SameHeaders, SameSlabs, On
<1>14. HeapOK(g, out)
  <2>1. SlabsOK(h, out) /\ OutOK(h, out) /\ ListsOK(h)  BY <1>1 DEF HeapOK
  <2>2. ASSUME NEW d \in Cache, NEW q \in Page, On(g, d, q)
        PROVE  SlabOK(g, d, q, out) /\ HeaderOK(g, d, q, out)
    <3>1. On(h, d, q)  BY <2>2, <1>13 DEF SameHeaders, SameSlabs
    <3>2. SlabOK(h, d, q, out) /\ HeaderOK(h, d, q, out)  BY <3>1, <1>1, OnSlab
    <3>3. BlockAt(q, 0) \in g.blocks
      <4>1. q # p  BY <3>1, <1>7
      <4>2. BlockAt(q, 0).first = q  BY DEF BlockAt
      <4> QED  BY <3>2, <4>1, <4>2, <1>10 DEF SlabOK, p
    <3>4. SlabOK(g, d, q, out)
      BY <3>2, <3>3, <1>10 DEF SlabOK, FoundIn
    <3>5. HeaderOK(g, d, q, out)
      <4>1. h.slab[q].header \in out => PageOf(h.slab[q].header) \in Page
        BY <2>1 DEF OutOK
      <4> QED  BY <4>1, <3>2, <1>10, <1>13, Sizes DEF HeaderOK, SameHeaders, SameSlabs
    <3> QED  BY <3>4, <3>5
  <2>3. SlabsOK(g, out)
    BY <2>1, <2>2, <1>10, <1>13 DEF SlabsOK, SameHeaders, SameSlabs
  <2>4. ListsOK(g) /\ BlocksOK(g)
    BY <2>1, <1>1, <1>10, <1>12 DEF ListsOK, BlocksOK
  <2>5. OutOK(g, out)  BY <2>1, <1>13 DEF OutOK, SameHeaders, SameSlabs
  <2> QED  BY <1>11, <2>3, <2>4, <2>5 DEF HeapOK
<1>15. LiveIn(g, H \ {o}) = out
  <2>1. SmallIn(H \ {o}) = SmallIn(H)  BY DEF SmallIn
  <2> QED  BY <2>1, <1>13, SameOffHeaders DEF LiveIn, out
<1>16. HeldOK(g, H \ {o})
  <2>1. ASSUME NEW u \in H \ {o}, HasBlock(h, u)  PROVE HasBlock(g, u)
    <3>1. PICK e \in h.blocks :
            /\ e.order = OrderFor(u.size) /\ u.addr = e.first * PageSize
            /\ h.slab[e.first].header = NoHeader
      BY <2>1 DEF HasBlock
    <3>2. u.addr # a  BY <1>1, <2>1 DEF HeldOK
    <3>3. e # b  BY <3>1, <3>2, <1>3
    <3> QED  BY <3>1, <3>3, <1>10 DEF HasBlock
  <2> QED  BY <2>1, <1>13, HeldLess
<1>17. \A e \in h.blocks \ g.blocks : e = b  BY <1>10
<1> QED  BY <1>3, <1>14, <1>15, <1>16, <1>17 DEF HeapAndHeld, g

-----------------------------------------------------------------------------
(* The invariant *)

LEMMA HeapFields ==
  Heap.list = list /\ Heap.slab = slab /\ Heap.parent = parent /\ Heap.blocks = blocks
BY DEF Heap

LEMMA SetHeapFacts ==
  ASSUME NEW h \in HeapType, SetHeap(h)
  PROVE  Heap' = h
<1>1. h = [list |-> h.list, slab |-> h.slab, parent |-> h.parent, blocks |-> h.blocks]
  BY HeapRecord
<1> QED  BY <1>1 DEF Heap, SetHeap

LEMMA InitOK ==
  ASSUME Init
  PROVE  HeapInv
<1> DEFINE h == Heap
<1>1. /\ \A c \in Cache : h.list[c] = [full |-> <<>>, partial |-> <<>>, empty |-> <<>>]
      /\ \A p \in Page : h.slab[p] = [active |-> 0, free |-> <<>>, header |-> NoHeader]
      /\ \A p \in Page : h.parent[p] = 0
      /\ h.blocks = {} /\ held = {} /\ panic = 0
  BY DEF Init, Heap
<1>2. h \in HeapType
  <2>1. [full |-> <<>>, partial |-> <<>>, empty |-> <<>>] \in CacheLists
    BY DEF CacheLists
  <2>2. [active |-> 0, free |-> <<>>, header |-> NoHeader] \in Slab
    BY DEF Slab
  <2>3. list \in [Cache -> CacheLists] /\ slab \in [Page -> Slab]
        /\ parent \in [Page -> {0} \cup (Cache \ OffSlab)]
        /\ blocks \in SUBSET PageAllocator!Block
    BY <2>1, <2>2 DEF Init
  <2> QED  BY <2>3 DEF HeapType, Heap
<1> HIDE DEF h
<1>3. \A c \in Cache, n \in Names : h.list[c][n] = <<>>
  BY <1>1 DEF Names
<1>4. \A c \in Cache, p \in Page, n \in Names : ~FoundIn(h, c, p, n)
  <2>1. Range(<<>>) = {}  BY DEF Range
  <2> QED  BY <2>1, <1>3 DEF FoundIn
<1>5. \A c \in Cache, p \in Page : ~On(h, c, p)  BY <1>4 DEF On
<1>6. ListsOK(h)
  <2>1. IsInjective(<<>>)  BY DEF IsInjective
  <2> QED  BY <2>1, <1>3, <1>4 DEF ListsOK
<1>7. LiveIn(h, held) = {}
  <2>1. OffHeaders(h) = {}  BY <1>5, Sizes DEF OffHeaders
  <2> QED  BY <2>1, <1>1 DEF LiveIn, SmallIn
<1>8. HeapOK(h, LiveIn(h, held))
  BY <1>1, <1>2, <1>5, <1>6, <1>7 DEF HeapOK, SlabsOK, BlocksOK, OutOK
<1>9. HeldOK(h, held)  BY <1>1 DEF HeldOK, SmallIn
<1> QED  BY <1>1, <1>8, <1>9 DEF HeapInv, HeapAndHeld, h

LEMMA NextOK ==
  ASSUME HeapInv, [Next]_vars
  PROVE  HeapInv'
<1>1. HeapAndHeld(Heap, held) /\ panic \in {0, 100, 101}  BY DEF HeapInv
<1>2. ASSUME NEW g, NEW H, HeapAndHeld(g, H), SetHeap(g), held' = H
      PROVE  HeapAndHeld(Heap, held)'
  <2>1. g \in HeapType  BY <1>2 DEF HeapAndHeld, HeapOK
  <2>2. Heap' = g  BY <2>1, <1>2, SetHeapFacts
  <2>3. HeapAndHeld(Heap', held')  BY <2>2, <1>2
  <2> QED
    BY <2>3
<1>3. ASSUME NEW size \in Request, Kvmalloc(size)  PROVE HeapInv'
  <2>1. PICK r \in Outcomes(size) :
          SetHeap(r.heap) /\ held' = held \cup {[addr |-> r.slot, size |-> size]}
    BY <1>3 DEF Kvmalloc
  <2>2. HeapAndHeld(r.heap, held \cup {[addr |-> r.slot, size |-> size]})
    BY <1>1, KvmallocOK
  <2> QED  BY <2>1, <2>2, <1>1, <1>2, <1>3 DEF HeapInv, Kvmalloc
<1>4. ASSUME NEW size \in Request, KvmallocPanics(size)  PROVE HeapInv'
  <2>1. Heap' = Heap /\ held' = held  BY <1>4 DEF KvmallocPanics, Heap
  <2>2. HeapAndHeld(Heap', held')  BY <2>1, <1>1
  <2> QED  BY <2>2, <1>4 DEF HeapInv, KvmallocPanics
<1>5. ASSUME NEW o \in held, Kvmfree(o)  PROVE HeapInv'
  <2>1. HeapAndHeld(Freed(Heap, o.addr), held \ {o})
    BY <1>1, FreedSmall, FreedLarge DEF SmallIn
  <2> QED  BY <2>1, <1>1, <1>2, <1>5 DEF HeapInv, Kvmfree
<1>6. ASSUME UNCHANGED vars  PROVE HeapInv'
  <2>1. Heap' = Heap /\ held' = held  BY <1>6 DEF vars, Heap
  <2>2. HeapAndHeld(Heap', held')  BY <2>1, <1>1
  <2> QED  BY <2>2, <1>1, <1>6 DEF HeapInv, vars
<1> QED  BY <1>3, <1>4, <1>5, <1>6 DEF Next

\* The kernel heap keeps its invariant (kvmalloc, kvmfree and the allocation
\* of struct slabs they nest, vm.c:230-483).
THEOREM HeapInvariant == Spec => []HeapInv
<1>1. Init => HeapInv  BY InitOK
<1>2. HeapInv /\ [Next]_vars => HeapInv'  BY NextOK
<1> QED  BY <1>1, <1>2, PTL DEF Spec

\* Every variable of the heap has its type: a slab's count never goes below
\* zero, its chain never leaves the memory (vm.c:258-290, 385-417).
THEOREM TypeCorrect == Spec => []TypeOK
<1>1. HeapInv => TypeOK
  <2> SUFFICES ASSUME HeapInv  PROVE TypeOK
    OBVIOUS
  <2>1. Heap \in HeapType  BY DEF HeapInv, HeapAndHeld, HeapOK
  <2>2. held \subseteq [addr : Address, size : Request] /\ panic \in {0, 100, 101}
    BY DEF HeapInv, HeapAndHeld, HeldOK
  <2>3. /\ list \in [Cache -> CacheLists] /\ slab \in [Page -> Slab]
        /\ parent \in [Page -> {0} \cup (Cache \ OffSlab)]
        /\ blocks \subseteq PageAllocator!Block
    BY <2>1, HeapFields DEF HeapType
  <2> QED  BY <2>2, <2>3 DEF TypeOK, CacheLists, Slab
<1> QED  BY <1>1, HeapInvariant, PTL

-----------------------------------------------------------------------------
(* What is given back, counted and handed out *)

\* kvmfree gives pages back only for a block a caller was given whole (vm.c:
\* 374-483): a slab is never taken for one.
THEOREM BlocksGoBack == Spec => OnlyBlocksGoBack
<1> DEFINE A == \A b \in blocks \ blocks' :
                  \E o \in held \ held' :
                    /\ o.addr = b.first * PageSize
                    /\ ~SmallSize(o.size) /\ b.order = OrderFor(o.size)
<1>1. HeapInv /\ [Next]_vars => [A]_vars
  <2> SUFFICES ASSUME HeapInv, Next  PROVE A
    OBVIOUS
  <2>1. HeapAndHeld(Heap, held)  BY DEF HeapInv
  <2>2. ASSUME NEW size \in Request, Kvmalloc(size)  PROVE A
    <3>1. PICK r \in Outcomes(size) : SetHeap(r.heap)  BY <2>2 DEF Kvmalloc
    <3>2. HeapOK(Heap, LiveIn(Heap, held)) /\ OffHeaders(Heap) \subseteq LiveIn(Heap, held)
      BY <2>1 DEF HeapAndHeld, LiveIn
    <3>3. blocks \subseteq r.heap.blocks
      <4>1. CASE SmallSize(size)
        <5>1. CacheFor(size) \in Cache /\ r \in CacheAlloc(Heap, CacheFor(size))
          BY <4>1, CacheForFacts DEF Outcomes
        <5>2. Given(Heap, LiveIn(Heap, held), CacheFor(size), r)
          BY <3>2, <5>1, CacheAllocOK
        <5> QED  BY <5>2, HeapFields DEF Given, Grown
      <4>2. CASE ~SmallSize(size)
        <5>1. PICK b \in Available(Heap, OrderFor(size)) :
                r = [slot |-> b.first * PageSize, heap |-> WithBlock(Heap, b)]
          BY <4>2, Zenon DEF Outcomes, WithBlock
        <5>2. r.heap = WithBlock(Heap, b)  BY <5>1
        <5> QED  BY <5>2 DEF WithBlock, Heap
      <4> QED  BY <4>1, <4>2
    <3> QED  BY <3>1, <3>3 DEF SetHeap
  <2>3. ASSUME NEW size \in Request, KvmallocPanics(size)  PROVE A
    BY <2>3 DEF KvmallocPanics
  <2>4. ASSUME NEW o \in held, Kvmfree(o)  PROVE A
    <3>1. blocks' = Freed(Heap, o.addr).blocks /\ o \in held \ held'
      BY <2>4 DEF Kvmfree, SetHeap
    <3>2. CASE SmallSize(o.size)
      <4>1. blocks' = blocks
        BY <2>1, <3>1, <3>2, FreedSmall, HeapFields DEF SmallIn
      <4> QED  BY <4>1
    <3>3. CASE ~SmallSize(o.size)
      <4>1. \A b \in blocks \ blocks' :
              o.addr = b.first * PageSize /\ b.order = OrderFor(o.size)
        BY <2>1, <3>1, <3>3, FreedLarge, HeapFields
      <4> QED  BY <3>1, <3>3, <4>1
    <3> QED  BY <3>2, <3>3
  <2> HIDE DEF A
  <2> QED  BY <2>2, <2>3, <2>4 DEF Next
<1> QED  BY <1>1, HeapInvariant, PTL DEF Spec, OnlyBlocksGoBack

\* Where the struct slabs are
LEMMA HeadersAre ==
  ASSUME HeapInv
  PROVE  /\ \A a \in Headers : \E d \in Cache, q \in Page :
              On(Heap, d, q) /\ a = slab[q].header /\
              IF d \in OffSlab
              THEN /\ a \in OffHeaders(Heap) /\ PageOf(a) \in Page
                   /\ On(Heap, HeaderCache, PageOf(a)) /\ a \in Objs(HeaderCache, PageOf(a))
              ELSE a = q * PageSize
         /\ OffHeaders(Heap) \subseteq Headers
<1> DEFINE h == Heap
           out == LiveIn(Heap, held)
<1>1. HeapOK(h, out)  BY DEF HeapInv, HeapAndHeld
<1>2. h.slab = slab  BY HeapFields
<1> HIDE DEF h, out
<1>3. ASSUME NEW q \in Page, IsSlab(q)
      PROVE  \E d \in Cache : On(h, d, q)
  BY <1>1, <1>2, <1>3 DEF HeapOK, SlabsOK, IsSlab
<1>4. ASSUME NEW q \in Page, NEW d \in OffSlab, On(h, d, q)
      PROVE  LET a == slab[q].header
             IN  /\ a \in OffHeaders(h) /\ PageOf(a) \in Page /\ a # NoHeader
                 /\ On(h, HeaderCache, PageOf(a)) /\ a \in Objs(HeaderCache, PageOf(a))
  <2> DEFINE a == slab[q].header
  <2>1. d \in Cache /\ HeaderCache \in Cache  BY Sizes
  <2>2. /\ a \in out /\ On(h, HeaderCache, PageOf(a)) /\ a # NoHeader
    BY <1>1, <1>2, <1>4, <2>1, OnSlab DEF HeaderOK
  <2>3. PageOf(a) \in Page /\ a \in Objs(HeaderCache, PageOf(a))
    BY <1>1, <2>1, <2>2, OutIsObj
  <2>4. a \in OffHeaders(h)  BY <1>2, <1>4 DEF OffHeaders
  <2> QED  BY <2>2, <2>3, <2>4
<1>5. ASSUME NEW a \in Headers
      PROVE  \E d \in Cache, q \in Page :
               On(h, d, q) /\ a = slab[q].header /\
               IF d \in OffSlab
               THEN /\ a \in OffHeaders(h) /\ PageOf(a) \in Page
                    /\ On(h, HeaderCache, PageOf(a)) /\ a \in Objs(HeaderCache, PageOf(a))
               ELSE a = q * PageSize
  <2>1. PICK q \in Page : IsSlab(q) /\ a = slab[q].header  BY DEF Headers
  <2>2. PICK d \in Cache : On(h, d, q)  BY <2>1, <1>3
  <2>3. d \notin OffSlab => a = q * PageSize
    BY <2>1, <2>2, <1>1, <1>2, OnSlab DEF HeaderOK
  <2> QED  BY <2>1, <2>2, <2>3, <1>4
<1>6. ASSUME NEW a \in OffHeaders(h)  PROVE a \in Headers
  <2>1. PICK q \in Page : (\E d \in OffSlab : On(h, d, q)) /\ a = slab[q].header
    BY <1>2 DEF OffHeaders
  <2>2. IsSlab(q)  BY <2>1, <1>4 DEF IsSlab
  <2> QED  BY <2>1, <2>2 DEF Headers
<1> QED  BY <1>5, <1>6 DEF h

\* An object's address is not the base of a page, when struct slabs are there.
LEMMA NotBase ==
  ASSUME NEW p \in Page, NEW a \in Objs(HeaderCache, p)
  PROVE  a % PageSize # 0
<1>1. /\ a \in Address /\ a \div PageSize = p
      /\ p * PageSize + HeaderSize <= a
  BY Sizes, ObjsFacts DEF PageOf
<1>2. a \in Nat /\ PageSize \in Nat \ {0} /\ HeaderSize \in Nat \ {0}
  BY <1>1, Sizes DEF Address
<1>3. a = (a \div PageSize) * PageSize + (a % PageSize) /\ a % PageSize \in 0..PageSize - 1
  BY <1>2, DivMod
<1>4. p * PageSize \in Nat  BY <1>2, Sizes, MulNat
<1> QED  BY <1>1, <1>2, <1>3, <1>4

LEMMA OffHeadersAre ==
  ASSUME HeapInv
  PROVE  OffSlabHeaders = OffHeaders(Heap)
<1>1. ASSUME NEW a \in OffHeaders(Heap)  PROVE a \in OffSlabHeaders
  <2>1. a \in Headers  BY <1>1, HeadersAre
  <2>2. HeapOK(Heap, LiveIn(Heap, held)) /\ a \in LiveIn(Heap, held)
    BY <1>1 DEF HeapInv, HeapAndHeld, LiveIn
  <2>3. PICK q \in Page, d \in OffSlab : On(Heap, d, q) /\ a = Heap.slab[q].header
    BY <1>1 DEF OffHeaders
  <2>4. On(Heap, HeaderCache, PageOf(a))
    BY <2>2, <2>3, Sizes, OnSlab DEF HeaderOK
  <2>5. PageOf(a) \in Page /\ a \in Objs(HeaderCache, PageOf(a))
    BY <2>2, <2>4, Sizes, OutIsObj
  <2> QED  BY <2>1, <2>5, NotBase DEF OffSlabHeaders
<1>2. ASSUME NEW a \in OffSlabHeaders  PROVE a \in OffHeaders(Heap)
  <2>1. a \in Headers /\ a % PageSize # 0  BY DEF OffSlabHeaders
  <2>2. PICK d \in Cache, q \in Page :
          IF d \in OffSlab THEN a \in OffHeaders(Heap) ELSE a = q * PageSize
    BY <2>1, HeadersAre
  <2>3. (q * PageSize) % PageSize = 0
    BY Sizes, DivModOf
  <2> QED  BY <2>1, <2>2, <2>3
<1> QED  BY <1>1, <1>2

\* What is held on the page of a slab is an object of it.
LEMMA HeldOnSlab ==
  ASSUME HeapInv, NEW c \in Cache, NEW p \in Page, On(Heap, c, p),
         NEW o \in held, PageOf(o.addr) = p
  PROVE  o \in SmallIn(held)
<1>1. HeapAndHeld(Heap, held)  BY DEF HeapInv
<1>2. SUFFICES ASSUME ~SmallSize(o.size)  PROVE FALSE
  BY DEF SmallIn
<1>3. HasBlock(Heap, o)  BY <1>1, <1>2 DEF HeapAndHeld, HeldOK, SmallIn
<1>4. Grown(Heap, Heap)  BY DEF Grown
<1> QED  BY <1>1, <1>3, <1>4, StaysBlock DEF HeapAndHeld

\* Where a slab is linked is decided by its count alone, and every count is
\* exact: its objects are live or on its chain, once (vm.c:258-290, 385-417).
THEOREM CountsExact == Spec => []ListsExact
<1>1. HeapInv => ListsExact
  <2> SUFFICES ASSUME HeapInv, NEW c \in Cache, NEW p \in Page,
                      FoundIn(Heap, c, p, "full") \/ FoundIn(Heap, c, p, "partial")
                        \/ FoundIn(Heap, c, p, "empty")
               PROVE  LET s     == slab[p]
                          in(n) == FoundIn(Heap, c, p, n)
                          live  == {a \in {o.addr : o \in held} \cup OffSlabHeaders :
                                      PageOf(a) = p}
                          objs  == {FirstObj(c, p) + i * ObjSize[c] : i \in 0..MaxObjs(c) - 1}
                          free  == {s.free[i] : i \in DOMAIN s.free}
                      IN  /\ in("full") <=> s.active = MaxObjs(c)
                          /\ in("empty") <=> s.active = 0
                          /\ in("partial") <=> s.active \in 1..MaxObjs(c) - 1
                          /\ Len(s.free) = MaxObjs(c) - s.active
                          /\ free \cap live = {} /\ free \cup live = objs
    BY DEF ListsExact
  <2> DEFINE s == slab[p]
             out == LiveIn(Heap, held)
             live == {a \in {o.addr : o \in held} \cup OffSlabHeaders : PageOf(a) = p}
             objs == {FirstObj(c, p) + i * ObjSize[c] : i \in 0..MaxObjs(c) - 1}
             free == {s.free[i] : i \in DOMAIN s.free}
  <2>1. HeapOK(Heap, out) /\ ListsOK(Heap) /\ On(Heap, c, p) /\ Heap.slab = slab
    BY HeapFields DEF HeapInv, HeapAndHeld, HeapOK, On, Names
  <2>2. SlabOK(Heap, c, p, out) /\ s \in Slab  BY <2>1, OnSlab
  <2>3. /\ FoundIn(Heap, c, p, Place(c, s.active))
        /\ s.active + Len(s.free) = MaxObjs(c)
        /\ Range(s.free) \cap out = {}
        /\ Range(s.free) \cup {a \in out : PageOf(a) = p} = Objs(c, p)
    BY <2>1, <2>2 DEF SlabOK
  <2>4. s.active \in Nat /\ Len(s.free) \in Nat /\ MaxObjs(c) \in Nat /\ MaxObjs(c) > 1
    BY <2>2, MaxObjsFacts DEF Slab
  <2> HIDE DEF s
  <2>5. \A n \in Names : FoundIn(Heap, c, p, n) <=> n = Place(c, s.active)
    <3>1. Place(c, s.active) \in Names  BY DEF Place, Names
    <3> QED  BY <3>1, <2>1, <2>3 DEF ListsOK
  <2>6. /\ FoundIn(Heap, c, p, "full") <=> s.active = MaxObjs(c)
        /\ FoundIn(Heap, c, p, "empty") <=> s.active = 0
        /\ FoundIn(Heap, c, p, "partial") <=> s.active \in 1..MaxObjs(c) - 1
    <3>1. /\ Place(c, s.active) = "full" <=> s.active = MaxObjs(c)
          /\ Place(c, s.active) = "empty" <=> s.active = 0
          /\ Place(c, s.active) = "partial" <=> s.active \in 1..MaxObjs(c) - 1
      BY <2>3, <2>4 DEF Place
    <3> QED  BY <3>1, <2>5 DEF Names
  <2>7. Len(s.free) = MaxObjs(c) - s.active  BY <2>3, <2>4
  <2>8. live = {a \in out : PageOf(a) = p}
    <3>1. OffSlabHeaders = OffHeaders(Heap)  BY OffHeadersAre
    <3>2. \A o \in held : PageOf(o.addr) = p => o \in SmallIn(held)
      BY <2>1, HeldOnSlab
    <3>3. SmallIn(held) \subseteq held  BY DEF SmallIn
    <3> QED  BY <3>1, <3>2, <3>3 DEF LiveIn
  <2>9. free = Range(s.free)  BY DEF Range
  <2>10. objs = Objs(c, p)  BY DEF Objs, Obj
  <2> HIDE DEF live, free, objs
  <2>11. free \cap live = {} /\ free \cup live = objs
    BY <2>3, <2>8, <2>9, <2>10
  <2> QED  BY <2>6, <2>7, <2>11 DEF s, live, free, objs
<1> QED  BY <1>1, HeapInvariant, PTL

-----------------------------------------------------------------------------
(* What is handed out does not overlap. *)

LEMMA BytesIn ==
  ASSUME NEW a \in Nat, NEW n \in Nat, NEW x \in Bytes(a, n)
  PROVE  x \in Nat /\ a <= x /\ x < a + n
BY DEF Bytes

\* The bytes of an object are on its page, and are no other object's.
LEMMA ObjBytes ==
  ASSUME NEW c \in Cache, NEW p \in Page, NEW a \in Objs(c, p), NEW n \in Nat,
         n <= ObjSize[c], NEW x \in Bytes(a, n)
  PROVE  /\ PageOf(x) = p
         /\ c \notin OffSlab => p * PageSize + HeaderSize <= x
         /\ \A b \in Objs(c, p), m \in Nat :
              b # a /\ m <= ObjSize[c] => x # b /\ x \notin Bytes(b, m)
<1>1. /\ a \in Nat /\ ObjSize[c] \in Nat \ {0} /\ p * PageSize \in Nat
      /\ PageSize \in Nat /\ HeaderSize \in Nat
      /\ p * PageSize <= a /\ a + ObjSize[c] <= p * PageSize + PageSize
      /\ c \notin OffSlab => p * PageSize + HeaderSize <= a
  BY ObjsFacts, FirstObjFacts, Sizes DEF Address
<1>2. x \in Nat /\ a <= x /\ x < a + n  BY <1>1, BytesIn
<1>3. x < a + ObjSize[c]  BY <1>1, <1>2
<1>4. PageOf(x) = p
  <2>1. p * PageSize <= x /\ x < p * PageSize + PageSize /\ x \in Int
    BY <1>1, <1>2, <1>3
  <2> QED  BY <2>1, PageOfFact
<1>5. c \notin OffSlab => p * PageSize + HeaderSize <= x
  BY <1>1, <1>2
<1>6. ASSUME NEW b \in Objs(c, p), NEW m \in Nat, b # a, m <= ObjSize[c]
      PROVE  x # b /\ x \notin Bytes(b, m)
  <2>1. b \in Nat  BY ObjsFacts, Sizes DEF Address
  <2>2. a + ObjSize[c] <= b \/ b + ObjSize[c] <= a  BY <1>6, ObjsFacts
  <2>3. x \in Bytes(b, m) => b <= x /\ x < b + m  BY <2>1, BytesIn
  <2> QED  BY <2>1, <2>2, <2>3, <1>1, <1>2, <1>3, <1>6
<1> QED  BY <1>4, <1>5, <1>6

\* The bytes of a block are on its pages.
LEMMA BlockBytes ==
  ASSUME NEW b \in PageAllocator!Block, NEW n \in Nat, n <= PageSize * Size[b.order],
         NEW x \in Bytes(b.first * PageSize, n)
  PROVE  PageOf(x) \in PageAllocator!Extent(b)
<1> DEFINE q == PageOf(x)
           k == Size[b.order]
<1>1. /\ b.first \in Nat /\ k \in Nat \ {0} /\ PageSize \in Nat \ {0}
  <2>1. b.first \in Page /\ b.order \in Order  BY DEF PageAllocator!Block
  <2> QED  BY <2>1, Sizes, HeapAssumption
<1>2. b.first * PageSize \in Nat  BY <1>1, MulNat
<1>3. x \in Nat /\ b.first * PageSize <= x /\ x < b.first * PageSize + n
  BY <1>2, BytesIn
<1>4. q \in Nat /\ x = q * PageSize + (x % PageSize) /\ x % PageSize \in 0..PageSize - 1
  BY <1>1, <1>3, DivMod DEF PageOf
<1> HIDE DEF q, k
<1>5. q * PageSize \in Nat /\ q * PageSize <= x /\ x < q * PageSize + PageSize
  BY <1>1, <1>3, <1>4, MulNat
<1>6. b.first <= q
  <2>1. (q + 1) * PageSize = q * PageSize + PageSize  BY <1>1, <1>4, MulNext
  <2>2. b.first * PageSize < (q + 1) * PageSize  BY <2>1, <1>1, <1>2, <1>3, <1>5
  <2>3. b.first < q + 1  BY <2>2, <1>1, <1>4, MulLess
  <2> QED  BY <2>3, <1>1, <1>4
<1>7. q < b.first + k
  <2>1. PageSize * k = k * PageSize /\ k * PageSize \in Nat
    BY <1>1, MulNat
  <2>2. (b.first + k) * PageSize = b.first * PageSize + k * PageSize
    BY <1>1
  <2>3. n <= k * PageSize  BY <2>1 DEF k
  <2>4. q * PageSize < (b.first + k) * PageSize
    BY <2>1, <2>2, <2>3, <1>2, <1>3, <1>5
  <2> QED  BY <2>4, <1>1, <1>4, MulLess
<1> QED
  BY <1>1, <1>4, <1>6, <1>7 DEF PageAllocator!Extent, q, k

\* What a caller holds is an object of a slab, or a block that is not one.
LEMMA HeldIs ==
  ASSUME HeapInv, NEW o \in held
  PROVE  /\ o.addr \in Nat /\ o.size \in Nat
         /\ \/ \E c \in Cache, p \in Page :
                 /\ On(Heap, c, p) /\ o.addr \in Objs(c, p) /\ o.size <= ObjSize[c]
                 /\ BlockAt(p, 0) \in blocks
                 /\ o.addr \in LiveIn(Heap, held) /\ o.addr \notin OffHeaders(Heap)
            \/ \E b \in blocks :
                 /\ o.addr = b.first * PageSize /\ b \in PageAllocator!Block
                 /\ o.size <= PageSize * Size[b.order]
                 /\ \A c \in Cache, p \in PageAllocator!Extent(b) : p \in Page => ~On(Heap, c, p)
<1> DEFINE h == Heap
           out == LiveIn(h, held)
<1>1. /\ HeapOK(h, out) /\ HeldOK(h, held) /\ h.blocks = blocks
      /\ held \subseteq [addr : Address, size : Request]
  BY HeapFields DEF HeapInv, HeapAndHeld, HeldOK
<1>2. o.addr \in Nat /\ o.size \in Nat /\ o.size \in Request
  <2>1. o \in [addr : Address, size : Request]  BY <1>1
  <2>2. o.addr \in Address /\ o.size \in Request  BY <2>1
  <2>3. Address \subseteq Nat  BY DEF Address
  <2>4. Request \subseteq Nat  BY HeapAssumption
  <2> QED  BY <2>2, <2>3, <2>4
<1>3. CASE SmallSize(o.size)
  <2> DEFINE c == CacheFor(o.size)
             p == PageOf(o.addr)
  <2>1. c \in Cache /\ ObjSize[c] >= o.size  BY <1>2, <1>3, CacheForFacts
  <2>2. o.addr \in out /\ o.addr \notin OffHeaders(h) /\ On(h, c, p)
    BY <1>1, <1>3 DEF HeldOK, SmallIn, LiveIn
  <2> HIDE DEF c, out
  <2>3. p \in Page /\ o.addr \in Objs(c, p)  BY <1>1, <2>1, <2>2, OutIsObj
  <2>4. BlockAt(p, 0) \in blocks  BY <1>1, <2>1, <2>2, <2>3, OnSlab DEF SlabOK
  <2>5. o.size <= ObjSize[c]  BY <2>1, <1>2, Sizes
  <2> QED  BY <1>2, <2>1, <2>2, <2>3, <2>4, <2>5 DEF out
<1>4. CASE ~SmallSize(o.size)
  <2>1. HasBlock(h, o)  BY <1>1, <1>4 DEF HeldOK, SmallIn
  <2>2. PICK b \in blocks :
          /\ b.order = OrderFor(o.size) /\ o.addr = b.first * PageSize
          /\ h.slab[b.first].header = NoHeader
    BY <2>1, <1>1 DEF HasBlock
  <2>3. b \in PageAllocator!Block  BY <1>1, HeapRecord DEF HeapOK
  <2>4. b.first \in Page /\ b.order \in Order  BY <2>3 DEF PageAllocator!Block
  <2>5. o.size <= PageSize * Size[b.order]
    <3>1. PageSize * Size[b.order] >= o.size  BY <1>2, <2>2, <2>4, OrderForFacts
    <3>2. PageSize * Size[b.order] \in Nat
      BY <2>4, Sizes, HeapAssumption, MulNat
    <3> QED  BY <3>1, <3>2, <1>2
  <2>6. ASSUME NEW c \in Cache, NEW p \in PageAllocator!Extent(b), p \in Page, On(h, c, p)
        PROVE  FALSE
    <3> HIDE DEF h, out
    <3>1. b = BlockAt(p, 0)  BY <1>1, <2>6, SlabPage
    <3>2. b.first = p  BY <3>1 DEF BlockAt
    <3>3. h.slab[p].header # NoHeader  BY <1>1, <2>6, OnSlab
    <3> QED  BY <3>2, <3>3, <2>2
  <2> QED  BY <1>2, <2>2, <2>3, <2>5, <2>6
<1> QED  BY <1>3, <1>4

\* What callers hold never overlaps: not with what others hold, not with a
\* struct slab, not with a chain; and it is in the heap's own blocks (vm.c:
\* 258-290, 296-341).
THEOREM NothingOverlaps == Spec => []NoOverlap
<1>1. HeapInv => NoOverlap
  <2> SUFFICES ASSUME HeapInv  PROVE NoOverlap
    OBVIOUS
  <2> DEFINE links == UNION {{slab[p].free[i] : i \in DOMAIN slab[p].free} : p \in Page}
             out == LiveIn(Heap, held)
  <2>1. /\ HeapOK(Heap, out) /\ HeldOK(Heap, held) /\ ListsOK(Heap) /\ BlocksOK(Heap)
        /\ Heap.slab = slab /\ Heap.blocks = blocks
    BY HeapFields DEF HeapInv, HeapAndHeld, HeapOK
  <2> SUFFICES ASSUME NEW o \in held
               PROVE  /\ \A u \in held : u # o =>
                           Bytes(o.addr, o.size) \cap Bytes(u.addr, u.size) = {}
                      /\ \A a \in Headers :
                           Bytes(o.addr, o.size) \cap Bytes(a, HeaderSize) = {}
                      /\ Bytes(o.addr, o.size) \cap links = {}
                      /\ \E b \in blocks : \A a \in Bytes(o.addr, o.size) :
                           PageOf(a) \in PageAllocator!Extent(b)
    BY DEF NoOverlap
  <2>2. \A c \in Cache : ObjSize[c] \in Nat /\ ObjSize[HeaderCache] = HeaderSize
    BY Sizes, HeapAssumption
  <2>3. ASSUME NEW c \in Cache, NEW p \in Page, On(Heap, c, p), NEW y \in Range(slab[p].free)
        PROVE  y \in Objs(c, p) /\ y \notin out
    BY <2>1, <2>3, OnSlab DEF SlabOK
  <2>4. \A p \in Page : Range(slab[p].free) # {} => \E c \in Cache : On(Heap, c, p)
    <3>1. Range(<<>>) = {}  BY DEF Range
    <3> QED  BY <3>1, <2>1 DEF HeapOK, SlabsOK
  <2>5. ASSUME NEW y \in links
        PROVE  \E c \in Cache, p \in Page : On(Heap, c, p) /\ y \in Objs(c, p) /\ y \notin out
    <3>1. PICK p \in Page : y \in Range(slab[p].free)  BY DEF Range
    <3> QED  BY <3>1, <2>3, <2>4
  <2> HIDE DEF links, out
  <2>6. CASE \E c \in Cache, p \in Page :
               /\ On(Heap, c, p) /\ o.addr \in Objs(c, p) /\ o.size <= ObjSize[c]
               /\ BlockAt(p, 0) \in blocks
               /\ o.addr \in out /\ o.addr \notin OffHeaders(Heap)
    <3>1. PICK c \in Cache, p \in Page :
               /\ On(Heap, c, p) /\ o.addr \in Objs(c, p) /\ o.size <= ObjSize[c]
               /\ BlockAt(p, 0) \in blocks
               /\ o.addr \in out /\ o.addr \notin OffHeaders(Heap)
      BY <2>6
    <3>2. o.addr \in Nat /\ o.size \in Nat  BY HeldIs
    <3>3. ASSUME NEW x \in Bytes(o.addr, o.size)
          PROVE  /\ PageOf(x) = p /\ (c \notin OffSlab => p * PageSize + HeaderSize <= x)
                 /\ x \in Nat
                 /\ \A b \in Objs(c, p), m \in Nat :
                      b # o.addr /\ m <= ObjSize[c] => x # b /\ x \notin Bytes(b, m)
      BY <3>1, <3>2, <3>3, ObjBytes, BytesIn
    \* An object elsewhere, of another cache or not
    <3>4. ASSUME NEW x \in Bytes(o.addr, o.size), NEW d \in Cache, NEW q \in Page,
                 On(Heap, d, q), NEW b \in Objs(d, q), b # o.addr,
                 NEW m \in Nat, m <= ObjSize[d]
          PROVE  x # b /\ x \notin Bytes(b, m)
      <4>1. CASE d = c /\ q = p  BY <4>1, <3>3, <3>4
      <4>2. CASE ~(d = c /\ q = p)
        <5>1. q # p  BY <4>2, <3>1, <3>4, <2>1, OnUnique
        <5>2. PageOf(x) = p  BY <3>3
        <5>3. PageOf(b) = q  BY <3>4, ObjsFacts
        <5>4. x \in Bytes(b, m) => PageOf(x) = q  BY <3>4, ObjBytes
        <5> QED  BY <5>1, <5>2, <5>3, <5>4
      <4> QED  BY <4>1, <4>2
    <3>5. ASSUME NEW u \in held, u # o, NEW x \in Bytes(o.addr, o.size),
                 x \in Bytes(u.addr, u.size)
          PROVE  FALSE
      <4>1. u.addr # o.addr /\ u.addr \in Nat /\ u.size \in Nat
        BY <3>5, <2>1, HeldIs DEF HeldOK
      <4>2. CASE \E d \in Cache, q \in Page :
                   On(Heap, d, q) /\ u.addr \in Objs(d, q) /\ u.size <= ObjSize[d]
        BY <4>1, <4>2, <3>4, <3>5
      <4>3. CASE \E b \in blocks :
                   /\ u.addr = b.first * PageSize /\ b \in PageAllocator!Block
                   /\ u.size <= PageSize * Size[b.order]
                   /\ \A d \in Cache, q \in PageAllocator!Extent(b) : q \in Page => ~On(Heap, d, q)
        <5>1. PICK b \in blocks :
                   /\ u.addr = b.first * PageSize /\ b \in PageAllocator!Block
                   /\ u.size <= PageSize * Size[b.order]
                   /\ \A d \in Cache, q \in PageAllocator!Extent(b) : q \in Page => ~On(Heap, d, q)
          BY <4>3
        <5>2. PageOf(x) \in PageAllocator!Extent(b)  BY <5>1, <4>1, <3>5, BlockBytes
        <5> QED  BY <5>1, <5>2, <3>1, <3>3
      <4> QED  BY <4>2, <4>3, HeldIs DEF out
    <3>6. ASSUME NEW a \in Headers, NEW x \in Bytes(o.addr, o.size), x \in Bytes(a, HeaderSize)
          PROVE  FALSE
      <4>1. PICK d \in Cache, q \in Page :
              On(Heap, d, q) /\ a = slab[q].header /\
              IF d \in OffSlab
              THEN /\ a \in OffHeaders(Heap) /\ PageOf(a) \in Page
                   /\ On(Heap, HeaderCache, PageOf(a)) /\ a \in Objs(HeaderCache, PageOf(a))
              ELSE a = q * PageSize
        BY HeadersAre
      <4>2. HeaderSize \in Nat /\ HeaderCache \in Cache  BY Sizes
      <4>3. CASE d \in OffSlab
        <5>1. a # o.addr  BY <4>1, <4>3, <3>1
        <5>2. HeaderSize <= ObjSize[HeaderCache]  BY <4>2, <2>2
        <5> QED  BY <4>1, <4>2, <4>3, <5>1, <5>2, <3>4, <3>6
      <4>4. CASE d \notin OffSlab
        <5>1. a = q * PageSize /\ a \in Nat  BY <4>1, <4>4, FirstObjFacts
        <5>2. x \in Nat /\ a <= x /\ x < a + HeaderSize  BY <5>1, <4>2, <3>6, BytesIn
        <5>3. HeaderSize <= PageSize /\ PageSize \in Nat
          <6>1. MaxObjs(d) * ObjSize[d] <= PageSize - HeaderSize  BY <4>4, MaxObjsFacts
          <6>2. MaxObjs(d) * ObjSize[d] \in Nat  BY MaxObjsFacts, Sizes, MulNat
          <6> QED  BY <6>1, <6>2, Sizes
        <5>4. PageOf(x) = q
          BY <5>1, <5>2, <5>3, <4>2, PageOfFact
        <5>5. q = p  BY <5>4, <3>3
        <5>6. c = d  BY <5>5, <4>1, <3>1, <2>1, OnUnique
        <5>7. p * PageSize + HeaderSize <= x  BY <5>6, <4>4, <3>3
        <5> QED  BY <5>1, <5>2, <5>5, <5>7, <4>2
      <4> QED  BY <4>3, <4>4
    <3>7. ASSUME NEW x \in Bytes(o.addr, o.size), x \in links  PROVE FALSE
      <4>1. PICK d \in Cache, q \in Page : On(Heap, d, q) /\ x \in Objs(d, q) /\ x \notin out
        BY <3>7, <2>5
      <4>2. x # o.addr  BY <4>1, <3>1
      <4>3. 0 \in Nat /\ 0 <= ObjSize[d]  BY <2>2
      <4> QED  BY <4>1, <4>2, <4>3, <3>4
    <3>8. \E b \in blocks : \A x \in Bytes(o.addr, o.size) :
            PageOf(x) \in PageAllocator!Extent(b)
      BY <3>1, <3>3, ExtentFacts
    <3> QED  BY <3>5, <3>6, <3>7, <3>8
  <2>7. CASE \E b \in blocks :
               /\ o.addr = b.first * PageSize /\ b \in PageAllocator!Block
               /\ o.size <= PageSize * Size[b.order]
               /\ \A c \in Cache, p \in PageAllocator!Extent(b) : p \in Page => ~On(Heap, c, p)
    <3>1. PICK b \in blocks :
               /\ o.addr = b.first * PageSize /\ b \in PageAllocator!Block
               /\ o.size <= PageSize * Size[b.order]
               /\ \A c \in Cache, p \in PageAllocator!Extent(b) : p \in Page => ~On(Heap, c, p)
      BY <2>7
    <3>2. o.addr \in Nat /\ o.size \in Nat  BY HeldIs
    <3>3. ASSUME NEW x \in Bytes(o.addr, o.size)
          PROVE  /\ PageOf(x) \in PageAllocator!Extent(b) /\ x \in Nat
                 /\ \A c \in Cache : PageOf(x) \in Page => ~On(Heap, c, PageOf(x))
      <4>1. PageOf(x) \in PageAllocator!Extent(b)  BY <3>1, <3>2, <3>3, BlockBytes
      <4> QED  BY <4>1, <3>1, <3>2, <3>3, BytesIn
    \* No object is there.
    <3>4. ASSUME NEW x \in Bytes(o.addr, o.size), NEW d \in Cache, NEW q \in Page,
                 On(Heap, d, q), NEW a \in Objs(d, q), NEW m \in Nat, m <= ObjSize[d]
          PROVE  x # a /\ x \notin Bytes(a, m)
      <4>1. PageOf(a) = q  BY <3>4, ObjsFacts
      <4>2. x \in Bytes(a, m) => PageOf(x) = q  BY <3>4, ObjBytes
      <4> QED  BY <4>1, <4>2, <3>3, <3>4
    <3>5. ASSUME NEW u \in held, u # o, NEW x \in Bytes(o.addr, o.size),
                 x \in Bytes(u.addr, u.size)
          PROVE  FALSE
      <4>1. u.addr # o.addr /\ u.addr \in Nat /\ u.size \in Nat
        BY <3>5, <2>1, HeldIs DEF HeldOK
      <4>2. CASE \E d \in Cache, q \in Page :
                   On(Heap, d, q) /\ u.addr \in Objs(d, q) /\ u.size <= ObjSize[d]
        BY <4>1, <4>2, <3>4, <3>5
      <4>3. CASE \E e \in blocks :
                   /\ u.addr = e.first * PageSize /\ e \in PageAllocator!Block
                   /\ u.size <= PageSize * Size[e.order]
        <5>1. PICK e \in blocks :
                   /\ u.addr = e.first * PageSize /\ e \in PageAllocator!Block
                   /\ u.size <= PageSize * Size[e.order]
          BY <4>3
        <5>2. PageOf(x) \in PageAllocator!Extent(e)  BY <5>1, <4>1, <3>5, BlockBytes
        <5>3. e # b  BY <5>1, <3>1, <4>1
        <5> QED  BY <5>2, <5>3, <3>3, <2>1 DEF BlocksOK
      <4> QED  BY <4>2, <4>3, HeldIs DEF out
    <3>6. ASSUME NEW a \in Headers, NEW x \in Bytes(o.addr, o.size), x \in Bytes(a, HeaderSize)
          PROVE  FALSE
      <4>1. PICK d \in Cache, q \in Page :
              On(Heap, d, q) /\ a = slab[q].header /\
              IF d \in OffSlab
              THEN /\ a \in OffHeaders(Heap) /\ PageOf(a) \in Page
                   /\ On(Heap, HeaderCache, PageOf(a)) /\ a \in Objs(HeaderCache, PageOf(a))
              ELSE a = q * PageSize
        BY HeadersAre
      <4>2. HeaderSize \in Nat /\ HeaderCache \in Cache  BY Sizes
      <4>3. CASE d \in OffSlab
        <5>1. HeaderSize <= ObjSize[HeaderCache]  BY <4>2, <2>2
        <5> QED  BY <4>1, <4>2, <4>3, <5>1, <3>4, <3>6
      <4>4. CASE d \notin OffSlab
        <5>1. a = q * PageSize /\ a \in Nat  BY <4>1, <4>4, FirstObjFacts
        <5>2. x \in Nat /\ a <= x /\ x < a + HeaderSize  BY <5>1, <4>2, <3>6, BytesIn
        <5>3. HeaderSize <= PageSize /\ PageSize \in Nat
          <6>1. MaxObjs(d) * ObjSize[d] <= PageSize - HeaderSize  BY <4>4, MaxObjsFacts
          <6>2. MaxObjs(d) * ObjSize[d] \in Nat  BY MaxObjsFacts, Sizes, MulNat
          <6> QED  BY <6>1, <6>2, Sizes
        <5>4. PageOf(x) = q
          BY <5>1, <5>2, <5>3, <4>2, PageOfFact
        <5> QED  BY <5>4, <4>1, <3>3
      <4> QED  BY <4>3, <4>4
    <3>7. ASSUME NEW x \in Bytes(o.addr, o.size), x \in links  PROVE FALSE
      <4>1. PICK d \in Cache, q \in Page : On(Heap, d, q) /\ x \in Objs(d, q)
        BY <3>7, <2>5
      <4>2. 0 \in Nat /\ 0 <= ObjSize[d]  BY <2>2
      <4> QED  BY <4>1, <4>2, <3>4
    <3>8. \E e \in blocks : \A x \in Bytes(o.addr, o.size) :
            PageOf(x) \in PageAllocator!Extent(e)
      BY <3>3
    <3> QED  BY <3>5, <3>6, <3>7, <3>8
  <2> QED  BY <2>6, <2>7, HeldIs DEF out
<1> QED  BY <1>1, HeapInvariant, PTL
==============================================================================
