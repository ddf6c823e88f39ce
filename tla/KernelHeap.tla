------------------------------ MODULE KernelHeap ------------------------------
(***************************************************************************)
(* The kernel heap of RexOS, the slab caches of kernel/vm.c.               *)
(*                                                                         *)
(* Addresses are bytes.  A slab is a page cut into objects of one cache;   *)
(* its struct slab is at the base of the page for small objects and is an  *)
(* object of HeaderCache for large ones.  A slab is named by its page, and *)
(* a list linked through next and prev is a sequence of slabs, head first. *)
(* kvmalloc and kvmfree hold kvmalloc_lock throughout: each is one step.   *)
(* Pages come from kalloc, of which only the promise in Allocator is used. *)
(***************************************************************************)
EXTENDS Integers, Sequences, Functions, Lists

CONSTANTS
  Pages,        \* pages of RAM kalloc can give
  Orders,       \* orders of its blocks, MAX_ORDER
  Size,         \* Size[k]: 1 << k, the pages in a block of order k
  PageSize,     \* 4096
  HeaderSize,   \* sizeof(struct slab), 64
  ObjSize,      \* aligned_size of each cache, smallest first: 16 to 2048
  MaxOnSlab,    \* larger objects have flag 1, off-slab: 512
  HeaderCache,  \* the index of the cache of struct slab: 2
  Request       \* sizes callers ask for

Cache     == DOMAIN ObjSize
Page      == 0..Pages - 1
Order     == 0..Orders - 1
OffSlab   == {c \in Cache : ObjSize[c] > MaxOnSlab}
PageOf(a) == a \div PageSize

MaxObjs(c) ==
  IF c \in OffSlab THEN PageSize \div ObjSize[c]
                   ELSE (PageSize - HeaderSize) \div ObjSize[c]

ASSUME HeapAssumption ==
  /\ Pages \in Nat /\ Orders \in Nat \ {0} /\ PageSize \in Nat \ {0}
  /\ Size \in [Order -> Nat \ {0}] /\ Size[0] = 1
  /\ ObjSize \in Seq(Nat \ {0}) /\ Request \subseteq Nat \ {0}
  /\ \A c, d \in Cache : c < d => ObjSize[c] < ObjSize[d]
  /\ HeaderCache \in Cache \ OffSlab /\ ObjSize[HeaderCache] = HeaderSize
  /\ \A c \in Cache : MaxObjs(c) > 1

NoHeader == -1

VARIABLES
  list,    \* list[c]: list_full, list_partial and list_empty of cache c
  slab,    \* slab[p]: the struct slab of page p and where it is
  parent,  \* parent[p]: the cache at the base of page p, 0 if there is none
  blocks,  \* the blocks taken from kalloc
  held,    \* history: what callers were handed, with the size they asked for
  panic    \* the argument of kpanic, or 0

vars == <<list, slab, parent, blocks, held, panic>>

PageAllocator == INSTANCE Allocator WITH
  Page <- Page, Order <- Order, Size <- Size, Request <- Order,
  held <- blocks, refused <- {}

\* The part of the state a nested call of kvmem_cache_alloc works on
Heap == [list |-> list, slab |-> slab, parent |-> parent, blocks |-> blocks]

BlockAt(p, k) == [first |-> p, order |-> k]

\* The blocks of order k that kalloc may give
Available(h, k) ==
  {b \in PageAllocator!Block : b.order = k /\
     \A d \in h.blocks : PageAllocator!Extent(b) \cap PageAllocator!Extent(d) = {}}

\* The lists l of a cache, after slab p went from one of them to the head of
\* another
Relinked(l, p, from, to) ==
  [l EXCEPT ![from] = Remove(l[from], p), ![to] = <<p>> \o l[to]]

Init ==
  /\ list = [c \in Cache |-> [full |-> <<>>, partial |-> <<>>, empty |-> <<>>]]
  /\ slab = [p \in Page |-> [active |-> 0, free |-> <<>>, header |-> NoHeader]]
  /\ parent = [p \in Page |-> 0]
  /\ blocks = {}
  /\ held = {}
  /\ panic = 0

-----------------------------------------------------------------------------
(* kvmem_cache_alloc: its outcomes, each a heap and a slot *)

\* Variant: the slab moves to list_full one object early.
IsFullEarly(c, active) == active = MaxObjs(c) - 1

IsFull(c, active) == active = MaxObjs(c)

FromPartial(h, c) ==
  LET p == Head(h.list[c].partial)
      s == h.slab[p]
  IN  [slot |-> Head(s.free),
       heap |-> [h EXCEPT
         !.slab[p].active = s.active + 1,
         !.slab[p].free = Tail(s.free),
         !.list[c] = IF IsFull(c, s.active + 1)
                     THEN Relinked(@, p, "partial", "full") ELSE @]]

FromEmpty(h, c) ==
  LET p == Head(h.list[c].empty)
      s == h.slab[p]
  IN  [slot |-> Head(s.free),
       heap |-> [h EXCEPT
         !.slab[p].active = 1,
         !.slab[p].free = Tail(s.free),
         !.list[c] = Relinked(@, p, "empty", "partial")]]

\* Variant: no room is left for the struct slab on the page.
FirstObjAtBase(c, p) == p * PageSize

FirstObj(c, p) ==
  p * PageSize + (IF c \in OffSlab THEN 0 ELSE HeaderSize)

\* Page p, cut into objects, with its struct slab at header
NewSlab(h, c, p, header) ==
  [slot |-> FirstObj(c, p),
   heap |-> [h EXCEPT
     !.blocks = @ \cup {BlockAt(p, 0)},
     !.parent[p] = IF c \in OffSlab THEN 0 ELSE c,
     !.slab[p] = [active |-> 1,
                  free |-> [i \in 1..MaxObjs(c) - 1 |->
                              FirstObj(c, p) + i * ObjSize[c]],
                  header |-> header],
     !.list[c].partial = <<p>>]]

\* For a cache whose struct slabs are on the page; no outcome: out of pages
OnSlabAlloc(h, c) ==
  IF h.list[c].partial # <<>> THEN {FromPartial(h, c)}
  ELSE IF h.list[c].empty # <<>> THEN {FromEmpty(h, c)}
  ELSE {NewSlab(h, c, b.first, b.first * PageSize) : b \in Available(h, 0)}

\* For one whose struct slabs come from HeaderCache: the page is taken first.
OffSlabAlloc(h, c) ==
  IF h.list[c].partial # <<>> THEN {FromPartial(h, c)}
  ELSE IF h.list[c].empty # <<>> THEN {FromEmpty(h, c)}
  ELSE UNION {{NewSlab(r.heap, c, b.first, r.slot) :
                 r \in OnSlabAlloc([h EXCEPT !.blocks = @ \cup {b}], HeaderCache)} :
              b \in Available(h, 0)}

CacheAlloc(h, c) ==
  IF c \in OffSlab THEN OffSlabAlloc(h, c) ELSE OnSlabAlloc(h, c)

\* The first cache whose objects are large enough
CacheFor(size) == Least({c \in Cache : ObjSize[c] >= size})

\* The smallest order that holds size bytes; Orders stands for all that kalloc
\* does not have.
OrderFor(size) ==
  Least({k \in Order : PageSize * Size[k] >= size} \cup {Orders})

SmallSize(size) == \E c \in Cache : ObjSize[c] >= size

\* What kvmalloc(size) may do: a slot of a cache or a block of pages
Outcomes(size) ==
  IF SmallSize(size) THEN CacheAlloc(Heap, CacheFor(size))
  ELSE {[slot |-> b.first * PageSize,
         heap |-> [Heap EXCEPT !.blocks = @ \cup {b}]] :
        b \in Available(Heap, OrderFor(size))}

SetHeap(h) ==
  list' = h.list /\ slab' = h.slab /\ parent' = h.parent /\ blocks' = h.blocks

Kvmalloc(size) ==
  /\ panic = 0
  /\ \E r \in Outcomes(size) :
       /\ SetHeap(r.heap)
       /\ held' = held \cup {[addr |-> r.slot, size |-> size]}
  /\ UNCHANGED panic

\* kalloc panics (101, or 100 for an order that does not exist) and the heap
\* stays locked.
KvmallocPanics(size) ==
  /\ panic = 0 /\ Outcomes(size) = {}
  /\ panic' = IF ~SmallSize(size) /\ OrderFor(size) \notin Order THEN 100 ELSE 101
  /\ UNCHANGED <<list, slab, parent, blocks, held>>

-----------------------------------------------------------------------------
(* kvmfree *)

\* The slot goes back on the chain of its slab.
PutBack(h, p, slot) ==
  [h EXCEPT !.slab[p].active = @ - 1, !.slab[p].free = <<slot>> \o @]

Move(h, c, p, from, to) == [h EXCEPT !.list[c] = Relinked(@, p, from, to)]

\* The slab is found through the base of its page.
FreeOnSlab(h, c, p, slot) ==
  LET g == PutBack(h, p, slot)
  IN  CASE g.slab[p].active = MaxObjs(c) - 1 -> Move(g, c, p, "full", "partial")
        [] g.slab[p].active = 0              -> Move(g, c, p, "partial", "empty")
        [] OTHER                             -> g

FoundIn(h, c, p, name) == p \in Range(h.list[c][name])

\* Variant: only full slabs are searched.
OwnersFullOnly(h, p) == {c \in OffSlab : FoundIn(h, c, p, "full")}

\* The off-slab caches in whose full or partial list the page is found
Owners(h, p) ==
  {c \in OffSlab : FoundIn(h, c, p, "full") \/ FoundIn(h, c, p, "partial")}

FreeOffSlab(h, c, p, slot) ==
  LET g == PutBack(h, p, slot)
  IN  IF FoundIn(h, c, p, "full") THEN Move(g, c, p, "full", "partial")
      ELSE IF g.slab[p].active = 0 THEN Move(g, c, p, "partial", "empty")
      ELSE g

\* kfree(base_addr): the block that starts there
FreeBlock(h, p) == [h EXCEPT !.blocks = {b \in @ : b.first # p}]

Freed(h, slot) ==
  LET p == PageOf(slot)
  IN  IF h.parent[p] # 0 THEN FreeOnSlab(h, h.parent[p], p, slot)
      ELSE IF Owners(h, p) # {}
      THEN FreeOffSlab(h, CHOOSE c \in Owners(h, p) : TRUE, p, slot)
      ELSE FreeBlock(h, p)

Kvmfree(o) ==
  /\ panic = 0
  /\ SetHeap(Freed(Heap, o.addr))
  /\ held' = held \ {o}
  /\ UNCHANGED panic

Next ==
  \/ \E size \in Request : Kvmalloc(size) \/ KvmallocPanics(size)
  \/ \E o \in held : Kvmfree(o)

Spec == Init /\ [][Next]_vars

-----------------------------------------------------------------------------
Address == 0..Pages * PageSize - 1
IsSlab(p) == slab[p].header # NoHeader
Headers == {slab[p].header : p \in {q \in Page : IsSlab(q)}}
OffSlabHeaders == {a \in Headers : a % PageSize # 0}

TypeOK ==
  /\ list \in [Cache -> [full : Seq(Page), partial : Seq(Page), empty : Seq(Page)]]
  /\ slab \in [Page -> [active : Nat, free : Seq(Address),
                        header : Address \cup {NoHeader}]]
  /\ parent \in [Page -> {0} \cup (Cache \ OffSlab)]
  /\ blocks \subseteq PageAllocator!Block
  /\ held \subseteq [addr : Address, size : Request]
  /\ panic \in {0, 100, 101}

Bytes(a, size) == a..(a + size - 1)

\* What callers hold never overlaps: not with another object, whatever the
\* caches and blocks the two come from, not with a struct slab, wherever that
\* is, and not with the chain of free slots (vm.c:258-290, 296-341); and it is
\* within the blocks the heap has from kalloc.
NoOverlap ==
  LET links == UNION {{slab[p].free[i] : i \in DOMAIN slab[p].free} : p \in Page}
  IN  \A o \in held :
        /\ \A u \in held : u # o =>
             Bytes(o.addr, o.size) \cap Bytes(u.addr, u.size) = {}
        /\ \A a \in Headers :
             Bytes(o.addr, o.size) \cap Bytes(a, HeaderSize) = {}
        /\ Bytes(o.addr, o.size) \cap links = {}
        /\ \E b \in blocks : \A a \in Bytes(o.addr, o.size) :
             PageOf(a) \in PageAllocator!Extent(b)

\* Where a slab is linked is decided by active_obj_count alone, and every count
\* is exact: an object is either live, in a caller's hands or a struct slab, or
\* on its slab's chain, once.  (The two disagreeing is a slab that is in no
\* list, or list_partial with nothing to give: vm.c:258-290, 385-417.)
ListsExact ==
  \A c \in Cache : \A p \in Page :
    LET s     == slab[p]
        in(n) == FoundIn(Heap, c, p, n)
        live  == {a \in {o.addr : o \in held} \cup OffSlabHeaders : PageOf(a) = p}
        objs  == {FirstObj(c, p) + i * ObjSize[c] : i \in 0..MaxObjs(c) - 1}
        free  == {s.free[i] : i \in DOMAIN s.free}
    IN  in("full") \/ in("partial") \/ in("empty") =>
          /\ in("full") <=> s.active = MaxObjs(c)
          /\ in("empty") <=> s.active = 0
          /\ in("partial") <=> s.active \in 1..MaxObjs(c) - 1
          /\ Len(s.free) = MaxObjs(c) - s.active
          /\ free \cap live = {} /\ free \cup live = objs

\* kvmfree tells a slab's object from a block of pages by looking (vm.c:374-
\* 483): pages go back to kalloc only with the block a caller was given whole,
\* and a slab, once made, stays one.
OnlyBlocksGoBack ==
  [][\A b \in blocks \ blocks' :
       \E o \in held \ held' :
         /\ o.addr = b.first * PageSize
         /\ ~SmallSize(o.size) /\ b.order = OrderFor(o.size)]_vars
=============================================================================
