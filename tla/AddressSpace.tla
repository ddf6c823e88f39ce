---------------------------- MODULE AddressSpace ----------------------------
(***************************************************************************)
(* The page tables of RexOS: kvm_map, uvm_map, create_user_table,          *)
(* uvm_translate, uvm_unmap and uvm_free of kernel/vm.c, kvm_init, the     *)
(* spaces spawn_process builds, and the calls that share pages (main.c,    *)
(* calls 15 and 16), up to the cleaner's release of a dead process.        *)
(*                                                                         *)
(* Addresses count pages, not bytes: every range the kernel maps starts    *)
(* and ends on a page boundary (vm.c:197 relies on that for _bss_end).     *)
(* One hart: a call is one step.  kalloc gives the lowest block that fits. *)
(***************************************************************************)
EXTENDS Integers, Sequences, SequencesExt, Bitwise

CONSTANTS
  Fanout,      \* entries of a table: 512
  RamStart, PoolStart, RamEnd,  \* the kernel's own pages are before PoolStart
  Layouts,     \* sequences of ranges kvm_init maps, [first, pages]
  Proc,        \* the processes kmain spawns, in this order
  ElfPages,    \* pages of a process's segment, rounded up to a block
  CapPages,    \* pages of a capability_root: 4
  StackPage,   \* the virtual page of the user stack, 0x7FFFF
  MayShare,    \* pairs of processes: the first has right 4 on the second
  From, To,    \* virtual pages that calls 15 and 16 take from, and 15 maps
  PageBits     \* what bits 10 to 31 of the permissions of call 15 may be

Index    == 0..Fanout - 1
Span(l)  == Fanout^l
VPage    == 0..Span(3) - 1
Pool     == PoolStart..RamEnd - 1
Unmapped == -1

Kernel         == "kernel"
Space          == {Kernel} \cup Range(Proc)
TrampolinePage == Span(3) - 1
KstackPage     == Span(3) - 2

ASSUME SpaceAssumption ==
  /\ Fanout \in Nat \ {0} /\ ElfPages \in Nat \ {0} /\ CapPages \in Nat \ {0}
  /\ RamStart < PoolStart /\ PoolStart < RamEnd
  /\ StackPage \in VPage /\ From \cup To \subseteq VPage /\ PageBits \subseteq Nat
  /\ MayShare \subseteq Range(Proc) \X Range(Proc) /\ Kernel \notin Range(Proc)

VARIABLES
  layout,  \* the ranges still to be mapped by kvm_init, and before them all
  table,   \* table[p]: the entries of page p, for the pages used as tables
  used,    \* the blocks handed out by kalloc, [first, size]
  root,    \* root[s]: the page satp points to, or Unmapped
  kstack,  \* kstack[s]: process.kstack
  capability_root,  \* capability_root[s]: the first of its pages
  state,   \* "unborn", "live", "zombie" or "gone"
  lost,    \* history: blocks whose last user mapping call 16 removed
  shared,  \* history: a process was released while another had a page of a
           \* block that it had a page of
  foreign, \* history: call 15 mapped a page that was not the caller's to
           \* share, or call 16 unmapped one that is not for the user
  panic,   \* the argument of kpanic, or 0
  mapping  \* history: what the tables translate to, in every space

vars == <<layout, table, used, root, kstack, capability_root, state, lost, shared, foreign, panic, mapping>>

NoEntry == [valid |-> FALSE, leaf |-> FALSE, user |-> FALSE, page |-> 0]
Empty   == [i \in Index |-> NoEntry]

\* What an operation on the tables works on, so that operations can be chained
Memory == [table |-> table, used |-> used, panic |-> panic]

Init ==
  /\ layout \in {[todo |-> l, all |-> l] : l \in Layouts}
  /\ table = <<>> /\ used = {} /\ lost = {} /\ shared = FALSE /\ foreign = FALSE /\ panic = 0
  /\ root = [s \in Space |-> Unmapped]
  /\ kstack = [s \in Space |-> Unmapped]
  /\ capability_root = [s \in Space |-> Unmapped]
  /\ state = [s \in Space |-> "unborn"]
  /\ mapping = [s \in Space |-> [v \in VPage |-> Unmapped]]

-----------------------------------------------------------------------------
(* kalloc and kfree *)

Extent(b) == b.first..b.first + b.size - 1
Taken(m)  == UNION {Extent(b) : b \in m.used}
IsHead(m, p) == \E b \in m.used : b.first = p

Fits(m, n) ==
  LET taken == Taken(m)
  IN  {p \in Pool : p % n = 0 /\ p + n <= RamEnd /\ (p..p + n - 1) \cap taken = {}}

\* The block of n pages kalloc gives next
NextBlock(m, n) == IF Fits(m, n) = {} THEN Unmapped ELSE Min(Fits(m, n))

Kalloc(m, n) ==
  IF m.panic # 0 THEN m
  ELSE IF Fits(m, n) = {} THEN [m EXCEPT !.panic = 101]
  ELSE [m EXCEPT !.used = @ \cup {[first |-> NextBlock(m, n), size |-> n]}]

\* kpanic(103), or 105 where the free page was merged into a larger block
Kfree(m, p) ==
  IF m.panic # 0 THEN m
  ELSE IF ~IsHead(m, p) THEN [m EXCEPT !.panic = 103]
  ELSE [m EXCEPT !.used = {b \in @ : b.first # p}]

-----------------------------------------------------------------------------
(* kvm_map and uvm_map, which differ in the user bit of the leaves *)

At(v, l) == (v \div Span(l)) % Fanout

\* The largest page that may come next
Level(v, p, n) ==
  Max({l \in 0..2 : n >= Span(l) /\ v % Span(l) = 0 /\ p % Span(l) = 0})

\* The page at t, zeroed, becomes a table: the one for entry i of table up.
AsTable(m, t) == IF m.panic # 0 THEN m ELSE [m EXCEPT !.table = (t :> Empty) @@ @]

Linked(m, up, i, t) ==
  IF m.panic # 0 THEN m
  ELSE [m EXCEPT !.table[up][i] =
          [valid |-> TRUE, leaf |-> FALSE, user |-> FALSE, page |-> t]]

NewTable(m, up, i) ==
  LET t == NextBlock(m, 1) IN Linked(AsTable(Kalloc(m, 1), t), up, i, t)

WithTable(m, up, i) == IF m.table[up][i].valid THEN m ELSE NewTable(m, up, i)

\* Variant: a valid entry is overwritten.
MayMapAlways(entry) == TRUE

MayMap(entry) == ~entry.valid

SetLeaf(m, t, i, p, user) ==
  IF MayMap(m.table[t][i])
  THEN [m EXCEPT !.table[t][i] =
          [valid |-> TRUE, leaf |-> TRUE, user |-> user, page |-> p]]
  ELSE [m EXCEPT !.panic = 107]

\* Map one page of level l, in the table t of level 0, 1 or 2; the tables above
\* the leaf are made first.
MapIn0(m, t, v, p, user) ==
  IF m.panic # 0 THEN m ELSE SetLeaf(m, t, At(v, 0), p, user)

MapIn1(m, t, v, p, l, user) ==
  LET below(d) == MapIn0(d, d.table[t][At(v, 1)].page, v, p, user)
  IN  IF m.panic # 0 THEN m
      ELSE IF l = 1 THEN SetLeaf(m, t, At(v, 1), p, user)
      ELSE below(WithTable(m, t, At(v, 1)))

MapPage(m, t, v, p, l, user) ==
  LET below(d) == MapIn1(d, d.table[t][At(v, 2)].page, v, p, l, user)
  IN  IF m.panic # 0 THEN m
      ELSE IF l = 2 THEN SetLeaf(m, t, At(v, 2), p, user)
      ELSE below(WithTable(m, t, At(v, 2)))

\* The pages, small and large, that n pages from v on are mapped with
Chunks(v, p, n) ==
  LET from[k \in 0..n] ==
        IF k = n THEN <<>>
        ELSE LET l == Level(v + k, p + k, n - k)
             IN  <<[offset |-> k, level |-> l]>> \o from[k + Span(l)]
  IN  from[0]

\* n pages from v on, to those from p on
MapRange(m, r, v, p, n, user) ==
  LET map(d, c) == MapPage(d, r, v + c.offset, p + c.offset, c.level, user)
  IN  IF m.panic # 0 THEN m ELSE FoldLeft(map, m, Chunks(v, p, n))

-----------------------------------------------------------------------------
(* uvm_translate, uvm_unmap, uvm_free *)

\* The entries met on the way to v; the walk stops at a leaf in the kernel's
\* table, the only one with large pages.
Path(tb, r, v) ==
  LET e2 == tb[r][At(v, 2)]
      e1 == tb[e2.page][At(v, 1)]
      e0 == tb[e1.page][At(v, 0)]
  IN  IF ~e2.valid \/ e2.leaf THEN <<e2>>
      ELSE IF ~e1.valid \/ e1.leaf THEN <<e2, e1>>
      ELSE <<e2, e1, e0>>

\* The physical page at v, or Unmapped
Translate(tb, r, v) ==
  IF r = Unmapped THEN Unmapped
  ELSE LET path == Path(tb, r, v)
           e    == Last(path)
       IN  IF e.valid THEN e.page + (v % Span(3 - Len(path))) ELSE Unmapped

\* Only the valid bit is cleared.
ClearValid(tb, r, v) ==
  LET t1 == tb[r][At(v, 2)].page
      t0 == tb[t1][At(v, 1)].page
  IN  [tb EXCEPT ![t0][At(v, 0)].valid = FALSE]

Entries(tb, t) == [i \in 1..Fanout |-> tb[t][i - 1]]

\* What uvm_free gives back, in order: the pages of user leaves, which only go
\* if they head a block, and after them the tables
LeafOf(e)  == [page |-> e.page, leaf |-> TRUE]
TableAt(t) == [page |-> t, leaf |-> FALSE]

\* Variant: the user bit is not looked at.
OwnLeafAny(e) == e.valid /\ e.leaf

OwnLeaf(e) == e.valid /\ e.leaf /\ e.user

LeavesOf(tb, t) ==
  LET leaves == SelectSeq(Entries(tb, t), OwnLeaf)
  IN  [i \in DOMAIN leaves |-> LeafOf(leaves[i])]

\* Variant: the tables of the last level are kept.
Released0NoTable(tb, t) == LeavesOf(tb, t)

Released0(tb, t) == Append(LeavesOf(tb, t), TableAt(t))

Released1(tb, t) ==
  LET below(e) == IF e.valid /\ ~e.leaf THEN Released0(tb, e.page) ELSE
                  IF OwnLeaf(e) THEN <<LeafOf(e)>> ELSE <<>>
      rows == Entries(tb, t)
  IN  Append(FlattenSeq([i \in DOMAIN rows |-> below(rows[i])]), TableAt(t))

Released(tb, r) ==
  LET below(e) == IF e.valid /\ ~e.leaf THEN Released1(tb, e.page) ELSE
                  IF OwnLeaf(e) THEN <<LeafOf(e)>> ELSE <<>>
      rows == Entries(tb, r)
  IN  Append(FlattenSeq([i \in DOMAIN rows |-> below(rows[i])]), TableAt(r))

UvmFree(m, r) ==
  LET give(d, x) == IF x.leaf /\ ~IsHead(d, x.page) THEN d ELSE Kfree(d, x.page)
  IN  FoldLeft(give, m, Released(m.table, r))

-----------------------------------------------------------------------------
SetMemory(m) == table' = m.table /\ used' = m.used /\ panic' = m.panic

\* kvm_init maps the next range of the kernel to itself, the last one being the
\* trampoline; the first call takes the page of the root table.
KvmInit ==
  /\ panic = 0 /\ layout.todo # <<>>
  /\ LET new == root[Kernel] = Unmapped
         r   == IF new THEN NextBlock(Memory, 1) ELSE root[Kernel]
         m   == IF new THEN AsTable(Kalloc(Memory, 1), r) ELSE Memory
         x   == Head(layout.todo)
     IN  /\ SetMemory(MapRange(m, r, x.first, x.to, x.pages, FALSE))
         /\ root' = [root EXCEPT ![Kernel] = r]
  /\ layout' = [layout EXCEPT !.todo = Tail(@)]
  /\ state' = [state EXCEPT ![Kernel] = "live"]
  /\ UNCHANGED <<kstack, capability_root, lost, shared, foreign>>

\* n pages kalloc gives become the n pages from v on, for the user.
MapNew(m, r, v, n) == MapRange(Kalloc(m, n), r, v, NextBlock(m, n), n, TRUE)

\* create_user_table, with the root in page r
UserTable(m, r, ks, trampoline) ==
  LET d == MapRange(AsTable(m, r), r, TrampolinePage, trampoline, 1, FALSE)
  IN  MapRange(d, r, KstackPage, ks, 1, FALSE)

\* spawn_process: kernel stack, create_user_table, the segment, the user stack,
\* the capabilities.  (The struct process is an object of the kernel heap.)
Spawn(i) ==
  LET s   == Proc[i]
      ks  == NextBlock(Memory, 1)
      m   == Kalloc(Memory, 1)
      r   == NextBlock(m, 1)
      tbl == UserTable(Kalloc(m, 1), r, ks, layout.all[Len(layout.all)].to)
      mem == MapNew(MapNew(tbl, r, 0, ElfPages), r, StackPage, 1)
  IN  /\ panic = 0 /\ layout.todo = <<>> /\ state[s] = "unborn"
      /\ \A j \in 1..i - 1 : state[Proc[j]] # "unborn"
      /\ SetMemory(Kalloc(mem, CapPages))
      /\ root' = [root EXCEPT ![s] = r]
      /\ kstack' = [kstack EXCEPT ![s] = ks]
      /\ capability_root' = [capability_root EXCEPT ![s] = NextBlock(mem, CapPages)]
      /\ state' = [state EXCEPT ![s] = "live"]
      /\ UNCHANGED <<layout, lost, shared, foreign>>

Booted == \A s \in Range(Proc) : state[s] # "unborn"
\* Nothing is modelled after a call has shared or unmapped what is not its
\* user's: the kernel's stack or code may then be changed or missing.
Runs(s) == panic = 0 /\ ~foreign /\ Booted /\ state[s] = "live"

\* get_process_by_pid finds no zombie.
Allowed(s, t) == state[t] = "live" /\ (s = t \/ <<s, t>> \in MayShare)

\* v is mapped in s by an entry without the user bit: its kernel stack or the
\* trampoline.  Calls 15 and 16 do not look at that bit.
KernelOnly(s, v) == ~Last(Path(table, root[s], v)).user

\* Call 15: the page at a1 in the caller's space also becomes a2 in the target's.
\* uvm_map ORs all of a3 into the entry: bits 10 to 31 into the page's number.
MapShared(s, t, a1, a2, bits) ==
  LET page == Translate(table, root[s], a1)
  IN  /\ Runs(s) /\ Allowed(s, t) /\ page # Unmapped
      /\ SetMemory(MapRange(Memory, root[t], a2, page | bits, 1, TRUE))
      /\ foreign' = (KernelOnly(s, a1) \/ (page | bits) # page)
      /\ UNCHANGED <<layout, root, kstack, capability_root, state, lost, shared>>

Exit(s) ==
  /\ state' = [state EXCEPT ![s] = "zombie"]
  /\ UNCHANGED <<layout, table, used, root, kstack, capability_root, lost, shared, foreign, panic>>

\* Call 15 with a pointer that is not mapped ends the caller, as exit does.
MapSharedFaults(s, a1) ==
  Runs(s) /\ Translate(table, root[s], a1) = Unmapped /\ Exit(s)

ExitCall(s) == Runs(s) /\ Exit(s)

Exists(s) == state[s] \in {"live", "zombie"}

\* The pages s could reach in user mode, with the tables tb
UserPages(tb, s) ==
  IF Exists(s) THEN {x.page : x \in {y \in Range(Released(tb, root[s])) : y.leaf}}
               ELSE {}

\* The blocks they belong to: kfree frees the whole of a block.
UserBlocks(s) == {b \in used : Extent(b) \cap UserPages(table, s) # {}}

\* Call 16
UnmapShared(s, t, a1) ==
  /\ Runs(s) /\ Allowed(s, t)
  /\ LET p == Translate(table, root[t], a1)
     IN  /\ p # Unmapped
         /\ table' = ClearValid(table, root[t], a1)
         /\ lost' = lost \cup {b \in used : b.first = p /\
                               \A u \in Range(Proc) : p \notin UserPages(table', u)}
  /\ foreign' = KernelOnly(t, a1)
  /\ UNCHANGED <<layout, used, root, kstack, capability_root, state, shared, panic>>

\* orphan_cleaner: uvm_free, then the kernel stack and the capabilities
Clean(s) ==
  /\ panic = 0 /\ ~foreign /\ state[s] = "zombie"
  /\ SetMemory(Kfree(Kfree(UvmFree(Memory, root[s]), kstack[s]), capability_root[s]))
  /\ state' = [state EXCEPT ![s] = "gone"]
  /\ shared' = (shared \/ \E u \in Range(Proc) \ {s} :
                            UserBlocks(s) \cap UserBlocks(u) # {})
  /\ UNCHANGED <<layout, root, kstack, capability_root, lost, foreign>>

\* What the tables say, with large pages and all levels taken into account
Mapping ==
  [s \in Space |-> [v \in VPage |->
     IF Exists(s) THEN Translate(table, root[s], v) ELSE Unmapped]]

Step ==
  \/ KvmInit
  \/ \E i \in DOMAIN Proc : Spawn(i)
  \/ \E s, t \in Range(Proc), a1 \in From, a2 \in To, bits \in PageBits :
       MapShared(s, t, a1, a2, bits)
  \/ \E s \in Range(Proc), a1 \in From : MapSharedFaults(s, a1)
  \/ \E s, t \in Range(Proc), a1 \in From : UnmapShared(s, t, a1)
  \/ \E s \in Range(Proc) : ExitCall(s) \/ Clean(s)

Next == Step /\ mapping' = Mapping'

Spec == Init /\ [][Next]_vars

-----------------------------------------------------------------------------
Entry == [valid : BOOLEAN, leaf : BOOLEAN, user : BOOLEAN, page : Nat]

TypeOK ==
  /\ \A i \in DOMAIN layout.todo : layout.todo[i] \in Range(layout.all)
  /\ DOMAIN table \subseteq Pool /\ \A t \in DOMAIN table : table[t] \in [Index -> Entry]
  /\ used \subseteq [first : Pool, size : {1, ElfPages, CapPages}] /\ lost \subseteq used
  /\ root \in [Space -> Pool \cup {Unmapped}]
  /\ kstack \in [Space -> Pool \cup {Unmapped}]
  /\ capability_root \in [Space -> Pool \cup {Unmapped}]
  /\ state \in [Space -> {"unborn", "live", "zombie", "gone"}]
  /\ shared \in BOOLEAN /\ foreign \in BOOLEAN
  /\ panic \in {0, 101, 103, 107}

VM == INSTANCE VirtualMemory

StartPages == {TrampolinePage, KstackPage, StackPage} \cup 0..ElfPages - 1

\* The three-level tables are maps from pages to pages: a range mapped by
\* kvm_map with any mix of page sizes translates to consecutive pages and to
\* nothing else, a call that shares a page gives the target the caller's page
\* and changes nothing else, an unmapped page is gone and its neighbours in the
\* same table are not (vm.c:44-161, 488-604, 682-730).  Only where the permissions
\* of call 15 have bits of a page number is it another page that is mapped.
ImplementsVirtualMemory ==
  /\ VM!Init
  /\ [][\/ \E x \in Range(layout.all) : VM!Map(Kernel, x.first, x.to, x.pages)
        \/ \E s \in Space : VM!Create(s, StartPages) \/ VM!Destroy(s)
        \/ \E s, t \in Range(Proc), a1 \in From, a2 \in To : VM!Share(s, t, a1, a2)
        \/ \E s, t \in Range(Proc), a1 \in From, a2 \in To, bits \in PageBits :
             foreign' /\ VM!Map(t, a2, mapping[s][a1] | bits, 1)
        \/ \E s \in Range(Proc), a1 \in From : VM!Unmap(s, a1)]_mapping

\* Everything uvm_free would meet: the tables and user leaves of every space
Nodes ==
  LET of(s) == LET o == Released(table, root[s])
               IN  {[space |-> s, pos |-> i, page |-> o[i].page, leaf |-> o[i].leaf] :
                      i \in DOMAIN o}
  IN  UNION {of(s) : s \in {t \in Space : Exists(t)}}

\* The kernel's own pages of a process
KernelPages ==
  UNION {{kstack[s], capability_root[s]} : s \in {t \in Range(Proc) : Exists(t)}}

\* No two spaces have a table in common, every table is in its tree once, no
\* process can reach a table, a kernel stack or capabilities in user mode, and
\* all are in use: uvm_free, which takes what it finds for its own (vm.c:620-
\* 680), frees nothing of another's.  That ends once a process is released while
\* another has a page of one of its blocks, or call 15, which checks neither the
\* user bit of its source nor the bits of a3, maps a page that is not the
\* caller's to share.
Isolated ==
  LET nodes  == Nodes
      tables == {n \in nodes : ~n.leaf}
      pages  == {n.page : n \in nodes}
  IN  \/ shared \/ foreign \/ panic = 101
      \/ /\ \A n, o \in tables : n.page = o.page => n = o
         /\ {n.page : n \in nodes \ tables} \cap
              ({n.page : n \in tables} \cup KernelPages) = {}
         /\ pages \cup KernelPages \subseteq Taken(Memory)

\* Every block kalloc gave is still reachable from a process or from the kernel's
\* table; the only way to lose one is to unmap a page by call 16 in the last
\* space that has it.  So a process that ends gives back all it had.
NothingLeaks ==
  \/ shared \/ panic # 0
  \/ {b.first : b \in used \ lost} \subseteq {n.page : n \in Nodes} \cup KernelPages

\* kfree asserts that what it is given heads a block in use (kalloc.c:115-118).
NoBadFree == panic # 103
=============================================================================
