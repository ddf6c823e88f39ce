---------------------------- MODULE VirtualMemory ----------------------------
(* What the page tables are for: each address space is a partial map from    *)
(* virtual to physical pages.  A page that is mapped is never mapped again   *)
(* before it is unmapped, and no operation touches two spaces.               *)
EXTENDS Naturals

CONSTANTS
  Space,     \* the address spaces
  VPage,     \* virtual pages
  Unmapped   \* no physical page

VARIABLE mapping  \* mapping[s][v]: the physical page at v in s, or Unmapped

Nothing == [v \in VPage |-> Unmapped]

Init == mapping = [s \in Space |-> Nothing]

Only(s) == \A t \in Space \ {s} : mapping'[t] = mapping[t]

\* n pages from v on become consecutive physical pages, from p on.
Map(s, v, p, n) ==
  LET range == v..v + n - 1
  IN  /\ \A w \in range : mapping[s][w] = Unmapped
      /\ mapping' = [mapping EXCEPT ![s] =
                       [w \in VPage |-> IF w \in range THEN p + (w - v) ELSE @[w]]]

\* The page at v in s appears at w in t as well.
Share(s, t, v, w) ==
  /\ mapping[s][v] # Unmapped /\ mapping[t][w] = Unmapped
  /\ mapping' = [mapping EXCEPT ![t][w] = mapping[s][v]]

Unmap(s, v) ==
  /\ mapping[s][v] # Unmapped
  /\ mapping' = [mapping EXCEPT ![s][v] = Unmapped]

\* A new space, in which exactly the given pages are mapped, each to its own
Create(s, pages) ==
  /\ mapping[s] = Nothing /\ Only(s)
  /\ \A v \in VPage : mapping'[s][v] # Unmapped <=> v \in pages
  /\ \A v, w \in pages : v # w => mapping'[s][v] # mapping'[s][w]

Destroy(s) == mapping' = [mapping EXCEPT ![s] = Nothing]
==============================================================================
