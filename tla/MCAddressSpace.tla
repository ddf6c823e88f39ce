--------------------------- MODULE MCAddressSpace ---------------------------
(* AddressSpace with tables of four entries: large pages of 4 and 16 pages *)
EXTENDS AddressSpace

Procs == <<"shell", "worker">>
Share == {<<"shell", "worker">>}

Same(first, pages) == [first |-> first, to |-> first, pages |-> pages]

\* uart, clint, plic, the four kernel sections, the rest of RAM, the trampoline
Machine(clint, plic, plicPages) ==
  <<Same(0, 1), Same(clint, 2), Same(plic, plicPages),
    Same(16, 1), Same(17, 1), Same(18, 1), Same(19, 1), Same(20, RamEnd - 20),
    [first |-> 63, to |-> 16, pages |-> 1]>>

\* A PLIC that needs pages of both sizes, and one that is all large pages
Machines == {Machine(14, 3, 10), Machine(1, 4, 8)}
=============================================================================
