---------------------------- MODULE MCKernelHeap ----------------------------
(* KernelHeap with pages of 16 bytes and caches of 4, 6 (both on-slab) and 8 *)
EXTENDS KernelHeap

ObjSizes  == <<4, 6, 8>>
PageSizes == [k \in 0..Orders - 1 |-> 2^k]
=============================================================================
