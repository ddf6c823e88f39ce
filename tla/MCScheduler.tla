---------------------------- MODULE MCScheduler ----------------------------
(* Instances of Scheduler for TLC: idle threads are model values, processes *)
(* are named by their pid, and priorities 16, 20 and 31 become 0, 1, ...    *)
EXTENDS Scheduler, TLC

CONSTANTS i0, i1

IdleUP  == (0 :> i0)
IdleSMP == (0 :> i0) @@ (1 :> i1)

\* SHELL above WORKER, as kmain spawns them
PriorityUP  == (1 :> 0) @@ (2 :> 1) @@ (i0 :> 2)
PrioritySMP == PriorityUP @@ (i1 :> 2)
\* ... and a third process beside WORKER, to have a circle of two
PriorityPeers == (1 :> 0) @@ (2 :> 1) @@ (3 :> 1) @@ (i0 :> 2)

\* ... and one below them, above the idle thread
PriorityBelow == (1 :> 0) @@ (2 :> 1) @@ (3 :> 1) @@ (4 :> 2) @@ (i0 :> 3)

SliceUP    == (1 :> 1) @@ (2 :> 2) @@ (i0 :> 2)
SliceSMP   == SliceUP @@ (i1 :> 2)
SlicePeers == (1 :> 1) @@ (2 :> 2) @@ (3 :> 2) @@ (i0 :> 2)
SliceBelow == SlicePeers @@ (4 :> 2)

\* The first two make every call; of the others one never blocks, or both.
FewCalls == (1 :> Call) @@ (2 :> Call) @@ (3 :> {"yield", "exit"}) @@ (4 :> {"exit"})
\* What the two programs call, and exit and yield besides
ProgramCalls == (1 :> {"read", "recv", "yield", "exit"}) @@ (2 :> {"send", "sleep", "exit"})
=============================================================================
