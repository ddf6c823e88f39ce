------------------------------ MODULE KeyQueue ------------------------------
(* What a console promises: the keys on the line reach the reader in the order *)
(* they were typed, each once.  A reader that is slow loses keys, but only ones *)
(* that a later key replaced, or that found the line full.  Of some keys      *)
(* nothing is promised: they may be lost, with the last key that was kept.    *)
EXTENDS Integers, Sequences

CONSTANTS
  Key,
  Unkept  \* keys that may be lost

VARIABLES
  line,   \* keys typed that the kernel has not seen
  queue   \* keys the kernel keeps for the reader, the one it has been given first

Init == line = <<>> /\ queue = <<>>

Type(k) == line' = Append(line, k) /\ UNCHANGED queue

Kept == [i \in 1..Len(queue) - 1 |-> queue[i]]

Arrive ==
  /\ line # <<>> /\ line' = Tail(line)
  /\ \/ queue' = Append(queue, Head(line))
     \/ queue # <<>> /\ queue' = Append(Kept, Head(line))
     \/ Head(line) \in Unkept /\ (queue' = queue \/ queue' = Kept)

Get ==
  /\ queue # <<>>
  /\ queue' = Tail(queue)
  /\ UNCHANGED line

Next == (\E k \in Key : Type(k)) \/ Arrive \/ Get

Spec == Init /\ [][Next]_<<line, queue>>
=============================================================================
