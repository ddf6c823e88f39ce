------------------------------- MODULE Lists -------------------------------
(* The kernel's linked lists as sequences, head first, and its searches for  *)
(* the first or last that will do.                                           *)
EXTENDS Integers, Sequences

\* Variant: the head goes, whichever element was meant.
RemoveHead(s, t) == Tail(s)

\* Unlink t, by its prev and next, from a list that holds it once.  On a circle
\* the order of the others and the head (or its successor, when t is the head)
\* stay.
Remove(s, t) ==
  LET k == CHOOSE i \in DOMAIN s : s[i] = t
  IN  [i \in 1..Len(s) - 1 |-> IF i < k THEN s[i] ELSE s[i + 1]]

Least(S)    == CHOOSE i \in S : \A j \in S : i <= j
Greatest(S) == CHOOSE i \in S : \A j \in S : i >= j
=============================================================================
