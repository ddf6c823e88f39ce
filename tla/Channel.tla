------------------------------ MODULE Channel ------------------------------
(* What a mailbox promises: every receiver has room for one message; what is *)
(* put there stays until the receiver gets it, and the receiver gets it once. *)
CONSTANTS
  Receiver,
  Message,
  Null

VARIABLES
  slot,   \* slot[r]: the message r has yet to get, or Null
  got     \* got[r]: the last one it got

Init ==
  /\ slot = [r \in Receiver |-> Null]
  /\ got = [r \in Receiver |-> Null]

Put(r, m) ==
  /\ slot[r] = Null
  /\ slot' = [slot EXCEPT ![r] = m]
  /\ UNCHANGED got

Get(r) ==
  /\ slot[r] # Null
  /\ slot' = [slot EXCEPT ![r] = Null]
  /\ got' = [got EXCEPT ![r] = slot[r]]

Next == \E r \in Receiver : Get(r) \/ \E m \in Message : Put(r, m)

Spec == Init /\ [][Next]_<<slot, got>>
=============================================================================
