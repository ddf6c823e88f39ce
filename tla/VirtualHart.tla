---------------------------- MODULE VirtualHart ----------------------------
(* What the kernel makes of one hart: every process has registers of its own, *)
(* which only its own instructions, and the results of its own calls, change; *)
(* and a process that waits in a call executes nothing until it is answered.  *)
EXTENDS Integers

CONSTANTS Proc, Length, Value, Null

VARIABLES
  file,     \* file[p]: the registers of process p, [pc, a0]
  user,     \* the process in whose name the hart is in user mode, or Null
  calling,  \* the process whose call the kernel is at, or Null
  waits     \* the processes that wait in a call

Init ==
  /\ user = Null /\ calling = Null /\ waits = {}
  /\ file \in [Proc -> [pc : 0..Length - 1, a0 : Value]]

Advance(n) == (n + 1) % Length

Enter(p) ==
  /\ user = Null /\ calling = Null
  /\ user' = p /\ UNCHANGED <<file, calling, waits>>

Compute(p) ==
  /\ user = p /\ p \notin waits
  /\ file' = [file EXCEPT ![p].pc = Advance(@)]
  /\ UNCHANGED <<user, calling, waits>>

Trap == user # Null /\ user' = Null /\ calling' = Null /\ UNCHANGED <<file, waits>>

Call(p) ==
  /\ user = p /\ p \notin waits
  /\ user' = Null /\ calling' = p /\ UNCHANGED <<file, waits>>

\* The call returns, and may let one other process go on with its own; or it
\* waits, at the call or behind it.
Return ==
  /\ calling # Null /\ calling' = Null
  /\ \E v \in Value :
       file' = [file EXCEPT ![calling] = [pc |-> Advance(@.pc), a0 |-> v]]
  /\ waits' = waits \/ \E p \in waits : waits' = waits \ {p}
  /\ UNCHANGED user

Wait ==
  /\ calling # Null /\ calling' = Null
  /\ \E n \in {file[calling].pc, Advance(file[calling].pc)} :
       file' = [file EXCEPT ![calling].pc = n]
  /\ waits' = waits \cup {calling}
  /\ UNCHANGED user

Answer(p) ==
  /\ user = Null /\ calling = Null /\ p \in waits
  /\ \E v \in Value : file' = [file EXCEPT ![p].a0 = v]
  /\ waits' = waits \ {p}
  /\ UNCHANGED <<user, calling>>

Next ==
  \/ Trap \/ Return \/ Wait
  \/ \E p \in Proc : Enter(p) \/ Compute(p) \/ Call(p) \/ Answer(p)

Spec == Init /\ [][Next]_<<file, user, calling, waits>>
=============================================================================
