-------------------------- MODULE SystemCallProofs --------------------------
(***************************************************************************)
(* Theorems about the system calls on top of Scheduler.                    *)
(*                                                                         *)
(* About Ipc, on a machine with one hart, for any processes, any messages  *)
(* and any rights.  About Console: about its keys on a machine with one    *)
(* hart, for any processes, and about the shell's line on any number of    *)
(* harts.                                                                  *)
(***************************************************************************)
EXTENDS Ipc, Console, SchedulerProofs

(***************************************************************************)
(* Ipc                                                                     *)
(***************************************************************************)

\* Between the look at mailbox_status and what a call does about it, the hart
\* does nothing else, so what it saw still holds.
CallInv ==
  LET p == curr[Boot]
      q == Target(Boot)
  IN
  /\ doing[Boot] \in {"put", "wait"} => Syscall(Boot, "send")
  /\ doing[Boot] \in {"take", "sleep"} => Syscall(Boot, "recv")
  /\ doing[Boot] \in {"put", "wait", "flag"} => p \in Proc /\ sending[p] # Null
  /\ doing[Boot] = "put" => ~full[q]
  /\ doing[Boot] = "wait" => full[q]
  /\ doing[Boot] = "flag" => state[q] # "recv" /\ mailbox[q] # Null
  /\ doing[Boot] = "take" => full[p]
  /\ doing[Boot] = "sleep" => ~full[p]

\* What the status of a mailbox says, and what it does not yet say while the
\* hart is in a call
FullInv == \A p \in Proc : full[p] => mailbox[p] # Null

\* A sender waits for a full mailbox, for one that is being emptied, or for ever.
SenderInv ==
  \A p \in Proc : state[p] = "send" =>
    /\ pending[p] \in Proc
    /\ \/ full[pending[p]]
       \/ state[pending[p]] \in {"zombie", "freed"}
       \/ pc[Boot] = "drain" /\ curr[Boot] = pending[p]

ReceiverInv == \A p \in Proc : state[p] = "recv" => ~full[p]

\* Unlike WokenHasMessage it covers a receiver that was woken and went to sleep,
\* to read or to its end without looking at its mailbox.
ExpectInv ==
  \A p \in Proc : expects[p] /\ state[p] # "recv" =>
    \/ full[p]
    \/ doing[Boot] = "sleep" /\ curr[Boot] = p
    \/ doing[Boot] = "flag" /\ Target(Boot) = p

MailInv == FullInv /\ SenderInv /\ ReceiverInv /\ ExpectInv

IpcInv == OneHartInv /\ IpcTypeOK /\ CallInv /\ MailInv
-----------------------------------------------------------------------------
(* Steps of Scheduler that are not about messages *)

\* They neither take a thread off the lists of recv and send nor put one there.
MailListsStay ==
  \A t \in Thread :
    \/ state'[t] = state[t]
    \/ state[t] \notin {"recv", "send"} /\ state'[t] \notin {"recv", "send"}

LEMMA UnblockStay ==
  ASSUME QueueInv, NEW h \in Hart, NEW l \in WaitList \ {"recv", "send"},
         NEW p \in Range(waiting[l]), Unblock(h, l, p)
  PROVE  MailListsStay
BY UnblockStates DEF MailListsStay, WaitList

LEMMA LeaveStay ==
  ASSUME QueueInv, NEW h \in Hart, NEW l \in WaitList \ {"recv", "send"},
         NEW c \in Call, Syscall(h, c), Leave(h, l)
  PROVE  MailListsStay
BY LeaveStates DEF MailListsStay

LEMMA KernelStay ==
  ASSUME QueueInv, NEW h \in Hart, Kernel(h)
  PROVE  MailListsStay
BY KernelStates DEF KernelMoves, MailListsStay

LEMMA RestStay ==
  ASSUME QueueInv, NEW h \in Hart, Rest(h)
  PROVE  MailListsStay
<1>1. /\ {"blocked", "sleeping", "zombie"} \subseteq WaitList \ {"recv", "send"}
      /\ {"read", "exit", "yield", "sleep"} \subseteq Call
  BY DEF WaitList, Call
<1>2. CASE TimerTick(h) \/ Lose(h)
  BY <1>2 DEF TimerTick, Lose, threadVars, MailListsStay
<1>3. CASE Kernel(h)  BY <1>3, KernelStay
<1>4. CASE Yield(h)
  <2>1. state[curr[h]] \in {"ready", "running"}
    BY <1>4, InvParts, ProcFacts
       DEF Yield, Syscall, OwnCircle, CirclesHoldRunnable, ControlOK
  <2> QED  BY <1>4, <2>1, InvParts DEF Yield, MailListsStay, QueuesOK
<1>5. CASE Exit(h)  BY <1>1, <1>5, LeaveStay DEF Exit
<1>6. CASE BlockOnRead(h)  BY <1>1, <1>6, LeaveStay DEF BlockOnRead, Block
<1>7. CASE \E n \in SleepArg : Sleep(h, n)  BY <1>1, <1>7, LeaveStay DEF Sleep, Block
<1>8. CASE \E p \in Proc : Spawn(h, p)
  BY <1>8, InvParts DEF Spawn, MailListsStay, QueuesOK
<1>9. CASE \E p \in Proc : WakeReader(h, p)
  BY <1>1, <1>9, UnblockStay DEF WakeReader, Wake
<1> QED  BY <1>2, <1>3, <1>4, <1>5, <1>6, <1>7, <1>8, <1>9 DEF Rest, OtherCall

LEMMA RestIsStep ==
  ASSUME NEW h \in Hart, Rest(h)  PROVE Step(h)
BY DEF Rest, OtherCall, Step, User

\* A drain ends only when no sender is left.
LEMMA RestDrain ==
  ASSUME Rest(Boot), pc[Boot] = "drain"
  PROVE  (pc'[Boot] = "drain" /\ curr' = curr) \/ Senders(Boot) = {}
<1>1. CASE TimerTick(Boot)  BY <1>1 DEF TimerTick
<1>2. CASE Senders(Boot) = {}  BY <1>2
<1>3. pc[Boot] # "run"  OBVIOUS
<1>4. CASE Lose(Boot) \/ \E p \in Proc : Spawn(Boot, p) \/ WakeReader(Boot, p)
  BY <1>3, <1>4 DEF Lose, Spawn, WakeReader, Trap
<1>5. CASE OtherCall(Boot)
  BY <1>3, <1>5 DEF OtherCall, Yield, Exit, BlockOnRead, Sleep, Syscall, Trap
<1> QED  BY <1>1, <1>2, <1>4, <1>5 DEF Rest
-----------------------------------------------------------------------------
LEMMA IpcFacts ==
  ASSUME IpcInv
  PROVE  /\ Boot \in Hart /\ OneHart /\ QueueInv
         /\ curr[Boot] \in Thread /\ state \in [Thread -> State]
         /\ pc \in [Hart -> PC] /\ ssip \in [Hart -> BOOLEAN]
         /\ Proc \subseteq Thread /\ Null \notin Proc
         /\ Null \notin Message /\ Null \notin Send
         /\ IpcTypeOK
         /\ \A l \in WaitList : Range(waiting[l]) = {p \in Proc : state[p] = l}
BY BootFacts, ProcFacts, InvParts, IpcAssumption
   DEF IpcInv, OneHartInv, ListsHoldWaiting

LEMMA SameVars ==
  ASSUME UNCHANGED vars
  PROVE  /\ state' = state /\ curr' = curr /\ pc' = pc /\ waiting' = waiting
         /\ \A c : Syscall(Boot, c)' <=> Syscall(Boot, c)
BY DEF vars, queueVars, threadVars, Syscall, Trap, OwnCircle

\* What an action has to do for the messages
IpcRest == IpcTypeOK /\ CallInv /\ MailInv

LEMMA SendTestIpc ==
  ASSUME IpcInv, NEW s \in Send, SendTest(Boot, s)  PROVE IpcRest'
<1> USE IpcFacts, SameVars
<1>1. /\ UNCHANGED <<vars, mailbox, full, pending, expects, got>>
      /\ Syscall(Boot, "send") /\ curr[Boot] \in Proc /\ doing[Boot] = "nothing"
      /\ sending' = [sending EXCEPT ![curr[Boot]] = s]
      /\ doing' = [doing EXCEPT ![Boot] = IF full[s.to] THEN "wait" ELSE "put"]
  BY DEF SendTest, SendCall, Syscall, HasRoom, Do
<1>2. /\ sending'[curr[Boot]] = s /\ s # Null /\ s.to \in Proc
      /\ doing'[Boot] = IF full[s.to] THEN "wait" ELSE "put"
  BY <1>1 DEF IpcTypeOK, Send
<1>3. IpcTypeOK'  BY <1>1 DEF IpcTypeOK
<1>4. CallInv'  BY <1>1, <1>2 DEF CallInv, Target
<1>5. MailInv'
  BY <1>1, <1>2 DEF IpcInv, MailInv, FullInv, SenderInv, ReceiverInv, ExpectInv
<1> QED  BY <1>3, <1>4, <1>5 DEF IpcRest

LEMMA SendFailsIpc ==
  ASSUME IpcInv, NEW s \in Send, SendFails(Boot, s)  PROVE IpcRest'
<1> USE IpcFacts, SameVars
<1>1. /\ UNCHANGED <<vars, mailbox, full, pending, doing, expects, got>>
      /\ curr[Boot] \in Proc /\ doing[Boot] = "nothing"
      /\ sending' = [sending EXCEPT ![curr[Boot]] = Null]
  BY DEF SendFails, SendCall, Syscall
<1>2. IpcTypeOK'  BY <1>1 DEF IpcTypeOK
<1>3. CallInv'  BY <1>1 DEF CallInv
<1>4. MailInv'
  BY <1>1 DEF IpcInv, MailInv, FullInv, SenderInv, ReceiverInv, ExpectInv
<1> QED  BY <1>2, <1>3, <1>4 DEF IpcRest

LEMMA RecvTestIpc ==
  ASSUME IpcInv, RecvTest(Boot)  PROVE IpcRest'
<1> USE IpcFacts, SameVars
<1>1. /\ UNCHANGED <<vars, mailbox, full, pending, sending, got>>
      /\ Syscall(Boot, "recv") /\ curr[Boot] \in Proc /\ doing[Boot] = "nothing"
      /\ expects' = [expects EXCEPT ![curr[Boot]] = TRUE]
      /\ doing' = [doing EXCEPT ![Boot] = IF full[curr[Boot]] THEN "take" ELSE "sleep"]
  BY DEF RecvTest, Syscall, Do
<1>2. doing'[Boot] = IF full[curr[Boot]] THEN "take" ELSE "sleep"
  BY <1>1 DEF IpcTypeOK
<1>3. IpcTypeOK'  BY <1>1 DEF IpcTypeOK
<1>4. CallInv'  BY <1>1, <1>2 DEF CallInv
<1>5. FullInv' /\ SenderInv' /\ ReceiverInv'
  BY <1>1 DEF IpcInv, MailInv, FullInv, SenderInv, ReceiverInv
<1>6. ExpectInv'
  <2>1. \A p \in Proc : p # curr[Boot] => expects'[p] = expects[p]
    BY <1>1 DEF IpcTypeOK
  <2> QED  BY <1>1, <1>2, <2>1 DEF IpcInv, MailInv, ExpectInv
<1> QED  BY <1>3, <1>4, <1>5, <1>6 DEF IpcRest, MailInv

\* The running process is not the one that waits for the message.
LEMMA SendPutIpc ==
  ASSUME IpcInv, SendPut(Boot)
  PROVE  IpcRest' /\ (WakeReceiver(Boot, Target(Boot)) \/ UNCHANGED vars)
<1> DEFINE q == Target(Boot)
           m == Stamped(Boot)
<1> USE IpcFacts
<1>1. /\ doing[Boot] = "put" /\ doing' = [doing EXCEPT ![Boot] = "flag"]
      /\ mailbox' = [mailbox EXCEPT ![q] = m]
      /\ UNCHANGED <<full, pending, sending, expects, got>>
      /\ IF state[q] = "recv" THEN Wake(Boot, "recv", q) /\ UNCHANGED pc
         ELSE UNCHANGED vars
  BY DEF SendPut, Do, Wakes
<1>2. curr[Boot] \in Proc /\ sending[curr[Boot]] \in Send /\ q \in Proc
      /\ m \in Message /\ m # Null /\ Syscall(Boot, "send")
  BY <1>1 DEF IpcInv, CallInv, IpcTypeOK, Target, Send, Stamped, Message
<1> HIDE DEF m
<1>3. /\ curr' = curr /\ pc' = pc
      /\ \A t \in Proc : \/ state'[t] = state[t]
                         \/ t = q /\ state[t] = "recv" /\ state'[t] = "ready"
      /\ state'[q] # "recv"
      /\ WakeReceiver(Boot, q) \/ UNCHANGED vars
  <2>1. CASE state[q] = "recv"
    <3>1. Wake(Boot, "recv", q) /\ UNCHANGED pc  BY <1>1, <2>1
    <3>2. curr' = curr /\ state' = [state EXCEPT ![q] = "ready"]
      BY <3>1 DEF Wake, Unblock
    <3>3. AllFree  BY <1>2 DEF AllFree, Free, OneHart, Syscall, Trap
    <3> HIDE DEF q
    <3>4. WakeReceiver(Boot, q)  BY <1>2, <3>1, <3>3 DEF WakeReceiver
    <3> QED  BY <1>2, <2>1, <3>1, <3>2, <3>4
  <2>2. CASE state[q] # "recv"  BY <1>1, <2>2, SameVars
  <2> QED  BY <2>1, <2>2
<1>4. /\ q' = q /\ doing'[Boot] = "flag" /\ mailbox'[q] = m
      /\ \A p \in Proc : p # q => mailbox'[p] = mailbox[p]
  BY <1>1, <1>2, <1>3 DEF IpcTypeOK, Target
<1>5. IpcTypeOK'  BY <1>1, <1>2 DEF IpcTypeOK
<1>6. CallInv'
  <2> HIDE DEF q
  <2>1. CallInv' <=> /\ curr[Boot] \in Proc /\ sending[curr[Boot]] # Null
                     /\ state'[q] # "recv" /\ mailbox'[q] # Null
    BY <1>1, <1>3, <1>4 DEF CallInv, q
  <2> QED  BY <1>2, <1>3, <1>4, <2>1
<1> HIDE DEF q
<1>7. FullInv'
  BY <1>1, <1>2, <1>4 DEF IpcInv, MailInv, FullInv
<1>8. SenderInv'
  BY <1>1, <1>2, <1>3 DEF IpcInv, MailInv, SenderInv
<1>9. ReceiverInv'
  BY <1>1, <1>2, <1>3 DEF IpcInv, MailInv, ReceiverInv
<1>10. ExpectInv'
  BY <1>1, <1>2, <1>3, <1>4 DEF IpcInv, MailInv, ExpectInv, q
<1> QED  BY <1>3, <1>5, <1>6, <1>7, <1>8, <1>9, <1>10 DEF IpcRest, MailInv, q

LEMMA SendFlagIpc ==
  ASSUME IpcInv, SendFlag(Boot)  PROVE IpcRest'
<1> DEFINE p == curr[Boot]
           q == Target(Boot)
<1> USE IpcFacts, SameVars
<1>1. /\ doing[Boot] = "flag" /\ doing' = [doing EXCEPT ![Boot] = "nothing"]
      /\ full' = [full EXCEPT ![q] = TRUE]
      /\ sending' = [sending EXCEPT ![p] = Null]
      /\ UNCHANGED <<vars, mailbox, pending, expects, got>>
  BY DEF SendFlag, Do, Flagged
<1>2. p \in Proc /\ sending[p] \in Send /\ q \in Proc
      /\ state[q] # "recv" /\ mailbox[q] # Null
  BY <1>1 DEF IpcInv, CallInv, IpcTypeOK, Target, Send
<1>3. doing'[Boot] = "nothing"  BY <1>1 DEF IpcTypeOK
<1> HIDE DEF q, p
<1>4. \A r \in Proc : full'[r] = IF r = q THEN TRUE ELSE full[r]
  BY <1>1 DEF IpcTypeOK
<1>5. IpcTypeOK'  BY <1>1, <1>2 DEF IpcTypeOK
<1>6. CallInv'  BY <1>3 DEF CallInv
<1>7. FullInv'
  BY <1>1, <1>2, <1>4 DEF IpcInv, MailInv, FullInv
<1>8. SenderInv'
  BY <1>1, <1>2, <1>4 DEF IpcInv, MailInv, SenderInv
<1>9. ReceiverInv'
  BY <1>1, <1>2, <1>4 DEF IpcInv, MailInv, ReceiverInv
<1>10. ExpectInv'
  BY <1>1, <1>2, <1>4 DEF IpcInv, MailInv, ExpectInv, q
<1> QED  BY <1>5, <1>6, <1>7, <1>8, <1>9, <1>10 DEF IpcRest, MailInv

\* What blocking in a call does to the states
LEMMA BlockStates ==
  ASSUME IpcInv, NEW l \in {"send", "recv"}, Syscall(Boot, l), Block(Boot, l)
  PROVE  /\ curr' = curr /\ pc' = pc /\ pc[Boot] = "run" /\ curr[Boot] \in Proc
         /\ state[curr[Boot]] \in {"ready", "running"}
         /\ \A t \in Thread : state'[t] = IF t = curr[Boot] THEN l ELSE state[t]
<1>1. l \in WaitList /\ l \in Call  BY DEF WaitList, Call
<1>2. /\ Leave(Boot, l) /\ pc' = pc /\ pc[Boot] = "run" /\ curr[Boot] \in Proc
      /\ curr[Boot] \in Range(OwnCircle(Boot, curr[Boot])) /\ curr' = curr
  BY DEF Block, Syscall, Trap, Leave
<1>3. /\ state[curr[Boot]] \in {"ready", "running"}
      /\ state' = [state EXCEPT ![curr[Boot]] = l]
  BY <1>1, <1>2, IpcFacts, LeaveFacts
<1> QED  BY <1>2, <1>3, IpcFacts

LEMMA SendWaitIpc ==
  ASSUME IpcInv, SendWait(Boot)  PROVE IpcRest' /\ BlockOnSend(Boot)
<1> DEFINE p == curr[Boot]
           q == Target(Boot)
<1> USE IpcFacts
<1>1. /\ doing[Boot] = "wait" /\ doing' = [doing EXCEPT ![Boot] = "nothing"]
      /\ pending' = [pending EXCEPT ![p] = q]
      /\ Block(Boot, "send") /\ UNCHANGED ticks
      /\ UNCHANGED <<mailbox, full, sending, expects, got>>
  BY DEF SendWait, Do
<1>2. /\ p \in Proc /\ q \in Proc /\ full[q] /\ Syscall(Boot, "send")
  BY <1>1 DEF IpcInv, CallInv, IpcTypeOK, Target, Send
<1>3. /\ curr' = curr /\ pc' = pc /\ pc[Boot] = "run"
      /\ \A t \in Thread : state'[t] = IF t = p THEN "send" ELSE state[t]
      /\ state[p] \in {"ready", "running"}
  BY <1>1, <1>2, BlockStates
<1>4. BlockOnSend(Boot)
  BY <1>1, <1>2, <1>3 DEF BlockOnSend, AllFree, Free, OneHart
<1> HIDE DEF p, q
<1>5. doing'[Boot] = "nothing"  BY <1>1 DEF IpcTypeOK
<1>6. \A r \in Proc : pending'[r] = IF r = p THEN q ELSE pending[r]
  BY <1>1, <1>2 DEF IpcTypeOK
<1>7. IpcTypeOK'  BY <1>1, <1>2 DEF IpcTypeOK
<1>8. CallInv'  BY <1>5 DEF CallInv
<1>9. FullInv'  BY <1>1 DEF IpcInv, MailInv, FullInv
<1>10. SenderInv'
  BY <1>1, <1>2, <1>3, <1>6 DEF IpcInv, MailInv, SenderInv
<1>11. ReceiverInv'
  BY <1>1, <1>2, <1>3 DEF IpcInv, MailInv, ReceiverInv
<1>12. ExpectInv'
  BY <1>1, <1>2, <1>3 DEF IpcInv, MailInv, ExpectInv
<1> QED  BY <1>4, <1>7, <1>8, <1>9, <1>10, <1>11, <1>12 DEF IpcRest, MailInv

LEMMA RecvSleepIpc ==
  ASSUME IpcInv, RecvSleep(Boot)  PROVE IpcRest' /\ BlockOnRecv(Boot)
<1> DEFINE p == curr[Boot]
<1> USE IpcFacts
<1>1. /\ doing[Boot] = "sleep" /\ doing' = [doing EXCEPT ![Boot] = "nothing"]
      /\ Block(Boot, "recv") /\ UNCHANGED ticks
      /\ UNCHANGED <<mailbox, full, pending, sending, expects, got>>
  BY DEF RecvSleep, Do
<1>2. ~full[p] /\ Syscall(Boot, "recv")
  BY <1>1 DEF IpcInv, CallInv
<1>3. /\ curr' = curr /\ pc' = pc /\ pc[Boot] = "run" /\ p \in Proc
      /\ \A t \in Thread : state'[t] = IF t = p THEN "recv" ELSE state[t]
      /\ state[p] \in {"ready", "running"}
  BY <1>1, <1>2, BlockStates
<1>4. BlockOnRecv(Boot)  BY <1>1, <1>2 DEF BlockOnRecv
<1> HIDE DEF p
<1>5. doing'[Boot] = "nothing"  BY <1>1 DEF IpcTypeOK
<1>6. IpcTypeOK'  BY <1>1 DEF IpcTypeOK
<1>7. CallInv'  BY <1>5 DEF CallInv
<1>8. FullInv'  BY <1>1 DEF IpcInv, MailInv, FullInv
<1>9. SenderInv'
  BY <1>1, <1>3 DEF IpcInv, MailInv, SenderInv
<1>10. ReceiverInv'
  BY <1>1, <1>2, <1>3 DEF IpcInv, MailInv, ReceiverInv
<1>11. ExpectInv'
  BY <1>1, <1>3 DEF IpcInv, MailInv, ExpectInv, p
<1> QED  BY <1>4, <1>6, <1>7, <1>8, <1>9, <1>10, <1>11 DEF IpcRest, MailInv

\* The mailbox is empty again, and its senders are woken before anything else.
LEMMA RecvTakeIpc ==
  ASSUME IpcInv, RecvTake(Boot)  PROVE IpcRest' /\ StartDrain(Boot)
<1> DEFINE p == curr[Boot]
<1> USE IpcFacts
<1>1. /\ doing[Boot] = "take" /\ doing' = [doing EXCEPT ![Boot] = "nothing"]
      /\ got' = [got EXCEPT ![p] = mailbox[p]]
      /\ expects' = [expects EXCEPT ![p] = FALSE]
      /\ full' = [full EXCEPT ![p] = FALSE]
      /\ pc' = [pc EXCEPT ![Boot] = "drain"]
      /\ UNCHANGED <<state, curr, mailbox, pending, sending>>
  BY DEF RecvTake, Do, Goto, threadVars
<1>2. Syscall(Boot, "recv") /\ p \in Proc
  BY <1>1 DEF IpcInv, CallInv, Syscall
<1>3. StartDrain(Boot)  BY <1>2 DEF RecvTake, StartDrain
<1> HIDE DEF p
<1>4. doing'[Boot] = "nothing" /\ pc'[Boot] = "drain"
  BY <1>1 DEF IpcTypeOK
<1>5. \A r \in Proc : /\ full'[r] = IF r = p THEN FALSE ELSE full[r]
                      /\ expects'[r] = IF r = p THEN FALSE ELSE expects[r]
  BY <1>1 DEF IpcTypeOK
<1>6. IpcTypeOK'  BY <1>1, <1>2 DEF IpcTypeOK
<1>7. CallInv'  BY <1>4 DEF CallInv
<1>8. FullInv'  BY <1>1, <1>5 DEF IpcInv, MailInv, FullInv
<1>9. SenderInv'
  <2>1. pc[Boot] # "drain"  BY <1>2 DEF Syscall, Trap
  <2> QED  BY <1>1, <1>4, <1>5, <2>1 DEF IpcInv, MailInv, SenderInv, p
<1>10. ReceiverInv'
  BY <1>1, <1>5 DEF IpcInv, MailInv, ReceiverInv
<1>11. ExpectInv'
  BY <1>1, <1>5 DEF IpcInv, MailInv, ExpectInv
<1> QED  BY <1>3, <1>6, <1>7, <1>8, <1>9, <1>10, <1>11 DEF IpcRest, MailInv

LEMMA NextSenderFacts ==
  ASSUME IpcInv, Senders(Boot) # {}
  PROVE  NextSender(Boot) \in Senders(Boot) /\ NextSender(Boot) \in Proc
<1> DEFINE s == waiting["send"]
           K == {i \in DOMAIN s : s[i] \in Senders(Boot)}
<1>1. s \in Seq(Proc)
  BY InvParts, IpcFacts DEF QueuesOK, WaitList
<1>2. K \in SUBSET Nat /\ K # {}
  BY <1>1 DEF Senders, Range
<1> HIDE DEF K
<1>3. Least(K) \in K  BY <1>2, LeastFacts
<1>4. NextSender(Boot) = s[Least(K)]  BY DEF NextSender, K
<1> HIDE DEF s
<1> QED  BY <1>1, <1>3, <1>4 DEF K

LEMMA WakeNextSenderIpc ==
  ASSUME IpcInv, WakeNextSender(Boot)
  PROVE  IpcRest' /\ \E p \in Proc : WakeSender(Boot, p)
<1> DEFINE p == NextSender(Boot)
<1> USE IpcFacts
<1>1. /\ p \in Proc /\ WakeSender(Boot, p) /\ pc[Boot] = "drain"
      /\ UNCHANGED ipcVars
  BY NextSenderFacts DEF WakeNextSender
<1> HIDE DEF p
<1>2. /\ p \in Range(waiting["send"]) /\ curr' = curr /\ pc' = pc
      /\ \A t \in Thread : state'[t] = IF t = p THEN "ready" ELSE state[t]
  BY <1>1 DEF WakeSender, Wake, Unblock
<1>3. state[p] = "send"  BY <1>2 DEF WaitList
<1>4. doing[Boot] = "nothing" \/ doing[Boot] = "flag"
  BY <1>1 DEF IpcInv, CallInv, IpcTypeOK, Syscall, Trap
<1>5. IpcTypeOK'  BY <1>1 DEF IpcTypeOK, ipcVars
<1>6. CallInv'
  <2>1. doing[Boot] = "flag" => sending[curr[Boot]] \in Send /\ Target(Boot) \in Proc
    BY DEF IpcInv, CallInv, IpcTypeOK, Target, Send
  <2> QED  BY <1>1, <1>2, <1>4, <2>1 DEF IpcInv, CallInv, ipcVars, Target
<1>7. FullInv' /\ SenderInv' /\ ReceiverInv'
  BY <1>1, <1>2, <1>3 DEF IpcInv, MailInv, FullInv, SenderInv, ReceiverInv, ipcVars
<1>8. ExpectInv'
  BY <1>1, <1>2, <1>3 DEF IpcInv, MailInv, ExpectInv, ipcVars, Target
<1> QED  BY <1>1, <1>5, <1>6, <1>7, <1>8 DEF IpcRest, MailInv

LEMMA RestIpc ==
  ASSUME IpcInv, Rest(Boot)  PROVE IpcRest' /\ Step(Boot)
<1> USE IpcFacts
<1>1. doing[Boot] = "nothing" /\ UNCHANGED ipcVars  BY DEF Rest
<1>2. Step(Boot)  BY RestIsStep
<1>3. MailListsStay  BY RestStay
<1>4. ExitedStays  BY <1>2, StepExited
<1>5. IpcTypeOK'  BY <1>1 DEF IpcTypeOK, ipcVars
<1>6. CallInv'  BY <1>1 DEF CallInv, ipcVars
<1>7. FullInv'  BY <1>1 DEF IpcInv, MailInv, FullInv, ipcVars
<1>8. SenderInv'
  <2> SUFFICES ASSUME NEW p \in Proc, state'[p] = "send"
               PROVE  /\ pending[p] \in Proc
                      /\ \/ full[pending[p]]
                         \/ state'[pending[p]] \in {"zombie", "freed"}
                         \/ pc'[Boot] = "drain" /\ curr'[Boot] = pending[p]
    BY <1>1 DEF SenderInv, ipcVars
  <2>1. state[p] = "send"  BY <1>3 DEF MailListsStay
  <2>2. /\ pending[p] \in Proc
        /\ \/ full[pending[p]]
           \/ state[pending[p]] \in {"zombie", "freed"}
           \/ pc[Boot] = "drain" /\ curr[Boot] = pending[p]
    BY <2>1 DEF IpcInv, MailInv, SenderInv
  <2>3. CASE state[pending[p]] \in {"zombie", "freed"}
    BY <1>4, <2>2, <2>3 DEF ExitedStays
  <2>4. CASE pc[Boot] = "drain" /\ curr[Boot] = pending[p]
    <3>1. p \in Senders(Boot)  BY <2>1, <2>4 DEF Senders, WaitList
    <3> QED  BY <2>2, <2>4, <3>1, RestDrain
  <2> QED  BY <2>2, <2>3, <2>4
<1>9. ReceiverInv'
  BY <1>1, <1>3 DEF IpcInv, MailInv, ReceiverInv, MailListsStay, ipcVars
<1>10. ExpectInv'
  BY <1>1, <1>3 DEF IpcInv, MailInv, ExpectInv, MailListsStay, ipcVars
<1> QED  BY <1>2, <1>5, <1>6, <1>7, <1>8, <1>9, <1>10 DEF IpcRest, MailInv
-----------------------------------------------------------------------------
LEMMA StepIpc ==
  ASSUME IpcInv, IpcNext  PROVE IpcRest' /\ [Next]_vars
<1>1. IpcStep(Boot) /\ Intact /\ Boot \in Hart
  BY IpcFacts DEF IpcNext, OneHart
<1>2. Call = {"read", "exit", "yield", "sleep", "send", "recv"}  BY DEF Call
<1>3. IpcRest' /\ (Step(Boot) \/ UNCHANGED vars)
  <2>1. ASSUME NEW s \in Send, SendTest(Boot, s) \/ SendFails(Boot, s)
        PROVE  IpcRest' /\ UNCHANGED vars
    BY <2>1, SendTestIpc, SendFailsIpc DEF SendTest, SendFails
  <2>2. CASE SendPut(Boot)
    <3>1. Target(Boot) \in Proc
      BY <2>2, IpcFacts DEF SendPut, IpcInv, CallInv, IpcTypeOK, Target, Send
    <3> QED  BY <2>2, <3>1, SendPutIpc DEF Step, User
  <2>3. CASE SendFlag(Boot)  BY <2>3, SendFlagIpc DEF SendFlag
  <2>4. CASE SendWait(Boot)  BY <2>4, SendWaitIpc DEF Step, User
  <2>5. CASE RecvTest(Boot)  BY <2>5, RecvTestIpc DEF RecvTest
  <2>6. CASE RecvSleep(Boot)  BY <2>6, RecvSleepIpc DEF Step, User
  <2>7. CASE RecvTake(Boot)  BY <2>7, RecvTakeIpc DEF Step, User
  <2>8. CASE WakeNextSender(Boot)  BY <2>8, WakeNextSenderIpc DEF Step, User
  <2>9. CASE Rest(Boot)  BY <2>9, RestIpc
  <2> QED
    BY <1>1, <2>1, <2>2, <2>3, <2>4, <2>5, <2>6, <2>7, <2>8, <2>9 DEF IpcStep
<1> QED  BY <1>1, <1>3 DEF Next

LEMMA NextIpc ==
  ASSUME IpcInv, [IpcNext]_<<vars, ipcVars>>  PROVE IpcInv' /\ [Next]_vars
<1>1. CASE IpcNext
  <2>1. IpcRest' /\ [Next]_vars  BY <1>1, StepIpc
  <2>2. OneHartInv'  BY <2>1, NextOne DEF IpcInv
  <2> QED  BY <2>1, <2>2 DEF IpcInv, IpcRest
<1>2. CASE UNCHANGED <<vars, ipcVars>>
  <2>1. OneHartInv'  BY <1>2, NextOne DEF IpcInv
  <2>2. IpcTypeOK'  BY <1>2 DEF IpcInv, IpcTypeOK, ipcVars
  <2>3. CallInv'  BY <1>2, SameVars DEF IpcInv, CallInv, ipcVars, Target
  <2>4. MailInv'
    BY <1>2, SameVars DEF IpcInv, MailInv, FullInv, SenderInv, ReceiverInv,
                          ExpectInv, ipcVars, Target
  <2> QED  BY <1>2, <2>1, <2>2, <2>3, <2>4 DEF IpcInv
<1> QED  BY <1>1, <1>2

LEMMA InitIpc ==
  ASSUME OneHart, IpcInit  PROVE IpcInv
<1>1. OneHartInv  BY InitOne DEF IpcInit
<1>2. IpcTypeOK  BY DEF IpcInit, IpcTypeOK
<1>3. Boot \in Hart /\ Proc \subseteq Thread  BY SchedulerAssumption, ProcFacts
<1>4. CallInv  BY <1>3 DEF IpcInit, CallInv
<1>5. \A p \in Proc : state[p] = "unborn"  BY <1>3 DEF IpcInit, Init
<1>6. MailInv
  BY <1>5 DEF IpcInit, MailInv, FullInv, SenderInv, ReceiverInv, ExpectInv
<1> QED  BY <1>1, <1>2, <1>4, <1>6 DEF IpcInv

THEOREM IpcTheorem == OneHart /\ IpcSpec => []IpcInv
<1>1. OneHart /\ IpcInit => IpcInv  BY InitIpc
<1>2. IpcInv /\ [IpcNext]_<<vars, ipcVars>> => IpcInv'  BY NextIpc
<1> QED  BY <1>1, <1>2, PTL DEF IpcSpec

\* send and recv change the queues only as Scheduler lets a process change
\* them: what is proved of Scheduler holds of processes that talk.
THEOREM ImplementsSchedulerTheorem == OneHart /\ IpcSpec => ImplementsScheduler
<1>1. IpcInit => Init  BY DEF IpcInit
<1>2. IpcInv /\ [IpcNext]_<<vars, ipcVars>> => [Next]_vars  BY NextIpc
<1> QED  BY <1>1, <1>2, IpcTheorem, PTL DEF IpcSpec, Spec, ImplementsScheduler

\* No sender sleeps beside an empty mailbox.
THEOREM SenderTheorem == OneHart /\ IpcSpec => []SenderHasCause
<1>1. IpcInv => SenderHasCause
  <2> SUFFICES ASSUME IpcInv, NEW p \in Range(waiting["send"])
               PROVE  \/ full[pending[p]]
                      \/ state[pending[p]] \in {"zombie", "freed"}
                      \/ \E h \in Hart : pc[h] = "drain" /\ curr[h] = pending[p]
    BY DEF SenderHasCause
  <2>1. p \in Proc /\ state[p] = "send"  BY IpcFacts DEF WaitList
  <2> QED  BY <2>1, IpcFacts DEF IpcInv, MailInv, SenderInv
<1> QED  BY <1>1, IpcTheorem, PTL

\* No receiver sleeps beside a full one.
THEOREM ReceiverTheorem == OneHart /\ IpcSpec => []ReceiverHasCause
<1>1. IpcInv => ReceiverHasCause
  BY IpcFacts DEF IpcInv, MailInv, ReceiverInv, ReceiverHasCause, WaitList
<1> QED  BY <1>1, IpcTheorem, PTL

\* A receiver that comes back without a message finds it at its next recv.
THEOREM WokenTheorem == OneHart /\ IpcSpec => []WokenHasMessage
<1>1. IpcInv => WokenHasMessage
  BY IpcFacts DEF IpcInv, MailInv, ExpectInv, WokenHasMessage
<1> QED  BY <1>1, IpcTheorem, PTL

-----------------------------------------------------------------------------
(* The mailboxes implement Channel *)

LEMMA SlotFacts ==
  ASSUME OneHart
  PROVE  /\ \A p \in Proc : Slot[p] =
              IF full[p] \/ (doing[Boot] = "flag" /\ Target(Boot) = p)
              THEN mailbox[p] ELSE Null
         /\ \A p \in Proc : Slot'[p] =
              IF full'[p] \/ (doing'[Boot] = "flag" /\ Target(Boot)' = p)
              THEN mailbox'[p] ELSE Null
         /\ Slot = [p \in Proc |-> Slot[p]] /\ Slot' = [p \in Proc |-> Slot'[p]]
BY DEF Slot, OneHart

LEMMA PutStep ==
  ASSUME IpcInv, SendPut(Boot)  PROVE Mailbox!Put(Target(Boot), Stamped(Boot))
<1> DEFINE q == Target(Boot)
           m == Stamped(Boot)
<1> USE IpcFacts
<1>1. /\ doing[Boot] = "put" /\ doing'[Boot] = "flag"
      /\ mailbox' = [mailbox EXCEPT ![q] = m]
      /\ UNCHANGED <<full, sending, got>> /\ curr' = curr
  BY SameVars DEF SendPut, Do, Wake, IpcTypeOK
<1>2. q \in Proc /\ ~full[q]
  BY <1>1 DEF IpcInv, CallInv, IpcTypeOK, Target, Send
<1>3. q' = q  BY <1>1 DEF Target
<1> HIDE DEF q, m
<1>4. \A p \in Proc : mailbox'[p] = IF p = q THEN m ELSE mailbox[p]
  BY <1>1 DEF IpcTypeOK
<1>5. Slot[q] = Null /\ \A p \in Proc : Slot'[p] = IF p = q THEN m ELSE Slot[p]
  BY <1>1, <1>2, <1>3, <1>4, SlotFacts DEF q
<1>6. Slot' = [Slot EXCEPT ![q] = m]  BY <1>2, <1>5, SlotFacts
<1> QED  BY <1>1, <1>5, <1>6 DEF Mailbox!Put, q, m

LEMMA GetStep ==
  ASSUME IpcInv, RecvTake(Boot)  PROVE curr[Boot] \in Proc /\ Mailbox!Get(curr[Boot])
<1> DEFINE p == curr[Boot]
<1> USE IpcFacts
<1>1. /\ doing[Boot] = "take" /\ doing'[Boot] = "nothing"
      /\ got' = [got EXCEPT ![p] = mailbox[p]]
      /\ full' = [full EXCEPT ![p] = FALSE] /\ mailbox' = mailbox
  BY DEF RecvTake, Do, IpcTypeOK
<1>2. p \in Proc /\ full[p] /\ mailbox[p] # Null
  BY <1>1 DEF IpcInv, CallInv, Syscall, MailInv, FullInv
<1> HIDE DEF p
<1>3. \A r \in Proc : full'[r] = IF r = p THEN FALSE ELSE full[r]
  BY <1>1 DEF IpcTypeOK
<1>4. /\ Slot[p] = mailbox[p] /\ Slot[p] # Null
      /\ \A r \in Proc : Slot'[r] = IF r = p THEN Null ELSE Slot[r]
  BY <1>1, <1>2, <1>3, SlotFacts
<1>5. Slot' = [Slot EXCEPT ![p] = Null]  BY <1>2, <1>4, SlotFacts
<1> QED  BY <1>1, <1>2, <1>4, <1>5 DEF Mailbox!Get, p

\* A message is flagged in the step after it was put; the slot does not notice.
LEMMA FlagStep ==
  ASSUME IpcInv, SendFlag(Boot)  PROVE UNCHANGED <<Slot, got>>
<1> DEFINE q == Target(Boot)
<1> USE IpcFacts
<1>1. /\ doing[Boot] = "flag" /\ doing'[Boot] = "nothing"
      /\ full' = [full EXCEPT ![q] = TRUE] /\ UNCHANGED <<mailbox, got>>
  BY DEF SendFlag, Do, IpcTypeOK, Flagged
<1>2. q \in Proc
  BY <1>1 DEF IpcInv, CallInv, IpcTypeOK, Target, Send
<1> HIDE DEF q
<1>3. \A r \in Proc : full'[r] = IF r = q THEN TRUE ELSE full[r]
  BY <1>1 DEF IpcTypeOK
<1>4. \A r \in Proc : Slot'[r] = Slot[r]
  BY <1>1, <1>2, <1>3, SlotFacts DEF q
<1> QED  BY <1>1, <1>4, SlotFacts

\* All else leaves mailboxes and status alone, and is not between the two.
LEMMA ChannelFrame ==
  ASSUME IpcInv, UNCHANGED <<mailbox, full, got>>,
         \/ doing[Boot] # "flag" /\ doing'[Boot] # "flag"
         \/ UNCHANGED <<doing, sending, curr>>
  PROVE  UNCHANGED <<Slot, got>>
<1>1. \A p \in Proc : Slot'[p] = Slot[p]
  BY SlotFacts, IpcFacts DEF Target
<1> QED  BY <1>1, SlotFacts, IpcFacts

LEMMA ChannelStep ==
  ASSUME IpcInv, [IpcNext]_<<vars, ipcVars>>
  PROVE  [Mailbox!Next]_<<Slot, got>>
<1> USE IpcFacts
<1>1. CASE UNCHANGED <<vars, ipcVars>>
  BY <1>1, ChannelFrame, SameVars DEF ipcVars
<1>2. CASE IpcNext
  <2>1. IpcStep(Boot)  BY <1>2 DEF IpcNext, OneHart
  <2>2. ASSUME NEW s \in Send, SendTest(Boot, s)  PROVE UNCHANGED <<Slot, got>>
    BY <2>2, ChannelFrame DEF SendTest, SendCall, Do, IpcTypeOK
  <2>3. ASSUME NEW s \in Send, SendFails(Boot, s)  PROVE UNCHANGED <<Slot, got>>
    BY <2>3, ChannelFrame DEF SendFails, SendCall
  <2>4. CASE SendPut(Boot)
    <3>1. Target(Boot) \in Proc /\ Stamped(Boot) \in Message
      BY <2>4 DEF SendPut, IpcInv, CallInv, IpcTypeOK, Target, Send, Stamped, Message
    <3> QED  BY <2>4, <3>1, PutStep DEF Mailbox!Next
  <2>5. CASE SendFlag(Boot)  BY <2>5, FlagStep
  <2>6. CASE SendWait(Boot)
    BY <2>6, ChannelFrame DEF SendWait, Do, IpcTypeOK
  <2>7. CASE RecvTest(Boot)
    BY <2>7, ChannelFrame DEF RecvTest, Do, IpcTypeOK
  <2>8. CASE RecvSleep(Boot)
    BY <2>8, ChannelFrame DEF RecvSleep, Do, IpcTypeOK
  <2>9. CASE RecvTake(Boot)  BY <2>9, GetStep DEF Mailbox!Next
  <2>10. CASE WakeNextSender(Boot)
    BY <2>10, ChannelFrame DEF WakeNextSender, WakeSender, Wake, ipcVars
  <2>11. CASE Rest(Boot)
    BY <2>11, ChannelFrame DEF Rest, ipcVars
  <2> QED
    BY <2>1, <2>2, <2>3, <2>4, <2>5, <2>6, <2>7, <2>8, <2>9, <2>10, <2>11 DEF IpcStep
<1> QED  BY <1>1, <1>2

\* No message is overwritten before it is received, none is received twice,
\* and each is received as it was sent.
THEOREM ChannelTheorem == OneHart /\ IpcSpec => ImplementsChannel
<1>1. OneHart /\ IpcInit => Mailbox!Init
  <2> SUFFICES ASSUME OneHart, IpcInit  PROVE Mailbox!Init
    OBVIOUS
  <2>1. \A p \in Proc : Slot[p] = Null
    BY SlotFacts, SchedulerAssumption DEF IpcInit
  <2> QED  BY <2>1, SlotFacts DEF IpcInit, Mailbox!Init
<1>2. IpcInv /\ [IpcNext]_<<vars, ipcVars>> => [Mailbox!Next]_<<Slot, got>>
  BY ChannelStep
<1> QED
  BY <1>1, <1>2, IpcTheorem, PTL DEF IpcSpec, ImplementsChannel, Mailbox!Spec

(***************************************************************************)
(* Console                                                                 *)
(***************************************************************************)

\* A call of read is not interrupted, so what it saw of uart_buff still holds.
ReadInv ==
  /\ reading[Boot] # "nothing" => curr[Boot] \in Proc /\ shell_ptr = curr[Boot]
  /\ reading[Boot] \in {"give", "block"} =>
       Syscall(Boot, "read") /\ a0[curr[Boot]] = Null
  /\ reading[Boot] = "give" => uart_buff # Null
  /\ reading[Boot] = "block" => uart_buff = Null

\* A reader that is asleep has no key, neither its own nor one kept for it.
ReaderInv ==
  \A p \in Proc : state[p] = "blocked" =>
    a0[p] = Null /\ (p = shell_ptr => uart_buff = Null)

ConsoleInv == OneHartInv /\ ConsoleTypeOK /\ ReadInv /\ ReaderInv

\* The shell is the one program that reads keys (user/shell.c:73).  The kernel
\* would give a second reader a key before the first has used its own.
OnlyShellReads == \A p \in Proc : "read" \in Calls[p] => p = Shell

ShellInv ==
  /\ OnlyShellReads /\ shell_ptr \in {Shell, Null}
  /\ \A p \in Proc : a0[p] # Null => p = Shell

\* cmd_buffer starts with the line on the screen.
LineInv ==
  /\ cmd_idx \in 0..LineMax - 1 /\ cmd_buffer \in [0..LineMax - 1 -> Char \cup {NUL}]
  /\ text \in Seq(Char \cup {NUL}) /\ Len(text) = cmd_idx
  /\ \A i \in 0..cmd_idx - 1 : cmd_buffer[i] = text[i + 1]
-----------------------------------------------------------------------------
(* Steps of Scheduler that are not about keys *)

\* They put no thread on the list of blocked readers and take none off.
ReadersStay ==
  \A t \in Thread :
    \/ state'[t] = state[t]
    \/ state[t] # "blocked" /\ state'[t] # "blocked"

LEMMA UnblockReaders ==
  ASSUME QueueInv, NEW h \in Hart, NEW l \in WaitList \ {"blocked"},
         NEW p \in Range(waiting[l]), Unblock(h, l, p)
  PROVE  ReadersStay
BY UnblockStates DEF ReadersStay, WaitList

LEMMA LeaveReaders ==
  ASSUME QueueInv, NEW h \in Hart, NEW l \in WaitList \ {"blocked"},
         NEW c \in Call, Syscall(h, c), Leave(h, l)
  PROVE  ReadersStay
BY LeaveStates DEF ReadersStay

LEMMA OtherStay ==
  ASSUME QueueInv, NEW h \in Hart, OtherThanRead(h)
  PROVE  ReadersStay
<1>1. /\ {"sleeping", "recv", "send", "zombie"} \subseteq WaitList \ {"blocked"}
      /\ {"exit", "yield", "sleep", "send", "recv"} \subseteq Call
  BY DEF WaitList, Call
<1>2. CASE Yield(h)
  <2>1. state[curr[h]] \in {"ready", "running"}
    BY <1>2, InvParts, ProcFacts
       DEF Yield, Syscall, OwnCircle, CirclesHoldRunnable, ControlOK
  <2> QED  BY <1>2, <2>1, InvParts DEF Yield, ReadersStay, QueuesOK
<1>3. CASE BlockOnRecv(h)  BY <1>1, <1>3, LeaveReaders DEF BlockOnRecv, Block
<1>4. CASE BlockOnSend(h)  BY <1>1, <1>4, LeaveReaders DEF BlockOnSend, Block
<1>5. CASE Exit(h)  BY <1>1, <1>5, LeaveReaders DEF Exit
<1>6. CASE \E n \in SleepArg : Sleep(h, n)  BY <1>1, <1>6, LeaveReaders DEF Sleep, Block
<1>7. CASE StartDrain(h)  BY <1>7 DEF StartDrain, threadVars, ReadersStay
<1>8. CASE \E p \in Proc : WakeReceiver(h, p) \/ WakeSender(h, p)
  BY <1>1, <1>8, UnblockReaders DEF WakeReceiver, WakeSender, Wake
<1> QED  BY <1>2, <1>3, <1>4, <1>5, <1>6, <1>7, <1>8 DEF OtherThanRead

LEMMA OthersStay ==
  ASSUME QueueInv, NEW h \in Hart, Others(h)
  PROVE  /\ ReadersStay /\ Step(h)
         /\ \/ shell_ptr' = shell_ptr
            \/ shell_ptr' = Shell /\ state'[Shell] = "ready"
<1>1. CASE SpawnNext(h)
  <2>1. PICK p \in Proc : Spawn(h, p) /\ shell_ptr' = IF p = Shell THEN p ELSE shell_ptr
    BY <1>1 DEF SpawnNext
  <2>2. state' = [state EXCEPT ![p] = "ready"] /\ state[p] = "unborn"
    BY <2>1 DEF Spawn
  <2> QED  BY <2>1, <2>2, InvParts, ProcFacts DEF ReadersStay, QueuesOK, Step
<1>2. CASE UNCHANGED shell_ptr /\ (TimerTick(h) \/ Lose(h))
  BY <1>2 DEF TimerTick, Lose, threadVars, ReadersStay, Step
<1>3. CASE UNCHANGED shell_ptr /\ Kernel(h)
  BY <1>3, KernelStates DEF KernelMoves, ReadersStay, Step
<1>4. CASE UNCHANGED shell_ptr /\ OtherThanRead(h)
  BY <1>4, OtherStay DEF OtherThanRead, Step, User
<1> QED  BY <1>1, <1>2, <1>3, <1>4 DEF Others
-----------------------------------------------------------------------------
LEMMA ConsoleFacts ==
  ASSUME ConsoleInv
  PROVE  /\ Boot \in Hart /\ OneHart /\ QueueInv
         /\ curr[Boot] \in Thread /\ state \in [Thread -> State]
         /\ Proc \subseteq Thread /\ Null \notin Proc /\ Null \notin Key
         /\ Shell \in Proc /\ ConsoleTypeOK
         /\ \A l \in WaitList : Range(waiting[l]) = {p \in Proc : state[p] = l}
BY BootFacts, ProcFacts, InvParts, ConsoleAssumption
   DEF ConsoleInv, OneHartInv, ListsHoldWaiting

\* What an action has to do for the keys
ConsoleRest == ConsoleTypeOK /\ ReadInv /\ ReaderInv

LEMMA TypedRest ==
  ASSUME ConsoleInv, NEW k \in Key, Typed(k)  PROVE ConsoleRest'
<1> USE ConsoleFacts, SameVars
<1>1. /\ UNCHANGED <<vars, uart_buff, shell_ptr, a0, reading, cmd_buffer, cmd_idx>>
      /\ fifo' = Append(fifo, k) /\ Len(fifo) < FifoSize
  BY DEF Typed, shellVars
<1>2. fifo' \in Seq(Key) /\ Len(fifo') <= FifoSize
  BY <1>1, ConsoleAssumption DEF ConsoleTypeOK
<1>3. ConsoleTypeOK'  BY <1>1, <1>2 DEF ConsoleTypeOK
<1>4. ReadInv'  BY <1>1 DEF ConsoleInv, ReadInv
<1>5. ReaderInv'  BY <1>1 DEF ConsoleInv, ReaderInv
<1> QED  BY <1>3, <1>4, <1>5 DEF ConsoleRest

LEMMA UartStates ==
  ASSUME ConsoleInv, UartInterrupt(Boot)
  PROVE  /\ fifo # <<>> /\ fifo' = Tail(fifo) /\ Head(fifo) \in Key
         /\ reading[Boot] = "nothing" /\ UNCHANGED <<shell_ptr, reading, shellVars>>
         /\ \/ /\ shell_ptr \in Proc /\ state[shell_ptr] = "blocked"
               /\ a0' = [a0 EXCEPT ![shell_ptr] = Head(fifo)]
               /\ WakeReader(Boot, shell_ptr) /\ uart_buff' = uart_buff
               /\ \A t \in Thread :
                    state'[t] = IF t = shell_ptr THEN "ready" ELSE state[t]
            \/ /\ shell_ptr # Null => state[shell_ptr] # "blocked"
               /\ uart_buff' = Buffered(Head(fifo)) /\ a0' = a0 /\ UNCHANGED vars
<1> USE ConsoleFacts
<1>1. /\ fifo # <<>> /\ fifo' = Tail(fifo)
      /\ reading[Boot] = "nothing" /\ UNCHANGED <<shell_ptr, reading, shellVars>>
  BY DEF UartInterrupt
<1>2. Head(fifo) \in Key  BY <1>1 DEF ConsoleTypeOK
<1>3. CASE WaitsForKey(shell_ptr)
  <2>1. shell_ptr \in Proc /\ state[shell_ptr] = "blocked"
    BY <1>3 DEF WaitsForKey, ConsoleTypeOK
  <2>2. /\ a0' = [a0 EXCEPT ![shell_ptr] = Head(fifo)]
        /\ WakeReader(Boot, shell_ptr) /\ uart_buff' = uart_buff
    BY <1>3 DEF UartInterrupt, Woken
  <2>3. state' = [state EXCEPT ![shell_ptr] = "ready"]
    BY <2>2 DEF WakeReader, Wake, Unblock
  <2> QED  BY <1>1, <1>2, <2>1, <2>2, <2>3
<1>4. CASE ~WaitsForKey(shell_ptr)
  <2>1. shell_ptr # Null => state[shell_ptr] # "blocked"  BY <1>4 DEF WaitsForKey
  <2> QED  BY <1>1, <1>2, <1>4, <2>1 DEF UartInterrupt
<1> QED  BY <1>3, <1>4

LEMMA UartRest ==
  ASSUME ConsoleInv, UartInterrupt(Boot)  PROVE ConsoleRest'
<1> USE ConsoleFacts, SameVars
<1>1. fifo' \in Seq(Key) /\ Len(fifo') <= FifoSize
  <2>1. fifo \in Seq(Key) /\ fifo # <<>> /\ fifo' = Tail(fifo) /\ Len(fifo) <= FifoSize
    BY UartStates DEF ConsoleTypeOK
  <2>2. Tail(fifo) \in Seq(Key) /\ Len(Tail(fifo)) = Len(fifo) - 1  BY <2>1
  <2> QED  BY <2>1, <2>2, ConsoleAssumption
<1>2. ConsoleTypeOK'
  <2>1. Buffered(Head(fifo)) \in (Key \ {NUL}) \cup {Null}  BY UartStates DEF Buffered
  <2> QED  BY <1>1, <2>1, UartStates DEF ConsoleTypeOK, shellVars
<1>3. ReadInv'  BY UartStates DEF ReadInv
<1>4. ReaderInv'
  <2>1. CASE shell_ptr \in Proc /\ state[shell_ptr] = "blocked"
    BY <2>1, UartStates DEF ConsoleInv, ReaderInv, ConsoleTypeOK
  <2>2. CASE shell_ptr # Null => state[shell_ptr] # "blocked"
    BY <2>2, UartStates DEF ConsoleInv, ReaderInv
  <2> QED  BY <2>1, <2>2, UartStates
<1> QED  BY <1>2, <1>3, <1>4 DEF ConsoleRest

LEMMA ReadTestRest ==
  ASSUME ConsoleInv, ReadTest(Boot)  PROVE ConsoleRest'
<1> DEFINE p == curr[Boot]
<1> USE ConsoleFacts, SameVars
<1>1. /\ UNCHANGED <<vars, fifo, uart_buff, a0, shellVars>>
      /\ Syscall(Boot, "read") /\ p \in Proc /\ a0[p] = Null
      /\ shell_ptr' = p
      /\ reading' = [reading EXCEPT ![Boot] = IF uart_buff # Null THEN "give" ELSE "block"]
  BY DEF ReadTest, Syscall, NowReading
<1>2. reading'[Boot] = IF uart_buff # Null THEN "give" ELSE "block"
  BY <1>1 DEF ConsoleTypeOK
<1>3. state[p] # "blocked"
  <2>1. p \in Range(OwnCircle(Boot, p))  BY <1>1 DEF Syscall
  <2> QED  BY <1>1, <2>1, NotRunnable, ProcFacts DEF OwnCircle
<1>4. ConsoleTypeOK'  BY <1>1 DEF ConsoleTypeOK, shellVars
<1>5. ReadInv'  BY <1>1, <1>2 DEF ReadInv
<1>6. ReaderInv'  BY <1>1, <1>3 DEF ConsoleInv, ReaderInv
<1> QED  BY <1>4, <1>5, <1>6 DEF ConsoleRest

LEMMA ReadGiveRest ==
  ASSUME ConsoleInv, ReadGive(Boot)  PROVE ConsoleRest'
<1> DEFINE p == curr[Boot]
<1> USE ConsoleFacts, SameVars
<1>1. /\ UNCHANGED <<vars, fifo, uart_buff, shell_ptr, shellVars>>
      /\ reading[Boot] = "give" /\ reading' = [reading EXCEPT ![Boot] = "clear"]
      /\ a0' = [a0 EXCEPT ![p] = uart_buff]
  BY DEF ReadGive, NowReading, ConsoleInv, ReadInv
<1>2. Syscall(Boot, "read") /\ p \in Proc /\ shell_ptr = p
  BY <1>1 DEF ConsoleInv, ReadInv
<1>3. state[p] # "blocked"
  <2>1. p \in Range(OwnCircle(Boot, p))  BY <1>2 DEF Syscall
  <2> QED  BY <1>2, <2>1, NotRunnable, ProcFacts DEF OwnCircle
<1>4. reading'[Boot] = "clear"  BY <1>1 DEF ConsoleTypeOK
<1>5. ConsoleTypeOK'  BY <1>1, <1>2 DEF ConsoleTypeOK, shellVars
<1>6. ReadInv'  BY <1>1, <1>2, <1>4 DEF ReadInv
<1>7. ReaderInv'  BY <1>1, <1>2, <1>3 DEF ConsoleInv, ReaderInv, ConsoleTypeOK
<1> QED  BY <1>5, <1>6, <1>7 DEF ConsoleRest

LEMMA ReadClearRest ==
  ASSUME ConsoleInv, ReadClear(Boot)  PROVE ConsoleRest'
<1> USE ConsoleFacts, SameVars
<1>1. /\ UNCHANGED <<vars, fifo, shell_ptr, a0, shellVars>>
      /\ reading' = [reading EXCEPT ![Boot] = "nothing"] /\ uart_buff' = Null
  BY DEF ReadClear, NowReading, BuffAfterRead
<1>2. reading'[Boot] = "nothing"  BY <1>1 DEF ConsoleTypeOK
<1>3. ConsoleTypeOK'  BY <1>1 DEF ConsoleTypeOK, shellVars
<1>4. ReadInv'  BY <1>2 DEF ReadInv
<1>5. ReaderInv'  BY <1>1 DEF ConsoleInv, ReaderInv
<1> QED  BY <1>3, <1>4, <1>5 DEF ConsoleRest

\* The caller goes to sleep with no key, and none has come since it looked.
LEMMA ReadBlockRest ==
  ASSUME ConsoleInv, ReadBlock(Boot)  PROVE ConsoleRest' /\ BlockOnRead(Boot)
<1> DEFINE p == curr[Boot]
<1> USE ConsoleFacts
<1>1. /\ Block(Boot, "blocked") /\ UNCHANGED ticks
      /\ reading[Boot] = "block" /\ reading' = [reading EXCEPT ![Boot] = "nothing"]
      /\ UNCHANGED <<fifo, uart_buff, shell_ptr, a0, shellVars>>
  BY DEF ReadBlock, NowReading
<1>2. /\ Syscall(Boot, "read") /\ p \in Proc /\ a0[p] = Null
      /\ shell_ptr = p /\ uart_buff = Null
  BY <1>1 DEF ConsoleInv, ReadInv
<1>3. BlockOnRead(Boot)  BY <1>1, <1>2 DEF BlockOnRead
<1>4. Leave(Boot, "blocked") /\ "blocked" \in WaitList /\ "read" \in Call
  BY <1>1 DEF Block, WaitList, Call
<1>5. \A t \in Thread : state'[t] = state[t] \/ t = p
  BY <1>2, <1>4, LeaveStates
<1>6. reading'[Boot] = "nothing"  BY <1>1 DEF ConsoleTypeOK
<1>7. ConsoleTypeOK'  BY <1>1 DEF ConsoleTypeOK, shellVars
<1>8. ReadInv'  BY <1>6 DEF ReadInv
<1>9. ReaderInv'  BY <1>1, <1>2, <1>5 DEF ConsoleInv, ReaderInv
<1> QED  BY <1>3, <1>7, <1>8, <1>9 DEF ConsoleRest

LEMMA OthersRest ==
  ASSUME ConsoleInv, Others(Boot)  PROVE ConsoleRest' /\ Step(Boot)
<1> USE ConsoleFacts
<1>1. /\ reading[Boot] = "nothing"
      /\ UNCHANGED <<fifo, uart_buff, a0, reading, shellVars>>
  BY DEF Others
<1>2. /\ ReadersStay /\ Step(Boot)
      /\ \/ shell_ptr' = shell_ptr
         \/ shell_ptr' = Shell /\ state'[Shell] = "ready"
  BY OthersStay
<1>3. ConsoleTypeOK'  BY <1>1, <1>2 DEF ConsoleTypeOK, shellVars
<1>4. ReadInv'  BY <1>1 DEF ReadInv
<1>5. ReaderInv'  BY <1>1, <1>2 DEF ConsoleInv, ReaderInv, ReadersStay
<1> QED  BY <1>2, <1>3, <1>4, <1>5 DEF ConsoleRest

LEMMA UseKeyRest ==
  ASSUME ConsoleInv, UseKey(Boot)  PROVE ConsoleRest'
<1> DEFINE p == curr[Boot]
<1> USE ConsoleFacts, SameVars
<1>1. /\ UNCHANGED <<vars, fifo, uart_buff, shell_ptr, reading>>
      /\ reading[Boot] = "nothing" /\ p \in Proc /\ a0[p] # Null
      /\ a0' = [a0 EXCEPT ![p] = Null]
      /\ UNCHANGED shellVars \/ Edit(a0[p])
  BY DEF UseKey
<1>2. /\ cmd_buffer' \in [0..LineMax - 1 -> Char \cup {NUL}]
      /\ cmd_idx' \in 0..LineMax - 1
  <2>1. CASE UNCHANGED shellVars  BY <2>1 DEF shellVars, ConsoleTypeOK
  <2>2. CASE Edit(a0[p])
    <3> DEFINE k == a0[p]
    <3> HIDE DEF k
    <3>1. /\ cmd_buffer \in [0..LineMax - 1 -> Char \cup {NUL}]
          /\ cmd_idx \in 0..LineMax - 1 /\ LineMax \in Nat \ {0}
      BY ConsoleAssumption DEF ConsoleTypeOK
    <3>2. \/ cmd_buffer' = cmd_buffer /\ cmd_idx' = cmd_idx
          \/ cmd_buffer' = cmd_buffer /\ cmd_idx' = IF cmd_idx > 0 THEN cmd_idx - 1 ELSE 0
          \/ cmd_buffer' = [cmd_buffer EXCEPT ![cmd_idx] = NUL] /\ cmd_idx' = 0
          \/ /\ k \in Char \cup {NUL} /\ cmd_idx < LineMax - 1
             /\ cmd_buffer' = [cmd_buffer EXCEPT ![cmd_idx] = k] /\ cmd_idx' = cmd_idx + 1
      BY <2>2 DEF Edit, LineHasRoom, Terminated, k
    <3>3. cmd_idx' \in 0..LineMax - 1  BY <3>1, <3>2
    <3>4. cmd_buffer' \in [0..LineMax - 1 -> Char \cup {NUL}]
      BY <3>1, <3>2
    <3> QED  BY <3>3, <3>4
  <2> QED  BY <1>1, <2>1, <2>2
<1>3. ConsoleTypeOK'  BY <1>1, <1>2 DEF ConsoleTypeOK
<1>4. ReadInv'  BY <1>1 DEF ReadInv
<1>5. ReaderInv'  BY <1>1 DEF ConsoleInv, ReaderInv, ConsoleTypeOK
<1> QED  BY <1>3, <1>4, <1>5 DEF ConsoleRest

-----------------------------------------------------------------------------
LEMMA StepConsole ==
  ASSUME ConsoleInv, ConsoleNext  PROVE ConsoleRest' /\ [Next]_vars
<1>1. CASE \E k \in Key : Typed(k)  BY <1>1, TypedRest DEF Typed
<1>2. CASE ConsoleStep(Boot)
  <2>1. Boot \in Hart /\ Intact  BY ConsoleFacts DEF ConsoleNext
  <2>2. CASE UartInterrupt(Boot)
    <3>1. ConsoleRest'  BY <2>2, UartRest
    <3>2. UNCHANGED vars \/ \E p \in Proc : WakeReader(Boot, p)
      BY <2>2, UartStates
    <3> QED  BY <2>1, <3>1, <3>2 DEF Next, Step
  <2>3. CASE ReadTest(Boot)  BY <2>3, ReadTestRest DEF ReadTest
  <2>4. CASE ReadGive(Boot)  BY <2>4, ReadGiveRest DEF ReadGive
  <2>5. CASE ReadClear(Boot)  BY <2>5, ReadClearRest DEF ReadClear
  <2>6. CASE ReadBlock(Boot)  BY <2>1, <2>6, ReadBlockRest DEF Next, Step, User
  <2>7. CASE UseKey(Boot)  BY <2>7, UseKeyRest DEF UseKey
  <2>8. CASE Others(Boot)  BY <2>1, <2>8, OthersRest DEF Next
  <2> QED
    BY <1>2, <2>2, <2>3, <2>4, <2>5, <2>6, <2>7, <2>8 DEF ConsoleStep
<1> QED  BY <1>1, <1>2, ConsoleFacts DEF ConsoleNext, OneHart

LEMMA NextConsole ==
  ASSUME ConsoleInv, [ConsoleNext]_<<vars, consoleVars>>
  PROVE  ConsoleInv' /\ [Next]_vars
<1>1. CASE ConsoleNext
  <2>1. ConsoleRest' /\ [Next]_vars  BY <1>1, StepConsole
  <2>2. OneHartInv'  BY <2>1, NextOne DEF ConsoleInv
  <2> QED  BY <2>1, <2>2 DEF ConsoleInv, ConsoleRest
<1>2. CASE UNCHANGED <<vars, consoleVars>>
  <2>1. OneHartInv'  BY <1>2, NextOne DEF ConsoleInv
  <2>2. ConsoleTypeOK'  BY <1>2 DEF ConsoleInv, ConsoleTypeOK, consoleVars
  <2>3. ReadInv'  BY <1>2, SameVars DEF ConsoleInv, ReadInv, consoleVars
  <2>4. ReaderInv'  BY <1>2, SameVars DEF ConsoleInv, ReaderInv, consoleVars
  <2> QED  BY <1>2, <2>1, <2>2, <2>3, <2>4 DEF ConsoleInv
<1> QED  BY <1>1, <1>2

LEMMA InitConsole ==
  ASSUME OneHart, ConsoleInit  PROVE ConsoleInv
<1>1. OneHartInv  BY InitOne DEF ConsoleInit
<1>2. Boot \in Hart /\ Proc \subseteq Thread  BY SchedulerAssumption, ProcFacts
<1>3. ConsoleTypeOK
  <2>1. <<>> \in Seq(Key) /\ Len(<<>>) = 0  OBVIOUS
  <2> QED  BY <2>1, ConsoleAssumption DEF ConsoleInit, ConsoleTypeOK
<1>4. ReadInv  BY <1>2 DEF ConsoleInit, ReadInv
<1>5. \A p \in Proc : state[p] = "unborn"  BY <1>2 DEF ConsoleInit, Init
<1>6. ReaderInv  BY <1>5 DEF ReaderInv
<1> QED  BY <1>1, <1>3, <1>4, <1>6 DEF ConsoleInv

THEOREM ConsoleTheorem == OneHart /\ ConsoleSpec => []ConsoleInv
<1>1. OneHart /\ ConsoleInit => ConsoleInv  BY InitConsole
<1>2. ConsoleInv /\ [ConsoleNext]_<<vars, consoleVars>> => ConsoleInv'
  BY NextConsole
<1> QED  BY <1>1, <1>2, PTL DEF ConsoleSpec

\* While a key is kept in uart_buff, the process that is to get it is not
\* asleep, however interrupts and calls of read interleave.
THEOREM NoKeyMissedTheorem == OneHart /\ ConsoleSpec => []NoKeyMissed
<1>1. ConsoleInv => NoKeyMissed
  BY DEF ConsoleInv, ReaderInv, NoKeyMissed, ConsoleTypeOK
<1> QED  BY <1>1, ConsoleTheorem, PTL

\* Reading keys changes the queues only as Scheduler lets a process change them.
THEOREM ConsoleImplementsScheduler == OneHart /\ ConsoleSpec => Spec
<1>1. ConsoleInit => Init  BY DEF ConsoleInit
<1>2. ConsoleInv /\ [ConsoleNext]_<<vars, consoleVars>> => [Next]_vars
  BY NextConsole
<1> QED  BY <1>1, <1>2, ConsoleTheorem, PTL DEF ConsoleSpec, Spec

-----------------------------------------------------------------------------
(* Keys arrive in the order they were typed *)

LEMMA StepShell ==
  ASSUME ConsoleInv, ShellInv, [ConsoleNext]_<<vars, consoleVars>>
  PROVE  ShellInv'
<1> USE ConsoleFacts
<1>1. OnlyShellReads' /\ OnlyShellReads  BY DEF ShellInv, OnlyShellReads
<1>2. /\ shell_ptr' \in {shell_ptr, Shell}
      /\ \A p \in Proc : a0'[p] = a0[p] \/ a0'[p] = Null \/ p = Shell
  <2>1. CASE UNCHANGED <<vars, consoleVars>>  BY <2>1 DEF consoleVars
  <2>2. CASE \E k \in Key : Typed(k)  BY <2>2 DEF Typed
  <2>3. CASE UartInterrupt(Boot)
    BY <2>3, UartStates DEF ShellInv, ConsoleTypeOK
  <2>4. CASE ReadTest(Boot)
    BY <1>1, <2>4 DEF ReadTest, Syscall, OnlyShellReads
  <2>5. CASE ReadGive(Boot)
    BY <1>1, <2>5 DEF ReadGive, ConsoleInv, ReadInv, Syscall, OnlyShellReads, ConsoleTypeOK
  <2>6. CASE ReadClear(Boot) \/ ReadBlock(Boot)  BY <2>6 DEF ReadClear, ReadBlock
  <2>7. CASE UseKey(Boot)  BY <2>7 DEF UseKey, ConsoleTypeOK
  <2>8. CASE Others(Boot)  BY <2>8, OthersStay DEF Others
  <2> QED
    BY <2>1, <2>2, <2>3, <2>4, <2>5, <2>6, <2>7, <2>8 DEF ConsoleNext, ConsoleStep, OneHart
<1> QED  BY <1>1, <1>2 DEF ShellInv

\* A queue of at most two keys: the one the shell was given, the one kept for it
Pair(a, b) == (IF a = Null THEN <<>> ELSE <<a>>) \o (IF b = Null THEN <<>> ELSE <<b>>)

ButLast(q) == [i \in 1..Len(q) - 1 |-> q[i]]

Kept == IF reading[Boot] = "clear" THEN Null ELSE uart_buff

LEMMA PairFacts ==
  ASSUME NEW a, NEW b
  PROVE  /\ a = Null /\ b = Null => Pair(a, b) = <<>>
         /\ a = Null /\ b # Null => Pair(a, b) = <<b>>
         /\ a # Null /\ b = Null => Pair(a, b) = <<a>>
         /\ a # Null /\ b # Null => Pair(a, b) = <<a, b>>
<1>1. <<>> \o <<>> = <<>>  OBVIOUS
<1>2. <<>> \o <<b>> = <<b>>  OBVIOUS
<1>3. <<a>> \o <<>> = <<a>>  OBVIOUS
<1>4. <<a>> \o <<b>> = <<a, b>>
  <2> DEFINE s == <<a>> \o <<b>>
  <2>1. <<a>> \in Seq({a, b}) /\ <<b>> \in Seq({a, b})  OBVIOUS
  <2>2. Len(<<a>>) = 1 /\ Len(<<b>>) = 1  OBVIOUS
  <2>3. s \in Seq({a, b}) /\ Len(s) = 2 /\ s[1] = a /\ s[2] = b
    BY <2>1, <2>2
  <2> HIDE DEF s
  <2>4. s = <<a, b>>  BY <2>3
  <2> QED  BY <2>4 DEF s
<1> QED  BY <1>1, <1>2, <1>3, <1>4, Zenon DEF Pair

LEMMA QueueIsPair ==
  ASSUME OneHart, Shell \in Proc
  PROVE  /\ ShellInv => Queue = Pair(a0[Shell], Kept)
         /\ ShellInv' => Queue' = Pair(a0'[Shell], Kept')
<1>1. ASSUME ShellInv  PROVE Queue = Pair(a0[Shell], Kept)
  <2>1. Given = IF a0[Shell] = Null THEN {} ELSE {Shell}
    BY <1>1 DEF Given, ShellInv
  <2>2. (CHOOSE p \in {Shell} : TRUE) = Shell /\ {Shell} # {}  OBVIOUS
  <2>3. (\E h \in Hart : reading[h] = "clear") <=> reading[Boot] = "clear"  BY DEF OneHart
  <2> QED  BY <2>1, <2>2, <2>3 DEF Queue, Pair, Kept
<1>2. ASSUME ShellInv'  PROVE Queue' = Pair(a0'[Shell], Kept')
  <2>1. Given' = IF a0'[Shell] = Null THEN {} ELSE {Shell}
    BY <1>2 DEF Given, ShellInv
  <2>2. (CHOOSE p \in {Shell} : TRUE) = Shell /\ {Shell} # {}  OBVIOUS
  <2>3. (\E h \in Hart : reading'[h] = "clear") <=> reading'[Boot] = "clear"  BY DEF OneHart
  <2> QED  BY <2>1, <2>2, <2>3 DEF Queue, Pair, Kept
<1> QED  BY <1>1, <1>2

LEMMA AppendOne ==
  ASSUME NEW a, NEW k
  PROVE  Append(<<a>>, k) = <<a, k>>
<1>1. \A s \in Seq({a, k}) : Len(s) = 2 /\ s[1] = a /\ s[2] = k => s = <<a, k>>
  OBVIOUS
<1>2. /\ Append(<<a>>, k) \in Seq({a, k}) /\ Len(Append(<<a>>, k)) = 2
      /\ Append(<<a>>, k)[1] = a /\ Append(<<a>>, k)[2] = k
  <2>1. <<a>> \in Seq({a, k}) /\ Len(<<a>>) = 1  OBVIOUS
  <2> QED  BY <2>1
<1> QED  BY <1>1, <1>2, Zenon

\* What arrives goes to a reader that sleeps, ...
LEMMA PairGive ==
  ASSUME NEW k, k # Null
  PROVE  Pair(k, Null) = Append(Pair(Null, Null), k)
<1>1. Append(<<>>, k) = <<k>>  OBVIOUS
<1> QED  BY <1>1, PairFacts, Zenon

\* ... or behind the key the shell was given, ...
LEMMA PairKeep ==
  ASSUME NEW a, NEW k, k # Null
  PROVE  Pair(a, k) = Append(Pair(a, Null), k)
<1>0. Append(<<>>, k) = <<k>>  OBVIOUS
<1>1. Append(<<a>>, k) = <<a, k>>  BY AppendOne, Zenon
<1> QED  BY <1>0, <1>1, PairFacts, Zenon

\* ... where it replaces a key that was kept.
LEMMA PairReplace ==
  ASSUME NEW a, NEW b, NEW k, b # Null, k # Null
  PROVE  /\ Pair(a, b) # <<>>
         /\ Pair(a, k) = Append(ButLast(Pair(a, b)), k)
<1>0. Append(<<>>, k) = <<k>>  OBVIOUS
<1>1. Append(<<a>>, k) = <<a, k>>  BY AppendOne, Zenon
<1>2. ButLast(<<b>>) = <<>>  BY DEF ButLast
<1>3. ButLast(<<a, b>>) = <<a>>  BY DEF ButLast
<1>4. <<b>> # <<>> /\ <<a, b>> # <<>>  OBVIOUS
<1>5. CASE a = Null
  <2>1. Pair(a, b) = <<b>> /\ Pair(a, k) = <<k>>  BY <1>5, PairFacts, Zenon
  <2> QED  BY <1>0, <1>1, <1>2, <1>4, <2>1, Zenon
<1>6. CASE a # Null
  <2>1. Pair(a, b) = <<a, b>> /\ Pair(a, k) = <<a, k>>  BY <1>6, PairFacts, Zenon
  <2> QED  BY <1>0, <1>1, <1>3, <1>4, <2>1, Zenon
<1> QED  BY <1>5, <1>6

\* A key that is not kept goes, and with it the one that was.
LEMMA PairDrop ==
  ASSUME NEW a, NEW b, b # Null
  PROVE  Pair(a, Null) = ButLast(Pair(a, b))
<1>1. ButLast(<<b>>) = <<>>  BY DEF ButLast
<1>2. ButLast(<<a, b>>) = <<a>>  BY DEF ButLast
<1>3. CASE a = Null  BY <1>1, <1>3, PairFacts, Zenon
<1>4. CASE a # Null  BY <1>2, <1>4, PairFacts, Zenon
<1> QED  BY <1>3, <1>4

LEMMA PairGet ==
  ASSUME NEW a, NEW b, a # Null
  PROVE  Pair(a, b) # <<>> /\ Pair(Null, b) = Tail(Pair(a, b))
<1>1. /\ Tail(<<a>>) = <<>> /\ Tail(<<a, b>>) = <<b>>
      /\ <<a>> # <<>> /\ <<a, b>> # <<>>
  OBVIOUS
<1>2. CASE b = Null  BY <1>1, <1>2, PairFacts, Zenon
<1>3. CASE b # Null  BY <1>1, <1>3, PairFacts, Zenon
<1> QED  BY <1>2, <1>3

LEMMA UartKeys ==
  ASSUME ConsoleInv, ShellInv, ShellInv', UartInterrupt(Boot)
  PROVE  Keys!Arrive
<1> DEFINE a == a0[Shell]
           b == Kept
           k == Head(fifo)
<1>1. OneHart /\ Shell \in Proc /\ Null \notin Key /\ Shell # Null
  BY ConsoleFacts
<1>2. fifo # <<>> /\ fifo' = Tail(fifo) /\ k \in Key /\ k # Null
  BY <1>1, UartStates
<1>3. reading[Boot] = "nothing" /\ reading'[Boot] = "nothing"  BY UartStates
<1>4. Queue = Pair(a, b) /\ Queue' = Pair(a0'[Shell], Kept')  BY <1>1, QueueIsPair
<1>5. b = uart_buff /\ Kept' = uart_buff'  BY <1>3 DEF Kept
<1>6. \/ a = Null /\ b = Null /\ a0'[Shell] = k /\ Kept' = b
      \/ a0'[Shell] = a /\ Kept' = Buffered(k)
  BY <1>1, <1>5, UartStates DEF ConsoleInv, ReaderInv, ShellInv, ConsoleTypeOK
<1> HIDE DEF a, b, k
<1>7. CASE a = Null /\ b = Null /\ a0'[Shell] = k /\ Kept' = b
  <2>1. Pair(k, Null) = Append(Pair(Null, Null), k)  BY <1>2, PairGive
  <2> QED  BY <1>2, <1>4, <1>7, <2>1 DEF Keys!Arrive, k
<1>8. CASE a0'[Shell] = a /\ Kept' = Buffered(k) /\ k # NUL /\ b = Null
  <2>1. Pair(a, k) = Append(Pair(a, Null), k)  BY <1>2, PairKeep
  <2> QED  BY <1>2, <1>4, <1>8, <2>1 DEF Keys!Arrive, k, Buffered
<1>9. CASE a0'[Shell] = a /\ Kept' = Buffered(k) /\ k # NUL /\ b # Null
  <2>1. /\ Pair(a, b) # <<>>
        /\ Pair(a, k) = Append(ButLast(Pair(a, b)), k)
    BY <1>2, <1>9, PairReplace
  <2>2. Queue # <<>> /\ Queue' = Append(Keys!Kept, k)
    BY <1>4, <1>9, <2>1 DEF Keys!Kept, ButLast, Buffered
  <2> QED  BY <1>2, <2>2 DEF Keys!Arrive, k
<1>10. CASE a0'[Shell] = a /\ Kept' = Buffered(k) /\ k = NUL
  <2>1. Queue' = Pair(a, Null) /\ k \in {NUL}  BY <1>4, <1>10 DEF Buffered
  <2>2. b = Null => Queue' = Queue  BY <1>4, <2>1
  <2>3. b # Null => Queue' = Keys!Kept
    BY <1>4, <2>1, PairDrop DEF Keys!Kept, ButLast
  <2> QED  BY <1>2, <2>1, <2>2, <2>3 DEF Keys!Arrive, k
<1> QED  BY <1>6, <1>7, <1>8, <1>9, <1>10

\* The other steps of the kernel leave the keys that wait as they are.
LEMMA QuietKeys ==
  ASSUME ConsoleInv, ShellInv, ShellInv',
         \/ UNCHANGED <<vars, consoleVars>>
         \/ ReadTest(Boot) \/ ReadGive(Boot) \/ ReadClear(Boot) \/ ReadBlock(Boot)
         \/ Others(Boot)
  PROVE  UNCHANGED <<fifo, Queue>>
<1>1. OneHart /\ Shell \in Proc /\ Null \notin Key /\ ConsoleTypeOK /\ ReadInv
  BY ConsoleFacts DEF ConsoleInv
<1>2. Queue = Pair(a0[Shell], Kept) /\ Queue' = Pair(a0'[Shell], Kept')
  BY <1>1, QueueIsPair
<1>3. CASE UNCHANGED <<vars, consoleVars>>
  BY <1>2, <1>3 DEF Kept, consoleVars
<1>4. CASE ReadTest(Boot)
  BY <1>1, <1>2, <1>4, ConsoleFacts DEF ReadTest, NowReading, Kept, ConsoleTypeOK
<1>5. CASE ReadGive(Boot)
  <2>1. /\ reading[Boot] = "give" /\ reading' = [reading EXCEPT ![Boot] = "clear"]
        /\ a0' = [a0 EXCEPT ![curr[Boot]] = uart_buff] /\ fifo' = fifo
    BY <1>1, <1>5 DEF ReadGive, NowReading, ReadInv
  <2>2. curr[Boot] = Shell /\ a0[Shell] = Null /\ uart_buff # Null
    BY <1>1, <2>1 DEF ReadInv, Syscall, ShellInv, OnlyShellReads
  <2>3. a0'[Shell] = uart_buff /\ Kept = uart_buff /\ Kept' = Null
    BY <1>1, <2>1, <2>2, ConsoleFacts DEF Kept, ConsoleTypeOK
  <2>4. Pair(Null, uart_buff) = <<uart_buff>> /\ Pair(uart_buff, Null) = <<uart_buff>>
    BY <2>2, PairFacts, Zenon
  <2> QED  BY <1>2, <2>1, <2>2, <2>3, <2>4
<1>6. CASE ReadClear(Boot)
  BY <1>1, <1>2, <1>6, ConsoleFacts DEF ReadClear, NowReading, BuffAfterRead, Kept, ConsoleTypeOK
<1>7. CASE ReadBlock(Boot)
  BY <1>1, <1>2, <1>7, ConsoleFacts DEF ReadBlock, NowReading, Kept, ConsoleTypeOK
<1>8. CASE Others(Boot)
  BY <1>2, <1>8 DEF Others, Kept
<1> QED  BY <1>3, <1>4, <1>5, <1>6, <1>7, <1>8

LEMMA StepKeys ==
  ASSUME ConsoleInv, ShellInv, ShellInv', [ConsoleNext]_<<vars, consoleVars>>
  PROVE  [Keys!Next]_<<fifo, Queue>>
<1>1. OneHart /\ Shell \in Proc  BY ConsoleFacts
<1>2. Queue = Pair(a0[Shell], Kept) /\ Queue' = Pair(a0'[Shell], Kept')
  BY <1>1, QueueIsPair
<1>3. CASE \E k \in Key : Typed(k)
  <2>1. PICK k \in Key : Typed(k)  BY <1>3
  <2>2. fifo' = Append(fifo, k) /\ UNCHANGED <<a0, reading, uart_buff>>
    BY <2>1 DEF Typed
  <2>3. Queue' = Queue  BY <1>2, <2>2 DEF Kept
  <2> QED  BY <2>2, <2>3 DEF Keys!Next, Keys!Type
<1>4. CASE UartInterrupt(Boot)  BY <1>4, UartKeys DEF Keys!Next
<1>5. CASE UseKey(Boot)
  <2>1. /\ UNCHANGED <<fifo, uart_buff, reading>>
        /\ curr[Boot] \in Proc /\ a0[curr[Boot]] # Null
        /\ a0' = [a0 EXCEPT ![curr[Boot]] = Null]
    BY <1>5 DEF UseKey
  <2>2. a0[Shell] # Null /\ a0'[Shell] = Null /\ Kept' = Kept
    BY <1>1, <2>1, ConsoleFacts DEF ShellInv, Kept, ConsoleTypeOK
  <2>3. Queue # <<>> /\ Queue' = Tail(Queue)  BY <1>2, <2>2, PairGet, Zenon
  <2> QED  BY <2>1, <2>3 DEF Keys!Next, Keys!Get
<1> QED
  BY <1>1, <1>3, <1>4, <1>5, QuietKeys DEF ConsoleNext, ConsoleStep, OneHart

\* The shell gets the keys in the order they were typed and none twice, although
\* they come through the trap frame of a blocked reader and through uart_buff.  A
\* NUL may be lost, and the key kept in uart_buff with it.
THEOREM KeyQueueTheorem == OneHart /\ OnlyShellReads /\ ConsoleSpec => ImplementsKeyQueue
<1>1. OneHart /\ OnlyShellReads /\ ConsoleInit => Keys!Init /\ ShellInv
  <2> SUFFICES ASSUME OneHart, OnlyShellReads, ConsoleInit  PROVE Keys!Init /\ ShellInv
    OBVIOUS
  <2>1. ShellInv  BY DEF ConsoleInit, ShellInv
  <2>2. Shell \in Proc  BY ConsoleAssumption
  <2>3. Queue = Pair(a0[Shell], Kept)  BY <2>1, <2>2, QueueIsPair
  <2>4. a0[Shell] = Null /\ Kept = Null /\ fifo = <<>>  BY <2>2 DEF ConsoleInit, Kept
  <2>5. Queue = <<>>  BY <2>3, <2>4, PairFacts, Zenon
  <2> QED  BY <2>1, <2>4, <2>5 DEF Keys!Init
<1>2. ConsoleInv /\ ShellInv /\ [ConsoleNext]_<<vars, consoleVars>> => ShellInv'
  BY StepShell
<1>3. ConsoleInv /\ ShellInv /\ ShellInv' /\ [ConsoleNext]_<<vars, consoleVars>>
        => [Keys!Next]_<<fifo, Queue>>
  BY StepKeys
<1> QED
  BY <1>1, <1>2, <1>3, ConsoleTheorem, PTL DEF ConsoleSpec, ImplementsKeyQueue, Keys!Spec

-----------------------------------------------------------------------------
(* The shell's line, whatever the harts do *)

LEMMA EditLine ==
  ASSUME LineInv, NEW k, Edit(k)
  PROVE  LineInv'
<1> DEFINE n == cmd_idx
<1>1. LineMax \in Nat \ {0}  BY ConsoleAssumption
<1>2. /\ n \in 0..LineMax - 1 /\ cmd_buffer \in [0..LineMax - 1 -> Char \cup {NUL}]
      /\ text \in Seq(Char \cup {NUL}) /\ Len(text) = n
      /\ \A i \in 0..n - 1 : cmd_buffer[i] = text[i + 1]
  BY DEF LineInv
<1>3. CASE k = "erase" /\ cmd_buffer' = cmd_buffer
           /\ cmd_idx' = (IF n > 0 THEN n - 1 ELSE 0)
           /\ text' = [i \in 1..Len(text) - 1 |-> text[i]]
  <2>1. cmd_idx' \in 0..LineMax - 1 /\ cmd_idx' <= n  BY <1>1, <1>2, <1>3
  <2>2. 1..Len(text) - 1 = 1..cmd_idx'  BY <1>2, <1>3
  <2>3. \A i \in 1..cmd_idx' : text[i] \in Char \cup {NUL}  BY <1>2, <2>1
  <2>4. text' = [i \in 1..cmd_idx' |-> text[i]]  BY <1>3, <2>2
  <2>5. text' \in Seq(Char \cup {NUL}) /\ Len(text') = cmd_idx'
    <3> DEFINE m == cmd_idx'
    <3>1. m \in Nat  BY <2>1
    <3> HIDE DEF m
    <3>2. [i \in 1..m |-> text[i]] \in Seq(Char \cup {NUL}) /\ Len([i \in 1..m |-> text[i]]) = m
      BY <2>3, <3>1 DEF m
    <3> QED  BY <2>4, <3>2 DEF m
  <2>6. \A i \in 0..cmd_idx' - 1 : cmd_buffer'[i] = text'[i + 1]
    BY <1>2, <1>3, <2>1, <2>4
  <2> QED  BY <1>2, <1>3, <2>1, <2>5, <2>6 DEF LineInv
<1>4. CASE cmd_buffer' = [cmd_buffer EXCEPT ![n] = NUL] /\ cmd_idx' = 0 /\ text' = <<>>
  <2>1. text' \in Seq(Char \cup {NUL}) /\ Len(text') = 0  BY <1>4
  <2>2. cmd_buffer' \in [0..LineMax - 1 -> Char \cup {NUL}]  BY <1>2, <1>4
  <2> QED  BY <1>1, <1>4, <2>1, <2>2 DEF LineInv
<1>5. CASE /\ k \in Char \cup {NUL} /\ n < LineMax - 1
           /\ cmd_buffer' = [cmd_buffer EXCEPT ![n] = k]
           /\ cmd_idx' = n + 1 /\ text' = Append(text, k)
  <2>1. /\ text' \in Seq(Char \cup {NUL}) /\ Len(text') = n + 1
        /\ text'[n + 1] = k /\ \A i \in 1..n : text'[i] = text[i]
    BY <1>2, <1>5
  <2>2. cmd_buffer' \in [0..LineMax - 1 -> Char \cup {NUL}]  BY <1>2, <1>5
  <2>3. \A i \in 0..n : cmd_buffer'[i] = text'[i + 1]
    BY <1>1, <1>2, <1>5, <2>1
  <2> QED  BY <1>1, <1>2, <1>5, <2>1, <2>2, <2>3 DEF LineInv
<1>6. CASE UNCHANGED <<cmd_buffer, cmd_idx, text>>  BY <1>6 DEF LineInv
<1> QED  BY <1>3, <1>4, <1>5, <1>6 DEF Edit, LineHasRoom, Terminated

LEMMA NextLine ==
  ASSUME LineInv, [ConsoleNext]_<<vars, consoleVars>>
  PROVE  LineInv'
<1>1. CASE UNCHANGED shellVars  BY <1>1 DEF shellVars, LineInv
<1>2. ASSUME NEW h \in Hart, UseKey(h)  PROVE LineInv'
  <2>1. UNCHANGED shellVars \/ Edit(a0[curr[h]])  BY <1>2 DEF UseKey
  <2> QED  BY <1>1, <2>1, EditLine
<1>3. UNCHANGED shellVars \/ \E h \in Hart : UseKey(h)
  BY DEF ConsoleNext, ConsoleStep, consoleVars, shellVars, Typed, UartInterrupt,
         ReadTest, ReadGive, ReadClear, ReadBlock, Others
<1> QED  BY <1>1, <1>2, <1>3

\* enter puts a NUL at cmd_idx: the first one is there, or before it in the line.
LEMMA EnterLine ==
  ASSUME LineInv, Edit("enter")
  PROVE  (\E i \in DOMAIN cmd_buffer : cmd_buffer'[i] = NUL) /\ IsUpToNUL(CString', text)
<1> DEFINE n == cmd_idx
           b == cmd_buffer'
<1>1. LineMax \in Nat \ {0} /\ "enter" \notin Char \cup {NUL}
  BY ConsoleAssumption DEF NUL
<1>2. /\ n \in 0..LineMax - 1 /\ cmd_buffer \in [0..LineMax - 1 -> Char \cup {NUL}]
      /\ text \in Seq(Char \cup {NUL}) /\ Len(text) = n
      /\ \A i \in 0..n - 1 : cmd_buffer[i] = text[i + 1]
  BY DEF LineInv
<1>3. b = [cmd_buffer EXCEPT ![n] = NUL]  BY <1>1 DEF Edit, Terminated
<1>4. /\ b[n] = NUL /\ DOMAIN b = 0..LineMax - 1 /\ DOMAIN cmd_buffer = 0..LineMax - 1
      /\ \A i \in 0..n - 1 : b[i] = text[i + 1]
  BY <1>1, <1>2, <1>3
<1> DEFINE First(i) == b[i] = NUL /\ \A j \in 0..i - 1 : b[j] # NUL
           end == CHOOSE i \in DOMAIN b : First(i)
           S == {i \in 0..n : b[i] = NUL}
<1> HIDE DEF b
<1>5. \E i \in DOMAIN b : First(i)
  <2>1. S \in SUBSET Nat /\ n \in S  BY <1>2, <1>4
  <2> DEFINE m == Least(S)
  <2>2. m \in S /\ \A j \in S : m <= j  BY <2>1, LeastFacts
  <2> HIDE DEF m
  <2>3. m \in 0..n /\ b[m] = NUL  BY <2>2
  <2>4. ASSUME NEW j \in 0..m - 1, b[j] = NUL  PROVE FALSE
    <3>1. j \in 0..n  BY <1>2, <2>3
    <3>2. j \in S  BY <2>4, <3>1
    <3> QED  BY <1>2, <2>2, <2>3, <2>4, <3>2
  <2>5. m \in DOMAIN b  BY <1>1, <1>2, <1>4, <2>3
  <2> QED  BY <2>3, <2>4, <2>5
<1>6. end \in DOMAIN b /\ First(end)
  <2> HIDE DEF First
  <2> QED  BY <1>5
<1> HIDE DEF end
<1>7. end \in 0..n
  <2>1. end \in 0..LineMax - 1 /\ ~(n \in 0..end - 1)  BY <1>4, <1>6
  <2> QED  BY <1>2, <2>1
<1>8. \A i \in 1..end : b[i - 1] = text[i] /\ text[i] # NUL
  <2> SUFFICES ASSUME NEW i \in 1..end  PROVE b[i - 1] = text[i] /\ text[i] # NUL
    OBVIOUS
  <2>1. i - 1 \in 0..n - 1 /\ i - 1 \in 0..end - 1 /\ (i - 1) + 1 = i  BY <1>2, <1>7
  <2> QED  BY <1>4, <1>6, <2>1
<1>9. end < Len(text) => text[end + 1] = NUL
  <2> SUFFICES ASSUME end < n  PROVE text[end + 1] = NUL  BY <1>2
  <2>1. end \in 0..n - 1  BY <1>2, <1>7
  <2> QED  BY <1>4, <1>6, <2>1
<1>10. CString' = [i \in 1..end |-> b[i - 1]]  BY DEF CString, end, b
<1>11. CString' = [i \in 1..end |-> text[i]]  BY <1>8, <1>10
<1>12. IsUpToNUL(CString', text)
  <2>1. end \in 0..Len(text)  BY <1>2, <1>7
  <2> QED  BY <1>8, <1>9, <1>11, <2>1 DEF IsUpToNUL
<1>13. n \in DOMAIN cmd_buffer /\ b[n] = NUL  BY <1>2, <1>4
<1> QED  BY <1>12, <1>13 DEF b

\* cmd_parser is called with the line as it shows on the screen, up to the first
\* NUL typed in it, ended within the buffer, on any number of harts.
THEOREM CommandTheorem == ConsoleSpec => CommandIsLine
<1>1. ConsoleInit => LineInv
  <2> SUFFICES ASSUME ConsoleInit  PROVE LineInv  OBVIOUS
  <2>1. <<>> \in Seq(Char \cup {NUL}) /\ Len(<<>>) = 0  OBVIOUS
  <2> QED  BY <2>1, ConsoleAssumption DEF ConsoleInit, LineInv
<1>2. LineInv /\ [ConsoleNext]_<<vars, consoleVars>> => LineInv'
  BY NextLine
<1>3. LineInv /\ [ConsoleNext]_<<vars, consoleVars>> =>
        [\A h \in Hart :
           UseKey(h) /\ curr[h] = Shell /\ a0[Shell] = "enter" =>
             /\ \E i \in DOMAIN cmd_buffer : cmd_buffer'[i] = NUL
             /\ IsUpToNUL(CString', text)]_consoleVars
  <2>1. ASSUME LineInv, NEW h \in Hart, UseKey(h), curr[h] = Shell, a0[Shell] = "enter"
        PROVE  (\E i \in DOMAIN cmd_buffer : cmd_buffer'[i] = NUL) /\ IsUpToNUL(CString', text)
    <3>1. Edit("enter")  BY <2>1 DEF UseKey
    <3> QED  BY <2>1, <3>1, EnterLine
  <2> QED  BY <2>1
<1> QED  BY <1>1, <1>2, <1>3, PTL DEF ConsoleSpec, CommandIsLine
=============================================================================
