-------------------------------- MODULE Ipc --------------------------------
(***************************************************************************)
(* Messages between processes: the system calls send (8) and recv (9) of   *)
(* strap_router in kernel/main.c, on top of Scheduler.                     *)
(*                                                                         *)
(* Every process has one mailbox.  Neither the mailbox nor mailbox_status  *)
(* is under a lock: a call first looks at the status and acts on it later, *)
(* with interrupts off, but not alone.  doing[h] is what hart h is about to *)
(* do in the middle of a call.                                             *)
(***************************************************************************)
EXTENDS Scheduler

CONSTANTS
  Body,     \* what a message may say
  MaySend   \* pairs <<p, q>>: p has write rights on q, and q read rights on p

VARIABLES
  mailbox,   \* mailbox[p]
  full,      \* full[p]: mailbox_status
  pending,   \* pending[p]: ipc_pending_pid
  sending,   \* the send p is in, or makes again when it runs (epc -= 4)
  doing,
  expects,   \* history: p called recv and has not been given a message
  got        \* history: the last message p was given

ipcVars == <<mailbox, full, pending, sending, doing, expects, got>>

Message == [from : Proc, body : Body]
Send    == [to : Proc, body : Body]

ASSUME IpcAssumption == Null \notin Message \cup Send

IpcTypeOK ==
  /\ mailbox \in [Proc -> Message \cup {Null}]
  /\ full \in [Proc -> BOOLEAN]
  /\ pending \in [Proc -> Proc \cup {Null}]
  /\ sending \in [Proc -> Send \cup {Null}]
  /\ doing \in [Hart -> {"nothing", "put", "flag", "wait", "take", "sleep"}]
  /\ expects \in [Proc -> BOOLEAN]
  /\ got \in [Proc -> Message \cup {Null}]

IpcInit ==
  /\ Init
  /\ mailbox = [p \in Proc |-> Null]
  /\ full = [p \in Proc |-> FALSE]
  /\ pending = [p \in Proc |-> Null]
  /\ sending = [p \in Proc |-> Null]
  /\ doing = [h \in Hart |-> "nothing"]
  /\ expects = [p \in Proc |-> FALSE]
  /\ got = [p \in Proc |-> Null]

Do(h, op) == doing' = [doing EXCEPT ![h] = op]

-----------------------------------------------------------------------------
(* send *)

\* get_process_by_pid finds what is in a circle or on a list, zombies apart.
Found(p) == state[p] \notin {"unborn", "zombie", "freed"} /\ ~InTransit(p)

\* Variant: the status is not looked at.
HasRoomAlways(p) == TRUE

HasRoom(p) == ~full[p]

Target(h) == sending[curr[h]].to

\* The call of a process that has not been interrupted in one
SendCall(h, s) ==
  /\ Syscall(h, "send") /\ doing[h] = "nothing" /\ AllFree /\ SleepLockFree
  /\ sending[curr[h]] \in {Null, s}

\* Find the target, check the rights, look at its mailbox_status.
SendTest(h, s) ==
  /\ SendCall(h, s) /\ Found(s.to) /\ <<curr[h], s.to>> \in MaySend
  /\ sending' = [sending EXCEPT ![curr[h]] = s]
  /\ Do(h, IF HasRoom(s.to) THEN "put" ELSE "wait")
  /\ UNCHANGED <<vars, mailbox, full, pending, expects, got>>

\* No target or no rights: send returns -1, which changes nothing but that
\* a call that was to be repeated is over.
SendFails(h, s) ==
  /\ SendCall(h, s) /\ sending[curr[h]] = s
  /\ ~Found(s.to) \/ <<curr[h], s.to>> \notin MaySend
  /\ sending' = [sending EXCEPT ![curr[h]] = Null]
  /\ UNCHANGED <<vars, mailbox, full, pending, doing, expects, got>>

\* Variant: the wrong state number.
WakesBlocked(p) == state[p] = "blocked"

Wakes(p) == state[p] = "recv"

\* The message, with sender_pid set by the kernel
Stamped(h) == [from |-> curr[h], body |-> sending[curr[h]].body]

\* Copy the message and wake the target if it waits for one ...
SendPut(h) ==
  /\ doing[h] = "put"
  /\ mailbox' = [mailbox EXCEPT ![Target(h)] = Stamped(h)]
  /\ IF Wakes(Target(h))
     THEN Wake(h, "recv", Target(h)) /\ UNCHANGED pc
     ELSE UNCHANGED vars
  /\ Do(h, "flag")
  /\ UNCHANGED <<full, pending, sending, expects, got>>

\* Variant: mailbox_status is forgotten.
FlaggedNever(h) == full

Flagged(h) == [full EXCEPT ![Target(h)] = TRUE]

\* ... and only then set its mailbox_status.  send returns 1.
SendFlag(h) ==
  /\ doing[h] = "flag"
  /\ full' = Flagged(h)
  /\ sending' = [sending EXCEPT ![curr[h]] = Null]
  /\ Do(h, "nothing")
  /\ UNCHANGED <<vars, mailbox, pending, expects, got>>

\* The mailbox was full: block, and make the same call again afterwards.
SendWait(h) ==
  /\ doing[h] = "wait"
  /\ pending' = [pending EXCEPT ![curr[h]] = Target(h)]
  /\ Block(h, "send") /\ UNCHANGED ticks
  /\ Do(h, "nothing")
  /\ UNCHANGED <<mailbox, full, sending, expects, got>>

-----------------------------------------------------------------------------
(* recv *)

RecvTest(h) ==
  /\ Syscall(h, "recv") /\ doing[h] = "nothing" /\ sending[curr[h]] = Null
  /\ expects' = [expects EXCEPT ![curr[h]] = TRUE]
  /\ Do(h, IF full[curr[h]] THEN "take" ELSE "sleep")
  /\ UNCHANGED <<vars, mailbox, full, pending, sending, got>>

\* Variant: no interrupt takes the process off the hart.
RecvSleepSilent(h) ==
  /\ doing[h] = "sleep"
  /\ Leave(h, "recv") /\ UNCHANGED <<ticks, ssip, pc>>
  /\ Do(h, "nothing")
  /\ UNCHANGED <<mailbox, full, pending, sending, expects, got>>

\* Nothing there: block.  The call is not made again.
RecvSleep(h) ==
  /\ doing[h] = "sleep"
  /\ Block(h, "recv") /\ UNCHANGED ticks
  /\ Do(h, "nothing")
  /\ UNCHANGED <<mailbox, full, pending, sending, expects, got>>

\* Copy the message out, then wake the senders waiting for this mailbox.
RecvTake(h) ==
  /\ doing[h] = "take"
  /\ got' = [got EXCEPT ![curr[h]] = mailbox[curr[h]]]
  /\ expects' = [expects EXCEPT ![curr[h]] = FALSE]
  /\ full' = [full EXCEPT ![curr[h]] = FALSE]
  /\ Goto(h, "drain")
  /\ Do(h, "nothing")
  /\ UNCHANGED <<queueVars, threadVars, sweepVars, curr, waiting, emergency,
                 ssip, walk, stolen, picked, mailbox, pending, sending>>

\* Variant: nobody is woken.
SendersNone(h) == {}

\* The senders that wait for the running process; the first on the list is
\* woken first.
Senders(h) == {p \in Range(waiting["send"]) : pending[p] = curr[h]}

NextSender(h) ==
  LET s == waiting["send"] IN s[Least({i \in DOMAIN s : s[i] \in Senders(h)})]

WakeNextSender(h) ==
  /\ pc[h] = "drain" /\ Senders(h) # {}
  /\ WakeSender(h, NextSender(h))
  /\ UNCHANGED ipcVars

-----------------------------------------------------------------------------
\* A process that has a send to repeat makes no other call.  (send and recv
\* with a pointer that is not mapped are an exit.)
OtherCall(h) ==
  \/ Yield(h) \/ Exit(h) \/ BlockOnRead(h) \/ \E n \in SleepArg : Sleep(h, n)

\* All else, as in Scheduler.  A tick during a call is only pended: it makes
\* no difference whether it comes then or right after.
Rest(h) ==
  /\ doing[h] = "nothing"
  /\ \/ TimerTick(h) \/ Lose(h)
     \/ Kernel(h) /\ (pc[h] = "drain" => Senders(h) = {})
     \/ OtherCall(h) /\ sending[curr[h]] = Null
     \/ \E p \in Proc : Spawn(h, p) \/ WakeReader(h, p)
  /\ UNCHANGED ipcVars

IpcStep(h) ==
  \/ \E s \in Send : SendTest(h, s) \/ SendFails(h, s)
  \/ SendPut(h) \/ SendFlag(h) \/ SendWait(h)
  \/ RecvTest(h) \/ RecvSleep(h) \/ RecvTake(h) \/ WakeNextSender(h)
  \/ Rest(h)

IpcNext == Intact /\ \E h \in Hart : IpcStep(h)
IpcSpec == IpcInit /\ [][IpcNext]_<<vars, ipcVars>>

-----------------------------------------------------------------------------
(* Properties *)

\* A message counts as put once it is in the mailbox and about to be flagged.
Slot == [p \in Proc |->
  IF full[p] \/ \E h \in Hart : doing[h] = "flag" /\ Target(h) = p
  THEN mailbox[p] ELSE Null]

Mailbox == INSTANCE Channel WITH
  Receiver <- Proc, slot <- Slot, Null <- Null

\* No message is overwritten before it is received, none is received twice,
\* and each is received as it was sent (main.c:480-525, senders that were
\* blocked and try again included).
ImplementsChannel == Mailbox!Spec

\* What processes and harts do in the course of these calls is what Scheduler allows: its
\* properties carry over.
ImplementsScheduler == Spec

\* A process waits in send only while the mailbox it waits for is full, or is
\* being emptied by a recv that wakes it, or its owner is gone (main.c:496 and
\* 527-547; a sender whose target exits waits for ever).
SenderHasCause ==
  \A p \in Range(waiting["send"]) :
    \/ full[pending[p]]
    \/ state[pending[p]] \in {"zombie", "freed"}
    \/ \E h \in Hart : pc[h] = "drain" /\ curr[h] = pending[p]

\* A process waits in recv only while its mailbox is empty (main.c:487-489,
\* 518-519): once send reports success, "[WORKER] Payload Delivered !"
\* (worker.c:25), the receiver is not asleep.
ReceiverHasCause == \A p \in Range(waiting["recv"]) : ~full[p]

\* A process that blocked in recv returns without a message when it is woken, as
\* the call is not made again (main.c:518-519).  But its message is there: it
\* runs only with its mailbox full, and the next recv gets it.
WokenHasMessage ==
  \A p \in Proc : expects[p] /\ state[p] \in {"ready", "running"} =>
    \/ full[p]
    \/ \E h \in Hart : doing[h] = "sleep" /\ curr[h] = p
    \/ \E h \in Hart : doing[h] = "flag" /\ Target(h) = p
=============================================================================
