----------------------------- MODULE Scheduler -----------------------------
(***************************************************************************)
(* The thread scheduler of RexOS: kernel/scheduler.c, the software         *)
(* interrupt and timer paths of kernel/main.c that drive it, and the idle  *)
(* loops of main.c and smp.c.                                              *)
(*                                                                         *)
(* Every hart owns a runqueue: one circular list of threads per priority   *)
(* (here a sequence, head first: the slot after the tail is the head       *)
(* again), a bitmap of the priorities that have one, and the running       *)
(* thread.  Threads that cannot run sit on one of five lists shared by all *)
(* harts.  pc[h] says where hart h is between the sections it executes     *)
(* under a spinlock or with interrupts off; each such section is one step. *)
(*                                                                         *)
(* Who wakes a thread that waits for a message or a key is decided by      *)
(* mailboxes and by the UART, which this module leaves to its environment: *)
(* any waiting thread may be woken by a call that wakes such threads.      *)
(***************************************************************************)
EXTENDS Integers, Sequences, FiniteSets, Functions, Lists

CONSTANTS
  Hart,          \* hart numbers
  Boot,          \* the hart that runs kmain, and that the PLIC interrupts
  Proc,          \* user processes, named by their pid
  Idle,          \* Idle[h]: the idle thread of hart h (pid 0)
  Priority,      \* priority of each thread, 0 is the most urgent
  TimeSlice,     \* ticks a thread may run; (priority << 2) + 4 in the code
  IdlePriority,  \* the least urgent priority, 31 in the code
  StarvPeriod,   \* software interrupts between two sweeps, 1000 in the code
  TickMod,       \* ticks_left counts modulo this, 2^32 in the code
  SleepArg,      \* arguments the processes pass to sleep()
  Calls,         \* Calls[p]: the system calls process p makes
  Null           \* the null pointer

Thread == Proc \cup Range(Idle)
Level  == 0..IdlePriority

WaitList == {"blocked", "sleeping", "recv", "send", "zombie"}
Call     == {"read", "exit", "yield", "sleep", "send", "recv"}

ASSUME SchedulerAssumption ==
  /\ Hart \subseteq Nat /\ Boot \in Hart
  /\ Proc \subseteq Nat \ {0}
  /\ DOMAIN Idle = Hart /\ IsInjective(Idle) /\ Range(Idle) \cap Proc = {}
  /\ Null \notin Thread
  /\ IdlePriority \in Nat
  /\ Priority \in [Thread -> Level]
  /\ \A t \in Thread : Priority[t] = IdlePriority <=> t \in Range(Idle)
  /\ StarvPeriod \in Nat \ {0} /\ TickMod \in Nat \ {0}
  /\ TimeSlice \in [Thread -> 0..TickMod - 1]
  /\ SleepArg \subseteq 0..TickMod - 1
  /\ Calls \in [Proc -> SUBSET Call]

VARIABLES
  circle,         \* circle[h][i]: active_process_circles of h at priority i
  ready,          \* ready[h]: the low half of lookup_bitmap
  passed,         \* passed[h]: the high half, priorities passed over
  curr,           \* curr[h]: curr_process
  process_count,  \* process_count[h]
  starv,          \* starv[h]: starv_ticks
  state,          \* state[p]; a list's name is the state of its members
  ticks,          \* ticks_left of each thread
  kernel_tp,      \* the runqueue a trap out of process p will use
  waiting,        \* waiting[l]: the shared lists, head first
  emergency,      \* emergency_process, one for all harts
  ssip,           \* ssip[h]: a supervisor software interrupt is pending
  pc,             \* pc[h]: where hart h is
  walk,           \* walk[h]: sleepers update_sleep_list has yet to visit
  stolen,         \* stolen[h]: a thread between two runqueues
  picked          \* history: how schedule chose curr[h]

queueVars  == <<circle, ready, process_count>>
threadVars == <<state, ticks, kernel_tp>>
sweepVars  == <<passed, starv>>
vars == <<queueVars, threadVars, sweepVars, curr, waiting, emergency,
          ssip, pc, walk, stolen, picked>>

PC == {"run", "sleepers", "walk", "schedule", "drain", "scan", "steal",
       "put", "panic", "fault", "lost"}
State == WaitList \cup {"unborn", "ready", "running", "freed"}

TypeOK ==
  /\ circle \in [Hart -> [Level -> Seq(Thread)]]
  /\ ready \in [Hart -> SUBSET Level]
  /\ passed \in [Hart -> SUBSET Level]
  /\ curr \in [Hart -> Thread]
  /\ process_count \in [Hart -> Int]
  /\ starv \in [Hart -> 0..StarvPeriod - 1]
  /\ state \in [Thread -> State]
  /\ ticks \in [Thread -> 0..TickMod - 1]
  /\ kernel_tp \in [Proc -> Hart]
  /\ waiting \in [WaitList -> Seq(Proc)]
  /\ emergency \in Thread \cup {Null}
  /\ ssip \in [Hart -> BOOLEAN]
  /\ pc \in [Hart -> PC]
  /\ walk \in [Hart -> Seq(Proc)]
  /\ stolen \in [Hart -> Proc \cup {Null}]
  /\ picked \in [Hart -> {"boot", "priority", "emergency"}]

-----------------------------------------------------------------------------
(* Lists *)

\* head = head->next on a circle
Rotate(s) == Append(Tail(s), Head(s))

OwnCircle(h, t) == circle[h][Priority[t]]

\* Link t in before the head of its circle, or start a circle with it.
Enqueue(h, t) ==
  LET i == Priority[t] IN
  /\ circle' = [circle EXCEPT ![h][i] =
                  IF i \in ready[h] THEN Append(@, t) ELSE <<t>>]
  /\ ready' = [ready EXCEPT ![h] = @ \cup {i}]
  /\ process_count' = [process_count EXCEPT ![h] = @ + 1]

\* Variants: the bit stays set; or the counter stays.
DequeueKeepBit(h, t) ==
  /\ circle' = [circle EXCEPT ![h][Priority[t]] = Remove(@, t)]
  /\ ready' = ready
  /\ process_count' = [process_count EXCEPT ![h] = @ - 1]
DequeueKeepCount(h, t) ==
  LET i == Priority[t] IN
  /\ circle' = [circle EXCEPT ![h][i] = Remove(@, t)]
  /\ ready' = [ready EXCEPT ![h] = IF Len(circle[h][i]) = 1 THEN @ \ {i} ELSE @]
  /\ process_count' = process_count

\* Unlink t; the last one takes the circle and its bit with it.
Dequeue(h, t) ==
  LET i == Priority[t] IN
  /\ circle' = [circle EXCEPT ![h][i] = Remove(@, t)]
  /\ ready' = [ready EXCEPT ![h] = IF Len(circle[h][i]) = 1 THEN @ \ {i} ELSE @]
  /\ process_count' = [process_count EXCEPT ![h] = @ - 1]

-----------------------------------------------------------------------------
(* Where a hart is *)

AllSpawned == \A p \in Proc : state[p] # "unborn"

\* The other harts are released once kmain has spawned every process.
Online(h) == h = Boot \/ AllSpawned

\* A trap out of a process works on the runqueue kernel_tp names.
Trap(h) == pc[h] = "run" /\ (curr[h] \in Proc => kernel_tp[curr[h]] = h)

\* Process curr[h] makes call c; a pending interrupt would be taken first.
Syscall(h, c) ==
  /\ Trap(h) /\ ~ssip[h]
  /\ curr[h] \in Proc /\ c \in Calls[curr[h]]
  /\ curr[h] \in Range(OwnCircle(h, curr[h]))

Goto(h, l) == pc' = [pc EXCEPT ![h] = l]

\* Variant: nobody takes sleeping_list_lock.
SleepLockIgnored == TRUE

SleepLockFree == \A h \in Hart : pc[h] # "walk"

\* A hart that stopped in schedule() never gives its runqueue lock back.
Free(v) == pc[v] \notin {"panic", "fault"}

\* get_process_by_pid and exit_process lock every runqueue in turn.
AllFree == \A v \in Hart : Free(v)

-----------------------------------------------------------------------------
Init ==
  /\ circle = [h \in Hart |->
                [i \in Level |-> IF i = IdlePriority THEN <<Idle[h]>> ELSE <<>>]]
  /\ ready = [h \in Hart |-> {IdlePriority}]
  /\ passed = [h \in Hart |-> {}]
  /\ curr = [h \in Hart |-> Idle[h]]
  /\ process_count = [h \in Hart |-> 1]
  /\ starv = [h \in Hart |-> 0]
  /\ state = [t \in Thread |-> IF t \in Proc THEN "unborn" ELSE "running"]
  /\ ticks = TimeSlice
  /\ kernel_tp = [p \in Proc |-> Boot]
  /\ waiting = [l \in WaitList |-> <<>>]
  /\ emergency = Null
  /\ ssip = [h \in Hart |-> FALSE]
  /\ pc = [h \in Hart |-> "run"]
  /\ walk = [h \in Hart |-> <<>>]
  /\ stolen = [h \in Hart |-> Null]
  /\ picked = [h \in Hart |-> "boot"]

(* kmain spawns the processes, lowest pid first, with interrupts on; they do
   not preempt it. *)
Spawn(h, p) ==
  /\ h = Boot /\ curr[h] = Idle[h] /\ pc[h] = "run" /\ ~ssip[h]
  /\ state[p] = "unborn" /\ \A q \in Proc : state[q] = "unborn" => p <= q
  /\ state' = [state EXCEPT ![p] = "ready"]
  /\ ticks' = [ticks EXCEPT ![p] = TimeSlice[p]]
  /\ kernel_tp' = [kernel_tp EXCEPT ![p] = h]
  /\ Enqueue(h, p)
  /\ picked' = [picked EXCEPT ![h] = "boot"]
  /\ UNCHANGED <<sweepVars, curr, waiting, emergency, ssip, pc, walk, stolen>>

-----------------------------------------------------------------------------
(* The timer and the software interrupt it raises *)

\* mtrap_router: the machine timer pends a supervisor software interrupt,
\* whatever the hart is doing.
TimerTick(h) ==
  /\ Online(h) /\ ~ssip[h]
  /\ ssip' = [ssip EXCEPT ![h] = TRUE]
  /\ UNCHANGED <<queueVars, threadVars, sweepVars, curr, waiting, emergency,
                 pc, walk, stolen, picked>>

\* strap_router takes it and charges the running thread.
EnterInterrupt(h) ==
  /\ Trap(h) /\ ssip[h]
  /\ ssip' = [ssip EXCEPT ![h] = FALSE]
  /\ ticks' = [ticks EXCEPT ![curr[h]] = IF @ > 0 THEN @ - 1 ELSE 0]
  /\ Goto(h, "sleepers")
  /\ UNCHANGED <<queueVars, state, kernel_tp, sweepVars, curr, waiting,
                 emergency, walk, stolen, picked>>

\* Variant: the walk starts behind the head.
SleepListTail ==
  IF waiting["sleeping"] = <<>> THEN <<>> ELSE Tail(waiting["sleeping"])

SleepList == waiting["sleeping"]

\* update_sleep_list, under sleeping_list_lock until the walk is over
LockSleepers(h) ==
  /\ pc[h] = "sleepers" /\ SleepLockFree
  /\ walk' = [walk EXCEPT ![h] = SleepList]
  /\ Goto(h, "walk")
  /\ UNCHANGED <<queueVars, threadVars, sweepVars, curr, waiting, emergency,
                 ssip, stolen, picked>>

\* Variant: a signed counter.
TicksAfterSigned(p) == ticks[p] - 1

TicksAfter(p) == (ticks[p] - 1) % TickMod

\* The next sleeper has ticks to go ...
SleepOn(h) ==
  /\ pc[h] = "walk" /\ walk[h] # <<>>
  /\ LET p == Head(walk[h]) IN
       /\ TicksAfter(p) # 0
       /\ ticks' = [ticks EXCEPT ![p] = TicksAfter(p)]
  /\ walk' = [walk EXCEPT ![h] = Tail(@)]
  /\ UNCHANGED <<queueVars, state, kernel_tp, sweepVars, curr, waiting,
                 emergency, ssip, pc, stolen, picked>>

\* Move p from list l to the circle of the hart that runs this code.
Unblock(h, l, p) ==
  /\ waiting' = [waiting EXCEPT ![l] = Remove(@, p)]
  /\ state' = [state EXCEPT ![p] = "ready"]
  /\ kernel_tp' = [kernel_tp EXCEPT ![p] = h]
  /\ Enqueue(h, p)

\* Variant: priorities compared the wrong way round.
OutranksReversed(h, p) == Priority[p] > Priority[curr[h]]

Outranks(h, p) == Priority[p] < Priority[curr[h]]

\* ... or wakes here, and ends the slice of a less urgent running thread.
Awaken(h) ==
  /\ pc[h] = "walk" /\ walk[h] # <<>>
  /\ LET p == Head(walk[h]) IN
       /\ TicksAfter(p) = 0
       /\ Unblock(h, "sleeping", p)
       /\ ticks' = [t \in Thread |->
                      IF t = p \/ (t = curr[h] /\ Outranks(h, p))
                      THEN 0 ELSE ticks[t]]
  /\ walk' = [walk EXCEPT ![h] = Tail(@)]
  /\ UNCHANGED <<sweepVars, curr, emergency, ssip, pc, stolen, picked>>

\* anti_starvation_sweeper: of the priorities passed over since the last
\* sweep, the least urgent that has a thread is rescued.
Sweep(h) ==
  LET starved == (passed[h] \cap ready[h]) \ {IdlePriority} IN
  /\ emergency' = IF starved = {} THEN emergency
                  ELSE Head(circle[h][Greatest(starved)])
  /\ passed' = [passed EXCEPT ![h] = {}]

\* Variant: only an exhausted slice counts.
MustSwitchOnTicks(h) == ticks[curr[h]] = 0

MustSwitch(h) == ticks[curr[h]] = 0 \/ state[curr[h]] # "running"

\* The rest of the interrupt: sweep when it is time, then decide whether
\* the running thread goes on.
Account(h) ==
  /\ pc[h] = "walk" /\ walk[h] = <<>>
  /\ starv' = [starv EXCEPT ![h] = (@ + 1) % StarvPeriod]
  /\ IF starv[h] + 1 = StarvPeriod THEN Sweep(h)
     ELSE UNCHANGED <<emergency, passed>>
  /\ Goto(h, IF MustSwitch(h) THEN "schedule" ELSE "run")
  /\ UNCHANGED <<queueVars, threadVars, curr, waiting, ssip, walk, stolen,
                 picked>>

-----------------------------------------------------------------------------
(* schedule() *)

Preempted(h) == state[curr[h]] = "running"

\* A thread taken off the hart while running goes to the back of its circle.
CircleAfter(h) ==
  IF Preempted(h)
  THEN [circle[h] EXCEPT ![Priority[curr[h]]] = Rotate(@)]
  ELSE circle[h]

\* Variant: whatever its state was.
StateAfterAlways(h) == [state EXCEPT ![curr[h]] = "ready"]

StateAfter(h) ==
  IF Preempted(h) THEN [state EXCEPT ![curr[h]] = "ready"] ELSE state

\* Variant: the mask is shifted one too far.
PassedOverButOne(h) == {i \in ready[h] : i > Least(ready[h]) + 1}

PassedOver(h) == {i \in ready[h] : i > Least(ready[h])}

NextThread(h) ==
  IF emergency # Null THEN emergency
  ELSE Head(CircleAfter(h)[Least(ready[h])])

\* Picking a thread that is not ready is kpanic(114), with the lock held.
Schedule(h) ==
  /\ pc[h] = "schedule"
  /\ Preempted(h) => OwnCircle(h, curr[h]) # <<>>
  /\ LET next == NextThread(h)
         fine == StateAfter(h)[next] = "ready"
     IN /\ curr' = [curr EXCEPT ![h] = next]
        /\ state' = IF fine THEN [StateAfter(h) EXCEPT ![next] = "running"]
                    ELSE StateAfter(h)
        /\ Goto(h, IF fine THEN "run" ELSE "panic")
  /\ circle' = [circle EXCEPT ![h] = CircleAfter(h)]
  /\ ticks' = IF Preempted(h)
              THEN [ticks EXCEPT ![curr[h]] = TimeSlice[curr[h]]] ELSE ticks
  /\ emergency' = Null
  /\ IF emergency # Null
     THEN /\ picked' = [picked EXCEPT ![h] = "emergency"]
          /\ UNCHANGED passed
     ELSE /\ picked' = [picked EXCEPT ![h] = "priority"]
          /\ passed' = [passed EXCEPT ![h] =
                          @ \cup PassedOver(h)]
  /\ UNCHANGED <<ready, process_count, kernel_tp, starv, waiting, ssip, walk,
                 stolen>>

\* No circle at the running thread's priority: a page fault in the kernel,
\* with the lock held.
RotateNull(h) ==
  /\ pc[h] = "schedule"
  /\ Preempted(h) /\ OwnCircle(h, curr[h]) = <<>>
  /\ state' = StateAfter(h)
  /\ ticks' = [ticks EXCEPT ![curr[h]] = TimeSlice[curr[h]]]
  /\ Goto(h, "fault")
  /\ UNCHANGED <<queueVars, kernel_tp, sweepVars, curr, waiting, emergency,
                 ssip, walk, stolen, picked>>

-----------------------------------------------------------------------------
(* System calls *)

\* yield(): the state changes now, the switch waits for the interrupt.
Yield(h) ==
  /\ Syscall(h, "yield")
  /\ state' = [state EXCEPT ![curr[h]] = "ready"]
  /\ ssip' = [ssip EXCEPT ![h] = TRUE]
  /\ UNCHANGED <<queueVars, ticks, kernel_tp, sweepVars, curr, waiting,
                 emergency, pc, walk, stolen, picked>>

\* Variant: a rescue is never withdrawn.
WithdrawnNever(h) == emergency

Withdrawn(h) == IF emergency = curr[h] THEN Null ELSE emergency

\* Take the calling process off its circle and push it on list l; it stays
\* curr[h] until an interrupt reaches schedule().
Leave(h, l) ==
  /\ Dequeue(h, curr[h])
  /\ waiting' = [waiting EXCEPT ![l] = <<curr[h]>> \o @]
  /\ state' = [state EXCEPT ![curr[h]] = l]
  /\ emergency' = Withdrawn(h)
  /\ UNCHANGED <<kernel_tp, sweepVars, curr, walk, stolen, picked>>

Block(h, l) ==
  /\ Leave(h, l)
  /\ ssip' = [ssip EXCEPT ![h] = TRUE]
  /\ UNCHANGED pc

\* read() with no key in uart_buff, recv() with an empty mailbox, send() to
\* a full one
BlockOnRead(h) ==
  /\ Syscall(h, "read") /\ Block(h, "blocked") /\ UNCHANGED ticks
BlockOnRecv(h) ==
  /\ Syscall(h, "recv") /\ Block(h, "recv") /\ UNCHANGED ticks
BlockOnSend(h) ==
  /\ Syscall(h, "send") /\ AllFree
  /\ Block(h, "send") /\ UNCHANGED ticks

Sleep(h, n) ==
  /\ Syscall(h, "sleep") /\ SleepLockFree
  /\ Block(h, "sleeping")
  /\ ticks' = [ticks EXCEPT ![curr[h]] = n]

\* exit_process makes the caller a zombie, then scans all threads for its
\* children.  The scan finds none, every process being a child of pid 0.
Exit(h) ==
  /\ Syscall(h, "exit")
  /\ Leave(h, "zombie")
  /\ Goto(h, "scan")
  /\ UNCHANGED <<ticks, ssip>>
EndExit(h) ==
  /\ pc[h] = "scan" /\ AllFree
  /\ ssip' = [ssip EXCEPT ![h] = TRUE]
  /\ Goto(h, "run")
  /\ UNCHANGED <<queueVars, threadVars, sweepVars, curr, waiting, emergency,
                 walk, stolen, picked>>

\* The tail of the unblock functions: preempt a less urgent running thread.  (With
\* two harts both may find p asleep; the later one stops in kpanic 115.)
Wake(h, l, p) ==
  /\ p \in Range(waiting[l])
  /\ Unblock(h, l, p)
  /\ ticks' = IF Outranks(h, p) THEN [ticks EXCEPT ![curr[h]] = 0] ELSE ticks
  /\ ssip' = IF Outranks(h, p) THEN [ssip EXCEPT ![h] = TRUE] ELSE ssip
  /\ UNCHANGED <<sweepVars, curr, emergency, walk, stolen, picked>>

\* send() to a process that waits in recv()
WakeReceiver(h, p) ==
  /\ Syscall(h, "send") /\ AllFree
  /\ Wake(h, "recv", p) /\ UNCHANGED pc

\* recv() of a full mailbox wakes the senders waiting for it one by one.
StartDrain(h) ==
  /\ Syscall(h, "recv")
  /\ Goto(h, "drain")
  /\ UNCHANGED <<queueVars, threadVars, sweepVars, curr, waiting, emergency,
                 ssip, walk, stolen, picked>>
WakeSender(h, p) ==
  /\ pc[h] = "drain" /\ Wake(h, "send", p) /\ UNCHANGED pc
EndDrain(h) ==
  /\ pc[h] = "drain"
  /\ Goto(h, "run")
  /\ UNCHANGED <<queueVars, threadVars, sweepVars, curr, waiting, emergency,
                 ssip, walk, stolen, picked>>

\* The UART interrupt, which outranks a pending software interrupt
WakeReader(h, p) ==
  /\ h = Boot /\ Trap(h) /\ Wake(h, "blocked", p) /\ UNCHANGED pc

-----------------------------------------------------------------------------
(* The idle loops, with interrupts off until the hart is back at "run" *)

\* oxomoco_loop frees every zombie: their parent is pid 0.
OrphanCleaner(h) ==
  /\ state' = [t \in Thread |->
                 IF t \in Range(waiting["zombie"]) THEN "freed" ELSE state[t]]
  /\ waiting' = [waiting EXCEPT !["zombie"] = <<>>]

EnterIdleLoop(h) ==
  /\ pc[h] = "run" /\ curr[h] = Idle[h] /\ ~ssip[h] /\ AllSpawned
  /\ IF h = Boot THEN OrphanCleaner(h) ELSE UNCHANGED <<state, waiting>>
  /\ Goto(h, "steal")
  /\ UNCHANGED <<queueVars, ticks, kernel_tp, sweepVars, curr, emergency, ssip,
                 walk, stolen, picked>>

\* A priority at which runqueue v has a thread other than its running one
Stealable(v) ==
  {i \in ready[v] \ {IdlePriority} : Range(circle[v][i]) \ {curr[v]} # {}}

Victims(h) == {v \in Hart \ {h} : process_count[v] > 1 /\ Stealable(v) # {}}

\* steal_process takes a thread from the first hart that has one to spare when
\* it gets there: harts before it may have one by then.  It cannot get past a
\* lock that is never given back.
StealTake(h) ==
  /\ pc[h] = "steal"
  /\ \E v \in Victims(h) :
     LET s == circle[v][Least(Stealable(v))]
         t == IF Head(s) = curr[v] THEN s[2] ELSE Head(s)
     IN /\ Free(v)
        /\ Dequeue(v, t)
        /\ stolen' = [stolen EXCEPT ![h] = t]
  /\ Goto(h, "put")
  /\ UNCHANGED <<threadVars, sweepVars, curr, waiting, emergency, ssip, walk,
                 picked>>

\* With more than one hart to look at, one it has passed may have got a thread.
StealNothing(h) ==
  /\ pc[h] = "steal" /\ (Victims(h) = {} \/ Cardinality(Hart \ {h}) > 1)
  /\ Goto(h, "run")
  /\ UNCHANGED <<queueVars, threadVars, sweepVars, curr, waiting, emergency,
                 ssip, walk, stolen, picked>>

StealPut(h) ==
  /\ pc[h] = "put"
  /\ Enqueue(h, stolen[h])
  /\ kernel_tp' = [kernel_tp EXCEPT ![stolen[h]] = h]
  /\ stolen' = [stolen EXCEPT ![h] = Null]
  /\ ssip' = [ssip EXCEPT ![h] = TRUE]
  /\ Goto(h, "run")
  /\ UNCHANGED <<state, ticks, sweepVars, curr, waiting, emergency, walk, picked>>

-----------------------------------------------------------------------------
(* Memory corruption.  A trap out of a process whose kernel_tp names another *)
(* runqueue makes this hart work on that one, with that one's running thread; *)
(* a call by a process that is in no circle of this hart unlinks it from     *)
(* wherever its stale pointers lead; and a thread may be freed while a hart  *)
(* runs it.  The model stops there: "lost" ends a behaviour.                 *)
Lose(h) ==
  /\ pc[h] = "run" /\ curr[h] \in Proc
  /\ \/ kernel_tp[curr[h]] # h
     \/ ~ssip[h] /\ curr[h] \notin Range(OwnCircle(h, curr[h]))
  /\ Goto(h, "lost")
  /\ UNCHANGED <<queueVars, threadVars, sweepVars, curr, waiting, emergency,
                 ssip, walk, stolen, picked>>

Intact == \A h \in Hart : pc[h] # "lost" /\ state[curr[h]] # "freed"

-----------------------------------------------------------------------------
\* What the hart does by itself once an interrupt is pending or it idles
Kernel(h) ==
  \/ EnterInterrupt(h) \/ LockSleepers(h) \/ SleepOn(h) \/ Awaken(h)
  \/ Account(h) \/ Schedule(h) \/ RotateNull(h) \/ EndDrain(h)
  \/ EndExit(h)
  \/ EnterIdleLoop(h) \/ StealTake(h) \/ StealNothing(h) \/ StealPut(h)

\* What its running process asks for
User(h) ==
  \/ Yield(h) \/ BlockOnRead(h) \/ BlockOnRecv(h) \/ BlockOnSend(h)
  \/ Exit(h) \/ (\E n \in SleepArg : Sleep(h, n)) \/ StartDrain(h)
  \/ (\E p \in Proc : WakeReceiver(h, p) \/ WakeSender(h, p))

Step(h) ==
  \/ TimerTick(h) \/ Kernel(h) \/ User(h) \/ Lose(h)
  \/ \E p \in Proc : Spawn(h, p) \/ WakeReader(h, p)

Next == Intact /\ \E h \in Hart : Step(h)

Spec == Init /\ [][Next]_vars
Fairness == \A h \in Hart :
  /\ WF_vars(TimerTick(h)) /\ WF_vars(Kernel(h))
  /\ WF_vars(\E p \in Proc : Spawn(h, p))

FairSpec == Spec /\ Fairness

-----------------------------------------------------------------------------
(* Properties for any number of harts *)

\* Circles, shared lists and thread states describe the same thing: a thread
\* is in a circle of the hart its traps will use, at its priority and at most
\* once, exactly when it is ready or running; or it is on its way between two
\* harts; or it is once in the list its state names.  (scheduler.c unlinks
\* and relinks threads by hand in sixteen places, under seven locks.)
CirclesHoldRunnable ==
  \A h \in Hart, i \in Level :
    /\ IsInjective(circle[h][i])
    /\ \A t \in Range(circle[h][i]) :
         /\ Priority[t] = i /\ state[t] \in {"ready", "running"}
         /\ IF t \in Proc THEN kernel_tp[t] = h ELSE t = Idle[h]

ListsHoldWaiting ==
  \A l \in WaitList :
    /\ IsInjective(waiting[l])
    /\ Range(waiting[l]) = {p \in Proc : state[p] = l}

InTransit(p) == \E h \in Hart : stolen[h] = p

NoThreadLost ==
  \A p \in Proc : state[p] \in {"ready", "running"} =>
    (p \in Range(OwnCircle(kernel_tp[p], p)) <=> ~InTransit(p))

OneQueue == CirclesHoldRunnable /\ ListsHoldWaiting /\ NoThreadLost

\* The bitmap schedule() searches and the circles agree, and the idle thread
\* is always there to be found.
BitmapExact ==
  \A h \in Hart :
    /\ ready[h] = {i \in Level : circle[h][i] # <<>>}
    /\ circle[h][IdlePriority] = <<Idle[h]>>

\* process_count, which steal_process reads without the lock, counts the
\* threads of the runqueue.
Members(h) == UNION {Range(circle[h][i]) : i \in Level}
CountExact == \A h \in Hart : process_count[h] = Cardinality(Members(h))

\* What keeps these true from step to step: a thread in transit is runnable
\* and in one pair of hands, and the one hart that walks the sleepers still
\* has to visit some of them, each once.
TransitInv ==
  \A h \in Hart :
    /\ stolen[h] # Null <=> pc[h] = "put"
    /\ stolen[h] # Null =>
         /\ state[stolen[h]] \in {"ready", "running"}
         /\ \A g \in Hart : stolen[g] = stolen[h] => g = h

WalkInv ==
  \A h \in Hart :
    /\ IsInjective(walk[h]) /\ Range(walk[h]) \subseteq Range(waiting["sleeping"])
    /\ walk[h] # <<>> => pc[h] = "walk"
    /\ pc[h] = "walk" => \A g \in Hart : pc[g] = "walk" => g = h

QueueInv == TypeOK /\ OneQueue /\ BitmapExact /\ TransitInv /\ WalkInv

\* Nothing brings a process back once it called exit_process.
ExitIsFinal ==
  [][\A p \in Proc :
       /\ state[p] = "zombie" => state'[p] \in {"zombie", "freed"}
       /\ state[p] = "freed" => state'[p] = "freed"]_vars

-----------------------------------------------------------------------------
(* Properties of a machine with one hart *)

\* schedule() never picks a thread that is not ready (kpanic 114) or rotates
\* an empty circle, no call works on another hart's runqueue, and no thread is
\* freed while it runs.
NoPanic == \A h \in Hart :
  pc[h] \notin {"panic", "fault", "lost"} /\ state[curr[h]] # "freed"

\* A process that called exit, sleep, read, recv or yield executes no
\* instruction of its own before schedule() picked it again: it stays curr
\* only while the interrupt that takes it off the hart is pending.
OnlyRunningRuns == \A h \in Hart :
  pc[h] = "run" /\ ~ssip[h] => state[curr[h]] = "running"

\* The rescued thread can be run when schedule() gets to it: block, sleep and
\* exit withdraw it.
EmergencyRunnable ==
  emergency # Null => \E h \in Hart :
    /\ emergency \in Range(OwnCircle(h, emergency))
    /\ state[emergency] = "running" => emergency = curr[h]

\* A thread schedule() chose by priority does not run beside a more urgent
\* one: a wake-up preempts it.  (A rescued thread may, and so may kmain.)
PriorityRespected == \A h \in Hart :
  pc[h] = "run" /\ ~ssip[h] /\ picked[h] = "priority" =>
    \A i \in ready[h] : Priority[curr[h]] <= i

\* More urgent threads alone do not keep a ready one from the hart: one of its
\* priority runs, or a less urgent one.  The sweeper sees to it (scheduler.c:
\* 93-111, 897-945), also below a process that never blocks.  It rescues the
\* least urgent priority that was passed over and forgets the others, so a
\* thread between two that never block may wait for ever; and which of several
\* equals runs, nothing guarantees.
NotStarvedFromAbove == \A i \in Level \ {IdlePriority} :
  (\E p \in Proc : Priority[p] = i /\ state[p] = "ready")
    ~> (\E p \in Proc : Priority[p] >= i /\ state[p] = "running")

\* A sleeper wakes.
SleeperWakes == \A p \in Proc : state[p] = "sleeping" ~> state[p] = "ready"

-----------------------------------------------------------------------------
(* What the code says of itself, and two harts make false *)

\* schedule() checks that the thread it picked is ready, and calls any other
\* a corrupted thread (scheduler.c:113).
NoCorruptedThread == \A h \in Hart : pc[h] # "panic"
=============================================================================
