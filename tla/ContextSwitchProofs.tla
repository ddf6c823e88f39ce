------------------------ MODULE ContextSwitchProofs ------------------------
(* Theorems about ContextSwitch, for any number of processes *)
EXTENDS ContextSwitch, TLAPS

\* What the return from a trap that hit thread t finds on t's kernel stack
TrapOf(t) == IF t = Idle THEN <<"kernel">> ELSE <<"user">>

Entered == {"call", "key", "tick", "leave", "resumed"}

\* Where the hart is says what its registers hold.  In the kernel sscratch still
\* has the address of user mode: _load_sscratch comes right before the return.
HartInv ==
  /\ sscratch = "va"
  /\ at = "user" =>
       /\ curr \in Proc /\ satp = curr /\ stvec = "trampoline"
       /\ stack = curr /\ frames[curr] = <<>> /\ regs \in Regs
  /\ at = "idle" =>
       /\ curr = Idle /\ satp = Idle /\ stvec = "handler"
       /\ stack = Idle /\ frames[Idle] = <<>>
  /\ at \in Entered => stack = curr /\ satp = Idle /\ frames[curr] = TrapOf(curr)
  /\ at \in {"key", "tick", "leave"} /\ curr = Idle => stvec = "handler"
  /\ at = "call" => curr \in Proc

\* The threads that are off the hart: the stack pointer saved for a thread
\* points into its own stack, and what lies there fits the return address.
ContextInv ==
  \A t \in Thread \ {curr} :
    /\ state[t] = "unborn" <=> context[t] = Null
    /\ context[t] = Null => t # Idle /\ frames[t] = <<>> /\ tf[t] = Fresh
    /\ context[t] # Null =>
         /\ context[t].sp = t
         /\ context[t].ra = "bootstrap" => t # Idle /\ frames[t] = <<>>
         /\ context[t].ra = "schedule" => frames[t] = TrapOf(t)

\* Trap frames are only ever filled from user mode, and a thread that has given
\* up the hart stays on it only while the interrupt that takes it off is pending.
StateInv ==
  /\ \A p \in Proc : tf[p].from = "user"
  /\ state[curr] # "unborn" /\ state[Idle] \in {"ready", "running"}
  /\ ~ssip \/ at = "call" => state[curr] = "running"

SwitchInv == TypeOK /\ NoCrash /\ HartInv /\ ContextInv /\ StateInv
-----------------------------------------------------------------------------
LEMMA AdvanceFacts ==
  ASSUME ContextAssumption, NEW n \in PC
  PROVE  Advance(n) \in PC
BY DEF ContextAssumption, Advance, PC

\* A trap frame and the registers in it
LEMMA FrameTypes ==
  ASSUME TypeOK, NEW p \in Proc
  PROVE  /\ tf[p] \in [regs : Regs, from : {"user", "kernel"}]
         /\ tf[p].regs \in Regs /\ tf[p].regs.pc \in PC /\ tf[p].regs.a0 \in Value
<1>1. tf[p] \in [regs : Regs, from : {"user", "kernel"}]  BY DEF TypeOK
<1>2. tf[p].regs \in Regs  BY <1>1
<1> QED  BY <1>1, <1>2 DEF Regs

\* Registers written into a trap frame
LEMMA FrameFacts ==
  ASSUME TypeOK, NEW p \in Proc, NEW r \in Regs
  PROVE  /\ [tf EXCEPT ![p].regs = r] \in [Proc -> [regs : Regs, from : {"user", "kernel"}]]
         /\ \A n : [tf EXCEPT ![p].regs.pc = n] = [tf EXCEPT ![p].regs = [tf[p].regs EXCEPT !.pc = n]]
         /\ \A v : [tf EXCEPT ![p].regs.a0 = v] = [tf EXCEPT ![p].regs = [tf[p].regs EXCEPT !.a0 = v]]
         /\ \A n \in PC : [tf[p].regs EXCEPT !.pc = n] \in Regs
         /\ \A v \in Value : [tf[p].regs EXCEPT !.a0 = v] \in Regs
<1>1. tf[p].regs \in Regs  BY FrameTypes
<1>2. tf[p] \in [regs : Regs, from : {"user", "kernel"}]  BY FrameTypes
<1>3. [tf[p] EXCEPT !.regs = r] \in [regs : Regs, from : {"user", "kernel"}]
  BY <1>2
<1>4. [tf EXCEPT ![p].regs = r] \in [Proc -> [regs : Regs, from : {"user", "kernel"}]]
  BY <1>3 DEF TypeOK
<1>5. \A n \in PC : [tf[p].regs EXCEPT !.pc = n] \in Regs  BY <1>1 DEF Regs
<1>6. \A v \in Value : [tf[p].regs EXCEPT !.a0 = v] \in Regs  BY <1>1 DEF Regs
<1> QED  BY <1>4, <1>5, <1>6

LEMMA TimerTickKeeps ==
  ASSUME ContextAssumption, SwitchInv, TimerTick
  PROVE  SwitchInv'
<1> USE DEF ContextAssumption, SwitchInv, TimerTick, hart, memory
<1>1. TypeOK'  BY DEF TypeOK, HartInv, StateInv, Thread, Regs, PC, Value, Fresh, TrapOf, Entered
<1>2. NoCrash'  BY DEF NoCrash, HartInv, StateInv, TypeOK, TrapOf, Entered, Thread
<1>3. HartInv'  BY DEF HartInv, TypeOK, ContextInv, StateInv, NoCrash, TrapOf, Entered, Thread
<1>4. ContextInv'  BY DEF HartInv, ContextInv, TypeOK, StateInv, NoCrash, TrapOf, Entered, Thread
<1>5. StateInv'  BY DEF StateInv, HartInv, ContextInv, TypeOK, Thread, Entered
<1> QED  BY <1>1, <1>2, <1>3, <1>4, <1>5

LEMMA ComputeKeeps ==
  ASSUME ContextAssumption, SwitchInv, Compute
  PROVE  SwitchInv'
<1> USE DEF ContextAssumption, SwitchInv, Compute, Advance, hart, memory
<1>1. regs' \in Regs
  <2>1. regs.pc \in PC /\ regs' = [regs EXCEPT !.pc = Advance(regs.pc)]
    BY DEF HartInv, Regs
  <2> QED  BY <2>1, AdvanceFacts DEF HartInv, Regs
<1>6. TypeOK'  BY <1>1 DEF TypeOK
<1>2. NoCrash'  BY DEF NoCrash, HartInv, StateInv, TypeOK, TrapOf, Entered, Thread
<1>3. HartInv'  BY <1>1 DEF HartInv, TypeOK, ContextInv, StateInv, NoCrash, TrapOf, Entered, Thread
<1>4. ContextInv'  BY DEF HartInv, ContextInv, TypeOK, StateInv, NoCrash, TrapOf, Entered, Thread
<1>5. StateInv'  BY DEF StateInv, HartInv, ContextInv, TypeOK, Thread, Entered
<1> QED  BY <1>6, <1>2, <1>3, <1>4, <1>5

LEMMA TrapKeeps ==
  ASSUME ContextAssumption, SwitchInv, NEW c \in Cause, Trap(c)
  PROVE  SwitchInv'
<1> USE DEF ContextAssumption, SwitchInv, Trap, Cause, Crash, EnterTrampoline, EnterHandler, hart, memory
<1>1. TypeOK'
  <2>1. CASE at = "user"
    <3>1. satp \in Proc /\ regs \in Regs /\ sscratch = "va"  BY <2>1 DEF HartInv
    <3>2. [regs |-> regs, from |-> "user"] \in [regs : Regs, from : {"user", "kernel"}]
      BY <3>1
    <3>3. tf' \in [Proc -> [regs : Regs, from : {"user", "kernel"}]]
      BY <2>1, <3>1, <3>2 DEF HartInv, TypeOK
    <3>4. frames' \in [Thread -> {<<>>, <<"user">>, <<"kernel">>}]
      BY <2>1, <3>1 DEF HartInv, TypeOK, Thread
    <3> QED  BY <2>1, <3>1, <3>3, <3>4 DEF HartInv, TypeOK, Thread
  <2>2. CASE at = "idle"
    <3>1. frames' \in [Thread -> {<<>>, <<"user">>, <<"kernel">>}]
      BY <2>2 DEF HartInv, TypeOK
    <3> QED  BY <2>2, <3>1 DEF HartInv, TypeOK
  <2> QED  BY <2>1, <2>2
<1>2. NoCrash'  BY DEF NoCrash, HartInv, StateInv, TypeOK, TrapOf, Entered, Thread
<1>3. HartInv'  BY DEF HartInv, TypeOK, ContextInv, StateInv, NoCrash, TrapOf, Entered, Thread
<1>4. ContextInv'  BY DEF HartInv, ContextInv, TypeOK, StateInv, NoCrash, TrapOf, Entered, Thread
<1>5. StateInv'  BY DEF StateInv, HartInv, ContextInv, TypeOK, Thread, Entered
<1> QED  BY <1>1, <1>2, <1>3, <1>4, <1>5

LEMMA CallReturnsKeeps ==
  ASSUME ContextAssumption, SwitchInv, CallReturns
  PROVE  SwitchInv'
<1> USE DEF ContextAssumption, SwitchInv, CallReturns, NextEpc, Advance, Wakes, hart, memory
<1>1. TypeOK'
  <2>1. curr \in Proc /\ tf[curr].regs.pc \in PC
    BY FrameTypes DEF HartInv
  <2>4. [pc |-> Advance(tf[curr].regs.pc), a0 |-> "result"] \in Regs
    BY <2>1, AdvanceFacts DEF Regs, Value
  <2>2. tf' \in [Proc -> [regs : Regs, from : {"user", "kernel"}]]
    BY <2>1, <2>4, FrameFacts
  <2>3. state' \in [Thread -> {"unborn", "ready", "running", "reading", "sending"}]
    BY DEF TypeOK
  <2> QED  BY <2>2, <2>3 DEF TypeOK
<1>2. NoCrash'  BY DEF NoCrash, HartInv, StateInv, TypeOK, TrapOf, Entered, Thread
<1>3. HartInv'  BY DEF HartInv, TypeOK, ContextInv, StateInv, NoCrash, TrapOf, Entered, Thread
<1>4. ContextInv'  BY DEF HartInv, ContextInv, TypeOK, StateInv, NoCrash, TrapOf, Entered, Thread
<1>5. StateInv'  BY DEF StateInv, HartInv, ContextInv, TypeOK, Thread, Entered
<1> QED  BY <1>1, <1>2, <1>3, <1>4, <1>5

LEMMA CallWaitsKeeps ==
  ASSUME ContextAssumption, SwitchInv, NEW w \in {"reading", "sending"}, CallWaits(w)
  PROVE  SwitchInv'
<1> USE DEF ContextAssumption, SwitchInv, CallWaits, NextEpc, Advance, hart, memory
<1>1. TypeOK'
  <2>1. curr \in Proc /\ tf[curr].regs.pc \in PC
    BY FrameTypes DEF HartInv
  <2>2. tf' \in [Proc -> [regs : Regs, from : {"user", "kernel"}]]
    <3> DEFINE n == Advance(tf[curr].regs.pc)
    <3>1. n \in PC  BY <2>1, AdvanceFacts
    <3>2. [tf[curr].regs EXCEPT !.pc = n] \in Regs /\ tf[curr].regs \in Regs
      BY <2>1, <3>1, FrameFacts, FrameTypes
    <3>3. [tf EXCEPT ![curr].regs.pc = n] = [tf EXCEPT ![curr].regs = [tf[curr].regs EXCEPT !.pc = n]]
      BY <2>1, <3>1, <3>2, FrameFacts
    <3>4. tf' = IF w = "reading" THEN [tf EXCEPT ![curr].regs.pc = n] ELSE tf
      OBVIOUS
    <3> HIDE DEF n
    <3>5. [tf EXCEPT ![curr].regs.pc = n] \in [Proc -> [regs : Regs, from : {"user", "kernel"}]]
      BY <2>1, <3>2, <3>3, FrameFacts
    <3> QED  BY <3>4, <3>5 DEF TypeOK
  <2> QED  BY <2>2 DEF TypeOK
<1>2. NoCrash'  BY DEF NoCrash, HartInv, StateInv, TypeOK, TrapOf, Entered, Thread
<1>3. HartInv'  BY DEF HartInv, TypeOK, ContextInv, StateInv, NoCrash, TrapOf, Entered, Thread
<1>4. ContextInv'  BY DEF HartInv, ContextInv, TypeOK, StateInv, NoCrash, TrapOf, Entered, Thread
<1>5. StateInv'  BY DEF StateInv, HartInv, ContextInv, TypeOK, Thread, Entered
<1> QED  BY <1>1, <1>2, <1>3, <1>4, <1>5

LEMMA KeyKeeps ==
  ASSUME ContextAssumption, SwitchInv, Key
  PROVE  SwitchInv'
<1> USE DEF ContextAssumption, SwitchInv, Key, SetA0, Wakes, hart, memory
<1>1. TypeOK'
  <2>1. tf' \in [Proc -> [regs : Regs, from : {"user", "kernel"}]]
    <3>1. CASE UNCHANGED tf  BY <3>1 DEF TypeOK
    <3>2. CASE \E p \in Proc : SetA0(p, "key")
      <4>1. PICK p \in Proc : tf' = [tf EXCEPT ![p].regs.a0 = "key"]  BY <3>2
      <4>2. [tf[p].regs EXCEPT !.a0 = "key"] \in Regs /\ tf[p].regs \in Regs
        BY FrameFacts, FrameTypes DEF Value
      <4>3. tf' = [tf EXCEPT ![p].regs = [tf[p].regs EXCEPT !.a0 = "key"]]
        BY <4>1, <4>2, FrameFacts
      <4> QED  BY <4>2, <4>3, FrameFacts
    <3> QED  BY <3>1, <3>2
  <2> QED  BY <2>1 DEF TypeOK
<1>2. NoCrash'  BY DEF NoCrash, HartInv, StateInv, TypeOK, TrapOf, Entered, Thread
<1>3. HartInv'  BY DEF HartInv, TypeOK, ContextInv, StateInv, NoCrash, TrapOf, Entered, Thread
<1>4. ContextInv'  BY DEF HartInv, ContextInv, TypeOK, StateInv, NoCrash, TrapOf, Entered, Thread
<1>5. StateInv'
  <2>1. \A q \in Proc : tf'[q].from = tf[q].from
    <3>1. CASE UNCHANGED tf  BY <3>1
    <3>2. CASE \E p \in Proc : SetA0(p, "key")
      <4>1. PICK p \in Proc : tf' = [tf EXCEPT ![p].regs.a0 = "key"]  BY <3>2
      <4>2. tf' = [tf EXCEPT ![p].regs = [tf[p].regs EXCEPT !.a0 = "key"]]
        BY <4>1, FrameFacts, FrameTypes
      <4>3. tf[p] \in [regs : Regs, from : {"user", "kernel"}]  BY FrameTypes
      <4>4. \A r : [tf[p] EXCEPT !.regs = r].from = tf[p].from  BY <4>3
      <4> QED  BY <4>2, <4>4 DEF TypeOK
    <3> QED  BY <3>1, <3>2
  <2>2. state'[curr] # "unborn" /\ state'[Idle] \in {"ready", "running"}
    BY DEF StateInv, TypeOK, Thread
  <2>3. ~ssip' => state'[curr'] = "running"
    <3>1. ~ssip' => ~ssip  BY Zenon
    <3>2. state[curr] = "running" => state'[curr] = "running"  BY DEF TypeOK
    <3> QED  BY <3>1, <3>2 DEF StateInv
  <2> QED  BY <2>1, <2>2, <2>3 DEF StateInv
<1> QED  BY <1>1, <1>2, <1>3, <1>4, <1>5

LEMMA TickKeeps ==
  ASSUME ContextAssumption, SwitchInv, Tick
  PROVE  SwitchInv'
<1> USE DEF ContextAssumption, SwitchInv, Tick, HandlerFor, hart, memory
<1>1. TypeOK'  BY DEF TypeOK, HartInv, StateInv, Thread, Regs, PC, Value, Fresh, TrapOf, Entered
<1>2. NoCrash'  BY DEF NoCrash, HartInv, StateInv, TypeOK, TrapOf, Entered, Thread
<1>3. HartInv'  BY DEF HartInv, TypeOK, ContextInv, StateInv, NoCrash, TrapOf, Entered, Thread
<1>4. ContextInv'  BY DEF HartInv, ContextInv, TypeOK, StateInv, NoCrash, TrapOf, Entered, Thread
<1>5. StateInv'  BY DEF StateInv, HartInv, ContextInv, TypeOK, Thread, Entered
<1> QED  BY <1>1, <1>2, <1>3, <1>4, <1>5

LEMMA SwitchKeeps ==
  ASSUME ContextAssumption, SwitchInv, NEW n \in Thread, Switch(n)
  PROVE  SwitchInv'
<1> USE DEF ContextAssumption, SwitchInv, Switch, StateAfter, Saved, Restore, hart, memory
<1>6. Saved \in [Thread -> [ra : {"bootstrap", "schedule"}, sp : Thread] \cup {Null}]
  BY DEF TypeOK
<1>7. state[n] # "unborn"  BY DEF StateInv
<1>8. Saved[n] # Null /\ Saved[n] \in [ra : {"bootstrap", "schedule"}, sp : Thread]
  <2>1. [ra |-> "schedule", sp |-> stack] \in [ra : {"bootstrap", "schedule"}, sp : Thread]
    BY DEF TypeOK
  <2>2. CASE n = curr  BY <2>1, <2>2 DEF TypeOK
  <2>3. CASE n # curr  BY <1>6, <1>7, <2>3 DEF TypeOK, ContextInv
  <2> QED  BY <2>2, <2>3
<1>9. Saved[n].ra = "bootstrap" => n \in Proc
  BY <1>6 DEF TypeOK, ContextInv, Thread
<1>1. TypeOK'
  <2>1. Saved[n].ra = "bootstrap" => tf[n].regs \in Regs  BY <1>9, FrameTypes
  <2>2. Saved[n].sp \in Thread  BY <1>8
  <2>3. state' \in [Thread -> {"unborn", "ready", "running", "reading", "sending"}]
    BY DEF TypeOK
  <2>4. CASE Saved[n].ra = "bootstrap"
    BY <1>6, <1>9, <2>1, <2>2, <2>3, <2>4 DEF TypeOK, Thread, StateInv
  <2>5. CASE Saved[n].ra # "bootstrap"
    BY <1>6, <2>2, <2>3, <2>5 DEF TypeOK
  <2> QED  BY <2>4, <2>5
<1>2. NoCrash'  BY <1>9 DEF NoCrash, StateInv
<1>3. HartInv'  BY DEF HartInv, TypeOK, ContextInv, StateInv, NoCrash, TrapOf, Entered, Thread
<1>4. ContextInv'  BY DEF HartInv, ContextInv, TypeOK, StateInv, NoCrash, TrapOf, Entered, Thread
<1>5. StateInv'  BY DEF StateInv, HartInv, ContextInv, TypeOK, Thread, Entered
<1> QED  BY <1>1, <1>2, <1>3, <1>4, <1>5

LEMMA ResumeKeeps ==
  ASSUME ContextAssumption, SwitchInv, Resume
  PROVE  SwitchInv'
<1> USE DEF ContextAssumption, SwitchInv, Resume, HandlerFor, hart, memory
<1>1. TypeOK'  BY DEF TypeOK, HartInv, StateInv, Thread, Regs, PC, Value, Fresh, TrapOf, Entered
<1>2. NoCrash'  BY DEF NoCrash, HartInv, StateInv, TypeOK, TrapOf, Entered, Thread
<1>3. HartInv'  BY DEF HartInv, TypeOK, ContextInv, StateInv, NoCrash, TrapOf, Entered, Thread
<1>4. ContextInv'  BY DEF HartInv, ContextInv, TypeOK, StateInv, NoCrash, TrapOf, Entered, Thread
<1>5. StateInv'  BY DEF StateInv, HartInv, ContextInv, TypeOK, Thread, Entered
<1> QED  BY <1>1, <1>2, <1>3, <1>4, <1>5

LEMMA LeaveKeeps ==
  ASSUME ContextAssumption, SwitchInv, Leave
  PROVE  SwitchInv'
<1> USE DEF ContextAssumption, SwitchInv, Leave, ScratchFor, Restore, hart, memory
<1>1. TypeOK'  BY DEF TypeOK, HartInv, StateInv, Thread, Regs, PC, Value, Fresh, TrapOf, Entered
<1>2. NoCrash'  BY DEF NoCrash, HartInv, StateInv, TypeOK, TrapOf, Entered, Thread
<1>3. HartInv'  BY DEF HartInv, TypeOK, ContextInv, StateInv, NoCrash, TrapOf, Entered, Thread
<1>4. ContextInv'  BY DEF HartInv, ContextInv, TypeOK, StateInv, NoCrash, TrapOf, Entered, Thread
<1>5. StateInv'  BY DEF StateInv, HartInv, ContextInv, TypeOK, Thread, Entered
<1> QED  BY <1>1, <1>2, <1>3, <1>4, <1>5

LEMMA SpawnKeeps ==
  ASSUME ContextAssumption, SwitchInv, NEW p \in Proc, Spawn(p)
  PROVE  SwitchInv'
<1> USE DEF ContextAssumption, SwitchInv, Spawn, hart, memory
<1>1. TypeOK'  BY DEF TypeOK, HartInv, StateInv, Thread, Regs, PC, Value, Fresh, TrapOf, Entered
<1>2. NoCrash'  BY DEF NoCrash, HartInv, StateInv, TypeOK, TrapOf, Entered, Thread
<1>3. HartInv'  BY DEF HartInv, TypeOK, ContextInv, StateInv, NoCrash, TrapOf, Entered, Thread
<1>4. ContextInv'  BY DEF HartInv, ContextInv, TypeOK, StateInv, NoCrash, TrapOf, Entered, Thread
<1>5. StateInv'  BY DEF StateInv, HartInv, ContextInv, TypeOK, Thread, Entered
<1> QED  BY <1>1, <1>2, <1>3, <1>4, <1>5

-----------------------------------------------------------------------------
LEMMA InitSwitchInv == ContextAssumption /\ Init => SwitchInv
<1> SUFFICES ASSUME ContextAssumption, Init  PROVE  SwitchInv
  OBVIOUS
<1> USE DEF ContextAssumption, Init, Fresh, Thread
<1>1. TypeOK
  <2>1. 0 \in PC  BY DEF PC
  <2>2. [pc |-> 0, a0 |-> "none"] \in Regs  BY <2>1 DEF Regs, Value
  <2>3. Fresh \in [regs : Regs, from : {"user", "kernel"}]  BY <2>2
  <2> QED  BY <2>3 DEF TypeOK
<1>2. NoCrash /\ HartInv  BY DEF NoCrash, HartInv, Entered
<1>3. ContextInv  BY DEF ContextInv
<1>4. StateInv  BY DEF StateInv
<1> QED  BY <1>1, <1>2, <1>3, <1>4 DEF SwitchInv

\* Every step of the hart keeps the invariant.
LEMMA NextKeepsSwitchInv ==
  ContextAssumption /\ SwitchInv /\ [Next]_vars => SwitchInv'
<1> SUFFICES ASSUME ContextAssumption, SwitchInv, [Next]_vars  PROVE  SwitchInv'
  OBVIOUS
<1>1. CASE UNCHANGED vars
  BY <1>1 DEF vars, hart, memory, SwitchInv, TypeOK, NoCrash, HartInv, ContextInv, StateInv
<1>2. CASE Next
  BY <1>2, TimerTickKeeps, ComputeKeeps, TrapKeeps, CallReturnsKeeps, CallWaitsKeeps, KeyKeeps,
     TickKeeps, SwitchKeeps, ResumeKeeps, LeaveKeeps, SpawnKeeps DEF Next
<1> QED  BY <1>1, <1>2

\* The invariant of the hart's registers, the saved contexts and the states of
\* the threads holds in every state (start.S, scheduler.S, main.c strap_router).
THEOREM SwitchInvariant == Spec => []SwitchInv
BY ContextAssumption, InitSwitchInv, NextKeepsSwitchInv, PTL DEF Spec

\* Every variable keeps its type: in particular a thread's kernel stack never
\* holds more than one trap's return, because no call turns interrupts on.
THEOREM SwitchTypeOK == Spec => []TypeOK
<1>1. SwitchInv => TypeOK  BY DEF SwitchInv
<1> QED  BY <1>1, SwitchInvariant, PTL

\* No trap finds the wrong handler, page table or trap frame address, and no
\* return leads to where nobody came from, for any number of processes.
THEOREM NeverCrashes == Spec => []NoCrash
<1>1. SwitchInv => NoCrash  BY DEF SwitchInv
<1> QED  BY <1>1, SwitchInvariant, PTL

\* The running thread is the one whose page table and stack the hart uses, and
\* each thread it has left is on its own stack, with its way back.
THEOREM EachOnItsOwnStack == Spec => []OwnContext
<1>1. SwitchInv => OwnContext
  <2> SUFFICES ASSUME SwitchInv  PROVE  OwnContext
    OBVIOUS
  <2> USE DEF SwitchInv, HartInv, TypeOK, Entered
  <2>1. at = "user" => satp = curr /\ stvec = "trampoline" /\ sscratch = "va"
    OBVIOUS
  <2>2. at = "idle" => stack = Idle /\ curr = Idle /\ stvec = "handler"
    OBVIOUS
  <2>3. at \notin {"user", "crash"} => stack = curr
    OBVIOUS
  <2>4. \A t \in Thread : t # curr /\ context[t] # Null =>
          /\ context[t].sp = t
          /\ context[t].ra = "schedule" => frames[t] = <<IF t = Idle THEN "kernel" ELSE "user">>
    BY DEF ContextInv, TrapOf
  <2> QED  BY <2>1, <2>2, <2>3, <2>4 DEF OwnContext
<1> QED  BY <1>1, SwitchInvariant, PTL
-----------------------------------------------------------------------------
(* The kernel implements VirtualHart *)

\* What Hart has for the variables of VirtualHart
File    == [p \in Proc |-> IF at = "user" /\ satp = p THEN regs ELSE tf[p].regs]
User    == IF at = "user" THEN satp ELSE Null
Calling == IF at = "call" THEN curr ELSE Null
Waits   == {p \in Proc : state[p] \in {"reading", "sending"}}

Stutters == UNCHANGED <<File, User, Calling, Waits>>

\* A process that is not in user mode has its registers in its trap frame.
LEMMA FileFacts ==
  ASSUME SwitchInv
  PROVE  /\ File \in [Proc -> Regs]
         /\ at # "user" => User = Null /\ File = [p \in Proc |-> tf[p].regs]
         /\ at = "user" => /\ User = curr /\ Calling = Null /\ curr \in Proc
                           /\ File = [p \in Proc |-> IF p = curr THEN regs ELSE tf[p].regs]
         /\ at # "call" => Calling = Null
         /\ at = "call" => Calling = curr /\ curr \in Proc
<1> USE DEF SwitchInv, HartInv
<1>1. \A p \in Proc : tf[p].regs \in Regs  BY FrameTypes
<1>2. File \in [Proc -> Regs]  BY <1>1 DEF File
<1> QED  BY <1>2 DEF File, User, Calling

\* A step that leaves at as it is, or goes between places inside the kernel, and
\* touches neither a frame nor who waits
LEMMA InsideFacts ==
  ASSUME ContextAssumption, SwitchInv, SwitchInv', UNCHANGED tf,
         at \notin {"user", "call"}, at' \notin {"user", "call"}, Waits' = Waits
  PROVE  Stutters
<1>1. File = [p \in Proc |-> tf[p].regs] /\ User = Null /\ Calling = Null
  BY FileFacts
<1>2. File' = [p \in Proc |-> tf'[p].regs] /\ User' = Null /\ Calling' = Null
  BY DEF File, User, Calling
<1> QED  BY <1>1, <1>2 DEF Stutters

LEMMA TimerTickStutters ==
  ASSUME TimerTick  PROVE Stutters
BY DEF TimerTick, Stutters, File, User, Calling, Waits, hart, memory

LEMMA SpawnStutters ==
  ASSUME ContextAssumption, SwitchInv, SwitchInv', NEW p \in Proc, Spawn(p)  PROVE Stutters
<1> USE DEF Spawn, hart, memory
<1>1. p # curr /\ tf[p] = Fresh
  BY DEF ContextAssumption, SwitchInv, HartInv, StateInv, ContextInv, TypeOK, Thread
<1>2. UNCHANGED tf  BY <1>1 DEF SwitchInv, TypeOK
<1>3. Waits' = Waits  BY DEF Waits, SwitchInv, TypeOK, Thread
<1>4. at' = at /\ at = "idle"  OBVIOUS
<1> QED  BY <1>2, <1>3, <1>4, InsideFacts

LEMMA TickStutters ==
  ASSUME ContextAssumption, SwitchInv, SwitchInv', Tick  PROVE Stutters
BY InsideFacts DEF Tick, memory, Waits

LEMMA ResumeStutters ==
  ASSUME ContextAssumption, SwitchInv, SwitchInv', Resume  PROVE Stutters
BY InsideFacts DEF Resume, memory, Waits

\* An instruction of the running process is one of its own.
LEMMA ComputeComputes ==
  ASSUME ContextAssumption, SwitchInv, SwitchInv', Compute
  PROVE  \E p \in Proc : Hart!Compute(p)
<1> USE DEF Compute, memory
<1>1. at = "user" /\ at' = "user" /\ curr' = curr /\ satp = curr /\ satp' = curr /\ curr \in Proc
  BY DEF SwitchInv, HartInv
<1>2. User = curr /\ User' = curr /\ Calling' = Calling /\ Waits' = Waits
  BY <1>1 DEF User, Calling, Waits
<1>3. curr \notin Waits
  BY DEF Waits, SwitchInv, StateInv
<1>4. File' = [File EXCEPT ![curr].pc = Hart!Advance(@)]
  <2>1. File[curr] = regs /\ regs \in Regs  BY <1>1 DEF File, SwitchInv, HartInv
  <2>2. File'[curr] = [File[curr] EXCEPT !.pc = Advance(@)]
    BY <1>1, <2>1 DEF File
  <2>3. \A p \in Proc : p # curr => File'[p] = File[p]  BY <1>1 DEF File
  <2>4. File \in [Proc -> Regs]  BY FileFacts
  <2>5. File' = [p \in Proc |-> File'[p]]  BY DEF File
  <2>6. File' = [File EXCEPT ![curr] = [File[curr] EXCEPT !.pc = Advance(@)]]
    BY <1>1, <2>2, <2>3, <2>4, <2>5
  <2> QED  BY <2>6 DEF Advance, Hart!Advance
<1> QED  BY <1>1, <1>2, <1>3, <1>4 DEF Hart!Compute, File, User, Calling, Waits

\* A trap takes the registers into the trap frame and changes none of them.
LEMMA TrapTraps ==
  ASSUME ContextAssumption, SwitchInv, SwitchInv', NEW c \in Cause, Trap(c)
  PROVE  Stutters \/ Hart!Trap \/ (curr \in Proc /\ Hart!Call(curr))
<1> USE DEF Trap
<1>1. at' # "crash"  BY DEF SwitchInv, NoCrash
<1>2. CASE at = "idle"
  <2>1. EnterHandler(c)  BY <1>1, <1>2 DEF Crash
  <2>2. at' # "user" /\ at' # "call" /\ Waits' = Waits /\ UNCHANGED tf
    BY <1>2, <2>1 DEF EnterHandler, Cause, Waits
  <2> QED  BY <1>2, <2>2, InsideFacts
<1>3. CASE at = "user"
  <2>1. EnterTrampoline(c) /\ at' = c
    BY <1>1, <1>3 DEF Crash, EnterTrampoline
  <2>2. satp = curr /\ curr' = curr /\ curr \in Proc /\ sscratch = "va"
    BY <1>3 DEF SwitchInv, HartInv
  <2>3. tf' = [tf EXCEPT ![curr] = [regs |-> regs, from |-> "user"]] /\ UNCHANGED state
    BY <2>1, <2>2 DEF EnterTrampoline
  <2>4. UNCHANGED <<File, Waits>>
    <3>1. File' = [p \in Proc |-> tf'[p].regs]
      BY <2>1 DEF Cause, File
    <3>2. \A p \in Proc : tf'[p].regs = IF p = curr THEN regs ELSE tf[p].regs
      BY <2>3 DEF SwitchInv, TypeOK
    <3>3. File' = File  BY <1>3, <3>1, <3>2, FileFacts
    <3> QED  BY <2>3, <3>3 DEF Waits
  <2>5. User = curr /\ User' = Null
    BY <1>3, <2>1, <2>2 DEF User, Cause
  <2>6. CASE c = "call"
    <3>1. Calling' = curr  BY <2>1, <2>2, <2>6 DEF Calling
    <3>2. curr \notin Waits
      BY <2>6 DEF Waits, SwitchInv, StateInv
    <3> QED  BY <2>2, <2>4, <2>5, <3>1, <3>2 DEF Hart!Call, File, User, Calling, Waits
  <2>7. CASE c # "call"
    <3>1. Calling' = Null  BY <2>1, <2>7 DEF Calling
    <3>2. curr # Null  BY <2>2 DEF ContextAssumption, Thread
    <3> QED  BY <2>4, <2>5, <3>1, <3>2 DEF Hart!Trap, File, User, Calling, Waits
  <2> QED  BY <2>6, <2>7
<1> QED  BY <1>2, <1>3

\* A call with a result is made once: the pc is one instruction further.
LEMMA CallReturnsReturns ==
  ASSUME ContextAssumption, SwitchInv, SwitchInv', CallReturns
  PROVE  Hart!Return
<1> USE DEF CallReturns
<1>1. curr \in Proc /\ Calling = curr /\ curr # Null /\ Calling' = Null /\ UNCHANGED User
  BY FileFacts DEF Calling, User, ContextAssumption, Thread
<1>2. "result" \in Value  BY DEF Value
<1>3. File' = [File EXCEPT ![Calling] = [pc |-> Hart!Advance(@.pc), a0 |-> "result"]]
  <2>1. File = [p \in Proc |-> tf[p].regs] /\ File' = [p \in Proc |-> tf'[p].regs]
    BY FileFacts DEF File
  <2>2. \A p \in Proc : tf'[p].regs = IF p = curr THEN [pc |-> NextEpc(curr), a0 |-> "result"]
                                                   ELSE tf[p].regs
    <3>1. \A p \in Proc : tf[p] \in [regs : Regs, from : {"user", "kernel"}]
      BY FrameTypes DEF SwitchInv
    <3> QED  BY <1>1, <3>1 DEF SwitchInv, TypeOK
  <2>3. NextEpc(curr) = Hart!Advance(File[curr].pc)
    BY <1>1, <2>1 DEF NextEpc, Advance, Hart!Advance
  <2> QED  BY <1>1, <2>1, <2>2, <2>3
<1>4. Waits' = Waits \/ \E p \in Waits : Waits' = Waits \ {p}
  <2>1. CASE UNCHANGED state  BY <2>1 DEF Waits
  <2>2. CASE \E p \in Proc : state[p] = "sending" /\ Wakes(p)
    BY <2>2 DEF Waits, Wakes, SwitchInv, TypeOK, Thread
  <2> QED  BY <2>1, <2>2
<1> QED
  BY <1>1, <1>2, <1>3, <1>4 DEF Hart!Return, File, User, Calling, Waits

\* A call that waits is made again, or is behind the process.
LEMMA CallWaitsWaits ==
  ASSUME ContextAssumption, SwitchInv, SwitchInv', NEW w \in {"reading", "sending"}, CallWaits(w)
  PROVE  Hart!Wait
<1> USE DEF CallWaits
<1>1. curr \in Proc /\ Calling = curr /\ curr # Null /\ Calling' = Null /\ UNCHANGED User
  BY FileFacts DEF Calling, User, ContextAssumption, Thread
<1>2. File = [p \in Proc |-> tf[p].regs] /\ File' = [p \in Proc |-> tf'[p].regs]
  BY FileFacts DEF File
<1>3. \A p \in Proc : tf[p] \in [regs : Regs, from : {"user", "kernel"}] /\ tf[p].regs \in Regs
  BY FrameTypes DEF SwitchInv
<1>4. \E n \in {File[curr].pc, Hart!Advance(File[curr].pc)} :
        \A p \in Proc : tf'[p].regs = IF p = curr THEN [tf[curr].regs EXCEPT !.pc = n] ELSE tf[p].regs
  <2>1. CASE w = "reading"
    <3>1. tf' = [tf EXCEPT ![curr].regs = [tf[curr].regs EXCEPT !.pc = NextEpc(curr)]]
      BY <1>1, <1>3, <2>1, FrameFacts DEF SwitchInv
    <3>2. \A p \in Proc : tf'[p].regs = IF p = curr THEN [tf[curr].regs EXCEPT !.pc = NextEpc(curr)]
                                                     ELSE tf[p].regs
      BY <1>1, <1>3, <3>1 DEF SwitchInv, TypeOK
    <3>3. NextEpc(curr) = Hart!Advance(File[curr].pc)
      BY <1>1, <1>2 DEF NextEpc, Advance, Hart!Advance
    <3> QED  BY <3>2, <3>3
  <2>2. CASE w = "sending"
    <3>1. UNCHANGED tf  BY <2>2
    <3>2. [tf[curr].regs EXCEPT !.pc = File[curr].pc] = tf[curr].regs
      BY <1>1, <1>2, <1>3 DEF Regs
    <3> QED  BY <3>1, <3>2
  <2> QED  BY <2>1, <2>2
<1>5. PICK n \in {File[curr].pc, Hart!Advance(File[curr].pc)} :
        \A p \in Proc : tf'[p].regs = IF p = curr THEN [tf[curr].regs EXCEPT !.pc = n] ELSE tf[p].regs
  BY <1>4
<1>6. File' = [File EXCEPT ![Calling].pc = n]
  BY <1>1, <1>2, <1>3, <1>5
<1>7. Waits' = Waits \cup {Calling}
  BY <1>1 DEF Waits, SwitchInv, TypeOK, Thread
<1> QED
  <2>1. n \in {File[Calling].pc, Hart!Advance(File[Calling].pc)}  BY <1>1
  <2> QED  BY <1>1, <1>6, <1>7, <2>1 DEF Hart!Wait, File, User, Calling, Waits

\* A key is an answer to one process that waits, and changes its a0 only.
LEMMA KeyAnswers ==
  ASSUME ContextAssumption, SwitchInv, SwitchInv', Key
  PROVE  Stutters \/ \E p \in Proc : Hart!Answer(p)
<1> USE DEF Key
<1>1. at = "key" /\ at' = "leave"  OBVIOUS
<1>2. CASE UNCHANGED <<tf, state>>
  BY <1>1, <1>2, InsideFacts DEF Waits
<1>3. CASE \E p \in Proc : state[p] = "reading" /\ SetA0(p, "key") /\ Wakes(p)
  <2>1. PICK p \in Proc : /\ state[p] = "reading" /\ state' = [state EXCEPT ![p] = "ready"]
                          /\ tf' = [tf EXCEPT ![p].regs.a0 = "key"]
    BY <1>3 DEF SetA0, Wakes
  <2>2. User = Null /\ User' = Null /\ Calling = Null /\ Calling' = Null
    BY <1>1 DEF User, Calling
  <2>3. \A q \in Proc : tf[q] \in [regs : Regs, from : {"user", "kernel"}] /\ tf[q].regs \in Regs
    BY FrameTypes DEF SwitchInv
  <2>4. tf' = [tf EXCEPT ![p].regs = [tf[p].regs EXCEPT !.a0 = "key"]]
    BY <2>1, <2>3, FrameFacts DEF SwitchInv
  <2>5. \A q \in Proc : tf'[q].regs = IF q = p THEN [tf[p].regs EXCEPT !.a0 = "key"] ELSE tf[q].regs
    BY <2>3, <2>4 DEF SwitchInv, TypeOK
  <2>6. File = [q \in Proc |-> tf[q].regs] /\ File' = [q \in Proc |-> tf'[q].regs]
    BY <1>1, FileFacts DEF File
  <2>7. File' = [File EXCEPT ![p].a0 = "key"] /\ "key" \in Value
    BY <2>3, <2>5, <2>6 DEF Value
  <2>8. p \in Waits /\ Waits' = Waits \ {p}
    BY <2>1 DEF Waits, SwitchInv, TypeOK, Thread
  <2> QED  BY <2>2, <2>7, <2>8 DEF Hart!Answer, File, User, Calling, Waits
<1> QED  BY <1>2, <1>3

\* The registers of a process come back from its trap frame: the first time, ...
LEMMA SwitchEnters ==
  ASSUME ContextAssumption, SwitchInv, SwitchInv', NEW n \in Thread, Switch(n)
  PROVE  Stutters \/ (n \in Proc /\ Hart!Enter(n))
<1> USE DEF Switch
<1>1. Waits' = Waits
  BY DEF Waits, StateAfter, SwitchInv, TypeOK, Thread
<1>2. CASE Saved[n].ra = "bootstrap"
  <2>1. at = "tick" /\ at' = "user" /\ satp' = n /\ regs' = tf[n].regs /\ UNCHANGED tf
    BY <1>2 DEF Restore, SwitchInv, NoCrash
  <2>2. n \in Proc  BY <2>1 DEF SwitchInv, HartInv
  <2>3. User = Null /\ Calling = Null /\ User' = n /\ Calling' = Null
    BY <2>1 DEF User, Calling
  <2>4. File' = File
    BY <2>1 DEF File
  <2> QED  BY <1>1, <2>2, <2>3, <2>4 DEF Hart!Enter, File, User, Calling, Waits
<1>3. CASE Saved[n].ra # "bootstrap"
  BY <1>1, <1>3, InsideFacts
<1> QED  BY <1>2, <1>3

\* ... and at every return to user mode.
LEMMA LeaveEnters ==
  ASSUME ContextAssumption, SwitchInv, SwitchInv', Leave
  PROVE  Stutters \/ (curr \in Proc /\ Hart!Enter(curr))
<1> USE DEF Leave
<1>1. Waits' = Waits  BY DEF Waits
<1>2. at = "leave" /\ at' # "crash"  BY DEF SwitchInv, NoCrash
<1>3. CASE frames[stack] = <<"user">>
  <2>1. ScratchFor \in Proc /\ Restore(ScratchFor)
    BY <1>2, <1>3
  <2>2. at' = "user" /\ satp' = ScratchFor /\ regs' = tf[ScratchFor].regs /\ UNCHANGED <<tf, curr>>
    BY <1>2, <2>1 DEF Restore
  <2>3. ScratchFor = curr /\ curr \in Proc
    BY <2>2 DEF SwitchInv, HartInv
  <2>4. User = Null /\ Calling = Null /\ User' = curr /\ Calling' = Null
    BY <1>2, <2>2, <2>3 DEF User, Calling
  <2>5. File' = File
    BY <1>2, <2>2, <2>3 DEF File
  <2> QED  BY <1>1, <2>3, <2>4, <2>5 DEF Hart!Enter, File, User, Calling, Waits
<1>4. CASE frames[stack] # <<"user">>
  BY <1>1, <1>2, <1>4, InsideFacts
<1> QED  BY <1>3, <1>4

LEMMA InitRefines ==
  ASSUME ContextAssumption, Init  PROVE Hart!Init
<1>1. SwitchInv  BY InitSwitchInv
<1>2. File \in [Proc -> Regs]  BY <1>1, FileFacts
<1>3. User = Null /\ Calling = Null /\ Waits = {}
  BY DEF Init, User, Calling, Waits, ContextAssumption, Thread
<1>4. Regs = [pc : 0..Length - 1, a0 : Value]  BY DEF Regs, PC
<1> QED  BY <1>2, <1>3, <1>4 DEF Hart!Init, File, User, Calling, Waits

LEMMA StepRefines ==
  ContextAssumption /\ SwitchInv /\ SwitchInv' /\ [Next]_vars
    => [Hart!Next]_<<File, User, Calling, Waits>>
<1> SUFFICES ASSUME ContextAssumption, SwitchInv, SwitchInv', [Next]_vars
             PROVE  Hart!Next \/ Stutters
  BY DEF Stutters
<1>1. CASE UNCHANGED vars
  BY <1>1 DEF vars, hart, memory, Stutters, File, User, Calling, Waits
<1>2. CASE TimerTick  BY <1>2, TimerTickStutters
<1>3. CASE Compute  BY <1>3, ComputeComputes DEF Hart!Next
<1>4. CASE \E c \in Cause : Trap(c)  BY <1>4, TrapTraps DEF Hart!Next
<1>5. CASE CallReturns  BY <1>5, CallReturnsReturns DEF Hart!Next
<1>6. CASE \E w \in {"reading", "sending"} : CallWaits(w)  BY <1>6, CallWaitsWaits DEF Hart!Next
<1>7. CASE Key  BY <1>7, KeyAnswers DEF Hart!Next
<1>8. CASE Tick  BY <1>8, TickStutters
<1>9. CASE \E t \in Thread : Switch(t)  BY <1>9, SwitchEnters DEF Hart!Next
<1>10. CASE Resume  BY <1>10, ResumeStutters
<1>11. CASE Leave  BY <1>11, LeaveEnters DEF Hart!Next
<1>12. CASE \E p \in Proc : Spawn(p)  BY <1>12, SpawnStutters
<1> QED
  BY <1>1, <1>2, <1>3, <1>4, <1>5, <1>6, <1>7, <1>8, <1>9, <1>10, <1>11, <1>12 DEF Next

\* Every process computes as if it had the hart to itself: whatever runs in
\* between, its registers change by its own instructions and the answers to its
\* own calls only, and a process that waits executes nothing.
THEOREM HartImplementsVirtualHart == Spec => ImplementsVirtualHart
<1>1. Init => Hart!Init  BY ContextAssumption, InitRefines
<1>2. SwitchInv /\ SwitchInv' /\ [Next]_vars => [Hart!Next]_<<File, User, Calling, Waits>>
  BY ContextAssumption, StepRefines
<1> QED
  BY <1>1, <1>2, SwitchInvariant, PTL
     DEF Spec, ImplementsVirtualHart, Hart!Spec, File, User, Calling, Waits
=============================================================================
