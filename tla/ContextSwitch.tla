--------------------------- MODULE ContextSwitch ---------------------------
(***************************************************************************)
(* How one hart of RexOS gets from user code into the kernel, from one     *)
(* thread to another, and back: start.S, scheduler.S, and the parts of      *)
(* strap_router and schedule() that touch trap frames, kernel stacks and    *)
(* the registers stvec, sscratch and satp.                                 *)
(*                                                                         *)
(* Which thread runs next is Scheduler's business: here it is any that is  *)
(* ready.  Interrupts are off from a trap to the return from it (no call   *)
(* modelled here turns them on), so the trap code runs in a few steps.     *)
(***************************************************************************)
EXTENDS Integers, Sequences

CONSTANTS
  Proc,    \* processes
  Idle,    \* the idle thread, which is also kmain; it has no trap frame
  Length,  \* program counters are counted modulo this
  Null

Thread == Proc \cup {Idle}
PC     == 0..Length - 1
Value  == {"none", "result", "key"}
Regs   == [pc : PC, a0 : Value]

ASSUME ContextAssumption ==
  /\ Idle \notin Proc /\ Length \in Nat \ {0}
  /\ Null \notin Thread \cup [ra : {"bootstrap", "schedule"}, sp : Thread]

VARIABLES
  curr,      \* curr_process
  state,
  regs,      \* the user registers in the hart, while it is in user mode
  satp,      \* whose page table: a process, or Idle for root_table
  sscratch,  \* "va", where every user table maps the trap frame; or a process:
             \* the kernel's address of its trap frame
  stvec,     \* "trampoline", "handler" (_smode_trap_handler) or "astray"
  stack,     \* whose kernel stack sp points into
  at,        \* where the hart is
  ssip,      \* a software interrupt is pending
  tf,        \* tf[p]: the trap frame, [regs, from]: from is sstatus.SPP
  context,   \* context[t]: what _switch_context saved, [ra, sp]
  frames     \* frames[t]: the traps whose return is on t's kernel stack

hart == <<regs, satp, sscratch, stvec, stack, at>>
memory == <<state, tf, context, frames>>
vars == <<curr, ssip, hart, memory>>

Fresh == [regs |-> [pc |-> 0, a0 |-> "none"], from |-> "user"]

\* kmain runs on the idle thread's stack with interrupts on.
Init ==
  /\ curr = Idle /\ state = [t \in Thread |-> IF t = Idle THEN "running" ELSE "unborn"]
  /\ regs = Null /\ satp = Idle /\ sscratch = "va" /\ stvec = "handler"
  /\ stack = Idle /\ at = "idle" /\ ssip = FALSE
  /\ tf = [p \in Proc |-> Fresh]
  /\ context = [t \in Thread |-> Null]
  /\ frames = [t \in Thread |-> <<>>]

TypeOK ==
  /\ curr \in Thread
  /\ state \in [Thread -> {"unborn", "ready", "running", "reading", "sending"}]
  /\ regs \in Regs \cup {Null}
  /\ satp \in Thread /\ stack \in Thread
  /\ sscratch \in Proc \cup {"va"}
  /\ stvec \in {"trampoline", "handler", "astray"}
  /\ at \in {"user", "idle", "call", "key", "tick", "resumed", "leave", "crash"}
  /\ ssip \in BOOLEAN
  /\ tf \in [Proc -> [regs : Regs, from : {"user", "kernel"}]]
  /\ context \in [Thread -> [ra : {"bootstrap", "schedule"}, sp : Thread] \cup {Null}]
  /\ frames \in [Thread -> {<<>>, <<"user">>, <<"kernel">>}]

Advance(n) == (n + 1) % Length

Spawn(p) ==
  /\ at = "idle" /\ state[p] = "unborn"
  /\ state' = [state EXCEPT ![p] = "ready"]
  /\ tf' = [tf EXCEPT ![p] = Fresh]
  /\ context' = [context EXCEPT ![p] = [ra |-> "bootstrap", sp |-> p]]
  /\ UNCHANGED <<curr, ssip, hart, frames>>

\* mtrap_router pends a software interrupt, in whatever the hart is doing.
TimerTick ==
  /\ ~ssip /\ ssip' = TRUE
  /\ UNCHANGED <<curr, hart, memory>>

-----------------------------------------------------------------------------
(* Into the kernel *)

Cause == {"call", "key", "tick"}

\* An instruction that is not interrupted
Compute ==
  /\ at = "user" /\ ~ssip
  /\ regs' = [regs EXCEPT !.pc = Advance(@)]
  /\ UNCHANGED <<curr, ssip, satp, sscratch, stvec, stack, at, memory>>

Crash == at' = "crash" /\ UNCHANGED <<regs, satp, sscratch, stvec, stack, memory>>

\* _user_trampoline: the trap frame is found through sscratch and the loaded
\* page table, the kernel stack through the trap frame.  Its la is relative to
\* the pc, which is in the trampoline's mapping: stvec gets a wrong address.
EnterTrampoline(cause) ==
  IF sscratch = "va" /\ satp \in Proc
  THEN /\ tf' = [tf EXCEPT ![satp] = [regs |-> regs, from |-> "user"]]
       /\ frames' = [frames EXCEPT ![satp] = <<"user">>]
       /\ stack' = satp /\ satp' = Idle /\ stvec' = "astray"
       /\ regs' = Null /\ at' = cause
       /\ UNCHANGED <<sscratch, state, context>>
  ELSE Crash

\* _smode_trap_handler pushes everything on the stack it finds.
EnterHandler(cause) ==
  /\ frames' = [frames EXCEPT ![stack] = Append(@, "kernel")]
  /\ at' = cause
  /\ UNCHANGED <<regs, satp, sscratch, stvec, stack, state, tf, context>>

\* The idle thread makes no calls; a pending interrupt comes before a call.
Trap(cause) ==
  /\ at \in {"user", "idle"}
  /\ cause = "call" => at = "user" /\ ~ssip
  /\ cause = "tick" => ssip
  /\ \/ at = "user" /\ stvec = "trampoline" /\ EnterTrampoline(cause)
     \/ at = "idle" /\ stvec = "handler" /\ EnterHandler(cause)
     \/ stvec # (IF at = "user" THEN "trampoline" ELSE "handler") /\ Crash
  /\ UNCHANGED <<curr, ssip>>

-----------------------------------------------------------------------------
(* strap_router *)

\* Variant: the running process gets the key.
SetA0Curr(p, v) ==
  IF curr \in Proc THEN tf' = [tf EXCEPT ![curr].regs.a0 = v] ELSE UNCHANGED tf

SetA0(p, v) == tf' = [tf EXCEPT ![p].regs.a0 = v]

\* A thread that is in a wait goes back to its runqueue.
Wakes(p) == state' = [state EXCEPT ![p] = "ready"]

\* Variant: epc is left at the ecall.
NextEpcSame(p) == tf[p].regs.pc

\* epc += 4
NextEpc(p) == Advance(tf[p].regs.pc)

\* A call with a result ...
CallReturns ==
  /\ at = "call"
  /\ tf' = [tf EXCEPT ![curr].regs = [pc |-> NextEpc(curr), a0 |-> "result"]]
  /\ \/ UNCHANGED state
     \/ \E p \in Proc : state[p] = "sending" /\ Wakes(p)
  /\ ssip' \in {ssip, TRUE}
  /\ at' = "leave"
  /\ UNCHANGED <<curr, regs, satp, sscratch, stvec, stack, context, frames>>

\* ... one that waits for a key, and one that is made again: epc -= 4.
CallWaits(for) ==
  /\ at = "call"
  /\ state' = [state EXCEPT ![curr] = for]
  /\ tf' = IF for = "reading" THEN [tf EXCEPT ![curr].regs.pc = NextEpc(curr)] ELSE tf
  /\ ssip' = TRUE
  /\ at' = "leave"
  /\ UNCHANGED <<curr, regs, satp, sscratch, stvec, stack, context, frames>>

\* The UART: a reader gets its key in its trap frame; it may be the process
\* that has just blocked, and is still the running one.
Key ==
  /\ at = "key"
  /\ \/ \E p \in Proc : state[p] = "reading" /\ SetA0(p, "key") /\ Wakes(p)
     \/ UNCHANGED <<tf, state>>
  /\ ssip' \in {ssip, TRUE}
  /\ at' = "leave"
  /\ UNCHANGED <<curr, regs, satp, sscratch, stvec, stack, context, frames>>

\* Variant: stvec is only ever set for user mode.
HandlerForUmode(t) == "trampoline"

\* _load_umode_stvec, _load_smode_stvec: what the return from here needs
HandlerFor(t) ==
  IF t \in Proc /\ tf[t].from = "user" THEN "trampoline" ELSE "handler"

\* A software interrupt that does not switch
Tick ==
  /\ at = "tick" /\ state[curr] = "running"
  /\ ssip' = FALSE
  /\ stvec' = HandlerFor(curr)
  /\ at' = "leave"
  /\ UNCHANGED <<curr, regs, satp, sscratch, stack, memory>>

StateAfter == IF state[curr] = "running" THEN [state EXCEPT ![curr] = "ready"] ELSE state

\* _restore_state with sp at the trap frame of p: the registers come through
\* the page table, at the address that is then kept in sscratch.
Restore(p) ==
  /\ stvec' = "trampoline" /\ sscratch' = "va"
  /\ satp' = p /\ regs' = tf[p].regs
  /\ at' = IF tf[p].from = "user" THEN "user" ELSE "crash"

\* Variant: sp is not saved.
SavedAtTop == [context EXCEPT ![curr] = [ra |-> "schedule", sp |-> Idle]]

Saved == [context EXCEPT ![curr] = [ra |-> "schedule", sp |-> stack]]

\* schedule() and _switch_context: go on where next left, or, the first time,
\* in _process_bootstrap.
Switch(next) ==
  /\ at = "tick" /\ StateAfter[next] = "ready"
  /\ ssip' = FALSE
  /\ state' = [StateAfter EXCEPT ![next] = "running"]
  /\ curr' = next
  /\ context' = Saved
  /\ stack' = Saved[next].sp
  /\ IF Saved[next].ra = "bootstrap"
     THEN Restore(next)
     ELSE at' = "resumed" /\ UNCHANGED <<regs, satp, sscratch, stvec>>
  /\ UNCHANGED <<tf, frames>>

\* Back in strap_router, on the new thread's stack
Resume ==
  /\ at = "resumed"
  /\ stvec' = HandlerFor(curr)
  /\ at' = "leave"
  /\ UNCHANGED <<curr, ssip, regs, satp, sscratch, stack, memory>>

-----------------------------------------------------------------------------
(* Out of the kernel *)

\* Variant: nothing is loaded.
ScratchForSame == sscratch

\* _load_sscratch at the end of strap_router
ScratchFor == IF curr \in Proc THEN curr ELSE sscratch

\* The return that is on the stack: to the trampoline, which takes the trap
\* frame from sscratch, or to the interrupted kernel code.
Leave ==
  /\ at = "leave"
  /\ IF frames[stack] = <<"user">>
     THEN IF ScratchFor \in Proc
          THEN Restore(ScratchFor) /\ frames' = [frames EXCEPT ![stack] = <<>>]
          ELSE at' = "crash" /\ UNCHANGED <<regs, satp, sscratch, stvec, frames>>
     ELSE /\ at' = "idle" /\ frames' = [frames EXCEPT ![stack] = <<>>]
          /\ sscratch' = ScratchFor
          /\ UNCHANGED <<regs, satp, stvec>>
  /\ UNCHANGED <<curr, ssip, stack, state, tf, context>>

Next ==
  \/ TimerTick \/ Compute \/ (\E c \in Cause : Trap(c))
  \/ CallReturns \/ (\E w \in {"reading", "sending"} : CallWaits(w))
  \/ Key \/ Tick \/ (\E t \in Thread : Switch(t)) \/ Resume \/ Leave
  \/ \E p \in Proc : Spawn(p)

Spec == Init /\ [][Next]_vars

-----------------------------------------------------------------------------
(* Properties *)

\* No trap is taken with the wrong handler, page table or trap frame address,
\* and none returns to a place nobody came from (start.S:290-389): the code
\* that sets stvec is in other functions than the code that leaves the kernel.
NoCrash == at # "crash"

\* When the hart can be interrupted, the running thread is the one whose page
\* table and stack it uses, and stvec leads to the handler for its mode; the
\* threads it has left are on stacks of their own, each with its way back.
OwnContext ==
  /\ at = "user" => satp = curr /\ stvec = "trampoline" /\ sscratch = "va"
  /\ at = "idle" => stack = Idle /\ curr = Idle /\ stvec = "handler"
  /\ at \notin {"user", "crash"} => stack = curr
  /\ \A t \in Thread : t # curr /\ context[t] # Null =>
       /\ context[t].sp = t
       /\ context[t].ra = "schedule" => frames[t] = <<IF t = Idle THEN "kernel" ELSE "user">>

\* The registers of a process are in the hart, or saved.
Hart == INSTANCE VirtualHart WITH
  file    <- [p \in Proc |-> IF at = "user" /\ satp = p THEN regs ELSE tf[p].regs],
  user    <- IF at = "user" THEN satp ELSE Null,
  calling <- IF at = "call" THEN curr ELSE Null,
  waits   <- {p \in Proc : state[p] \in {"reading", "sending"}}

\* A process goes on exactly where it was, with the registers it had, whatever
\* ran in between and whether it was preempted, waited in a call, or got its
\* key while it was still the running process (main.c:352-359, 377-383, 493-497,
\* 1001-1003; start.S:291-389; scheduler.S:15-44).
ImplementsVirtualHart == Hart!Spec
=============================================================================
