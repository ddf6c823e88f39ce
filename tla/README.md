# RexOS: TLA+ models and proofs

RexOS is a small kernel for RISC-V machines with several harts. It runs two
user programs, a shell and a worker, which send each other messages. This
directory holds TLA+ modules translated from its source, TLC configurations
that check them on small instances, and theorems about them proved with TLAPS.

## The system

| Part | Source | State | Operations | Interacts with |
|---|---|---|---|---|
| Scheduler | `kernel/scheduler.c`, `smp.h`, `scheduler.h` | one runqueue per hart (32 circular lists, `lookup_bitmap`, `curr_process`, `process_count`, `starv_ticks`), five lists of waiting threads, `emergency_process`, in each thread `state`, `ticks_left`, `next`, `prev` | spawn, block/unblock (three pairs), sleep, exit, wait, orphan cleaning, `schedule`, sweeper, stealing | everything below |
| Interrupts | `main.c` `mtrap_router`, `strap_router`; `timer.c`, `timer.S` | pending bits | timer tick, software interrupt, UART interrupt | drives the scheduler |
| System calls | `main.c` `strap_router` case 8, `user/syscall.S` | trap frame | read, exit, yield, sleep, wait, send, recv, grants, process list, ... | scheduler, IPC, capabilities |
| IPC and console | `main.c` | `mailbox`, `mailbox_status`, `ipc_pending_pid`, `uart_buff`, `shell_ptr` | send, recv, read, UART interrupt | block and unblock threads |
| Capabilities | `main.c` | `capability_root` (4 bits per pid), `grant_whitelist` | check at send, grant, whitelist | IPC |
| Process creation | `scheduler.c` `spawn_process` | `pid_registry`, `next_pid`, `alive_thread_counter` | pid allocation, ELF loading | allocators, scheduler |
| Idle loops, bring-up | `main.c` `kmain`, `oxomoco_loop`; `smp.c`, `start.S` | `smp_ready`, `cpu_closet` | release of the other harts, idling | scheduler |
| Buddy allocator | `kalloc.c` | `page_array`, `free_lists` | `kalloc`, `kfree` | used by heap, tables, stacks |
| Heap and page tables | `vm.c` | slabs, Sv39 tables | `kvmalloc`, `kvmfree`, map, translate, unmap, free | allocator |
| Trap entry, context switch | `start.S`, `scheduler.S` | registers, `sscratch`, `stvec`, `kernel_tp` | entry, return, `_switch_context` | every trap |
| Spinlocks | `smp.S` | ten locks and one per runqueue | acquire, release | everywhere |
| Device tree | `dtb.c` | none after boot | parsers | boot |
| UART, PLIC | `uart.c` | device registers | putc, getc, claim, complete | console |
| User programs | `user/*.c` | | loops of system calls | system calls |

What makes it hard: harts share five lists, one `emergency_process` and every
thread's fields; a thread that blocks stays the hart's current thread until an
interrupt takes it off; interrupts are pended from machine mode at any moment;
threads move between harts when they are woken or stolen; and the idle loop of
the boot hart frees threads. What must hold nevertheless: a thread is in
exactly one queue and the one its state names; the bitmap and the counters say
what the lists hold; a hart runs only a thread that is ready, and the right
one; nothing that exited runs again; everything that waits for the clock gets
its turn. `PROJECT.json` lists the hazards line by line.

## Modules

* `Scheduler` -- the component everything else depends on, for any number of
  harts, processes, priorities and slices.
* `MCScheduler` -- constants for TLC.
* `Lists` -- the kernel's linked lists as sequences, and its searches for a least or
  greatest element; used by `Scheduler`, `BuddyAllocator` and `KernelHeap`.
* `ListLemmas` -- what these operators do, for the proofs.
* `SchedulerProofs` -- the inductive invariants of `Scheduler` and the theorems, in general
  and for a machine with one hart.
* `Ipc`, `MCIpc` -- send and recv, composed with the scheduler (`Ipc` EXTENDS
  `Scheduler` and takes its steps over).
* `Channel` -- what a mailbox promises, implemented by `Ipc` on one hart.
* `Console`, `MCConsole` -- keys: read, the UART interrupt, the shell's line
  editor; composed with the scheduler in the same way.
* `KeyQueue` -- what a console promises, implemented by `Console`.
* `SystemCallProofs` -- the theorems about `Ipc`, `Console`, `Channel` and `KeyQueue`.
* `ContextSwitch` -- trap entry, context switch and return on one hart, with the
  registers as state. Which thread runs next is left open, so it stands alone.
* `VirtualHart` -- what a process sees of it: registers of its own.
* `ContextSwitchProofs` -- the theorems about both.
* `BuddyAllocator`, `MCBuddyAllocator` -- `kalloc.c`, for any number of orders.
* `Allocator` -- what it promises: disjoint, aligned blocks, refused only when
  none is left.
* `BuddyAllocatorProofs` -- the theorems about both.
* `KernelHeap`, `MCKernelHeap` -- the slab caches of `vm.c`, on top of `Allocator`.
* `KernelHeapProofs` -- its theorems.
* `AddressSpace`, `MCAddressSpace` -- page tables, shared pages, and the release
  of a process's memory.
* `VirtualMemory` -- what page tables promise: a partial map per space.
* `DeviceTree`, `MCDeviceTree` -- the parsers of `dtb.c`. Stands alone.
* `DeviceTreeProofs` -- its theorems.
* `Capabilities`, `MCCapabilities` -- grant, revoke and the whitelist. Stands alone.
* `CapabilitiesProofs` -- its theorems.

### How Scheduler corresponds to the code

A circle of threads is a sequence read from its head pointer, so inserting
before the head is `Append` and `head = head->next` is `Rotate`; a waiting list
is a sequence, head first. `lookup_bitmap` is two sets: `ready` (low half) and
`passed` (high half, priorities passed over since the last sweep). `state[p]`
is 0/1 as `"ready"`/`"running"`, and 2 to 6 as the name of the list.
`kernel_tp[p]` is the runqueue address in the trap frame: `start.S:333` loads it
into `tp`, so it decides which runqueue the next trap out of `p` works on.
`ticks` is `ticks_left`, modulo `TickMod` where the code lets it wrap.

`pc[h]` names the place a hart is at between two of its sections that run
under a lock or with interrupts off; each such section is one action:

| `pc` | code | actions from there |
|---|---|---|
| `run` | in user code or the idle loop | `Syscall`s, `EnterInterrupt`, `WakeReader`, `EnterIdleLoop`, `Spawn` |
| `sleepers` | software interrupt, before `update_sleep_list` has its lock | `LockSleepers` |
| `walk` | in `update_sleep_list`, then the rest of the interrupt | `SleepOn`, `Awaken`, `Account` |
| `schedule` | at the entry of `schedule()` | `Schedule`, `RotateNull` |
| `drain` | `recv` waking the senders, one lock round each | `WakeSender`, `EndDrain` |
| `scan` | `exit_process` after it has given up `zombie_list_lock` | `EndExit` |
| `steal`, `put` | the idle loop in `steal_process` | `StealTake`, `StealNothing`, `StealPut` |
| `panic`, `fault` | the hart stopped in `schedule()` with its lock held | none |
| `lost` | a trap is about to use another hart's runqueue | ends the behaviour |

Traps run with interrupts off, so between `EnterInterrupt` and the return no
second interrupt of the same hart intervenes; other harts interleave with every
action. The idle loops clear `sstatus.SIE` before they steal (`timer.S:21-25`).
A call sets `ssip`, which is taken before the next instruction of user code:
that is why `Syscall` requires `~ssip[h]`.

Which process is woken by a message or a key is left open: any process waiting
in the list may be. That contains what the mailboxes and the UART do.

`steal_process` looks at the harts one after the other, at a `process_count` it reads without
a lock (`scheduler.c:919-925`). `StealTake` takes from any hart that has a thread to spare at
that moment, and with more than two harts `StealNothing` may find none although there is one.

Three things cannot be followed further without a model of memory: a trap that
works on another hart's runqueue, a system call of a process that is in no
circle of this hart, and a hart whose running thread was freed. The
behaviours of `Spec` end there (`Lose`, `Intact`). They need two harts; on one
hart `NoPanic` shows that they do not happen.

### How Ipc corresponds to the code

`mailbox`, `full` (`mailbox_status`) and `pending` (`ipc_pending_pid`) are fields
of `struct process`. A call runs with interrupts off but without a lock on any
of them, so each is cut where another hart may come between: send into `SendTest` (find
the target, check the rights, read the status), then `SendPut` (copy, wake) and
`SendFlag`, or `SendWait`; recv into `RecvTest`, then `RecvTake` and one
`WakeNextSender` per lock round, or `RecvSleep`. `doing[h]` is the place in between.
A blocked send moves `epc` back and is made again: `sending[p]` remembers it, and
such a process makes no other call first. A blocked recv is not made again: its
caller returns without a message, and `WokenHasMessage` says that the message is
there for the next one. `expects` and `got` are history.
Looking a process up takes several locks one after the other; here it is one step, so a
process that moves between circles during a lookup is not missed. A timer tick
in the middle of a call is taken at its end, as it would only be pended. Rights are
the constant `MaySend`. All other steps are `Scheduler`'s, which `ImplementsScheduler`
states of the whole: the calls block, wake and set pending bits only as
`Scheduler` allows.

### How Console corresponds to the code

`fifo` is the UART's receive FIFO and the only thing the environment changes
(`Typed`). `UartInterrupt` is the external interrupt whole: claim, `uart_getc`,
hand the key to a blocked reader in its trap frame or keep it in `uart_buff`,
complete. read is cut into `ReadTest`, then `ReadGive` and `ReadClear`, or
`ReadBlock`; `reading[h]` is the place in between, as `doing[h]` in `Ipc`. `a0[p]` is a key that
was put into the saved a0 of `p` and that `p` has not used yet: a process makes no
other call before it used it. For the shell, using it is one turn of the loop in
`shell.c`. `block_process(shell_ptr)` is taken as blocking the caller, which is so
as long as one hart at a time runs a reader.

`KeyQueue` allows a slow reader to lose keys, but only one that a later key
replaced: `uart_buff` has one place. `text` is history, what the screen shows.

The byte 0 is a key (`NUL`): `uart_getc` passes any byte. A blocked reader is given it
like any other. Otherwise it is put into `uart_buff`, where 0 means empty: it is lost, and
the key kept there before goes with it. `KeyQueue` says so with `Unkept`. The shell stores a
NUL like any stroke, so the command `cmd_parser` gets is the line up to the first NUL in it.

### How ContextSwitch corresponds to the code

The registers that decide where the next trap goes are state: `satp`, `sscratch`,
`stvec`, the stack that `sp` points into, and the user registers (a program counter
and `a0` stand for all). `sscratch` has two kinds of value, the address at which
every user table maps its trap frame (`"va"`) and the kernel's own address of one
process's. `frames[t]` is what lies on `t`'s kernel stack: a trap from user mode, whose
return goes through the trampoline, or from the idle loop, whose return is the
`sret` of `_smode_trap_handler`. `context[t]` is what `_switch_context` saved.

`_user_trampoline` loads `stvec` with `la t0, _smode_trap_handler`. `la` is relative
to the program counter, which is in the trampoline's mapping at the top of the
address space: the address is wrong. `stvec` is then `"astray"` until the return
sets it. With interrupts off this harms nobody but a fault of the kernel, which
would not be reported. `NoCrash` shows that no interrupt and no call ever meets
it. `wait_process` turns interrupts on in the kernel; it is not modelled.

### How BuddyAllocator corresponds to the code

Pages are indices in `page_array`; `flag` and `order` are its fields, `free[k]` the
list `free_lists[k]`, whose two links per page are a sequence here. `kalloc` and
`kfree` hold `kalloc_lock` throughout, so each is one action: `Kalloc` with all
its splits, `Kfree` with all its merges. `Merged` follows the loop of kfree as
a function of the order. `KallocPanics`, `KfreePanics` and `ReleaseCaught` are the
calls of kpanic; `held` is history, and so is `refused`, the order of the request
that `kalloc` panicked at. `Release` is a caller that gives back a block
it holds. A call of kfree with a page that heads no block in use is a mistake, which
`uvm_free` makes of a page that two processes shared (`vm.c:657-661`, `NoBadFree.cfg`). Where
the checks notice (`ReleaseCaught`) the kernel panics. They do not notice a page that was merged into its lower buddy, which keeps `flag` 1; what
follows a second kfree of such a page is not modelled. The pool starts and ends on
a boundary of the largest block, as on the machines the Makefile starts;
`kalloc_init` rounds the start up but does not look at the end (`kalloc.c:41`).

### How KernelHeap corresponds to the code

Addresses are bytes, with small pages. A slab is named by its page; `slab[p]` is its
`struct slab` and the address that structure is at, `parent[p]` what `kvmfree` reads at the base of
a page; `list[c]` the three lists of a cache. Both calls hold `kvmalloc_lock`
throughout and are one action each. Which page or block `kalloc` gives is any that
`Allocator` allows. An off-slab cache takes its `struct slab` from the cache of 64
bytes, which may itself need a page: `OffSlabAlloc` has the nested call. Empty slabs
never go back to `kalloc`. `kvmalloc(0)` and `kvmfree(0)` do nothing and are left
out; so is a second `kvmfree` of a slot, which no caller makes.

### How AddressSpace corresponds to the code

Addresses count pages. `table[p]` has the entries of a page used as a table, `used`
the blocks `kalloc` has handed out (it gives the lowest that fits). `MapPage` makes the
tables above an entry and sets the leaf; `MapRange` is the loop of `kvm_map` and
`uvm_map`, with `Chunks` the page sizes it chooses. `Released` lists what `uvm_free`
would give back, in its order; `UvmFree` gives it back, a leaf only if its page heads
a block. `Spawn` does what `spawn_process` does to memory, `Clean` what `orphan_cleaner`
does. Calls 15 and 16 need right 4, here the constant `MayShare`. `mapping`, `lost`,
`shared` and `foreign` are history: `mapping` is what the tables translate to, the state
of `VirtualMemory`.

`uvm_map` ORs the whole of call 15's `a3` into the entry, beside the valid and the user bit
that it always sets (`vm.c:596`). Bits 10 to 31 of `a3` fall on the page number: `bits`
in `MapShared`, and the page mapped is `page | bits`. The read, write and execute bits only the
hardware looks at in a table of the last level; they are not modelled.

The properties hold up to known limits, which they name.

* Nothing counts the owners of a shared page. Once a process was released while another had
  a page of one of its blocks (`shared`), that process maps a page that is free or someone
  else's. It need not be the page that was shared: `kfree` gives back the whole block of the
  page it meets.
* Calls 15 and 16 do not look at the user bit (`vm.c:682-730`), and call 15 does not mask
  `a3`. So a process can share the page of its own kernel stack or the trampoline, unmap
  those, or map a page nobody gave it (`foreign`). `Isolated` ends there, and so does the behaviour: what
  user code then does to the kernel's memory is not modelled. `ImplementsVirtualMemory` covers
  that last step, too: it says which page was mapped.
* A page whose last mapping call 16 removed (`lost`) never goes back.

### How DeviceTree corresponds to the code

The blob is a tree that the environment writes token by token: `path` are the open
nodes, `truth` what the tree says. The five parsers share nothing, so all read each
token together. `cpus_depth` is in two parsers with the same steps and is one variable.
A value is the number of the node it is in. The trees are those the firmware of the
supported machines writes: one memory and one cpus node below the root, one device
of each kind, no registers of another node inside a device, the PLIC named `plic@`
(`dtb_parser_context` goes by name, `dtb_parser_mmio` by `compatible`), and no node
whose name merely starts with `memory` or `cpus`.

### How Capabilities corresponds to the code

`rights[p][q]` is the nibble of `capability_root` of `p` for pid `q`. Sixteen nibbles
share a word and 2048 words are a table; here a table is one word, with room for `Width`
pids. grant and revoke check and load (`Grant`, `Revoke`), then store the whole word
(`Store`): `storing[p]` is the word on its way and where it goes. Neither call checks `a1`,
the pid the rights are over (`main.c:555-558`, `589`, `606`, `633`, `651`). One that is no pid
reaches a word past the table: `Root` says where the tables lie, so it may be the word of
another process's table; otherwise it holds one of `Foreign`. Such a call can store
rights nobody had. `outside` remembers it; the properties about rights hold until then, and a
behaviour makes no further call after it. Changes to a whitelist touch only the caller's own and
are one action. `Harts` bounds how many calls are between the two.
The behaviours start once `kmain` has spawned the processes, whose parent is then
the idle process; so only the shell can revoke.

Operators called `...Head`, `...KeepBit`, `...Never` and so on under a comment
"Variant" are mistakes the code does not make. They are used by no
specification: each is put in the place of the operator that follows it, to see
that the properties notice.

## What is checked

| Run | Instance | Shows |
|---|---|---|
| `SchedulerUP.cfg` | 1 hart, 4 processes (one urgent, two equals, one below), two of them making every call, sleep 0..2 ticks, counters modulo 3, a sweep every 2 interrupts | `TypeOK`, `OneQueue`, `BitmapExact`; `NoPanic`, `OnlyRunningRuns`, `EmergencyRunnable`, `PriorityRespected`; `NotStarvedFromAbove`, `SleeperWakes` |
| `SchedulerSMP.cfg` | 2 harts, 2 processes with the calls of the shell and the worker and exit, yield | `QueueInv` (the invariant of the proofs), `CountExact`, `ExitIsFinal` |
| `NoCorruptedThread.cfg` | 2 harts | violated: `schedule()` reaches kpanic 114 |
| `IpcUP.cfg` | 1 hart, 2 senders that may sleep, 1 receiver that may exit | `SenderHasCause`, `ReceiverHasCause`, `WokenHasMessage`, `ImplementsChannel`, `ImplementsScheduler` |
| `Console.cfg` | 1 hart, the shell and the worker, a FIFO of 1, a line of 2, one printable key, NUL, erase and enter | `NoKeyMissed`, `ImplementsKeyQueue`, `CommandIsLine`, `KeyIsServed` |
| `ContextSwitch.cfg` | 1 hart, 2 processes, program counters modulo 3 | `NoCrash`, `OwnContext`, `ImplementsVirtualHart` |
| `BuddyAllocator.cfg` | 8 pages in the pool, 3 orders, 8 pages before it, requests up to one order too many | `Partition`, `FlagsExact`, `Implements` |
| `KernelHeap.cfg` | 3 pages of 16 bytes, objects of 4, 6 (on-slab) and 8 (off-slab), headers of 4 | `NoOverlap`, `ListsExact`, `OnlyBlocksGoBack` |
| `AddressSpace.cfg` | tables of 4 entries, 64 virtual pages, 2 memory maps, 2 processes, which share a page of their segment, one that is not mapped at first, and their kernel stack | `ImplementsVirtualMemory`, `Isolated`, `NothingLeaks` |
| `NoBadFree.cfg` | the same | violated: a shared page is freed twice |
| `DeviceTree.cfg` | every tree of up to 6 nodes, 4 deep | `BootFactsExact`, `HartsExact`, `DevicesExact` |
| `Capabilities.cfg` | 2 harts, 2 processes, whitelists of 2, three sets of rights, `a1` a pid or 0, or in the next word or the one after | `NobodyGrantsShell`, `RightsOnlyShrink`, `WhitelistIsSet` |

The type invariants of the modules other than `Scheduler` and `Capabilities` say what
their variables range over and have no run; the properties above are about what could go
wrong.

The bounds. Two equals make circles of one and of two threads; with a more and a less
urgent process and the idle thread there are four priorities, so that two are passed over at
once and the sweep has to choose. The two that make every call can keep the hart from the
others or leave it; of the others one yields and both may exit, or compute for ever.
Slices of 1 and 2, a period of 2 and a modulus of 3 are the smallest at which a
slice ends before or after a sweep and a sleep count wraps (`sleep(0)` is among the
arguments). Two harts are enough for the thief, its victim, and a hart that
wakes a thread of the other one. `CHECK_DEADLOCK FALSE` in the runs with two harts: they
really stop, when both are in a panic or one is and the other waits for its
lock, and where the model ends. The allocator stops after a panic, `AddressSpace` also
after `foreign`, `Capabilities` after `outside`.

Three orders and two largest blocks are the smallest pool in which a block is split
twice, merged twice, merged from either side, and kept apart from a neighbour
that is not its buddy; every sequence of calls is explored. For the
heap, three pages are enough for two slabs of a cache beside a block or a slab of
another, and for a request that finds no page; 16 bytes hold two to four objects.
Tables of four entries make large pages of 4 and 16 pages, so a range starts and ends
with small pages around large ones of both sizes; one of the two memory maps is all
large pages. Two processes can share with each other in one direction and with
themselves. Six nodes are enough for cpus with cpu nodes and a subnode, and a device with a
subnode between others. A line of two characters is full after one key, and a FIFO of one
makes the typist wait; for longer lines there is `CommandTheorem`. Program counters modulo 3 tell the call from what is before and
after it. For the
mailboxes, two senders are enough to compete for the room that a recv makes, and
one body is enough because messages differ in their sender. Two processes
hold rights over each other, themselves and the shell, which covers each test of
grant; sets of rights that a caller has only in part are among those it asks for. The table
of process 2 lies before the shell's, so an `a1` in the next word reaches the shell's from the
one and foreign memory from the other.

Fairness: `FairSpec` asks that timer ticks keep coming (the machine timer is
reloaded at each tick, `timer.c:17-22`), that a hart goes on with what
the kernel is doing, and that `kmain` spawns its processes. It asks nothing
of processes: they may compute for ever. One hart only: nothing in the code
gives a hart its turn at a spinlock. `Console` asks for the same, and that a hart
goes on in read. There ticks and the UART's interrupt are strongly fair: a tick that
comes during a call is pended and taken at its end, and the UART keeps its level
up until its interrupt is taken, so calls that come and go do not keep
them off for ever.

`NotStarvedFromAbove` says that while a thread is ready, the hart does not only run more
urgent ones. More the code does not give. `anti_starvation_sweeper` rescues the least urgent
priority that was passed over, leaves its loop and clears the others (`scheduler.c:900-912`): a
thread between two that never block may wait for ever. TLC finds that behaviour in
the same instance when the property asks for each priority by itself. And which
of several equals runs, nothing guarantees: `yield` leaves state 0, `schedule()` then skips
the rotation and picks the same thread again. See the hazards.

The violated properties are assertions of the code: that the thread `schedule()` picks is
ready (`scheduler.c:113`, with two harts), and that a page given to `kfree` is in use
(`kalloc.c:117`). `PROJECT.json` quotes them.

What is checked on one hart only, and known to fail with two: the mailboxes have no
lock, so two senders can fill one mailbox and a receiver can go to sleep beside a
message; a key can come between the test of `uart_buff` and the block; the boot
hart can free a zombie that its own hart still runs. And one thing holds
nowhere: `sleep(n)` may last less than `n` ticks, because the interrupt it raises
is itself counted, twice (`main.c:338`, `scheduler.c:848`).

## What is proved

Every theorem is for all values of the constants that the module's assumption admits;
TLC evaluates the assumption in every run. An invariant was first checked with TLC on a
small instance, its inductive strengthening too.

### Scheduler, any number of harts

* `TypeCorrect`, `NoThreadLostTheorem`, `BitmapTheorem`, `CountTheorem`: `Spec =>`
  `[]TypeOK`, `[]OneQueue`, `[]BitmapExact`, `[]CountExact`
* `ExitTheorem`: `Spec => ExitIsFinal`
* `QueueInvTheorem`: `Spec => []QueueInv`, from which the others follow

`SchedulerAssumption` says that harts and pids are numbers (pids not 0), every
hart has an idle thread of its own at the least urgent priority and no process
has that priority, and slices, sleep arguments and periods are in their ranges.

`OneQueue` says three things about circles, lists and states at
once. It is not inductive: a thief holds a thread between two locks, and the
walk over the sleepers holds pointers into the list. `QueueInv` adds
`TransitInv` (a thread in transit is runnable and in one pair of hands) and
`WalkInv` (one hart walks, and what it has yet to visit is still asleep).
`BitmapExact` is needed too: `Enqueue` decides by the bit whether a circle exists.
`ListLemmas` has what `Remove`, `Append`, pushing and `Tail` do to the members of a list
without duplicates, and that `Least` and `Greatest` find an element. On top of it
`SchedulerProofs` has what `Enqueue` and `Dequeue` do to circles and bitmap; then, for
each way a thread changes queues (spawned, woken, leaving, stolen, put), that
queues and states agree again afterwards; then one lemma per action. `CountTheorem` needs
also that the members of a runqueue are a finite set.

### Scheduler, one hart

* `NoPanicTheorem`, `OnlyRunningTheorem`, `EmergencyTheorem`, `PriorityTheorem`:
  `OneHart /\ Spec =>` `[]NoPanic`, `[]OnlyRunningRuns`, `[]EmergencyRunnable`,
  `[]PriorityRespected`

`OneHart` is `Hart = {Boot}`, with any processes, priorities and slices. The hypothesis
is not one of the proof: with a second hart each of these is false (`NoCorruptedThread.cfg`
shows it of kpanic 114), because a thread that is woken or stolen before its own hart has
switched away from it is on two harts. `OneHartInv` adds to `QueueInv` that the only
running thread is the current one and that one in another state does not get back to
its own instructions (an interrupt is pending, or `exit_process` is on its way to
pend one), that the thread to rescue is in a circle, and that a more urgent thread is only
ever linked together with the end of the running one's slice.

### Mailboxes, one hart

* `SenderTheorem`, `ReceiverTheorem`, `WokenTheorem`: `OneHart /\ IpcSpec =>`
  `[]SenderHasCause`, `[]ReceiverHasCause`, `[]WokenHasMessage`
* `ChannelTheorem`: `OneHart /\ IpcSpec => ImplementsChannel`
* `ImplementsSchedulerTheorem`: `OneHart /\ IpcSpec => ImplementsScheduler`

For any number of senders and receivers, any messages and any rights. `IpcInv` adds to
`OneHartInv` that what a call saw of a mailbox still holds when it acts on it (`CallInv`)
and what the status of a mailbox says and does not say yet in the middle of a call
(`MailInv`). Since `ImplementsScheduler` is proved of the steps, the invariants of
`Scheduler` hold here too.

### Console

* `NoKeyMissedTheorem`: `OneHart /\ ConsoleSpec => []NoKeyMissed`
* `KeyQueueTheorem`: `OneHart /\ OnlyShellReads /\ ConsoleSpec => ImplementsKeyQueue`
* `CommandTheorem`: `ConsoleSpec => CommandIsLine`
* `ConsoleImplementsScheduler`: `OneHart /\ ConsoleSpec => Spec`

`OnlyShellReads` is what the programs do: `readc` has one caller, `user/shell.c:73`. It is
needed: with a second reader TLC finds a key given to one process before another one has
used the key before it. `CommandTheorem` needs neither hypothesis: nobody but the
shell touches its line, on any number of harts, and lines may be of any length. `LineInv`
says that `cmd_buffer` starts with the line on the screen; the first NUL is then at the
latest where enter puts one (`EnterLine`, by `LeastFacts`).

### Context switch, device tree, capabilities

* `NeverCrashes`, `EachOnItsOwnStack`: `Spec =>` `[]NoCrash`, `[]OwnContext`, for any number
  of processes; `HartImplementsVirtualHart`: `Spec => ImplementsVirtualHart`
* `BootFactsAreExact`, `HartsAreExact`, `DevicesAreExact`: `Spec =>` `[]BootFactsExact`,
  `[]HartsExact`, `[]DevicesExact`, for trees of any size and depth
* `NobodyGrantsShellTheorem`, `RightsOnlyShrinkTheorem`, `WhitelistTheorem`,
  `CapTypeCorrect`: `Spec =>` `[]NobodyGrantsShell`, `RightsOnlyShrink`, `[]WhitelistIsSet`,
  `[]TypeOK`, for any processes, harts, slots, granted rights, any `a1`, and tables at any
  addresses; the first two as long as every `a1` is a pid, as their properties say

`SwitchInv` says, for each place the hart can be at, what is in its registers and on the
stack (`HartInv`), and for each thread off the hart that its saved stack pointer points
into its own stack and what lies there fits its return address (`ContextInv`). The
refinement takes a process's registers from the hart, its trap frame or its first
context, as `ImplementsVirtualHart` says.

`TreeInv` relates what the parsers remember to the open nodes: a flag is right
as long as the node it was set for can have properties, `cpus_depth` is the depth below
cpus, and the active device is the open one from its name on, its base from its
reg on, in either order.

`NobodyGrantsShell` alone is not inductive: a hart may be about to store a word it loaded
earlier. `CapInv` adds that no such word gives the right to grant over the shell
(`WordsHarmless`), all this until `outside`. A grant over the shell fails its first test, so every word on
its way carries, for the shell, what its owner had when it was loaded. For `RightsOnlyShrink`
the rights on their way are counted with those that are held; a load adds
only rights that are held, and a store moves rights from the one to the other.

### Buddy allocator

* `PartitionTheorem`, `FlagsTheorem`: `Spec =>` `[]Partition`, `[]FlagsExact`
* `BuddyImplementsAllocator`: `Spec => Implements`
* `BuddyInvariant`: `Spec => []BuddyInv`, from which they follow

For any number of orders and any pool that starts and ends on a boundary of the largest
block (`BuddyAssumption`; `kalloc.c:41` checks neither end, see above). First arithmetic: sizes
double, so a smaller size divides a larger one, and two aligned intervals that meet
are nested; `Buddy` and `Base` are the other half and the whole. Then sets of blocks: in a set
that tiles the pool, some blocks may be replaced by others that cover the same pages
(`Retile`). The halves that `kalloc` makes cover the block it took (`HalvesTile`), and the
block `kfree` ends with covers the one given back and the buddies it met (`MergeTile`).
`BuddyInv` says that the blocks, held and free, tile the pool, that `flag` and `order` are
theirs (`HeadsExact`), and that no two free blocks are buddies (`NoBuddies`). The last is what
makes a refusal right: if an aligned block of the order asked for were free, it would be
cut into smaller free blocks; the buddy of a least one of them would be free too
(`NothingFits`). It holds because `kfree` stops merging only at the largest order or at a
buddy that is not free and whole.

An induction over orders is made by a least counterexample, which `LeastFacts` gives
from the well-foundedness of the naturals.

### Kernel heap

* `NothingOverlaps`, `CountsExact`: `Spec =>` `[]NoOverlap`, `[]ListsExact`
* `BlocksGoBack`: `Spec => OnlyBlocksGoBack`
* `HeapInvariant`, `TypeCorrect`: `Spec =>` `[]HeapInv`, `[]TypeOK`

For any caches, sizes of pages and headers, orders and requests. `HeapAssumption` says that
the objects of the caches grow, that a slab holds at least two of them (in `vm.c` it holds 2
to 252), and that `struct slab` is exactly an object of one on-slab cache, the one
that `kvmalloc_init` takes it from. A block of order 0 has one page; of the others
nothing is assumed, and of `kalloc` only that the blocks it gives are disjoint.

`NoOverlap` speaks of bytes and `ListsExact` of counts; neither is inductive. `HeapInv` is
about objects, and treats all that are out alike: those in the hands of callers, and
those that are the `struct slab` of another slab. It says that a page is in one list at most and
there once (`ListsOK`); that each object of a slab is on its chain or out, that its count
says where it is linked, and that its page is a block of its own (`SlabOK`); where
its `struct slab` is, and that no two slabs share one (`HeaderOK`, `SlabsOK`); that blocks do
not meet and callers hold those that are not slabs (`BlocksOK`, `HeldOK`). It is an
operator of a heap and of what is out because an off-slab allocation nests another one:
between the two calls a page is taken that nobody owns yet, so each lemma about an
allocation is about any heap, and is used twice.

The proof has three layers. Where objects lie: those of one slab are apart, within its page
and behind its header, by linear arithmetic once `i * size` is compared through
`MulMono` and `DivMod`. What one operation does to the lists and to the one slab it works
on: take a slot, cut a page, put a slot back, move a slab. And that each of these keeps the
invariant, for a slot that goes out or comes back. `kvmfree` finds the slab of an object
from its address alone, so its part needs that a block's first page is in no list and that
no slab's page has the parent of another.

### Only model-checked

* Liveness: `NotStarvedFromAbove`, `SleeperWakes`, `KeyIsServed`. Fairness and ENABLED are outside
  TLAPS here.
* `AddressSpace`: `Isolated`, `NothingLeaks` and `ImplementsVirtualMemory`. The range loops
  and the list of what `uvm_free` gives back are recursive definitions, and what those
  compute for every input needs an induction over data, which TLAPS cannot do here.

## The plan from here

1. `AddressSpace`: the steps that do not loop (one page mapped, one unmapped).
2. `LinkedLists`: next/prev pointers, shown to implement the sequences of
   `Scheduler`, `BuddyAllocator` and `KernelHeap`.
3. `ContextSwitch` with two harts and the locks as state, for the windows
   `Scheduler` closes or ends at (see the hazards without a property).

## Not modelled

* `wait_process`. Neither program calls it. No process of this system has a child (`kmain`
  spawns both, and `orphan_cleaner` collects them), so a call would look and return; but it
  would turn interrupts on before it releases its lock (`scheduler.c:536`). That is among the
  hazards, without a property.
* kpanic 115. With two harts, two wake-ups may find the same thread asleep, and the later
  one stops there (`main.c:487`, `scheduler.c:708`); in `Scheduler` it does not happen.
* The pid registry. Two pids are handed out; its wrap at 32768 is never reached.
* The spinlock instruction, lock order, and locks taken with interrupts on.
* The machine-mode trap handler's registers, faults, and `kpanic` beyond that it stops
  the hart with the locks it holds.
* The TLB (calls 15 and 16 flush the calling hart's only) and the read, write and execute
  bits of pages.
* What follows when grant or revoke has stored past a table, or calls 15 and 16 have mapped or
  unmapped what is not the user's.
* Boot of the other harts (`smp_ready`, the clint), reduced in `Scheduler` to: they come
  up after `kmain` spawned the processes.
* The process list (call 13) and the interrupt registry (call 17), which no other part reads.
* ELF loading beyond its memory, printing, banners, UART and PLIC set-up, string helpers, the build.
