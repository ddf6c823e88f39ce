------------------------------ MODULE Console ------------------------------
(***************************************************************************)
(* Keys: the UART interrupt and the system call read (2) of strap_router in *)
(* kernel/main.c, the receiving half of kernel/uart.c, and the line editor  *)
(* of user/shell.c that reads, on top of Scheduler.                         *)
(*                                                                         *)
(* The kernel keeps one key, uart_buff, for the process that called read    *)
(* last, shell_ptr.  A process blocked in read gets its key from the        *)
(* interrupt, in the saved a0 of its trap frame.                            *)
(***************************************************************************)
EXTENDS Scheduler

CONSTANTS
  Shell,     \* the process that is the shell; other readers drop the key
  Char,      \* the other bytes a line is typed with
  FifoSize,  \* characters the UART holds, 16
  LineMax    \* CMD_MAX_LEN

\* The byte 0 is a key like any other, and uart_buff is 0 when it is empty.
NUL == "nul"
Key == Char \cup {NUL, "erase", "enter"}

ASSUME ConsoleAssumption ==
  /\ Shell \in Proc /\ FifoSize \in Nat \ {0} /\ LineMax \in Nat \ {0}
  /\ Null \notin Key /\ {NUL, "erase", "enter"} \cap Char = {}

VARIABLES
  fifo,        \* the UART's receive FIFO
  uart_buff,   \* the key kept for the next read, or Null if that is 0
  shell_ptr,   \* the process that read last, or Null before kmain set it
  a0,          \* a0[p]: the key p was given and has not used
  cmd_buffer, cmd_idx,   \* the shell's line
  reading,     \* reading[h]: the step of read() hart h is at
  text         \* history: what a line editor would show

consoleVars == <<fifo, uart_buff, shell_ptr, a0, reading, cmd_buffer, cmd_idx,
                 text>>
shellVars   == <<cmd_buffer, cmd_idx, text>>

ConsoleTypeOK ==
  /\ fifo \in Seq(Key) /\ Len(fifo) <= FifoSize
  /\ uart_buff \in (Key \ {NUL}) \cup {Null}
  /\ shell_ptr \in Proc \cup {Null}
  /\ a0 \in [Proc -> Key \cup {Null}]
  /\ cmd_buffer \in [0..LineMax - 1 -> Char \cup {NUL}]
  /\ cmd_idx \in 0..LineMax - 1
  /\ reading \in [Hart -> {"nothing", "give", "clear", "block"}]

ConsoleInit ==
  /\ Init
  /\ fifo = <<>> /\ uart_buff = Null /\ shell_ptr = Null
  /\ a0 = [p \in Proc |-> Null]
  /\ cmd_buffer = [i \in 0..LineMax - 1 |-> NUL] /\ cmd_idx = 0
  /\ reading = [h \in Hart |-> "nothing"]
  /\ text = <<>>

-----------------------------------------------------------------------------
(* The line and the interrupt *)

\* A key is typed.  A full FIFO loses it.
Typed(k) ==
  /\ Len(fifo) < FifoSize
  /\ fifo' = Append(fifo, k)
  /\ UNCHANGED <<vars, uart_buff, shell_ptr, a0, reading, shellVars>>

\* Variant: another state number.
WaitsForKeyReady(p) == p # Null /\ state[p] = "ready"

WaitsForKey(p) == p # Null /\ state[p] = "blocked"

\* Variant: unblock_process leaves the reader where it is.
WokenNever(h, p) == UNCHANGED vars

Woken(h, p) == WakeReader(h, p)

\* What a key leaves in uart_buff.  NUL empties it, and is lost.
Buffered(k) == IF k = NUL THEN Null ELSE k

\* The UART's interrupt, 10: claim, take one character, complete.  While the
\* FIFO has more, the level is up and the PLIC interrupts again.
UartInterrupt(h) ==
  /\ h = Boot /\ Trap(h) /\ reading[h] = "nothing" /\ fifo # <<>>
  /\ fifo' = Tail(fifo)
  /\ IF WaitsForKey(shell_ptr)
     THEN /\ a0' = [a0 EXCEPT ![shell_ptr] = Head(fifo)]
          /\ Woken(h, shell_ptr)
          /\ UNCHANGED uart_buff
     ELSE /\ uart_buff' = Buffered(Head(fifo))
          /\ UNCHANGED <<vars, a0>>
  /\ UNCHANGED <<shell_ptr, reading, shellVars>>

-----------------------------------------------------------------------------
(* read *)

NowReading(h, step) == reading' = [reading EXCEPT ![h] = step]

\* The caller becomes shell_ptr; look for a key.
ReadTest(h) ==
  /\ Syscall(h, "read") /\ reading[h] = "nothing" /\ a0[curr[h]] = Null
  /\ shell_ptr' = curr[h]
  /\ NowReading(h, IF uart_buff # Null THEN "give" ELSE "block")
  /\ UNCHANGED <<vars, fifo, uart_buff, a0, shellVars>>

\* Another hart may have emptied uart_buff since: then the key is NUL.
ReadGive(h) ==
  /\ reading[h] = "give"
  /\ a0' = [a0 EXCEPT ![curr[h]] = IF uart_buff = Null THEN NUL ELSE uart_buff]
  /\ NowReading(h, "clear")
  /\ UNCHANGED <<vars, fifo, uart_buff, shell_ptr, shellVars>>

\* Variant: the key stays in uart_buff.
BuffAfterReadKept == uart_buff

BuffAfterRead == Null

ReadClear(h) ==
  /\ reading[h] = "clear"
  /\ uart_buff' = BuffAfterRead
  /\ NowReading(h, "nothing")
  /\ UNCHANGED <<vars, fifo, shell_ptr, a0, shellVars>>

\* No key: block_process(shell_ptr), which is the caller as long as no other
\* hart runs a reader.
ReadBlock(h) ==
  /\ reading[h] = "block"
  /\ Block(h, "blocked") /\ UNCHANGED ticks
  /\ NowReading(h, "nothing")
  /\ UNCHANGED <<fifo, uart_buff, shell_ptr, a0, shellVars>>

-----------------------------------------------------------------------------
(* The shell's line editor, in user mode *)

LineHasRoom == cmd_idx < LineMax - 1

\* Variant: no end mark.
TerminatedNot == cmd_buffer

Terminated == [cmd_buffer EXCEPT ![cmd_idx] = NUL]

Edit(k) ==
  \/ /\ k = "erase" /\ UNCHANGED cmd_buffer
     /\ cmd_idx' = IF cmd_idx > 0 THEN cmd_idx - 1 ELSE 0
     /\ text' = [i \in 1..Len(text) - 1 |-> text[i]]
  \/ /\ k = "enter"   \* and cmd_parser(cmd_buffer)
     /\ cmd_buffer' = Terminated /\ cmd_idx' = 0
     /\ text' = <<>>
  \/ /\ k \in Char \cup {NUL} /\ LineHasRoom
     /\ cmd_buffer' = [cmd_buffer EXCEPT ![cmd_idx] = k]
     /\ cmd_idx' = cmd_idx + 1
     /\ text' = Append(text, k)
  \/ k \in Char \cup {NUL} /\ ~LineHasRoom /\ UNCHANGED <<cmd_buffer, cmd_idx, text>>

\* readc() has returned.
UseKey(h) ==
  /\ pc[h] = "run" /\ ~ssip[h] /\ reading[h] = "nothing"
  /\ curr[h] \in Proc /\ a0[curr[h]] # Null
  /\ a0' = [a0 EXCEPT ![curr[h]] = Null]
  /\ IF curr[h] = Shell THEN Edit(a0[curr[h]]) ELSE UNCHANGED shellVars
  /\ UNCHANGED <<vars, fifo, uart_buff, shell_ptr, reading>>

-----------------------------------------------------------------------------
\* A process uses its key before it makes the next call.
OtherThanRead(h) ==
  \/ Yield(h) \/ BlockOnRecv(h) \/ BlockOnSend(h)
  \/ Exit(h) \/ (\E n \in SleepArg : Sleep(h, n)) \/ StartDrain(h)
  \/ \E p \in Proc : WakeReceiver(h, p) \/ WakeSender(h, p)

\* kmain keeps what spawn_process returns for SHELL.
SpawnNext(h) ==
  \E p \in Proc :
    /\ Spawn(h, p)
    /\ shell_ptr' = IF p = Shell THEN p ELSE shell_ptr

Others(h) ==
  /\ reading[h] = "nothing"
  /\ \/ SpawnNext(h)
     \/ UNCHANGED shell_ptr /\ (TimerTick(h) \/ Lose(h) \/ Kernel(h))
     \/ /\ OtherThanRead(h) /\ (curr[h] \in Proc => a0[curr[h]] = Null)
        /\ UNCHANGED shell_ptr
  /\ UNCHANGED <<fifo, uart_buff, a0, reading, shellVars>>

ConsoleStep(h) ==
  \/ UartInterrupt(h)
  \/ ReadTest(h) \/ ReadGive(h) \/ ReadClear(h) \/ ReadBlock(h)
  \/ UseKey(h) \/ Others(h)

ConsoleNext == Intact /\ ((\E k \in Key : Typed(k)) \/ \E h \in Hart : ConsoleStep(h))

\* Besides what Scheduler asks for: a hart in a call goes on.  A tick that comes
\* in a call is pended at its end, and the UART's level is up until its
\* interrupt is taken: nothing that comes and goes keeps these two off for ever.
ConsoleFairness == \A h \in Hart :
  /\ SF_<<vars, consoleVars>>(Others(h) /\ TimerTick(h))
  /\ WF_<<vars, consoleVars>>(Others(h) /\ Kernel(h))
  /\ WF_<<vars, consoleVars>>(Others(h) /\ SpawnNext(h))
  /\ WF_<<vars, consoleVars>>(ReadGive(h) \/ ReadClear(h) \/ ReadBlock(h))
  /\ SF_<<vars, consoleVars>>(UartInterrupt(h))

ConsoleSpec ==
  ConsoleInit /\ [][ConsoleNext]_<<vars, consoleVars>> /\ ConsoleFairness

-----------------------------------------------------------------------------
(* Properties *)

Given == {p \in Proc : a0[p] # Null}

\* The key a process was given comes before the one in uart_buff.  (Between
\* ReadGive and ReadClear it is in both.)
Queue ==
  (IF Given = {} THEN <<>> ELSE <<a0[CHOOSE p \in Given : TRUE]>>) \o
  (IF uart_buff = Null \/ \E h \in Hart : reading[h] = "clear" THEN <<>>
   ELSE <<uart_buff>>)

Keys == INSTANCE KeyQueue WITH line <- fifo, queue <- Queue, Unkept <- {NUL}

\* The reader gets the keys in the order they were typed and none twice,
\* although they come on two ways: through the trap frame of a blocked reader
\* and through uart_buff (main.c:377-381, 1001-1006).  A NUL is lost where no
\* reader waits, and the key that was kept with it.
ImplementsKeyQueue == Keys!Spec

\* No key is kept back from a reader that is asleep: the next key would
\* overtake it (main.c:377-382).
NoKeyMissed ==
  uart_buff # Null /\ shell_ptr # Null => state[shell_ptr] # "blocked"

\* A reader that waits gets to run once a key is typed, through the UART
\* interrupt, the wake-up and the scheduler.
KeyIsServed == \A p \in Proc :
  shell_ptr = p /\ state[p] = "blocked" /\ fifo # <<>> ~> state[p] = "running"

\* The string cmd_parser is called with, as strcmp reads it
CString ==
  LET end == CHOOSE i \in DOMAIN cmd_buffer :
               cmd_buffer[i] = NUL /\ \A j \in 0..i - 1 : cmd_buffer[j] # NUL
  IN  [i \in 1..end |-> cmd_buffer[i - 1]]

\* c is s, or what comes before the first NUL of s.
IsUpToNUL(c, s) ==
  \E n \in 0..Len(s) :
    /\ c = [i \in 1..n |-> s[i]]
    /\ \A i \in 1..n : s[i] # NUL
    /\ n < Len(s) => s[n + 1] = NUL

\* The command is the line that was typed, whatever longer line was in cmd_buffer
\* before, and within the buffer (shell.c:75-95).  A NUL is stored like any
\* stroke, so the command ends before the first one in the line.
CommandIsLine ==
  [][\A h \in Hart :
       UseKey(h) /\ curr[h] = Shell /\ a0[Shell] = "enter" =>
         /\ \E i \in DOMAIN cmd_buffer : cmd_buffer'[i] = NUL
         /\ IsUpToNUL(CString', text)]_consoleVars
=============================================================================
