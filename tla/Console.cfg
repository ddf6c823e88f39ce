CONSTANTS
  Hart = {0}
  Boot = 0
  Proc = {1, 2}
  Idle <- IdleUP
  Priority <- PriorityUP
  TimeSlice <- SliceUP
  IdlePriority = 2
  StarvPeriod = 2
  TickMod = 3
  SleepArg = {1}
  Calls <- ConsoleCalls
  Shell = 1
  Char <- OneChar
  FifoSize = 1
  LineMax = 2
  Null = Null
  i0 = i0
  i1 = i1
SPECIFICATION ConsoleSpec
INVARIANTS
  NoKeyMissed
PROPERTIES
  ImplementsKeyQueue CommandIsLine KeyIsServed
