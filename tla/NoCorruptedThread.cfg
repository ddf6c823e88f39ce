CONSTANTS
  Hart = {0, 1}
  Boot = 0
  Proc = {1, 2}
  Idle <- IdleSMP
  Priority <- PrioritySMP
  TimeSlice <- SliceSMP
  IdlePriority = 2
  StarvPeriod = 2
  TickMod = 3
  SleepArg = {2}
  Calls <- ProgramCalls
  Null = Null
  i0 = i0
  i1 = i1
SPECIFICATION Spec
INVARIANT NoCorruptedThread
CHECK_DEADLOCK FALSE
