CONSTANTS
  Hart = {0}
  Boot = 0
  Proc = {1, 2, 3, 4}
  Idle <- IdleUP
  Priority <- PriorityBelow
  TimeSlice <- SliceBelow
  IdlePriority = 3
  StarvPeriod = 2
  TickMod = 3
  SleepArg = {0, 1, 2}
  Calls <- FewCalls
  Null = Null
  i0 = i0
  i1 = i1
SPECIFICATION FairSpec
INVARIANTS
  TypeOK OneQueue BitmapExact
  NoPanic OnlyRunningRuns EmergencyRunnable PriorityRespected
PROPERTIES NotStarvedFromAbove SleeperWakes
