CONSTANTS
  Hart = {0}
  Boot = 0
  Proc = {1, 2, 3}
  Idle <- IdleUP
  Priority <- PriorityPeers
  TimeSlice <- SlicePeers
  IdlePriority = 2
  StarvPeriod = 3
  TickMod = 3
  SleepArg = {1}
  Calls <- IpcCalls
  Body <- OneBody
  MaySend <- ToShell
  Null = Null
  i0 = i0
  i1 = i1
SPECIFICATION IpcSpec
INVARIANTS
  SenderHasCause ReceiverHasCause WokenHasMessage
PROPERTIES
  ImplementsChannel ImplementsScheduler
