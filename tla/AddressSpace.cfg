CONSTANTS
  Fanout = 4
  RamStart = 16
  PoolStart = 20
  RamEnd = 60
  Layouts <- Machines
  Proc <- Procs
  ElfPages = 2
  CapPages = 4
  StackPage = 31
  MayShare <- Share
  From = {0, 16, 62}
  To = {2, 16}
  PageBits = {0, 1}
SPECIFICATION Spec
INVARIANTS
  Isolated NothingLeaks
PROPERTY ImplementsVirtualMemory
CHECK_DEADLOCK FALSE
