CONSTANTS
  Proc = {shell, worker}
  Idle = idle
  Length = 3
  Null = Null
SPECIFICATION Spec
INVARIANTS
  NoCrash OwnContext
PROPERTIES
  ImplementsVirtualHart
