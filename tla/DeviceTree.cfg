CONSTANTS
  MaxNodes = 6
  MaxDepth = 4
  Routes <- SomeRoutes
SPECIFICATION Spec
INVARIANTS
  BootFactsExact HartsExact DevicesExact
CHECK_DEADLOCK FALSE
