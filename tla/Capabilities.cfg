CONSTANTS
  Proc = {1, 2}
  Harts = 2
  Slots = 2
  Grants = {{"write"}, {"read", "grant"}, {"read", "write", "grant", "forward"}}
  Width = 3
  Root <- RootsAdjacent
  Args = {0, 1, 2, 4, 5}
  Foreign <- ZerosAndOnes
  Null = Null
SPECIFICATION Spec
INVARIANTS TypeOK NobodyGrantsShell WhitelistIsSet
PROPERTY RightsOnlyShrink
CHECK_DEADLOCK FALSE
