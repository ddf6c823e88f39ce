CONSTANTS
  Pages = 3
  Orders = 2
  Size <- PageSizes
  PageSize = 16
  HeaderSize = 4
  ObjSize <- ObjSizes
  MaxOnSlab = 6
  HeaderCache = 1
  Request = {3, 6, 8, 9, 17, 33}
SPECIFICATION Spec
INVARIANTS
  NoOverlap ListsExact
PROPERTY OnlyBlocksGoBack
CHECK_DEADLOCK FALSE
