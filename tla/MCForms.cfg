CONSTANTS
  root = root
  group = group
  x = x
  y = y
  NoControl = NoControl
  Leaf <- MCLeaf
  Group <- MCGroup
  BottomUp <- MCBottomUp
  Children <- MCChildren
  Movable <- MCMovable
  Sync <- MCSync
  Async <- MCAsync
  Value <- MCValue
SPECIFICATION Spec
INVARIANTS TreeInSync ValidIsApproved PendingAwaits
PROPERTY StatusIsTold
