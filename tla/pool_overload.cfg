SPECIFICATION Spec
CONSTANTS
  x1 = x1
  x2 = x2
  x3 = x3
  x4 = x4
  x5 = x5
  c1 = c1
  c2 = c2
  Tx = {x1, x2, x3}
  Command = {c1, c2}
  Ordinary = {x1, x3, c1}
  Priority = {x2}
  Timestamp <- AgeByName
  Behaviors = {"Nothing", "Ignore", "Drop"}
  Threshold = 2
  KeptShare = 2
  BlockSize = 2
  StopChanSize = 8
INVARIANTS
  PoolSound
  
\* The process may end, and a node may have nothing left to do.
CHECK_DEADLOCK FALSE
