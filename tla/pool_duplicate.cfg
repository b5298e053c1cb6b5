SPECIFICATION Spec
CONSTANTS
  x1 = x1
  x2 = x2
  x3 = x3
  x4 = x4
  x5 = x5
  c1 = c1
  c2 = c2
  Tx = {x1, x2}
  Command = {}
  Ordinary = {x1, x2}
  Priority = {}
  Timestamp <- TwoAges
  Behaviors = {"Nothing"}
  Threshold = 4
  KeptShare = 2
  BlockSize = 2
  StopChanSize = 8
INVARIANT SelectedOnce
\* The process may end, and a node may have nothing left to do.
CHECK_DEADLOCK FALSE
