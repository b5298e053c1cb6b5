SPECIFICATION ReducedSpec
CONSTANTS
  n1 = n1
  n2 = n2
  n3 = n3
  n4 = n4
  x1 = x1
  x2 = x2
  NoTx = NoTx
  Node <- ThreeNodes
  Faulty = {}
  Tx = {x1}
  Command = {}
  VarieValid = {}
  NewValidatorSet <- NoCommands
  CommandSender <- NoCommands
  Sdn = {}
  Link = {}
  Stamp = {0}
  BlockSize = 1
  TransactionThreshold = 2
  MinValidators = 3
  Pick <- LeaderOfHeight
  LeaderOrder <- Rotation
  Receivers = {n1, n2, n3}
  ReplicaMayFail = {}
  Broadcast = FALSE
  MaxHeight = 2
INVARIANTS
  ExecutedOnce
VIEW ReducedView
\* The model stops at MaxHeight, and the protocol where a block was dropped.
CHECK_DEADLOCK FALSE
