SPECIFICATION Spec
CONSTANTS
  n1 = n1
  n2 = n2
  n3 = n3
  n4 = n4
  x1 = x1
  x2 = x2
  NoTx = NoTx
  Node <- FourNodes
  Faulty = {n4}
  Tx = {x1}
  Command = {}
  VarieValid = {}
  NewValidatorSet <- NoCommands
  CommandSender <- NoCommands
  Sdn = {x1}
  Link = {}
  Stamp = {0}
  BlockSize = 1
  TransactionThreshold = 2
  MinValidators = 3
  Pick <- LeaderOfHeight
  LeaderOrder <- Rotation
  Receivers = {n1, n2, n3, n4}
  ReplicaMayFail = {n3}
  Broadcast = FALSE
  MaxHeight = 1
INVARIANTS
  TypeOK
  PrepareCertificate
\* The model stops at MaxHeight, and the protocol where a block was dropped.
CHECK_DEADLOCK FALSE
