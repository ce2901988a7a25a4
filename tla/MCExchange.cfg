SPECIFICATION Spec
CONSTANTS
  Frags = 2
  SndBuf = 3
  RcvBuf = 2
  Names = {n1, n2}
  NoName = NoName
  Handles = {1}
  CtxMod = 8
  ConnectTimeout = 1
  OpTimeout = 1
  MaxOps = 4
  MaxTicks = 3
  MaxAborts = 2
  PeerCloses = TRUE
INVARIANTS TypeOK AcceptedAnswersRequest SuccessDrains
SYMMETRY Symmetry
