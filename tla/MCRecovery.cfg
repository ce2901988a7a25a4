SPECIFICATION FairSpec
CONSTANTS
  Frags = 1
  SndBuf = 2
  RcvBuf = 2
  Names = {n1}
  NoName = NoName
  Handles = {1}
  CtxMod = 3
  ConnectTimeout = 1
  OpTimeout = 1
  MaxOps = 3
  MaxTicks = 1
  MaxAborts = 0
  PeerCloses = FALSE
PROPERTY RecoversFromTimeout
