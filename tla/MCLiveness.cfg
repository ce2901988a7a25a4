SPECIFICATION FairSpec
CONSTANTS
  Frags = 1
  SndBuf = 1
  RcvBuf = 1
  Names = {n1}
  NoName = NoName
  Handles = {1}
  CtxMod = 8
  ConnectTimeout = 1
  OpTimeout = 1
  kMaxTags = 1
  MaxConnects = 4
  MaxCreates = 1
  MaxOps = 2
  Habits = {"rebegin", "reconnect"}
INVARIANT ReadyMeansRegistered
PROPERTIES ConnectResolves TagOpResolves
