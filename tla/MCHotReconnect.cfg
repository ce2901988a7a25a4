SPECIFICATION Spec
CONSTANTS
  Frags = 1
  SndBuf = 1
  RcvBuf = 1
  Names = {n1}
  NoName = NoName
  Handles = {1, 2}
  CtxMod = 8
  ConnectTimeout = 1
  OpTimeout = 1
  kMaxTags = 1
  MaxConnects = 3
  MaxCreates = 1
  MaxOps = 2
  Habits = {"interrupt"}
INVARIANTS RequestsUseCurrentSession
