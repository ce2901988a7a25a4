CONSTANTS
  Frags = 2
  SndBuf = 1
  RcvBuf = 2
  Names <- MCNames
  NoName = none
  Handles = {1, 2}
  CtxMod = 2
  ConnectTimeout = 1
  OpTimeout = 1
  ConnIds = {1}
  Read = read
  Write = write
  Requests = {read, write}
  NoRequest = nothing
  SeqMod = 2
  RetryDelay = 1
SPECIFICATION FairSpec
INVARIANTS TypeOK StepAccepted RegisteredAtPeer ClosedWasAsked
PROPERTY CycleEnds
