CONSTANTS
  Frags = 2
  SndBuf = 2
  RcvBuf = 2
  Names <- MCNames
  NoName = none
  Handles = {1}
  CtxMod = 8
  ConnectTimeout = 1
  OpTimeout = 1
  ConnIds = {1, 2}
  Requests = {read}
  NoRequest = nothing
  SeqMod = 2
  MaxForwards = 3
  MaxSends = 1
SPECIFICATION FairSpec
INVARIANTS TypeOK OneExchange IdsAgree OpenIsDrained ClosedWasAsked
PROPERTY ExchangeEnds
CHECK_DEADLOCK FALSE
