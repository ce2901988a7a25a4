SPECIFICATION Spec
CONSTANTS
  Frags = 1
  SndBuf = 1
  RcvBuf = 1
  Names = {n1, n2}
  NoName = NoName
  Handles = {1}
  CtxMod = 8
  ConnectTimeout = 1
  OpTimeout = 1
  kMaxTags = 2
  MaxConnects = 2
  MaxCreates = 2
  MaxOps = 2
  Habits = {}
INVARIANTS SingleInFlight
PROPERTIES NewDataIsOwn NoSpuriousCallback ImplementsTagService
SYMMETRY Symmetry
