\* MessageSvc: reporting, suppression, routing, property handlers and log files.
CONSTANTS
  W = W  X = X  Y = Y  st1 = st1  c1 = c1  m1 = m1  fa = fa  fb = fb
  NoFile = NoFile
  Srcs = {W, X, Y}
  SrcOrder <- MCSrcOrder
  Lvls = {3, 7}
  LevelVals = {0, 7}
  LimitVals = {0, 1, 2}
  DefaultLimit = 1
  Streams = {st1}
  Codes = {c1}
  Msgs = {m1}
  MsgType <- MCMsgType
  DefaultType = 3
  Files = {fa, fb}
  LoggedStreamsName <- MCLoggedStreamsName
  IntWidth = 8
  MaxCalls = 5
  MaxDup = 2
SPECIFICATION Spec
\* The service only reacts to calls; a client may stop calling at any time.
CHECK_DEADLOCK FALSE
INVARIANTS TypeOK AlwaysShown AnnounceOnce NoDoubleOpen
