SPECIFICATION Spec
CONSTANTS
  Conns = {c1, c2}
  Staff = {c1}
  MaxMsgs = 2
  HistLimit = 2
  DbFaults = TRUE
  NoConn = NoConn
INVARIANTS TypeOK NoMessageGap ShownAtMostTwice
PROPERTIES IsRoomLog
