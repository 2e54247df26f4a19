SPECIFICATION FairSpec
CONSTANTS
  p1 = p1  p2 = p2
  Threads = {t1, t2}
  Packets = {p1, p2}
  Size <- Sizes
  HeaderSize = 4
  MaxPackets = 3
CHECK_DEADLOCK FALSE
INVARIANTS TypeOK InStep
PROPERTIES IsChannel
