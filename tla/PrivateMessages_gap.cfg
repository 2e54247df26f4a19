SPECIFICATION Spec
CONSTANTS
  c1 = c1  c2 = c2  c3 = c3  u1 = u1  u2 = u2  u3 = u3
  Conns = {c1, c2, c3}
  Users = {u1, u2, u3}
  Logins <- Anywhere
  MaxMsgs = 2
  MaxLogins = 3
  HistLimit = 1
  MaxFaults = 1
  NoUser = NoUser  NoConn = NoConn
SYMMETRY Alike
CHECK_DEADLOCK FALSE
INVARIANTS TypeOK NoPmGap OnlyParties
PROPERTY IsMailbox
