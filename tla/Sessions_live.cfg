SPECIFICATION FairSpec
CONSTANTS
  c1 = c1  c2 = c2  u1 = u1  u2 = u2
  Conns = {c1, c2}
  Users = {u1, u2}
  Roles = {"Admin", "User"}
  InitAdmins = {u1}
  Logins <- OnePerConn
  Grants = {}
  MonitorOn = TRUE
  DbFaults = FALSE
  MaxCrashes = 0
  NoConn = NoConn  NoUser = NoUser  NoSession = NoSession
INVARIANTS ServedIsPresent
PROPERTIES GoneIsForgotten
