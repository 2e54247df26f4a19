SPECIFICATION Spec
CONSTANTS
  c1 = c1  c2 = c2  u1 = u1  u2 = u2
  Conns = {c1, c2}
  Users = {u1, u2}
  Roles = {"Admin", "User"}
  InitAdmins = {u1}
  Logins <- Anywhere
  Grants <- Promotions
  MonitorOn = FALSE
  DbFaults = TRUE
  MaxCrashes = 1
  NoConn = NoConn  NoUser = NoUser  NoSession = NoSession
INVARIANTS TypeOK CleanExit SocketOwnership FirmBanHolds
PROPERTIES IsConnectionTable
