SPECIFICATION Spec
CONSTANTS
  c1 = c1  c2 = c2  u1 = u1  u2 = u2
  Conns = {c1, c2}
  Users = {u1, u2}
  Staff = {u1}  Admins = {u1}
  Rooms = {r1}
  Owner <- TwoConns
  MaxIds = 2
  MaxMishaps = 2
  NoUser = NoUser  NoRoom = NoRoom  NoConn = NoConn
INVARIANTS TypeOK Durable RowsHaveRooms SetsAndSessions
PROPERTIES IsRoster
