SPECIFICATION FairSpec
CONSTANTS
  Rooms = {1, 2, 3}
  General = 2
  Saved = {{2}, {1,2,3}}
  NoRoom = NoRoom
  GuiActs = 3  ConsoleActs = 2
  MaxActs <- Acts
  MaxNews = 1
CHECK_DEADLOCK FALSE
INVARIANTS TypeOK RoomsMirrored EveryPendingIsAwaited
PROPERTIES RequestsAsShown LogoutReturns
