SPECIFICATION Spec
CONSTANTS
  Threads = {t1, t2, t3}
  Names = {n1, n2, n3}
  DbFaults = TRUE
  MaxCrashes = 1
  NoName = NoName  NoRole = NoRole
SYMMETRY Symmetry
INVARIANTS TypeOK OneWinner AckedComplete
PROPERTIES IsAccounts
