SPECIFICATION Spec
CONSTANTS
  Threads = {t1, t2, t3}
  Names = {n1, n2, n3}
  DbFaults = FALSE
  MaxCrashes = 0
  NoName = NoName  NoRole = NoRole
SYMMETRY Symmetry
INVARIANTS OnlyFirstIsAdmin
