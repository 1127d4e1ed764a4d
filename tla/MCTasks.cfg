SPECIFICATION McSpec
CONSTANTS
  Ctxs = {a, b, c}
  None = None
  Least <- McLeast
  Steals = FALSE
  Pair = {e, f}
  Spared = {f}
  Guest = {g1, g2}
  Host = h
  Callers = {i, j}
  Threads = {x, y, z}
SYMMETRY Sym
INVARIANTS
  TypesOK SharesAgree RegistersAgree FreedOnce ViewServes CallsComplete
  NotDestroyedInUse BlocksAgree SlicesAddUp ExceptionsAreOwn
PROPERTIES
  JoinBlocks ErrorsChangeNothing
CHECK_DEADLOCK FALSE
