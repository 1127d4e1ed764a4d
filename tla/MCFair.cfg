SPECIFICATION McSpec
CONSTANTS
  Ctxs = {a, b}
  None = None
  Levels = {"HALT", "RUN", "QUIT"}
  Awaited = {"RUN", "QUIT"}
  Pair = {e, f}
INVARIANTS TransitionsExclude BarrierOpens
PROPERTIES JoinEnds FreeMutexMoves
CHECK_DEADLOCK FALSE
