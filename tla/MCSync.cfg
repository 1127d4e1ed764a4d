SPECIFICATION McSpec
CONSTANTS
  Ctxs = {a, b, c}
  None = None
  Threads = {t, u}
  Sources = {f, g, h}
  Calls = {x, y}
SYMMETRY Sym
INVARIANTS
  TypesOK MutualExclusion QueueIsWaiters NoLostWakeup NoLostSignal
  FrameOutlivesFunction NoStrandedContext
  CollectionsAgree
PROPERTY EveryHandlerCalled
