SPECIFICATION Spec
CONSTANTS
  Ctxs = {a, b}
  None = None
  Depth = 6
  Slots = 2
  freq = 1
  Early = TRUE
INVARIANT HeldIsLive
