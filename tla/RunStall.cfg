SPECIFICATION Spec
CONSTANTS
  Ctxs = {a, b, c}
  None = None
  Levels = {"HALT", "RUN", "QUIT"}
  Awaited = {"RUN", "QUIT"}
INVARIANT SetContinues
