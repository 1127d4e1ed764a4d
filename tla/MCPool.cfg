SPECIFICATION McSpec
CONSTANTS
  Ctxs = {a, b, c}
  None = None
  MaxScopes = 2
  Ours = {TRUE}
  Asked = {"INTERRUPTED", "TERMINATED"}
  Crew = {w1, w2, c1}
  Workers = {w1, w2}
SYMMETRY Sym
INVARIANTS TypesOK SleepersResume RequestsHonoured
PROPERTY ImplementsSched
CHECK_DEADLOCK FALSE
