SPECIFICATION FairSpec
CONSTANTS
  Ctxs = {w1, c1, c2}
  Workers = {w1}
  None = None
  Soft = 0  Hard = 2  Blocking = TRUE  Warning = TRUE
  MaxJobs = 4
  FromMain = FALSE
INVARIANT NobodyStalls
PROPERTIES JobsServed ClientsServed JoinsEnd
CHECK_DEADLOCK FALSE
