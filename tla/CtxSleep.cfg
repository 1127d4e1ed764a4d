SPECIFICATION Spec
CONSTANTS
  Ctxs = {a, b}
  None = None
  MaxScopes = 1
  Ours = {TRUE}
  Asked = {"INTERRUPTED", "TERMINATED"}
INVARIANT NoSleepOnRequest
