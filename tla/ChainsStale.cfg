SPECIFICATION Spec
CONSTANTS
  Promises = {x}
  Futures = {f, g}
  Outcomes = {ok}
  Null = Null
INVARIANT ListsInvalidated
