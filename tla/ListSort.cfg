SPECIFICATION Spec
CONSTANTS
  Ids = {1, 2, 3}
  Docks = {d}
  Null = Null
PROPERTY SortsToEnds
