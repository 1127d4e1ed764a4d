SPECIFICATION Spec
CONSTANTS
  Callers = {i, j}
  Threads = {x, y}
  None = None
  Overlap = {"create"}
PROPERTY JoinBlocks
