SPECIFICATION McSpec
CONSTANTS
  Ctxs = {g, e, f}
  None = None
  Holders = {e, f}
  Typed = {typed}
  Plain = {void}
  Objects = {x, y, z}
  Shared = {s1, s2, s3}
  Outcomes = {ok}
  Ids <- McIds
  Docks = {d1, d2}
  Null = Null
SYMMETRY Sym
INVARIANTS TypesOK SidesAgree ChainsAgree AwaitAnswered
PROPERTIES ImplementsDockQueue ImplementsBonds AnswerBeatsDeadline
