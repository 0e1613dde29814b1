CONSTANTS
  c1 = c1
  Handlers = {h1, h2}
  Responses = {r1, r2}
  Conversations = {c1}
  Of <- OfOne
  QueueSize = 1
  TTLs = {0, 1}
  FirstTTL = 1
  MaxClock = 2
  Crashes = FALSE
  Never = Never
  NoOp = NoOp
SYMMETRY PersistenceSymmetry
SPECIFICATION Spec
INVARIANTS TypeOK Readable StaysDeleted TableFollowsMemory
