CONSTANTS
  Turns = {t1, t2}
  Deleters = {d1}
  Conversations = {c1, c2}
  MaxEntries = 1
  MaxFlushing = 1
  None = None
SYMMETRY ConversationSymmetry
SPECIFICATION Spec
INVARIANTS TypeOK ListMatchesItems RowsFollow StaysDeleted ThreadsKept TurnsAreEnded
