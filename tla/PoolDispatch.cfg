CONSTANTS
  Requests = {r1, r2}
  Accounts = {a1, a2}
  Capacity <- OneEach
  RefreshEnabled = TRUE
  NoAccount = NoAccount
SYMMETRY PoolSymmetry
SPECIFICATION Spec
INVARIANTS TypeOK SlotHeldExactlyWhileTrying OneVoice FailsOnlyWhenExhausted  BoundedRuns
