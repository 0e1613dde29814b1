CONSTANTS
  Requests = {r1, r2}
  Accounts = {a1}
  Capacity <- OneEach
  RefreshEnabled = TRUE
  NoAccount = NoAccount
SPECIFICATION FairSpec
PROPERTY EveryRequestAnswered
