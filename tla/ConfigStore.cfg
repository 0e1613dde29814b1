CONSTANTS
  a1 = a1
  a2 = a2
  Dispatchers = {d1}
  Admin = admin
  Accounts = {a1, a2}
  Arrays = {x1, x2}
  MaxLen = 2
  Settings = {0, 1}
  NoAccount = NoAccount
  NoArray = NoArray
  Modes = {"serial", "shared"}
  Bootstrap <- Listings
SYMMETRY StoreSymmetry
SPECIFICATION Spec
INVARIANTS TypeOK    TableCurrent   RowsCurrent
