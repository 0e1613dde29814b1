CONSTANTS
  a1 = a1
  a2 = a2
  Dispatchers = {d1}
  Admin = admin
  Accounts = {a1, a2}
  Arrays = {x1}
  MaxLen = 2
  Settings = {0}
  NoAccount = NoAccount
  NoArray = NoArray
  Modes = {"shared"}
  Bootstrap <- Listings
SPECIFICATION Spec
INVARIANT DisabledStaysOut
