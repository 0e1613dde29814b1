SPECIFICATION Spec
CONSTANTS
  Tabs = {"accounts"}
  Pages = {p1}
  Accents = {"blue"}
  DefaultAccent = "blue"
  NoAccent = "none"
  MaxEvents = 0
  Threads = {t1}
  NoThread = NoThread
  MaxStamp = 0
  MaxCalls = 0
  MaxClicks = 0
  Ids = {c1}
  NoText = NoText
  Spaces = Spaces
  Focuses = {{"port"}}
  MaxOutside = 0
  ann = ann Ann = Ann bob = bob
  Addresses = {ann, Ann, bob}
  Key <- KeyOf
  NoAddress = NoAddress
  AccountFocuses = {"manual"}
  MaxChains = 1
  MaxRequests <- RequestsOf
INVARIANT FormFieldsFirst
CHECK_DEADLOCK FALSE
