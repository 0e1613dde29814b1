SPECIFICATION Spec
CONSTANTS
  Tabs = {"theme", "conversations", "tester", "settings", "accounts"}
  Pages = {p1, p2}
  Accents = {"blue", "green", "rose"}
  DefaultAccent = "blue"
  NoAccent = "none"
  MaxEvents = 2
  Threads = {t1, t2}
  NoThread = NoThread
  MaxStamp = 2
  MaxCalls = 2
  MaxClicks = 3
  Ids = {c1, c2, c3}
  NoText = NoText
  Spaces = Spaces
  Focuses = {{"port"}, {"apiKey"}, {"host"}, {"maxEscalationSteps"}, {"upstreamBaseURL"}, {"upstreamOrigin"}, {"forceDisableUpstreamEdits", "writerMode"}, {"persistResponses"}, {"modelAliases"}, {"codingRetryPrefixes"}, {"customPromptPrefix"}, {"pollInterval"}}
  MaxOutside = 1
  ann = ann Ann = Ann bob = bob
  Addresses = {ann, Ann, bob}
  Key <- KeyOf
  NoAddress = NoAddress
  AccountFocuses = {"priority", "hourlyQuota", "maxConcurrency", "disabled", "logins", "manual", "tests"}
  MaxChains = 2
  MaxRequests <- RequestsOf
SYMMETRY PageSymmetry
INVARIANTS TypeOK TabsAgree ViewIsCurrent ClearedAfterLogout
PROPERTIES  SavesOnlyEdits SavedIsShown RowSavesOnlyEdits 
CHECK_DEADLOCK FALSE
