------------------------------ MODULE AdminPage ------------------------------
(***************************************************************************)
(* The administration page (admin-console.tsx): the accent theme around    *)
(* it, the state of the console with the conversations panel, and the      *)
(* panels of the tester, the settings and the accounts.  renderActivePanel *)
(* renders exactly one panel, and a panel keeps its state in itself; what  *)
(* panels share is the state of the console, whose relevant part each      *)
(* panel's module has as its own.  A behaviour follows one part of the     *)
(* page, chosen at the start.                                              *)
(***************************************************************************)
EXTENDS AccentTheme, AdminConsole, TesterPanel, SettingsForm, AccountsPanel

CONSTANT Tabs     \* the parts of the page to follow (a bound)

ASSUME TabsAssumption ==
  Tabs \subseteq {"theme", "conversations", "tester", "settings", "accounts"}

VARIABLE activeTab

vars == <<activeTab, themeVars, consoleVars, testerVars, formVars, accountsVars>>

(* The panel in front is mounted; the others have no state, and of the     *)
(* theme and the console only what does not change is kept.                *)
SettingsAbsent ==
  /\ focus = {} /\ editedFields = {} /\ outside = 0
  /\ serverConfig = <<>> /\ config = <<>> /\ form = <<>>
  /\ jobs = [k \in {"save", "import"} |-> NoJob]

AccountsAbsent ==
  /\ accountFocus = "none" /\ requests = 0 /\ chains = {}
  /\ pool = <<>> /\ items = <<>> /\ accountEdits = <<>>
  /\ activeAccount = NoAddress /\ listedActive = NoAddress
  /\ quickTestEmail = NoAddress /\ selectedEmail = NoAddress
  /\ userID = "" /\ probeJSON = "" /\ typedUserID = ""
  /\ touched = {} /\ disturbed = FALSE

TypeOK ==
  /\ activeTab \in Tabs
  /\ ThemeTypeOK /\ ConsoleTypeOK /\ TesterTypeOK
  /\ IF activeTab = "settings" THEN SettingsTypeOK ELSE SettingsAbsent
  /\ IF activeTab = "accounts" THEN AccountsTypeOK ELSE AccountsAbsent

Init ==
  /\ activeTab \in Tabs
  /\ ThemeInit /\ (activeTab # "theme" => storedAccent = NoAccent)
  /\ ConsoleInit /\ (activeTab # "conversations" => ~session)
  /\ TesterInit
  /\ IF activeTab = "settings" THEN SettingsInit ELSE SettingsAbsent
  /\ IF activeTab = "accounts" THEN AccountsInit ELSE AccountsAbsent

InTheme ==
  /\ activeTab = "theme"
  /\ ThemeNext
  /\ UNCHANGED <<activeTab, consoleVars, testerVars, formVars, accountsVars>>

InConversations ==
  /\ activeTab = "conversations"
  /\ ConsoleNext
  /\ UNCHANGED <<activeTab, themeVars, testerVars, formVars, accountsVars>>

InTester ==
  /\ activeTab = "tester"
  /\ TesterNext
  /\ UNCHANGED <<activeTab, themeVars, consoleVars, formVars, accountsVars>>

InSettings ==
  /\ activeTab = "settings"
  /\ SettingsNext
  /\ UNCHANGED <<activeTab, themeVars, consoleVars, testerVars, accountsVars>>

InAccounts ==
  /\ activeTab = "accounts"
  /\ AccountsNext
  /\ UNCHANGED <<activeTab, themeVars, consoleVars, testerVars, formVars>>

Next == InTheme \/ InConversations \/ InTester \/ InSettings \/ InAccounts

Spec == Init /\ [][Next]_vars

=============================================================================
