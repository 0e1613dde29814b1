---------------------------- MODULE AccountsPanel ----------------------------
(***************************************************************************)
(* The accounts panel (accounts-panel.tsx).  A button starts a chain: its  *)
(* request is served, the list of accounts is read and shown, and the end  *)
(* of the chain moves the selection (admin-console.tsx, 159-203).  Every   *)
(* list shown fills the scheduling forms of all accounts again.  Chains    *)
(* overlap, and another administrator saves settings too.                  *)
(*                                                                         *)
(* A behaviour uses one part of the panel (accountFocus): the details with *)
(* one scheduling setting, the logins, or the identity fields of the       *)
(* import.  userID stands for the three fields a probe JSON fills.  What   *)
(* the e-mail fields of the forms show is left out: a request is sent with *)
(* any address.                                                            *)
(***************************************************************************)
EXTENDS Integers, Sequences, FiniteSets

CONSTANTS
  Addresses,      \* texts of e-mail addresses
  Key,            \* canonicalEmailKey: one spelling of each address
  NoAddress,      \* ""
  AccountFocuses, \* the parts of the panel, one used in a behaviour (a bound)
  MaxChains,      \* chains under way (a bound)
  MaxRequests     \* of each part, how many chains, and changes by another
                  \* administrator, there are in a behaviour (a bound)

ASSUME AccountsAssumption ==
  /\ Key \in [Addresses -> Addresses]
  /\ NoAddress \notin Addresses
  /\ MaxChains \in Nat /\ MaxRequests \in [AccountFocuses -> Nat]

VARIABLES
  accountFocus,
  pool, activeAccount,    \* the accounts of the server, and the active one
  items, listedActive,    \* accountsPayload
  accountEdits,           \* the scheduling forms, of the addresses listed
  quickTestEmail, selectedEmail,
  userID, probeJSON,      \* of the import form
  chains,
  touched,       \* ghost: the forms edited since the last list
  typedUserID,   \* ghost: what was typed into the field
  disturbed,     \* ghost: something else happened since the oldest chain began
  requests       \* chains and changes by another administrator so far

accountsVars == <<accountFocus, pool, activeAccount, items, listedActive,
  accountEdits, quickTestEmail, selectedEmail, userID, probeJSON, chains,
  touched, typedUserID, disturbed, requests>>

----------------------------------------------------------------------------
(* The data.                                                               *)

AccountEditState ==
  [priority : Int, hourlyQuota : Nat, maxConcurrency : Nat \ {0}, disabled : BOOLEAN]

NewRow == [priority |-> 0, hourlyQuota |-> 0, maxConcurrency |-> 1, disabled |-> FALSE]

AccountItem == [email : Addresses, row : AccountEditState]

UserIDs == {"id1", "id2"}
ProbeDraft == UserIDs \cup {"", "no user", "not JSON"}

NoChain == [kind |-> "refresh", at |-> "served", email |-> NoAddress,
            row |-> NewRow, userID |-> "", active |-> FALSE,
            items |-> <<>>, listedActive |-> NoAddress]

Listed(list) == {list[i].email : i \in DOMAIN list}
AccountKeys(list) == {Key[e] : e \in Listed(list)}
FindAccount(list, e) == CHOOSE i \in DOMAIN list : Key[list[i].email] = Key[e]

(* The account of e, or a new one, under the spelling stored.              *)
UpsertAccount(list, e, stored) ==
  IF Key[e] \in AccountKeys(list)
  THEN [list EXCEPT ![FindAccount(list, e)].email = stored]
  ELSE Append(list, [email |-> stored, row |-> NewRow])

buildAccountEditMap(list) ==
  [e \in Listed(list) |-> list[FindAccount(list, e)].row]

(* What a number input makes of the number typed.                          *)
NumberTyped(field, n) ==
  IF field = "priority" \/ n >= 1 THEN n
  ELSE IF field = "hourlyQuota" THEN 0 ELSE 1

AccountsTypeOK ==
  /\ accountFocus \in AccountFocuses
  /\ pool \in Seq(AccountItem) /\ items \in Seq(AccountItem)
  /\ {activeAccount, listedActive} \subseteq Addresses \cup {NoAddress}
  /\ DOMAIN accountEdits = Listed(items)
  /\ \A e \in DOMAIN accountEdits : accountEdits[e] \in AccountEditState
  /\ {quickTestEmail, selectedEmail} \subseteq Addresses \cup {NoAddress}
  /\ userID \in UserIDs \cup {""} /\ typedUserID \in UserIDs \cup {""}
  /\ probeJSON \in ProbeDraft
  /\ \A c \in chains : DOMAIN c = DOMAIN NoChain
  /\ Cardinality(chains) <= MaxChains
  /\ touched \subseteq Addresses
  /\ disturbed \in BOOLEAN
  /\ requests \in 0..MaxRequests[accountFocus]

----------------------------------------------------------------------------
(* A list is shown, and the effect of its render fills the forms and keeps *)
(* a selection that is listed.                                             *)

preferredEmail(list, active) ==
  IF active # NoAddress THEN active
  ELSE IF list = <<>> THEN NoAddress ELSE list[1].email

Kept(current, list, active) ==
  IF current \in Listed(list) THEN current ELSE preferredEmail(list, active)

(* Two mutations of ResetForms: a form that is there is kept, or the forms *)
(* of what is no longer listed are.                                        *)
ResetFormsKeeping(list, active) ==
  /\ accountEdits' = [e \in Listed(list) |->
       IF e \in DOMAIN accountEdits THEN accountEdits[e] ELSE buildAccountEditMap(list)[e]]
  /\ quickTestEmail' = Kept(quickTestEmail, list, active)
  /\ selectedEmail' = Kept(selectedEmail, list, active)
  /\ touched' = {}

ResetFormsAdding(list, active) ==
  /\ accountEdits' = [e \in Listed(list) \cup DOMAIN accountEdits |->
       IF e \in Listed(list) THEN buildAccountEditMap(list)[e] ELSE accountEdits[e]]
  /\ quickTestEmail' = Kept(quickTestEmail, list, active)
  /\ selectedEmail' = Kept(selectedEmail, list, active)
  /\ touched' = {}

ResetForms(list, active) ==
  /\ accountEdits' = buildAccountEditMap(list)
  /\ quickTestEmail' = Kept(quickTestEmail, list, active)
  /\ selectedEmail' = Kept(selectedEmail, list, active)
  /\ touched' = {}

AccountsInit ==
  /\ accountFocus \in AccountFocuses
  /\ \E e, f \in {Key[g] : g \in Addresses} :
       /\ pool \in {<<>>, UpsertAccount(<<[email |-> e, row |-> NewRow]>>, f, f)}
       /\ activeAccount \in {NoAddress, e} \cap ({NoAddress} \cup Listed(pool))
  /\ items = pool /\ listedActive = activeAccount
  /\ accountEdits = buildAccountEditMap(items)
  /\ selectedEmail = preferredEmail(items, listedActive)
  /\ quickTestEmail = preferredEmail(items, listedActive)
  /\ userID = "" /\ probeJSON = "" /\ typedUserID = ""
  /\ chains = {}
  /\ touched = {}
  /\ disturbed = FALSE
  /\ requests = 0

----------------------------------------------------------------------------
(* The inputs.                                                             *)

serverAccounts == <<pool, activeAccount>>
manualForm == <<userID, probeJSON, typedUserID>>
listShown == <<items, listedActive>>
fixed == <<accountFocus, requests>>

SelectAccount(e) ==
  /\ e \in Listed(items)
  /\ selectedEmail' = e
  /\ quickTestEmail' = e
  /\ UNCHANGED <<fixed, serverAccounts, listShown, accountEdits, manualForm,
                 chains, touched, disturbed>>

SelectTestAccount(e) ==
  /\ accountFocus = "tests"
  /\ e \in Listed(items)
  /\ quickTestEmail' = e
  /\ UNCHANGED <<fixed, serverAccounts, listShown, accountEdits, manualForm,
                 selectedEmail, chains, touched, disturbed>>

updateAccountEdit(value) ==
  /\ selectedEmail \in Listed(items)
  /\ accountEdits' = [accountEdits EXCEPT ![selectedEmail][accountFocus] = value]
  /\ touched' = touched \cup {selectedEmail}
  /\ UNCHANGED <<fixed, serverAccounts, listShown, manualForm, quickTestEmail,
                 selectedEmail, chains, disturbed>>

SchedulingInputs ==
  \/ /\ accountFocus \in {"priority", "hourlyQuota", "maxConcurrency"}
     /\ \E n \in {-1, 2} : updateAccountEdit(NumberTyped(accountFocus, n))
  \/ accountFocus = "disabled" /\ \E on \in BOOLEAN : updateAccountEdit(on)

IdentityInputs(text) ==
  /\ accountFocus = "manual"
  /\ userID' = text
  /\ typedUserID' = text
  /\ UNCHANGED <<fixed, serverAccounts, listShown, accountEdits, probeJSON,
                 quickTestEmail, selectedEmail, chains, touched, disturbed>>

(* The text of the probe changes, and its effect fills the fields.         *)
ProbeInput(text) ==
  /\ accountFocus = "manual"
  /\ probeJSON # text
  /\ probeJSON' = text
  /\ userID' = IF text \in UserIDs THEN text ELSE userID
  /\ UNCHANGED <<fixed, serverAccounts, listShown, accountEdits, typedUserID,
                 quickTestEmail, selectedEmail, chains, touched, disturbed>>

populateEmail(email) ==
  /\ selectedEmail' = email
  /\ quickTestEmail' = email

FillForms ==
  /\ selectedEmail \in Listed(items)
  /\ populateEmail(selectedEmail)
  /\ UNCHANGED <<fixed, serverAccounts, listShown, accountEdits, manualForm,
                 chains, touched, disturbed>>

----------------------------------------------------------------------------
(* The buttons.  Some are disabled while a chain of theirs is under way.   *)

UsedKinds ==
  CASE accountFocus = "manual" -> {"import"}
    [] accountFocus = "logins" -> {"start", "verify", "import", "delete", "refresh"}
    [] accountFocus = "tests" -> {"test", "activate", "delete", "refresh"}
    [] OTHER -> {"save", "delete", "refresh"}

Begin(c) ==
  /\ Cardinality(chains) < MaxChains /\ requests < MaxRequests[accountFocus]
  /\ c \notin chains /\ c.kind \in UsedKinds
  /\ c.kind \in {"start", "verify", "import"} => \A d \in chains : d.kind # c.kind
  /\ chains' = chains \cup {c}
  /\ disturbed' = (chains # {})
  /\ requests' = requests + 1
  /\ UNCHANGED <<accountFocus, serverAccounts, listShown, accountEdits, manualForm,
                 selectedEmail, touched>>

Asked(kind, email) == [NoChain EXCEPT !.kind = kind, !.at = "sent", !.email = email]

StartLogin(e)  == Begin(Asked("start", e)) /\ UNCHANGED quickTestEmail
VerifyCode(e)  == Begin(Asked("verify", e)) /\ UNCHANGED quickTestEmail
RefreshButton  == Begin(NoChain) /\ UNCHANGED quickTestEmail

(* The address may be left to the probe or the cookie.                     *)
performManualImport(e, active) ==
  /\ probeJSON # "not JSON"
  /\ Begin([Asked("import", e) EXCEPT !.userID = userID, !.active = active])
  /\ UNCHANGED quickTestEmail

DetailButtons ==
  /\ selectedEmail \in Listed(items)
  /\ \/ Begin([Asked("save", selectedEmail) EXCEPT !.row = accountEdits[selectedEmail]])
     \/ Begin(Asked("activate", selectedEmail))
     \/ Begin(Asked("delete", selectedEmail))
  /\ UNCHANGED quickTestEmail

runQuickTest(e) ==
  /\ e # NoAddress
  /\ \/ e = selectedEmail /\ e \in Listed(items)
     \/ e = quickTestEmail /\ \A c \in chains : c.kind # "test"
  /\ Begin(Asked("test", e))
  /\ quickTestEmail' = e

----------------------------------------------------------------------------
(* The server.                                                             *)

panelState == <<fixed, listShown, accountEdits, quickTestEmail, selectedEmail,
                manualForm, touched, disturbed>>

Served(c, email) ==
  chains' = (chains \ {c}) \cup {[c EXCEPT !.at = "served", !.email = email]}

(* A login that succeeds stores the address as it was typed, or, once the  *)
(* code is verified, as Notion spells it.                                  *)
ServeStart(c) ==
  /\ c.kind = "start" /\ c.at = "sent"
  /\ pool' = UpsertAccount(pool, c.email, c.email)
  /\ Served(c, c.email)
  /\ UNCHANGED <<activeAccount, panelState>>

ServeVerify(c, stored) ==
  /\ c.kind = "verify" /\ c.at = "sent"
  /\ Key[stored] = Key[c.email]
  /\ pool' = UpsertAccount(pool, c.email, stored)
  /\ activeAccount' = stored
  /\ Served(c, c.email)
  /\ UNCHANGED panelState

(* One that fails leaves the account all the same.                         *)
LoginFails(c) ==
  /\ c.kind \in {"start", "verify"} /\ c.at = "sent"
  /\ pool' = IF Key[c.email] \in AccountKeys(pool) THEN pool
             ELSE UpsertAccount(pool, c.email, c.email)
  /\ chains' = chains \ {c}
  /\ UNCHANGED <<activeAccount, panelState>>

(* A mutation of ServeImport: the reply names it as it was asked for.      *)
ServeImportAsAsked(c, stored) ==
  /\ c.kind = "import" /\ c.at = "sent"
  /\ c.email # NoAddress => stored = c.email
  /\ pool' = UpsertAccount(pool, stored, stored)
  /\ activeAccount' = IF c.active THEN stored ELSE activeAccount
  /\ Served(c, c.email)
  /\ UNCHANGED panelState

(* The reply to an import names the account under its stored address.      *)
ServeImport(c, stored) ==
  /\ c.kind = "import" /\ c.at = "sent"
  /\ c.email # NoAddress => stored = c.email
  /\ pool' = UpsertAccount(pool, stored, stored)
  /\ activeAccount' = IF c.active THEN stored ELSE activeAccount
  /\ Served(c, stored)
  /\ UNCHANGED panelState

Cleared(e) ==
  IF activeAccount # NoAddress /\ Key[activeAccount] = Key[e] THEN NoAddress
  ELSE activeAccount

ServeActivate(c) ==
  /\ c.kind = "activate" /\ c.at = "sent"
  /\ Key[c.email] \in AccountKeys(pool)
  /\ activeAccount' = pool[FindAccount(pool, c.email)].email
  /\ Served(c, c.email)
  /\ UNCHANGED <<pool, panelState>>

DeleteOf(e) ==
  /\ Key[e] \in AccountKeys(pool)
  /\ LET i == FindAccount(pool, e)
     IN  pool' = SubSeq(pool, 1, i - 1) \o SubSeq(pool, i + 1, Len(pool))
  /\ activeAccount' = Cleared(e)

ServeDelete(c) ==
  /\ c.kind = "delete" /\ c.at = "sent"
  /\ DeleteOf(c.email)
  /\ Served(c, c.email)
  /\ UNCHANGED panelState

SettingsOf(e, row) ==
  /\ Key[e] \in AccountKeys(pool)
  /\ pool' = [pool EXCEPT ![FindAccount(pool, e)].row = row]
  /\ activeAccount' = IF row.disabled THEN Cleared(e) ELSE activeAccount

ServeSave(c) ==
  /\ c.kind = "save" /\ c.at = "sent"
  /\ SettingsOf(c.email, c.row)
  /\ Served(c, c.email)
  /\ UNCHANGED panelState

(* A test only adds a conversation; a list is read.                        *)
ServeTest(c) ==
  /\ c.kind = "test" /\ c.at = "sent"
  /\ chains' = chains \ {c}
  /\ UNCHANGED <<pool, activeAccount, panelState>>

ReadAccounts(c) ==
  /\ c.at = "served"
  /\ chains' = (chains \ {c}) \cup
       {[c EXCEPT !.at = "read", !.items = pool, !.listedActive = activeAccount]}
  /\ UNCHANGED <<pool, activeAccount, panelState>>

OthersChange(e) ==
  /\ accountFocus \notin {"logins", "manual"}
  /\ requests < MaxRequests[accountFocus]
  /\ \E on \in BOOLEAN : SettingsOf(e, [NewRow EXCEPT !.disabled = on])
  /\ requests' = requests + 1
  /\ disturbed' = TRUE
  /\ UNCHANGED <<accountFocus, listShown, accountEdits, quickTestEmail,
                 selectedEmail, manualForm, chains, touched>>

----------------------------------------------------------------------------
(* The replies.                                                            *)

ShowAccounts(c) ==
  /\ c.at = "read"
  /\ items' = c.items
  /\ listedActive' = c.listedActive
  /\ ResetForms(c.items, c.listedActive)
  /\ chains' = (chains \ {c}) \cup
       {[c EXCEPT !.at = "shown", !.items = <<>>, !.listedActive = NoAddress]}
  /\ UNCHANGED <<fixed, serverAccounts, manualForm, disturbed>>

(* An error ends the chain, except that refreshAll keeps its own.          *)
ChainFails(c) ==
  /\ \/ c.at \in {"sent", "served", "read"}
     \/ c.at = "shown" /\ c.kind \in {"start", "save"}
  /\ chains' = chains \ {c}
  /\ UNCHANGED <<pool, activeAccount, panelState>>

RefreshAllFails(c) ==
  /\ c.at \in {"served", "read"}
  /\ c.kind \in {"verify", "import", "activate"}
  /\ chains' = (chains \ {c}) \cup
       {[c EXCEPT !.at = "shown", !.items = <<>>, !.listedActive = NoAddress]}
  /\ disturbed' = TRUE
  /\ UNCHANGED <<fixed, listShown, accountEdits, quickTestEmail, selectedEmail,
                 manualForm, touched, serverAccounts>>

FinishChain(c) ==
  /\ c.at = "shown"
  /\ chains' = chains \ {c}
  /\ IF c.kind \in {"start", "verify", "import", "activate"} THEN populateEmail(c.email)
     ELSE UNCHANGED <<selectedEmail, quickTestEmail>>
  /\ UNCHANGED <<fixed, serverAccounts, listShown, accountEdits, manualForm,
                 touched, disturbed>>

AccountsNext ==
  \/ \E e \in Addresses : \/ SelectAccount(e) \/ SelectTestAccount(e)
                          \/ StartLogin(e) \/ VerifyCode(e) \/ runQuickTest(e)
                          \/ OthersChange(e)
  \/ SchedulingInputs
  \/ \E text \in UserIDs \cup {""} : IdentityInputs(text)
  \/ \E text \in ProbeDraft : ProbeInput(text)
  \/ \E e \in Addresses \cup {NoAddress}, active \in BOOLEAN : performManualImport(e, active)
  \/ FillForms \/ DetailButtons \/ RefreshButton
  \/ \E c \in chains :
       \/ ServeStart(c) \/ LoginFails(c) \/ ServeActivate(c) \/ ServeDelete(c)
       \/ ServeSave(c) \/ ServeTest(c) \/ ReadAccounts(c) \/ ShowAccounts(c)
       \/ ChainFails(c) \/ RefreshAllFails(c) \/ FinishChain(c)
       \/ \E stored \in Addresses : ServeVerify(c, stored) \/ ServeImport(c, stored)

AccountsSpec == AccountsInit /\ [][AccountsNext]_accountsVars

----------------------------------------------------------------------------
(* A save of scheduling settings sends, for a form that was not edited     *)
(* since the last list was shown, what that list shows: a form that kept   *)
(* older values would take back what another administrator changed.        *)
RowSavesOnlyEdits ==
  [][\A c \in chains' \ chains :
       (c.kind = "save" /\ c.at = "sent" /\ c.email \notin touched)
         => c.row = items[FindAccount(items, c.email)].row]_accountsVars

(* A login or an import that nothing else crossed ends on its account: the *)
(* address selected is that of an account listed, in the spelling of the   *)
(* list unless it was the code of a login that Notion spelled otherwise.   *)
EndsOnItsAccount ==
  [][\A c \in chains \ chains' :
       (c.kind \in {"start", "verify", "import"} /\ c.at = "shown" /\ ~disturbed)
         => \/ selectedEmail' = selectedEmail \* the chain failed at its end
            \/ selectedEmail' \in Listed(items)
            \/ c.kind = "verify" /\ Key[selectedEmail'] \in AccountKeys(items)]_accountsVars

(* "Fields filled in the form above take precedence; the probe JSON only   *)
(* fills in those left empty" (line 653): what was typed into the field    *)
(* stays in it.  The effect of the probe does the opposite (246-249).      *)
FormFieldsFirst == typedUserID # "" => userID = typedUserID

=============================================================================
