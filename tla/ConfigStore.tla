---------------------------- MODULE ConfigStore ----------------------------
(***************************************************************************)
(* The configuration and the accounts in it: the published snapshot        *)
(* (main.go), the config file, and the accounts table of SQLite.           *)
(*                                                                         *)
(* Every writer (an API request that records how an account served it, the *)
(* session refresh, the admin handlers) takes the published AppConfig by   *)
(* value, changes its copy and hands it to SaveAndApply, which writes the  *)
(* file, publishes the copy and rewrites the table, without holding a lock *)
(* from the first read to the last write.  The copy is shallow: the slice  *)
(* Accounts still points to the array of the snapshot.  UpsertAccount      *)
(* overwrites a cell of that array or appends to it, DeleteAccount shifts  *)
(* its cells; what the array holds is therefore visible at once through    *)
(* every copy, while the slice header, the active account and all the      *)
(* other settings travel with the copy.  This module keeps that heap.      *)
(***************************************************************************)
EXTENDS Integers, Sequences, FiniteSets

CONSTANTS
  Dispatchers,  \* goroutines serving prompts or refreshing a session
  Admin,        \* the goroutine serving the administrator's requests
  Accounts,     \* the e-mail keys
  Arrays,       \* backing arrays (a bound on those referenced at once)
  MaxLen,       \* the longest account list (a bound)
  Settings,     \* versions of all that is configured beside accounts; 0 at first
  NoAccount, NoArray,
  Modes,        \* which operations a behaviour has (a bound), see below
  Bootstrap     \* of a mode, the account lists the config file may hold at first

ASSUME StoreAssumption ==
  /\ Admin \notin Dispatchers
  /\ NoAccount \notin Accounts /\ NoArray \notin Arrays
  /\ MaxLen \in Nat \ {0}
  /\ Settings \subseteq Nat /\ 0 \in Settings
  /\ Modes \subseteq {"serial", "shared"}
  \* a list with an e-mail twice is refused by the primary key of the table
  /\ \A m \in Modes : \A accounts \in Bootstrap[m] :
       /\ accounts \in Seq(Accounts) /\ Len(accounts) <= MaxLen
       /\ \A i, j \in 1..Len(accounts) : accounts[i] = accounts[j] => i = j

Writers == Dispatchers \cup {Admin}
Cell == [key : Accounts \cup {NoAccount}, disabled : BOOLEAN]
NoCell == [key |-> NoAccount, disabled |-> FALSE]
Enabled(a) == [key |-> a, disabled |-> FALSE]

VARIABLES
  heap,      \* the cells of every backing array
  cap,       \* its capacity
  published, \* ServerState.Config: [arr, len, active, setting]
  order,     \* snapshotBundle.DispatchOrder: copies of the eligible cells
  file,      \* the config file: [accounts, setting]
  table,     \* the accounts table: [rows, active]
  pc,        \* where each writer is
  cfg,       \* its copy of the configuration
  mine,      \* the account value a dispatcher works with
  task,      \* ghost: what the admin request under way is to achieve
  promise,   \* ghost: what the administrator was told last, per account; of one
             \* told to be out that a restart finds in the file, "revived"
  promised,  \* ghost: the settings the administrator was told are saved
  tainted,   \* ghost: accounts edited while a request was using them
  unsaved,   \* ghost: the table is behind after a failure
  mode

disk  == <<file, table>>
ghost == <<task, promise, promised, tainted, unsaved>>
vars  == <<heap, cap, published, order, disk, pc, cfg, mine, ghost, mode>>

(* In a "serial" behaviour operations of every kind follow each other and  *)
(* may fail half-way; in a "shared" one operations overlap in time, but    *)
(* only edits of accounts and requests that use them.                      *)
Overlapping == mode = "shared"
Structural  == mode = "serial"
MayFail     == mode = "serial"

----------------------------------------------------------------------------
(* Slices: a header [arr, len] over an array of cap[arr] cells.            *)

Listing(h, cells) == SubSeq(cells[h.arr], 1, h.len)
Keys(h) == {heap[h.arr][i].key : i \in 1..h.len}

\* FindAccount: the first cell with that key.
IndexOf(h, a) ==
  CHOOSE i \in 1..h.len :
    heap[h.arr][i].key = a /\ \A j \in 1..(i-1) : heap[h.arr][j].key # a

\* Seeded bug: disabled accounts stay candidates.
EligibleAll(h, cells) == {cells[h.arr][i] : i \in 1..h.len}

\* buildDispatchCandidateOrder, as a set of copies.
Eligible(h, cells) ==
  {cells[h.arr][i] : i \in {j \in 1..h.len : ~cells[h.arr][j].disabled}}

Referenced == {published.arr} \cup {cfg[w].arr : w \in {v \in Writers : pc[v] # "idle"}}

\* Arrays nobody references any more are collected.
FreeArrays == Arrays \ Referenced

Pad(cells) == [i \in 1..MaxLen |-> IF i <= Len(cells) THEN cells[i] ELSE NoCell]

Blank == [arr |-> NoArray, len |-> 0, active |-> NoAccount, setting |-> 0]

NoTask == [account |-> NoAccount, want |-> "?", setting |-> -1]

Rows(accounts) == [i \in 1..Len(accounts) |-> Enabled(accounts[i])]

----------------------------------------------------------------------------
(* newServerState: accounts and active account from the table if it has    *)
(* any row, else from the file (and then into the table).                  *)

\* Seeded bug: the table is never read back.
LoadedFromFile == Rows(file.accounts)

Loaded == IF table.rows # <<>> THEN table.rows ELSE Rows(file.accounts)

Init ==
  /\ mode \in Modes
  /\ \E accounts \in Bootstrap[mode] :
       /\ file = [accounts |-> accounts, setting |-> 0]
       /\ table = [rows |-> Rows(accounts), active |-> NoAccount]
       /\ \E x \in Arrays, c \in Len(accounts)..MaxLen :
            /\ heap = [y \in Arrays |-> IF y = x THEN Pad(Rows(accounts)) ELSE Pad(<<>>)]
            /\ cap = [y \in Arrays |-> IF y = x THEN c ELSE 0]
            /\ published = [Blank EXCEPT !.arr = x, !.len = Len(accounts)]
       /\ order = {Enabled(accounts[i]) : i \in 1..Len(accounts)}
       /\ promise = [a \in Accounts |->
            IF \E i \in 1..Len(accounts) : accounts[i] = a THEN "in" ELSE "out"]
  /\ pc = [w \in Writers |-> "idle"]
  /\ cfg = [w \in Writers |-> Blank]
  /\ mine = [w \in Writers |-> NoCell]
  /\ task = NoTask
  /\ promised = 0
  /\ tainted = {}
  /\ unsaved = FALSE

Goto(w, place) == pc' = [pc EXCEPT ![w] = place]

Restart ==
  /\ \E c \in Len(Loaded)..MaxLen :
       /\ heap' = [x \in Arrays |-> IF x = published.arr THEN Pad(Loaded) ELSE Pad(<<>>)]
       /\ cap' = [cap EXCEPT ![published.arr] = c]
  /\ published' = [published EXCEPT !.len = Len(Loaded),
                     !.active = IF table.rows # <<>> THEN table.active ELSE NoAccount,
                     !.setting = file.setting]
  /\ order' = {Loaded[i] : i \in {j \in 1..Len(Loaded) : ~Loaded[j].disabled}}
  /\ table' = [rows |-> Loaded,
               active |-> IF table.rows # <<>> THEN table.active ELSE NoAccount]
  /\ pc' = [w \in Writers |-> "idle"]
  /\ cfg' = [w \in Writers |-> Blank]
  /\ mine' = [w \in Writers |-> NoCell]
  /\ task' = NoTask
  /\ unsaved' = FALSE
  /\ promise' = [a \in Accounts |->
       IF promise[a] = "out" /\ table.rows = <<>> /\ \E i \in 1..Len(Loaded) : Loaded[i].key = a
       THEN "revived" ELSE promise[a]]
  /\ UNCHANGED <<file, promised, tainted, mode>>

----------------------------------------------------------------------------
\* Snapshot(): every operation starts with a copy of the published config.
Take(w) ==
  /\ pc[w] = "idle"
  /\ Overlapping \/ \A v \in Writers : pc[v] = "idle"
  /\ Goto(w, "read")
  /\ cfg' = [cfg EXCEPT ![w] = published]
  /\ UNCHANGED <<heap, cap, published, order, disk, mine, ghost, mode>>

\* An operation that finds nothing to do.
Leave(w) ==
  /\ pc[w] = "read"
  /\ Goto(w, "idle")
  /\ cfg' = [cfg EXCEPT ![w] = Blank]
  /\ UNCHANGED <<heap, cap, published, order, disk, mine, ghost, mode>>

\* An edit the administrator has not been told of yet.
Pending(a) == task.account = a

Hold(d, cell) ==
  /\ Goto(d, "running")
  /\ mine' = [mine EXCEPT ![d] = cell]
  /\ tainted' = IF Pending(cell.key) THEN tainted \cup {cell.key} ELSE tainted

\* The request works with the copy of the account in the dispatch order.
PickCandidate(d, cell) ==
  /\ pc[d] = "read" /\ cell \in order
  /\ Hold(d, cell)
  /\ UNCHANGED <<heap, cap, published, order, disk, cfg, task, promise, promised, unsaved, mode>>

\* RefreshSession works with the active account.
PickActive(d) ==
  /\ pc[d] = "read" /\ cfg[d].active \in Keys(cfg[d])
  /\ Hold(d, heap[cfg[d].arr][IndexOf(cfg[d], cfg[d].active)])
  /\ UNCHANGED <<heap, cap, published, order, disk, cfg, task, promise, promised, unsaved, mode>>

\* Seeded bug: an append does not look at the capacity.
UpsertPastCapacity(w, cell) ==
  /\ cell.key \notin Keys(cfg[w]) /\ cfg[w].len < MaxLen
  /\ heap' = [heap EXCEPT ![cfg[w].arr][cfg[w].len + 1] = cell]
  /\ cfg' = [cfg EXCEPT ![w].len = @ + 1]
  /\ UNCHANGED cap

\* Seeded bug: an update also rewrites the neighbouring cell.
UpsertBeside(w, cell) ==
  /\ cell.key \in Keys(cfg[w])
  /\ heap' = [heap EXCEPT ![cfg[w].arr] =
                [i \in 1..MaxLen |-> IF i <= cfg[w].len /\ i >= IndexOf(cfg[w], cell.key)
                                     THEN [@[i] EXCEPT !.disabled = cell.disabled] ELSE @[i]]]
  /\ cfg' = cfg
  /\ UNCHANGED cap

(* UpsertAccount on the writer's copy: overwrite, append in place, or grow *)
(* into a new array; capacity after growth is the runtime's choice.        *)
Upsert(w, cell) ==
  LET h == cfg[w] IN
  \/ /\ cell.key \in Keys(h)
     /\ heap' = [heap EXCEPT ![h.arr][IndexOf(h, cell.key)] = cell]
     /\ cfg' = cfg
     /\ UNCHANGED cap
  \/ /\ cell.key \notin Keys(h) /\ h.len < cap[h.arr]
     /\ heap' = [heap EXCEPT ![h.arr][h.len + 1] = cell]
     /\ cfg' = [cfg EXCEPT ![w].len = @ + 1]
     /\ UNCHANGED cap
  \/ /\ cell.key \notin Keys(h) /\ h.len = cap[h.arr] /\ h.len < MaxLen
     /\ \E x \in FreeArrays, c \in (h.len + 1)..MaxLen :
          /\ heap' = [heap EXCEPT ![x] = Pad(Append(Listing(h, heap), cell))]
          /\ cap' = [cap EXCEPT ![x] = c]
          /\ cfg' = [cfg EXCEPT ![w].arr = x, ![w].len = @ + 1]

(* applyAccountUpdate at the end of a request.  On success the account     *)
(* becomes active if the copy has no usable active account.                *)
Record(d) ==
  /\ pc[d] = "running"
  /\ Upsert(d, mine[d])
  /\ Goto(d, "save")
  /\ UNCHANGED <<published, order, disk, mine, ghost, mode>>

RecordActive(d) ==
  /\ pc[d] = "running"
  /\ cfg[d].active = mine[d].key \/ cfg[d].active \notin Keys(cfg[d])
  /\ mine[d].key \in Keys(cfg[d])
  /\ heap' = [heap EXCEPT ![cfg[d].arr][IndexOf(cfg[d], mine[d].key)] = mine[d]]
  /\ cfg' = [cfg EXCEPT ![d].active = mine[d].key]
  /\ Goto(d, "save")
  /\ UNCHANGED <<cap, published, order, disk, mine, ghost, mode>>

\* tryRefreshAccount makes the refreshed account the active one.
RecordRefreshed(d) ==
  /\ pc[d] = "running"
  /\ mine[d].key \in Keys(cfg[d])
  /\ heap' = [heap EXCEPT ![cfg[d].arr][IndexOf(cfg[d], mine[d].key)] = mine[d]]
  /\ cfg' = [cfg EXCEPT ![d].active = mine[d].key]
  /\ Goto(d, "save")
  /\ UNCHANGED <<cap, published, order, disk, mine, ghost, mode>>

----------------------------------------------------------------------------
(* The admin handlers.  While one is under way nothing is promised about   *)
(* its account.                                                            *)

InUse(a) == \E d \in Dispatchers : pc[d] = "running" /\ mine[d].key = a

Begin(a, want) ==
  /\ task' = [NoTask EXCEPT !.account = a, !.want = want]
  /\ promise' = [promise EXCEPT ![a] = "?"]
  /\ tainted' = IF InUse(a) THEN tainted \cup {a} ELSE tainted \ {a}
  /\ Goto(Admin, "save")

\* handleAdminAccounts, PUT: the cell is overwritten through the snapshot.
Edit(a, off) ==
  /\ pc[Admin] = "read" /\ a \in Keys(cfg[Admin])
  /\ heap' = [heap EXCEPT ![cfg[Admin].arr][IndexOf(cfg[Admin], a)].disabled = off]
  /\ \E act \in {cfg[Admin].active, a} :
       cfg' = [cfg EXCEPT ![Admin].active =
                 IF ~off THEN act ELSE IF @ = a THEN NoAccount ELSE @]
  /\ Begin(a, IF off THEN "off" ELSE "in")
  /\ UNCHANGED <<cap, published, order, disk, mine, promised, unsaved, mode>>

\* The PUT that would also activate the account is refused, for want of a
\* probe file, after the cell was written.
RejectEdit(a) ==
  /\ MayFail
  /\ pc[Admin] = "read" /\ a \in Keys(cfg[Admin])
  /\ heap' = [heap EXCEPT ![cfg[Admin].arr][IndexOf(cfg[Admin], a)].disabled = FALSE]
  /\ Goto(Admin, "idle")
  /\ cfg' = [cfg EXCEPT ![Admin] = Blank]
  /\ promise' = [promise EXCEPT ![a] = "?"]
  /\ unsaved' = TRUE
  /\ UNCHANGED <<cap, published, order, disk, mine, task, promised, tainted, mode>>

\* handleAdminAccountsActivate
Activate(a) ==
  /\ pc[Admin] = "read" /\ a \in Keys(cfg[Admin])
  /\ cfg' = [cfg EXCEPT ![Admin].active = a]
  /\ Goto(Admin, "save")
  /\ UNCHANGED <<heap, cap, published, order, disk, mine, ghost, mode>>

\* handleAdminAccounts, POST
Add(a) ==
  /\ Structural
  /\ pc[Admin] = "read"
  /\ Upsert(Admin, Enabled(a))
  /\ Begin(a, "in")
  /\ UNCHANGED <<published, order, disk, mine, promised, unsaved, mode>>

\* Seeded bug: the cells are shifted, the slice is not shortened.
RemoveKeepsLength(a) ==
  /\ Structural
  /\ pc[Admin] = "read" /\ a \in Keys(cfg[Admin])
  /\ LET i == IndexOf(cfg[Admin], a)
     IN heap' = [heap EXCEPT ![cfg[Admin].arr] =
                   [j \in 1..MaxLen |-> IF j >= i /\ j < cfg[Admin].len THEN @[j+1] ELSE @[j]]]
  /\ cfg' = cfg
  /\ Begin(a, "out")
  /\ UNCHANGED <<cap, published, order, disk, mine, promised, unsaved, mode>>

\* handleAdminAccountDelete: append(Accounts[:i], Accounts[i+1:]...)
Remove(a) ==
  /\ Structural
  /\ pc[Admin] = "read" /\ a \in Keys(cfg[Admin])
  /\ LET i == IndexOf(cfg[Admin], a)
     IN heap' = [heap EXCEPT ![cfg[Admin].arr] =
                   [j \in 1..MaxLen |-> IF j >= i /\ j < cfg[Admin].len THEN @[j+1] ELSE @[j]]]
  /\ cfg' = [cfg EXCEPT ![Admin].len = @ - 1,
                        ![Admin].active = IF @ = a THEN NoAccount ELSE @]
  /\ Begin(a, "out")
  /\ UNCHANGED <<cap, published, order, disk, mine, promised, unsaved, mode>>

\* Any other setting (mergeConfigFromBody).
ChangeSetting(v) ==
  /\ ~Overlapping
  /\ pc[Admin] = "read" /\ v # cfg[Admin].setting
  /\ cfg' = [cfg EXCEPT ![Admin].setting = v]
  /\ task' = [NoTask EXCEPT !.setting = v]
  /\ promised' = -1
  /\ Goto(Admin, "save")
  /\ UNCHANGED <<heap, cap, published, order, disk, mine, promise, tainted, unsaved, mode>>

----------------------------------------------------------------------------
(* SaveAndApply, step by step.                                             *)

\* The operation returns; only the administrator has a task.
End(w) ==
  /\ Goto(w, "idle")
  /\ cfg' = [cfg EXCEPT ![w] = Blank]
  /\ mine' = [mine EXCEPT ![w] = NoCell]
  /\ task' = IF w = Admin THEN NoTask ELSE task

\* Seeded bug: the new configuration is compared with itself.
SaveFileNever(w) ==
  /\ pc[w] = "save"
  /\ Goto(w, "apply")
  /\ UNCHANGED <<heap, cap, published, order, disk, cfg, mine, ghost, mode>>

(* The file is written when it would differ; accounts are left out of it.  *)
(* A first active account may make it differ: its probe_json is left out.  *)
FirstActive(w) == published.active = NoAccount /\ cfg[w].active # NoAccount

SaveFile(w) ==
  /\ pc[w] = "save"
  /\ LET written == [accounts |-> <<>>, setting |-> cfg[w].setting]
     IN  file' \in IF cfg[w].setting # published.setting THEN {written}
                   ELSE IF FirstActive(w) THEN {written, file}
                   ELSE {file}
  /\ Goto(w, "apply")
  /\ UNCHANGED <<heap, cap, published, order, table, cfg, mine, ghost, mode>>

\* The file cannot be written: nothing is published, the operation fails.
SaveFileFails(w) ==
  /\ pc[w] = "save" /\ MayFail
  /\ cfg[w].setting # published.setting \/ FirstActive(w)
  /\ unsaved' = TRUE
  /\ End(w)
  /\ UNCHANGED <<heap, cap, published, order, disk, promise, promised, tainted, mode>>

\* ApplyConfig
Apply(w) ==
  /\ pc[w] = "apply"
  /\ published' = cfg[w]
  /\ order' = Eligible(cfg[w], heap)
  /\ Goto(w, "table")
  /\ UNCHANGED <<heap, cap, disk, cfg, mine, ghost, mode>>

Distinct(cells) == \A i, j \in 1..Len(cells) : i # j => cells[i].key # cells[j].key

\* Seeded bug: the rows are written, the active mark is not.
SaveTableWithoutActive(w) ==
  /\ pc[w] = "table"
  /\ Distinct(Listing(cfg[w], heap))
  /\ table' = [rows |-> Listing(cfg[w], heap), active |-> NoAccount]
  /\ unsaved' = FALSE
  /\ Goto(w, "reorder")
  /\ UNCHANGED <<heap, cap, published, order, file, cfg, mine, task, promise, promised, tainted, mode>>

\* Seeded bug: disabled accounts are not written back.
SaveTableOfEnabled(w) ==
  /\ pc[w] = "table"
  /\ table' = [rows |-> SelectSeq(Listing(cfg[w], heap), LAMBDA c : ~c.disabled),
               active |-> cfg[w].active]
  /\ unsaved' = FALSE
  /\ Goto(w, "reorder")
  /\ UNCHANGED <<heap, cap, published, order, file, cfg, mine, task, promise, promised, tainted, mode>>

\* SaveAccounts: DELETE and INSERTs in one transaction; the key is unique.
SaveTable(w) ==
  /\ pc[w] = "table"
  /\ Distinct(Listing(cfg[w], heap))
  /\ table' = [rows |-> Listing(cfg[w], heap), active |-> cfg[w].active]
  /\ unsaved' = FALSE
  /\ Goto(w, "reorder")
  /\ UNCHANGED <<heap, cap, published, order, file, cfg, mine, task, promise, promised, tainted, mode>>

\* The transaction is rolled back; the operation reports an error.
SaveTableFails(w) ==
  /\ pc[w] = "table"
  /\ MayFail \/ ~Distinct(Listing(cfg[w], heap))
  /\ unsaved' = TRUE
  /\ End(w)
  /\ UNCHANGED <<heap, cap, published, order, disk, promise, promised, tainted, mode>>

\* updateSnapshotBundleLocked once more, and the answer: the administrator
\* is told that the change is made.
Reorder(w) ==
  /\ pc[w] = "reorder"
  /\ order' = Eligible(published, heap)
  /\ promise' = IF w = Admin /\ task.account # NoAccount
                THEN [promise EXCEPT ![task.account] = task.want] ELSE promise
  /\ promised' = IF w = Admin /\ task.setting # -1 THEN task.setting ELSE promised
  /\ End(w)
  /\ UNCHANGED <<heap, cap, published, disk, tainted, unsaved, mode>>

----------------------------------------------------------------------------
DispatcherStep(d) ==
  \/ \E cell \in order : PickCandidate(d, cell)
  \/ PickActive(d) \/ Record(d) \/ RecordActive(d) \/ RecordRefreshed(d)

AdminStep ==
  \/ \E a \in Accounts :
       \/ \E off \in BOOLEAN : Edit(a, off)
       \/ RejectEdit(a) \/ Activate(a) \/ Add(a) \/ Remove(a)
  \/ \E v \in Settings : ChangeSetting(v)

SaveStep(w) ==
  \/ SaveFile(w) \/ SaveFileFails(w) \/ Apply(w)
  \/ SaveTable(w) \/ SaveTableFails(w) \/ Reorder(w)

Next ==
  \/ Restart
  \/ \E w \in Writers : Take(w) \/ Leave(w) \/ SaveStep(w)
  \/ \E d \in Dispatchers : DispatcherStep(d)
  \/ AdminStep

Spec == Init /\ [][Next]_vars

----------------------------------------------------------------------------
Config == [arr : Arrays \cup {NoArray}, len : 0..MaxLen, active : Accounts \cup {NoAccount}, setting : Settings]

(* The shape of the state; a header never reaches past its array.          *)
TypeOK ==
  /\ heap \in [Arrays -> [1..MaxLen -> Cell]]
  /\ cap \in [Arrays -> 0..MaxLen]
  /\ published \in Config /\ published.arr # NoArray /\ published.len <= cap[published.arr]
  /\ order \subseteq Cell
  /\ file \in [accounts : Seq(Accounts), setting : Settings]
  /\ table \in [rows : Seq(Cell), active : Accounts \cup {NoAccount}]
  /\ pc \in [Writers -> {"idle", "read", "running", "save", "apply", "table", "reorder"}]
  /\ cfg \in [Writers -> Config]
  /\ \A w \in Writers : pc[w] # "idle" => cfg[w].len <= cap[cfg[w].arr]
  /\ mine \in [Writers -> Cell]
  /\ task \in [account : Accounts \cup {NoAccount}, want : {"in", "off", "out", "?"},
                setting : Settings \cup {-1}]
  /\ promise \in [Accounts -> {"in", "off", "out", "revived", "?"}]
  /\ promised \in Settings \cup {-1}
  /\ tainted \subseteq Accounts
  /\ unsaved \in BOOLEAN
  /\ mode \in Modes

Quiet == \A w \in Writers : pc[w] = "idle"

Standing(a) ==
  IF a \notin Keys(published) THEN "out"
  ELSE IF heap[published.arr][IndexOf(published, a)].disabled THEN "off" ELSE "in"

Told(a) == promise[a] \in {"in", "off", "out"}

(* As long as operations follow each other, what the administrator was     *)
(* told about an account stays true until the next admin request about it, *)
(* whatever requests the account serves, whichever saves fail, and across  *)
(* restarts, unless a restart brings it back from the config file.         *)
PromisesKept == ~Overlapping => \A a \in Accounts : Told(a) => Standing(a) = promise[a]

(* A disabled account is not in the dispatch order (the text of the switch *)
(* in accounts-panel.tsx).                                                 *)
DisabledStaysOut ==
  \A a \in Accounts : promise[a] = "off" =>
     Standing(a) # "in" /\ \A cell \in order : cell.key # a

(* It stays out at least as long as operations follow each other.          *)
DisabledStaysOutInTurn == ~Overlapping => DisabledStaysOut

(* A setting the administrator was told is saved is the one in force, and  *)
(* the one in the file.                                                    *)
SettingKept ==
  promised # -1 => published.setting = promised /\ file.setting = promised

(* As long as operations follow each other, when nothing is under way and  *)
(* the last save did not fail, the table holds exactly the published       *)
(* accounts in their order, and the active one.                            *)
TableCurrent ==
  ~Overlapping /\ Quiet /\ ~unsaved =>
    table = [rows |-> Listing(published, heap), active |-> published.active]

(* No save ever finds an e-mail twice among its accounts: the primary key  *)
(* of the table accounts.                                                  *)
SavesNeverCollide ==
  \A w \in Writers : pc[w] = "table" => Distinct(Listing(cfg[w], heap))

(* Operations that overlap but neither add nor remove accounts spare each  *)
(* other, because they share one array: an edit of an account survives     *)
(* every request that was not already using that account ...               *)
EditsSurvive ==
  \A a \in Accounts \ tainted : Told(a) =>
     Standing(a) = promise[a]
     /\ (promise[a] = "off" => \A cell \in order : cell.key # a)

(* ... and whatever the order of their saves, the table ends with the      *)
(* accounts that are published.                                            *)
RowsCurrent == Quiet /\ ~unsaved => table.rows = Listing(published, heap)

=============================================================================
