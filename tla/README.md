# Notion2API in TLA+

This directory models the Go service of the repository (`internal/app`,
`internal/orchestrator`): an OpenAI-compatible gateway over Notion AI that serves
prompts from a pool of accounts, keeps conversations and responses, and is
configured through an admin API; and the administration page (`frontend`), the
React client of that API. The modules are checked with TLC on small
instances and, where noted, proved with TLAPS for every value of the constants.
`PROJECT.json` maps every definition to the lines it models, and lists the
hazards the properties are about.

## 1. The system

| component | state | operations | interacts with |
| --- | --- | --- | --- |
| dispatch slots (`main.go`) | atomic map of slot objects, a counter and a maximum each, the in-flight gauge | acquire, release, reload | every prompt; ApplyConfig |
| pool dispatch (`request_dispatch.go`, `account_pool.go`) | per request: candidates, current account, error, emitted text | choose, probe, run, refresh, fail over | slots, configuration store, session refresh, upstream |
| configuration store (`main.go`, `config.go`, `accounts.go`, `sqlite_store.go`) | published `AppConfig`, snapshot bundle, config file, accounts table | SaveAndApply, ApplyConfig, admin edits, restart | every writer of an account |
| response persistence (`response_store.go`, `sqlite_writer.go`) | map with expiry, table, bounded queue | save, get, delete, expire, close | handlers, writer goroutine |
| conversations (`conversations.go`) | list and map in memory, snapshots in a table, threads at Notion | begin, continue, append, complete, fail, delete, load | stream writers, cleanup loop, admin API |
| continuation sessions (`conversation_session.go`) | sessions and steps in two tables | load, save, mark stale | turns, deletion |
| session refresh (`session_refresh.go`) | three files per account, last error, the refresh mutex | refresh active, fall back, periodic loop | configuration store, probe cache |
| probe cache (`request_dispatch.go`) | account key -> time of the last good probe | should probe, mark, invalidate | pool dispatch, session refresh |
| Notion client (`notion_client.go`, transports) | one run: reader, text so far | build a transcript, stream patches, delete a thread | pool dispatch |
| OpenAI handlers and stream writers (`openai.go`, `main.go`) | headers sent, text emitted | translate, stream, finish | pool dispatch, conversations, responses |
| SillyTavern bindings (`sillytavern.go`) | table of bindings | bind, look up | conversations |
| reasoning orchestrator (`internal/orchestrator`, `orchestrator_chat.go`) | breakers, caches, tool registry, all made anew for each request | route, run tools, executor, reasoner | pool dispatch |
| admin authentication (`admin.go`) | login attempts and locks, tokens | log in, check, log out | every admin handler |
| login helper (`login_helper.go`) | status files, a browser process | start, poll, verify | configuration store |
| metrics (`metrics.go`) | counters and gauges | observe | all |
| accent theme (`theme-provider.tsx`) | React state per tab, one entry of localStorage | open, pick, hear of another tab | the other tabs, by storage events |
| console state (`use-admin-console.ts`, `conversations-panel.tsx`) | session, payloads, list, cached details, selection, event stream | log in and out, refresh, list, read, delete, hear of events | admin API, all panels |
| tester panel (`tester-panel.tsx`) | switch, conversation id, draft, the run under way | edit, run, remember the id answered with | console state, `/admin/test` |
| settings panel (`settings-panel.tsx`) | a form of 45 settings | edit, apply a strategy, save, import | console state, configuration store |
| accounts panel (`accounts-panel.tsx`) | scheduling forms, selections, import form | edit, save, log in, verify, import, activate, delete, test | console state, account handlers |

How they work together: an API request resolves a conversation, starts a turn and
asks the pool for an answer. The pool reads a snapshot of the configuration, takes a
slot of an account, runs the prompt upstream and streams deltas back; the turn
appends them to its conversation. At the end the pool writes the account's new
standing back through the configuration store, the handler completes the
conversation and hands the response to the writer goroutine. The page calls the admin
API in chains (a request, then reloading what it may have changed) and hears of
conversations over an event stream. Administrators change
the configuration and delete conversations at any moment; a cleanup loop deletes
expired conversations, a refresh loop renews sessions.

What is hard, component by component, and what makes it correct:

* **Slots**: compare-and-swap loops race with a reload that rewrites maxima, clamps
  counters and swaps the map. Correct: capacity is never lost, admission is bounded.
* **Pool dispatch**: six ways out of a try, a second run after a refresh, and
  contexts that end anywhere. Correct: every slot given back once, one voice per
  answer, no aborted request blamed on an account, every request answered.
* **Configuration store**: every writer saves the whole configuration it read at the
  start, over a slice whose array all copies share. Correct: what an administrator was
  told stays true.
* **Response persistence**: operations leave the mutex before they reach the queue;
  the queue is bounded and `Close` needs a lock that a blocked sender holds. Correct:
  what a client was told can be read, what was deleted stays away, everything ends.
* **Conversations**: snapshots are read and written outside the lock, and a deletion
  asks Notion between its check and its effect. Correct: the list, the table and the
  threads agree; every turn is ended.
* **The page**: every `await` lets other handlers run; a handler keeps the values of the
  render it was made in, replies and events overtake each other, effects overwrite
  state that was edited meanwhile. Correct: it shows what the service has, sends what
  the administrator changed and nothing else, and forgets a session that ended.
* **Planned components**: stale probes after a refresh, two refreshes of one account
  over the same files, failed logins counted and locked under concurrency, header and
  finish events of a stream exactly once, sessions that outlive their conversation.

## 2. Modules

Each module is a component; `MC*` modules give TLC its instances.

### AccountSemaphore and DispatchSlots

`AccountSemaphore` is the abstract specification: requests enter an account while
fewer than its limit are inside; `Withdraw` gives the promise up for accounts whose
slots the administrator overrides. `DispatchSlots` is the code: a request looks its
slot up (`LookUp`), reads the maximum (`ReadMax`), is rejected or admitted by a CAS
(`Reject`, `Admit`), sets the gauge (`GaugeUp`), and on release looks the slot up
*again* by e-mail (`Finish`), decrements (`GiveBack`) and sets the gauge
(`GaugeDown`); `Panic` leaves without releasing. `ApplyConfig` is `StartApply`, then
per account `KeepSlot`/`Clamp` or `AddSlot`, then `Publish` and `SyncGauge`. A CAS loop is
one step, at its successful iteration; the loads before it are steps of their own.

The refinement mapping: `limit` is the largest maximum an account has had
(`highWater`) and `holders` the requests counted on it, nobody once the account is
`disturbed` (clamped below its load, or removed). `SemaphoreSpec` is checked by TLC
and proved.

### PoolDispatch

One prompt from `BeginPool` (or `BeginPrimary` when no account is configured) to its
answer. The slots appear as `INSTANCE AccountSemaphore`, so the module composes with
`DispatchSlots` through the abstraction proved there. External calls may succeed,
fail with an authentication error, fail otherwise, or report an abort. The two
versions of the function in the code (with `onDelta` and with a sink) have the same
control and are one model.

### ConfigStore

Slices are modelled as the runtime has them: a header `[arr, len]` over an array of
cells that other headers may share, with a capacity; `Upsert` overwrites, appends in
place or grows into a new array. `Take` is `Snapshot()`, after which an operation works on
its own header; `SaveFile`, `Apply`, `SaveTable`, `Reorder` are the steps of `SaveAndApply`,
each of which may fail. `promise` records what the administrator was last told of an
account; a restart that takes an account from the config file although it was told to
be removed makes that `"revived"`, of which nothing is promised (section 6). `Bootstrap`
says which lists the file may hold at first. `mode` is chosen at the start and never changes: "serial" has one operation at
a time, with additions, removals, failures and restarts; "shared" lets operations
overlap over a set of accounts that stays the same. Properties that only hold in turn
say so (`~Overlapping`).

### ResponsePersistence

The map, the table, the queue, the handlers blocked on it, the writer goroutine and
`Close`. `Enqueue` is `tryEnqueue`, `FallBack` a save whose caller writes the table
itself, `Wait`/`Resume` `enqueueBlocking`. Instants are a bounded clock; expiry is
compared with the lifetime in force.

### Conversations

`Begin`, `Resolve`/`Continue`, `Mark`, `PushDelta`, `Complete`, `Fail` are changes
under the store's lock, each followed by `Read` and `Save`, the two halves of
`persistConversationSnapshot`. `FlushHeaders`/`FlushSave` is the goroutine that sends
a stream's headers when the model is slow. A deletion is `Look`, `DeleteThread`,
`RemoveConversation`, `DeleteRow`, each of which can be refused or fail. `Abandon` is a
handler that returns without ending its turn. `Without` is the loop that leaves an id out
of the list, in `moveToFrontLocked` and in `Delete`. Statuses "completed" and "failed" are
one, since nothing modelled tells them apart.

### The page: AdminPage and its parts

`renderActivePanel` mounts one panel at a time, so `AdminPage` extends the five modules
below and a behaviour follows one of them (`activeTab`). The service appears in each as
far as the panel can tell: what a handler reads and changes, and who else changes it.
A handler runs to its next `await` in one step, together with the render and the
effects it causes; a request is a step that sends it, one on the service, and one in
which the reply is shown, so that anything may happen in between.

* **AccentTheme**. `Open` is the mount with both layout effects, in which the default is
  written for an instant; `Listen` the listener installed after the paint; `Receive`
  renders waiting storage events and writes the colour back; `Pick` is a click, which may
  rebase events under it. `missed` (a ghost) holds the tabs that were deaf when the
  stored colour last changed.
* **AdminConsole**. A conversation is the stamp of its last change. `calls` are the chains
  of `refreshAll`, `login`, `logout`, lists, details and deletions; `Publish` is a change
  announced by `broadcast`, which may drop the event; `StreamBreaks` a reconnection or,
  without a session, the end of the `EventSource`. `Settle` is the render after a list
  changed: a selection that is gone gives way to the first conversation. `behind` and
  `unsure` (ghosts) are the conversations of which the list and the cache may be wrong:
  an event was lost, nobody told of a deletion, or a reply was overtaken. A list or
  detail read in order clears them.
* **TesterPanel**. `ClickRun` fixes the values of the render, `SendRun` follows the
  attachments, `ServeRun` is `handleAdminTest`, and only `RunEnds`, after the list was
  reloaded, remembers the id answered with.
* **SettingsForm**. `buildFormState`, `nextConfig`, `merged` and `normalized` are the four
  conversions between configuration and form, per field and over abstract values
  (empty, blank, default, a number, ...). `ServeSettings` is the `PUT`, `ShowConfig` the
  refresh that fills the form again, `OthersWrite` another writer.
* **AccountsPanel**. A chain is the request of a button, the list read after it, and the
  end that moves the selection. `Key` gives addresses their canonical form, so that two
  spellings of one account occur. `ResetForms` is the effect on every new list.

## 3. What TLC checks

| run | question | bounds | result |
| --- | --- | --- | --- |
| `slots` | do counters, maxima and map stay consistent across reloads, and do they implement the semaphore? | 3 requests, 1 account, 2 slot objects, maxima 0..2 | passes |
| `pool` | is a slot held exactly while an account is tried, one run heard, nobody blamed for an abort, everybody asked? | 2 requests, 2 accounts of capacity 1 | passes |
| `pool_live` | is every request answered? | 2 requests, 1 account | passes |
| `store` | in turn: does what the administrator was told hold, over failures and restarts? overlapping, over a fixed set of accounts: do edits survive? | 2 accounts, one or both in the config file, 1 dispatcher, arrays of 2, 2 settings | passes |
| `store_disabled` | does a disabled account stay out of dispatching when operations overlap? | the same | **violated** |
| `responses` | readable until deleted or expired; deleted stays deleted; table follows map | 2 handlers, 2 responses, queue of 1, clock 0..2, lifetimes 0 and 1 | passes |
| `responses_end` | do hand-overs and Close end? | the same, clock stopped | passes |
| `responses_crash` | readable although the process may end without Close? | the same, crashes allowed | **violated** |
| `conversations` | do list, map, rows and threads agree, is every turn ended? | 2 turns, 1 deletion, 2 conversations, list of 1, restarts | passes |
| `conversations_running` | does "running" mean that a turn is under way? | the same | **violated** |
| `page` | does the page show what the service has, send only what was edited, and forget a session? | see below | passes |
| `page_import` | does a typed field of the import take precedence over the probe? | the accounts panel's import form | **violated** |

**Why the bounds are enough.** Three requests on one account are one more than the
largest maximum, so rejections, over-full accounts after a lowered maximum, and a
third request between the two steps of another all occur; two slot objects allow
removal and re-creation while the old object is in use. Two requests with accounts
of capacity one make each find the other's slot busy, also between a refresh and
the second run. Two accounts are the least for which a removal shifts a neighbour
in the shared array. A queue of one is full as soon as one operation waits, so
falling back and blocking happen at once; one more instant than the lifetimes lets a
response be at, and past, its last instant. A list of one with two conversations
trims at every other `Begin`; two turns, of which one header goroutine at a time
(`MaxFlushing`), give every pair of snapshots that can overtake each other.

The run `page` has two tabs and three colours (the default, and one for each tab to
pick), two events waiting; two conversations, two changes, two calls at once and three
clicks, so that any reply can be overtaken by an event, a logout or another reply;
three conversation ids, so that one typed, one generated and one made by the service
are different; twelve sets of settings, one changed in a behaviour, each standing for
a way a field is converted (a number that must be positive, one that may be omitted, a
secret, a prefix, a flag with a fall-back, a pair that forces another, ...), while all other fields
are carried along and checked; and three addresses of which two are one account, with
two chains, or one and a change by another administrator. The bounds are `MaxEvents`,
`MaxStamp`, `MaxCalls`, `MaxClicks`, `Focuses`, `MaxOutside`, `AccountFocuses`, `MaxChains`,
`MaxRequests`, and `Tabs`, which names the parts followed. The page stops when its
clicks are used up, so deadlock is not checked there.

Requests, accounts and the like are interchangeable, so the runs use symmetry where no
liveness is checked. The bounds of the service are named constants: `MaxLimit`,
`SlotIds`, `MaxLen`, `Arrays`, `MaxClock`, `MaxFlushing`. Deadlock is checked in every
run of the service.

**Ghosts and excuses.** Where the code does not promise a thing, the state records
what happened and the property leaves it out: accounts `disturbed` by the
administrator, `tainted` by a request already using them, `"revived"` from the config file, responses `raced`,
conversations `excused`; of the page, tabs that `missed` a change, conversations `behind`
or `unsure`, a reply shown `late`, account chains `disturbed` by another. Section 6 says what happens to those.

**Fairness.** `pool_live`: a request's own steps are weakly fair because its goroutine
runs on; its context ends because `context.WithTimeout` bounds it; a call made with
an ended context returns. No fairness is put on upstream answers, on other requests
starting, or on any particular outcome. `responses_end`: handlers, the writer goroutine
and `Close` are weakly fair goroutines; nobody has to send another request, to close
or to restart.

## 4. What is proved

`DispatchSlotsProofs`, for every finite set of requests, every set of accounts and
slot objects and every maximum (`SlotsAssumption`):

* `TypeCorrect`: `TypeOK` always holds; in particular no counter goes below zero.
* `CapacityIsNotLost`: the counter of a published slot never exceeds the requests
  counted on it.
* `CounterIsExact`: for an account never disturbed it equals the requests inside.
* `AdmissionIsBounded`: those never exceed the largest maximum the account has had.
* `SlotsImplementSemaphore`: `DispatchSlots` implements `AccountSemaphore`.

None of these is inductive by itself. The inductive invariant `IInv` adds who owns
which slot object. `MapOwned` and `NextOwned`: no object is published, or about to
be, for two accounts, and a fresh one is known to nobody. `RequestOwned`: a request
that has loaded the published slot of an account is a request of that account, and
is counted on the object it loaded. `OneObject`: an account that was never disturbed
has had one object. `Balanced` and `Bounded` then relate counters, requests and
maxima. Without `OneObject` a release could decrement an object on which another
request is counted, which is what does happen after a removal. There is a lemma for each
action; the refinement uses `IInv` to show that `Admit` enters below the limit,
that releases leave, that a reload only raises limits or withdraws, and that all
else stutters.

`PoolDispatchProofs`, for all requests, accounts and capacities, with and without session
refresh: all safety properties of the run `pool`.

* `PoolTypeCorrect` and `SlotsFollowTries`: a request is inside an account exactly from
  taking the slot to giving it back, on each of the six ways out. So the guards of
  `Enter` and `Leave` in the abstraction, which the code does not have, never hold a
  request up: it never enters twice and never leaves what it has not entered.
* `ClientHearsOneVoice`, `AbortsAreBlameless`, `FailureMeansExhausted`, `RunsAreBounded`.

The inductive invariant says what each place of the handler stands for. `Settled` and
`AccountOpen`: between tries a request has neither account nor second run, and the
account being tried is a candidate not yet closed. `ErrorKnown`: no place after a
failure is reached without an error to report. `Silent`: wherever another run may still
follow, no text has been emitted; this is what makes one voice inductive, since `OneVoice`
alone does not exclude a fail-over after the first word. `RunsCounted` charges each closed
account two runs, and the one under way what it has used so far (`Extra`).

`ResponsePersistenceProofs`, for all handlers, responses, conversations, queue sizes and
lifetimes: `PersistenceTypeCorrect` and `TableFollows` whether or not the process may end
without `Close`, and `ResponsesReadable` and `DeletedStayDeleted` when it may not
(`~Crashes`; the run `responses_crash` shows why this is needed). The invariant follows
the operations between map and table. Where map and table disagree, an operation that
reconciles them is with a handler, in the queue or with the writer (`Arriving`, `Gone`);
where they agree, whatever is on its way and would undo it is followed by one that
restores it (`Undeleted`, `SaveFollows`, `DeleteFollows`), which needs the order in the
queue and that a blocked sender can only be a delete (`HandlersShape`). It is assumed that
`NoOp` is no operation.

`ConfigStoreProofs`, for all dispatchers, accounts, settings, arrays and lengths
(`StoreAssumption`: settings are numbered from 0; a list in the config file names no account
twice, as the primary key would refuse it): all safety properties of the run `store`. The
invariant has three layers.

* `Shape`: in turn, an operation sees what is published until it changes its copy (`Alone`);
  overlapping, all share one array (`Slices`); the published list names nobody twice but
  while a deletion has shifted the shared cells and not yet published the shorter list
  (`PublishedSlice`: its last cell then repeats the one before). From it `StoreTypeCorrect`
  and `SavesAlwaysDistinct`.
* `SettingEverywhere` and `TableFollows` give `SettingsAreKept`, `TableIsCurrent` and
  `RowsAreCurrent`: a failed save leaves the old setting published or the new one in
  neither place, and the table is behind only where `unsaved` says so.
* `Truthful` gives `PromisesAreKept`, `DisabledStayOutInTurn` and `EditsAlwaysSurvive`: what the
  administrator was told of an account is true of the published cells, the table, the
  dispatch order, every copy under way and the value of every request at work
  (`Everywhere`), and what a request is to achieve is true of its own copy (`OnItsWay`). None of
  these places can be left out: each is written back into the others by some step.

`ConversationsProofs`, for all turns, deletions and conversations, every limit of the list
and every number of header goroutines (`ConversationsAssumption`: the limit is positive, the
conversations are finitely many): all safety properties of the run `conversations`.

* `ConversationsTypeCorrect` and `ListAlwaysMatches` rest on what `Without`, `MovedToFront`
  and `Kept` do to a list without repetitions, proved as lemmas about sequences.
* `TurnsAlwaysEnd`: `TurnsEnd` says of a running conversation that a turn which will still
  end it works on it; `TurnsAreEnded` alone also allows one that has just ended.
* `DeletedStaysAway`: of a deleted conversation no snapshot is under way either (`Gone`).
* `RowsAlwaysFollow`: `Followed` says that what is in memory is in the table, or somebody will
  still read it, or all who have read it read what it is now.
* `ThreadsAlwaysKept`: a thread Notion has deleted is that of a conversation whose deletion
  removes it next, or is old: the id was begun anew after nothing was left of it, and no
  snapshot, row or entry has a thread (`GoesNext`, `Threadless`). The removal next cannot be
  refused, because a deletion that met no turn finds none running (`Undisturbed`).

`AccentThemeProofs`, for every set of tabs, colours and number of events: `ThemeTypeCorrect`,
`LastEventAlwaysTells` and, from it, `TabsAlwaysAgree`. `TabsAgree` speaks of empty queues
only and says nothing of the step that empties one; `LastEventTells` is the inductive
reason: a write is announced to every other tab that listens, and a write that announces
nothing changes nothing, so the last event of a tab that shows something else is the
stored colour, provided it was told at all (`missed`). The tasks that write twice (a mount)
rest on `OpenTells`: what they announce ends with what they leave stored.

`SettingsFormProofs` has no theorem of its own; it says, for any settings changed and any
number of writes by others, what `buildFormState`, `nextConfig`, `merged` and `normalized`
make of a field of each kind (`SavedKeeps`, `ServedKeeps`), and gives the invariant
`SettingsInv` the page rests on: the service holds a normalised configuration, the form shows
the page's copy of one where it was not edited (`FormInv`), a request under way carries the
form of its click (`SentFrom`), and what it saved alone is what is read back (`Reflects`).
`SettingsAssumption` asks that the sets of settings to change name settings.

`AdminPageProofs` is about the composed page, for any tabs, colours, conversations, ids and
addresses, and whatever the bounds: everything the run `page` checks.

* `PageTypeCorrect`: `TypeOK`; the panel in front has its type, the others no state. For the
  accounts that needs what the operators on the pool return (`AccountStored`,
  `AccountRemoved`, `SettingsStored`), and that the chains are finitely many.
* `PageTabsAgree`: the theme's result holds in the page, whose other parts leave it alone.
* `PageIsCurrent`: `ViewIsCurrent` says nothing while an event is on its way, nor of replies.
  `ViewInv` does: where the page is not `behind`, it shows what the service has or the last
  event on its way will (`Agrees`), and a reply agrees in the same sense on what it is sure
  of, so that one which is shown late takes nothing back. Each step is `Quiet` except for the
  conversations it names, of which it says what is then shown (`ViewKept`).
* `PageIsCleared`: a page signed out has no stream and, until a late reply, no data. The
  property is inductive because its first part empties `sse` with the stream: no event
  is left that could refill the page.
* `PageReusesOne`: `FieldShowsLast` says that the field shows the id of the latest run while
  nobody has changed it, and that a run under way carries the field of its click.
* `PageSavesOnlyEditedRows`: `UntouchedShowList` says that a form not edited since the last
  list equals that list's row; a save is then the only chain whose request carries a row.
* `PageEndsOnItsAccount`: `EndsInv` says that a chain nothing crossed is the only one, and that
  its account is in the pool once it was served, in the list it has read, and in the list
  shown. What `UpsertAccount` leaves in the list needs the types of `AccountsOK`.
* `PageSavesOnlyEdits` and `PageShowsSaved`, from `SettingsInv`.

**Only model-checked**: liveness (`pool_live`, `responses_end`), since fairness and ENABLED
are out of the prover's reach. Every other property of a passing run is a theorem. What a
recursive definition computes for every input would need induction over data, which the
prover cannot instantiate; the proofs above need none. `AccountSemaphore`'s own
specification is not the subject of a theorem.

## 5. Findings

Each is a run of its own, expected to fail, with a counterexample TLC prints.

1. `store_disabled`. A request works with a copy of its account. An administrator
   disables the account, the request ends, `applyAccountUpdate` writes the whole old
   copy back and the account is dispatched to again, although the switch says it takes
   no part in dispatching.
2. `responses_crash`. Nothing in `Main` calls `ServerState.Close`, so what the writer's
   queue holds when the process ends is lost, although clients were given the ids and
   the switch promises they survive a restart.
3. `conversations_running`. A conversation whose turn is cut off (a restart, a
   recovered panic, an orchestrator request whose configuration is refused or whose
   client leaves before the first chunk) is running for good: shown as a live
   stream, never deletable, never cleaned up.

4. `page_import`. The page says that fields filled in the import form take precedence and
   the probe JSON only fills in those left empty; the effect on the probe's text
   overwrites them.

## 6. Divergences without a run of their own

These were met while modelling; the ghosts above set them aside.

* Under overlapping saves the last writer wins: a setting just saved is undone by a
  request that began earlier (`SettingKept` fails once `ChangeSetting` loses its `~Overlapping`).
* `DeleteAccount` shifts the shared array in place. A writer that still holds the longer
  header then has an e-mail twice, and its save fails on the primary key
  (`SavesNeverCollide` fails once operations that overlap may also remove accounts).
* Deleting the last account empties the table, and a restart that finds the table empty
  takes the accounts of the config file (`main.go:405-420`, `449`). A save leaves accounts out
  of what it compares the file with (`configForFilePersistence`, `config.go:784-796`), so a file
  that lists them is not rewritten for their sake: an account the page said was deleted
  (`accounts-panel.tsx:385`) can come back (`"revived"`).
* The gauge is set after the CAS, so two requests can report in the opposite order;
  it is right again at the next reload or request.
* After an account is removed and re-added, a late release decrements the new object:
  more requests than the maximum can be inside (`disturbed`).
* A save that finds the queue full overtakes a delete that is still queued, and a save
  and a delete can reach the queue in the opposite of their order in the map
  (`raced`).
* Completing a turn overwrites the thread id with that of the result, which is empty
  for a partial answer and for the orchestrator: deleting the conversation then
  leaves its thread at Notion.
* A snapshot read before a deletion and written after it brings the row back at the
  next restart; a status does not count turns, so of two turns on a conversation the
  first to end makes it deletable under the second (`excused`).
* Two tabs in which colours are picked at the same moment can go on announcing to each
  other what the other has just given up: each writes back what it hears.
* Prompt settings that are empty or zero are dropped from the JSON the page reads, which
  shows defaults and writes them with the next save of anything; an alias deleted in
  the form is merged back by the service. `SavesOnlyEdits` and `SavedIsShown` except both.
* A prefix of blanks only is sent as typed, but the service trims it
  (`config.go:562`, `575-576`), so the form then shows it empty, or its default. The proof of
  `SavedIsShown` met this; the property excepts it.
* Edits typed while a save, an import or an account chain is under way are lost when its
  refresh fills the forms again.
* Every event on conversations is heard but no deletion is; a late event brings a
  conversation back into the list until the next refresh (`behind`).
* A batch deletion is reported as a success whatever part of it failed.
* An `EventSource` the service refused stays closed: the page keeps it, and opens no other
  until it has learned that it is signed out.
* After the code of a login, the selection is the address as typed, which the list may
  spell differently: no account's details are shown until one is clicked.

## 7. Not modelled, and why

Transports, payload building and the translation of OpenAI formats are data with no
state to interleave. The proxy policy is a pure choice. The orchestrator's breakers and response cache are created for each
request, so in this program they meet no concurrency; its router is a text
classifier. The login helper drives an external browser.

Of the page: the dashboard, the list of models, the sidebar and the components under
`components/ui` render what they are given. Snapshots, exports, copying and the test run
of a prompt strategy change no state another part reads. In the conversations panel
the account filter, and in the accounts panel the e-mail fields, are inputs whose value
the models leave open. What a summary or a message looks like after merging
(`mergeConversationSummaryState`, `mergeConversationMessages`) is data; a conversation is
its stamp.

## 8. Plan

Done, in order: DispatchSlots with its abstraction and proofs; PoolDispatch over the
abstraction; ConfigStore; ResponsePersistence; Conversations; AccentTheme, AdminConsole,
TesterPanel, SettingsForm and AccountsPanel, composed in AdminPage, with the proofs of all
their safety and action properties.

Next, in order:

1. **SessionRefresh**: `RefreshSession` under its mutex, `tryRefreshAccount` by requests
   without it, the three files of an account, the fall-back over accounts, and the
   probe cache with probes in flight across an invalidation. Properties: a success
   means the active account is the refreshed one; no account is left half-written;
   a cached probe is one of the session in force.
2. **StreamWriter**: the live writers of chat completions and responses, their header
   goroutine, heartbeats and deltas. Properties: headers first and once, one end,
   the text sent is the text of the result.
3. **AdminAuth**: attempts, lock, tokens. Property: never more than the allowed failures
   between successes within the window, against concurrent logins.
4. **ContinuationSessions** on top of Conversations: one active session per
   conversation, none after deletion; SillyTavern bindings likewise.
5. **Tools**: `RunParallel`'s semaphore, prefetch and the tool cache of the orchestrator.
6. **DispatchOrder**: candidate order, cooldowns and fall-back as operators against a
   reference definition.
7. **UpstreamReader**: the patch reader of the Notion client.
