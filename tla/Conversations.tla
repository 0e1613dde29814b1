--------------------------- MODULE Conversations ---------------------------
(***************************************************************************)
(* Conversations as the administrator sees them (conversations.go): the    *)
(* bounded list in memory, the snapshots of it in the conversations table, *)
(* and the threads at Notion behind them.                                  *)
(*                                                                         *)
(* A request starts a turn, which creates or continues a conversation,     *)
(* marks it running, and ends by completing or failing it.  Every change   *)
(* is made under the store's lock; the snapshot is read and written to the *)
(* table after the lock has been let go (persistConversationSnapshot), so  *)
(* turns on one conversation, and the goroutine that sends a stream's      *)
(* headers when the model is slow, can overtake each other.  A deletion    *)
(* asks Notion first, then removes the conversation from memory, then its  *)
(* row.                                                                    *)
(*                                                                         *)
(* Of a conversation only its status and whether it has a thread id are    *)
(* kept; text, titles and attachments travel with them.                    *)
(***************************************************************************)
EXTENDS Integers, Sequences, FiniteSets, SequencesExt

CONSTANTS
  Turns,          \* goroutines serving prompts, one turn at a time
  Deleters,       \* admin requests and the cleanup loop that delete
  Conversations,  \* conversation ids
  MaxEntries,     \* maxConversationEntries
  MaxFlushing,    \* bound: header goroutines at work at once
  None            \* no conversation, no entry

Entry == [status : {"running", "ended"}, thread : BOOLEAN]

ASSUME ConversationsAssumption ==
  /\ MaxEntries \in Nat \ {0}
  /\ MaxFlushing \in Nat
  /\ None \notin Conversations \cup Entry
  /\ IsFiniteSet(Conversations)

VARIABLES
  items,        \* ConversationStore.items
  order,        \* ConversationStore.order, the last changed first
  rows,         \* the conversations table
  orphaned,     \* conversations whose thread Notion has deleted; it is not kept for
                \* those that are gone or excused
  pc,           \* where each turn is
  conv,         \* the conversation it works on
  stage,        \* its snapshot: "none", to "read", or to "save"
  snap,         \* the snapshot it has read
  flush,        \* the header goroutine of the turn, likewise, or "spent"
  flushSnap,
  dpc,          \* where each deletion is
  target,       \* the conversation it deletes
  deleted,      \* ghost: conversations whose deletion was acknowledged
  excused,      \* ghost: conversations with two snapshots under way at once,
                \* or whose deletion met a snapshot, a turn, a failure or a
                \* restart half-way; until nothing is left of them and the
                \* id is begun anew
  interrupted   \* ghost: conversations running because a turn was cut off

store == <<items, order>>
turn  == <<pc, conv, stage, snap>>
header == <<flush, flushSnap>>
deletion == <<dpc, target>>
ghost == <<deleted, excused, interrupted>>
vars  == <<store, rows, orphaned, turn, header, deletion, ghost>>

Init ==
  /\ items = [c \in Conversations |-> None] /\ order = <<>>
  /\ rows = [c \in Conversations |-> None]
  /\ orphaned = {}
  /\ pc = [t \in Turns |-> "idle"] /\ conv = [t \in Turns |-> None]
  /\ stage = [t \in Turns |-> "none"] /\ snap = [t \in Turns |-> None]
  /\ flush = [t \in Turns |-> "off"] /\ flushSnap = [t \in Turns |-> None]
  /\ dpc = [d \in Deleters |-> "idle"] /\ target = [d \in Deleters |-> None]
  /\ deleted = {} /\ excused = {} /\ interrupted = {}

----------------------------------------------------------------------------
(* The list in memory.                                                     *)

Present(c) == items[c] # None
Running(c) == Present(c) /\ items[c].status = "running"

\* The loop that leaves an id out; it is in the list at most once.
Without(c) == RemoveFirst(order, c)

MovedToFront(c) == <<c>> \o Without(c)

\* Seeded bug: the list is not trimmed.
KeptAll(listing) == listing

\* trimLocked
Kept(listing) == IF Len(listing) <= MaxEntries THEN listing ELSE SubSeq(listing, 1, MaxEntries)

\* Under the lock: a new state for a conversation, which moves to the front.
Change(c, entry) ==
  /\ items' = [items EXCEPT ![c] = entry]
  /\ order' = MovedToFront(c)

\* Create: the oldest conversations beyond the limit go.
Add(c) ==
  LET listing == Kept(MovedToFront(c))
  IN  /\ order' = listing
      /\ items' = [d \in Conversations |->
                     IF d = c THEN [status |-> "running", thread |-> FALSE]
                     ELSE IF d \in ToSet(listing) THEN items[d] ELSE None]

----------------------------------------------------------------------------
(* Snapshots.                                                              *)

Saving(c) ==
  \E t \in Turns : conv[t] = c /\ (stage[t] = "save" \/ flush[t] = "save")

Excuse(set) ==
  /\ excused' = excused \cup set
  /\ deleted' = deleted \ set

\* What a snapshot of c would overtake.
Overtaken(c) == IF Saving(c) THEN {c} ELSE {}

\* The turn is over when the handler and its header goroutine are.
Settle(t, place, f) ==
  /\ pc' = [pc EXCEPT ![t] = place]
  /\ flush' = [flush EXCEPT ![t] = IF place = "idle" /\ f = "spent" THEN "off" ELSE f]
  /\ conv' = [conv EXCEPT ![t] =
                IF place = "idle" /\ f \in {"off", "spent"} THEN None ELSE @]

Returned(t) == IF pc[t] = "ended" THEN "idle" ELSE pc[t]

\* persistConversationSnapshot, its first half, by the turn ...
Read(t) ==
  /\ stage[t] = "read"
  /\ IF Present(conv[t])
       THEN /\ stage' = [stage EXCEPT ![t] = "save"]
            /\ snap' = [snap EXCEPT ![t] = items[conv[t]]]
            /\ Excuse(Overtaken(conv[t]))
            /\ UNCHANGED <<pc, conv, flush>>
       ELSE /\ stage' = [stage EXCEPT ![t] = "none"]
            /\ Settle(t, Returned(t), flush[t])
            /\ UNCHANGED <<snap, deleted, excused>>
  /\ UNCHANGED <<store, rows, orphaned, flushSnap, deletion, interrupted>>

\* ... and its second half, after which an ended turn returns.
Save(t) ==
  /\ stage[t] = "save"
  /\ rows' = [rows EXCEPT ![conv[t]] = snap[t]]
  /\ stage' = [stage EXCEPT ![t] = "none"]
  /\ snap' = [snap EXCEPT ![t] = None]
  /\ Settle(t, Returned(t), flush[t])
  /\ UNCHANGED <<store, orphaned, flushSnap, deletion, ghost>>

\* The header goroutine, if it is the first to send them: SetEnvelopeIDs, then
\* the two halves.  The first follows at once: had it read a later state, the
\* goroutine might as well have started later.
FlushHeaders(t) ==
  /\ flush[t] = "off" /\ pc[t] \in {"running", "ended"}
  /\ Cardinality({u \in Turns : flush[u] = "save"}) < MaxFlushing
  /\ IF Present(conv[t])
       THEN /\ Change(conv[t], items[conv[t]])
            /\ flush' = [flush EXCEPT ![t] = "save"]
            /\ flushSnap' = [flushSnap EXCEPT ![t] = items[conv[t]]]
            /\ Excuse(Overtaken(conv[t]))
       ELSE /\ flush' = [flush EXCEPT ![t] = "spent"]
            /\ UNCHANGED <<store, flushSnap, deleted, excused>>
  /\ UNCHANGED <<rows, orphaned, turn, deletion, interrupted>>

FlushSave(t) ==
  /\ flush[t] = "save"
  /\ rows' = [rows EXCEPT ![conv[t]] = flushSnap[t]]
  /\ flushSnap' = [flushSnap EXCEPT ![t] = None]
  /\ Settle(t, pc[t], "spent")
  /\ UNCHANGED <<store, orphaned, stage, snap, deletion, ghost>>

----------------------------------------------------------------------------
(* Turns.                                                                  *)

\* The deletions of c that have passed their first check.
BeingDeleted(c) == \E d \in Deleters : target[d] = c

\* The conversation some turn or its header goroutine still works on.
Attended(c) == \E t \in Turns : conv[t] = c

StartOn(t, c) ==
  /\ pc' = [pc EXCEPT ![t] = "running"]
  /\ conv' = [conv EXCEPT ![t] = c]
  /\ stage' = [stage EXCEPT ![t] = "read"]
  /\ interrupted' = (interrupted \ {c}) \cap ToSet(order')
  /\ deleted' = deleted \ {c}
  /\ UNCHANGED <<rows, orphaned, snap, header, deletion>>

\* beginConversation.  An id that is taken is replaced by a random one.
Begin(t, c) ==
  /\ pc[t] = "idle" /\ conv[t] = None
  /\ ~Present(c)
  /\ Add(c)
  /\ StartOn(t, c)
  /\ excused' = IF BeingDeleted(c) THEN excused \cup {c}
                ELSE IF Attended(c) \/ rows[c] # None THEN excused ELSE excused \ {c}

\* resolveContinuationConversation finds a conversation, running or not ...
Resolve(t, c) ==
  /\ pc[t] = "idle" /\ conv[t] = None
  /\ Present(c)
  /\ pc' = [pc EXCEPT ![t] = "resolved"]
  /\ conv' = [conv EXCEPT ![t] = c]
  /\ UNCHANGED <<store, rows, orphaned, stage, snap, header, deletion, ghost>>

\* ... which startConversationTurn continues ...
Continue(t) ==
  /\ pc[t] = "resolved" /\ Present(conv[t])
  /\ Change(conv[t], [items[conv[t]] EXCEPT !.status = "running"])
  /\ StartOn(t, conv[t])
  /\ excused' = IF BeingDeleted(conv[t]) THEN excused \cup {conv[t]} ELSE excused

\* ... unless it has gone meanwhile: then a new one is begun, under the id
\* the client asked for or another one.
BeginInstead(t, c) ==
  /\ pc[t] = "resolved" /\ ~Present(conv[t])
  /\ ~Present(c)
  /\ Add(c)
  /\ StartOn(t, c)
  /\ excused' = IF BeingDeleted(c) THEN excused \cup {c} ELSE excused

\* The turn changes its conversation, if that is still there, and snapshots it.
Update(t, entry) ==
  /\ IF Present(conv[t]) THEN Change(conv[t], entry) ELSE UNCHANGED store
  /\ stage' = [stage EXCEPT ![t] = "read"]

Working(t) == pc[t] = "running" /\ stage[t] = "none"

\* markConversationEnvelope, by the turn itself.
Mark(t) ==
  /\ Working(t) /\ flush[t] = "off"
  /\ Update(t, items[conv[t]])
  /\ flush' = [flush EXCEPT ![t] = "spent"]
  /\ UNCHANGED <<rows, orphaned, pc, conv, snap, flushSnap, deletion, ghost>>

\* pushConversationDelta
PushDelta(t) ==
  /\ Working(t)
  /\ Update(t, [items[conv[t]] EXCEPT !.status = "running"])
  /\ UNCHANGED <<rows, orphaned, pc, conv, snap, header, deletion, ghost>>

\* completeConversation, with the thread id of the result: a partial answer
\* and one of the orchestrator have none.
Complete(t, thread) ==
  /\ Working(t)
  /\ Update(t, [status |-> "ended", thread |-> thread])
  /\ orphaned' = orphaned \ {conv[t]}
  /\ pc' = [pc EXCEPT ![t] = "ended"]
  /\ interrupted' = interrupted \ {conv[t]}
  /\ UNCHANGED <<rows, conv, snap, header, deletion, deleted, excused>>

\* Seeded bug: a failure that is reported to the client only.
FailUnmarked(t) ==
  /\ Working(t)
  /\ Settle(t, "idle", flush[t])
  /\ UNCHANGED <<store, rows, orphaned, stage, snap, flushSnap, deletion, ghost>>

\* Seeded bug: a failure is not snapshotted.
FailUnsaved(t) ==
  /\ Working(t)
  /\ IF Present(conv[t]) THEN Change(conv[t], [items[conv[t]] EXCEPT !.status = "ended"])
     ELSE UNCHANGED store
  /\ interrupted' = interrupted \ {conv[t]}
  /\ Settle(t, "idle", flush[t])
  /\ UNCHANGED <<rows, orphaned, stage, snap, flushSnap, deletion, deleted, excused>>

\* failConversation
Fail(t) ==
  /\ Working(t)
  /\ Update(t, [items[conv[t]] EXCEPT !.status = "ended"])
  /\ pc' = [pc EXCEPT ![t] = "ended"]
  /\ interrupted' = interrupted \ {conv[t]}
  /\ UNCHANGED <<rows, orphaned, conv, snap, header, deletion, deleted, excused>>

\* The handler returns without either: a panic, which ServeHTTP recovers, or
\* a client of the orchestrator that left before the first chunk.
Abandon(t) ==
  /\ Working(t)
  /\ Settle(t, "idle", flush[t])
  /\ interrupted' = IF Running(conv[t]) THEN interrupted \cup {conv[t]} ELSE interrupted
  /\ UNCHANGED <<store, rows, orphaned, stage, snap, flushSnap, deletion, deleted, excused>>

----------------------------------------------------------------------------
(* deleteConversation.                                                     *)

\* The status does not count turns: of two, the first to end ends it.
SharedByRunning(c) ==
  IF ~Running(c) /\ \E t \in Turns : pc[t] = "running" /\ conv[t] = c THEN {c} ELSE {}

\* Seeded bug: the status is looked at only in the end.
LookAnyway(d, c) ==
  /\ dpc[d] = "idle" /\ Present(c)
  /\ dpc' = [dpc EXCEPT ![d] = IF items[c].thread THEN "remote" ELSE "local"]
  /\ target' = [target EXCEPT ![d] = c]
  /\ Excuse(SharedByRunning(c))
  /\ UNCHANGED <<store, rows, orphaned, turn, header, interrupted>>

Look(d, c) ==
  /\ dpc[d] = "idle" /\ Present(c) /\ ~Running(c)
  /\ dpc' = [dpc EXCEPT ![d] = IF items[c].thread THEN "remote" ELSE "local"]
  /\ target' = [target EXCEPT ![d] = c]
  /\ Excuse(SharedByRunning(c))
  /\ UNCHANGED <<store, rows, orphaned, turn, header, interrupted>>

DeleteThread(d) ==
  /\ dpc[d] = "remote"
  /\ orphaned' = IF Present(target[d]) /\ target[d] \notin excused
                 THEN orphaned \cup {target[d]} ELSE orphaned
  /\ dpc' = [dpc EXCEPT ![d] = "local"]
  /\ UNCHANGED <<store, rows, turn, header, target, ghost>>

Return(d) ==
  /\ dpc' = [dpc EXCEPT ![d] = "idle"]
  /\ target' = [target EXCEPT ![d] = None]

\* Notion refuses, or deletes the thread and the answer is lost.
DeleteThreadFails(d) ==
  /\ dpc[d] = "remote"
  /\ Excuse({}) \/ Excuse({target[d]})
  /\ Return(d)
  /\ UNCHANGED <<store, rows, orphaned, turn, header, interrupted>>

\* Seeded bug: the id stays in the list.
RemoveFromItems(d) ==
  /\ dpc[d] = "local" /\ Present(target[d]) /\ ~Running(target[d])
  /\ items' = [items EXCEPT ![target[d]] = None]
  /\ dpc' = [dpc EXCEPT ![d] = "row"]
  /\ UNCHANGED <<order, rows, orphaned, turn, header, target, ghost>>

\* ConversationStore.Delete
RemoveConversation(d) ==
  /\ dpc[d] = "local" /\ Present(target[d]) /\ ~Running(target[d])
  /\ items' = [items EXCEPT ![target[d]] = None]
  /\ order' = Without(target[d])
  /\ orphaned' = orphaned \ {target[d]}
  /\ dpc' = [dpc EXCEPT ![d] = "row"]
  /\ UNCHANGED <<rows, turn, header, target, ghost>>

\* It has gone, or a turn has started on it since.
RemoveRefused(d) ==
  /\ dpc[d] = "local"
  /\ ~Present(target[d]) \/ Running(target[d])
  /\ Excuse(IF Present(target[d]) THEN {} ELSE {target[d]})
  /\ orphaned' = orphaned \ excused'
  /\ Return(d)
  /\ UNCHANGED <<store, rows, turn, header, interrupted>>

\* SQLiteStore.DeleteConversation, and the answer.
DeleteRow(d) ==
  /\ dpc[d] = "row"
  /\ rows' = [rows EXCEPT ![target[d]] = None]
  /\ excused' = excused \cup Overtaken(target[d])
  /\ deleted' = IF Present(target[d]) \/ target[d] \in excused' THEN deleted
                ELSE deleted \cup {target[d]}
  /\ Return(d)
  /\ UNCHANGED <<store, orphaned, turn, header, interrupted>>

\* Seeded bug: the error is logged, the answer says deleted.
DeleteRowIgnored(d) ==
  /\ dpc[d] = "row"
  /\ deleted' = IF Present(target[d]) THEN deleted ELSE deleted \cup {target[d]}
  /\ Return(d)
  /\ UNCHANGED <<store, rows, orphaned, turn, header, excused, interrupted>>

DeleteRowFails(d) ==
  /\ dpc[d] = "row"
  /\ Excuse({target[d]})
  /\ Return(d)
  /\ UNCHANGED <<store, rows, orphaned, turn, header, interrupted>>

----------------------------------------------------------------------------
\* newServerState: LoadConversations reads the rows changed last, up to the
\* limit, in an order left open here.
Restart ==
  /\ \E listing \in SetToAllKPermutations({c \in Conversations : rows[c] # None}) :
       /\ \/ Len(listing) = MaxEntries
          \/ /\ Len(listing) < MaxEntries
             /\ Len(listing) = Cardinality({c \in Conversations : rows[c] # None})
       /\ order' = Kept(listing)
       /\ items' = [c \in Conversations |->
                      IF c \in ToSet(Kept(listing)) THEN rows[c] ELSE None]
  /\ pc' = [t \in Turns |-> "idle"] /\ conv' = [t \in Turns |-> None]
  /\ stage' = [t \in Turns |-> "none"] /\ snap' = [t \in Turns |-> None]
  /\ flush' = [t \in Turns |-> "off"] /\ flushSnap' = [t \in Turns |-> None]
  /\ dpc' = [d \in Deleters |-> "idle"] /\ target' = [d \in Deleters |-> None]
  /\ Excuse({c \in Conversations : BeingDeleted(c)})
  /\ interrupted' = {c \in ToSet(order') : rows[c].status = "running"}
  /\ UNCHANGED <<rows, orphaned>>

TurnStep(t) ==
  \/ Read(t) \/ Save(t) \/ FlushHeaders(t) \/ FlushSave(t)
  \/ \E c \in Conversations : Begin(t, c) \/ Resolve(t, c) \/ BeginInstead(t, c)
  \/ Continue(t) \/ Mark(t) \/ PushDelta(t) \/ Fail(t) \/ Abandon(t)
  \/ \E thread \in BOOLEAN : Complete(t, thread)

DeleterStep(d) ==
  \/ \E c \in Conversations : Look(d, c)
  \/ DeleteThread(d) \/ DeleteThreadFails(d) \/ RemoveConversation(d) \/ RemoveRefused(d)
  \/ DeleteRow(d) \/ DeleteRowFails(d)

Next ==
  \/ \E t \in Turns : TurnStep(t)
  \/ \E d \in Deleters : DeleterStep(d)
  \/ Restart

Spec == Init /\ [][Next]_vars

----------------------------------------------------------------------------
\* Types; the list never exceeds its limit.
Snapshots == Entry \cup {None}

TypeOK ==
  /\ order \in Seq(Conversations) /\ Len(order) <= MaxEntries
  /\ items \in [Conversations -> Snapshots] /\ rows \in [Conversations -> Snapshots]
  /\ orphaned \subseteq Conversations
  /\ pc \in [Turns -> {"idle", "resolved", "running", "ended"}]
  /\ conv \in [Turns -> Conversations \cup {None}]
  /\ stage \in [Turns -> {"none", "read", "save"}] /\ snap \in [Turns -> Snapshots]
  /\ flush \in [Turns -> {"off", "save", "spent"}]
  /\ flushSnap \in [Turns -> Snapshots]
  /\ dpc \in [Deleters -> {"idle", "remote", "local", "row"}]
  /\ target \in [Deleters -> Conversations \cup {None}]
  /\ UNION {deleted, excused, interrupted} \subseteq Conversations

(* The list and the map of the store agree: every conversation is listed   *)
(* once, and nothing else is listed.                                       *)
ListMatchesItems ==
  /\ IsInjective(order)
  /\ ToSet(order) = {c \in Conversations : Present(c)}

WorkedOn(c) == \E t \in Turns : pc[t] # "idle" /\ conv[t] = c

BeingFlushed(c) == \E t \in Turns : conv[t] = c /\ flush[t] = "save"

(* A conversation nobody works on is in the table as it is in memory: each *)
(* change was followed by a snapshot of it, and the last one won, unless   *)
(* two goroutines were saving it at once or a deletion met a turn.         *)
RowsFollow ==
  \A c \in Conversations \ excused :
    Present(c) /\ ~WorkedOn(c) /\ ~BeingFlushed(c) => rows[c] = items[c]

(* A conversation whose deletion was acknowledged comes back neither in    *)
(* memory, where a turn may still be working on it, nor in the table,      *)
(* unless a turn begins it anew or was saving it at that moment.           *)
StaysDeleted ==
  \A c \in deleted : ~Present(c) /\ rows[c] = None

(* A conversation that is kept can be continued: its thread is deleted at  *)
(* Notion only if the conversation goes too, unless its deletion met a     *)
(* turn, a failure or a restart half-way.                                  *)
ThreadsKept ==
  \A c \in Conversations \ excused :
    Present(c) /\ items[c].thread /\ ~BeingDeleted(c) => c \notin orphaned

(* A conversation is running only while a turn works on it, unless its     *)
(* turn was cut off.                                                       *)
TurnsAreEnded ==
  \A c \in Conversations \ interrupted :
    Running(c) => WorkedOn(c)

(* What conversations-panel.tsx shows for a running conversation, that a   *)
(* live stream is in progress.                                             *)
RunningIsLive == \A c \in Conversations : Running(c) => WorkedOn(c)

=============================================================================
