------------------------ MODULE ResponsePersistence ------------------------
(***************************************************************************)
(* Responses kept for GET /v1/responses/{id}: the map in memory with its   *)
(* time to live (response_store.go, under ServerState.mu), the responses   *)
(* table, and the writer goroutine between them with its bounded queue     *)
(* (sqlite_writer.go).                                                     *)
(*                                                                         *)
(* A handler changes the map under the mutex and hands the operation to    *)
(* the writer after it has let go of the mutex.  A save that finds the     *)
(* queue full writes to the table itself; a delete waits for room, holding *)
(* the read half of the writer's lock, whose write half Close needs.       *)
(***************************************************************************)
EXTENDS Integers, Sequences, FiniteSets

CONSTANTS
  Handlers,       \* goroutines that serve requests or delete conversations
  Responses,      \* response ids, each saved once
  Conversations,
  Of,             \* the conversation (or thread) of each response
  QueueSize,      \* defaultSQLiteWriterQueueSize
  TTLs,           \* response lifetimes an administrator sets
  FirstTTL,
  MaxClock,       \* the last instant of a run (a bound)
  Crashes,        \* may the process end without Close?
  Never, NoOp

ASSUME PersistenceAssumption ==
  /\ Of \in [Responses -> Conversations]
  /\ QueueSize \in Nat \ {0}
  /\ TTLs \subseteq Nat /\ FirstTTL \in TTLs
  /\ MaxClock \in Nat
  /\ Crashes \in BOOLEAN
  /\ Never \notin Nat

VARIABLES
  memory,    \* responseStore.items: when each response was created
  table,     \* the responses table, likewise
  queue,     \* SQLiteWriter.queue
  waiting,   \* the handlers blocked on sending to it, in order
  writer,    \* the writer goroutine: the operation it applies, if any
  pc,        \* where each handler is
  op,        \* the operation it is persisting
  closing,   \* Close: "no", "locking", "draining", "closed"
  ttl,       \* responseStore.ttl
  writerTTL, \* SQLiteWriter.ttlNanos (and the configured value)
  clock,
  saved,     \* ghost: responses that have been created
  known,     \* ghost: responses whose id was handed to a client
  deleted,   \* ghost: responses that were deleted
  lapsed,    \* ghost: responses that have outlived a lifetime in force
  raced      \* ghost: responses saved while their conversation was deleted,
             \* or whose save and deletion overtook each other, or whose
             \* operation came too late for Close

channel == <<queue, waiting>>
ghost == <<saved, known, deleted, lapsed, raced>>
times == <<ttl, writerTTL, clock>>
vars  == <<memory, table, channel, writer, pc, op, closing, times, ghost>>

SaveOp(r) == [kind |-> "save", subject |-> r, at |-> clock]
DeleteOp(c) == [kind |-> "delete", subject |-> c, at |-> clock]

Ops == [kind : {"save"}, subject : Responses, at : 0..MaxClock]
       \cup [kind : {"delete"}, subject : Conversations, at : 0..MaxClock]

SweepOp == [kind |-> "sweep"]

ASSUME NoOpAssumption == NoOp \notin Ops \cup {SweepOp}

Outlived(at, life) == at # Never /\ clock - at > life

Init ==
  /\ memory = [r \in Responses |-> Never]
  /\ table = [r \in Responses |-> Never]
  /\ queue = <<>> /\ waiting = <<>>
  /\ writer = NoOp
  /\ pc = [h \in Handlers |-> "idle"]
  /\ op = [h \in Handlers |-> NoOp]
  /\ closing = "no"
  /\ ttl = FirstTTL /\ writerTTL = FirstTTL
  /\ clock = 0
  /\ saved = {} /\ known = {} /\ deleted = {} /\ lapsed = {} /\ raced = {}

Goto(h, place) == pc' = [pc EXCEPT ![h] = place]

----------------------------------------------------------------------------
(* The map in memory.                                                      *)

\* pruneExpired
Pruned == [r \in Responses |-> IF Outlived(memory[r], ttl) THEN Never ELSE memory[r]]

Prune ==
  /\ memory' = Pruned /\ memory' # memory
  /\ UNCHANGED <<table, channel, writer, pc, op, closing, times, ghost>>

Deleting(c) == \E h \in Handlers : op[h] # NoOp /\ op[h].kind = "delete" /\ op[h].subject = c
Saving(r) == \E h \in Handlers : op[h] # NoOp /\ op[h].kind = "save" /\ op[h].subject = r

\* saveResponseWithAccount, up to the unlock.
Save(h, r) ==
  /\ pc[h] = "idle" /\ r \notin saved
  /\ memory' = [Pruned EXCEPT ![r] = clock]
  /\ op' = [op EXCEPT ![h] = SaveOp(r)]
  /\ Goto(h, "enqueue")
  /\ saved' = saved \cup {r}
  /\ raced' = IF Deleting(Of[r]) THEN raced \cup {r} ELSE raced
  /\ UNCHANGED <<table, channel, writer, closing, times, known, deleted, lapsed>>

\* deleteResponsesByConversationOrThread, up to the unlock.
Delete(h, c) ==
  /\ pc[h] = "idle"
  /\ memory' = [r \in Responses |-> IF Of[r] = c THEN Never ELSE memory[r]]
  /\ op' = [op EXCEPT ![h] = DeleteOp(c)]
  /\ Goto(h, "enqueue")
  /\ raced' = raced \cup {r \in Responses : Of[r] = c /\ Saving(r)}
  /\ deleted' = deleted \cup {r \in saved : Of[r] = c}
  /\ UNCHANGED <<table, channel, writer, closing, times, saved, known, lapsed>>

----------------------------------------------------------------------------
(* Handing an operation to the writer.                                     *)

\* A reader enters the lock unless Close has it or is waiting for it.
MayRead == closing # "locking"
Closed == closing \in {"draining", "closed"}

\* The operation is in the writer's hands, or done: the caller is answered.
Done(h) ==
  /\ Goto(h, "idle")
  /\ op' = [op EXCEPT ![h] = NoOp]
  /\ known' = IF op[h].kind = "save" THEN known \cup {op[h].subject} ELSE known

\* Seeded bug: the channel's bound is not looked at.
EnqueueAnyway(h) ==
  /\ pc[h] = "enqueue" /\ MayRead /\ ~Closed
  /\ queue' = Append(queue, op[h])
  /\ Done(h)
  /\ UNCHANGED <<memory, table, waiting, writer, closing, times, saved, deleted, lapsed,
                 raced>>

Enqueue(h) ==
  /\ pc[h] = "enqueue" /\ MayRead /\ ~Closed
  /\ Len(queue) < QueueSize
  /\ queue' = Append(queue, op[h])
  /\ Done(h)
  /\ UNCHANGED <<memory, table, waiting, writer, closing, times, saved, deleted, lapsed,
                 raced>>

\* Operations that have not reached the table yet.
Underway ==
  {queue[i] : i \in 1..Len(queue)} \cup ({writer} \cap Ops)
  \cup {op[h] : h \in {g \in Handlers : op[g] # NoOp}}

\* The responses on which an operation may overtake one of the other kind.
Crossed(o) ==
  {r \in Responses : \E p \in Underway :
     p.kind # o.kind /\ {o.subject, p.subject} = {r, Of[r]}}

\* tryEnqueue fails on a full queue, and any hand-over on a closed one.  The
\* operation may thereby overtake others that are still queued.
FallBack(h) ==
  /\ pc[h] = "enqueue" /\ MayRead
  /\ Closed \/ (op[h].kind = "save" /\ Len(queue) = QueueSize)
  /\ Goto(h, "apply")
  /\ raced' = raced \cup Crossed(op[h])
  /\ UNCHANGED <<memory, table, channel, writer, op, closing, times, saved, known,
                 deleted, lapsed>>

\* Seeded bug: a delete that finds the queue full is dropped.
WaitNot(h) ==
  /\ pc[h] = "enqueue" /\ MayRead /\ ~Closed
  /\ op[h].kind = "delete" /\ Len(queue) = QueueSize
  /\ Done(h)
  /\ UNCHANGED <<memory, table, channel, writer, closing, times, saved, deleted, lapsed, raced>>

\* enqueueBlocking on a full queue: the lock stays read-locked.
Wait(h) ==
  /\ pc[h] = "enqueue" /\ MayRead /\ ~Closed
  /\ op[h].kind = "delete" /\ Len(queue) = QueueSize
  /\ Goto(h, "blocked")
  /\ waiting' = Append(waiting, h)
  /\ UNCHANGED <<memory, table, queue, writer, op, closing, times, ghost>>

\* The operation has been received by the channel: the lock is released.
Resume(h) ==
  /\ pc[h] = "sent"
  /\ Done(h)
  /\ UNCHANGED <<memory, table, channel, writer, closing, times, saved, deleted, lapsed,
                 raced>>

----------------------------------------------------------------------------
(* The table.                                                              *)

After(o) ==
  IF o.kind = "save" THEN [table EXCEPT ![o.subject] = o.at]
  ELSE [r \in Responses |-> IF Of[r] = o.subject THEN Never ELSE table[r]]

\* Seeded bug: a response is swept at the very end of its lifetime.
SweptEarly ==
  [r \in Responses |-> IF table[r] # Never /\ clock - table[r] >= writerTTL
                       THEN Never ELSE table[r]]

\* DeleteExpiredResponses
Swept == [r \in Responses |-> IF Outlived(table[r], writerTTL) THEN Never ELSE table[r]]

\* The caller applies the operation itself ...
Apply(h) ==
  /\ pc[h] = "apply" /\ closing # "closed"
  /\ table' = After(op[h])
  /\ IF op[h].kind = "save" THEN Goto(h, "sweep") /\ UNCHANGED <<op, known>>
                            ELSE Done(h)
  /\ UNCHANGED <<memory, channel, writer, closing, times, saved, deleted, lapsed, raced>>

\* ... which a closed database refuses; the error is only logged.
Refused(h) ==
  /\ pc[h] = "apply" /\ closing = "closed"
  /\ raced' = raced \cup {r \in Responses : op[h].subject \in {r, Of[r]}}
  /\ Done(h)
  /\ UNCHANGED <<memory, table, channel, writer, closing, times, saved, deleted, lapsed>>

Sweep(h) ==
  /\ pc[h] = "sweep"
  /\ table' = IF closing = "closed" THEN table ELSE Swept
  /\ Done(h)
  /\ UNCHANGED <<memory, channel, writer, closing, times, saved, deleted, lapsed, raced>>

\* Receiving from a full channel moves the first blocked sender's operation
\* into it.
Receive ==
  /\ writer = NoOp /\ queue # <<>>
  /\ writer' = Head(queue)
  /\ IF waiting = <<>>
       THEN /\ queue' = Tail(queue)
            /\ UNCHANGED <<waiting, pc>>
       ELSE /\ queue' = Append(Tail(queue), op[Head(waiting)])
            /\ waiting' = Tail(waiting)
            /\ Goto(Head(waiting), "sent")

\* Seeded bug: the writer takes the lock of the queue it drains.
TakeOpLocked ==
  /\ MayRead /\ Receive
  /\ UNCHANGED <<memory, table, op, closing, times, ghost>>

\* SQLiteWriter.run
TakeOp ==
  /\ Receive
  /\ UNCHANGED <<memory, table, op, closing, times, ghost>>

Write ==
  /\ writer \in Ops
  /\ table' = After(writer)
  /\ writer' = IF writer.kind = "save" THEN SweepOp ELSE NoOp
  /\ UNCHANGED <<memory, channel, pc, op, closing, times, ghost>>

SweepAfterWrite ==
  /\ writer = SweepOp
  /\ table' = Swept
  /\ writer' = NoOp
  /\ UNCHANGED <<memory, channel, pc, op, closing, times, ghost>>

----------------------------------------------------------------------------
(* Close, and the end of the process.                                      *)

StartClose ==
  /\ closing = "no"
  /\ closing' = "locking"
  /\ UNCHANGED <<memory, table, channel, writer, pc, op, times, ghost>>

CloseQueue ==
  /\ closing = "locking"
  /\ \A h \in Handlers : pc[h] \notin {"blocked", "sent"}
  /\ closing' = "draining"
  /\ UNCHANGED <<memory, table, channel, writer, pc, op, times, ghost>>

\* Seeded bug: the database is closed before the queue is empty.
CloseStoreEarly ==
  /\ closing = "draining" /\ writer = NoOp
  /\ closing' = "closed"
  /\ queue' = <<>>
  /\ UNCHANGED <<memory, table, waiting, writer, pc, op, times, ghost>>

CloseStore ==
  /\ closing = "draining" /\ writer = NoOp /\ queue = <<>>
  /\ closing' = "closed"
  /\ UNCHANGED <<memory, table, channel, writer, pc, op, times, ghost>>

\* newServerState: LoadResponses sweeps and then fills the map.
Restart ==
  /\ Crashes \/ closing = "closed"
  /\ table' = Swept /\ memory' = Swept
  /\ queue' = <<>> /\ waiting' = <<>> /\ writer' = NoOp
  /\ pc' = [h \in Handlers |-> "idle"] /\ op' = [h \in Handlers |-> NoOp]
  /\ closing' = "no"
  /\ ttl' = writerTTL
  /\ raced' = raced \cup {r \in Responses : Saving(r) \/ Deleting(Of[r])}
  /\ UNCHANGED <<writerTTL, clock, saved, known, deleted, lapsed>>

----------------------------------------------------------------------------
Lapsing(now, life) == {r \in saved : memory[r] # Never /\ now - memory[r] > life}
                      \cup {r \in saved : table[r] # Never /\ now - table[r] > life}

Tick ==
  /\ clock < MaxClock
  /\ clock' = clock + 1
  /\ lapsed' = lapsed \cup Lapsing(clock + 1, ttl) \cup Lapsing(clock + 1, writerTTL)
  /\ UNCHANGED <<memory, table, channel, writer, pc, op, closing, ttl, writerTTL,
                 saved, known, deleted, raced>>

\* ApplyConfig sets the writer's lifetime ...
SetWriterTTL(life) ==
  /\ writerTTL = ttl /\ life # ttl
  /\ writerTTL' = life
  /\ lapsed' = lapsed \cup Lapsing(clock, life)
  /\ UNCHANGED <<memory, table, channel, writer, pc, op, closing, ttl, clock,
                 saved, known, deleted, raced>>

\* ... and SaveAndApply that of the map, if the accounts could be saved.
SetTTL ==
  /\ writerTTL # ttl
  /\ ttl' = writerTTL
  /\ UNCHANGED <<memory, table, channel, writer, pc, op, closing, writerTTL, clock, ghost>>

HandlerStep(h) ==
  \/ Enqueue(h) \/ FallBack(h) \/ Wait(h) \/ Resume(h) \/ Apply(h)
  \/ Refused(h) \/ Sweep(h)

WriterStep == TakeOp \/ Write \/ SweepAfterWrite

CloseStep == CloseQueue \/ CloseStore

Next ==
  \/ \E h \in Handlers :
       \/ \E r \in Responses : Save(h, r)
       \/ \E c \in Conversations : Delete(h, c)
       \/ HandlerStep(h)
  \/ WriterStep \/ Prune
  \/ StartClose \/ CloseStep \/ Restart
  \/ Tick \/ SetTTL \/ \E life \in TTLs : SetWriterTTL(life)

Spec == Init /\ [][Next]_vars

(* The handlers, the writer and Close are goroutines that run on; nobody   *)
(* has to send another request, to close or to restart.                    *)
FairSpec ==
  /\ Spec
  /\ \A h \in Handlers : WF_vars(HandlerStep(h))
  /\ WF_vars(WriterStep) /\ WF_vars(CloseStep)

----------------------------------------------------------------------------
Instants == 0..MaxClock \cup {Never}

TypeOK ==
  /\ memory \in [Responses -> Instants] /\ table \in [Responses -> Instants]
  /\ queue \in Seq(Ops) /\ Len(queue) <= QueueSize /\ waiting \in Seq(Handlers)
  /\ writer \in Ops \cup {NoOp, SweepOp}
  /\ pc \in [Handlers -> {"idle", "enqueue", "blocked", "sent", "apply", "sweep"}]
  /\ op \in [Handlers -> Ops \cup {NoOp}]
  /\ closing \in {"no", "locking", "draining", "closed"}
  /\ ttl \in TTLs /\ writerTTL \in TTLs /\ clock \in 0..MaxClock
  /\ known \subseteq saved /\ deleted \subseteq saved
  /\ saved \cup lapsed \cup raced \subseteq Responses

(* A response whose id a client has been given can be read until it is     *)
(* deleted or outlives its lifetime, also after a restart (the text of the *)
(* switch for the responses cache in settings-panel.tsx).                  *)
Readable ==
  \A r \in known \ (deleted \cup lapsed \cup raced) : memory[r] # Never

(* A response deleted with its conversation stays deleted, also after a    *)
(* restart, unless it was being saved at that moment, or the process ended *)
(* before the deletion was answered.                                       *)
StaysDeleted == \A r \in deleted \ raced : memory[r] = Never

AtRest ==
  /\ queue = <<>> /\ writer = NoOp
  /\ closing # "closed"
  /\ \A h \in Handlers : pc[h] = "idle"

(* Once every operation has been applied, the map and the table hold the   *)
(* same responses, those aside that have outlived a lifetime or were saved *)
(* while they were deleted.                                                *)
TableFollowsMemory ==
  AtRest => \A r \in Responses \ (lapsed \cup raced) : memory[r] = table[r]

(* Every hand-over comes to its end and so does Close, although a delete   *)
(* waits for room with the lock held that Close waits for.                 *)
EverythingEnds ==
  /\ \A h \in Handlers : pc[h] # "idle" ~> pc[h] = "idle"
  /\ closing = "locking" ~> closing = "closed"

=============================================================================
