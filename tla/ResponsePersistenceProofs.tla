---------------------- MODULE ResponsePersistenceProofs ----------------------
(***************************************************************************)
(* Proofs about ResponsePersistence, for every set of handlers, responses  *)
(* and conversations, every queue size and every set of lifetimes.  The    *)
(* inductive invariant follows an operation on its way to the table: what  *)
(* the map and the table disagree on is on its way, and no operation on    *)
(* its way undoes what they agree on.                                      *)
(***************************************************************************)
EXTENDS ResponsePersistence, SequenceTheorems, TLAPS

IsSave(o, r) == o \in Ops /\ o.kind = "save" /\ o.subject = r
IsDelete(o, c) == o \in Ops /\ o.kind = "delete" /\ o.subject = c

\* An operation that the writer will apply after those in the first i places.
SaveFollows(r, i) ==
  \/ \E j \in (i+1)..Len(queue) : IsSave(queue[j], r)
  \/ \E h \in Handlers : pc[h] = "enqueue" /\ IsSave(op[h], r)

DeleteFollows(c, i) ==
  \/ \E j \in (i+1)..Len(queue) : IsDelete(queue[j], c)
  \/ \E h \in Handlers : pc[h] \in {"enqueue", "blocked"} /\ IsDelete(op[h], c)

\* What the map has lost: the table has lost it too, or is about to.
Gone(r) ==
  /\ ~Saving(r)
  /\ IsSave(writer, r) => DeleteFollows(Of[r], 0)
  /\ \A i \in 1..Len(queue) : IsSave(queue[i], r) => DeleteFollows(Of[r], i)
  /\ table[r] # Never =>
       \/ IsDelete(writer, Of[r]) \/ DeleteFollows(Of[r], 0)
       \/ \E h \in Handlers : pc[h] = "apply" /\ IsDelete(op[h], Of[r])

\* What the map holds: in time, never undone, and in the table or about to be.
Fresh(r) == clock - memory[r] <= ttl /\ clock - memory[r] <= writerTTL

Undeleted(r) ==
  /\ ~Deleting(Of[r])
  /\ IsDelete(writer, Of[r]) => SaveFollows(r, 0)
  /\ \A i \in 1..Len(queue) : IsDelete(queue[i], Of[r]) => SaveFollows(r, i)

SameInstant(r) ==
  /\ IsSave(writer, r) => writer.at = memory[r]
  /\ \A i \in 1..Len(queue) : IsSave(queue[i], r) => queue[i].at = memory[r]
  /\ \A h \in Handlers : IsSave(op[h], r) => op[h].at = memory[r]

Arriving(r) ==
  \/ table[r] = memory[r]
  \/ IsSave(writer, r) \/ SaveFollows(r, 0)
  \/ \E h \in Handlers : pc[h] = "apply" /\ IsSave(op[h], r)

Kept(r) == Fresh(r) /\ Undeleted(r) /\ SameInstant(r) /\ Arriving(r)

Consistent ==
  \A r \in Responses \ (lapsed \cup raced) :
    IF memory[r] = Never THEN Gone(r) ELSE Kept(r)

\* Of an orderly process also what outlived a lifetime before its deletion.
DeletedGone == \A r \in deleted \ raced : memory[r] = Never /\ Gone(r)

\* Only responses that were created are anywhere.
OnlySaved ==
  \A r \in Responses :
    memory[r] # Never \/ table[r] # Never \/ Saving(r) \/ IsSave(writer, r)
      \/ (\E i \in 1..Len(queue) : IsSave(queue[i], r)) => r \in saved

\* Where a handler is tells what it persists, and who waits is blocked.
HandlersShape ==
  /\ \A h \in Handlers :
       /\ pc[h] = "idle" <=> op[h] = NoOp
       /\ pc[h] \in {"blocked", "sent"} => op[h].kind = "delete"
       /\ pc[h] = "sweep" => op[h].kind = "save"
  /\ \A i \in 1..Len(waiting) : pc[waiting[i]] = "blocked"
  /\ \A i, j \in 1..Len(waiting) : i # j => waiting[i] # waiting[j]
  /\ closing = "closed" => queue = <<>> /\ writer = NoOp

\* And in an orderly process every response that was created is held.
SavedHeld == \A r \in saved \ (deleted \cup lapsed \cup raced) : memory[r] # Never

IInv == TypeOK /\ HandlersShape /\ OnlySaved /\ Consistent

-----------------------------------------------------------------------------
(* Operations, and what a step does with one.                              *)

LEMMA OpsDiffer ==
  /\ SweepOp \notin Ops /\ NoOp \notin Ops /\ NoOp # SweepOp
  /\ \A o \in Ops : o.kind \in {"save", "delete"} /\ o.at \in 0..MaxClock
  /\ \A o \in Ops : o.kind = "save" => o.subject \in Responses
  /\ \A o \in Ops : o.kind = "delete" => o.subject \in Conversations
BY NoOpAssumption DEF Ops, SweepOp

LEMMA OpsMade ==
  ASSUME TypeOK
  PROVE  /\ \A r \in Responses : IsSave(SaveOp(r), r) /\ SaveOp(r).at = clock
         /\ \A c \in Conversations : IsDelete(DeleteOp(c), c)
BY DEF TypeOK, SaveOp, DeleteOp, IsSave, IsDelete, Ops

LEMMA Busy ==
  ASSUME TypeOK, HandlersShape, NEW h \in Handlers, pc[h] # "idle"
  PROVE  op[h] \in Ops
BY DEF TypeOK, HandlersShape

LEMMA DoneTypes ==
  ASSUME TypeOK, OnlySaved, NEW h \in Handlers, op[h] \in Ops, Done(h)
  PROVE  /\ pc' \in [Handlers -> {"idle", "enqueue", "blocked", "sent", "apply", "sweep"}]
         /\ op' \in [Handlers -> Ops \cup {NoOp}]
         /\ known' \subseteq saved
<1>1. pc' = [pc EXCEPT ![h] = "idle"] /\ op' = [op EXCEPT ![h] = NoOp]
  BY DEF Done, Goto
<1>2. op[h].kind = "save" => op[h].subject \in saved
  BY OpsDiffer DEF OnlySaved, Saving
<1>. QED  BY <1>1, <1>2 DEF Done, TypeOK

LEMMA AfterTypes ==
  ASSUME TypeOK, NEW o \in Ops PROVE After(o) \in [Responses -> Instants]
BY OpsDiffer DEF TypeOK, After, Instants

LEMMA SweptTypes ==
  ASSUME TypeOK
  PROVE  Swept \in [Responses -> Instants] /\ Pruned \in [Responses -> Instants]
BY DEF TypeOK, Swept, Pruned, Instants

\* The queue after its first operation has been taken.
LEMMA Received ==
  ASSUME TypeOK, HandlersShape, Receive
  PROVE  /\ Len(queue) \in Nat \ {0} /\ writer' = queue[1] /\ queue[1] \in Ops
         /\ queue' \in Seq(Ops)
         /\ \A i \in 1..(Len(queue) - 1) : queue'[i] = queue[i+1]
         /\ waiting' \in Seq(Handlers)
         /\ waiting = <<>> => /\ Len(queue') = Len(queue) - 1
                              /\ UNCHANGED <<waiting, pc>>
         /\ waiting # <<>> => /\ waiting[1] \in Handlers /\ pc[waiting[1]] = "blocked"
                              /\ op[waiting[1]] \in Ops
                              /\ Len(queue') = Len(queue)
                              /\ queue'[Len(queue)] = op[waiting[1]]
                              /\ pc' = [pc EXCEPT ![waiting[1]] = "sent"]
                              /\ Len(waiting') = Len(waiting) - 1
                              /\ \A i \in 1..(Len(waiting) - 1) :
                                   waiting'[i] = waiting[i+1]
<1>1. queue \in Seq(Ops) /\ queue # <<>> /\ waiting \in Seq(Handlers)
  BY DEF TypeOK, Receive
<1>2. /\ Len(queue) \in Nat \ {0} /\ Head(queue) = queue[1] /\ queue[1] \in Ops
      /\ Tail(queue) \in Seq(Ops) /\ Len(Tail(queue)) = Len(queue) - 1
      /\ \A i \in 1..(Len(queue) - 1) : Tail(queue)[i] = queue[i+1]
  BY <1>1, HeadTailProperties, EmptySeq, ElementOfSeq
<1>3. CASE waiting = <<>>
  <2>1. /\ queue' = Tail(queue) /\ waiting' = waiting /\ pc' = pc
        /\ writer' = Head(queue)
    BY <1>3 DEF Receive
  <2>. QED  BY <1>1, <1>2, <1>3, <2>1
<1>4. CASE waiting # <<>>
  <2>1. /\ Len(waiting) \in Nat \ {0} /\ Head(waiting) = waiting[1]
        /\ waiting[1] \in Handlers /\ Tail(waiting) \in Seq(Handlers)
        /\ Len(Tail(waiting)) = Len(waiting) - 1
        /\ \A i \in 1..(Len(waiting) - 1) : Tail(waiting)[i] = waiting[i+1]
    BY <1>1, <1>4, HeadTailProperties, EmptySeq, ElementOfSeq
  <2>2. pc[waiting[1]] = "blocked"
    BY <2>1 DEF HandlersShape
  <2>3. op[waiting[1]] \in Ops
    BY <2>1, <2>2, Busy
  <2>4. /\ Append(Tail(queue), op[waiting[1]]) \in Seq(Ops)
        /\ Len(Append(Tail(queue), op[waiting[1]])) = Len(queue)
        /\ \A i \in 1..(Len(queue) - 1) :
             Append(Tail(queue), op[waiting[1]])[i] = queue[i+1]
        /\ Append(Tail(queue), op[waiting[1]])[Len(queue)] = op[waiting[1]]
    BY <1>2, <2>3, AppendProperties
  <2>5. /\ queue' = Append(Tail(queue), op[Head(waiting)]) /\ waiting' = Tail(waiting)
        /\ Goto(Head(waiting), "sent") /\ writer' = Head(queue)
    BY <1>4 DEF Receive
  <2>6. pc' = [pc EXCEPT ![waiting[1]] = "sent"]
    BY <2>1, <2>5 DEF Goto
  <2>7. queue' = Append(Tail(queue), op[waiting[1]])
    BY <2>1, <2>5
  <2>8. /\ queue' \in Seq(Ops) /\ Len(queue') = Len(queue)
        /\ queue'[Len(queue)] = op[waiting[1]]
        /\ \A i \in 1..(Len(queue) - 1) : queue'[i] = queue[i+1]
    BY <2>4, <2>7
  <2>9. writer' = queue[1]
    BY <1>2, <2>5
  <2>10. Len(waiting') = Len(waiting) - 1 /\ waiting' \in Seq(Handlers)
         /\ \A i \in 1..(Len(waiting) - 1) : waiting'[i] = waiting[i+1]
    BY <2>1, <2>5
  <2>. QED  BY <1>2, <1>4, <2>1, <2>2, <2>3, <2>6, <2>8, <2>9, <2>10, Zenon
<1>. QED  BY <1>3, <1>4

-----------------------------------------------------------------------------
(* Types, and where handlers are.                                          *)

LEMMA InitTypes == Init => TypeOK /\ HandlersShape
BY PersistenceAssumption, NoOpAssumption DEF Init, TypeOK, Instants, HandlersShape

LEMMA TypesStep ==
  ASSUME TypeOK, HandlersShape, OnlySaved, [Next]_vars PROVE TypeOK'
<1>. USE PersistenceAssumption
<1>1. ASSUME NEW h \in Handlers, NEW r1 \in Responses, Save(h, r1) PROVE TypeOK'
  <2>1. SaveOp(r1) \in Ops /\ clock \in Instants
    BY OpsMade DEF IsSave, TypeOK, Instants
  <2>. QED  BY <1>1, <2>1, SweptTypes DEF Save, Goto, channel, times, TypeOK
<1>2. ASSUME NEW h \in Handlers, NEW c \in Conversations, Delete(h, c) PROVE TypeOK'
  <2>1. DeleteOp(c) \in Ops
    BY OpsMade DEF IsDelete
  <2>. QED  BY <1>2, <2>1 DEF Delete, Goto, channel, times, TypeOK, Instants
<1>3. ASSUME NEW h \in Handlers, Enqueue(h) PROVE TypeOK'
  <2>1. op[h] \in Ops
    BY <1>3, Busy DEF Enqueue
  <2>2. queue' \in Seq(Ops) /\ Len(queue') <= QueueSize
    BY <1>3, <2>1, AppendProperties, EmptySeq, LenProperties DEF Enqueue, TypeOK
  <2>. QED  BY <1>3, <2>1, <2>2, DoneTypes DEF Enqueue, TypeOK, times
<1>4. ASSUME NEW h \in Handlers, FallBack(h) PROVE TypeOK'
  BY <1>4 DEF FallBack, Goto, Crossed, channel, times, ghost, TypeOK
<1>5. ASSUME NEW h \in Handlers, Wait(h) PROVE TypeOK'
  BY <1>5 DEF Wait, Goto, channel, times, ghost, TypeOK
<1>6. ASSUME NEW h \in Handlers, Resume(h) PROVE TypeOK'
  <2>1. op[h] \in Ops
    BY <1>6, Busy DEF Resume
  <2>. QED  BY <1>6, <2>1, DoneTypes DEF Resume, TypeOK, channel, times
<1>7. ASSUME NEW h \in Handlers, Apply(h) PROVE TypeOK'
  <2>1. op[h] \in Ops
    BY <1>7, Busy DEF Apply
  <2>2. table' \in [Responses -> Instants]
    BY <1>7, <2>1, AfterTypes DEF Apply
  <2>3. CASE op[h].kind = "save"
    BY <1>7, <2>2, <2>3 DEF Apply, TypeOK, Goto, channel, times
  <2>4. CASE op[h].kind # "save"
    BY <1>7, <2>1, <2>2, <2>4, DoneTypes DEF Apply, TypeOK, channel, times
  <2>. QED  BY <2>3, <2>4
<1>8. ASSUME NEW h \in Handlers, Refused(h) PROVE TypeOK'
  <2>1. op[h] \in Ops
    BY <1>8, Busy DEF Refused
  <2>. QED  BY <1>8, <2>1, DoneTypes DEF Refused, TypeOK, channel, times
<1>9. ASSUME NEW h \in Handlers, Sweep(h) PROVE TypeOK'
  <2>1. op[h] \in Ops
    BY <1>9, Busy DEF Sweep
  <2>2. table' \in [Responses -> Instants]
    BY <1>9, SweptTypes DEF Sweep, TypeOK
  <2>. QED  BY <1>9, <2>1, <2>2, DoneTypes DEF Sweep, TypeOK, channel, times
<1>10. CASE TakeOp
  <2>1. Receive /\ UNCHANGED <<memory, table, op, closing, times, ghost>>
    BY <1>10 DEF TakeOp
  <2>2. Len(queue) \in Nat \ {0} /\ Len(queue) <= QueueSize
    BY <2>1, Received DEF TypeOK
  <2>3. /\ queue' \in Seq(Ops) /\ Len(queue') <= QueueSize
        /\ waiting' \in Seq(Handlers) /\ writer' \in Ops
    BY <2>1, <2>2, Received
  <2>4. pc' \in [Handlers -> {"idle", "enqueue", "blocked", "sent", "apply", "sweep"}]
    BY <2>1, Received DEF TypeOK
  <2>. QED  BY <2>1, <2>3, <2>4 DEF TypeOK, times, ghost
<1>11. CASE Write
  BY <1>11, AfterTypes DEF Write, channel, times, ghost, TypeOK
<1>12. CASE SweepAfterWrite
  BY <1>12, SweptTypes DEF SweepAfterWrite, channel, times, ghost, TypeOK
<1>13. CASE Prune
  BY <1>13, SweptTypes DEF Prune, channel, times, ghost, TypeOK
<1>14. CASE StartClose
  BY <1>14 DEF StartClose, channel, times, ghost, TypeOK
<1>15. CASE CloseQueue
  BY <1>15 DEF CloseQueue, channel, times, ghost, TypeOK
<1>16. CASE CloseStore
  BY <1>16 DEF CloseStore, channel, times, ghost, TypeOK
<1>17. CASE Restart
  BY <1>17, SweptTypes, EmptySeq DEF Restart, channel, times, ghost, TypeOK
<1>18. CASE Tick
  BY <1>18 DEF Tick, Lapsing, channel, times, ghost, TypeOK
<1>19. CASE SetTTL
  BY <1>19 DEF SetTTL, channel, times, ghost, TypeOK
<1>20. ASSUME NEW life \in TTLs, SetWriterTTL(life) PROVE TypeOK'
  BY <1>20 DEF SetWriterTTL, Lapsing, channel, times, ghost, TypeOK
<1>21. CASE UNCHANGED vars
  BY <1>21 DEF vars, channel, times, ghost, TypeOK
<1>. QED  BY <1>1, <1>2, <1>3, <1>4, <1>5, <1>6, <1>7, <1>8, <1>9, <1>10, <1>11,
          <1>12, <1>13, <1>14, <1>15, <1>16, <1>17, <1>18, <1>19, <1>20, <1>21
     DEF Next, HandlerStep, WriterStep, CloseStep

LEMMA HandlersStep ==
  ASSUME TypeOK, HandlersShape, [Next]_vars PROVE HandlersShape'
<1>1. ASSUME NEW h \in Handlers, NEW r1 \in Responses, Save(h, r1)
      PROVE  HandlersShape'
  <2>1. SaveOp(r1) # NoOp
    BY OpsMade, OpsDiffer DEF IsSave
  <2>. QED  BY <1>1, <2>1 DEF Save, Goto, channel, HandlersShape, TypeOK
<1>2. ASSUME NEW h \in Handlers, NEW c \in Conversations, Delete(h, c)
      PROVE  HandlersShape'
  <2>1. DeleteOp(c) # NoOp
    BY OpsMade, OpsDiffer DEF IsDelete
  <2>. QED  BY <1>2, <2>1 DEF Delete, Goto, channel, HandlersShape, TypeOK
<1>3. ASSUME NEW h \in Handlers, Enqueue(h) PROVE HandlersShape'
  <2>1. closing # "closed" /\ closing' = closing /\ waiting' = waiting
    BY <1>3 DEF Enqueue, Closed
  <2>2. pc' = [pc EXCEPT ![h] = "idle"] /\ op' = [op EXCEPT ![h] = NoOp]
        /\ pc[h] = "enqueue"
    BY <1>3 DEF Enqueue, Done, Goto
  <2>. QED  BY <2>1, <2>2 DEF HandlersShape, TypeOK
<1>4. ASSUME NEW h \in Handlers, FallBack(h) PROVE HandlersShape'
  BY <1>4 DEF FallBack, Goto, channel, times, ghost, HandlersShape, TypeOK
<1>5. ASSUME NEW h \in Handlers, Wait(h) PROVE HandlersShape'
  <2>1. /\ Len(waiting) \in Nat /\ Len(waiting') = Len(waiting) + 1
        /\ \A i \in 1..Len(waiting) : waiting'[i] = waiting[i]
        /\ waiting'[Len(waiting) + 1] = h
    BY <1>5, AppendProperties, LenProperties DEF Wait, TypeOK
  <2>2. \A i \in 1..Len(waiting) : waiting[i] # h
    BY <1>5 DEF Wait, HandlersShape
  <2>. QED  BY <1>5, <2>1, <2>2 DEF Wait, Goto, HandlersShape, TypeOK
<1>6. ASSUME NEW h \in Handlers, Resume(h) PROVE HandlersShape'
  BY <1>6 DEF Resume, Done, Goto, channel, times, ghost, HandlersShape, TypeOK
<1>7. ASSUME NEW h \in Handlers, Apply(h) PROVE HandlersShape'
  <2>1. op[h] \in Ops
    BY <1>7, Busy DEF Apply
  <2>. QED  BY <1>7, <2>1, OpsDiffer DEF Apply, Done, Goto, channel, HandlersShape, TypeOK
<1>8. ASSUME NEW h \in Handlers, Refused(h) PROVE HandlersShape'
  BY <1>8 DEF Refused, Done, Goto, channel, times, ghost, HandlersShape, TypeOK
<1>9. ASSUME NEW h \in Handlers, Sweep(h) PROVE HandlersShape'
  BY <1>9 DEF Sweep, Done, Goto, channel, times, ghost, HandlersShape, TypeOK
<1>10. CASE TakeOp
  <2>1. Receive /\ UNCHANGED <<op, closing>> /\ closing # "closed"
    BY <1>10 DEF TakeOp, Receive, HandlersShape
  <2>2. CASE waiting = <<>>
    BY <2>1, <2>2, Received DEF HandlersShape
  <2>3. CASE waiting # <<>>
    <3>1. Len(waiting) \in Nat \ {0}
      BY <2>3, EmptySeq DEF TypeOK
    <3>2. \A i \in 1..(Len(waiting) - 1) :
            waiting'[i] = waiting[i+1] /\ waiting[i+1] # waiting[1] /\ i+1 \in 1..Len(waiting)
      BY <2>1, <2>3, <3>1, Received DEF HandlersShape
    <3>3. /\ waiting[1] \in Handlers /\ pc[waiting[1]] = "blocked"
          /\ pc' = [pc EXCEPT ![waiting[1]] = "sent"] /\ op' = op
          /\ Len(waiting') = Len(waiting) - 1
      BY <2>1, <2>3, Received
    <3>4. \A i \in 1..(Len(waiting) - 1) : waiting[i+1] \in Handlers
      BY <3>1, ElementOfSeq DEF TypeOK
    <3>5. /\ \A i \in 1..Len(waiting') : pc'[waiting'[i]] = "blocked"
          /\ \A i, j \in 1..Len(waiting') : i # j => waiting'[i] # waiting'[j]
      <4>1. \A i \in 1..Len(waiting') : i \in 1..(Len(waiting) - 1)
        BY <3>3
      <4>2. \A i \in 1..(Len(waiting) - 1) : pc[waiting[i+1]] = "blocked"
        BY <3>2 DEF HandlersShape
      <4>3. \A i \in 1..(Len(waiting) - 1) : pc'[waiting[i+1]] = "blocked"
        BY <3>2, <3>3, <3>4, <4>2 DEF TypeOK
      <4>4. \A i, j \in 1..(Len(waiting) - 1) : i # j => waiting[i+1] # waiting[j+1]
        BY <3>1, <3>2 DEF HandlersShape
      <4>5. \A i \in 1..Len(waiting') : pc'[waiting'[i]] = "blocked"
        BY <3>2, <4>1, <4>3
      <4>6. \A i, j \in 1..Len(waiting') : i # j => waiting'[i] # waiting'[j]
        <5>. SUFFICES ASSUME NEW i \in 1..Len(waiting'), NEW j \in 1..Len(waiting'), i # j
                      PROVE  waiting'[i] # waiting'[j]
          OBVIOUS
        <5>1. waiting'[i] = waiting[i+1] /\ waiting'[j] = waiting[j+1]
          BY <3>2, <4>1
        <5>. QED  BY <4>1, <4>4, <5>1
      <4>. QED  BY <4>5, <4>6
    <3>6. \A g \in Handlers :
            /\ pc'[g] = "idle" <=> op'[g] = NoOp
            /\ pc'[g] \in {"blocked", "sent"} => op'[g].kind = "delete"
            /\ pc'[g] = "sweep" => op'[g].kind = "save"
      BY <3>3 DEF HandlersShape, TypeOK
    <3>. QED  BY <2>1, <3>5, <3>6 DEF HandlersShape
  <2>. QED  BY <2>2, <2>3
<1>11. CASE Write
  <2>1. closing # "closed" /\ UNCHANGED <<closing, pc, op, waiting, queue>>
    BY <1>11, OpsDiffer DEF Write, HandlersShape, channel
  <2>. QED  BY <2>1 DEF HandlersShape
<1>12. CASE SweepAfterWrite
  BY <1>12 DEF SweepAfterWrite, channel, times, ghost, HandlersShape, TypeOK
<1>13. CASE Prune
  BY <1>13 DEF Prune, channel, times, ghost, HandlersShape, TypeOK
<1>14. CASE StartClose
  BY <1>14 DEF StartClose, channel, times, ghost, HandlersShape, TypeOK
<1>15. CASE CloseQueue
  BY <1>15 DEF CloseQueue, channel, times, ghost, HandlersShape, TypeOK
<1>16. CASE CloseStore
  BY <1>16 DEF CloseStore, channel, times, ghost, HandlersShape, TypeOK
<1>17. CASE Restart
  BY <1>17 DEF Restart, channel, times, ghost, HandlersShape, TypeOK
<1>18. CASE Tick
  BY <1>18 DEF Tick, channel, times, ghost, HandlersShape, TypeOK
<1>19. CASE SetTTL
  BY <1>19 DEF SetTTL, channel, times, ghost, HandlersShape, TypeOK
<1>20. ASSUME NEW life \in TTLs, SetWriterTTL(life) PROVE HandlersShape'
  BY <1>20 DEF SetWriterTTL, channel, times, ghost, HandlersShape, TypeOK
<1>21. CASE UNCHANGED vars
  BY <1>21 DEF vars, channel, times, ghost, HandlersShape, TypeOK
<1>. QED  BY <1>1, <1>2, <1>3, <1>4, <1>5, <1>6, <1>7, <1>8, <1>9, <1>10, <1>11,
          <1>12, <1>13, <1>14, <1>15, <1>16, <1>17, <1>18, <1>19, <1>20, <1>21
     DEF Next, HandlerStep, WriterStep, CloseStep

-----------------------------------------------------------------------------
(* What follows an operation, as the queue moves.                          *)

LEMMA Persisting ==
  ASSUME TypeOK
  PROVE  /\ \A r \in Responses : Saving(r) <=> \E h \in Handlers : IsSave(op[h], r)
         /\ \A c \in Conversations :
              Deleting(c) <=> \E h \in Handlers : IsDelete(op[h], c)
BY OpsDiffer DEF TypeOK, Saving, Deleting, IsSave, IsDelete

LEMMA QueueGrows ==
  ASSUME TypeOK, HandlersShape, NEW h \in Handlers, Enqueue(h)
  PROVE  /\ op[h] \in Ops /\ pc[h] = "enqueue"
         /\ pc' = [pc EXCEPT ![h] = "idle"] /\ op' = [op EXCEPT ![h] = NoOp]
         /\ Len(queue) \in Nat /\ Len(queue') = Len(queue) + 1
         /\ \A i \in 1..Len(queue) : queue'[i] = queue[i]
         /\ queue'[Len(queue) + 1] = op[h]
<1>1. op[h] \in Ops /\ pc[h] = "enqueue" /\ queue' = Append(queue, op[h])
  BY Busy DEF Enqueue
<1>2. queue \in Seq(Ops) /\ Len(queue) \in Nat
  BY EmptySeq DEF TypeOK
<1>. QED  BY <1>1, <1>2, AppendProperties DEF Enqueue, Done, Goto

\* What follows the first i operations still does when another is sent ...
LEMMA GrowthFollows ==
  ASSUME TypeOK, HandlersShape, NEW h \in Handlers, Enqueue(h),
         NEW i \in 0..Len(queue), NEW r \in Responses, NEW c \in Conversations
  PROVE  /\ SaveFollows(r, i) => SaveFollows(r, i)'
         /\ DeleteFollows(c, i) => DeleteFollows(c, i)'
<1>1. /\ op[h] \in Ops /\ pc[h] = "enqueue" /\ Len(queue) \in Nat
      /\ pc' = [pc EXCEPT ![h] = "idle"] /\ op' = [op EXCEPT ![h] = NoOp]
      /\ Len(queue') = Len(queue) + 1 /\ queue'[Len(queue) + 1] = op[h]
      /\ \A j \in 1..Len(queue) : queue'[j] = queue[j]
  BY QueueGrows
<1>2. /\ \A j \in (i+1)..Len(queue) : j \in (i+1)..Len(queue') /\ queue'[j] = queue[j]
      /\ Len(queue) + 1 \in (i+1)..Len(queue')
  BY <1>1
<1>3. SaveFollows(r, i) => SaveFollows(r, i)'
  BY <1>1, <1>2 DEF SaveFollows, TypeOK
<1>4. DeleteFollows(c, i) => DeleteFollows(c, i)'
  BY <1>1, <1>2 DEF DeleteFollows, TypeOK
<1>. QED  BY <1>3, <1>4

\* ... and is one place nearer when the first one is taken.
LEMMA ShrinkFollows ==
  ASSUME TypeOK, HandlersShape, TakeOp,
         NEW i \in 1..Len(queue), NEW r \in Responses, NEW c \in Conversations
  PROVE  /\ SaveFollows(r, i) => SaveFollows(r, i-1)'
         /\ DeleteFollows(c, i) => DeleteFollows(c, i-1)'
<1>1. /\ Receive /\ op' = op /\ Len(queue) \in Nat \ {0}
      /\ \A j \in 1..(Len(queue) - 1) : queue'[j] = queue[j+1]
  BY Received DEF TakeOp
<1>2. Len(queue') \in Nat /\ Len(queue') >= Len(queue) - 1
  BY <1>1, Received
<1>3. \A j \in (i+1)..Len(queue) :
        j-1 \in ((i-1)+1)..Len(queue') /\ queue'[j-1] = queue[j]
  BY <1>1, <1>2
<1>4. ASSUME NEW g \in Handlers, pc[g] = "enqueue" PROVE pc'[g] = "enqueue"
  BY <1>1, <1>4, Received DEF TypeOK
<1>5. ASSUME NEW g \in Handlers, pc[g] = "blocked"
      PROVE  \/ pc'[g] = "blocked"
             \/ Len(queue) \in ((i-1)+1)..Len(queue') /\ queue'[Len(queue)] = op[g]
  BY <1>1, <1>5, Received DEF TypeOK
<1>6. SaveFollows(r, i) => SaveFollows(r, i-1)'
  BY <1>1, <1>3, <1>4 DEF SaveFollows
<1>7. DeleteFollows(c, i) => DeleteFollows(c, i-1)'
  BY <1>1, <1>3, <1>4, <1>5 DEF DeleteFollows
<1>. QED  BY <1>6, <1>7

-----------------------------------------------------------------------------
(* What the map has lost stays on its way out of the table.                *)

LEMMA GoneStays ==
  ASSUME TypeOK, HandlersShape, TypeOK', [Next]_vars,
         NEW r \in Responses, Gone(r), r \notin raced', memory'[r] = Never
  PROVE  Gone(r)'
<1>. USE PersistenceAssumption, OpsDiffer
<1>1. ASSUME NEW h \in Handlers, NEW r1 \in Responses, Save(h, r1) PROVE Gone(r)'
  BY <1>1 DEF Save, Goto, SaveOp, channel, times, ghost, Gone, DeleteFollows, IsSave,
       IsDelete, Saving, TypeOK
<1>2. ASSUME NEW h \in Handlers, NEW c \in Conversations, Delete(h, c) PROVE Gone(r)'
  BY <1>2 DEF Delete, Goto, DeleteOp, channel, times, ghost, Gone, DeleteFollows,
       IsSave, IsDelete, Saving, TypeOK
<1>3. ASSUME NEW h \in Handlers, Enqueue(h) PROVE Gone(r)'
  <2>1. /\ op[h] \in Ops /\ pc[h] = "enqueue" /\ ~IsSave(op[h], r)
        /\ Len(queue) \in Nat
        /\ op' = [op EXCEPT ![h] = NoOp] /\ pc' = [pc EXCEPT ![h] = "idle"]
        /\ Len(queue') = Len(queue) + 1 /\ queue'[Len(queue) + 1] = op[h]
        /\ \A j \in 1..Len(queue) : queue'[j] = queue[j]
        /\ UNCHANGED <<writer, table>>
    BY <1>3, QueueGrows, Persisting DEF Enqueue, Gone
  <2>2. \A i \in 0..Len(queue) : DeleteFollows(Of[r], i) => DeleteFollows(Of[r], i)'
    BY <1>3, GrowthFollows
  <2>3. ~Saving(r)'
    BY <2>1 DEF Gone, Saving, TypeOK
  <2>4. \A i \in 1..Len(queue') : IsSave(queue'[i], r) => DeleteFollows(Of[r], i)'
    <3>1. ASSUME NEW i \in 1..Len(queue'), IsSave(queue'[i], r)
          PROVE  i \in 1..Len(queue) /\ IsSave(queue[i], r)
      BY <2>1, <3>1
    <3>. QED  BY <2>1, <2>2, <3>1 DEF Gone
  <2>5. IsSave(writer', r) => DeleteFollows(Of[r], 0)'
    BY <2>1, <2>2 DEF Gone
  <2>6. ASSUME table'[r] # Never
        PROVE  \/ IsDelete(writer', Of[r]) \/ DeleteFollows(Of[r], 0)'
               \/ \E g \in Handlers : pc'[g] = "apply" /\ IsDelete(op'[g], Of[r])
    <3>1. CASE IsDelete(writer, Of[r]) \/ DeleteFollows(Of[r], 0)
      BY <2>1, <2>2, <3>1
    <3>2. ASSUME NEW g \in Handlers, pc[g] = "apply", IsDelete(op[g], Of[r])
          PROVE  pc'[g] = "apply" /\ IsDelete(op'[g], Of[r])
      BY <2>1, <3>2 DEF TypeOK
    <3>. QED  BY <2>1, <2>6, <3>1, <3>2 DEF Gone
  <2>. QED  BY <2>3, <2>4, <2>5, <2>6 DEF Gone
<1>4. ASSUME NEW h \in Handlers, FallBack(h) PROVE Gone(r)'
  <2>1. /\ op[h] \in Ops /\ pc[h] = "enqueue" /\ pc' = [pc EXCEPT ![h] = "apply"]
        /\ UNCHANGED <<queue, writer, op, table>> /\ raced' = raced \cup Crossed(op[h])
    BY <1>4, Busy DEF FallBack, Goto, channel
  <2>2. ~Saving(r)'
    BY <2>1 DEF Gone, Saving
  <2>3. CASE IsDelete(op[h], Of[r])
    <3>1. /\ ~IsSave(writer, r)
          /\ \A i \in 1..Len(queue) : ~IsSave(queue[i], r)
      BY <2>1, <2>3 DEF Crossed, Underway, IsSave, IsDelete
    <3>. QED  BY <2>1, <2>2, <2>3, <3>1 DEF Gone, TypeOK
  <2>4. CASE ~IsDelete(op[h], Of[r])
    <3>1. \A i \in 0..Len(queue) : DeleteFollows(Of[r], i) => DeleteFollows(Of[r], i)'
      BY <2>1, <2>4 DEF DeleteFollows, TypeOK
    <3>2. \A g \in Handlers : pc[g] = "apply" => pc'[g] = "apply"
      BY <2>1 DEF TypeOK
    <3>3. Len(queue) \in Nat
      BY EmptySeq DEF TypeOK
    <3>. QED  BY <2>1, <2>2, <3>1, <3>2, <3>3 DEF Gone
  <2>. QED  BY <2>3, <2>4
<1>5. ASSUME NEW h \in Handlers, Wait(h) PROVE Gone(r)'
  BY <1>5 DEF Wait, Goto, channel, times, ghost, Gone, DeleteFollows, IsSave, IsDelete,
       Saving, TypeOK
<1>6. ASSUME NEW h \in Handlers, Resume(h) PROVE Gone(r)'
  BY <1>6 DEF Resume, Done, Goto, channel, times, ghost, Gone, DeleteFollows, IsSave,
       IsDelete, Saving, TypeOK
<1>7. ASSUME NEW h \in Handlers, Apply(h) PROVE Gone(r)'
  <2>1. /\ op[h] \in Ops /\ pc[h] = "apply" /\ ~IsSave(op[h], r)
        /\ table' = After(op[h]) /\ UNCHANGED <<queue, writer>>
    BY <1>7, Busy, Persisting DEF Apply, Gone, channel
  <2>2. \A g \in Handlers \ {h} : pc'[g] = pc[g] /\ op'[g] = op[g]
    BY <1>7 DEF Apply, Done, Goto, TypeOK
  <2>3. op'[h] \in {op[h], NoOp} /\ pc'[h] # "apply"
    BY <1>7 DEF Apply, Done, Goto, TypeOK
  <2>4. ~Saving(r)'
    BY <2>1, <2>2, <2>3 DEF Gone, Saving
  <2>5. \A i \in 0..Len(queue) : DeleteFollows(Of[r], i) => DeleteFollows(Of[r], i)'
    BY <2>1, <2>2 DEF DeleteFollows
  <2>6. Len(queue) \in Nat
    BY EmptySeq DEF TypeOK
  <2>7. CASE IsDelete(op[h], Of[r])
    <3>1. table'[r] = Never
      BY <2>1, <2>7 DEF After, IsDelete
    <3>. QED  BY <2>1, <2>4, <2>5, <2>6, <3>1 DEF Gone
  <2>8. CASE ~IsDelete(op[h], Of[r])
    <3>1. table'[r] = table[r]
      BY <2>1, <2>8 DEF After, IsSave, IsDelete, TypeOK
    <3>. QED  BY <2>1, <2>2, <2>4, <2>5, <2>6, <2>8, <3>1 DEF Gone
  <2>. QED  BY <2>7, <2>8
<1>8. ASSUME NEW h \in Handlers, Refused(h) PROVE Gone(r)'
  BY <1>8 DEF Refused, Done, Goto, channel, times, ghost, Gone, DeleteFollows, IsSave,
       IsDelete, Saving, TypeOK
<1>9. ASSUME NEW h \in Handlers, Sweep(h) PROVE Gone(r)'
  <2>1. /\ op[h] \in Ops /\ pc[h] = "sweep" /\ UNCHANGED <<queue, writer>>
        /\ pc' = [pc EXCEPT ![h] = "idle"] /\ op' = [op EXCEPT ![h] = NoOp]
        /\ table' = table \/ table' = Swept
    BY <1>9, Busy DEF Sweep, Done, Goto, channel
  <2>2. table'[r] # Never => table[r] # Never
    BY <2>1 DEF Swept
  <2>3. ~Saving(r)'
    BY <2>1 DEF Gone, Saving, TypeOK
  <2>4. \A i \in 0..Len(queue) : DeleteFollows(Of[r], i) => DeleteFollows(Of[r], i)'
    BY <2>1 DEF DeleteFollows, TypeOK
  <2>5. \A g \in Handlers : pc[g] = "apply" => pc'[g] = "apply" /\ op'[g] = op[g]
    BY <2>1 DEF TypeOK
  <2>6. Len(queue) \in Nat
    BY EmptySeq DEF TypeOK
  <2>. QED  BY <2>1, <2>2, <2>3, <2>4, <2>5, <2>6 DEF Gone
<1>10. CASE TakeOp
  <2>1. /\ Receive /\ UNCHANGED <<op, table>> /\ Len(queue) \in Nat \ {0}
        /\ writer = NoOp /\ writer' = queue[1]
        /\ \A j \in 1..(Len(queue) - 1) : queue'[j] = queue[j+1]
    BY <1>10, Received DEF TakeOp, Receive
  <2>2. \A i \in 1..Len(queue) : DeleteFollows(Of[r], i) => DeleteFollows(Of[r], i-1)'
    BY <1>10, ShrinkFollows
  <2>3. ~Saving(r)'
    BY <2>1 DEF Gone, Saving
  <2>4. IsSave(writer', r) => DeleteFollows(Of[r], 0)'
    BY <2>1, <2>2 DEF Gone
  <2>5. ASSUME NEW i \in 1..Len(queue'), IsSave(queue'[i], r)
        PROVE  DeleteFollows(Of[r], i)'
    <3>1. CASE i \in 1..(Len(queue) - 1)
      <4>1. IsSave(queue[i+1], r) /\ i+1 \in 1..Len(queue) /\ (i+1)-1 = i
        BY <2>1, <2>5, <3>1
      <4>2. DeleteFollows(Of[r], i+1)
        BY <4>1 DEF Gone
      <4>. QED  BY <2>2, <4>1, <4>2
    <3>2. CASE i \notin 1..(Len(queue) - 1)
      <4>1. waiting # <<>> /\ i = Len(queue)
        BY <2>1, <3>2, Received
      <4>2. waiting[1] \in Handlers /\ queue'[i] = op[waiting[1]]
        BY <2>1, <4>1, Received
      <4>. QED  BY <2>5, <4>2, Persisting DEF Gone
    <3>. QED  BY <3>1, <3>2
  <2>6. ASSUME table[r] # Never
        PROVE  \/ IsDelete(writer', Of[r]) \/ DeleteFollows(Of[r], 0)'
               \/ \E g \in Handlers : pc'[g] = "apply" /\ IsDelete(op'[g], Of[r])
    <3>1. CASE DeleteFollows(Of[r], 0)
      <4>1. CASE IsDelete(queue[1], Of[r])
        BY <2>1, <4>1
      <4>2. CASE ~IsDelete(queue[1], Of[r])
        <5>1. DeleteFollows(Of[r], 1)
          BY <2>1, <3>1, <4>2 DEF DeleteFollows
        <5>. QED  BY <2>1, <2>2, <5>1
      <4>. QED  BY <4>1, <4>2
    <3>2. ASSUME NEW g \in Handlers, pc[g] = "apply", IsDelete(op[g], Of[r])
          PROVE  pc'[g] = "apply" /\ IsDelete(op'[g], Of[r])
      BY <2>1, <3>2, Received DEF TypeOK
    <3>3. ~IsDelete(writer, Of[r])
      BY <2>1 DEF IsDelete
    <3>. QED  BY <2>6, <3>1, <3>2, <3>3 DEF Gone
  <2>. QED  BY <2>1, <2>3, <2>4, <2>5, <2>6 DEF Gone
<1>11. CASE Write
  <2>1. /\ writer \in Ops /\ table' = After(writer) /\ UNCHANGED <<queue, pc, op>>
        /\ writer' \notin Ops
    BY <1>11 DEF Write, channel
  <2>2. ~Saving(r)' /\ ~IsSave(writer', r)
    BY <2>1 DEF Gone, Saving, IsSave
  <2>3. \A i \in 0..Len(queue) : DeleteFollows(Of[r], i) <=> DeleteFollows(Of[r], i)'
    BY <2>1 DEF DeleteFollows
  <2>4. Len(queue) \in Nat
    BY EmptySeq DEF TypeOK
  <2>5. CASE IsSave(writer, r)
    BY <2>1, <2>2, <2>3, <2>4, <2>5 DEF Gone
  <2>6. CASE IsDelete(writer, Of[r])
    <3>1. table'[r] = Never
      BY <2>1, <2>6 DEF After, IsDelete
    <3>. QED  BY <2>1, <2>2, <2>3, <2>4, <3>1 DEF Gone
  <2>7. CASE ~IsSave(writer, r) /\ ~IsDelete(writer, Of[r])
    <3>1. table'[r] = table[r]
      BY <2>1, <2>7 DEF After, IsSave, IsDelete, TypeOK
    <3>. QED  BY <2>1, <2>2, <2>3, <2>4, <2>7, <3>1 DEF Gone
  <2>. QED  BY <2>5, <2>6, <2>7
<1>12. CASE SweepAfterWrite
  <2>1. /\ writer \notin Ops /\ writer' \notin Ops /\ table' = Swept
        /\ UNCHANGED <<queue, pc, op>>
    BY <1>12 DEF SweepAfterWrite, channel
  <2>2. table'[r] # Never => table[r] # Never
    BY <2>1 DEF Swept
  <2>3. ~Saving(r)' /\ ~IsSave(writer', r) /\ ~IsDelete(writer, Of[r])
    BY <2>1 DEF Gone, Saving, IsSave, IsDelete
  <2>4. \A i \in 0..Len(queue) : DeleteFollows(Of[r], i) <=> DeleteFollows(Of[r], i)'
    BY <2>1 DEF DeleteFollows
  <2>5. Len(queue) \in Nat
    BY EmptySeq DEF TypeOK
  <2>. QED  BY <2>1, <2>2, <2>3, <2>4, <2>5 DEF Gone
<1>13. CASE Prune
  BY <1>13 DEF Prune, channel, times, ghost, Gone, DeleteFollows, IsSave, IsDelete,
       Saving, TypeOK
<1>14. CASE StartClose
  BY <1>14 DEF StartClose, channel, times, ghost, Gone, DeleteFollows, IsSave,
       IsDelete, Saving, TypeOK
<1>15. CASE CloseQueue
  BY <1>15 DEF CloseQueue, channel, times, ghost, Gone, DeleteFollows, IsSave,
       IsDelete, Saving, TypeOK
<1>16. CASE CloseStore
  BY <1>16 DEF CloseStore, channel, times, ghost, Gone, DeleteFollows, IsSave,
       IsDelete, Saving, TypeOK
<1>17. CASE Restart
  BY <1>17 DEF Restart, channel, times, ghost, Gone, DeleteFollows, IsSave, IsDelete,
       Saving, TypeOK
<1>18. CASE Tick
  BY <1>18 DEF Tick, channel, times, ghost, Gone, DeleteFollows, IsSave, IsDelete,
       Saving, TypeOK
<1>19. CASE SetTTL
  BY <1>19 DEF SetTTL, channel, times, ghost, Gone, DeleteFollows, IsSave, IsDelete,
       Saving, TypeOK
<1>20. ASSUME NEW life \in TTLs, SetWriterTTL(life) PROVE Gone(r)'
  BY <1>20 DEF SetWriterTTL, channel, times, ghost, Gone, DeleteFollows, IsSave,
       IsDelete, Saving, TypeOK
<1>21. CASE UNCHANGED vars
  BY <1>21 DEF vars, channel, times, ghost, Gone, DeleteFollows, IsSave, IsDelete,
       Saving, TypeOK
<1>. QED  BY <1>1, <1>2, <1>3, <1>4, <1>5, <1>6, <1>7, <1>8, <1>9, <1>10, <1>11,
          <1>12, <1>13, <1>14, <1>15, <1>16, <1>17, <1>18, <1>19, <1>20, <1>21
     DEF Next, HandlerStep, WriterStep, CloseStep

-----------------------------------------------------------------------------
(* What the map holds stays in the table, or on its way there.             *)

LEMMA KeptStays ==
  ASSUME TypeOK, HandlersShape, OnlySaved, TypeOK', [Next]_vars,
         NEW r \in Responses, Kept(r), r \notin raced' \cup lapsed',
         memory[r] # Never, memory'[r] # Never
  PROVE  Kept(r)'
<1>. USE PersistenceAssumption, OpsDiffer
<1>1. ASSUME NEW h \in Handlers, NEW r1 \in Responses, Save(h, r1) PROVE Kept(r)'
  <2>1. r1 # r /\ memory'[r] = memory[r] /\ UNCHANGED <<queue, writer, table, times>>
    <3>1. r \in saved
      BY DEF OnlySaved
    <3>. QED  BY <1>1, <3>1 DEF Save, Pruned, TypeOK, channel
  <2>2. pc[h] = "idle" /\ op[h] = NoOp
    BY <1>1 DEF Save, HandlersShape
  <2>3. \A g \in Handlers \ {h} : pc'[g] = pc[g] /\ op'[g] = op[g]
    BY <1>1 DEF Save, Goto, TypeOK
  <2>4. op'[h] \in Ops /\ ~IsSave(op'[h], r) /\ op'[h].kind = "save"
    BY <1>1, <2>1, OpsMade DEF Save, IsSave, TypeOK
  <2>5. ~Deleting(Of[r])'
    BY <2>2, <2>3, <2>4 DEF Kept, Undeleted, Deleting
  <2>6. \A i \in 0..Len(queue) : SaveFollows(r, i) => SaveFollows(r, i)'
    BY <2>1, <2>2, <2>3 DEF SaveFollows, IsSave
  <2>7. Undeleted(r)'
    <3>1. Len(queue) \in Nat
      BY EmptySeq DEF TypeOK
    <3>. QED  BY <2>1, <2>5, <2>6, <3>1 DEF Kept, Undeleted
  <2>8. SameInstant(r)'
    BY <2>1, <2>3, <2>4 DEF Kept, SameInstant
  <2>9. Arriving(r)'
    BY <2>1, <2>2, <2>3, <2>6, EmptySeq DEF Kept, Arriving, TypeOK
  <2>. QED  BY <2>1, <2>7, <2>8, <2>9 DEF Kept, Fresh, times
<1>2. ASSUME NEW h \in Handlers, NEW c \in Conversations, Delete(h, c) PROVE Kept(r)'
  <2>1. Of[r] # c /\ memory'[r] = memory[r] /\ UNCHANGED <<queue, writer, table, times>>
    BY <1>2 DEF Delete, TypeOK, channel
  <2>2. pc[h] = "idle" /\ op[h] = NoOp
    BY <1>2 DEF Delete, HandlersShape
  <2>3. \A g \in Handlers \ {h} : pc'[g] = pc[g] /\ op'[g] = op[g]
    BY <1>2 DEF Delete, Goto, TypeOK
  <2>4. op'[h] = DeleteOp(c) /\ ~IsSave(op'[h], r)
    BY <1>2 DEF Delete, IsSave, DeleteOp, TypeOK
  <2>5. ~Deleting(Of[r])'
    BY <2>1, <2>2, <2>3, <2>4 DEF Kept, Undeleted, Deleting, DeleteOp
  <2>6. \A i \in 0..Len(queue) : SaveFollows(r, i) => SaveFollows(r, i)'
    BY <2>1, <2>2, <2>3 DEF SaveFollows, IsSave
  <2>7. Undeleted(r)'
    <3>1. Len(queue) \in Nat
      BY EmptySeq DEF TypeOK
    <3>. QED  BY <2>1, <2>5, <2>6, <3>1 DEF Kept, Undeleted
  <2>8. SameInstant(r)'
    BY <2>1, <2>3, <2>4 DEF Kept, SameInstant
  <2>9. Arriving(r)'
    BY <2>1, <2>2, <2>3, <2>6, EmptySeq DEF Kept, Arriving, TypeOK
  <2>. QED  BY <2>1, <2>7, <2>8, <2>9 DEF Kept, Fresh, times
<1>3. ASSUME NEW h \in Handlers, Enqueue(h) PROVE Kept(r)'
  <2>1. /\ op[h] \in Ops /\ pc[h] = "enqueue" /\ ~IsDelete(op[h], Of[r])
        /\ op' = [op EXCEPT ![h] = NoOp] /\ pc' = [pc EXCEPT ![h] = "idle"]
        /\ Len(queue) \in Nat
        /\ Len(queue') = Len(queue) + 1 /\ queue'[Len(queue) + 1] = op[h]
        /\ \A j \in 1..Len(queue) : queue'[j] = queue[j]
        /\ UNCHANGED <<writer, table, memory, times>>
    BY <1>3, QueueGrows, Persisting DEF Enqueue, Kept, Undeleted
  <2>2. \A i \in 0..Len(queue) : SaveFollows(r, i) => SaveFollows(r, i)'
    BY <1>3, GrowthFollows
  <2>3. ~Deleting(Of[r])'
    BY <2>1 DEF Kept, Undeleted, Deleting, TypeOK
  <2>4. ASSUME NEW i \in 1..Len(queue')
        PROVE  (i \in 1..Len(queue) /\ queue'[i] = queue[i]) \/ queue'[i] = op[h]
    BY <2>1
  <2>5. Undeleted(r)'
    BY <2>1, <2>2, <2>3, <2>4 DEF Kept, Undeleted
  <2>6. SameInstant(r)'
    <3>1. \A i \in 1..Len(queue') : IsSave(queue'[i], r) => queue'[i].at = memory[r]
      BY <2>4 DEF Kept, SameInstant
    <3>2. \A g \in Handlers : op'[g] = op[g] \/ ~IsSave(op'[g], r)
      BY <2>1 DEF IsSave, TypeOK
    <3>. QED  BY <2>1, <3>1, <3>2 DEF Kept, SameInstant
  <2>7. \A g \in Handlers : pc[g] = "apply" => pc'[g] = "apply" /\ op'[g] = op[g]
    BY <2>1 DEF TypeOK
  <2>8. Arriving(r)'
    BY <2>1, <2>2, <2>7 DEF Kept, Arriving
  <2>. QED  BY <2>1, <2>5, <2>6, <2>8 DEF Kept, Fresh, times
<1>4. ASSUME NEW h \in Handlers, FallBack(h) PROVE Kept(r)'
  <2>1. /\ op[h] \in Ops /\ pc[h] = "enqueue" /\ pc' = [pc EXCEPT ![h] = "apply"]
        /\ UNCHANGED <<queue, writer, op, table, memory, times>>
        /\ raced' = raced \cup Crossed(op[h])
    BY <1>4, Busy DEF FallBack, Goto, channel
  <2>2. SameInstant(r)' /\ ~Deleting(Of[r])'
    BY <2>1 DEF Kept, SameInstant, Undeleted, Deleting
  <2>3. Len(queue) \in Nat
    BY EmptySeq DEF TypeOK
  <2>4. Undeleted(r)' /\ Arriving(r)'
    <3>1. CASE IsSave(op[h], r)
      <4>1. /\ ~IsDelete(writer, Of[r])
            /\ \A i \in 1..Len(queue) : ~IsDelete(queue[i], Of[r])
        BY <2>1, <3>1 DEF Crossed, Underway, IsSave, IsDelete
      <4>. QED  BY <2>1, <2>2, <3>1, <4>1 DEF Undeleted, Arriving, TypeOK
    <3>2. CASE ~IsSave(op[h], r)
      <4>1. \A i \in 0..Len(queue) : SaveFollows(r, i) => SaveFollows(r, i)'
        BY <2>1, <3>2 DEF SaveFollows, TypeOK
      <4>2. \A g \in Handlers : pc[g] = "apply" => pc'[g] = "apply"
        BY <2>1 DEF TypeOK
      <4>. QED  BY <2>1, <2>2, <2>3, <4>1, <4>2 DEF Kept, Undeleted, Arriving
    <3>. QED  BY <3>1, <3>2
  <2>. QED  BY <2>1, <2>2, <2>4 DEF Kept, Fresh, times
<1>5. ASSUME NEW h \in Handlers, Wait(h) PROVE Kept(r)'
  BY <1>5 DEF Wait, Goto, channel, times, ghost, Kept, Fresh, Undeleted, SameInstant,
       Arriving, SaveFollows, IsSave, IsDelete, Deleting, TypeOK
<1>6. ASSUME NEW h \in Handlers, Resume(h) PROVE Kept(r)'
  BY <1>6 DEF Resume, Done, Goto, channel, times, ghost, Kept, Fresh, Undeleted,
       SameInstant, Arriving, SaveFollows, IsSave, IsDelete, Deleting, TypeOK
<1>7. ASSUME NEW h \in Handlers, Apply(h) PROVE Kept(r)'
  <2>1. /\ op[h] \in Ops /\ pc[h] = "apply" /\ ~IsDelete(op[h], Of[r])
        /\ table' = After(op[h]) /\ UNCHANGED <<queue, writer, memory, times>>
    BY <1>7, Busy, Persisting DEF Apply, Kept, Undeleted, channel
  <2>2. \A g \in Handlers \ {h} : pc'[g] = pc[g] /\ op'[g] = op[g]
    BY <1>7 DEF Apply, Done, Goto, TypeOK
  <2>3. op'[h] \in {op[h], NoOp} /\ pc'[h] # "apply"
    BY <1>7 DEF Apply, Done, Goto, TypeOK
  <2>4. Len(queue) \in Nat
    BY EmptySeq DEF TypeOK
  <2>5. \A i \in 0..Len(queue) : SaveFollows(r, i) => SaveFollows(r, i)'
    BY <2>1, <2>2 DEF SaveFollows
  <2>6. ~Deleting(Of[r])'
    BY <2>2, <2>3 DEF Kept, Undeleted, Deleting
  <2>7. Undeleted(r)'
    BY <2>1, <2>4, <2>5, <2>6 DEF Kept, Undeleted
  <2>8. SameInstant(r)'
    BY <2>1, <2>2, <2>3 DEF Kept, SameInstant, IsSave
  <2>9. Arriving(r)'
    <3>1. CASE IsSave(op[h], r)
      BY <2>1, <3>1 DEF Kept, SameInstant, Arriving, After, IsSave, TypeOK
    <3>2. CASE ~IsSave(op[h], r)
      <4>1. table'[r] = table[r]
        BY <2>1, <3>2 DEF After, IsSave, IsDelete, TypeOK
      <4>. QED  BY <2>1, <2>2, <2>4, <2>5, <3>2, <4>1 DEF Kept, Arriving
    <3>. QED  BY <3>1, <3>2
  <2>. QED  BY <2>1, <2>7, <2>8, <2>9 DEF Kept, Fresh, times
<1>8. ASSUME NEW h \in Handlers, Refused(h) PROVE Kept(r)'
  BY <1>8 DEF Refused, Done, Goto, channel, times, ghost, Kept, Fresh, Undeleted,
       SameInstant, Arriving, SaveFollows, IsSave, IsDelete, Deleting, TypeOK
<1>9. ASSUME NEW h \in Handlers, Sweep(h) PROVE Kept(r)'
  <2>1. /\ op[h] \in Ops /\ pc[h] = "sweep" /\ UNCHANGED <<queue, writer, memory, times>>
        /\ pc' = [pc EXCEPT ![h] = "idle"] /\ op' = [op EXCEPT ![h] = NoOp]
        /\ table' = table \/ table' = Swept
    BY <1>9, Busy DEF Sweep, Done, Goto, channel
  <2>2. table[r] = memory[r] => table'[r] = memory[r]
    BY <2>1 DEF Swept, Outlived, Kept, Fresh, TypeOK, Instants
  <2>3. \A g \in Handlers \ {h} : pc'[g] = pc[g] /\ op'[g] = op[g]
    BY <2>1 DEF TypeOK
  <2>4. Len(queue) \in Nat
    BY EmptySeq DEF TypeOK
  <2>5. \A i \in 0..Len(queue) : SaveFollows(r, i) => SaveFollows(r, i)'
    BY <2>1, <2>3 DEF SaveFollows
  <2>6. Undeleted(r)'
    BY <2>1, <2>4, <2>5 DEF Kept, Undeleted, Deleting, TypeOK
  <2>7. SameInstant(r)'
    BY <2>1 DEF Kept, SameInstant, IsSave, TypeOK
  <2>8. Arriving(r)'
    BY <2>1, <2>2, <2>3, <2>4, <2>5 DEF Kept, Arriving
  <2>. QED  BY <2>1, <2>6, <2>7, <2>8 DEF Kept, Fresh, times
<1>10. CASE TakeOp
  <2>1. /\ Receive /\ UNCHANGED <<op, table, memory, times>> /\ Len(queue) \in Nat \ {0}
        /\ writer = NoOp /\ writer' = queue[1]
        /\ \A j \in 1..(Len(queue) - 1) : queue'[j] = queue[j+1]
    BY <1>10, Received DEF TakeOp, Receive
  <2>2. \A i \in 1..Len(queue) : SaveFollows(r, i) => SaveFollows(r, i-1)'
    BY <1>10, ShrinkFollows
  <2>3. ASSUME NEW i \in 1..Len(queue')
        PROVE  \/ i+1 \in 1..Len(queue) /\ queue'[i] = queue[i+1]
               \/ \E g \in Handlers : queue'[i] = op[g]
    <3>1. CASE i \in 1..(Len(queue) - 1)
      BY <2>1, <3>1
    <3>2. CASE i \notin 1..(Len(queue) - 1)
      <4>1. waiting # <<>> /\ i = Len(queue)
        BY <2>1, <3>2, Received
      <4>. QED  BY <2>1, <4>1, Received
    <3>. QED  BY <3>1, <3>2
  <2>4. Undeleted(r)'
    <3>1. ~Deleting(Of[r])'
      BY <2>1 DEF Kept, Undeleted, Deleting
    <3>2. IsDelete(writer', Of[r]) => SaveFollows(r, 0)'
      BY <2>1, <2>2 DEF Kept, Undeleted
    <3>3. ASSUME NEW i \in 1..Len(queue'), IsDelete(queue'[i], Of[r])
          PROVE  SaveFollows(r, i)'
      <4>1. i+1 \in 1..Len(queue) /\ IsDelete(queue[i+1], Of[r]) /\ (i+1)-1 = i
        BY <2>3, <3>3, Persisting DEF Kept, Undeleted
      <4>2. SaveFollows(r, i+1)
        BY <4>1 DEF Kept, Undeleted
      <4>. QED  BY <2>2, <4>1, <4>2
    <3>. QED  BY <3>1, <3>2, <3>3 DEF Undeleted
  <2>5. SameInstant(r)'
    BY <2>1, <2>3 DEF Kept, SameInstant
  <2>6. Arriving(r)'
    <3>1. CASE SaveFollows(r, 0)
      <4>1. CASE IsSave(queue[1], r)
        BY <2>1, <4>1 DEF Arriving
      <4>2. CASE ~IsSave(queue[1], r)
        <5>1. SaveFollows(r, 1)
          BY <2>1, <3>1, <4>2 DEF SaveFollows
        <5>. QED  BY <2>1, <2>2, <5>1 DEF Arriving
      <4>. QED  BY <4>1, <4>2
    <3>2. ASSUME NEW g \in Handlers, pc[g] = "apply" PROVE pc'[g] = "apply"
      BY <2>1, <3>2, Received DEF TypeOK
    <3>3. ~IsSave(writer, r)
      BY <2>1 DEF IsSave
    <3>. QED  BY <2>1, <3>1, <3>2, <3>3 DEF Kept, Arriving
  <2>. QED  BY <2>1, <2>4, <2>5, <2>6 DEF Kept, Fresh, times
<1>11. CASE Write
  <2>1. /\ writer \in Ops /\ table' = After(writer) /\ UNCHANGED <<queue, pc, op>>
        /\ writer' \notin Ops /\ UNCHANGED <<memory, times>>
    BY <1>11 DEF Write, channel
  <2>2. Len(queue) \in Nat
    BY EmptySeq DEF TypeOK
  <2>3. \A i \in 0..Len(queue) : SaveFollows(r, i) => SaveFollows(r, i)'
    BY <2>1 DEF SaveFollows
  <2>4. Undeleted(r)' /\ SameInstant(r)'
    BY <2>1, <2>2, <2>3 DEF Kept, Undeleted, Deleting, SameInstant, IsSave, IsDelete
  <2>5. CASE IsSave(writer, r)
    <3>1. table'[r] = memory[r]
      BY <2>1, <2>5 DEF After, IsSave, Kept, SameInstant, TypeOK
    <3>. QED  BY <2>1, <2>4, <3>1 DEF Kept, Arriving, Fresh, times
  <2>6. CASE IsDelete(writer, Of[r])
    BY <2>1, <2>2, <2>3, <2>4, <2>6 DEF Kept, Undeleted, Arriving, Fresh, times
  <2>7. CASE ~IsSave(writer, r) /\ ~IsDelete(writer, Of[r])
    <3>1. table'[r] = table[r]
      BY <2>1, <2>7 DEF After, IsSave, IsDelete, TypeOK
    <3>. QED  BY <2>1, <2>2, <2>3, <2>4, <2>7, <3>1 DEF Kept, Arriving, Fresh, times
  <2>. QED  BY <2>5, <2>6, <2>7
<1>12. CASE SweepAfterWrite
  <2>1. /\ writer \notin Ops /\ writer' \notin Ops /\ table' = Swept
        /\ UNCHANGED <<queue, pc, op, memory, times>>
    BY <1>12 DEF SweepAfterWrite, channel
  <2>2. table[r] = memory[r] => table'[r] = memory[r]
    BY <2>1 DEF Swept, Outlived, Kept, Fresh, TypeOK, Instants
  <2>3. Len(queue) \in Nat
    BY EmptySeq DEF TypeOK
  <2>4. \A i \in 0..Len(queue) : SaveFollows(r, i) => SaveFollows(r, i)'
    BY <2>1 DEF SaveFollows
  <2>5. Undeleted(r)' /\ SameInstant(r)'
    BY <2>1, <2>3, <2>4 DEF Kept, Undeleted, Deleting, SameInstant, IsSave, IsDelete
  <2>6. Arriving(r)'
    BY <2>1, <2>2, <2>3, <2>4 DEF Kept, Arriving, IsSave
  <2>. QED  BY <2>1, <2>5, <2>6 DEF Kept, Fresh, times
<1>13. CASE Prune
  <2>1. memory'[r] = memory[r] /\ UNCHANGED <<queue, writer, table, pc, op, times>>
    BY <1>13 DEF Prune, Pruned, TypeOK, channel
  <2>. QED  BY <2>1 DEF Kept, Fresh, Undeleted, SameInstant, Arriving, Deleting,
            SaveFollows, IsSave, IsDelete, times
<1>14. CASE StartClose
  BY <1>14 DEF StartClose, channel, times, ghost, Kept, Fresh, Undeleted, SameInstant,
       Arriving, SaveFollows, IsSave, IsDelete, Deleting, TypeOK
<1>15. CASE CloseQueue
  BY <1>15 DEF CloseQueue, channel, times, ghost, Kept, Fresh, Undeleted, SameInstant,
       Arriving, SaveFollows, IsSave, IsDelete, Deleting, TypeOK
<1>16. CASE CloseStore
  BY <1>16 DEF CloseStore, channel, times, ghost, Kept, Fresh, Undeleted, SameInstant,
       Arriving, SaveFollows, IsSave, IsDelete, Deleting, TypeOK
<1>17. CASE Restart
  <2>1. /\ table' = Swept /\ memory' = Swept /\ queue' = <<>> /\ writer' = NoOp
        /\ op' = [h \in Handlers |-> NoOp] /\ ttl' = writerTTL
        /\ UNCHANGED <<writerTTL, clock>>
    BY <1>17 DEF Restart
  <2>2. memory'[r] = table[r] /\ ~Outlived(table[r], writerTTL)
    BY <2>1 DEF Swept
  <2>3. Fresh(r)'
    BY <2>1, <2>2 DEF Fresh, Outlived, TypeOK, Instants
  <2>4. Undeleted(r)' /\ SameInstant(r)'
    BY <2>1, EmptySeq DEF Undeleted, SameInstant, Deleting, IsSave, IsDelete
  <2>. QED  BY <2>1, <2>3, <2>4 DEF Kept, Arriving
<1>18. CASE Tick
  <2>1. r \in saved
    BY DEF OnlySaved
  <2>2. /\ UNCHANGED <<memory, table, queue, writer, pc, op, ttl, writerTTL>>
        /\ clock' = clock + 1
        /\ r \notin Lapsing(clock + 1, ttl) \cup Lapsing(clock + 1, writerTTL)
    BY <1>18 DEF Tick, channel
  <2>3. Fresh(r)'
    BY <2>1, <2>2 DEF Lapsing, Fresh, TypeOK, Instants
  <2>. QED  BY <2>2, <2>3 DEF Kept, Undeleted, SameInstant, Arriving, Deleting,
            SaveFollows, IsSave, IsDelete
<1>19. CASE SetTTL
  BY <1>19 DEF SetTTL, channel, Kept, Fresh, Undeleted, SameInstant, Arriving,
     Deleting, SaveFollows, IsSave, IsDelete
<1>20. ASSUME NEW life \in TTLs, SetWriterTTL(life) PROVE Kept(r)'
  <2>1. r \in saved
    BY DEF OnlySaved
  <2>2. /\ UNCHANGED <<memory, table, queue, writer, pc, op, ttl, clock>>
        /\ writerTTL' = life /\ r \notin Lapsing(clock, life)
    BY <1>20 DEF SetWriterTTL, channel
  <2>3. Fresh(r)'
    BY <2>1, <2>2 DEF Lapsing, Kept, Fresh, TypeOK, Instants
  <2>. QED  BY <2>2, <2>3 DEF Kept, Undeleted, SameInstant, Arriving, Deleting,
            SaveFollows, IsSave, IsDelete
<1>21. CASE UNCHANGED vars
  BY <1>21 DEF vars, channel, times, ghost, Kept, Fresh, Undeleted, SameInstant,
       Arriving, SaveFollows, IsSave, IsDelete, Deleting, TypeOK
<1>. QED  BY <1>1, <1>2, <1>3, <1>4, <1>5, <1>6, <1>7, <1>8, <1>9, <1>10, <1>11,
          <1>12, <1>13, <1>14, <1>15, <1>16, <1>17, <1>18, <1>19, <1>20, <1>21
     DEF Next, HandlerStep, WriterStep, CloseStep

-----------------------------------------------------------------------------
(* Only responses that were created are anywhere.                          *)

NeverSaved(r) ==
  /\ r \notin saved /\ memory[r] = Never /\ table[r] = Never /\ ~IsSave(writer, r)
  /\ \A h \in Handlers : ~IsSave(op[h], r)
  /\ \A i \in 1..Len(queue) : ~IsSave(queue[i], r)

LEMMA OnlySavedSays ==
  ASSUME TypeOK
  PROVE  OnlySaved <=> \A r \in Responses : r \notin saved => NeverSaved(r)
BY Persisting DEF OnlySaved, NeverSaved

LEMMA NeverSavedStays ==
  ASSUME TypeOK, HandlersShape, [Next]_vars,
         NEW r \in Responses, r \notin saved', NeverSaved(r)
  PROVE  NeverSaved(r)'
<1>. USE PersistenceAssumption, OpsDiffer
<1>1. ASSUME NEW h \in Handlers, NEW r1 \in Responses, Save(h, r1)
      PROVE  NeverSaved(r)'
  <2>1. saved' = saved \cup {r1} /\ r \notin saved /\ r # r1
    BY <1>1 DEF Save
  <2>2. /\ memory'[r] = Never \/ memory'[r] = memory[r]
        /\ UNCHANGED <<queue, writer, table>>
    BY <1>1, <2>1 DEF Save, Pruned, TypeOK, channel
  <2>3. \A g \in Handlers : op'[g] = op[g] \/ ~IsSave(op'[g], r)
    BY <1>1, <2>1 DEF Save, SaveOp, IsSave, TypeOK
  <2>. QED  BY <2>1, <2>2, <2>3 DEF NeverSaved
<1>2. ASSUME NEW h \in Handlers, NEW c \in Conversations, Delete(h, c)
      PROVE  NeverSaved(r)'
  BY <1>2 DEF Delete, Goto, DeleteOp, channel, times, ghost, NeverSaved, IsSave, TypeOK
<1>3. ASSUME NEW h \in Handlers, Enqueue(h) PROVE NeverSaved(r)'
  <2>1. /\ Len(queue) \in Nat /\ Len(queue') = Len(queue) + 1
        /\ queue'[Len(queue) + 1] = op[h]
        /\ \A j \in 1..Len(queue) : queue'[j] = queue[j]
        /\ op' = [op EXCEPT ![h] = NoOp] /\ UNCHANGED <<writer, table, memory, saved>>
    BY <1>3, QueueGrows DEF Enqueue
  <2>2. \A i \in 1..Len(queue') : i \in 1..Len(queue) \/ queue'[i] = op[h]
    BY <2>1
  <2>3. \A g \in Handlers : op'[g] = op[g] \/ ~IsSave(op'[g], r)
    BY <2>1 DEF IsSave, TypeOK
  <2>. QED  BY <2>1, <2>2, <2>3 DEF NeverSaved
<1>4. ASSUME NEW h \in Handlers, FallBack(h) PROVE NeverSaved(r)'
  BY <1>4 DEF FallBack, Goto, channel, times, ghost, NeverSaved, IsSave, TypeOK
<1>5. ASSUME NEW h \in Handlers, Wait(h) PROVE NeverSaved(r)'
  BY <1>5 DEF Wait, Goto, channel, times, ghost, NeverSaved, IsSave, TypeOK
<1>6. ASSUME NEW h \in Handlers, Resume(h) PROVE NeverSaved(r)'
  BY <1>6 DEF Resume, Done, Goto, channel, times, ghost, NeverSaved, IsSave, TypeOK
<1>7. ASSUME NEW h \in Handlers, Apply(h) PROVE NeverSaved(r)'
  <2>1. op[h] \in Ops /\ ~IsSave(op[h], r)
    BY <1>7, Busy DEF Apply, NeverSaved
  <2>2. table'[r] \in {Never, table[r]}
    BY <1>7, <2>1 DEF Apply, After, IsSave, TypeOK
  <2>3. \A g \in Handlers : op'[g] = op[g] \/ op'[g] = NoOp
    BY <1>7 DEF Apply, Done, TypeOK
  <2>. QED  BY <1>7, <2>2, <2>3 DEF Apply, NeverSaved, IsSave, channel
<1>8. ASSUME NEW h \in Handlers, Refused(h) PROVE NeverSaved(r)'
  BY <1>8 DEF Refused, Done, Goto, channel, times, ghost, NeverSaved, IsSave, TypeOK
<1>9. ASSUME NEW h \in Handlers, Sweep(h) PROVE NeverSaved(r)'
  <2>1. table'[r] \in {Never, table[r]}
    BY <1>9 DEF Sweep, Swept
  <2>2. \A g \in Handlers : op'[g] = op[g] \/ op'[g] = NoOp
    BY <1>9 DEF Sweep, Done, TypeOK
  <2>. QED  BY <1>9, <2>1, <2>2 DEF Sweep, NeverSaved, IsSave, channel
<1>10. CASE TakeOp
  <2>1. /\ Receive /\ UNCHANGED <<op, table, memory, saved>> /\ Len(queue) \in Nat \ {0}
        /\ writer' = queue[1]
        /\ \A j \in 1..(Len(queue) - 1) : queue'[j] = queue[j+1]
    BY <1>10, Received DEF TakeOp, ghost
  <2>2. ASSUME NEW i \in 1..Len(queue') PROVE ~IsSave(queue'[i], r)
    <3>1. CASE i \in 1..(Len(queue) - 1)
      <4>1. i+1 \in 1..Len(queue) /\ queue'[i] = queue[i+1]
        BY <2>1, <3>1
      <4>. QED  BY <4>1 DEF NeverSaved
    <3>2. CASE i \notin 1..(Len(queue) - 1)
      <4>1. waiting # <<>> /\ i = Len(queue)
        BY <2>1, <3>2, Received
      <4>2. waiting[1] \in Handlers /\ queue'[i] = op[waiting[1]]
        BY <2>1, <4>1, Received
      <4>. QED  BY <4>2 DEF NeverSaved
    <3>. QED  BY <3>1, <3>2
  <2>3. ~IsSave(writer', r)
    BY <2>1 DEF NeverSaved
  <2>. QED  BY <2>1, <2>2, <2>3 DEF NeverSaved
<1>11. CASE Write
  <2>1. table'[r] \in {Never, table[r]}
    BY <1>11 DEF Write, After, NeverSaved, IsSave, TypeOK
  <2>. QED  BY <1>11, <2>1 DEF Write, NeverSaved, IsSave, channel, ghost
<1>12. CASE SweepAfterWrite
  <2>1. table'[r] \in {Never, table[r]}
    BY <1>12 DEF SweepAfterWrite, Swept
  <2>. QED  BY <1>12, <2>1 DEF SweepAfterWrite, NeverSaved, IsSave, channel, ghost
<1>13. CASE Prune
  <2>1. memory'[r] \in {Never, memory[r]}
    BY <1>13 DEF Prune, Pruned
  <2>. QED  BY <1>13, <2>1 DEF Prune, NeverSaved, IsSave, channel, ghost
<1>14. CASE StartClose
  BY <1>14 DEF StartClose, channel, times, ghost, NeverSaved, IsSave, TypeOK
<1>15. CASE CloseQueue
  BY <1>15 DEF CloseQueue, channel, times, ghost, NeverSaved, IsSave, TypeOK
<1>16. CASE CloseStore
  BY <1>16 DEF CloseStore, channel, times, ghost, NeverSaved, IsSave, TypeOK
<1>17. CASE Restart
  <2>1. table'[r] = Never /\ memory'[r] = Never
    BY <1>17 DEF Restart, Swept, NeverSaved
  <2>. QED  BY <1>17, <2>1, EmptySeq DEF Restart, NeverSaved, IsSave
<1>18. CASE Tick
  BY <1>18 DEF Tick, channel, times, ghost, NeverSaved, IsSave, TypeOK
<1>19. CASE SetTTL
  BY <1>19 DEF SetTTL, channel, times, ghost, NeverSaved, IsSave, TypeOK
<1>20. ASSUME NEW life \in TTLs, SetWriterTTL(life) PROVE NeverSaved(r)'
  BY <1>20 DEF SetWriterTTL, channel, times, ghost, NeverSaved, IsSave, TypeOK
<1>21. CASE UNCHANGED vars
  BY <1>21 DEF vars, channel, times, ghost, NeverSaved, IsSave, TypeOK
<1>. QED  BY <1>1, <1>2, <1>3, <1>4, <1>5, <1>6, <1>7, <1>8, <1>9, <1>10, <1>11,
          <1>12, <1>13, <1>14, <1>15, <1>16, <1>17, <1>18, <1>19, <1>20, <1>21
     DEF Next, HandlerStep, WriterStep, CloseStep

\* What has happened to a response is not forgotten.
LEMMA GhostsGrow ==
  ASSUME [Next]_vars
  PROVE  /\ saved \subseteq saved' /\ deleted \subseteq deleted'
         /\ raced \subseteq raced' /\ lapsed \subseteq lapsed'
BY DEF Next, vars, HandlerStep, WriterStep, CloseStep, Save, Delete, Enqueue, FallBack,
   Wait, Resume, Apply, Refused, Sweep, TakeOp, Write, SweepAfterWrite, Prune,
   StartClose, CloseQueue, CloseStore, Restart, Tick, SetTTL, SetWriterTTL, ghost

LEMMA OnlySavedStep ==
  ASSUME TypeOK, HandlersShape, OnlySaved, TypeOK', [Next]_vars PROVE OnlySaved'
<1>1. ASSUME NEW r \in Responses, r \notin saved' PROVE NeverSaved(r)'
  <2>1. r \notin saved
    BY <1>1, GhostsGrow
  <2>. QED  BY <1>1, <2>1, OnlySavedSays, NeverSavedStays
<1>2. (OnlySaved <=> \A r \in Responses : r \notin saved => NeverSaved(r))'
  BY OnlySavedSays, PTL
<1>. QED  BY <1>1, <1>2

-----------------------------------------------------------------------------
(* What enters the map and what leaves it.                        *)

LEMMA MapChanges ==
  ASSUME TypeOK, [Next]_vars, NEW r \in Responses
  PROVE  \/ memory'[r] = memory[r]
         \/ \E h \in Handlers : Save(h, r) \/ Delete(h, Of[r])
         \/ Restart
         \/ Outlived(memory[r], ttl)
<1>1. ASSUME NEW h \in Handlers, NEW r1 \in Responses, Save(h, r1), r1 # r
      PROVE  memory'[r] = memory[r] \/ Outlived(memory[r], ttl)
  BY <1>1 DEF Save, Pruned, TypeOK
<1>2. ASSUME NEW h \in Handlers, NEW c \in Conversations, Delete(h, c), c # Of[r]
      PROVE  memory'[r] = memory[r]
  BY <1>2 DEF Delete
<1>3. ASSUME Prune PROVE memory'[r] = memory[r] \/ Outlived(memory[r], ttl)
  BY <1>3 DEF Prune, Pruned
<1>4. ASSUME NEW h \in Handlers, HandlerStep(h) PROVE memory' = memory
  BY <1>4 DEF HandlerStep, Enqueue, FallBack, Wait, Resume, Apply, Refused, Sweep
<1>5. ASSUME WriterStep \/ StartClose \/ CloseStep \/ Tick \/ SetTTL
             \/ (\E life \in TTLs : SetWriterTTL(life)) \/ UNCHANGED vars
      PROVE  memory' = memory
  BY <1>5 DEF WriterStep, TakeOp, Write, SweepAfterWrite, StartClose, CloseStep,
     CloseQueue, CloseStore, Tick, SetTTL, SetWriterTTL, vars
<1>. QED  BY <1>1, <1>2, <1>3, <1>4, <1>5 DEF Next

LEMMA SavedChanges ==
  ASSUME [Next]_vars, NEW r \in Responses, r \in saved', r \notin saved
  PROVE  \E h \in Handlers : Save(h, r)
BY DEF Next, vars, HandlerStep, WriterStep, CloseStep, Save, Delete, Enqueue, FallBack,
   Wait, Resume, Apply, Refused, Sweep, TakeOp, Write, SweepAfterWrite, Prune,
   StartClose, CloseQueue, CloseStore, Restart, Tick, SetTTL, SetWriterTTL, ghost

LEMMA DeletedChanges ==
  ASSUME [Next]_vars, NEW r \in Responses, r \in deleted', r \notin deleted
  PROVE  \E h \in Handlers : Delete(h, Of[r])
BY DEF Next, vars, HandlerStep, WriterStep, CloseStep, Save, Delete, Enqueue, FallBack,
   Wait, Resume, Apply, Refused, Sweep, TakeOp, Write, SweepAfterWrite, Prune,
   StartClose, CloseQueue, CloseStore, Restart, Tick, SetTTL, SetWriterTTL, ghost

\* A deletion is on its way as soon as the map has carried it out.
LEMMA DeleteMakesGone ==
  ASSUME TypeOK, HandlersShape, NEW r \in Responses, NEW h \in Handlers,
         Delete(h, Of[r]), r \notin raced'
  PROVE  memory'[r] = Never /\ Gone(r)'
<1>. USE PersistenceAssumption, OpsDiffer
<1>1. /\ memory'[r] = Never /\ op' = [op EXCEPT ![h] = DeleteOp(Of[r])]
      /\ pc' = [pc EXCEPT ![h] = "enqueue"] /\ UNCHANGED <<queue, writer, table>>
      /\ ~Saving(r)
  BY DEF Delete, Goto, channel
<1>2. IsDelete(DeleteOp(Of[r]), Of[r])
  BY OpsMade
<1>3. pc'[h] = "enqueue" /\ IsDelete(op'[h], Of[r])
  BY <1>1, <1>2 DEF TypeOK
<1>4. \A i \in 0..Len(queue) : DeleteFollows(Of[r], i)'
  BY <1>3 DEF DeleteFollows
<1>5. ~Saving(r)'
  BY <1>1 DEF Saving, DeleteOp, TypeOK
<1>. QED  BY <1>1, <1>4, <1>5, EmptySeq DEF Gone, TypeOK

\* After a restart the map and the table agree, and nothing is on its way.
LEMMA RestartAgrees ==
  ASSUME TypeOK, NEW r \in Responses, Restart
  PROVE  /\ memory'[r] = Never => Gone(r)'
         /\ memory'[r] # Never => Kept(r)'
<1>. USE OpsDiffer
<1>1. /\ table' = Swept /\ memory' = Swept /\ queue' = <<>> /\ writer' = NoOp
      /\ op' = [h \in Handlers |-> NoOp] /\ ttl' = writerTTL
      /\ UNCHANGED <<writerTTL, clock>>
  BY DEF Restart
<1>2. memory'[r] = Never => Gone(r)'
  BY <1>1, EmptySeq DEF Gone, Saving, IsSave
<1>3. ASSUME memory'[r] # Never PROVE Kept(r)'
  <2>1. memory'[r] = table[r] /\ ~Outlived(table[r], writerTTL) /\ table'[r] = table[r]
    BY <1>1, <1>3 DEF Swept
  <2>2. Fresh(r)'
    <3>1. table[r] # Never /\ clock - table[r] <= writerTTL
      BY <1>3, <2>1, PersistenceAssumption DEF Outlived, TypeOK, Instants
    <3>. QED  BY <1>1, <2>1, <3>1 DEF Fresh
  <2>3. Undeleted(r)' /\ SameInstant(r)'
    BY <1>1, EmptySeq DEF Undeleted, SameInstant, Deleting, IsSave, IsDelete
  <2>. QED  BY <2>1, <2>2, <2>3 DEF Kept, Arriving
<1>. QED  BY <1>2, <1>3

\* A new response is on its way, and nothing else is about it.
LEMMA SaveMakesKept ==
  ASSUME TypeOK, HandlersShape, OnlySaved, NEW r \in Responses, NEW h \in Handlers,
         Save(h, r), r \notin raced'
  PROVE  memory'[r] # Never /\ Kept(r)'
<1>. USE PersistenceAssumption, OpsDiffer
<1>1. /\ memory'[r] = clock /\ op' = [op EXCEPT ![h] = SaveOp(r)] /\ ~Deleting(Of[r])
      /\ pc' = [pc EXCEPT ![h] = "enqueue"] /\ UNCHANGED <<queue, writer, table, times>>
  BY DEF Save, Goto, Pruned, TypeOK, channel
<1>2. NeverSaved(r)
  BY OnlySavedSays DEF Save
<1>3. /\ pc'[h] = "enqueue" /\ op'[h] = SaveOp(r)
      /\ \A g \in Handlers \ {h} : op'[g] = op[g]
  BY <1>1 DEF TypeOK
<1>4. IsSave(SaveOp(r), r) /\ SaveOp(r).at = clock /\ SaveOp(r).kind = "save"
  BY OpsMade DEF IsSave
<1>5. \A i \in 0..Len(queue) : SaveFollows(r, i)'
  BY <1>3, <1>4 DEF SaveFollows
<1>6. Len(queue) \in Nat /\ clock \in Nat
  BY EmptySeq DEF TypeOK
<1>7. Fresh(r)' /\ memory'[r] # Never
  BY <1>1, <1>6 DEF Fresh, times, TypeOK
<1>8. ~Deleting(Of[r])'
  BY <1>1, <1>3, <1>4 DEF Deleting
<1>9. Undeleted(r)'
  BY <1>1, <1>5, <1>6, <1>8 DEF Undeleted
<1>10. SameInstant(r)'
  BY <1>1, <1>2, <1>3, <1>4 DEF SameInstant, NeverSaved
<1>. QED  BY <1>5, <1>6, <1>7, <1>9, <1>10 DEF Kept, Arriving

LEMMA ConsistentStep ==
  ASSUME TypeOK, HandlersShape, OnlySaved, Consistent, TypeOK', [Next]_vars
  PROVE  Consistent'
<1>. SUFFICES ASSUME NEW r \in Responses, r \notin lapsed' \cup raced'
              PROVE  IF memory'[r] = Never THEN Gone(r)' ELSE Kept(r)'
  BY DEF Consistent
<1>1. IF memory[r] = Never THEN Gone(r) ELSE Kept(r)
  BY GhostsGrow DEF Consistent
<1>2. CASE memory[r] = Never /\ memory'[r] = Never
  BY <1>1, <1>2, GoneStays
<1>3. CASE memory[r] # Never /\ memory'[r] # Never
  BY <1>1, <1>3, KeptStays
<1>4. CASE memory[r] = Never /\ memory'[r] # Never
  <2>1. Restart \/ \E h \in Handlers : Save(h, r)
    BY <1>4, MapChanges, DeleteMakesGone DEF Outlived
  <2>. QED  BY <1>4, <2>1, RestartAgrees, SaveMakesKept
<1>5. CASE memory[r] # Never /\ memory'[r] = Never
  <2>1. Restart \/ \E h \in Handlers : Delete(h, Of[r])
    <3>1. ~Outlived(memory[r], ttl)
      BY <1>1, <1>5, PersistenceAssumption DEF Kept, Fresh, Outlived, TypeOK, Instants
    <3>. QED  BY <1>5, <3>1, MapChanges, SaveMakesKept
  <2>. QED  BY <1>5, <2>1, RestartAgrees, DeleteMakesGone
<1>. QED  BY <1>2, <1>3, <1>4, <1>5

\* When Close has ended, what has not been persisted has been given up.
LEMMA ClosedAgrees ==
  ASSUME TypeOK, HandlersShape, ~Crashes, Restart,
         NEW r \in Responses, r \notin raced'
  PROVE  /\ Gone(r) => table[r] = Never
         /\ Kept(r) => table[r] = memory[r]
<1>. USE PersistenceAssumption, OpsDiffer
<1>1. queue = <<>> /\ writer = NoOp /\ ~Saving(r) /\ ~Deleting(Of[r])
  BY DEF Restart, HandlersShape
<1>2. /\ ~IsSave(writer, r) /\ ~IsDelete(writer, Of[r])
      /\ \A h \in Handlers : ~IsSave(op[h], r) /\ ~IsDelete(op[h], Of[r])
  BY <1>1, Persisting DEF IsSave, IsDelete
<1>3. ~SaveFollows(r, 0) /\ ~DeleteFollows(Of[r], 0)
  BY <1>1, <1>2, EmptySeq DEF SaveFollows, DeleteFollows
<1>. QED  BY <1>2, <1>3 DEF Gone, Kept, Arriving

LEMMA DeletedGoneStep ==
  ASSUME TypeOK, HandlersShape, TypeOK', ~Crashes, DeletedGone, [Next]_vars
  PROVE  DeletedGone'
<1>. SUFFICES ASSUME NEW r \in Responses, r \in deleted', r \notin raced'
              PROVE  memory'[r] = Never /\ Gone(r)'
  <2>1. deleted' \subseteq Responses
    BY DEF TypeOK
  <2>. QED  BY <2>1 DEF DeletedGone
<1>1. CASE r \notin deleted
  BY <1>1, DeletedChanges, DeleteMakesGone
<1>2. CASE r \in deleted
  <2>1. memory[r] = Never /\ Gone(r)
    BY <1>2, GhostsGrow DEF DeletedGone
  <2>2. \A h \in Handlers : ~Save(h, r)
    BY <1>2 DEF Save, TypeOK
  <2>3. Restart => memory'[r] = Never
    BY <2>1, ClosedAgrees DEF Restart, Swept
  <2>4. memory'[r] = Never
    BY <2>1, <2>2, <2>3, MapChanges, DeleteMakesGone DEF Outlived
  <2>. QED  BY <2>1, <2>4, GoneStays
<1>. QED  BY <1>1, <1>2

LEMMA SavedHeldStep ==
  ASSUME TypeOK, HandlersShape, OnlySaved, Consistent, TypeOK', ~Crashes,
         SavedHeld, [Next]_vars
  PROVE  SavedHeld'
<1>. SUFFICES ASSUME NEW r \in Responses, r \in saved', r \notin deleted',
                     r \notin lapsed', r \notin raced'
              PROVE  memory'[r] # Never
  <2>1. saved' \subseteq Responses
    BY DEF TypeOK
  <2>. QED  BY <2>1 DEF SavedHeld
<1>1. CASE r \notin saved
  <2>1. \E h \in Handlers : Save(h, r)
    BY <1>1, SavedChanges
  <2>. QED  BY <2>1, SaveMakesKept
<1>2. CASE r \in saved
  <2>1. memory[r] # Never /\ Kept(r)
    BY <1>2, GhostsGrow DEF SavedHeld, Consistent
  <2>2. \A h \in Handlers : ~Delete(h, Of[r])
    BY <1>2 DEF Delete
  <2>3. ~Outlived(memory[r], ttl) /\ ~Outlived(memory[r], writerTTL)
    BY <2>1, PersistenceAssumption DEF Kept, Fresh, Outlived, TypeOK, Instants
  <2>4. Restart => memory'[r] # Never
    BY <2>1, <2>3, ClosedAgrees DEF Restart, Swept
  <2>. QED  BY <2>1, <2>2, <2>3, <2>4, MapChanges, SaveMakesKept
<1>. QED  BY <1>1, <1>2

-----------------------------------------------------------------------------
(* The theorems.                                                           *)

LEMMA PersistenceInvariant == Spec => []IInv
<1>1. Init => IInv
  <2>. SUFFICES ASSUME Init PROVE IInv
    OBVIOUS
  <2>1. OnlySaved
    BY OpsDiffer, EmptySeq DEF Init, OnlySaved, Saving, IsSave
  <2>2. ASSUME NEW r \in Responses PROVE memory[r] = Never /\ Gone(r)
    BY OpsDiffer, EmptySeq DEF Init, Gone, Saving, IsSave
  <2>. QED  BY InitTypes, <2>1, <2>2 DEF IInv, Consistent
<1>2. IInv /\ [Next]_vars => IInv'
  BY TypesStep, HandlersStep, OnlySavedStep, ConsistentStep DEF IInv
<1>. QED  BY <1>1, <1>2, PTL DEF Spec

LEMMA OrderlyInvariant == ASSUME ~Crashes PROVE Spec => [](DeletedGone /\ SavedHeld)
<1>1. Init => DeletedGone /\ SavedHeld
  BY DEF Init, DeletedGone, SavedHeld
<1>2. IInv /\ IInv' /\ DeletedGone /\ SavedHeld /\ [Next]_vars
      => (DeletedGone /\ SavedHeld)'
  BY DeletedGoneStep, SavedHeldStep DEF IInv
<1>. QED  BY <1>1, <1>2, PersistenceInvariant, PTL DEF Spec

(* Every variable keeps its type, a full queue and a blocked handler's     *)
(* operation included; every response known or deleted has been created.   *)
THEOREM PersistenceTypeCorrect == Spec => []TypeOK
<1>1. IInv => TypeOK
  BY DEF IInv
<1>. QED  BY <1>1, PersistenceInvariant, PTL

(* Once every operation has been applied, the map and the table hold the   *)
(* same responses, whether or not the process crashes on the way.          *)
THEOREM TableFollows == Spec => []TableFollowsMemory
<1>1. IInv => TableFollowsMemory
  <2>. SUFFICES ASSUME IInv, AtRest, NEW r \in Responses, r \notin lapsed \cup raced
                PROVE  memory[r] = table[r]
    BY DEF TableFollowsMemory
  <2>. USE OpsDiffer
  <2>1. queue = <<>> /\ writer = NoOp /\ \A h \in Handlers : pc[h] = "idle"
    BY DEF AtRest
  <2>2. /\ ~IsSave(writer, r) /\ ~IsDelete(writer, Of[r])
        /\ ~SaveFollows(r, 0) /\ ~DeleteFollows(Of[r], 0)
    BY <2>1, EmptySeq DEF IsSave, IsDelete, SaveFollows, DeleteFollows
  <2>3. IF memory[r] = Never THEN Gone(r) ELSE Kept(r)
    BY DEF IInv, Consistent
  <2>. QED  BY <2>1, <2>2, <2>3 DEF Gone, Kept, Arriving
<1>. QED  BY <1>1, PersistenceInvariant, PTL

(* In a process that ends only by Close, a response a client knows can be  *)
(* read until it is deleted or outlives its lifetime.                      *)
THEOREM ResponsesReadable == ASSUME ~Crashes PROVE Spec => []Readable
<1>1. IInv /\ DeletedGone /\ SavedHeld => Readable
  BY DEF IInv, TypeOK, SavedHeld, Readable
<1>. QED  BY <1>1, PersistenceInvariant, OrderlyInvariant, PTL

(* In a process that ends only by Close, a response deleted with its       *)
(* conversation stays deleted, also when the process starts again.         *)
THEOREM DeletedStayDeleted == ASSUME ~Crashes PROVE Spec => []StaysDeleted
<1>1. DeletedGone /\ SavedHeld => StaysDeleted
  BY DEF DeletedGone, StaysDeleted
<1>. QED  BY <1>1, OrderlyInvariant, PTL

=============================================================================
