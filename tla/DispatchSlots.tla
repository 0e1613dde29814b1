--------------------------- MODULE DispatchSlots ---------------------------
(***************************************************************************)
(* The lock-free dispatch slots of the account pool (main.go): one slot    *)
(* object per configured account, with a maximum and a counter of the      *)
(* requests in flight, reached through an atomically replaced map.         *)
(*                                                                         *)
(* Requests acquire and release slots with compare-and-swap loops while    *)
(* ApplyConfig, under the server's mutex, rewrites the maxima, clamps the  *)
(* counters and publishes a new map.  A CAS loop is one step at its        *)
(* successful iteration; the loads that precede it (the map, the maximum)  *)
(* are steps of their own because another goroutine can move in between.   *)
(***************************************************************************)
EXTENDS Integers, FiniteSets

CONSTANTS
  Requests,    \* the goroutines serving API requests
  Accounts,    \* the e-mail keys that may be configured
  SlotIds,     \* the *accountSlot objects that can be allocated (a bound)
  MaxLimit,    \* the largest max_concurrency an administrator sets (a bound)
  NoSlot,      \* a nil *accountSlot
  NoAccount

ASSUME SlotsAssumption ==
  /\ IsFiniteSet(Requests)
  /\ MaxLimit \in Nat \ {0}
  /\ NoSlot \notin SlotIds
  /\ NoAccount \notin Accounts

VARIABLES
  slotMap,     \* ServerState.slots: the published map (NoSlot: no entry)
  slotMax,     \* accountSlot.max
  inflight,    \* accountSlot.inflight
  fresh,       \* slot objects not allocated yet
  gauge,       \* metrics.go dispatchInflight (-1: no series for the account)
  pc,          \* where each request is
  email,       \* the account the request works on
  slot,        \* the slot object the request has loaded
  seen,        \* the maximum the request has read, then the level its CAS set
  held,        \* ghost: the slot object on which the request was counted
  stage,       \* where ApplyConfig is: "idle", "slots" or "gauge"
  target,      \* the configuration being applied: 0 = account absent
  todo,        \* accounts the rebuild loop has not reached
  clamping,    \* account whose maximum is stored and counter not yet clamped
  next,        \* the map under construction
  highWater,   \* ghost: the largest maximum an account has had
  disturbed    \* ghost: accounts whose counter was clamped down or dropped

shared  == <<slotMap, slotMax, inflight, fresh>>
request == <<pc, email, slot, seen, held>>
rebuild == <<stage, target, todo, clamping, next>>
ghost   == <<highWater, disturbed>>
vars    == <<shared, gauge, request, rebuild, ghost>>

NoMap == [a \in Accounts |-> NoSlot]

Init ==
  /\ slotMap = NoMap
  /\ slotMax = [s \in SlotIds |-> 0]
  /\ inflight = [s \in SlotIds |-> 0]
  /\ fresh = SlotIds
  /\ gauge = [a \in Accounts |-> -1]
  /\ pc = [r \in Requests |-> "idle"]
  /\ email = [r \in Requests |-> NoAccount]
  /\ slot = [r \in Requests |-> NoSlot]
  /\ seen = [r \in Requests |-> 0]
  /\ held = [r \in Requests |-> NoSlot]
  /\ stage = "idle"
  /\ target = [a \in Accounts |-> 0]
  /\ todo = {}
  /\ clamping = NoAccount
  /\ next = NoMap
  /\ highWater = [a \in Accounts |-> 0]
  /\ disturbed = {}

----------------------------------------------------------------------------
(* TryAcquireAccountDispatchSlot.  An account without an entry is refused  *)
(* at once, which changes nothing.                                         *)

LookUp(r, a) ==
  /\ pc[r] = "idle"
  /\ slotMap[a] # NoSlot
  /\ pc' = [pc EXCEPT ![r] = "found"]
  /\ email' = [email EXCEPT ![r] = a]
  /\ slot' = [slot EXCEPT ![r] = slotMap[a]]
  /\ UNCHANGED <<shared, gauge, seen, held, rebuild, ghost>>

ReadMax(r) ==
  /\ pc[r] = "found"
  /\ pc' = [pc EXCEPT ![r] = "ready"]
  /\ seen' = [seen EXCEPT ![r] = slotMax[slot[r]]]
  /\ UNCHANGED <<shared, gauge, email, slot, held, rebuild, ghost>>

\* The local state of a goroutine that has returned.
Return(r) ==
  /\ pc' = [pc EXCEPT ![r] = "idle"]
  /\ email' = [email EXCEPT ![r] = NoAccount]
  /\ slot' = [slot EXCEPT ![r] = NoSlot]
  /\ seen' = [seen EXCEPT ![r] = 0]
  /\ held' = [held EXCEPT ![r] = NoSlot]

Reject(r) ==
  /\ pc[r] = "ready"
  /\ inflight[slot[r]] >= seen[r]
  /\ Return(r)
  /\ UNCHANGED <<shared, gauge, rebuild, ghost>>

\* Seeded bug: the limit itself is still admitted.
AdmitOneTooMany(r) ==
  /\ pc[r] = "ready"
  /\ inflight[slot[r]] <= seen[r]
  /\ inflight' = [inflight EXCEPT ![slot[r]] = @ + 1]
  /\ pc' = [pc EXCEPT ![r] = "admitted"]
  /\ seen' = [seen EXCEPT ![r] = inflight[slot[r]] + 1]
  /\ held' = [held EXCEPT ![r] = slot[r]]
  /\ UNCHANGED <<slotMap, slotMax, fresh, gauge, email, slot, rebuild, ghost>>

Admit(r) ==
  /\ pc[r] = "ready"
  /\ inflight[slot[r]] < seen[r]
  /\ inflight' = [inflight EXCEPT ![slot[r]] = @ + 1]
  /\ pc' = [pc EXCEPT ![r] = "admitted"]
  /\ seen' = [seen EXCEPT ![r] = inflight[slot[r]] + 1]
  /\ held' = [held EXCEPT ![r] = slot[r]]
  /\ UNCHANGED <<slotMap, slotMax, fresh, gauge, email, slot, rebuild, ghost>>

\* setDispatchSlotInflight runs after the CAS, not with it.
GaugeUp(r) ==
  /\ pc[r] = "admitted"
  /\ gauge' = [gauge EXCEPT ![email[r]] = seen[r]]
  /\ pc' = [pc EXCEPT ![r] = "running"]
  /\ UNCHANGED <<shared, email, slot, seen, held, rebuild, ghost>>

----------------------------------------------------------------------------
(* ReleaseAccountDispatchSlot looks the account up again, in the map       *)
(* published now: the slot it gives back need not be the one acquired.     *)

Finish(r) ==
  /\ pc[r] = "running"
  /\ slotMap[email[r]] # NoSlot
  /\ pc' = [pc EXCEPT ![r] = "releasing"]
  /\ slot' = [slot EXCEPT ![r] = slotMap[email[r]]]
  /\ UNCHANGED <<shared, gauge, email, seen, held, rebuild, ghost>>

FinishRemoved(r) ==
  /\ pc[r] = "running"
  /\ slotMap[email[r]] = NoSlot
  /\ Return(r)
  /\ UNCHANGED <<shared, gauge, rebuild, ghost>>

\* Seeded bug: the release does not stop at zero.
GiveBackBelowZero(r) ==
  /\ pc[r] = "releasing"
  /\ inflight' = [inflight EXCEPT ![slot[r]] = @ - 1]
  /\ seen' = [seen EXCEPT ![r] = inflight[slot[r]] - 1]
  /\ pc' = [pc EXCEPT ![r] = "released"]
  /\ held' = [held EXCEPT ![r] = NoSlot]
  /\ UNCHANGED <<slotMap, slotMax, fresh, gauge, email, slot, rebuild, ghost>>

\* Seeded bug: a release whose compare-and-swap loses is not retried.
GiveBackMayLose(r) ==
  /\ pc[r] = "releasing"
  /\ \E level \in {inflight[slot[r]],
                   IF inflight[slot[r]] > 0 THEN inflight[slot[r]] - 1 ELSE 0} :
       /\ inflight' = [inflight EXCEPT ![slot[r]] = level]
       /\ seen' = [seen EXCEPT ![r] = level]
  /\ pc' = [pc EXCEPT ![r] = "released"]
  /\ held' = [held EXCEPT ![r] = NoSlot]
  /\ UNCHANGED <<slotMap, slotMax, fresh, gauge, email, slot, rebuild, ghost>>

GiveBack(r) ==
  /\ pc[r] = "releasing"
  /\ LET level == IF inflight[slot[r]] > 0 THEN inflight[slot[r]] - 1 ELSE 0
     IN  /\ inflight' = [inflight EXCEPT ![slot[r]] = level]
         /\ seen' = [seen EXCEPT ![r] = level]
  /\ pc' = [pc EXCEPT ![r] = "released"]
  /\ held' = [held EXCEPT ![r] = NoSlot]
  /\ UNCHANGED <<slotMap, slotMax, fresh, gauge, email, slot, rebuild, ghost>>

GaugeDown(r) ==
  /\ pc[r] = "released"
  /\ gauge' = [gauge EXCEPT ![email[r]] = seen[r]]
  /\ Return(r)
  /\ UNCHANGED <<shared, rebuild, ghost>>

(* The release calls are not deferred: a panic inside the upstream run is  *)
(* recovered by ServeHTTP, and the slot stays counted.                     *)
Panic(r) ==
  /\ pc[r] = "running"
  /\ pc' = [pc EXCEPT ![r] = "panicked"]
  /\ UNCHANGED <<shared, gauge, email, slot, seen, held, rebuild, ghost>>

----------------------------------------------------------------------------
(* ApplyConfig -> rebuildAccountSlotsLocked, serialised by ServerState.mu. *)

StartApply(config) ==
  /\ stage = "idle"
  /\ Cardinality({a \in Accounts : config[a] > 0 /\ slotMap[a] = NoSlot})
       <= Cardinality(fresh)
  /\ stage' = "slots"
  /\ target' = config
  /\ todo' = {a \in Accounts : config[a] > 0}
  /\ next' = NoMap
  /\ UNCHANGED <<shared, gauge, request, clamping, ghost>>

Higher(a) == IF target[a] > highWater[a] THEN target[a] ELSE highWater[a]

\* An account that already has a slot keeps the object: first its maximum ...
KeepSlot(a) ==
  /\ stage = "slots" /\ clamping = NoAccount /\ a \in todo
  /\ slotMap[a] # NoSlot
  /\ slotMax' = [slotMax EXCEPT ![slotMap[a]] = target[a]]
  /\ highWater' = [highWater EXCEPT ![a] = Higher(a)]
  /\ clamping' = a
  /\ todo' = todo \ {a}
  /\ UNCHANGED <<slotMap, inflight, fresh, gauge, request, stage, target, next,
                 disturbed>>

\* Seeded bug: every reload starts the counters again from zero.
ClampToZero ==
  /\ stage = "slots" /\ clamping # NoAccount
  /\ inflight' = [inflight EXCEPT ![slotMap[clamping]] = 0]
  /\ next' = [next EXCEPT ![clamping] = slotMap[clamping]]
  /\ clamping' = NoAccount
  /\ UNCHANGED <<slotMap, slotMax, fresh, gauge, request, stage, target, todo,
                 ghost>>

\* ... then clampSlotInFlight cuts its counter down to the new maximum.
Clamp ==
  /\ stage = "slots" /\ clamping # NoAccount
  /\ LET s == slotMap[clamping]
     IN  /\ inflight' = [inflight EXCEPT ![s] =
                           IF @ > target[clamping] THEN target[clamping] ELSE @]
         /\ disturbed' = IF inflight[s] > target[clamping]
                         THEN disturbed \cup {clamping} ELSE disturbed
         /\ next' = [next EXCEPT ![clamping] = s]
  /\ clamping' = NoAccount
  /\ UNCHANGED <<slotMap, slotMax, fresh, gauge, request, stage, target, todo,
                 highWater>>

AddSlot(a, s) ==
  /\ stage = "slots" /\ clamping = NoAccount /\ a \in todo
  /\ slotMap[a] = NoSlot
  /\ s \in fresh
  /\ fresh' = fresh \ {s}
  /\ slotMax' = [slotMax EXCEPT ![s] = target[a]]
  /\ highWater' = [highWater EXCEPT ![a] = Higher(a)]
  /\ next' = [next EXCEPT ![a] = s]
  /\ todo' = todo \ {a}
  /\ UNCHANGED <<slotMap, inflight, gauge, request, stage, target, clamping,
                 disturbed>>

\* s.slots.Store: accounts missing from the new map lose their slot object.
Publish ==
  /\ stage = "slots" /\ clamping = NoAccount /\ todo = {}
  /\ slotMap' = next
  /\ disturbed' = disturbed \cup
        {a \in Accounts : slotMap[a] # NoSlot /\ next[a] = NoSlot}
  /\ stage' = "gauge"
  /\ UNCHANGED <<slotMax, inflight, fresh, gauge, request, target, todo,
                 clamping, next, highWater>>

\* syncDispatchSlotInflightFromSlots
SyncGauge ==
  /\ stage = "gauge"
  /\ gauge' = [a \in Accounts |->
                 IF slotMap[a] = NoSlot THEN -1 ELSE inflight[slotMap[a]]]
  /\ stage' = "idle"
  /\ target' = [a \in Accounts |-> 0]
  /\ next' = NoMap
  /\ UNCHANGED <<shared, request, todo, clamping, ghost>>

----------------------------------------------------------------------------
RequestStep(r) ==
  \/ \E a \in Accounts : LookUp(r, a)
  \/ ReadMax(r) \/ Reject(r) \/ Admit(r) \/ GaugeUp(r)
  \/ Finish(r) \/ FinishRemoved(r) \/ GiveBack(r) \/ GaugeDown(r)
  \/ Panic(r)

ApplyStep ==
  \/ \E config \in [Accounts -> 0..MaxLimit] : StartApply(config)
  \/ \E a \in Accounts : KeepSlot(a) \/ \E s \in SlotIds : AddSlot(a, s)
  \/ Clamp \/ Publish \/ SyncGauge

Next == ApplyStep \/ \E r \in Requests : RequestStep(r)

Spec == Init /\ [][Next]_vars

----------------------------------------------------------------------------
Places == {"idle", "found", "ready", "admitted", "running", "releasing",
           "released", "panicked"}

MaybeSlot == SlotIds \cup {NoSlot}

(* The shape of the state.  That a counter is a natural number is part of  *)
(* it: no interleaving of releases takes a counter below zero.             *)
TypeOK ==
  /\ slotMap \in [Accounts -> MaybeSlot]
  /\ slotMax \in [SlotIds -> Nat]
  /\ inflight \in [SlotIds -> Nat]
  /\ fresh \subseteq SlotIds
  /\ gauge \in [Accounts -> Int]
  /\ pc \in [Requests -> Places]
  /\ email \in [Requests -> Accounts \cup {NoAccount}]
  /\ slot \in [Requests -> MaybeSlot]
  /\ seen \in [Requests -> Nat]
  /\ held \in [Requests -> MaybeSlot]
  /\ stage \in {"idle", "slots", "gauge"}
  /\ target \in [Accounts -> Nat]
  /\ todo \subseteq Accounts
  /\ clamping \in Accounts \cup {NoAccount}
  /\ next \in [Accounts -> MaybeSlot]
  /\ highWater \in [Accounts -> Nat]
  /\ disturbed \subseteq Accounts

Counted(s) == {r \in Requests : held[r] = s}
Inside(a) == {r \in Requests : held[r] # NoSlot /\ email[r] = a}

(* Capacity is never lost: the counter of a published slot never exceeds   *)
(* the number of requests that were counted on it and are still running    *)
(* (or died in a panic), whatever configurations were applied and          *)
(* whichever map a release happened to see.  In particular an account with *)
(* no request inside has its whole maximum available again.                *)
CapacityNotLost ==
  \A a \in Accounts : slotMap[a] # NoSlot =>
     inflight[slotMap[a]] <= Cardinality(Counted(slotMap[a]))

(* As long as an account was never clamped below its load nor removed, its *)
(* counter is exactly the number of requests inside it: TryAcquire and     *)
(* Release balance across every reload of the configuration.               *)
ExactUntilDisturbed ==
  \A a \in Accounts : slotMap[a] # NoSlot /\ a \notin disturbed =>
     inflight[slotMap[a]] = Cardinality(Inside(a))

(* max_concurrency bounds the requests really inside an account that was   *)
(* never clamped nor removed: never more than the largest maximum the      *)
(* account has had (a request may still use a maximum it read before the   *)
(* administrator lowered it).                                              *)
AdmissionBounded ==
  \A a \in Accounts : a \notin disturbed =>
     Cardinality(Inside(a)) <= highWater[a]

(* The slots implement the semaphore: what the counters and maxima in      *)
(* shared memory admit is what a semaphore on each account would admit,    *)
(* for as long as the administrator does not override it.                  *)
Holders == [a \in Accounts |-> IF a \in disturbed THEN {} ELSE Inside(a)]

Semaphore == INSTANCE AccountSemaphore WITH limit <- highWater, holders <- Holders
SemaphoreSpec == Semaphore!Spec

=============================================================================
