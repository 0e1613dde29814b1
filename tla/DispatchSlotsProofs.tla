------------------------- MODULE DispatchSlotsProofs -------------------------
(***************************************************************************)
(* Proofs about DispatchSlots, for every set of requests, accounts and     *)
(* slot objects and every maximum.  The inductive invariant says who owns  *)
(* which slot object: a published slot belongs to one account, an object   *)
(* that is not published yet is known to no request, and a release that    *)
(* has looked its slot up holds the published one if it was counted there. *)
(***************************************************************************)
EXTENDS DispatchSlots, FiniteSetTheorems, TLAPS

\* An object nobody has reached: not published, not loaded, not counted on.
Unseen(s) ==
  /\ \A a \in Accounts : slotMap[a] # s
  /\ \A r \in Requests : slot[r] # s /\ held[r] # s
  /\ inflight[s] = 0

MapOwned ==
  /\ \A a, b \in Accounts : slotMap[a] = slotMap[b] /\ a # b
                              => slotMap[a] = NoSlot
  /\ \A s \in fresh : Unseen(s) /\ \A a \in Accounts : next[a] # s

NextOwned ==
  /\ \A a, b \in Accounts : next[a] = next[b] /\ a # b => next[a] = NoSlot
  /\ stage = "slots" =>
       \A a \in Accounts :
         /\ next[a] # NoSlot /\ slotMap[a] # NoSlot => next[a] = slotMap[a]
         /\ next[a] # NoSlot /\ slotMap[a] = NoSlot => Unseen(next[a])
         /\ a \in todo \/ a = clamping => next[a] = NoSlot
  /\ clamping # NoAccount =>
       stage = "slots" /\ clamping \notin todo /\ slotMap[clamping] # NoSlot

RequestOwned ==
  \A r \in Requests :
    /\ pc[r] # "idle" => email[r] \in Accounts /\ slot[r] \in SlotIds
    /\ pc[r] = "idle" => slot[r] = NoSlot /\ email[r] = NoAccount
    /\ held[r] # NoSlot <=> pc[r] \in {"admitted", "running", "releasing",
                                       "panicked"}
    /\ pc[r] \in {"admitted", "running", "panicked"} => slot[r] = held[r]
    /\ \A a \in Accounts : slotMap[a] # NoSlot =>
         /\ slot[r] = slotMap[a] => email[r] = a
         /\ held[r] = slotMap[a] => email[r] = a /\ slot[r] = held[r]

\* An account that was never disturbed has had one slot object.
OneObject ==
  \A a \in Accounts : a \notin disturbed =>
    \A r \in Requests : email[r] = a =>
      slot[r] = slotMap[a] /\ held[r] \in {NoSlot, slotMap[a]}

Balanced ==
  \A a \in Accounts : slotMap[a] # NoSlot =>
    /\ inflight[slotMap[a]] <= Cardinality(Counted(slotMap[a]))
    /\ a \notin disturbed =>
         inflight[slotMap[a]] = Cardinality(Counted(slotMap[a]))

Bounded ==
  /\ \A a \in Accounts : slotMap[a] # NoSlot =>
       slotMax[slotMap[a]] <= highWater[a] /\ inflight[slotMap[a]] <= highWater[a]
  /\ \A a \in Accounts : stage = "slots" /\ next[a] # NoSlot =>
       slotMax[next[a]] <= highWater[a]
  /\ \A r \in Requests : pc[r] = "ready" =>
       \A a \in Accounts : slotMap[a] = slot[r] => seen[r] <= highWater[a]

IInv == /\ TypeOK /\ MapOwned /\ NextOwned /\ RequestOwned
        /\ OneObject /\ Balanced /\ Bounded

-----------------------------------------------------------------------------
LEMMA CountedFinite ==
  ASSUME NEW s
  PROVE  IsFiniteSet(Counted(s)) /\ Cardinality(Counted(s)) \in Nat
BY SlotsAssumption, FS_Subset, FS_CardinalityType DEF Counted

\* One more request counted on s, the others untouched.
LEMMA CountUp ==
  ASSUME TypeOK, NEW r \in Requests, NEW s \in SlotIds, held[r] = NoSlot,
         held' = [held EXCEPT ![r] = s]
  PROVE  /\ Cardinality(Counted(s)') = Cardinality(Counted(s)) + 1
         /\ \A t \in SlotIds : t # s => Counted(t)' = Counted(t)
<1>1. r \notin Counted(s) /\ Counted(s)' = Counted(s) \cup {r}
  BY SlotsAssumption DEF TypeOK, Counted
<1>2. \A t \in SlotIds : t # s => Counted(t)' = Counted(t)
  BY SlotsAssumption DEF TypeOK, Counted
<1>. QED  BY <1>1, <1>2, CountedFinite, FS_AddElement

\* A request stops being counted where it was counted.
LEMMA CountDown ==
  ASSUME TypeOK, NEW r \in Requests, NEW s \in SlotIds, held[r] = s,
         held' = [held EXCEPT ![r] = NoSlot]
  PROVE  /\ Cardinality(Counted(s)) > 0
         /\ Cardinality(Counted(s)') = Cardinality(Counted(s)) - 1
         /\ \A t \in SlotIds : t # s => Counted(t)' = Counted(t)
<1>1. r \in Counted(s) /\ Counted(s)' = Counted(s) \ {r}
  BY SlotsAssumption DEF TypeOK, Counted
<1>2. \A t \in SlotIds : t # s => Counted(t)' = Counted(t)
  BY SlotsAssumption DEF TypeOK, Counted
<1>3. IsFiniteSet(Counted(s)) /\ Cardinality(Counted(s)) \in Nat
  BY CountedFinite
<1>4. Cardinality(Counted(s)) # 0
  BY <1>1, <1>3, FS_EmptySet
<1>5. Cardinality(Counted(s) \ {r}) = Cardinality(Counted(s)) - 1
  BY <1>1, <1>3, FS_RemoveElement
<1>. QED  BY <1>1, <1>2, <1>3, <1>4, <1>5

LEMMA InitIInv == Init => IInv
<1>. SUFFICES ASSUME Init PROVE IInv
  OBVIOUS
<1>1. TypeOK
  BY SlotsAssumption DEF Init, TypeOK, NoMap, MaybeSlot, Places
<1>2. MapOwned /\ NextOwned /\ RequestOwned /\ OneObject /\ Balanced /\ Bounded
  BY SlotsAssumption DEF Init, NoMap, MapOwned, NextOwned, RequestOwned,
     OneObject, Balanced, Bounded, Unseen
<1>. QED  BY <1>1, <1>2 DEF IInv

LEMMA LookUpIInv ==
  ASSUME IInv, NEW r \in Requests, NEW a \in Accounts, LookUp(r, a)
  PROVE  IInv'
<1>. USE SlotsAssumption DEF IInv, LookUp, shared, rebuild, ghost
<1>1. TypeOK'
    BY DEF TypeOK, RequestOwned, NextOwned, Places, MaybeSlot
<1>2. MapOwned'
    BY DEF TypeOK, MapOwned, NextOwned, RequestOwned, Unseen
<1>3. NextOwned'
    BY DEF TypeOK, MapOwned, NextOwned, RequestOwned, Unseen
<1>4. RequestOwned'
    BY DEF TypeOK, MaybeSlot, MapOwned, NextOwned, RequestOwned, Unseen
<1>5. OneObject'
    BY DEF TypeOK, NextOwned, RequestOwned, OneObject
<1>6. Balanced'
  <2>1. \A s \in SlotIds : Counted(s)' = Counted(s)
      BY DEF TypeOK, RequestOwned, Counted
  <2>. QED
      BY <2>1 DEF TypeOK, Balanced, MaybeSlot
<1>7. Bounded'
    BY DEF TypeOK, MaybeSlot, MapOwned, NextOwned, RequestOwned, Unseen,
     Bounded
<1>. QED  BY <1>1, <1>2, <1>3, <1>4, <1>5, <1>6, <1>7

LEMMA ReadMaxIInv ==
  ASSUME IInv, NEW r \in Requests, ReadMax(r)
  PROVE  IInv'
<1>. USE SlotsAssumption DEF IInv, ReadMax, shared, rebuild, ghost
<1>1. TypeOK'
    BY DEF TypeOK, RequestOwned, NextOwned, Places, MaybeSlot
<1>2. MapOwned'
    BY DEF TypeOK, MapOwned, NextOwned, RequestOwned, Unseen
<1>3. NextOwned'
    BY DEF TypeOK, MapOwned, NextOwned, RequestOwned, Unseen
<1>4. RequestOwned'
    BY DEF TypeOK, MaybeSlot, MapOwned, NextOwned, RequestOwned, Unseen
<1>5. OneObject'
    BY DEF TypeOK, NextOwned, RequestOwned, OneObject
<1>6. Balanced'
  <2>1. \A s \in SlotIds : Counted(s)' = Counted(s)
      BY DEF TypeOK, RequestOwned, Counted
  <2>. QED
      BY <2>1 DEF TypeOK, Balanced, MaybeSlot
<1>7. Bounded'
    BY DEF TypeOK, MaybeSlot, MapOwned, NextOwned, RequestOwned, Unseen,
     Bounded
<1>. QED  BY <1>1, <1>2, <1>3, <1>4, <1>5, <1>6, <1>7

LEMMA RejectIInv ==
  ASSUME IInv, NEW r \in Requests, Reject(r)
  PROVE  IInv'
<1>. USE SlotsAssumption DEF IInv, Reject, Return, shared, rebuild, ghost
<1>1. TypeOK'
    BY DEF TypeOK, RequestOwned, NextOwned, Places, MaybeSlot
<1>2. MapOwned'
    BY DEF TypeOK, MapOwned, NextOwned, RequestOwned, Unseen
<1>3. NextOwned'
    BY DEF TypeOK, MapOwned, NextOwned, RequestOwned, Unseen
<1>4. RequestOwned'
    BY DEF TypeOK, MaybeSlot, MapOwned, NextOwned, RequestOwned, Unseen
<1>5. OneObject'
    BY DEF TypeOK, NextOwned, RequestOwned, OneObject
<1>6. Balanced'
  <2>1. \A s \in SlotIds : Counted(s)' = Counted(s)
      BY DEF TypeOK, RequestOwned, Counted
  <2>. QED
      BY <2>1 DEF TypeOK, Balanced, MaybeSlot
<1>7. Bounded'
    BY DEF TypeOK, MaybeSlot, MapOwned, NextOwned, RequestOwned, Unseen,
     Bounded
<1>. QED  BY <1>1, <1>2, <1>3, <1>4, <1>5, <1>6, <1>7

LEMMA AdmitIInv ==
  ASSUME IInv, NEW r \in Requests, Admit(r)
  PROVE  IInv'
<1>. USE SlotsAssumption DEF IInv, Admit, shared, rebuild, ghost
<1>1. TypeOK'
    BY DEF TypeOK, RequestOwned, NextOwned, Places, MaybeSlot
<1>2. MapOwned'
    BY DEF TypeOK, MapOwned, NextOwned, RequestOwned, Unseen
<1>3. NextOwned'
    BY DEF TypeOK, MapOwned, NextOwned, RequestOwned, Unseen
<1>4. RequestOwned'
    BY DEF TypeOK, MaybeSlot, MapOwned, NextOwned, RequestOwned, Unseen
<1>5. OneObject'
    BY DEF TypeOK, NextOwned, RequestOwned, OneObject
<1>6. Balanced'
  <2>1. slot[r] \in SlotIds /\ held[r] = NoSlot /\ slot'[r] = slot[r]
    BY DEF TypeOK, RequestOwned
  <2>2. /\ Cardinality(Counted(slot[r])') = Cardinality(Counted(slot[r])) + 1
        /\ \A t \in SlotIds : t # slot[r] => Counted(t)' = Counted(t)
    BY <2>1, CountUp
  <2>3. ASSUME NEW a \in Accounts, slotMap[a] # NoSlot
        PROVE  /\ inflight'[slotMap[a]] <= Cardinality(Counted(slotMap[a])')
               /\ a \notin disturbed =>
                    inflight'[slotMap[a]] = Cardinality(Counted(slotMap[a])')
    <3>1. slotMap[a] \in SlotIds
      BY <2>3 DEF TypeOK, MaybeSlot
    <3>2. CASE slotMap[a] = slot[r]
      BY <2>1, <2>2, <2>3, <3>2, CountedFinite DEF TypeOK, Balanced
    <3>3. CASE slotMap[a] # slot[r]
      BY <2>1, <2>2, <2>3, <3>1, <3>3 DEF TypeOK, Balanced
    <3>. QED  BY <3>2, <3>3
  <2>. QED  BY <2>3 DEF Balanced, Counted
<1>7. Bounded'
    BY DEF TypeOK, MaybeSlot, MapOwned, NextOwned, RequestOwned, Unseen,
     Bounded
<1>. QED  BY <1>1, <1>2, <1>3, <1>4, <1>5, <1>6, <1>7

LEMMA GaugeUpIInv ==
  ASSUME IInv, NEW r \in Requests, GaugeUp(r)
  PROVE  IInv'
<1>. USE SlotsAssumption DEF IInv, GaugeUp, shared, rebuild, ghost
<1>1. TypeOK'
    BY DEF TypeOK, RequestOwned, NextOwned, Places, MaybeSlot
<1>2. MapOwned'
    BY DEF TypeOK, MapOwned, NextOwned, RequestOwned, Unseen
<1>3. NextOwned'
    BY DEF TypeOK, MapOwned, NextOwned, RequestOwned, Unseen
<1>4. RequestOwned'
    BY DEF TypeOK, MaybeSlot, MapOwned, NextOwned, RequestOwned, Unseen
<1>5. OneObject'
    BY DEF TypeOK, NextOwned, RequestOwned, OneObject
<1>6. Balanced'
  <2>1. \A s \in SlotIds : Counted(s)' = Counted(s)
      BY DEF TypeOK, RequestOwned, Counted
  <2>. QED
      BY <2>1 DEF TypeOK, Balanced, MaybeSlot
<1>7. Bounded'
    BY DEF TypeOK, MaybeSlot, MapOwned, NextOwned, RequestOwned, Unseen,
     Bounded
<1>. QED  BY <1>1, <1>2, <1>3, <1>4, <1>5, <1>6, <1>7

LEMMA FinishIInv ==
  ASSUME IInv, NEW r \in Requests, Finish(r)
  PROVE  IInv'
<1>. USE SlotsAssumption DEF IInv, Finish, shared, rebuild, ghost
<1>1. TypeOK'
    BY DEF TypeOK, RequestOwned, NextOwned, Places, MaybeSlot
<1>2. MapOwned'
    BY DEF TypeOK, MapOwned, NextOwned, RequestOwned, Unseen
<1>3. NextOwned'
    BY DEF TypeOK, MapOwned, NextOwned, RequestOwned, Unseen
<1>4. RequestOwned'
    BY DEF TypeOK, MaybeSlot, MapOwned, NextOwned, RequestOwned, Unseen
<1>5. OneObject'
    BY DEF TypeOK, NextOwned, RequestOwned, OneObject
<1>6. Balanced'
  <2>1. \A s \in SlotIds : Counted(s)' = Counted(s)
      BY DEF TypeOK, RequestOwned, Counted
  <2>. QED
      BY <2>1 DEF TypeOK, Balanced, MaybeSlot
<1>7. Bounded'
    BY DEF TypeOK, MaybeSlot, MapOwned, NextOwned, RequestOwned, Unseen,
     Bounded
<1>. QED  BY <1>1, <1>2, <1>3, <1>4, <1>5, <1>6, <1>7

LEMMA FinishRemovedIInv ==
  ASSUME IInv, NEW r \in Requests, FinishRemoved(r)
  PROVE  IInv'
<1>. USE SlotsAssumption DEF IInv, FinishRemoved, Return, shared, rebuild, ghost
<1>1. TypeOK'
    BY DEF TypeOK, RequestOwned, NextOwned, Places, MaybeSlot
<1>2. MapOwned'
    BY DEF TypeOK, MapOwned, NextOwned, RequestOwned, Unseen
<1>3. NextOwned'
    BY DEF TypeOK, MapOwned, NextOwned, RequestOwned, Unseen
<1>4. RequestOwned'
    BY DEF TypeOK, MaybeSlot, MapOwned, NextOwned, RequestOwned, Unseen
<1>5. OneObject'
    BY DEF TypeOK, NextOwned, RequestOwned, OneObject
<1>6. Balanced'
  <2>1. \A a \in Accounts : slotMap[a] # NoSlot =>
           Counted(slotMap[a])' = Counted(slotMap[a])
    BY DEF TypeOK, RequestOwned, Counted, Return
  <2>. QED  BY <2>1 DEF Balanced, Counted
<1>7. Bounded'
    BY DEF TypeOK, MaybeSlot, MapOwned, NextOwned, RequestOwned, Unseen,
     Bounded
<1>. QED  BY <1>1, <1>2, <1>3, <1>4, <1>5, <1>6, <1>7

LEMMA GiveBackIInv ==
  ASSUME IInv, NEW r \in Requests, GiveBack(r)
  PROVE  IInv'
<1>. USE SlotsAssumption DEF IInv, GiveBack, shared, rebuild, ghost
<1>1. TypeOK'
    BY DEF TypeOK, RequestOwned, NextOwned, Places, MaybeSlot
<1>2. MapOwned'
    BY DEF TypeOK, MapOwned, NextOwned, RequestOwned, Unseen
<1>3. NextOwned'
    BY DEF TypeOK, MapOwned, NextOwned, RequestOwned, Unseen
<1>4. RequestOwned'
    BY DEF TypeOK, MaybeSlot, MapOwned, NextOwned, RequestOwned, Unseen
<1>5. OneObject'
    BY DEF TypeOK, NextOwned, RequestOwned, OneObject
<1>6. Balanced'
  <2>1. slot[r] \in SlotIds /\ held[r] \in SlotIds /\ email[r] \in Accounts
    BY DEF TypeOK, RequestOwned, MaybeSlot
  <2>2. /\ Cardinality(Counted(held[r])) > 0
        /\ Cardinality({q \in Requests : held'[q] = held[r]})
             = Cardinality(Counted(held[r])) - 1
        /\ \A t \in SlotIds : t # held[r] => Counted(t)' = Counted(t)
    <3>. DEFINE s == held[r]
    <3>1. /\ Cardinality(Counted(s)) > 0
          /\ Cardinality({q \in Requests : held'[q] = s})
               = Cardinality(Counted(s)) - 1
          /\ \A t \in SlotIds : t # s => Counted(t)' = Counted(t)
      <4>. HIDE DEF s
      <4>1. s \in SlotIds /\ held[r] = s
        BY <2>1 DEF s
      <4>. QED  BY <4>1, CountDown DEF Counted
    <3>. QED  BY <3>1
  <2>3. ASSUME NEW a \in Accounts, slotMap[a] # NoSlot
        PROVE  /\ inflight'[slotMap[a]] <=
                    Cardinality({q \in Requests : held'[q] = slotMap[a]})
               /\ a \notin disturbed =>
                    inflight'[slotMap[a]] =
                      Cardinality({q \in Requests : held'[q] = slotMap[a]})
    <3>1. slotMap[a] \in SlotIds
      BY <2>3 DEF TypeOK, MaybeSlot
    <3>2. CASE slotMap[a] = held[r]
      <4>1. slot[r] = held[r]
        BY <2>3, <3>2 DEF RequestOwned
      <4>. QED  BY <2>1, <2>2, <2>3, <3>2, <4>1, CountedFinite DEF TypeOK, Balanced
    <3>3. CASE slotMap[a] # held[r]
      <4>1. Cardinality({q \in Requests : held'[q] = slotMap[a]})
              = Cardinality(Counted(slotMap[a]))
        BY <2>2, <3>1, <3>3 DEF Counted
      <4>2. a \notin disturbed => slot[r] # slotMap[a]
        BY <2>1, <2>3, <3>3 DEF RequestOwned, OneObject
      <4>. QED  BY <2>1, <2>3, <3>1, <4>1, <4>2, CountedFinite DEF TypeOK, Balanced
    <3>. QED  BY <3>2, <3>3
  <2>. QED  BY <2>3 DEF Balanced, Counted
<1>7. Bounded'
    BY DEF TypeOK, MaybeSlot, MapOwned, NextOwned, RequestOwned, Unseen,
     Bounded
<1>. QED  BY <1>1, <1>2, <1>3, <1>4, <1>5, <1>6, <1>7

LEMMA GaugeDownIInv ==
  ASSUME IInv, NEW r \in Requests, GaugeDown(r)
  PROVE  IInv'
<1>. USE SlotsAssumption DEF IInv, GaugeDown, Return, shared, rebuild, ghost
<1>1. TypeOK'
    BY DEF TypeOK, RequestOwned, NextOwned, Places, MaybeSlot
<1>2. MapOwned'
    BY DEF TypeOK, MapOwned, NextOwned, RequestOwned, Unseen
<1>3. NextOwned'
    BY DEF TypeOK, MapOwned, NextOwned, RequestOwned, Unseen
<1>4. RequestOwned'
    BY DEF TypeOK, MaybeSlot, MapOwned, NextOwned, RequestOwned, Unseen
<1>5. OneObject'
    BY DEF TypeOK, NextOwned, RequestOwned, OneObject
<1>6. Balanced'
  <2>1. \A s \in SlotIds : Counted(s)' = Counted(s)
      BY DEF TypeOK, RequestOwned, Counted
  <2>. QED
      BY <2>1 DEF TypeOK, Balanced, MaybeSlot
<1>7. Bounded'
    BY DEF TypeOK, MaybeSlot, MapOwned, NextOwned, RequestOwned, Unseen,
     Bounded
<1>. QED  BY <1>1, <1>2, <1>3, <1>4, <1>5, <1>6, <1>7

LEMMA PanicIInv ==
  ASSUME IInv, NEW r \in Requests, Panic(r)
  PROVE  IInv'
<1>. USE SlotsAssumption DEF IInv, Panic, shared, rebuild, ghost
<1>1. TypeOK'
    BY DEF TypeOK, RequestOwned, NextOwned, Places, MaybeSlot
<1>2. MapOwned'
    BY DEF TypeOK, MapOwned, NextOwned, RequestOwned, Unseen
<1>3. NextOwned'
    BY DEF TypeOK, MapOwned, NextOwned, RequestOwned, Unseen
<1>4. RequestOwned'
    BY DEF TypeOK, MaybeSlot, MapOwned, NextOwned, RequestOwned, Unseen
<1>5. OneObject'
    BY DEF TypeOK, NextOwned, RequestOwned, OneObject
<1>6. Balanced'
  <2>1. \A s \in SlotIds : Counted(s)' = Counted(s)
      BY DEF TypeOK, RequestOwned, Counted
  <2>. QED
      BY <2>1 DEF TypeOK, Balanced, MaybeSlot
<1>7. Bounded'
    BY DEF TypeOK, MaybeSlot, MapOwned, NextOwned, RequestOwned, Unseen,
     Bounded
<1>. QED  BY <1>1, <1>2, <1>3, <1>4, <1>5, <1>6, <1>7

LEMMA StartApplyIInv ==
  ASSUME IInv, NEW config \in [Accounts -> 0..MaxLimit], StartApply(config)
  PROVE  IInv'
<1>. USE SlotsAssumption DEF IInv, StartApply, NoMap, shared, request, ghost
<1>1. TypeOK'
    BY DEF TypeOK, RequestOwned, NextOwned, Places, MaybeSlot
<1>2. MapOwned'
    BY DEF TypeOK, MapOwned, NextOwned, RequestOwned, Unseen
<1>3. NextOwned'
    BY DEF TypeOK, MapOwned, NextOwned, RequestOwned, Unseen
<1>4. RequestOwned'
    BY DEF TypeOK, MaybeSlot, MapOwned, NextOwned, RequestOwned, Unseen
<1>5. OneObject'
    BY DEF TypeOK, NextOwned, RequestOwned, OneObject
<1>6. Balanced'
  <2>1. \A s \in SlotIds : Counted(s)' = Counted(s)
      BY DEF TypeOK, RequestOwned, Counted
  <2>. QED
      BY <2>1 DEF TypeOK, Balanced, MaybeSlot
<1>7. Bounded'
    BY DEF TypeOK, MaybeSlot, MapOwned, NextOwned, RequestOwned, Unseen,
     Bounded
<1>. QED  BY <1>1, <1>2, <1>3, <1>4, <1>5, <1>6, <1>7

LEMMA KeepSlotIInv ==
  ASSUME IInv, NEW a \in Accounts, KeepSlot(a)
  PROVE  IInv'
<1>. USE SlotsAssumption DEF IInv, KeepSlot, Higher, request
<1>1. TypeOK'
    BY DEF TypeOK, RequestOwned, NextOwned, Places, MaybeSlot
<1>2. MapOwned'
    BY DEF TypeOK, MapOwned, NextOwned, RequestOwned, Unseen
<1>3. NextOwned'
    BY DEF TypeOK, MapOwned, NextOwned, RequestOwned, Unseen
<1>4. RequestOwned'
    BY DEF TypeOK, MaybeSlot, MapOwned, NextOwned, RequestOwned, Unseen
<1>5. OneObject'
    BY DEF TypeOK, NextOwned, RequestOwned, OneObject
<1>6. Balanced'
  <2>1. \A s \in SlotIds : Counted(s)' = Counted(s)
      BY DEF TypeOK, RequestOwned, Counted
  <2>. QED
      BY <2>1 DEF TypeOK, Balanced, MaybeSlot
<1>7. Bounded'
    BY DEF TypeOK, MaybeSlot, MapOwned, NextOwned, RequestOwned, Unseen,
     Bounded
<1>. QED  BY <1>1, <1>2, <1>3, <1>4, <1>5, <1>6, <1>7

LEMMA ClampIInv ==
  ASSUME IInv, Clamp
  PROVE  IInv'
<1>. USE SlotsAssumption DEF IInv, Clamp, request
<1>1. TypeOK'
    BY DEF TypeOK, RequestOwned, NextOwned, Places, MaybeSlot
<1>2. MapOwned'
    BY DEF TypeOK, MapOwned, NextOwned, RequestOwned, Unseen
<1>3. NextOwned'
    BY DEF TypeOK, MapOwned, NextOwned, RequestOwned, Unseen
<1>4. RequestOwned'
    BY DEF TypeOK, MaybeSlot, MapOwned, NextOwned, RequestOwned, Unseen
<1>5. OneObject'
    BY DEF TypeOK, NextOwned, RequestOwned, OneObject
<1>6. Balanced'
  <2>1. \A s \in SlotIds : Counted(s)' = Counted(s)
    BY DEF Counted
  <2>2. ASSUME NEW a \in Accounts, slotMap[a] # NoSlot
        PROVE  /\ inflight'[slotMap[a]] <= Cardinality(Counted(slotMap[a]))
               /\ a \notin disturbed' =>
                    inflight'[slotMap[a]] = Cardinality(Counted(slotMap[a]))
    <3>1. slotMap[a] \in SlotIds /\ Cardinality(Counted(slotMap[a])) \in Nat
      BY <2>2, CountedFinite DEF TypeOK, MaybeSlot
    <3>2. CASE a = clamping
      BY <2>2, <3>1, <3>2 DEF TypeOK, Balanced
    <3>3. CASE a # clamping
      <4>1. inflight'[slotMap[a]] = inflight[slotMap[a]]
        BY <2>2, <3>3 DEF TypeOK, MapOwned, NextOwned
      <4>. QED  BY <2>2, <4>1 DEF Balanced
    <3>. QED  BY <3>2, <3>3
  <2>. QED  BY <2>1, <2>2 DEF TypeOK, Balanced, MaybeSlot
<1>7. Bounded'
    BY DEF TypeOK, MaybeSlot, MapOwned, NextOwned, RequestOwned, Unseen,
     Bounded
<1>. QED  BY <1>1, <1>2, <1>3, <1>4, <1>5, <1>6, <1>7

LEMMA AddSlotIInv ==
  ASSUME IInv, NEW a \in Accounts, NEW s \in SlotIds, AddSlot(a, s)
  PROVE  IInv'
<1>. USE SlotsAssumption DEF IInv, AddSlot, Higher, request
<1>1. TypeOK'
    BY DEF TypeOK, RequestOwned, NextOwned, Places, MaybeSlot
<1>2. MapOwned'
    BY DEF TypeOK, MapOwned, NextOwned, RequestOwned, Unseen
<1>3. NextOwned'
    BY DEF TypeOK, MapOwned, NextOwned, RequestOwned, Unseen
<1>4. RequestOwned'
    BY DEF TypeOK, MaybeSlot, MapOwned, NextOwned, RequestOwned, Unseen
<1>5. OneObject'
    BY DEF TypeOK, NextOwned, RequestOwned, OneObject
<1>6. Balanced'
  <2>1. \A x \in SlotIds : Counted(x)' = Counted(x)
      BY DEF TypeOK, RequestOwned, Counted
  <2>. QED
      BY <2>1 DEF TypeOK, Balanced, MaybeSlot
<1>7. Bounded'
    BY DEF TypeOK, MaybeSlot, MapOwned, NextOwned, RequestOwned, Unseen,
     Bounded
<1>. QED  BY <1>1, <1>2, <1>3, <1>4, <1>5, <1>6, <1>7

LEMMA PublishIInv ==
  ASSUME IInv, Publish
  PROVE  IInv'
<1>. USE SlotsAssumption DEF IInv, Publish, request
<1>1. TypeOK'
    BY DEF TypeOK, RequestOwned, NextOwned, Places, MaybeSlot
<1>2. MapOwned'
    BY DEF TypeOK, MapOwned, NextOwned, RequestOwned, Unseen
<1>3. NextOwned'
    BY DEF TypeOK, MapOwned, NextOwned, RequestOwned, Unseen
<1>4. RequestOwned'
    BY DEF TypeOK, MaybeSlot, MapOwned, NextOwned, RequestOwned, Unseen
<1>5. OneObject'
    BY DEF TypeOK, NextOwned, RequestOwned, OneObject
<1>6. Balanced'
  <2>1. \A s \in SlotIds : Counted(s)' = Counted(s)
    BY DEF Counted
  <2>2. ASSUME NEW a \in Accounts, next[a] # NoSlot
        PROVE  /\ inflight[next[a]] <= Cardinality(Counted(next[a]))
               /\ a \notin disturbed =>
                    inflight[next[a]] = Cardinality(Counted(next[a]))
    <3>1. CASE slotMap[a] # NoSlot
      BY <2>2, <3>1 DEF NextOwned, Balanced
    <3>2. CASE slotMap[a] = NoSlot
      <4>1. inflight[next[a]] = 0 /\ Counted(next[a]) = {}
        BY <2>2, <3>2 DEF NextOwned, Unseen, Counted
      <4>. QED  BY <4>1, FS_EmptySet
    <3>. QED  BY <3>1, <3>2
  <2>. QED  BY <2>1, <2>2 DEF TypeOK, Balanced, MaybeSlot
<1>7. Bounded'
    BY DEF TypeOK, MaybeSlot, MapOwned, NextOwned, RequestOwned, Unseen,
     Bounded
<1>. QED  BY <1>1, <1>2, <1>3, <1>4, <1>5, <1>6, <1>7

LEMMA SyncGaugeIInv ==
  ASSUME IInv, SyncGauge
  PROVE  IInv'
<1>. USE SlotsAssumption DEF IInv, SyncGauge, NoMap, shared, ghost, request
<1>1. TypeOK'
    BY DEF TypeOK, RequestOwned, NextOwned, Places, MaybeSlot
<1>2. MapOwned'
    BY DEF TypeOK, MapOwned, NextOwned, RequestOwned, Unseen
<1>3. NextOwned'
    BY DEF TypeOK, MapOwned, NextOwned, RequestOwned, Unseen
<1>4. RequestOwned'
    BY DEF TypeOK, MaybeSlot, MapOwned, NextOwned, RequestOwned, Unseen
<1>5. OneObject'
    BY DEF TypeOK, NextOwned, RequestOwned, OneObject
<1>6. Balanced'
  <2>1. \A s \in SlotIds : Counted(s)' = Counted(s)
      BY DEF TypeOK, RequestOwned, Counted
  <2>. QED
      BY <2>1 DEF TypeOK, Balanced, MaybeSlot
<1>7. Bounded'
    BY DEF TypeOK, MaybeSlot, MapOwned, NextOwned, RequestOwned, Unseen,
     Bounded
<1>. QED  BY <1>1, <1>2, <1>3, <1>4, <1>5, <1>6, <1>7

LEMMA NextIInv == IInv /\ [Next]_vars => IInv'
<1>. SUFFICES ASSUME IInv, [Next]_vars PROVE IInv'
  OBVIOUS
<1>1. CASE UNCHANGED vars
  BY <1>1 DEF vars, shared, request, rebuild, ghost, IInv, TypeOK, MapOwned,
     NextOwned, RequestOwned, OneObject, Balanced, Bounded, Unseen, Counted
<1>2. ASSUME NEW r \in Requests, RequestStep(r) PROVE IInv'
  BY <1>2, LookUpIInv, ReadMaxIInv, RejectIInv, AdmitIInv, GaugeUpIInv,
     FinishIInv, FinishRemovedIInv, GiveBackIInv, GaugeDownIInv, PanicIInv
     DEF RequestStep
<1>3. CASE ApplyStep
  BY <1>3, StartApplyIInv, KeepSlotIInv, ClampIInv, AddSlotIInv, PublishIInv,
     SyncGaugeIInv DEF ApplyStep
<1>. QED  BY <1>1, <1>2, <1>3 DEF Next

-----------------------------------------------------------------------------
(* The state keeps its shape in every behaviour; in particular no slot     *)
(* counter ever becomes negative, however releases interleave.             *)
THEOREM TypeCorrect == Spec => []TypeOK
<1>1. IInv => TypeOK
  BY DEF IInv
<1>. QED  BY <1>1, InitIInv, NextIInv, PTL DEF Spec

(* No reload of the configuration and no interleaving of acquires and      *)
(* releases loses capacity of a published slot.                            *)
THEOREM CapacityIsNotLost == Spec => []CapacityNotLost
<1>1. IInv => CapacityNotLost
  BY DEF IInv, Balanced, CapacityNotLost
<1>. QED  BY <1>1, InitIInv, NextIInv, PTL DEF Spec

LEMMA InsideIsCounted ==
  ASSUME IInv, NEW a \in Accounts, a \notin disturbed, slotMap[a] # NoSlot
  PROVE  Inside(a) = Counted(slotMap[a])
BY SlotsAssumption DEF IInv, TypeOK, RequestOwned, OneObject, Inside, Counted

(* The counter of an account that was never clamped nor removed is exactly *)
(* the number of requests inside the account.                              *)
THEOREM CounterIsExact == Spec => []ExactUntilDisturbed
<1>1. IInv => ExactUntilDisturbed
  BY InsideIsCounted DEF IInv, Balanced, ExactUntilDisturbed
<1>. QED  BY <1>1, InitIInv, NextIInv, PTL DEF Spec

(* Such an account never runs more requests than its largest maximum.      *)
THEOREM AdmissionIsBounded == Spec => []AdmissionBounded
<1>1. ASSUME IInv PROVE AdmissionBounded
  <2>1. SUFFICES ASSUME NEW a \in Accounts, a \notin disturbed
                 PROVE  Cardinality(Inside(a)) <= highWater[a]
    BY DEF AdmissionBounded
  <2>2. CASE slotMap[a] # NoSlot
    BY <1>1, <2>1, <2>2, InsideIsCounted DEF IInv, Balanced, Bounded
  <2>3. CASE slotMap[a] = NoSlot
    <3>1. Inside(a) = {}
      BY <1>1, <2>1, <2>3 DEF IInv, OneObject, Inside
    <3>. QED  BY <1>1, <3>1, FS_EmptySet DEF IInv, TypeOK
  <2>. QED  BY <2>2, <2>3
<1>. QED  BY <1>1, InitIInv, NextIInv, PTL DEF Spec

-----------------------------------------------------------------------------
(* The refinement.  Requests enter and leave the semaphore at their        *)
(* compare-and-swap, or when they find their account removed; a reload     *)
(* raises limits account by account and withdraws the promise when it      *)
(* clamps or drops a slot; all other steps stutter.                        *)

LEMMA StutterIfSame ==
  ASSUME highWater' = highWater, disturbed' = disturbed, held' = held,
         email' = email
  PROVE  UNCHANGED Semaphore!vars
BY DEF Semaphore!vars, Holders, Inside

\* The semaphore counts as this module does.
LEMMA SameCardinality ==
  ASSUME NEW S
  PROVE  Semaphore!Cardinality(S) = Cardinality(S)
BY Zenon DEF Semaphore!Cardinality, Cardinality

LEMMA AdmitEnters ==
  ASSUME IInv, NEW r \in Requests, Admit(r)
  PROVE  [Semaphore!Next]_Semaphore!vars
<1>. DEFINE a == email[r]
<1>1. /\ a \in Accounts /\ slot[r] \in SlotIds /\ held[r] = NoSlot
      /\ held' = [held EXCEPT ![r] = slot[r]] /\ email' = email
      /\ highWater' = highWater /\ disturbed' = disturbed
  BY DEF IInv, Admit, RequestOwned, ghost
<1>2. \A b \in Accounts : r \notin Inside(b)
  BY <1>1 DEF Inside
<1>3. /\ Inside(a)' = Inside(a) \cup {r}
      /\ \A b \in Accounts : b # a => Inside(b)' = Inside(b)
  BY <1>1, SlotsAssumption DEF Inside, IInv, TypeOK
<1>4. CASE a \in disturbed
  BY <1>1, <1>3, <1>4 DEF Semaphore!vars, Holders
<1>5. CASE a \notin disturbed
  <2>1. slotMap[a] = slot[r] /\ slotMap[a] # NoSlot
    BY <1>1, <1>5, SlotsAssumption DEF IInv, OneObject
  <2>2. Cardinality(Inside(a)) = inflight[slot[r]]
    BY <1>1, <1>5, <2>1, InsideIsCounted DEF IInv, Balanced
  <2>3. inflight[slot[r]] < seen[r] /\ seen[r] <= highWater[a]
    BY <1>1, <2>1 DEF Admit, IInv, Bounded
  <2>4. Cardinality(Inside(a)) < highWater[a]
    BY <1>1, <2>2, <2>3 DEF IInv, TypeOK
  <2>5. Holders' = [Holders EXCEPT ![a] = @ \cup {r}]
    BY <1>1, <1>3, <1>5 DEF Holders
  <2>6. Semaphore!Enter(r, a)
    BY <1>1, <1>2, <1>5, <2>4, <2>5, SameCardinality DEF Semaphore!Enter, Holders
  <2>. QED  BY <1>1, <2>6 DEF Semaphore!Next
<1>. QED  BY <1>4, <1>5

\* The ways out of an account: a release, or finding the account removed.
LEMMA OutLeaves ==
  ASSUME IInv, NEW r \in Requests, NEW a \in Accounts, email[r] = a,
         held[r] # NoSlot, held' = [held EXCEPT ![r] = NoSlot],
         email' = email \/ email' = [email EXCEPT ![r] = NoAccount],
         highWater' = highWater, disturbed' = disturbed
  PROVE  [Semaphore!Next]_Semaphore!vars
<1>1. /\ r \in Inside(a)
      /\ Inside(a)' = Inside(a) \ {r}
      /\ \A b \in Accounts : b # a => Inside(b)' = Inside(b)
  BY SlotsAssumption DEF Inside, IInv, TypeOK
<1>2. CASE a \in disturbed
  BY <1>1, <1>2 DEF Semaphore!vars, Holders
<1>3. CASE a \notin disturbed
  <2>1. Holders' = [Holders EXCEPT ![a] = @ \ {r}]
    BY <1>1, <1>3 DEF Holders
  <2>2. Semaphore!Leave(r, a)
    BY <1>1, <1>3, <2>1 DEF Semaphore!Leave, Holders
  <2>. QED  BY <2>2 DEF Semaphore!Next
<1>. QED  BY <1>2, <1>3

LEMMA RequestStepRefines ==
  ASSUME IInv, NEW r \in Requests, RequestStep(r)
  PROVE  [Semaphore!Next]_Semaphore!vars
<1>. USE SlotsAssumption DEF ghost, shared, rebuild, request
<1>1. ASSUME NEW a \in Accounts, LookUp(r, a) PROVE UNCHANGED Semaphore!vars
  <2>1. held[r] = NoSlot /\ held' = held
    BY <1>1 DEF LookUp, IInv, RequestOwned
  <2>2. \A b \in Accounts : Inside(b)' = Inside(b)
    BY <1>1, <2>1 DEF LookUp, IInv, TypeOK, Inside
  <2>. QED  BY <1>1, <2>2 DEF LookUp, Semaphore!vars, Holders
<1>2. CASE ReadMax(r) \/ GaugeUp(r) \/ Finish(r) \/ Panic(r)
  BY <1>2, StutterIfSame DEF ReadMax, GaugeUp, Finish, Panic
<1>3. CASE Reject(r) \/ GaugeDown(r)
  <2>1. held[r] = NoSlot
    BY <1>3 DEF Reject, GaugeDown, IInv, RequestOwned
  <2>2. \A b \in Accounts : Inside(b)' = Inside(b)
    BY <1>3, <2>1 DEF Reject, GaugeDown, Return, IInv, TypeOK, Inside
  <2>. QED  BY <1>3, <2>2 DEF Reject, GaugeDown, Semaphore!vars, Holders
<1>4. CASE Admit(r)
  BY <1>4, AdmitEnters
<1>5. CASE GiveBack(r) \/ FinishRemoved(r)
  <2>1. email[r] \in Accounts /\ held[r] # NoSlot
    BY <1>5 DEF GiveBack, FinishRemoved, IInv, RequestOwned
  <2>. QED  BY <1>5, <2>1, OutLeaves DEF GiveBack, FinishRemoved, Return
<1>. QED  BY <1>1, <1>2, <1>3, <1>4, <1>5 DEF RequestStep

LEMMA ApplyStepRefines ==
  ASSUME IInv, ApplyStep
  PROVE  [Semaphore!Next]_Semaphore!vars
<1>. USE SlotsAssumption DEF ghost, shared, rebuild, request
<1>1. ASSUME NEW config \in [Accounts -> 0..MaxLimit], StartApply(config)
      PROVE  UNCHANGED Semaphore!vars
  BY <1>1, StutterIfSame DEF StartApply
<1>2. CASE SyncGauge
  BY <1>2, StutterIfSame DEF SyncGauge
<1>3. ASSUME NEW a \in Accounts, KeepSlot(a) \/ \E s \in SlotIds : AddSlot(a, s)
      PROVE  Semaphore!Grow
  <2>1. Holders' = Holders
    BY <1>3 DEF KeepSlot, AddSlot, Holders, Inside
  <2>2. highWater' = [highWater EXCEPT ![a] = Higher(a)]
    BY <1>3 DEF KeepSlot, AddSlot
  <2>3. Higher(a) \in Nat /\ Higher(a) >= highWater[a]
    BY DEF Higher, IInv, TypeOK
  <2>. QED  BY <2>1, <2>2, <2>3 DEF Semaphore!Grow, IInv, TypeOK
<1>4. CASE Clamp \/ Publish
  <2>1. disturbed \subseteq disturbed' /\ disturbed' \subseteq Accounts
    BY <1>4 DEF Clamp, Publish, IInv, TypeOK
  <2>2. highWater' = highWater /\ held' = held /\ email' = email
    BY <1>4 DEF Clamp, Publish
  <2>3. Semaphore!Withdraw(disturbed')
    BY <2>1, <2>2 DEF Semaphore!Withdraw, Holders, Inside
  <2>. QED  BY <2>1, <2>3 DEF Semaphore!Next
<1>. QED  BY <1>1, <1>2, <1>3, <1>4 DEF ApplyStep, Semaphore!Next

(* The lock-free slots implement the semaphore of AccountSemaphore: every  *)
(* step of a request or of a reload is a step of the semaphore or none.    *)
THEOREM SlotsImplementSemaphore == Spec => SemaphoreSpec
<1>1. Init => Semaphore!Init
  BY SlotsAssumption DEF Init, Semaphore!Init, Holders, Inside
<1>2. IInv /\ [Next]_vars => [Semaphore!Next]_Semaphore!vars
  <2>. SUFFICES ASSUME IInv, [Next]_vars PROVE [Semaphore!Next]_Semaphore!vars
    OBVIOUS
  <2>1. CASE UNCHANGED vars
    BY <2>1, StutterIfSame DEF vars, request, ghost
  <2>2. ASSUME NEW r \in Requests, RequestStep(r)
        PROVE  [Semaphore!Next]_Semaphore!vars
    BY <2>2, RequestStepRefines
  <2>. QED  BY <2>1, <2>2, ApplyStepRefines DEF Next
<1>. QED  BY <1>1, <1>2, InitIInv, NextIInv, PTL
          DEF Spec, SemaphoreSpec, Semaphore!Spec

==============================================================================
