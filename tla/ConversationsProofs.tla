------------------------- MODULE ConversationsProofs -------------------------
(***************************************************************************)
(* Proofs about Conversations, for any turns, deletions and conversations, *)
(* any limit of the list and any number of header goroutines.              *)
(***************************************************************************)
EXTENDS Conversations, SequenceTheorems, FiniteSetTheorems, TLAPS

-----------------------------------------------------------------------------
(* The inductive invariant.  First, the shape of the state.                *)

\* A turn has a conversation as long as it, or its header goroutine, does
\* anything; only one under way has snapshots to take.
TurnShape ==
  \A t \in Turns :
    /\ conv[t] = None => pc[t] = "idle" /\ flush[t] = "off"
    /\ pc[t] \in {"idle", "resolved"} => stage[t] = "none"
    /\ pc[t] = "resolved" => flush[t] = "off"

DeleterShape == \A d \in Deleters : dpc[d] = "idle" <=> target[d] = None

Shape == TypeOK /\ ListMatchesItems /\ TurnShape /\ DeleterShape

\* A running conversation has a turn that will end it.
HasTurn(c) == Running(c) => \E t \in Turns : pc[t] = "running" /\ conv[t] = c

TurnsEnd == \A c \in Conversations \ interrupted : HasTurn(c)

\* Nobody is saving what was deleted.
Gone(c) == ~Present(c) /\ rows[c] = None /\ ~Saving(c)

DeletedGone == \A c \in deleted : Gone(c)

\* A deletion that met no turn finds none running, and what it has removed
\* from memory stays out.
Undisturbed(c) ==
  /\ BeingDeleted(c) => /\ ~Running(c)
                        /\ \A t \in Turns : conv[t] = c => pc[t] # "running"
  /\ (\E d \in Deleters : target[d] = c /\ dpc[d] = "row") => ~Present(c)

\* What is in memory is in the table, or about to be: somebody will still
\* read it, or all who have read it read what it is now.
ToBeRead(c) == \E t \in Turns : conv[t] = c /\ stage[t] = "read"

Fresh(c) ==
  \A t \in Turns : conv[t] = c => /\ stage[t] = "save" => snap[t] = items[c]
                                  /\ flush[t] = "save" => flushSnap[t] = items[c]

Followed(c) ==
  Present(c) => ToBeRead(c) \/ (Fresh(c) /\ (rows[c] = items[c] \/ Saving(c)))

\* A thread Notion has deleted is that of a conversation that goes next, or
\* of one of which nothing was left before it was begun anew.
Bare(entry) == entry # None => ~entry.thread

Threadless(c) ==
  /\ Bare(items[c]) /\ Bare(rows[c])
  /\ \A t \in Turns : conv[t] = c => /\ stage[t] = "save" => Bare(snap[t])
                                     /\ flush[t] = "save" => Bare(flushSnap[t])

GoesNext(c) ==
  c \in orphaned => Threadless(c) \/ \E d \in Deleters : target[d] = c /\ dpc[d] = "local"

Unexcused == \A c \in Conversations \ excused : Undisturbed(c) /\ Followed(c) /\ GoesNext(c)

-----------------------------------------------------------------------------
(* The list.                                                               *)

LEMMA WithoutIs ==
  ASSUME NEW c, order \in Seq(Conversations), IsInjective(order)
  PROVE  /\ Without(c) \in Seq(Conversations) /\ IsInjective(Without(c))
         /\ ToSet(Without(c)) = ToSet(order) \ {c}
         /\ Len(Without(c)) = IF c \in ToSet(order) THEN Len(order) - 1 ELSE Len(order)
<1>1. Len(order) \in Nat /\ DOMAIN order = 1..Len(order)
  OBVIOUS
<1>2. CASE \A i \in 1..Len(order) : order[i] # c
  <2>1. Without(c) = order
    BY <1>2 DEF Without, RemoveFirst
  <2>2. c \notin ToSet(order)
    BY <1>1, <1>2 DEF ToSet
  <2>. QED  BY <1>1, <2>1, <2>2
<1>3. ASSUME NEW k \in 1..Len(order), order[k] = c
      PROVE  /\ Without(c) \in Seq(Conversations) /\ IsInjective(Without(c))
             /\ ToSet(Without(c)) = ToSet(order) \ {c}
             /\ Len(Without(c)) = IF c \in ToSet(order) THEN Len(order) - 1 ELSE Len(order)
  <2>1. {i \in 1..Len(order) : order[i] = c} = {k}
    BY <1>1, <1>3 DEF IsInjective
  <2>2. Min({k}) = k
    BY DEF Min
  <2>3. SelectInSeq(order, LAMBDA v : v = c) = k
    BY <2>1, <2>2 DEF SelectInSeq
  <2>4. Without(c) = SubSeq(order, 1, k - 1) \o SubSeq(order, k + 1, Len(order))
    BY <1>3, <2>3 DEF Without, RemoveFirst, RemoveAt
  <2> DEFINE s == SubSeq(order, 1, k - 1)
             r == SubSeq(order, k + 1, Len(order))
  <2>5. s \in Seq(Conversations) /\ Len(s) = k - 1 /\ \A i \in 1..(k - 1) : s[i] = order[i]
    BY <1>1, SubSeqProperties
  <2>6. r \in Seq(Conversations) /\ Len(r) = Len(order) - k /\ \A i \in 1..(Len(order) - k) : r[i] = order[i + k]
    <3>1. \A i \in (k + 1)..Len(order) : order[i] \in Conversations
      BY <1>1
    <3>2. /\ r \in Seq(Conversations)
          /\ Len(r) = IF k + 1 <= Len(order) THEN Len(order) - (k + 1) + 1 ELSE 0
          /\ \A i \in 1..(Len(order) - (k + 1) + 1) : r[i] = order[(k + 1) + i - 1]
      BY <1>1, <3>1, SubSeqProperties
    <3> HIDE DEF r
    <3>3. Len(r) = Len(order) - k
      <4>1. k \in Nat /\ k <= Len(order) /\ Len(order) \in Nat
        BY <1>1, <1>3
      <4>2. CASE k + 1 <= Len(order)
        <5>1. Len(r) = Len(order) - (k + 1) + 1
          BY <3>2, <4>2, Zenon
        <5>. QED  BY <4>1, <5>1
      <4>3. CASE ~(k + 1 <= Len(order))
        <5>1. Len(r) = 0
          BY <3>2, <4>3, Zenon
        <5>2. k = Len(order)
          BY <4>1, <4>3
        <5>. QED  BY <4>1, <5>1, <5>2
      <4>. QED  BY <4>2, <4>3
    <3>4. ASSUME NEW i \in 1..(Len(order) - k) PROVE r[i] = order[i + k]
      <4>1. i \in 1..(Len(order) - (k + 1) + 1) /\ (k + 1) + i - 1 = i + k
        BY <1>1
      <4>. QED  BY <3>2, <4>1
    <3>. QED  BY <3>2, <3>3, <3>4
  <2>14. Without(c) = s \o r
    BY <2>4
  <2> HIDE DEF s, r
  <2>7. s \o r \in Seq(Conversations) /\ Len(s \o r) = Len(order) - 1
    <3>1. s \o r \in Seq(Conversations) /\ Len(s \o r) = Len(s) + Len(r)
      BY <2>5, <2>6, ConcatProperties, Zenon
    <3>2. Len(s) = k - 1 /\ Len(r) = Len(order) - k /\ k \in Nat
      BY <2>5, <2>6
    <3>. QED  BY <1>1, <3>1, <3>2
  <2>8. \A i \in 1..(Len(order) - 1) : (s \o r)[i] = order[IF i < k THEN i ELSE i + 1]
    <3>1. ASSUME NEW i \in 1..(Len(order) - 1) PROVE (s \o r)[i] = order[IF i < k THEN i ELSE i + 1]
      <4>1. (s \o r)[i] = IF i <= Len(s) THEN s[i] ELSE r[i - Len(s)]
        BY <1>1, <2>5, <2>6, ConcatProperties
      <4>2. CASE i < k
        BY <1>1, <2>5, <4>1, <4>2
      <4>3. CASE ~(i < k)
        <5>1. i - Len(s) \in 1..(Len(order) - k) /\ i - Len(s) + k = i + 1 /\ ~(i <= Len(s))
          BY <1>1, <2>5, <4>3
        <5>. QED  BY <2>6, <4>1, <4>3, <5>1
      <4>. QED  BY <4>2, <4>3
    <3>. QED  BY <3>1
  <2> DEFINE w == s \o r
  <2>9. w = Without(c) /\ DOMAIN w = 1..(Len(order) - 1)
    <3>1. Len(order) - 1 \in Nat
      BY <1>1
    <3>2. DOMAIN w = 1..Len(w)
      BY <2>7
    <3>. QED  BY <2>7, <2>14, <3>2
  <2> HIDE DEF w
  <2>10. \A i \in 1..(Len(order) - 1) : w[i] = order[IF i < k THEN i ELSE i + 1]
    BY <2>8 DEF w
  <2>11. IsInjective(w)
    <3>1. ASSUME NEW i \in 1..(Len(order) - 1), NEW j \in 1..(Len(order) - 1), w[i] = w[j] PROVE i = j
      <4> DEFINE p == IF i < k THEN i ELSE i + 1
                 q == IF j < k THEN j ELSE j + 1
      <4>1. p \in 1..Len(order) /\ q \in 1..Len(order) /\ order[p] = order[q]
        BY <1>1, <2>10, <3>1
      <4>2. p = q
        BY <1>1, <4>1 DEF IsInjective
      <4>. QED  BY <4>2
    <3>. QED  BY <2>9, <3>1 DEF IsInjective
  <2>12. ToSet(w) = ToSet(order) \ {c}
    <3>1. ASSUME NEW i \in 1..(Len(order) - 1) PROVE w[i] \in ToSet(order) \ {c}
      BY <1>1, <1>3, <2>10 DEF IsInjective, ToSet
    <3>2. ASSUME NEW j \in 1..Len(order), order[j] # c PROVE \E i \in 1..(Len(order) - 1) : w[i] = order[j]
      <4>1. CASE j < k
        BY <1>1, <2>10, <4>1
      <4>2. CASE j > k
        <5>1. j - 1 \in 1..(Len(order) - 1) /\ ~(j - 1 < k) /\ j - 1 + 1 = j
          BY <1>1, <4>2
        <5>. QED  BY <2>10, <5>1
      <4>3. j # k
        BY <1>3, <3>2
      <4>. QED  BY <1>1, <4>1, <4>2, <4>3
    <3>3. ToSet(w) = {w[i] : i \in 1..(Len(order) - 1)}
      BY <2>9 DEF ToSet
    <3>5. \A x \in ToSet(order) : \E j \in 1..Len(order) : x = order[j]
      BY <1>1 DEF ToSet
    <3>6. ToSet(w) \subseteq ToSet(order) \ {c}
      BY <3>1, <3>3
    <3>7. ToSet(order) \ {c} \subseteq ToSet(w)
      BY <3>2, <3>3, <3>5
    <3>. QED  BY <3>6, <3>7
  <2>13. c \in ToSet(order)
    BY <1>1, <1>3 DEF ToSet
  <2>. QED  BY <2>7, <2>9, <2>11, <2>12, <2>13 DEF w
<1>. QED  BY <1>2, <1>3

LEMMA MovedIs ==
  ASSUME NEW c \in Conversations, order \in Seq(Conversations), IsInjective(order)
  PROVE  LET listing == MovedToFront(c)
         IN  /\ listing \in Seq(Conversations) /\ IsInjective(listing)
             /\ ToSet(listing) = ToSet(order) \cup {c}
             /\ Len(listing) = (IF c \in ToSet(order) THEN Len(order) ELSE Len(order) + 1)
             /\ Len(listing) \in Nat /\ Len(listing) > 0 /\ listing[1] = c
<1> DEFINE w == Without(c)
           f == <<c>>
<1>1. /\ w \in Seq(Conversations) /\ IsInjective(w) /\ ToSet(w) = ToSet(order) \ {c}
      /\ Len(w) = (IF c \in ToSet(order) THEN Len(order) - 1 ELSE Len(order))
      /\ Len(w) \in Nat /\ DOMAIN w = 1..Len(w)
  BY WithoutIs
<1>2. f \in Seq(Conversations) /\ Len(f) = 1 /\ f[1] = c
  OBVIOUS
<1> HIDE DEF w, f
<1> DEFINE listing == f \o w
<1>3. /\ listing \in Seq(Conversations) /\ Len(listing) = 1 + Len(w)
      /\ \A i \in 1..(1 + Len(w)) : listing[i] = IF i <= 1 THEN f[i] ELSE w[i - 1]
  <2>1. /\ listing \in Seq(Conversations) /\ Len(listing) = Len(f) + Len(w)
        /\ \A i \in 1..(Len(f) + Len(w)) : listing[i] = IF i <= Len(f) THEN f[i] ELSE w[i - Len(f)]
    <3>1. f \in Seq(Conversations) /\ w \in Seq(Conversations)
      BY <1>1, <1>2
    <3>. QED  BY <3>1, ConcatProperties, Zenon
  <2> HIDE DEF listing
  <2>. QED  BY <1>1, <1>2, <2>1
<1> HIDE DEF listing
<1>4. /\ DOMAIN listing = 1..(1 + Len(w)) /\ listing[1] = c
      /\ \A i \in 2..(1 + Len(w)) : listing[i] = w[i - 1]
  BY <1>1, <1>2, <1>3
<1>5. \A i \in 1..Len(w) : w[i] # c /\ listing[i + 1] = w[i]
  BY <1>1, <1>4 DEF ToSet
<1>6. IsInjective(listing)
  <2>1. \A i \in 2..(1 + Len(w)) : i - 1 \in 1..Len(w) /\ listing[i] # c
    BY <1>1, <1>4, <1>5
  <2>2. ASSUME NEW i \in 1..(1 + Len(w)), NEW j \in 1..(1 + Len(w)), listing[i] = listing[j] PROVE i = j
    <3>1. CASE i = 1 \/ j = 1
      BY <1>1, <1>4, <2>1, <2>2, <3>1
    <3>2. CASE i # 1 /\ j # 1
      <4>1. w[i - 1] = w[j - 1] /\ i - 1 \in 1..Len(w) /\ j - 1 \in 1..Len(w)
        BY <1>1, <1>4, <2>2, <3>2
      <4>. QED  BY <1>1, <4>1 DEF IsInjective
    <3>. QED  BY <3>1, <3>2
  <2>. QED  BY <1>4, <2>2 DEF IsInjective
<1>7. ToSet(listing) = ToSet(order) \cup {c}
  <2>1. ToSet(listing) = {c} \cup ToSet(w)
    <3>1. ASSUME NEW i \in 1..(1 + Len(w)) PROVE listing[i] \in {c} \cup ToSet(w)
      <4>1. CASE i = 1
        BY <1>4, <4>1
      <4>2. CASE i # 1
        <5>1. listing[i] = w[i - 1] /\ i - 1 \in 1..Len(w)
          BY <1>1, <1>4, <4>2
        <5>. QED  BY <1>1, <5>1 DEF ToSet
      <4>. QED  BY <4>1, <4>2
    <3>2. c \in ToSet(listing)
      BY <1>1, <1>4 DEF ToSet
    <3>3. ASSUME NEW i \in 1..Len(w) PROVE w[i] \in ToSet(listing)
      <4>1. i + 1 \in 1..(1 + Len(w)) /\ listing[i + 1] = w[i]
        BY <1>1, <1>5
      <4>2. listing[i + 1] \in ToSet(listing)
        BY <1>4, <4>1 DEF ToSet
      <4>. QED  BY <4>1, <4>2
    <3>4. ToSet(listing) = {listing[i] : i \in 1..(1 + Len(w))} /\ ToSet(w) = {w[i] : i \in 1..Len(w)}
      BY <1>1, <1>4 DEF ToSet
    <3>. QED  BY <3>1, <3>2, <3>3, <3>4
  <2>. QED  BY <1>1, <2>1
<1>8. listing = MovedToFront(c)
  BY DEF MovedToFront, listing, f, w
<1>. QED  BY <1>1, <1>3, <1>4, <1>6, <1>7, <1>8

LEMMA KeptIs ==
  ASSUME NEW listing \in Seq(Conversations), IsInjective(listing)
  PROVE  /\ Kept(listing) \in Seq(Conversations) /\ IsInjective(Kept(listing))
         /\ Len(Kept(listing)) <= MaxEntries
         /\ ToSet(Kept(listing)) \subseteq ToSet(listing)
         /\ Len(listing) > 0 => listing[1] \in ToSet(Kept(listing))
<1>1. Len(listing) \in Nat /\ MaxEntries \in Nat \ {0} /\ DOMAIN listing = 1..Len(listing)
  BY ConversationsAssumption
<1>2. CASE Len(listing) <= MaxEntries
  <2>1. Kept(listing) = listing
    BY <1>2 DEF Kept
  <2>. QED  BY <1>1, <1>2, <2>1 DEF ToSet
<1>3. CASE ~(Len(listing) <= MaxEntries)
  <2> DEFINE k == SubSeq(listing, 1, MaxEntries)
  <2>1. /\ k \in Seq(Conversations) /\ Len(k) = MaxEntries /\ DOMAIN k = 1..MaxEntries
        /\ \A i \in 1..MaxEntries : k[i] = listing[i]
    BY <1>1, <1>3, SubSeqProperties
  <2>2. k = Kept(listing)
    BY <1>3 DEF Kept
  <2> HIDE DEF k
  <2>3. IsInjective(k)
    BY <1>1, <1>3, <2>1 DEF IsInjective
  <2>4. ToSet(k) \subseteq ToSet(listing)
    BY <1>1, <1>3, <2>1 DEF ToSet
  <2>5. listing[1] \in ToSet(k)
    BY <1>1, <2>1 DEF ToSet
  <2>. QED  BY <1>1, <2>1, <2>2, <2>3, <2>4, <2>5
<1>. QED  BY <1>2, <1>3

-----------------------------------------------------------------------------
(* The store.                                                              *)

\* The parts of TypeOK.
StoreOK ==
  /\ order \in Seq(Conversations) /\ Len(order) <= MaxEntries
  /\ items \in [Conversations -> Snapshots]
  /\ ListMatchesItems

TurnType ==
  /\ pc \in [Turns -> {"idle", "resolved", "running", "ended"}]
  /\ conv \in [Turns -> Conversations \cup {None}]
  /\ stage \in [Turns -> {"none", "read", "save"}] /\ snap \in [Turns -> Snapshots]
  /\ flush \in [Turns -> {"off", "save", "spent"}]
  /\ flushSnap \in [Turns -> Snapshots]

RestType ==
  /\ rows \in [Conversations -> Snapshots]
  /\ orphaned \subseteq Conversations
  /\ dpc \in [Deleters -> {"idle", "remote", "local", "row"}]
  /\ target \in [Deleters -> Conversations \cup {None}]
  /\ deleted \subseteq Conversations /\ excused \subseteq Conversations
  /\ interrupted \subseteq Conversations

LEMMA ShapeParts == Shape <=> StoreOK /\ TurnType /\ RestType /\ TurnShape /\ DeleterShape
BY DEF Shape, TypeOK, StoreOK, TurnType, RestType

\* A conversation that is there has an entry.
LEMMA EntryIs ==
  ASSUME items \in [Conversations -> Snapshots], NEW c \in Conversations
  PROVE  Present(c) <=> items[c] \in Entry
BY ConversationsAssumption DEF Present, Snapshots

LEMMA ChangeIs ==
  ASSUME StoreOK, NEW c \in Conversations, Present(c), NEW entry \in Entry, Change(c, entry)
  PROVE  /\ StoreOK' /\ items'[c] = entry
         /\ \A e \in Conversations : e # c => items'[e] = items[e]
         /\ \A e \in Conversations : Present(e)' <=> Present(e)
<1>1. /\ order' \in Seq(Conversations) /\ IsInjective(order') /\ ToSet(order') = ToSet(order) \cup {c}
      /\ Len(order') = (IF c \in ToSet(order) THEN Len(order) ELSE Len(order) + 1)
  BY MovedIs DEF StoreOK, ListMatchesItems, Change
<1>2. c \in ToSet(order)
  BY DEF StoreOK, ListMatchesItems
<1>3. items' \in [Conversations -> Snapshots] /\ entry # None
  BY ConversationsAssumption DEF Change, StoreOK, Snapshots
<1>4. items'[c] = entry /\ \A e \in Conversations : e # c => items'[e] = items[e]
  BY DEF Change, StoreOK
<1>5. \A e \in Conversations : Present(e)' <=> Present(e)
  BY <1>3, <1>4 DEF Present
<1>6. ToSet(order)' = {e \in Conversations : Present(e)'}
  BY <1>1, <1>2, <1>5 DEF StoreOK, ListMatchesItems
<1>7. Len(order') <= MaxEntries
  BY <1>1, <1>2 DEF StoreOK
<1>. QED  BY <1>1, <1>3, <1>4, <1>5, <1>6, <1>7 DEF StoreOK, ListMatchesItems

LEMMA AddIs ==
  ASSUME StoreOK, NEW c \in Conversations, Add(c)
  PROVE  /\ StoreOK' /\ items'[c] = [status |-> "running", thread |-> FALSE]
         /\ \A e \in Conversations : e # c => items'[e] = items[e] \/ items'[e] = None
<1> DEFINE moved == MovedToFront(c)
           new == [status |-> "running", thread |-> FALSE]
<1>1. /\ moved \in Seq(Conversations) /\ IsInjective(moved) /\ ToSet(moved) = ToSet(order) \cup {c}
      /\ Len(moved) > 0 /\ moved[1] = c
  BY MovedIs DEF StoreOK, ListMatchesItems
<1>2. /\ order' = Kept(moved)
      /\ items' = [d \in Conversations |-> IF d = c THEN new
                                           ELSE IF d \in ToSet(order') THEN items[d] ELSE None]
  BY DEF Add
<1> HIDE DEF moved
<1>3. /\ order' \in Seq(Conversations) /\ IsInjective(order') /\ Len(order') <= MaxEntries
      /\ ToSet(order') \subseteq ToSet(order) \cup {c} /\ c \in ToSet(order')
  BY <1>1, <1>2, KeptIs
<1>4. new \in Entry /\ new # None
  <2>1. new \in Entry
    BY DEF Entry
  <2>. QED  BY <2>1, ConversationsAssumption
<1> HIDE DEF new
<1>5. items' \in [Conversations -> Snapshots]
  BY <1>2, <1>4 DEF StoreOK, Snapshots
<1>6. /\ items'[c] = new
      /\ \A e \in Conversations : e # c => items'[e] = IF e \in ToSet(order') THEN items[e] ELSE None
  BY <1>2
<1>7. \A e \in ToSet(order) : items[e] # None
  BY DEF StoreOK, ListMatchesItems, Present
<1>8. \A e \in Conversations : e \in ToSet(order') <=> items'[e] # None
  BY <1>3, <1>4, <1>6, <1>7
<1>9. ToSet(order') \subseteq Conversations
  BY <1>3 DEF ToSet
<1>10. ToSet(order)' = {e \in Conversations : Present(e)'}
  BY <1>8, <1>9 DEF Present
<1>. QED  BY <1>3, <1>5, <1>6, <1>10 DEF StoreOK, ListMatchesItems, new

LEMMA RemoveIs ==
  ASSUME StoreOK, NEW c \in Conversations,
         items' = [items EXCEPT ![c] = None], order' = Without(c)
  PROVE  /\ StoreOK' /\ items'[c] = None
         /\ \A e \in Conversations : e # c => items'[e] = items[e]
<1>1. /\ order' \in Seq(Conversations) /\ IsInjective(order') /\ ToSet(order') = ToSet(order) \ {c}
      /\ Len(order') = (IF c \in ToSet(order) THEN Len(order) - 1 ELSE Len(order))
  BY WithoutIs DEF StoreOK, ListMatchesItems
<1>2. /\ items' \in [Conversations -> Snapshots] /\ items'[c] = None
      /\ \A e \in Conversations : e # c => items'[e] = items[e]
  BY DEF StoreOK, Snapshots
<1>3. ToSet(order)' = {e \in Conversations : Present(e)'}
  BY <1>1, <1>2 DEF StoreOK, ListMatchesItems, Present
<1>4. Len(order') <= MaxEntries
  BY <1>1, ConversationsAssumption DEF StoreOK
<1>. QED  BY <1>1, <1>2, <1>3, <1>4 DEF StoreOK, ListMatchesItems

LEMMA PermutationIs ==
  ASSUME NEW S \in SUBSET Conversations, NEW listing \in SetToAllKPermutations(S)
  PROVE  listing \in Seq(Conversations) /\ IsInjective(listing) /\ ToSet(listing) \subseteq S
<1>1. PICK s \in SUBSET S : listing \in SetToSeqs(s)
  BY DEF SetToAllKPermutations
<1>2. IsFiniteSet(s)
  BY ConversationsAssumption, FS_Subset
<1>3. Cardinality(s) \in Nat
  BY <1>2, FS_CardinalityType
<1>4. /\ listing \in [1..Cardinality(s) -> s]
      /\ \A i, j \in 1..Cardinality(s) : i # j => listing[i] # listing[j]
  BY <1>1 DEF SetToSeqs
<1>5. listing \in Seq(Conversations)
  BY <1>3, <1>4, SeqDef
<1>6. IsInjective(listing)
  BY <1>4 DEF IsInjective
<1>7. ToSet(listing) \subseteq S
  BY <1>4 DEF ToSet
<1>. QED  BY <1>5, <1>6, <1>7

LEMMA RestartIs ==
  ASSUME rows \in [Conversations -> Snapshots], Restart
  PROVE  /\ StoreOK'
         /\ \A e \in Conversations : items'[e] = rows[e] \/ items'[e] = None
         /\ \A e \in Conversations : e \in ToSet(order') <=> items'[e] # None
         /\ interrupted' = {e \in ToSet(order') : rows[e].status = "running"}
<1> DEFINE S == {c \in Conversations : rows[c] # None}
<1>1. PICK listing \in SetToAllKPermutations(S) :
        /\ order' = Kept(listing)
        /\ items' = [c \in Conversations |-> IF c \in ToSet(Kept(listing)) THEN rows[c] ELSE None]
  BY DEF Restart
<1>2. listing \in Seq(Conversations) /\ IsInjective(listing) /\ ToSet(listing) \subseteq S
  BY <1>1, PermutationIs
<1>3. /\ order' \in Seq(Conversations) /\ IsInjective(order') /\ Len(order') <= MaxEntries
      /\ ToSet(order') \subseteq S
  BY <1>1, <1>2, KeptIs
<1>4. items' = [c \in Conversations |-> IF c \in ToSet(order') THEN rows[c] ELSE None]
  BY <1>1
<1>5. items' \in [Conversations -> Snapshots]
  BY <1>4 DEF Snapshots
<1>6. \A e \in Conversations : e \in ToSet(order') <=> items'[e] # None
  BY <1>3, <1>4
<1>7. ToSet(order)' = {e \in Conversations : Present(e)'}
  BY <1>3, <1>6 DEF Present
<1>8. interrupted' = {e \in ToSet(order') : rows[e].status = "running"}
  BY DEF Restart
<1>. QED  BY <1>3, <1>4, <1>5, <1>6, <1>7, <1>8 DEF StoreOK, ListMatchesItems

-----------------------------------------------------------------------------
(* The shape.                                                              *)

\* The conversation of a turn under way.
LEMMA TurnsConversation ==
  ASSUME Shape, NEW t \in Turns, pc[t] # "idle" \/ flush[t] # "off" \/ stage[t] # "none"
  PROVE  conv[t] \in Conversations
BY ShapeParts DEF TurnType, TurnShape

LEMMA DeletersTarget ==
  ASSUME Shape, NEW d \in Deleters, dpc[d] # "idle"
  PROVE  target[d] \in Conversations
BY ShapeParts DEF RestType, DeleterShape

\* What Settle does: a turn that returns, and has no header goroutine at work,
\* leaves its conversation.
LEMMA SettleIs ==
  ASSUME TurnType, NEW t \in Turns, NEW place \in {"idle", "resolved", "running", "ended"},
         NEW f \in {"off", "save", "spent"}, Settle(t, place, f)
  PROVE  /\ pc' \in [Turns -> {"idle", "resolved", "running", "ended"}]
         /\ conv' \in [Turns -> Conversations \cup {None}]
         /\ flush' \in [Turns -> {"off", "save", "spent"}]
         /\ pc'[t] = place /\ (conv'[t] = conv[t] \/ conv'[t] = None)
         /\ flush'[t] = f \/ (f = "spent" /\ flush'[t] = "off")
         /\ conv'[t] = None /\ conv[t] # None => place = "idle" /\ flush'[t] = "off"
         /\ f = "save" => conv'[t] = conv[t]
         /\ place # "idle" => conv'[t] = conv[t] /\ flush'[t] = f
         /\ \A u \in Turns : u # t => pc'[u] = pc[u] /\ conv'[u] = conv[u] /\ flush'[u] = flush[u]
<1>1. /\ pc' = [pc EXCEPT ![t] = place]
      /\ flush' = [flush EXCEPT ![t] = IF place = "idle" /\ f = "spent" THEN "off" ELSE f]
      /\ conv' = [conv EXCEPT ![t] = IF place = "idle" /\ f \in {"off", "spent"} THEN None ELSE conv[t]]
  BY DEF Settle
<1>. QED  BY <1>1 DEF TurnType

LEMMA ReturnedIs ==
  ASSUME TurnType, NEW t \in Turns
  PROVE  /\ Returned(t) \in {"idle", "resolved", "running"}
         /\ pc[t] # "ended" => Returned(t) = pc[t]
         /\ pc[t] = "ended" => Returned(t) = "idle"
BY DEF TurnType, Returned

\* The deletions and what is excused stay among the conversations.
LEMMA ExcuseIs ==
  ASSUME RestType, NEW S \in SUBSET Conversations, Excuse(S)
  PROVE  deleted' \subseteq Conversations /\ excused' \subseteq Conversations
BY DEF RestType, Excuse

LEMMA ReturnIs ==
  ASSUME RestType, NEW d \in Deleters, Return(d)
  PROVE  /\ dpc' \in [Deleters -> {"idle", "remote", "local", "row"}]
         /\ target' \in [Deleters -> Conversations \cup {None}]
         /\ dpc'[d] = "idle" /\ target'[d] = None
         /\ \A e \in Deleters : e # d => dpc'[e] = dpc[e] /\ target'[e] = target[e]
BY DEF RestType, Return

LEMMA StoreStep == ASSUME Shape, [Next]_vars PROVE StoreOK'
<1>. StoreOK /\ TurnType /\ RestType /\ TurnShape /\ DeleterShape
  BY ShapeParts
<1>. None \notin Conversations
  BY ConversationsAssumption
<1>1. ASSUME NEW t \in Turns, Read(t) PROVE StoreOK'
  BY <1>1 DEF Read, Settle, Returned, Excuse, Overtaken, store, turn, header, deletion,
       ghost, StoreOK, ListMatchesItems, Present
<1>2. ASSUME NEW t \in Turns, Save(t) PROVE StoreOK'
  BY <1>2 DEF Save, Settle, Returned, store, turn, header, deletion, ghost, StoreOK,
       ListMatchesItems, Present
<1>3. ASSUME NEW t \in Turns, FlushHeaders(t) PROVE StoreOK'
  <2>1. conv[t] \in Conversations
    BY <1>3, TurnsConversation DEF FlushHeaders
  <2>2. CASE Present(conv[t])
    <3>1. items[conv[t]] \in Entry
      BY <2>1, <2>2, EntryIs DEF StoreOK
    <3>2. items[conv[t]] \in Entry
      BY <3>1 DEF Entry
    <3>3. Change(conv[t], items[conv[t]])
      BY <1>3, <2>2 DEF FlushHeaders
    <3>. QED  BY <2>1, <2>2, <3>2, <3>3, ChangeIs
  <2>3. CASE ~Present(conv[t])
    BY <1>3, <2>3 DEF FlushHeaders, store, StoreOK, ListMatchesItems, Present
  <2>. QED  BY <2>2, <2>3
<1>4. ASSUME NEW t \in Turns, FlushSave(t) PROVE StoreOK'
  BY <1>4 DEF FlushSave, Settle, store, turn, header, deletion, ghost, StoreOK,
       ListMatchesItems, Present
<1>5. ASSUME NEW t \in Turns, NEW c \in Conversations, Begin(t, c) PROVE StoreOK'
  BY <1>5, AddIs DEF Begin
<1>6. ASSUME NEW t \in Turns, NEW c \in Conversations, Resolve(t, c) PROVE StoreOK'
  BY <1>6 DEF Resolve, store, turn, header, deletion, ghost, StoreOK, ListMatchesItems,
       Present
<1>7. ASSUME NEW t \in Turns, NEW c \in Conversations, BeginInstead(t, c)
      PROVE  StoreOK'
  BY <1>7, AddIs DEF BeginInstead
<1>8. ASSUME NEW t \in Turns, Continue(t) PROVE StoreOK'
  <2>1. conv[t] \in Conversations /\ Present(conv[t])
    BY <1>8, TurnsConversation DEF Continue
  <2>2. items[conv[t]] \in Entry
    BY <2>1, EntryIs DEF StoreOK
  <2>3. [items[conv[t]] EXCEPT !.status = "running"] \in Entry
    BY <2>2 DEF Entry
  <2>. QED  BY <1>8, <2>1, <2>3, ChangeIs DEF Continue
<1>9. ASSUME NEW t \in Turns, Mark(t) PROVE StoreOK'
  <2>1. conv[t] \in Conversations
    BY <1>9, TurnsConversation DEF Mark, Working
  <2>2. CASE Present(conv[t])
    <3>1. items[conv[t]] \in Entry
      BY <2>1, <2>2, EntryIs DEF StoreOK
    <3>2. items[conv[t]] \in Entry
      BY <3>1 DEF Entry
    <3>3. Change(conv[t], items[conv[t]])
      BY <1>9, <2>2 DEF Mark, Update
    <3>. QED  BY <2>1, <2>2, <3>2, <3>3, ChangeIs
  <2>3. CASE ~Present(conv[t])
    BY <1>9, <2>3 DEF Mark, Update, store, StoreOK, ListMatchesItems, Present
  <2>. QED  BY <2>2, <2>3
<1>10. ASSUME NEW t \in Turns, PushDelta(t) PROVE StoreOK'
  <2>1. conv[t] \in Conversations
    BY <1>10, TurnsConversation DEF PushDelta, Working
  <2>2. CASE Present(conv[t])
    <3>1. items[conv[t]] \in Entry
      BY <2>1, <2>2, EntryIs DEF StoreOK
    <3>2. [items[conv[t]] EXCEPT !.status = "running"] \in Entry
      BY <3>1 DEF Entry
    <3>3. Change(conv[t], [items[conv[t]] EXCEPT !.status = "running"])
      BY <1>10, <2>2 DEF PushDelta, Update
    <3>. QED  BY <2>1, <2>2, <3>2, <3>3, ChangeIs
  <2>3. CASE ~Present(conv[t])
    BY <1>10, <2>3 DEF PushDelta, Update, store, StoreOK, ListMatchesItems, Present
  <2>. QED  BY <2>2, <2>3
<1>11. ASSUME NEW t \in Turns, Fail(t) PROVE StoreOK'
  <2>1. conv[t] \in Conversations
    BY <1>11, TurnsConversation DEF Fail, Working
  <2>2. CASE Present(conv[t])
    <3>1. items[conv[t]] \in Entry
      BY <2>1, <2>2, EntryIs DEF StoreOK
    <3>2. [items[conv[t]] EXCEPT !.status = "ended"] \in Entry
      BY <3>1 DEF Entry
    <3>3. Change(conv[t], [items[conv[t]] EXCEPT !.status = "ended"])
      BY <1>11, <2>2 DEF Fail, Update
    <3>. QED  BY <2>1, <2>2, <3>2, <3>3, ChangeIs
  <2>3. CASE ~Present(conv[t])
    BY <1>11, <2>3 DEF Fail, Update, store, StoreOK, ListMatchesItems, Present
  <2>. QED  BY <2>2, <2>3
<1>12. ASSUME NEW t \in Turns, Abandon(t) PROVE StoreOK'
  BY <1>12 DEF Abandon, Working, Settle, store, turn, header, deletion, ghost, StoreOK,
       ListMatchesItems, Present
<1>13. ASSUME NEW t \in Turns, NEW thread \in BOOLEAN, Complete(t, thread)
       PROVE  StoreOK'
  <2>1. conv[t] \in Conversations
    BY <1>13, TurnsConversation DEF Complete, Working
  <2>2. CASE Present(conv[t])
    <3>1. items[conv[t]] \in Entry
      BY <2>1, <2>2, EntryIs DEF StoreOK
    <3>2. [status |-> "ended", thread |-> thread] \in Entry
      BY <3>1 DEF Entry
    <3>3. Change(conv[t], [status |-> "ended", thread |-> thread])
      BY <1>13, <2>2 DEF Complete, Update
    <3>. QED  BY <2>1, <2>2, <3>2, <3>3, ChangeIs
  <2>3. CASE ~Present(conv[t])
    BY <1>13, <2>3 DEF Complete, Update, store, StoreOK, ListMatchesItems, Present
  <2>. QED  BY <2>2, <2>3
<1>14. ASSUME NEW d \in Deleters, NEW c \in Conversations, Look(d, c) PROVE StoreOK'
  BY <1>14 DEF Look, Excuse, SharedByRunning, store, turn, header, deletion, ghost,
       StoreOK, ListMatchesItems, Present
<1>15. ASSUME NEW d \in Deleters, DeleteThread(d) PROVE StoreOK'
  BY <1>15 DEF DeleteThread, store, turn, header, deletion, ghost, StoreOK,
       ListMatchesItems, Present
<1>16. ASSUME NEW d \in Deleters, DeleteThreadFails(d) PROVE StoreOK'
  BY <1>16 DEF DeleteThreadFails, Return, Excuse, store, turn, header, deletion, ghost,
       StoreOK, ListMatchesItems, Present
<1>17. ASSUME NEW d \in Deleters, RemoveConversation(d) PROVE StoreOK'
  BY <1>17, DeletersTarget, RemoveIs DEF RemoveConversation
<1>18. ASSUME NEW d \in Deleters, RemoveRefused(d) PROVE StoreOK'
  BY <1>18 DEF RemoveRefused, Return, Excuse, store, turn, header, deletion, ghost,
       StoreOK, ListMatchesItems, Present
<1>19. ASSUME NEW d \in Deleters, DeleteRow(d) PROVE StoreOK'
  BY <1>19 DEF DeleteRow, Return, Overtaken, store, turn, header, deletion, ghost,
       StoreOK, ListMatchesItems, Present
<1>20. ASSUME NEW d \in Deleters, DeleteRowFails(d) PROVE StoreOK'
  BY <1>20 DEF DeleteRowFails, Return, Excuse, store, turn, header, deletion, ghost,
       StoreOK, ListMatchesItems, Present
<1>21. CASE Restart
  BY <1>21, RestartIs DEF RestType
<1>22. CASE UNCHANGED vars
  BY <1>22 DEF vars, store, turn, header, deletion, ghost, StoreOK, ListMatchesItems,
       Present
<1>. QED  BY <1>1, <1>2, <1>3, <1>4, <1>5, <1>6, <1>7, <1>8, <1>9, <1>10, <1>11,
          <1>12, <1>13, <1>14, <1>15, <1>16, <1>17, <1>18, <1>19, <1>20, <1>21, <1>22
     DEF Next, TurnStep, DeleterStep

LEMMA TurnStepType == ASSUME Shape, [Next]_vars PROVE TurnType'
<1>. StoreOK /\ TurnType /\ RestType /\ TurnShape /\ DeleterShape
  BY ShapeParts
<1>. None \notin Conversations
  BY ConversationsAssumption
<1>1. ASSUME NEW t \in Turns, Read(t) PROVE TurnType'
  <2>1. conv[t] \in Conversations
    BY <1>1, TurnsConversation DEF Read
  <2>2. CASE Present(conv[t])
    BY <1>1, <2>1, <2>2 DEF Read, TurnType, StoreOK
  <2>3. CASE ~Present(conv[t])
    <3>1. /\ Settle(t, Returned(t), flush[t]) /\ stage' = [stage EXCEPT ![t] = "none"]
          /\ snap' = snap /\ flushSnap' = flushSnap
      BY <1>1, <2>3 DEF Read
    <3>2. Returned(t) \in {"idle", "resolved", "running", "ended"} /\ flush[t] \in {"off", "save", "spent"}
      BY ReturnedIs DEF TurnType
    <3>. QED  BY <3>1, <3>2, SettleIs DEF TurnType
  <2>. QED  BY <2>2, <2>3
<1>2. ASSUME NEW t \in Turns, Save(t) PROVE TurnType'
  <2>1. /\ Settle(t, Returned(t), flush[t]) /\ stage' = [stage EXCEPT ![t] = "none"]
        /\ snap' = [snap EXCEPT ![t] = None] /\ flushSnap' = flushSnap
    BY <1>2 DEF Save
  <2>2. Returned(t) \in {"idle", "resolved", "running", "ended"} /\ flush[t] \in {"off", "save", "spent"}
    BY ReturnedIs DEF TurnType
  <2>. QED  BY <2>1, <2>2, SettleIs DEF TurnType, Snapshots
<1>3. ASSUME NEW t \in Turns, FlushHeaders(t) PROVE TurnType'
  <2>1. conv[t] \in Conversations
    BY <1>3, TurnsConversation DEF FlushHeaders
  <2>2. CASE Present(conv[t])
    BY <1>3, <2>1, <2>2 DEF FlushHeaders, turn, TurnType, StoreOK
  <2>3. CASE ~Present(conv[t])
    BY <1>3, <2>3 DEF FlushHeaders, turn, TurnType
  <2>. QED  BY <2>2, <2>3
<1>4. ASSUME NEW t \in Turns, FlushSave(t) PROVE TurnType'
  <2>1. pc[t] \in {"idle", "resolved", "running", "ended"} /\ "spent" \in {"off", "save", "spent"}
    BY DEF TurnType
  <2>2. Settle(t, pc[t], "spent")
    BY <1>4 DEF FlushSave
  <2>3. flushSnap' = [flushSnap EXCEPT ![t] = None] /\ stage' = stage /\ snap' = snap
    BY <1>4 DEF FlushSave
  <2>. QED  BY <2>1, <2>2, <2>3, SettleIs DEF TurnType, Snapshots
<1>5. ASSUME NEW t \in Turns, NEW c \in Conversations, Begin(t, c) PROVE TurnType'
  BY <1>5 DEF Begin, StartOn, store, turn, header, deletion, ghost, TurnType
<1>6. ASSUME NEW t \in Turns, NEW c \in Conversations, Resolve(t, c) PROVE TurnType'
  BY <1>6 DEF Resolve, store, turn, header, deletion, ghost, TurnType
<1>7. ASSUME NEW t \in Turns, NEW c \in Conversations, BeginInstead(t, c)
      PROVE  TurnType'
  BY <1>7 DEF BeginInstead, StartOn, store, turn, header, deletion, ghost, TurnType
<1>8. ASSUME NEW t \in Turns, Continue(t) PROVE TurnType'
  BY <1>8 DEF Continue, Change, StartOn, store, turn, header, deletion, ghost, TurnType
<1>9. ASSUME NEW t \in Turns, Mark(t) PROVE TurnType'
  BY <1>9 DEF Mark, Working, Update, Change, store, turn, header, deletion, ghost,
       TurnType
<1>10. ASSUME NEW t \in Turns, PushDelta(t) PROVE TurnType'
  BY <1>10 DEF PushDelta, Working, Update, Change, store, turn, header, deletion,
       ghost, TurnType
<1>11. ASSUME NEW t \in Turns, Fail(t) PROVE TurnType'
  BY <1>11 DEF Fail, Working, Update, Change, store, turn, header, deletion, ghost,
       TurnType
<1>12. ASSUME NEW t \in Turns, Abandon(t) PROVE TurnType'
  <2>1. "idle" \in {"idle", "resolved", "running", "ended"} /\ flush[t] \in {"off", "save", "spent"}
    BY DEF TurnType
  <2>2. Settle(t, "idle", flush[t]) /\ stage' = stage /\ snap' = snap /\ flushSnap' = flushSnap
    BY <1>12 DEF Abandon
  <2>. QED  BY <2>1, <2>2, SettleIs DEF TurnType
<1>13. ASSUME NEW t \in Turns, NEW thread \in BOOLEAN, Complete(t, thread)
       PROVE  TurnType'
  BY <1>13 DEF Complete, Working, Update, Change, store, turn, header, deletion, ghost,
       TurnType
<1>14. ASSUME NEW d \in Deleters, NEW c \in Conversations, Look(d, c) PROVE TurnType'
  BY <1>14 DEF Look, Excuse, SharedByRunning, store, turn, header, deletion, ghost,
       TurnType
<1>15. ASSUME NEW d \in Deleters, DeleteThread(d) PROVE TurnType'
  BY <1>15 DEF DeleteThread, store, turn, header, deletion, ghost, TurnType
<1>16. ASSUME NEW d \in Deleters, DeleteThreadFails(d) PROVE TurnType'
  BY <1>16 DEF DeleteThreadFails, Return, Excuse, store, turn, header, deletion, ghost,
       TurnType
<1>17. ASSUME NEW d \in Deleters, RemoveConversation(d) PROVE TurnType'
  BY <1>17 DEF RemoveConversation, store, turn, header, deletion, ghost, TurnType
<1>18. ASSUME NEW d \in Deleters, RemoveRefused(d) PROVE TurnType'
  BY <1>18 DEF RemoveRefused, Return, Excuse, store, turn, header, deletion, ghost,
       TurnType
<1>19. ASSUME NEW d \in Deleters, DeleteRow(d) PROVE TurnType'
  BY <1>19 DEF DeleteRow, Return, Overtaken, store, turn, header, deletion, ghost,
       TurnType
<1>20. ASSUME NEW d \in Deleters, DeleteRowFails(d) PROVE TurnType'
  BY <1>20 DEF DeleteRowFails, Return, Excuse, store, turn, header, deletion, ghost,
       TurnType
<1>21. CASE Restart
  <2>1. /\ pc' = [t \in Turns |-> "idle"] /\ conv' = [t \in Turns |-> None]
        /\ stage' = [t \in Turns |-> "none"] /\ snap' = [t \in Turns |-> None]
        /\ flush' = [t \in Turns |-> "off"] /\ flushSnap' = [t \in Turns |-> None]
        /\ dpc' = [d \in Deleters |-> "idle"] /\ target' = [d \in Deleters |-> None]
    BY <1>21 DEF Restart
  <2>. QED  BY <2>1 DEF TurnType, Snapshots
<1>22. CASE UNCHANGED vars
  BY <1>22 DEF vars, store, turn, header, deletion, ghost, TurnType
<1>. QED  BY <1>1, <1>2, <1>3, <1>4, <1>5, <1>6, <1>7, <1>8, <1>9, <1>10, <1>11,
          <1>12, <1>13, <1>14, <1>15, <1>16, <1>17, <1>18, <1>19, <1>20, <1>21, <1>22
     DEF Next, TurnStep, DeleterStep

LEMMA RestStepType == ASSUME Shape, [Next]_vars PROVE RestType'
<1>. StoreOK /\ TurnType /\ RestType /\ TurnShape /\ DeleterShape
  BY ShapeParts
<1>. None \notin Conversations
  BY ConversationsAssumption
<1>1. ASSUME NEW t \in Turns, Read(t) PROVE RestType'
  <2>1. conv[t] \in Conversations
    BY <1>1, TurnsConversation DEF Read
  <2>2. Overtaken(conv[t]) \in SUBSET Conversations
    BY <2>1 DEF Overtaken
  <2>3. Excuse(Overtaken(conv[t])) \/ (deleted' = deleted /\ excused' = excused)
    BY <1>1 DEF Read
  <2>4. deleted' \subseteq Conversations /\ excused' \subseteq Conversations
    BY <2>2, <2>3, ExcuseIs DEF RestType
  <2>. QED  BY <1>1, <2>4 DEF Read, deletion, RestType
<1>2. ASSUME NEW t \in Turns, Save(t) PROVE RestType'
  <2>1. conv[t] \in Conversations
    BY <1>2, TurnsConversation DEF Save
  <2>. QED  BY <1>2, <2>1 DEF Save, deletion, ghost, RestType, TurnType
<1>3. ASSUME NEW t \in Turns, FlushHeaders(t) PROVE RestType'
  <2>1. conv[t] \in Conversations
    BY <1>3, TurnsConversation DEF FlushHeaders
  <2>2. Overtaken(conv[t]) \in SUBSET Conversations
    BY <2>1 DEF Overtaken
  <2>3. Excuse(Overtaken(conv[t])) \/ (deleted' = deleted /\ excused' = excused)
    BY <1>3 DEF FlushHeaders
  <2>4. deleted' \subseteq Conversations /\ excused' \subseteq Conversations
    BY <2>2, <2>3, ExcuseIs DEF RestType
  <2>. QED  BY <1>3, <2>4 DEF FlushHeaders, deletion, RestType
<1>4. ASSUME NEW t \in Turns, FlushSave(t) PROVE RestType'
  <2>1. conv[t] \in Conversations
    BY <1>4, TurnsConversation DEF FlushSave
  <2>. QED  BY <1>4, <2>1 DEF FlushSave, deletion, ghost, RestType, TurnType
<1>5. ASSUME NEW t \in Turns, NEW c \in Conversations, Begin(t, c) PROVE RestType'
  BY <1>5 DEF Begin, StartOn, store, turn, header, deletion, ghost, RestType
<1>6. ASSUME NEW t \in Turns, NEW c \in Conversations, Resolve(t, c) PROVE RestType'
  BY <1>6 DEF Resolve, store, turn, header, deletion, ghost, RestType
<1>7. ASSUME NEW t \in Turns, NEW c \in Conversations, BeginInstead(t, c)
      PROVE  RestType'
  BY <1>7 DEF BeginInstead, StartOn, store, turn, header, deletion, ghost, RestType
<1>8. ASSUME NEW t \in Turns, Continue(t) PROVE RestType'
  <2>1. conv[t] \in Conversations
    BY <1>8, TurnsConversation DEF Continue
  <2>. QED  BY <1>8, <2>1 DEF Continue, StartOn, deletion, RestType
<1>9. ASSUME NEW t \in Turns, Mark(t) PROVE RestType'
  BY <1>9 DEF Mark, Working, Update, Change, store, turn, header, deletion, ghost,
       RestType
<1>10. ASSUME NEW t \in Turns, PushDelta(t) PROVE RestType'
  BY <1>10 DEF PushDelta, Working, Update, Change, store, turn, header, deletion,
       ghost, RestType
<1>11. ASSUME NEW t \in Turns, Fail(t) PROVE RestType'
  BY <1>11 DEF Fail, Working, Update, Change, store, turn, header, deletion, ghost,
       RestType
<1>12. ASSUME NEW t \in Turns, Abandon(t) PROVE RestType'
  <2>1. conv[t] \in Conversations
    BY <1>12, TurnsConversation DEF Abandon, Working
  <2>. QED  BY <1>12, <2>1 DEF Abandon, deletion, RestType
<1>13. ASSUME NEW t \in Turns, NEW thread \in BOOLEAN, Complete(t, thread)
       PROVE  RestType'
  BY <1>13 DEF Complete, Working, Update, Change, store, turn, header, deletion, ghost,
       RestType
<1>14. ASSUME NEW d \in Deleters, NEW c \in Conversations, Look(d, c) PROVE RestType'
  BY <1>14 DEF Look, Excuse, SharedByRunning, store, turn, header, deletion, ghost,
       RestType
<1>15. ASSUME NEW d \in Deleters, DeleteThread(d) PROVE RestType'
  <2>1. target[d] \in Conversations
    BY <1>15, DeletersTarget DEF DeleteThread
  <2>. QED  BY <1>15, <2>1 DEF DeleteThread, ghost, RestType
<1>16. ASSUME NEW d \in Deleters, DeleteThreadFails(d) PROVE RestType'
  <2>1. target[d] \in Conversations
    BY <1>16, DeletersTarget DEF DeleteThreadFails
  <2>2. Return(d) /\ (Excuse({}) \/ Excuse({target[d]}))
    BY <1>16 DEF DeleteThreadFails
  <2>3. deleted' \subseteq Conversations /\ excused' \subseteq Conversations
    BY <2>1, <2>2, ExcuseIs
  <2>. QED  BY <1>16, <2>2, <2>3, ReturnIs DEF DeleteThreadFails, RestType
<1>17. ASSUME NEW d \in Deleters, RemoveConversation(d) PROVE RestType'
  BY <1>17 DEF RemoveConversation, store, turn, header, deletion, ghost, RestType
<1>18. ASSUME NEW d \in Deleters, RemoveRefused(d) PROVE RestType'
  <2>1. target[d] \in Conversations
    BY <1>18, DeletersTarget DEF RemoveRefused
  <2>2. Return(d) /\ (Excuse({}) \/ Excuse({target[d]}))
    BY <1>18 DEF RemoveRefused
  <2>3. deleted' \subseteq Conversations /\ excused' \subseteq Conversations
    BY <2>1, <2>2, ExcuseIs
  <2>. QED  BY <1>18, <2>2, <2>3, ReturnIs DEF RemoveRefused, RestType
<1>19. ASSUME NEW d \in Deleters, DeleteRow(d) PROVE RestType'
  <2>1. target[d] \in Conversations
    BY <1>19, DeletersTarget DEF DeleteRow
  <2>2. Overtaken(target[d]) \in SUBSET Conversations
    BY <2>1 DEF Overtaken
  <2>3. deleted' \subseteq Conversations /\ excused' \subseteq Conversations
    BY <1>19, <2>1, <2>2 DEF DeleteRow, RestType
  <2>4. rows' \in [Conversations -> Snapshots]
    BY <1>19, <2>1 DEF DeleteRow, RestType, Snapshots
  <2>. QED  BY <1>19, <2>3, <2>4, ReturnIs DEF DeleteRow, RestType
<1>20. ASSUME NEW d \in Deleters, DeleteRowFails(d) PROVE RestType'
  <2>1. target[d] \in Conversations
    BY <1>20, DeletersTarget DEF DeleteRowFails
  <2>2. Return(d) /\ (Excuse({}) \/ Excuse({target[d]}))
    BY <1>20 DEF DeleteRowFails
  <2>3. deleted' \subseteq Conversations /\ excused' \subseteq Conversations
    BY <2>1, <2>2, ExcuseIs
  <2>. QED  BY <1>20, <2>2, <2>3, ReturnIs DEF DeleteRowFails, RestType
<1>21. CASE Restart
  <2>1. /\ pc' = [t \in Turns |-> "idle"] /\ conv' = [t \in Turns |-> None]
        /\ stage' = [t \in Turns |-> "none"] /\ snap' = [t \in Turns |-> None]
        /\ flush' = [t \in Turns |-> "off"] /\ flushSnap' = [t \in Turns |-> None]
        /\ dpc' = [d \in Deleters |-> "idle"] /\ target' = [d \in Deleters |-> None]
    BY <1>21 DEF Restart
  <2>2. Excuse({c \in Conversations : BeingDeleted(c)}) /\ rows' = rows /\ orphaned' = orphaned
    BY <1>21 DEF Restart
  <2>3. deleted' \subseteq Conversations /\ excused' \subseteq Conversations
    BY <2>2, ExcuseIs
  <2>4. interrupted' \subseteq ToSet(order')
    BY <1>21, RestartIs DEF RestType
  <2>5. ToSet(order') \subseteq Conversations
    BY <1>21, RestartIs DEF StoreOK, ListMatchesItems, RestType
  <2>. QED  BY <2>1, <2>2, <2>3, <2>4, <2>5 DEF RestType
<1>22. CASE UNCHANGED vars
  BY <1>22 DEF vars, store, turn, header, deletion, ghost, RestType
<1>. QED  BY <1>1, <1>2, <1>3, <1>4, <1>5, <1>6, <1>7, <1>8, <1>9, <1>10, <1>11,
          <1>12, <1>13, <1>14, <1>15, <1>16, <1>17, <1>18, <1>19, <1>20, <1>21, <1>22
     DEF Next, TurnStep, DeleterStep

LEMMA TurnShapeStep == ASSUME Shape, [Next]_vars PROVE TurnShape'
<1>. StoreOK /\ TurnType /\ RestType /\ TurnShape /\ DeleterShape
  BY ShapeParts
<1>. None \notin Conversations
  BY ConversationsAssumption
<1>1. ASSUME NEW t \in Turns, Read(t) PROVE TurnShape'
  BY <1>1 DEF Read, Settle, Returned, Excuse, Overtaken, store, turn, header, deletion,
       ghost, TurnType, TurnShape
<1>2. ASSUME NEW t \in Turns, Save(t) PROVE TurnShape'
  BY <1>2 DEF Save, Settle, Returned, store, turn, header, deletion, ghost, TurnType,
       TurnShape
<1>3. ASSUME NEW t \in Turns, FlushHeaders(t) PROVE TurnShape'
  BY <1>3 DEF FlushHeaders, Change, Excuse, Overtaken, store, turn, header, deletion,
       ghost, TurnType, TurnShape
<1>4. ASSUME NEW t \in Turns, FlushSave(t) PROVE TurnShape'
  BY <1>4 DEF FlushSave, Settle, store, turn, header, deletion, ghost, TurnType,
       TurnShape
<1>5. ASSUME NEW t \in Turns, NEW c \in Conversations, Begin(t, c) PROVE TurnShape'
  <2>1. /\ conv' = [conv EXCEPT ![t] = c] /\ pc' = [pc EXCEPT ![t] = pc'[t]] /\ flush' = flush
        /\ pc[t] \in {"idle", "resolved"} /\ pc'[t] # "idle" /\ (pc'[t] = "resolved" => stage' = stage)
        /\ stage' = [stage EXCEPT ![t] = stage'[t]]
        /\ (pc'[t] = "resolved" => pc[t] = "idle" /\ conv[t] = None)
    BY <1>5 DEF Begin, StartOn, header, TurnType
  <2>. QED  BY <2>1 DEF TurnType, TurnShape
<1>6. ASSUME NEW t \in Turns, NEW c \in Conversations, Resolve(t, c) PROVE TurnShape'
  <2>1. /\ conv' = [conv EXCEPT ![t] = c] /\ pc' = [pc EXCEPT ![t] = pc'[t]] /\ flush' = flush
        /\ pc[t] \in {"idle", "resolved"} /\ pc'[t] # "idle" /\ (pc'[t] = "resolved" => stage' = stage)
        /\ stage' = [stage EXCEPT ![t] = stage'[t]]
        /\ (pc'[t] = "resolved" => pc[t] = "idle" /\ conv[t] = None)
    BY <1>6 DEF Resolve, StartOn, header, TurnType
  <2>. QED  BY <2>1 DEF TurnType, TurnShape
<1>7. ASSUME NEW t \in Turns, NEW c \in Conversations, BeginInstead(t, c)
      PROVE  TurnShape'
  <2>1. /\ conv' = [conv EXCEPT ![t] = c] /\ pc' = [pc EXCEPT ![t] = pc'[t]] /\ flush' = flush
        /\ pc[t] \in {"idle", "resolved"} /\ pc'[t] # "idle" /\ (pc'[t] = "resolved" => stage' = stage)
        /\ stage' = [stage EXCEPT ![t] = stage'[t]]
        /\ (pc'[t] = "resolved" => pc[t] = "idle" /\ conv[t] = None)
    BY <1>7 DEF BeginInstead, StartOn, header, TurnType
  <2>. QED  BY <2>1 DEF TurnType, TurnShape
<1>8. ASSUME NEW t \in Turns, Continue(t) PROVE TurnShape'
  BY <1>8 DEF Continue, Change, StartOn, store, turn, header, deletion, ghost,
       TurnType, TurnShape
<1>9. ASSUME NEW t \in Turns, Mark(t) PROVE TurnShape'
  BY <1>9 DEF Mark, Working, Update, Change, store, turn, header, deletion, ghost,
       TurnType, TurnShape
<1>10. ASSUME NEW t \in Turns, PushDelta(t) PROVE TurnShape'
  BY <1>10 DEF PushDelta, Working, Update, Change, store, turn, header, deletion,
       ghost, TurnType, TurnShape
<1>11. ASSUME NEW t \in Turns, Fail(t) PROVE TurnShape'
  BY <1>11 DEF Fail, Working, Update, Change, store, turn, header, deletion, ghost,
       TurnType, TurnShape
<1>12. ASSUME NEW t \in Turns, Abandon(t) PROVE TurnShape'
  BY <1>12 DEF Abandon, Working, Settle, store, turn, header, deletion, ghost,
       TurnType, TurnShape
<1>13. ASSUME NEW t \in Turns, NEW thread \in BOOLEAN, Complete(t, thread)
       PROVE  TurnShape'
  BY <1>13 DEF Complete, Working, Update, Change, store, turn, header, deletion, ghost,
       TurnType, TurnShape
<1>14. ASSUME NEW d \in Deleters, NEW c \in Conversations, Look(d, c)
       PROVE  TurnShape'
  BY <1>14 DEF Look, Excuse, SharedByRunning, store, turn, header, deletion, ghost,
       TurnType, TurnShape
<1>15. ASSUME NEW d \in Deleters, DeleteThread(d) PROVE TurnShape'
  BY <1>15 DEF DeleteThread, store, turn, header, deletion, ghost, TurnType, TurnShape
<1>16. ASSUME NEW d \in Deleters, DeleteThreadFails(d) PROVE TurnShape'
  BY <1>16 DEF DeleteThreadFails, Return, Excuse, store, turn, header, deletion, ghost,
       TurnType, TurnShape
<1>17. ASSUME NEW d \in Deleters, RemoveConversation(d) PROVE TurnShape'
  BY <1>17 DEF RemoveConversation, store, turn, header, deletion, ghost, TurnType,
       TurnShape
<1>18. ASSUME NEW d \in Deleters, RemoveRefused(d) PROVE TurnShape'
  BY <1>18 DEF RemoveRefused, Return, Excuse, store, turn, header, deletion, ghost,
       TurnType, TurnShape
<1>19. ASSUME NEW d \in Deleters, DeleteRow(d) PROVE TurnShape'
  BY <1>19 DEF DeleteRow, Return, Overtaken, store, turn, header, deletion, ghost,
       TurnType, TurnShape
<1>20. ASSUME NEW d \in Deleters, DeleteRowFails(d) PROVE TurnShape'
  BY <1>20 DEF DeleteRowFails, Return, Excuse, store, turn, header, deletion, ghost,
       TurnType, TurnShape
<1>21. CASE Restart
  BY <1>21 DEF Restart, Excuse, store, turn, header, deletion, ghost, TurnType,
       TurnShape
<1>22. CASE UNCHANGED vars
  BY <1>22 DEF vars, store, turn, header, deletion, ghost, TurnType, TurnShape
<1>. QED  BY <1>1, <1>2, <1>3, <1>4, <1>5, <1>6, <1>7, <1>8, <1>9, <1>10, <1>11,
          <1>12, <1>13, <1>14, <1>15, <1>16, <1>17, <1>18, <1>19, <1>20, <1>21, <1>22
     DEF Next, TurnStep, DeleterStep

LEMMA DeleterShapeStep == ASSUME Shape, [Next]_vars PROVE DeleterShape'
<1>. StoreOK /\ TurnType /\ RestType /\ TurnShape /\ DeleterShape
  BY ShapeParts
<1>. None \notin Conversations
  BY ConversationsAssumption
<1>1. ASSUME NEW t \in Turns, Read(t) PROVE DeleterShape'
  BY <1>1 DEF Read, Settle, Returned, Excuse, Overtaken, store, turn, header, deletion,
       ghost, RestType, DeleterShape
<1>2. ASSUME NEW t \in Turns, Save(t) PROVE DeleterShape'
  BY <1>2 DEF Save, Settle, Returned, store, turn, header, deletion, ghost, RestType,
       DeleterShape
<1>3. ASSUME NEW t \in Turns, FlushHeaders(t) PROVE DeleterShape'
  BY <1>3 DEF FlushHeaders, Change, Excuse, Overtaken, store, turn, header, deletion,
       ghost, RestType, DeleterShape
<1>4. ASSUME NEW t \in Turns, FlushSave(t) PROVE DeleterShape'
  BY <1>4 DEF FlushSave, Settle, store, turn, header, deletion, ghost, RestType,
       DeleterShape
<1>5. ASSUME NEW t \in Turns, NEW c \in Conversations, Begin(t, c)
      PROVE  DeleterShape'
  BY <1>5 DEF Begin, StartOn, store, turn, header, deletion, ghost, RestType,
       DeleterShape
<1>6. ASSUME NEW t \in Turns, NEW c \in Conversations, Resolve(t, c)
      PROVE  DeleterShape'
  BY <1>6 DEF Resolve, store, turn, header, deletion, ghost, RestType, DeleterShape
<1>7. ASSUME NEW t \in Turns, NEW c \in Conversations, BeginInstead(t, c)
      PROVE  DeleterShape'
  BY <1>7 DEF BeginInstead, StartOn, store, turn, header, deletion, ghost, RestType,
       DeleterShape
<1>8. ASSUME NEW t \in Turns, Continue(t) PROVE DeleterShape'
  BY <1>8 DEF Continue, Change, StartOn, store, turn, header, deletion, ghost,
       RestType, DeleterShape
<1>9. ASSUME NEW t \in Turns, Mark(t) PROVE DeleterShape'
  BY <1>9 DEF Mark, Working, Update, Change, store, turn, header, deletion, ghost,
       RestType, DeleterShape
<1>10. ASSUME NEW t \in Turns, PushDelta(t) PROVE DeleterShape'
  BY <1>10 DEF PushDelta, Working, Update, Change, store, turn, header, deletion,
       ghost, RestType, DeleterShape
<1>11. ASSUME NEW t \in Turns, Fail(t) PROVE DeleterShape'
  BY <1>11 DEF Fail, Working, Update, Change, store, turn, header, deletion, ghost,
       RestType, DeleterShape
<1>12. ASSUME NEW t \in Turns, Abandon(t) PROVE DeleterShape'
  BY <1>12 DEF Abandon, Working, Settle, store, turn, header, deletion, ghost,
       RestType, DeleterShape
<1>13. ASSUME NEW t \in Turns, NEW thread \in BOOLEAN, Complete(t, thread)
       PROVE  DeleterShape'
  BY <1>13 DEF Complete, Working, Update, Change, store, turn, header, deletion, ghost,
       RestType, DeleterShape
<1>14. ASSUME NEW d \in Deleters, NEW c \in Conversations, Look(d, c)
       PROVE  DeleterShape'
  <2>1. /\ dpc' = [dpc EXCEPT ![d] = dpc'[d]] /\ dpc'[d] \in {"remote", "local"}
        /\ target' = [target EXCEPT ![d] = c]
    BY <1>14 DEF Look, RestType
  <2>. QED  BY <2>1 DEF RestType, DeleterShape
<1>15. ASSUME NEW d \in Deleters, DeleteThread(d) PROVE DeleterShape'
  BY <1>15 DEF DeleteThread, store, turn, header, deletion, ghost, RestType,
       DeleterShape
<1>16. ASSUME NEW d \in Deleters, DeleteThreadFails(d) PROVE DeleterShape'
  BY <1>16 DEF DeleteThreadFails, Return, Excuse, store, turn, header, deletion, ghost,
       RestType, DeleterShape
<1>17. ASSUME NEW d \in Deleters, RemoveConversation(d) PROVE DeleterShape'
  BY <1>17 DEF RemoveConversation, store, turn, header, deletion, ghost, RestType,
       DeleterShape
<1>18. ASSUME NEW d \in Deleters, RemoveRefused(d) PROVE DeleterShape'
  BY <1>18 DEF RemoveRefused, Return, Excuse, store, turn, header, deletion, ghost,
       RestType, DeleterShape
<1>19. ASSUME NEW d \in Deleters, DeleteRow(d) PROVE DeleterShape'
  BY <1>19 DEF DeleteRow, Return, Overtaken, store, turn, header, deletion, ghost,
       RestType, DeleterShape
<1>20. ASSUME NEW d \in Deleters, DeleteRowFails(d) PROVE DeleterShape'
  BY <1>20 DEF DeleteRowFails, Return, Excuse, store, turn, header, deletion, ghost,
       RestType, DeleterShape
<1>21. CASE Restart
  BY <1>21 DEF Restart, Excuse, store, turn, header, deletion, ghost, RestType,
       DeleterShape
<1>22. CASE UNCHANGED vars
  BY <1>22 DEF vars, store, turn, header, deletion, ghost, RestType, DeleterShape
<1>. QED  BY <1>1, <1>2, <1>3, <1>4, <1>5, <1>6, <1>7, <1>8, <1>9, <1>10, <1>11,
          <1>12, <1>13, <1>14, <1>15, <1>16, <1>17, <1>18, <1>19, <1>20, <1>21, <1>22
     DEF Next, TurnStep, DeleterStep

-----------------------------------------------------------------------------
(* The first results.                                                      *)

LEMMA ShapeInit == Init => Shape
<1>. SUFFICES ASSUME Init PROVE Shape
  OBVIOUS
<1>1. StoreOK
  <2>1. order = <<>> /\ items = [c \in Conversations |-> None]
    BY DEF Init
  <2>2. order \in Seq(Conversations) /\ Len(order) = 0 /\ DOMAIN order = {}
    BY <2>1
  <2>3. ToSet(order) = {} /\ IsInjective(order)
    BY <2>2 DEF ToSet, IsInjective
  <2>. QED  BY <2>1, <2>2, <2>3, ConversationsAssumption DEF StoreOK, ListMatchesItems,
                 Present, Snapshots
<1>2. TurnType /\ TurnShape
  BY DEF Init, TurnType, TurnShape, Snapshots
<1>3. RestType /\ DeleterShape
  BY DEF Init, RestType, DeleterShape, Snapshots
<1>. QED  BY <1>1, <1>2, <1>3, ShapeParts

LEMMA ShapeStep == ASSUME Shape, [Next]_vars PROVE Shape'
<1>1. StoreOK' /\ TurnType' /\ RestType' /\ TurnShape' /\ DeleterShape'
  BY StoreStep, TurnStepType, RestStepType, TurnShapeStep, DeleterShapeStep
<1>2. TypeOK'
  BY <1>1 DEF TypeOK, StoreOK, TurnType, RestType
<1>3. ListMatchesItems'
  BY <1>1 DEF StoreOK
<1>. QED  BY <1>1, <1>2, <1>3 DEF Shape

LEMMA ShapeInvariant == Spec => []Shape
BY ShapeInit, ShapeStep, PTL DEF Spec

\* Every state has the types of TypeOK, and the list stays within its limit.
THEOREM ConversationsTypeCorrect == Spec => []TypeOK
<1>1. Shape => TypeOK
  BY DEF Shape
<1>. QED  BY <1>1, ShapeInvariant, PTL

\* The list and the map of the store always agree: every conversation is
\* listed once, and nothing else is, whatever is begun, moved to the front,
\* trimmed, deleted or read back.
THEOREM ListAlwaysMatches == Spec => []ListMatchesItems
<1>1. Shape => ListMatchesItems
  BY DEF Shape
<1>. QED  BY <1>1, ShapeInvariant, PTL

-----------------------------------------------------------------------------
(* The steps of turns.                                                     *)

\* What a step of a turn under way does to its conversation, and to no other.
LEMMA UpdateIs ==
  ASSUME Shape, NEW t \in Turns, conv[t] \in Conversations, NEW entry,
         Present(conv[t]) => entry \in Entry, Update(t, entry)
  PROVE  /\ \A e \in Conversations : e # conv[t] => items'[e] = items[e]
         /\ \A e \in Conversations : Present(e)' <=> Present(e)
         /\ Present(conv[t]) => items'[conv[t]] = entry
         /\ stage' = [stage EXCEPT ![t] = "read"]
<1>1. CASE Present(conv[t])
  BY <1>1, ShapeParts, ChangeIs DEF Update
<1>2. CASE ~Present(conv[t])
  BY <1>2 DEF Update, store, Present
<1>. QED  BY <1>1, <1>2

LEMMA EntriesOfUpdates ==
  ASSUME Shape, NEW c \in Conversations, Present(c)
  PROVE  /\ items[c] \in Entry /\ items[c].status \in {"running", "ended"} /\ items[c].thread \in BOOLEAN
         /\ \A s \in {"running", "ended"} :
              LET entry == [items[c] EXCEPT !.status = s]
              IN  entry \in Entry /\ entry.status = s /\ entry.thread = items[c].thread
<1>1. items[c] \in Entry
  BY ShapeParts, EntryIs DEF StoreOK
<1>. QED  BY <1>1 DEF Entry

\* The steps of a turn on its conversation.
LEMMA MarkIs ==
  ASSUME Shape, NEW t \in Turns, Mark(t)
  PROVE  items' = items
<1>1. conv[t] \in Conversations
  BY TurnsConversation DEF Mark, Working
<1>2. Update(t, items[conv[t]])
  BY DEF Mark
<1>3. \A e \in Conversations : items'[e] = items[e]
  <2>1. CASE Present(conv[t])
    <3>1. items[conv[t]] \in Entry
      BY <1>1, <2>1, EntriesOfUpdates
    <3>2. Change(conv[t], items[conv[t]])
      BY <1>2, <2>1 DEF Update
    <3>. QED  BY <1>1, <2>1, <3>1, <3>2, ShapeParts, ChangeIs
  <2>2. CASE ~Present(conv[t])
    BY <1>2, <2>2 DEF Update, store
  <2>. QED  BY <2>1, <2>2
<1>4. items \in [Conversations -> Snapshots] /\ items' \in [Conversations -> Snapshots]
  BY ShapeParts, StoreStep DEF StoreOK, Next, TurnStep
<1>. QED  BY <1>3, <1>4

LEMMA FlushHeadersIs ==
  ASSUME Shape, NEW t \in Turns, FlushHeaders(t)
  PROVE  items' = items
<1>1. conv[t] \in Conversations
  BY TurnsConversation DEF FlushHeaders
<1>2. CASE Present(conv[t])
  <2>1. items' = [items EXCEPT ![conv[t]] = items[conv[t]]]
    BY <1>2 DEF FlushHeaders, Change
  <2>. QED  BY <1>1, <2>1, ShapeParts DEF StoreOK
<1>3. CASE ~Present(conv[t])
  BY <1>3 DEF FlushHeaders, store
<1>. QED  BY <1>2, <1>3

\* The status a step gives it.
StatusOf(t, s) ==
  /\ \A e \in Conversations : e # conv[t] => items'[e] = items[e]
  /\ \A e \in Conversations : Present(e)' <=> Present(e)
  /\ Present(conv[t]) => items'[conv[t]] = [items[conv[t]] EXCEPT !.status = s]
  /\ Present(conv[t]) => items'[conv[t]].status = s /\ items'[conv[t]].thread = items[conv[t]].thread
  /\ stage' = [stage EXCEPT ![t] = "read"]

LEMMA StatusIs ==
  ASSUME Shape, NEW t \in Turns, conv[t] \in Conversations, NEW s \in {"running", "ended"},
         Update(t, [items[conv[t]] EXCEPT !.status = s])
  PROVE  StatusOf(t, s)
<1> DEFINE entry == [items[conv[t]] EXCEPT !.status = s]
<1>1. Present(conv[t]) => entry \in Entry /\ entry.status = s /\ entry.thread = items[conv[t]].thread
  BY EntriesOfUpdates
<1>2. Update(t, entry)
  OBVIOUS
<1> HIDE DEF entry
<1>3. /\ \A e \in Conversations : e # conv[t] => items'[e] = items[e]
      /\ \A e \in Conversations : Present(e)' <=> Present(e)
      /\ Present(conv[t]) => items'[conv[t]] = entry
      /\ stage' = [stage EXCEPT ![t] = "read"]
  BY <1>1, <1>2, UpdateIs
<1>4. Present(conv[t]) => items'[conv[t]] = [items[conv[t]] EXCEPT !.status = s]
  BY <1>3 DEF entry
<1>. QED  BY <1>1, <1>3, <1>4 DEF StatusOf

LEMMA PushDeltaIs ==
  ASSUME Shape, NEW t \in Turns, PushDelta(t)
  PROVE  /\ conv[t] \in Conversations /\ pc[t] = "running" /\ stage[t] = "none" /\ StatusOf(t, "running")
         /\ UNCHANGED <<rows, orphaned, pc, conv, snap, flush, flushSnap, dpc, target, deleted, excused, interrupted>>
<1>1. conv[t] \in Conversations
  BY TurnsConversation DEF PushDelta, Working
<1>. QED  BY <1>1, StatusIs DEF PushDelta, Working, header, deletion, ghost

LEMMA FailIs ==
  ASSUME Shape, NEW t \in Turns, Fail(t)
  PROVE  /\ conv[t] \in Conversations /\ pc[t] = "running" /\ stage[t] = "none" /\ StatusOf(t, "ended")
         /\ pc' = [pc EXCEPT ![t] = "ended"] /\ interrupted' = interrupted \ {conv[t]}
         /\ UNCHANGED <<rows, orphaned, conv, snap, flush, flushSnap, dpc, target, deleted, excused>>
<1>1. conv[t] \in Conversations
  BY TurnsConversation DEF Fail, Working
<1>. QED  BY <1>1, StatusIs DEF Fail, Working, header, deletion

LEMMA CompleteIs ==
  ASSUME Shape, NEW t \in Turns, NEW thread \in BOOLEAN, Complete(t, thread)
  PROVE  /\ conv[t] \in Conversations /\ pc[t] = "running" /\ stage[t] = "none"
         /\ \A e \in Conversations : e # conv[t] => items'[e] = items[e]
         /\ \A e \in Conversations : Present(e)' <=> Present(e)
         /\ Present(conv[t]) => items'[conv[t]] = [status |-> "ended", thread |-> thread]
         /\ stage' = [stage EXCEPT ![t] = "read"]
         /\ pc' = [pc EXCEPT ![t] = "ended"] /\ interrupted' = interrupted \ {conv[t]}
         /\ orphaned' = orphaned \ {conv[t]}
         /\ UNCHANGED <<rows, conv, snap, flush, flushSnap, dpc, target, deleted, excused>>
<1>1. conv[t] \in Conversations /\ pc[t] = "running" /\ stage[t] = "none"
  BY TurnsConversation DEF Complete, Working
<1>2. [status |-> "ended", thread |-> thread] \in Entry /\ Update(t, [status |-> "ended", thread |-> thread])
  BY DEF Entry, Complete
<1>. QED  BY <1>1, <1>2, UpdateIs DEF Complete, header, deletion

\* A turn begins or continues a conversation.
Started(t, c) ==
  /\ c \in Conversations /\ pc[t] \in {"idle", "resolved"} /\ stage[t] = "none" /\ flush[t] = "off"
  /\ pc' = [pc EXCEPT ![t] = "running"] /\ conv' = [conv EXCEPT ![t] = c]
  /\ stage' = [stage EXCEPT ![t] = "read"]
  /\ interrupted' = (interrupted \ {c}) \cap ToSet(order')
  /\ deleted' = deleted \ {c}
  /\ excused \ {c} \subseteq excused' /\ excused' \subseteq excused \cup {c}
  /\ c \in excused' \/ ~BeingDeleted(c)
  /\ Present(c)'
  /\ UNCHANGED <<rows, orphaned, snap, flush, flushSnap, dpc, target>>

LEMMA BeginIs ==
  ASSUME Shape, NEW t \in Turns, NEW c \in Conversations, Begin(t, c) \/ BeginInstead(t, c)
  PROVE  /\ Started(t, c)
         /\ items'[c] = [status |-> "running", thread |-> FALSE]
         /\ \A e \in Conversations : e # c => items'[e] = items[e] \/ items'[e] = None
         /\ Begin(t, c) => c \in excused' \/ (~BeingDeleted(c) /\
                            (c \notin excused \/ (~Attended(c) /\ rows[c] = None)))
         /\ BeginInstead(t, c) => excused \subseteq excused'
<1>1. Add(c) /\ StartOn(t, c) /\ pc[t] \in {"idle", "resolved"}
  BY DEF Begin, BeginInstead
<1>2. stage[t] = "none" /\ flush[t] = "off"
  BY ShapeParts DEF TurnShape, Begin, BeginInstead
<1>3. /\ items'[c] = [status |-> "running", thread |-> FALSE]
      /\ \A e \in Conversations : e # c => items'[e] = items[e] \/ items'[e] = None
  BY <1>1, ShapeParts, AddIs
<1>4. Present(c)'
  <2>1. [status |-> "running", thread |-> FALSE] \in Entry
    BY DEF Entry
  <2>. QED  BY <1>3, <2>1, ConversationsAssumption DEF Present
<1>5. /\ excused \ {c} \subseteq excused' /\ excused' \subseteq excused \cup {c}
      /\ c \in excused' \/ ~BeingDeleted(c)
      /\ Begin(t, c) => c \in excused' \/ (~BeingDeleted(c) /\
                         (c \notin excused \/ (~Attended(c) /\ rows[c] = None)))
      /\ BeginInstead(t, c) => excused \subseteq excused'
  BY DEF Begin, BeginInstead
<1>6. Started(t, c)
  BY <1>1, <1>2, <1>4, <1>5 DEF Started, StartOn, header, deletion
<1>. QED  BY <1>3, <1>5, <1>6

LEMMA ContinueIs ==
  ASSUME Shape, NEW t \in Turns, Continue(t)
  PROVE  /\ Started(t, conv[t]) /\ Present(conv[t]) /\ conv' = conv /\ pc[t] = "resolved"
         /\ items'[conv[t]].status = "running" /\ items'[conv[t]].thread = items[conv[t]].thread
         /\ \A e \in Conversations : e # conv[t] => items'[e] = items[e]
         /\ \A e \in Conversations : Present(e)' <=> Present(e)
         /\ excused \subseteq excused'
<1>1. conv[t] \in Conversations /\ Present(conv[t]) /\ pc[t] = "resolved"
  BY TurnsConversation DEF Continue
<1>2. stage[t] = "none" /\ flush[t] = "off"
  BY <1>1, ShapeParts DEF TurnShape
<1> DEFINE entry == [items[conv[t]] EXCEPT !.status = "running"]
<1>3. entry \in Entry /\ entry.status = "running" /\ entry.thread = items[conv[t]].thread
  BY <1>1, EntriesOfUpdates
<1>4. Change(conv[t], entry)
  BY DEF Continue
<1> HIDE DEF entry
<1>5. /\ items'[conv[t]] = entry
      /\ \A e \in Conversations : e # conv[t] => items'[e] = items[e]
      /\ \A e \in Conversations : Present(e)' <=> Present(e)
  BY <1>1, <1>3, <1>4, ShapeParts, ChangeIs
<1>6. /\ StartOn(t, conv[t])
      /\ excused' = IF BeingDeleted(conv[t]) THEN excused \cup {conv[t]} ELSE excused
  BY DEF Continue
<1>7. Started(t, conv[t])
  BY <1>1, <1>2, <1>5, <1>6 DEF Started, StartOn, header, deletion
<1>8. conv' = conv
  BY <1>6, ShapeParts DEF StartOn, TurnType
<1>. QED  BY <1>1, <1>3, <1>5, <1>6, <1>7, <1>8

-----------------------------------------------------------------------------
(* The snapshots.                                                          *)

\* A goroutine of the turn t ends: others stay as they are, and t keeps its
\* conversation as long as anything is left to do.
Released(t) ==
  /\ \A u \in Turns : u # t => pc'[u] = pc[u] /\ conv'[u] = conv[u] /\ flush'[u] = flush[u] /\ stage'[u] = stage[u]
  /\ conv'[t] = conv[t] \/ conv'[t] = None
  /\ flush'[t] = "save" => flush[t] = "save"
  /\ pc'[t] = "running" => pc[t] = "running"
  /\ pc'[t] = "running" \/ stage'[t] # "none" \/ flush'[t] = "save" => conv'[t] = conv[t]

LEMMA ReadIs ==
  ASSUME Shape, NEW t \in Turns, Read(t)
  PROVE  /\ conv[t] \in Conversations /\ stage[t] = "read"
         /\ Released(t) /\ (pc[t] = "running" => pc'[t] = "running") /\ (flush[t] = "save" => flush'[t] = "save")
         /\ Present(conv[t]) =>
              /\ stage'[t] = "save" /\ snap' = [snap EXCEPT ![t] = items[conv[t]]]
              /\ excused' = excused \cup Overtaken(conv[t]) /\ deleted' = deleted \ Overtaken(conv[t])
         /\ ~Present(conv[t]) => stage'[t] = "none" /\ UNCHANGED <<snap, excused, deleted>>
         /\ UNCHANGED <<items, order, rows, orphaned, flushSnap, dpc, target, interrupted>>
<1>1. conv[t] \in Conversations /\ stage[t] = "read"
  BY TurnsConversation DEF Read
<1>2. TurnType /\ TurnShape
  BY ShapeParts
<1>3. UNCHANGED <<items, order, rows, orphaned, flushSnap, dpc, target, interrupted>>
  BY DEF Read, store, deletion
<1>4. CASE Present(conv[t])
  <2>1. /\ stage' = [stage EXCEPT ![t] = "save"] /\ snap' = [snap EXCEPT ![t] = items[conv[t]]]
        /\ Excuse(Overtaken(conv[t])) /\ UNCHANGED <<pc, conv, flush>>
    BY <1>4 DEF Read
  <2>. QED  BY <1>1, <1>2, <1>3, <1>4, <2>1 DEF TurnType, Released, Excuse
<1>5. CASE ~Present(conv[t])
  <2>1. /\ stage' = [stage EXCEPT ![t] = "none"] /\ Settle(t, Returned(t), flush[t])
        /\ UNCHANGED <<snap, deleted, excused>>
    BY <1>5 DEF Read
  <2>2. flush[t] \in {"off", "save", "spent"} /\ Returned(t) \in {"idle", "resolved", "running", "ended"}
    BY <1>2, ReturnedIs DEF TurnType
  <2>3. Released(t) /\ (pc[t] = "running" => pc'[t] = "running") /\ (flush[t] = "save" => flush'[t] = "save")
    BY <1>2, <2>1, <2>2, SettleIs, ReturnedIs DEF TurnType, Released
  <2>4. stage'[t] = "none"
    BY <1>2, <2>1 DEF TurnType
  <2>. QED  BY <1>1, <1>3, <1>5, <2>1, <2>3, <2>4
<1>. QED  BY <1>4, <1>5

LEMMA SaveIs ==
  ASSUME Shape, NEW t \in Turns, Save(t)
  PROVE  /\ conv[t] \in Conversations /\ stage[t] = "save" /\ stage'[t] = "none"
         /\ Released(t) /\ (pc[t] = "running" => pc'[t] = "running") /\ (flush[t] = "save" => flush'[t] = "save")
         /\ rows' = [rows EXCEPT ![conv[t]] = snap[t]] /\ \A u \in Turns : u # t => snap'[u] = snap[u]
         /\ UNCHANGED <<items, order, orphaned, flushSnap, dpc, target, deleted, excused, interrupted>>
<1>1. conv[t] \in Conversations /\ stage[t] = "save"
  BY TurnsConversation DEF Save
<1>2. TurnType /\ TurnShape
  BY ShapeParts
<1>3. /\ stage' = [stage EXCEPT ![t] = "none"] /\ Settle(t, Returned(t), flush[t])
      /\ rows' = [rows EXCEPT ![conv[t]] = snap[t]] /\ snap' = [snap EXCEPT ![t] = None]
      /\ UNCHANGED <<items, order, orphaned, flushSnap, dpc, target, deleted, excused, interrupted>>
  BY DEF Save, store, deletion, ghost
<1>4. flush[t] \in {"off", "save", "spent"} /\ Returned(t) \in {"idle", "resolved", "running", "ended"}
  BY <1>2, ReturnedIs DEF TurnType
<1>5. Released(t) /\ (pc[t] = "running" => pc'[t] = "running") /\ (flush[t] = "save" => flush'[t] = "save")
  BY <1>2, <1>3, <1>4, SettleIs, ReturnedIs DEF TurnType, Released
<1>. QED  BY <1>1, <1>2, <1>3, <1>5 DEF TurnType

LEMMA FlushSaveIs ==
  ASSUME Shape, NEW t \in Turns, FlushSave(t)
  PROVE  /\ conv[t] \in Conversations /\ flush[t] = "save" /\ flush'[t] # "save" /\ Released(t)
         /\ rows' = [rows EXCEPT ![conv[t]] = flushSnap[t]] /\ \A u \in Turns : u # t => flushSnap'[u] = flushSnap[u]
         /\ UNCHANGED <<items, order, orphaned, pc, stage, snap, dpc, target, deleted, excused, interrupted>>
<1>1. conv[t] \in Conversations /\ flush[t] = "save"
  BY TurnsConversation DEF FlushSave
<1>2. TurnType /\ TurnShape
  BY ShapeParts
<1>3. /\ Settle(t, pc[t], "spent")
      /\ rows' = [rows EXCEPT ![conv[t]] = flushSnap[t]] /\ flushSnap' = [flushSnap EXCEPT ![t] = None]
      /\ UNCHANGED <<items, order, orphaned, stage, snap, dpc, target, deleted, excused, interrupted>>
  BY DEF FlushSave, store, deletion, ghost
<1>4. "spent" \in {"off", "save", "spent"} /\ pc[t] \in {"idle", "resolved", "running", "ended"}
  BY <1>2 DEF TurnType
<1>5. /\ pc'[t] = pc[t] /\ (conv'[t] = conv[t] \/ conv'[t] = None) /\ flush'[t] # "save"
      /\ pc[t] # "idle" => conv'[t] = conv[t]
      /\ \A u \in Turns : u # t => pc'[u] = pc[u] /\ conv'[u] = conv[u] /\ flush'[u] = flush[u]
      /\ pc' \in [Turns -> {"idle", "resolved", "running", "ended"}]
  BY <1>2, <1>3, <1>4, SettleIs
<1>6. pc' = pc
  BY <1>2, <1>5 DEF TurnType
<1>7. Released(t)
  BY <1>2, <1>3, <1>5 DEF Released, TurnShape
<1>8. \A u \in Turns : u # t => flushSnap'[u] = flushSnap[u]
  BY <1>2, <1>3 DEF TurnType
<1>. QED  BY <1>1, <1>3, <1>5, <1>6, <1>7, <1>8

LEMMA AbandonIs ==
  ASSUME Shape, NEW t \in Turns, Abandon(t)
  PROVE  /\ conv[t] \in Conversations /\ stage[t] = "none" /\ Released(t)
         /\ pc'[t] = "idle" /\ (flush[t] = "save" => flush'[t] = "save")
         /\ interrupted' = IF Running(conv[t]) THEN interrupted \cup {conv[t]} ELSE interrupted
         /\ UNCHANGED <<items, order, rows, orphaned, stage, snap, flushSnap, dpc, target, deleted, excused>>
<1>1. conv[t] \in Conversations /\ stage[t] = "none"
  BY TurnsConversation DEF Abandon, Working
<1>2. TurnType /\ TurnShape
  BY ShapeParts
<1>3. /\ Settle(t, "idle", flush[t])
      /\ UNCHANGED <<items, order, rows, orphaned, stage, snap, flushSnap, dpc, target, deleted, excused>>
  BY DEF Abandon, store, deletion
<1>4. flush[t] \in {"off", "save", "spent"} /\ "idle" \in {"idle", "resolved", "running", "ended"}
  BY <1>2 DEF TurnType
<1>5. Released(t) /\ pc'[t] = "idle" /\ (flush[t] = "save" => flush'[t] = "save")
  BY <1>1, <1>2, <1>3, <1>4, SettleIs DEF TurnType, Released
<1>6. interrupted' = IF Running(conv[t]) THEN interrupted \cup {conv[t]} ELSE interrupted
  BY DEF Abandon
<1>. QED  BY <1>1, <1>3, <1>5, <1>6

\* The header goroutine: it takes a snapshot unless the conversation has gone.
LEMMA FlushIs ==
  ASSUME Shape, NEW t \in Turns, FlushHeaders(t)
  PROVE  /\ conv[t] \in Conversations /\ flush[t] = "off" /\ items' = items
         /\ \A u \in Turns : u # t => flush'[u] = flush[u] /\ flushSnap'[u] = flushSnap[u]
         /\ Present(conv[t]) =>
              /\ flush'[t] = "save" /\ flushSnap'[t] = items[conv[t]]
              /\ excused' = excused \cup Overtaken(conv[t]) /\ deleted' = deleted \ Overtaken(conv[t])
         /\ ~Present(conv[t]) => flush'[t] = "spent" /\ UNCHANGED <<excused, deleted>>
         /\ UNCHANGED <<rows, orphaned, pc, conv, stage, snap, dpc, target, interrupted>>
<1>1. conv[t] \in Conversations /\ items' = items
  BY TurnsConversation, FlushHeadersIs DEF FlushHeaders
<1>2. TurnType
  BY ShapeParts
<1>. QED  BY <1>1, <1>2 DEF FlushHeaders, Excuse, turn, deletion, TurnType

-----------------------------------------------------------------------------
(* Turns are ended.                                                        *)

LEMMA TurnsEndStep ==
  ASSUME Shape, TurnsEnd, [Next]_vars, NEW e \in Conversations \ interrupted'
  PROVE  HasTurn(e)'
<1>. StoreOK /\ TurnType /\ RestType /\ TurnShape /\ DeleterShape
  BY ShapeParts
<1>. None \notin Conversations
  BY ConversationsAssumption
<1>. Shape'
  BY ShapeStep
<1>. e \notin interrupted => HasTurn(e)
  BY DEF TurnsEnd
<1>1. ASSUME NEW t \in Turns, Read(t) PROVE HasTurn(e)'
  BY <1>1, ReadIs DEF HasTurn, Running, Present, Released
<1>2. ASSUME NEW t \in Turns, Save(t) PROVE HasTurn(e)'
  BY <1>2, SaveIs DEF HasTurn, Running, Present, Released
<1>3. ASSUME NEW t \in Turns, FlushHeaders(t) PROVE HasTurn(e)'
  BY <1>3, FlushIs DEF HasTurn, Running, Present
<1>4. ASSUME NEW t \in Turns, FlushSave(t) PROVE HasTurn(e)'
  BY <1>4, FlushSaveIs DEF HasTurn, Running, Present, Released
<1>5. ASSUME NEW t \in Turns, NEW c \in Conversations, Begin(t, c) PROVE HasTurn(e)'
  <2>1. Started(t, c) /\ \A f \in Conversations : f # c => items'[f] = items[f] \/ items'[f] = None
    BY <1>5, BeginIs
  <2>2. CASE e = c
    BY <2>1, <2>2 DEF HasTurn, Started, TurnType
  <2>3. ASSUME e # c, Running(e)' PROVE \E u \in Turns : pc'[u] = "running" /\ conv'[u] = e
    <3>1. Running(e) /\ e \in ToSet(order')
      BY <2>1, <2>3 DEF Running, Present, Shape, ListMatchesItems
    <3>2. e \notin interrupted
      BY <2>1, <2>3, <3>1 DEF Started
    <3>3. PICK u \in Turns : pc[u] = "running" /\ conv[u] = e
      BY <3>1, <3>2 DEF TurnsEnd, HasTurn
    <3>4. u # t
      BY <2>1, <3>3 DEF Started
    <3>. QED  BY <2>1, <3>3, <3>4 DEF Started, TurnType
  <2>. QED  BY <2>2, <2>3 DEF HasTurn
<1>6. ASSUME NEW t \in Turns, NEW c \in Conversations, Resolve(t, c)
      PROVE  HasTurn(e)'
  BY <1>6 DEF Resolve, store, turn, ghost, HasTurn, Running, Present, TurnType
<1>7. ASSUME NEW t \in Turns, NEW c \in Conversations, BeginInstead(t, c)
      PROVE  HasTurn(e)'
  <2>1. Started(t, c) /\ \A f \in Conversations : f # c => items'[f] = items[f] \/ items'[f] = None
    BY <1>7, BeginIs
  <2>2. CASE e = c
    BY <2>1, <2>2 DEF HasTurn, Started, TurnType
  <2>3. ASSUME e # c, Running(e)' PROVE \E u \in Turns : pc'[u] = "running" /\ conv'[u] = e
    <3>1. Running(e) /\ e \in ToSet(order')
      BY <2>1, <2>3 DEF Running, Present, Shape, ListMatchesItems
    <3>2. e \notin interrupted
      BY <2>1, <2>3, <3>1 DEF Started
    <3>3. PICK u \in Turns : pc[u] = "running" /\ conv[u] = e
      BY <3>1, <3>2 DEF TurnsEnd, HasTurn
    <3>4. u # t
      BY <2>1, <3>3 DEF Started
    <3>. QED  BY <2>1, <3>3, <3>4 DEF Started, TurnType
  <2>. QED  BY <2>2, <2>3 DEF HasTurn
<1>8. ASSUME NEW t \in Turns, Continue(t) PROVE HasTurn(e)'
  <2>1. /\ Started(t, conv[t]) /\ \A f \in Conversations : f # conv[t] => items'[f] = items[f]
        /\ \A f \in Conversations : Present(f)' <=> Present(f)
    BY <1>8, ContinueIs
  <2>2. CASE e = conv[t]
    BY <2>1, <2>2 DEF HasTurn, Started, TurnType
  <2>3. ASSUME e # conv[t], Running(e)' PROVE \E u \in Turns : pc'[u] = "running" /\ conv'[u] = e
    <3>1. Running(e) /\ e \in ToSet(order')
      BY <2>1, <2>3 DEF Running, Present, Shape, ListMatchesItems
    <3>2. e \notin interrupted
      BY <2>1, <2>3, <3>1 DEF Started
    <3>3. PICK u \in Turns : pc[u] = "running" /\ conv[u] = e
      BY <3>1, <3>2 DEF TurnsEnd, HasTurn
    <3>4. u # t
      BY <2>1, <3>3 DEF Started
    <3>. QED  BY <2>1, <3>3, <3>4 DEF Started, TurnType
  <2>. QED  BY <2>2, <2>3 DEF HasTurn
<1>9. ASSUME NEW t \in Turns, Mark(t) PROVE HasTurn(e)'
  BY <1>9, MarkIs DEF Mark, ghost, HasTurn, Running, Present
<1>10. ASSUME NEW t \in Turns, PushDelta(t) PROVE HasTurn(e)'
  <2>1. CASE e = conv[t]
    BY <1>10, <2>1, PushDeltaIs DEF HasTurn
  <2>2. CASE e # conv[t]
    <3>1. items'[e] = items[e]
      BY <1>10, <2>2, PushDeltaIs DEF StatusOf
    <3>2. CASE Running(e)'
      <4>1. Running(e) /\ e \notin interrupted
        BY <1>10, <2>2, <3>1, <3>2, PushDeltaIs DEF Running, Present
      <4>2. PICK u \in Turns : pc[u] = "running" /\ conv[u] = e
        BY <4>1 DEF HasTurn
      <4>3. pc'[u] = "running" /\ conv'[u] = e
        BY <1>10, <2>2, <4>2, PushDeltaIs DEF TurnType
      <4>. QED  BY <4>3 DEF HasTurn
    <3>. QED  BY <3>2 DEF HasTurn
  <2>. QED  BY <2>1, <2>2
<1>11. ASSUME NEW t \in Turns, Fail(t) PROVE HasTurn(e)'
  <2>1. CASE e = conv[t]
    <3>1. CASE Present(e)
      <4>1. items'[e].status = "ended"
        BY <1>11, <2>1, <3>1, FailIs DEF Present, StatusOf
      <4>. QED  BY <4>1 DEF HasTurn, Running
    <3>2. CASE ~Present(e)
      <4>1. ~Present(e)'
        BY <1>11, <3>2, FailIs DEF StatusOf
      <4>. QED  BY <4>1 DEF HasTurn, Running
    <3>. QED  BY <3>1, <3>2
  <2>2. CASE e # conv[t]
    <3>1. items'[e] = items[e]
      BY <1>11, <2>2, FailIs DEF StatusOf
    <3>2. CASE Running(e)'
      <4>1. Running(e) /\ e \notin interrupted
        BY <1>11, <2>2, <3>1, <3>2, FailIs DEF Running, Present
      <4>2. PICK u \in Turns : pc[u] = "running" /\ conv[u] = e
        BY <4>1 DEF HasTurn
      <4>3. pc'[u] = "running" /\ conv'[u] = e
        BY <1>11, <2>2, <4>2, FailIs DEF TurnType
      <4>. QED  BY <4>3 DEF HasTurn
    <3>. QED  BY <3>2 DEF HasTurn
  <2>. QED  BY <2>1, <2>2
<1>12. ASSUME NEW t \in Turns, Abandon(t) PROVE HasTurn(e)'
  <2>1. CASE e = conv[t]
    BY <1>12, <2>1, AbandonIs DEF HasTurn, Running, Present
  <2>2. CASE e # conv[t]
    BY <1>12, <2>2, AbandonIs DEF HasTurn, Running, Present, Released
  <2>. QED  BY <2>1, <2>2
<1>13. ASSUME NEW t \in Turns, NEW thread \in BOOLEAN, Complete(t, thread)
       PROVE  HasTurn(e)'
  <2>1. CASE e = conv[t]
    <3>1. CASE Present(e)
      <4>1. items'[e] = [status |-> "ended", thread |-> thread]
        BY <1>13, <2>1, <3>1, CompleteIs, Zenon
      <4>. QED  BY <4>1 DEF HasTurn, Running
    <3>2. CASE ~Present(e)
      <4>1. ~Present(e)'
        BY <1>13, <3>2, CompleteIs
      <4>. QED  BY <4>1 DEF HasTurn, Running
    <3>. QED  BY <3>1, <3>2
  <2>2. CASE e # conv[t]
    <3>1. items'[e] = items[e]
      BY <1>13, <2>2, CompleteIs DEF StatusOf
    <3>2. CASE Running(e)'
      <4>1. Running(e) /\ e \notin interrupted
        BY <1>13, <2>2, <3>1, <3>2, CompleteIs DEF Running, Present
      <4>2. PICK u \in Turns : pc[u] = "running" /\ conv[u] = e
        BY <4>1 DEF HasTurn
      <4>3. pc' = [pc EXCEPT ![t] = "ended"] /\ conv' = conv
        BY <1>13, CompleteIs, Zenon
      <4>4. pc'[u] = "running" /\ conv'[u] = e
        BY <2>2, <4>2, <4>3 DEF TurnType
      <4>. QED  BY <4>4 DEF HasTurn
    <3>. QED  BY <3>2 DEF HasTurn
  <2>. QED  BY <2>1, <2>2
<1>14. ASSUME NEW d \in Deleters, NEW c \in Conversations, Look(d, c)
       PROVE  HasTurn(e)'
  BY <1>14 DEF Look, Excuse, SharedByRunning, store, turn, header, deletion, ghost,
       HasTurn, Running, Present
<1>15. ASSUME NEW d \in Deleters, DeleteThread(d) PROVE HasTurn(e)'
  BY <1>15 DEF DeleteThread, store, turn, header, deletion, ghost, HasTurn, Running,
       Present
<1>16. ASSUME NEW d \in Deleters, DeleteThreadFails(d) PROVE HasTurn(e)'
  BY <1>16 DEF DeleteThreadFails, Return, Excuse, store, turn, header, deletion, ghost,
       HasTurn, Running, Present
<1>17. ASSUME NEW d \in Deleters, RemoveConversation(d) PROVE HasTurn(e)'
  <2>1. target[d] \in Conversations
    BY <1>17, DeletersTarget DEF RemoveConversation
  <2>2. items' = [items EXCEPT ![target[d]] = None] /\ pc' = pc /\ conv' = conv /\ interrupted' = interrupted
    BY <1>17 DEF RemoveConversation, turn, ghost
  <2>. QED  BY <2>1, <2>2 DEF HasTurn, Running, Present, StoreOK
<1>18. ASSUME NEW d \in Deleters, RemoveRefused(d) PROVE HasTurn(e)'
  BY <1>18 DEF RemoveRefused, Return, Excuse, store, turn, header, deletion, ghost,
       HasTurn, Running, Present
<1>19. ASSUME NEW d \in Deleters, DeleteRow(d) PROVE HasTurn(e)'
  BY <1>19 DEF DeleteRow, Return, Overtaken, store, turn, header, deletion, ghost,
       HasTurn, Running, Present
<1>20. ASSUME NEW d \in Deleters, DeleteRowFails(d) PROVE HasTurn(e)'
  BY <1>20 DEF DeleteRowFails, Return, Excuse, store, turn, header, deletion, ghost,
       HasTurn, Running, Present
<1>21. CASE Restart
  <2>1. Running(e)' => e \in interrupted'
    BY <1>21, RestartIs DEF RestType, Running, Present
  <2>. QED  BY <2>1 DEF HasTurn
<1>22. CASE UNCHANGED vars
  BY <1>22 DEF vars, store, turn, header, deletion, ghost, HasTurn, Running, Present
<1>. QED  BY <1>1, <1>2, <1>3, <1>4, <1>5, <1>6, <1>7, <1>8, <1>9, <1>10, <1>11,
          <1>12, <1>13, <1>14, <1>15, <1>16, <1>17, <1>18, <1>19, <1>20, <1>21, <1>22
     DEF Next, TurnStep, DeleterStep

LEMMA TurnsInvariant == Spec => [](Shape /\ TurnsEnd)
<1>1. Init => TurnsEnd
  BY DEF Init, TurnsEnd, HasTurn, Running, Present
<1>2. ASSUME Shape, TurnsEnd, [Next]_vars PROVE TurnsEnd'
  BY <1>2, TurnsEndStep DEF TurnsEnd
<1>. QED  BY <1>1, <1>2, ShapeInit, ShapeStep, PTL DEF Spec

\* No turn ends and leaves its conversation running, but one that is cut off:
\* whoever overtakes it, and whatever is trimmed, deleted and begun anew
\* meanwhile, some turn will still end it.
THEOREM TurnsAlwaysEnd == Spec => []TurnsAreEnded
<1>1. ASSUME TurnsEnd PROVE TurnsAreEnded
  BY <1>1 DEF TurnsEnd, HasTurn, TurnsAreEnded, WorkedOn
<1>. QED  BY <1>1, TurnsInvariant, PTL

-----------------------------------------------------------------------------
(* What was deleted.                                                       *)

LEMMA DeletedGoneStep ==
  ASSUME Shape, DeletedGone, [Next]_vars, NEW e \in deleted'
  PROVE  Gone(e)'
<1>. StoreOK /\ TurnType /\ RestType /\ TurnShape /\ DeleterShape
  BY ShapeParts
<1>. None \notin Conversations
  BY ConversationsAssumption
<1>. Shape'
  BY ShapeStep
<1>. e \in Conversations
  BY DEF Shape, TypeOK
<1>1. ASSUME NEW t \in Turns, Read(t) PROVE Gone(e)'
  <2>1. e \in deleted /\ items'[e] = items[e] /\ rows'[e] = rows[e]
    BY <1>1, ReadIs
  <2>2. ~Present(e) /\ rows[e] = None /\ ~Saving(e)
    BY <2>1 DEF DeletedGone, Gone
  <2>3. stage'[t] = "save" => conv[t] # e
    BY <1>1, <2>2, ReadIs
  <2>. QED  BY <1>1, <2>1, <2>2, <2>3, ReadIs DEF Gone, Present, Saving, Released
<1>2. ASSUME NEW t \in Turns, Save(t) PROVE Gone(e)'
  <2>1. e \in deleted /\ items'[e] = items[e]
    BY <1>2, SaveIs
  <2>2. ~Present(e) /\ rows[e] = None /\ ~Saving(e)
    BY <2>1 DEF DeletedGone, Gone
  <2>3. conv[t] # e /\ rows'[e] = rows[e]
    BY <1>2, <2>2, SaveIs DEF Saving, RestType
  <2>. QED  BY <1>2, <2>1, <2>2, <2>3, SaveIs DEF Gone, Present, Saving, Released
<1>3. ASSUME NEW t \in Turns, FlushHeaders(t) PROVE Gone(e)'
  <2>1. e \in deleted /\ items'[e] = items[e] /\ rows'[e] = rows[e]
    BY <1>3, FlushIs
  <2>2. ~Present(e) /\ rows[e] = None /\ ~Saving(e)
    BY <2>1 DEF DeletedGone, Gone
  <2>3. flush'[t] = "save" => conv[t] # e
    BY <1>3, <2>2, FlushIs
  <2>. QED  BY <1>3, <2>1, <2>2, <2>3, FlushIs DEF Gone, Present, Saving
<1>4. ASSUME NEW t \in Turns, FlushSave(t) PROVE Gone(e)'
  <2>1. e \in deleted /\ items'[e] = items[e]
    BY <1>4, FlushSaveIs
  <2>2. ~Present(e) /\ rows[e] = None /\ ~Saving(e)
    BY <2>1 DEF DeletedGone, Gone
  <2>3. conv[t] # e /\ rows'[e] = rows[e]
    BY <1>4, <2>2, FlushSaveIs DEF Saving, RestType
  <2>. QED  BY <1>4, <2>1, <2>2, <2>3, FlushSaveIs DEF Gone, Present, Saving, Released
<1>5. ASSUME NEW t \in Turns, NEW c \in Conversations, Begin(t, c) PROVE Gone(e)'
  <2>1. Started(t, c) /\ (e # c => items'[e] = items[e] \/ items'[e] = None)
    BY <1>5, BeginIs
  <2>2. e \in deleted /\ e # c /\ rows' = rows
    BY <2>1 DEF Started
  <2>3. ~Present(e) /\ rows[e] = None /\ ~Saving(e)
    BY <2>2 DEF DeletedGone, Gone
  <2>. QED  BY <2>1, <2>2, <2>3 DEF Gone, Present, Saving, Started, TurnType
<1>6. ASSUME NEW t \in Turns, NEW c \in Conversations, Resolve(t, c) PROVE Gone(e)'
  <2>1. e \in deleted /\ ~Present(e) /\ rows[e] = None /\ ~Saving(e)
    BY <1>6 DEF Resolve, ghost, DeletedGone, Gone
  <2>. QED  BY <1>6, <2>1 DEF Resolve, store, header, Gone, Present, Saving, TurnType
<1>7. ASSUME NEW t \in Turns, NEW c \in Conversations, BeginInstead(t, c)
      PROVE  Gone(e)'
  <2>1. Started(t, c) /\ (e # c => items'[e] = items[e] \/ items'[e] = None)
    BY <1>7, BeginIs
  <2>2. e \in deleted /\ e # c /\ rows' = rows
    BY <2>1 DEF Started
  <2>3. ~Present(e) /\ rows[e] = None /\ ~Saving(e)
    BY <2>2 DEF DeletedGone, Gone
  <2>. QED  BY <2>1, <2>2, <2>3 DEF Gone, Present, Saving, Started, TurnType
<1>8. ASSUME NEW t \in Turns, Continue(t) PROVE Gone(e)'
  <2>1. Started(t, conv[t]) /\ (e # conv[t] => items'[e] = items[e] \/ items'[e] = None)
    BY <1>8, ContinueIs
  <2>2. e \in deleted /\ e # conv[t] /\ rows' = rows
    BY <2>1 DEF Started
  <2>3. ~Present(e) /\ rows[e] = None /\ ~Saving(e)
    BY <2>2 DEF DeletedGone, Gone
  <2>. QED  BY <2>1, <2>2, <2>3 DEF Gone, Present, Saving, Started, TurnType
<1>9. ASSUME NEW t \in Turns, Mark(t) PROVE Gone(e)'
  <2>1. e \in deleted /\ ~Present(e) /\ rows[e] = None /\ ~Saving(e)
    BY <1>9 DEF DeletedGone, Gone, Mark, ghost
  <2>2. ~Present(e)' /\ rows' = rows /\ conv' = conv /\ stage' = [stage EXCEPT ![t] = "read"]
    BY <1>9, <2>1, MarkIs DEF Mark, Update, Present
  <2>3. flush'[t] = "save" => flush[t] = "save"
    BY <1>9 DEF Mark, TurnType
  <2>4. \A u \in Turns : u # t => flush'[u] = flush[u]
    BY <1>9 DEF Mark, TurnType
  <2>. QED  BY <2>1, <2>2, <2>3, <2>4 DEF Gone, Saving, TurnType
<1>10. ASSUME NEW t \in Turns, PushDelta(t) PROVE Gone(e)'
  <2>1. e \in deleted /\ ~Present(e) /\ rows[e] = None /\ ~Saving(e)
    BY <1>10, PushDeltaIs DEF DeletedGone, Gone
  <2>2. ~Present(e)' /\ rows' = rows /\ conv' = conv /\ stage' = [stage EXCEPT ![t] = "read"]
    BY <1>10, <2>1, PushDeltaIs DEF StatusOf
  <2>3. flush'[t] = "save" => flush[t] = "save"
    BY <1>10, PushDeltaIs
  <2>4. \A u \in Turns : u # t => flush'[u] = flush[u]
    BY <1>10, PushDeltaIs
  <2>. QED  BY <2>1, <2>2, <2>3, <2>4 DEF Gone, Saving, TurnType
<1>11. ASSUME NEW t \in Turns, Fail(t) PROVE Gone(e)'
  <2>1. e \in deleted /\ ~Present(e) /\ rows[e] = None /\ ~Saving(e)
    BY <1>11, FailIs DEF DeletedGone, Gone
  <2>2. ~Present(e)' /\ rows' = rows /\ conv' = conv /\ stage' = [stage EXCEPT ![t] = "read"]
    BY <1>11, <2>1, FailIs DEF StatusOf
  <2>3. flush'[t] = "save" => flush[t] = "save"
    BY <1>11, FailIs
  <2>4. \A u \in Turns : u # t => flush'[u] = flush[u]
    BY <1>11, FailIs
  <2>. QED  BY <2>1, <2>2, <2>3, <2>4 DEF Gone, Saving, TurnType
<1>12. ASSUME NEW t \in Turns, Abandon(t) PROVE Gone(e)'
  <2>1. e \in deleted /\ ~Present(e) /\ rows[e] = None /\ ~Saving(e)
    BY <1>12, AbandonIs DEF DeletedGone, Gone
  <2>. QED  BY <1>12, <2>1, AbandonIs DEF Gone, Present, Saving, Released
<1>13. ASSUME NEW t \in Turns, NEW thread \in BOOLEAN, Complete(t, thread)
       PROVE  Gone(e)'
  <2>1. e \in deleted /\ ~Present(e) /\ rows[e] = None /\ ~Saving(e)
    BY <1>13, CompleteIs DEF DeletedGone, Gone
  <2>2. ~Present(e)' /\ rows' = rows /\ conv' = conv /\ stage' = [stage EXCEPT ![t] = "read"]
    BY <1>13, <2>1, CompleteIs
  <2>3. flush'[t] = "save" => flush[t] = "save"
    BY <1>13, CompleteIs
  <2>4. \A u \in Turns : u # t => flush'[u] = flush[u]
    BY <1>13, CompleteIs
  <2>. QED  BY <2>1, <2>2, <2>3, <2>4 DEF Gone, Saving, TurnType
<1>14. ASSUME NEW d \in Deleters, NEW c \in Conversations, Look(d, c) PROVE Gone(e)'
  <2>1. e \in deleted
    BY <1>14 DEF Look, Excuse, ghost
  <2>2. ~Present(e) /\ rows[e] = None /\ ~Saving(e)
    BY <2>1 DEF DeletedGone, Gone
  <2>. QED  BY <1>14, <2>2 DEF Look, store, turn, header, Gone, Present, Saving
<1>15. ASSUME NEW d \in Deleters, DeleteThread(d) PROVE Gone(e)'
  <2>1. e \in deleted
    BY <1>15 DEF DeleteThread, Excuse, ghost
  <2>2. ~Present(e) /\ rows[e] = None /\ ~Saving(e)
    BY <2>1 DEF DeletedGone, Gone
  <2>. QED  BY <1>15, <2>2 DEF DeleteThread, store, turn, header, Gone, Present, Saving
<1>16. ASSUME NEW d \in Deleters, DeleteThreadFails(d) PROVE Gone(e)'
  <2>1. e \in deleted
    BY <1>16 DEF DeleteThreadFails, Excuse, ghost
  <2>2. ~Present(e) /\ rows[e] = None /\ ~Saving(e)
    BY <2>1 DEF DeletedGone, Gone
  <2>. QED  BY <1>16, <2>2 DEF DeleteThreadFails, store, turn, header, Gone, Present, Saving
<1>17. ASSUME NEW d \in Deleters, RemoveConversation(d) PROVE Gone(e)'
  <2>1. e \in deleted /\ ~Present(e) /\ rows[e] = None /\ ~Saving(e)
    BY <1>17 DEF RemoveConversation, ghost, DeletedGone, Gone
  <2>2. items'[e] = None
    BY <1>17, <2>1 DEF RemoveConversation, Present, StoreOK
  <2>. QED  BY <1>17, <2>1, <2>2 DEF RemoveConversation, turn, header, Gone, Present, Saving
<1>18. ASSUME NEW d \in Deleters, RemoveRefused(d) PROVE Gone(e)'
  <2>1. e \in deleted
    BY <1>18 DEF RemoveRefused, Excuse, ghost
  <2>2. ~Present(e) /\ rows[e] = None /\ ~Saving(e)
    BY <2>1 DEF DeletedGone, Gone
  <2>. QED  BY <1>18, <2>2 DEF RemoveRefused, store, turn, header, Gone, Present, Saving
<1>19. ASSUME NEW d \in Deleters, DeleteRow(d) PROVE Gone(e)'
  <2>1. target[d] \in Conversations
    BY <1>19, DeletersTarget DEF DeleteRow
  <2>2. rows' = [rows EXCEPT ![target[d]] = None]
    BY <1>19 DEF DeleteRow
  <2>3. CASE e \in deleted
    <3>1. ~Present(e) /\ rows[e] = None /\ ~Saving(e)
      BY <2>3 DEF DeletedGone, Gone
    <3>2. rows'[e] = None
      BY <2>1, <2>2, <3>1 DEF RestType
    <3>. QED  BY <1>19, <3>1, <3>2 DEF DeleteRow, store, turn, header, Gone, Present, Saving
  <2>4. CASE e \notin deleted
    <3>1. e = target[d] /\ ~Present(e) /\ e \notin excused'
      BY <1>19, <2>4 DEF DeleteRow
    <3>2. ~Saving(e)
      BY <1>19, <3>1 DEF DeleteRow, Overtaken
    <3>3. rows'[e] = None
      BY <2>1, <2>2, <3>1 DEF RestType
    <3>. QED  BY <1>19, <3>1, <3>2, <3>3 DEF DeleteRow, store, turn, header, Gone, Present, Saving
  <2>. QED  BY <2>3, <2>4
<1>20. ASSUME NEW d \in Deleters, DeleteRowFails(d) PROVE Gone(e)'
  <2>1. e \in deleted
    BY <1>20 DEF DeleteRowFails, Excuse, ghost
  <2>2. ~Present(e) /\ rows[e] = None /\ ~Saving(e)
    BY <2>1 DEF DeletedGone, Gone
  <2>. QED  BY <1>20, <2>2 DEF DeleteRowFails, store, turn, header, Gone, Present, Saving
<1>21. CASE Restart
  <2>1. e \in deleted /\ rows'[e] = rows[e]
    BY <1>21 DEF Restart, Excuse
  <2>2. ~Present(e) /\ rows[e] = None /\ ~Saving(e)
    BY <2>1 DEF DeletedGone, Gone
  <2>3. items'[e] = None
    BY <1>21, <2>1, <2>2, RestartIs DEF RestType
  <2>4. ~Saving(e)'
    BY <1>21 DEF Restart, Saving
  <2>. QED  BY <2>1, <2>2, <2>3, <2>4 DEF Gone, Present
<1>22. CASE UNCHANGED vars
  BY <1>22 DEF vars, store, turn, header, deletion, ghost, DeletedGone, Gone, Present, Saving
<1>. QED  BY <1>1, <1>2, <1>3, <1>4, <1>5, <1>6, <1>7, <1>8, <1>9, <1>10, <1>11,
          <1>12, <1>13, <1>14, <1>15, <1>16, <1>17, <1>18, <1>19, <1>20, <1>21, <1>22
     DEF Next, TurnStep, DeleterStep

LEMMA DeletedInvariant == Spec => [](Shape /\ DeletedGone)
<1>1. Init => DeletedGone
  BY DEF Init, DeletedGone
<1>2. ASSUME Shape, DeletedGone, [Next]_vars PROVE DeletedGone'
  BY <1>2, DeletedGoneStep DEF DeletedGone
<1>. QED  BY <1>1, <1>2, ShapeInit, ShapeStep, PTL DEF Spec

\* No turn, header goroutine or restart brings back a conversation whose
\* deletion was acknowledged.
THEOREM DeletedStaysAway == Spec => []StaysDeleted
<1>1. ASSUME DeletedGone PROVE StaysDeleted
  BY <1>1 DEF DeletedGone, Gone, StaysDeleted
<1>. QED  BY <1>1, DeletedInvariant, PTL

-----------------------------------------------------------------------------
(* Deletions and turns.                                                    *)

LEMMA UndisturbedStep ==
  ASSUME Shape, Unexcused, [Next]_vars, NEW e \in Conversations \ excused'
  PROVE  Undisturbed(e)'
<1>. StoreOK /\ TurnType /\ RestType /\ TurnShape /\ DeleterShape
  BY ShapeParts
<1>. None \notin Conversations
  BY ConversationsAssumption
<1>. Shape'
  BY ShapeStep
<1>1. ASSUME NEW t \in Turns, Read(t) PROVE Undisturbed(e)'
  <2>1. e \notin excused
    BY <1>1, ReadIs
  <2>2. Undisturbed(e)
    BY <2>1 DEF Unexcused
  <2>. QED  BY <1>1, <2>2, ReadIs DEF Released, Undisturbed, BeingDeleted, Running, Present
<1>2. ASSUME NEW t \in Turns, Save(t) PROVE Undisturbed(e)'
  <2>1. e \notin excused
    BY <1>2, SaveIs
  <2>2. Undisturbed(e)
    BY <2>1 DEF Unexcused
  <2>. QED  BY <1>2, <2>2, SaveIs DEF Released, Undisturbed, BeingDeleted, Running, Present
<1>3. ASSUME NEW t \in Turns, FlushHeaders(t) PROVE Undisturbed(e)'
  <2>1. e \notin excused
    BY <1>3, FlushIs
  <2>2. Undisturbed(e)
    BY <2>1 DEF Unexcused
  <2>. QED  BY <1>3, <2>2, FlushIs DEF Undisturbed, BeingDeleted, Running, Present
<1>4. ASSUME NEW t \in Turns, FlushSave(t) PROVE Undisturbed(e)'
  <2>1. e \notin excused
    BY <1>4, FlushSaveIs
  <2>2. Undisturbed(e)
    BY <2>1 DEF Unexcused
  <2>. QED  BY <1>4, <2>2, FlushSaveIs DEF Released, Undisturbed, BeingDeleted, Running, Present
<1>5. ASSUME NEW t \in Turns, NEW c \in Conversations, Begin(t, c)
      PROVE  Undisturbed(e)'
  <2>1. Started(t, c) /\ (e # c => items'[e] = items[e] \/ items'[e] = None)
    BY <1>5, BeginIs
  <2>2. CASE e = c
    BY <2>1, <2>2 DEF Started, Undisturbed, BeingDeleted, Running, Present
  <2>3. CASE e # c
    <3>1. e \notin excused
      BY <2>1, <2>3 DEF Started
    <3>2. Undisturbed(e)
      BY <3>1 DEF Unexcused
    <3>3. Running(e)' => Running(e)
      BY <2>1, <2>3 DEF Running, Present
    <3>4. \A u \in Turns : conv'[u] = e => conv[u] = e /\ pc'[u] = pc[u]
      BY <2>1, <2>3 DEF Started, TurnType
    <3>5. dpc' = dpc /\ target' = target /\ (Present(e)' => Present(e))
      BY <2>1, <2>3 DEF Started, Present
    <3>. QED  BY <3>2, <3>3, <3>4, <3>5 DEF Undisturbed, BeingDeleted
  <2>. QED  BY <2>2, <2>3
<1>6. ASSUME NEW t \in Turns, NEW c \in Conversations, Resolve(t, c)
      PROVE  Undisturbed(e)'
  <2>1. e \notin excused
    BY <1>6 DEF Resolve, ghost
  <2>2. Undisturbed(e)
    BY <2>1 DEF Unexcused
  <2>. QED  BY <1>6, <2>2 DEF Resolve, store, deletion, TurnType, Undisturbed,
                 BeingDeleted, Running, Present
<1>7. ASSUME NEW t \in Turns, NEW c \in Conversations, BeginInstead(t, c)
      PROVE  Undisturbed(e)'
  <2>1. Started(t, c) /\ (e # c => items'[e] = items[e] \/ items'[e] = None)
    BY <1>7, BeginIs
  <2>2. CASE e = c
    BY <2>1, <2>2 DEF Started, Undisturbed, BeingDeleted, Running, Present
  <2>3. CASE e # c
    <3>1. e \notin excused
      BY <2>1, <2>3 DEF Started
    <3>2. Undisturbed(e)
      BY <3>1 DEF Unexcused
    <3>3. Running(e)' => Running(e)
      BY <2>1, <2>3 DEF Running, Present
    <3>4. \A u \in Turns : conv'[u] = e => conv[u] = e /\ pc'[u] = pc[u]
      BY <2>1, <2>3 DEF Started, TurnType
    <3>5. dpc' = dpc /\ target' = target /\ (Present(e)' => Present(e))
      BY <2>1, <2>3 DEF Started, Present
    <3>. QED  BY <3>2, <3>3, <3>4, <3>5 DEF Undisturbed, BeingDeleted
  <2>. QED  BY <2>2, <2>3
<1>8. ASSUME NEW t \in Turns, Continue(t) PROVE Undisturbed(e)'
  <2>1. Started(t, conv[t]) /\ (e # conv[t] => items'[e] = items[e] \/ items'[e] = None)
    BY <1>8, ContinueIs
  <2>2. CASE e = conv[t]
    BY <2>1, <2>2 DEF Started, Undisturbed, BeingDeleted, Running, Present
  <2>3. CASE e # conv[t]
    <3>1. e \notin excused
      BY <2>1, <2>3 DEF Started
    <3>2. Undisturbed(e)
      BY <3>1 DEF Unexcused
    <3>3. Running(e)' => Running(e)
      BY <2>1, <2>3 DEF Running, Present
    <3>4. \A u \in Turns : conv'[u] = e => conv[u] = e /\ pc'[u] = pc[u]
      BY <2>1, <2>3 DEF Started, TurnType
    <3>5. dpc' = dpc /\ target' = target /\ (Present(e)' => Present(e))
      BY <2>1, <2>3 DEF Started, Present
    <3>. QED  BY <3>2, <3>3, <3>4, <3>5 DEF Undisturbed, BeingDeleted
  <2>. QED  BY <2>2, <2>3
<1>9. ASSUME NEW t \in Turns, Mark(t) PROVE Undisturbed(e)'
  <2>1. e \notin excused
    BY <1>9 DEF Mark, ghost
  <2>2. Undisturbed(e)
    BY <2>1 DEF Unexcused
  <2>. QED  BY <1>9, <2>2, MarkIs DEF Mark, deletion, Undisturbed, BeingDeleted, Running, Present
<1>10. ASSUME NEW t \in Turns, PushDelta(t) PROVE Undisturbed(e)'
  <2>1. e \notin excused
    BY <1>10, PushDeltaIs
  <2>2. Undisturbed(e)
    BY <2>1 DEF Unexcused
  <2>3. CASE e = conv[t]
    BY <1>10, <2>2, <2>3, PushDeltaIs DEF Undisturbed, BeingDeleted
  <2>4. CASE e # conv[t]
    <3>1. items'[e] = items[e] /\ pc' = pc /\ conv' = conv /\ dpc' = dpc /\ target' = target
      BY <1>10, <2>4, PushDeltaIs DEF StatusOf
    <3>. QED  BY <2>2, <3>1 DEF Undisturbed, BeingDeleted, Running, Present
  <2>. QED  BY <2>3, <2>4
<1>11. ASSUME NEW t \in Turns, Fail(t) PROVE Undisturbed(e)'
  <2>1. e \notin excused
    BY <1>11, FailIs
  <2>2. Undisturbed(e)
    BY <2>1 DEF Unexcused
  <2>3. CASE e = conv[t]
    BY <1>11, <2>2, <2>3, FailIs DEF Undisturbed, BeingDeleted
  <2>4. CASE e # conv[t]
    <3>1. conv' = conv /\ dpc' = dpc /\ target' = target
      BY <1>11, FailIs
    <3>2. items'[e] = items[e]
      BY <1>11, <2>4, FailIs DEF StatusOf
    <3>3. \A u \in Turns : pc'[u] = "running" => pc[u] = "running"
      BY <1>11, FailIs DEF TurnType
    <3>. QED  BY <2>2, <3>1, <3>2, <3>3 DEF Undisturbed, BeingDeleted, Running, Present
  <2>. QED  BY <2>3, <2>4
<1>12. ASSUME NEW t \in Turns, Abandon(t) PROVE Undisturbed(e)'
  <2>1. e \notin excused
    BY <1>12, AbandonIs
  <2>2. Undisturbed(e)
    BY <2>1 DEF Unexcused
  <2>. QED  BY <1>12, <2>2, AbandonIs DEF Released, Undisturbed, BeingDeleted, Running, Present
<1>13. ASSUME NEW t \in Turns, NEW thread \in BOOLEAN, Complete(t, thread)
       PROVE  Undisturbed(e)'
  <2>1. e \notin excused
    BY <1>13, CompleteIs
  <2>2. Undisturbed(e)
    BY <2>1 DEF Unexcused
  <2>3. CASE e = conv[t]
    BY <1>13, <2>2, <2>3, CompleteIs DEF Undisturbed, BeingDeleted
  <2>4. CASE e # conv[t]
    <3>1. conv' = conv /\ dpc' = dpc /\ target' = target
      BY <1>13, CompleteIs
    <3>2. items'[e] = items[e]
      BY <1>13, <2>4, CompleteIs DEF StatusOf
    <3>3. \A u \in Turns : pc'[u] = "running" => pc[u] = "running"
      BY <1>13, CompleteIs DEF TurnType
    <3>. QED  BY <2>2, <3>1, <3>2, <3>3 DEF Undisturbed, BeingDeleted, Running, Present
  <2>. QED  BY <2>3, <2>4
<1>14. ASSUME NEW d \in Deleters, NEW c \in Conversations, Look(d, c)
       PROVE  Undisturbed(e)'
  <2>1. e \notin excused
    BY <1>14 DEF Look, Excuse
  <2>2. Undisturbed(e)
    BY <2>1 DEF Unexcused
  <2>3. items' = items /\ pc' = pc /\ conv' = conv
    BY <1>14 DEF Look, store, turn
  <2>4. \A f \in Deleters : target'[f] = e => target[f] = e \/ (f = d /\ e = c)
    BY <1>14 DEF Look, RestType
  <2>5. \A f \in Deleters : dpc'[f] = "row" => dpc[f] = "row" /\ target'[f] = target[f]
    BY <1>14 DEF Look, RestType
  <2>6. CASE e = c
    <3>1. ~Running(e) /\ \A u \in Turns : conv[u] = e => pc[u] # "running"
      BY <1>14, <2>6 DEF Look, Excuse, SharedByRunning
    <3>. QED  BY <2>2, <2>3, <2>5, <3>1 DEF Undisturbed, BeingDeleted, Running, Present
  <2>7. CASE e # c
    BY <2>2, <2>3, <2>4, <2>5, <2>7 DEF Undisturbed, BeingDeleted, Running, Present
  <2>. QED  BY <2>6, <2>7
<1>15. ASSUME NEW d \in Deleters, DeleteThread(d) PROVE Undisturbed(e)'
  <2>1. e \notin excused
    BY <1>15 DEF DeleteThread, ghost
  <2>2. Undisturbed(e)
    BY <2>1 DEF Unexcused
  <2>3. items' = items /\ pc' = pc /\ conv' = conv /\ target' = target
    BY <1>15 DEF DeleteThread, store, turn
  <2>4. \A f \in Deleters : dpc'[f] = "row" => dpc[f] = "row"
    BY <1>15 DEF DeleteThread, RestType
  <2>. QED  BY <2>2, <2>3, <2>4 DEF Undisturbed, BeingDeleted, Running, Present
<1>16. ASSUME NEW d \in Deleters, DeleteThreadFails(d) PROVE Undisturbed(e)'
  <2>1. e \notin excused
    BY <1>16 DEF DeleteThreadFails, Excuse
  <2>2. Undisturbed(e)
    BY <2>1 DEF Unexcused
  <2>3. items' = items /\ pc' = pc /\ conv' = conv
    BY <1>16 DEF DeleteThreadFails, store, turn
  <2>4. \A f \in Deleters : target'[f] = e => target[f] = e /\ dpc'[f] = dpc[f]
    BY <1>16, ReturnIs DEF DeleteThreadFails
  <2>. QED  BY <2>2, <2>3, <2>4 DEF Undisturbed, BeingDeleted, Running, Present
<1>17. ASSUME NEW d \in Deleters, RemoveConversation(d) PROVE Undisturbed(e)'
  <2>1. e \notin excused
    BY <1>17 DEF RemoveConversation, ghost
  <2>2. Undisturbed(e)
    BY <2>1 DEF Unexcused
  <2>3. pc' = pc /\ conv' = conv /\ target' = target
    BY <1>17 DEF RemoveConversation, turn
  <2>4. target[d] \in Conversations
    BY <1>17, DeletersTarget DEF RemoveConversation
  <2>5. items'[target[d]] = None /\ (e # target[d] => items'[e] = items[e])
    BY <1>17, <2>4 DEF RemoveConversation, StoreOK
  <2>6. \A f \in Deleters : f # d => dpc'[f] = dpc[f]
    BY <1>17 DEF RemoveConversation, RestType
  <2>7. CASE e = target[d]
    BY <2>2, <2>3, <2>5, <2>7 DEF Undisturbed, BeingDeleted, Running, Present
  <2>8. CASE e # target[d]
    BY <2>2, <2>3, <2>5, <2>6, <2>8 DEF Undisturbed, BeingDeleted, Running, Present
  <2>. QED  BY <2>7, <2>8
<1>18. ASSUME NEW d \in Deleters, RemoveRefused(d) PROVE Undisturbed(e)'
  <2>1. e \notin excused
    BY <1>18 DEF RemoveRefused, Excuse
  <2>2. Undisturbed(e)
    BY <2>1 DEF Unexcused
  <2>3. items' = items /\ pc' = pc /\ conv' = conv
    BY <1>18 DEF RemoveRefused, store, turn
  <2>4. \A f \in Deleters : target'[f] = e => target[f] = e /\ dpc'[f] = dpc[f]
    BY <1>18, ReturnIs DEF RemoveRefused
  <2>. QED  BY <2>2, <2>3, <2>4 DEF Undisturbed, BeingDeleted, Running, Present
<1>19. ASSUME NEW d \in Deleters, DeleteRow(d) PROVE Undisturbed(e)'
  <2>1. e \notin excused
    BY <1>19 DEF DeleteRow
  <2>2. Undisturbed(e)
    BY <2>1 DEF Unexcused
  <2>3. items' = items /\ pc' = pc /\ conv' = conv
    BY <1>19 DEF DeleteRow, store, turn
  <2>4. \A f \in Deleters : target'[f] = e => target[f] = e /\ dpc'[f] = dpc[f]
    BY <1>19, ReturnIs DEF DeleteRow
  <2>. QED  BY <2>2, <2>3, <2>4 DEF Undisturbed, BeingDeleted, Running, Present
<1>20. ASSUME NEW d \in Deleters, DeleteRowFails(d) PROVE Undisturbed(e)'
  <2>1. e \notin excused
    BY <1>20 DEF DeleteRowFails, Excuse
  <2>2. Undisturbed(e)
    BY <2>1 DEF Unexcused
  <2>3. items' = items /\ pc' = pc /\ conv' = conv
    BY <1>20 DEF DeleteRowFails, store, turn
  <2>4. \A f \in Deleters : target'[f] = e => target[f] = e /\ dpc'[f] = dpc[f]
    BY <1>20, ReturnIs DEF DeleteRowFails
  <2>. QED  BY <2>2, <2>3, <2>4 DEF Undisturbed, BeingDeleted, Running, Present
<1>21. CASE Restart
  <2>1. \A f \in Deleters : target'[f] = None
    BY <1>21 DEF Restart
  <2>. QED  BY <2>1 DEF Undisturbed, BeingDeleted
<1>22. CASE UNCHANGED vars
  BY <1>22 DEF vars, store, turn, header, deletion, ghost, Unexcused, Undisturbed,
       BeingDeleted, Running, Present
<1>. QED  BY <1>1, <1>2, <1>3, <1>4, <1>5, <1>6, <1>7, <1>8, <1>9, <1>10, <1>11,
          <1>12, <1>13, <1>14, <1>15, <1>16, <1>17, <1>18, <1>19, <1>20, <1>21, <1>22
     DEF Next, TurnStep, DeleterStep

-----------------------------------------------------------------------------
(* Memory and table.                                                       *)

\* The snapshots of c under way stay what they are.
SameSnapshots(c) ==
  \A t \in Turns :
    /\ conv[t] = c /\ stage[t] = "read" <=> (conv[t] = c /\ stage[t] = "read")'
    /\ conv[t] = c /\ stage[t] = "save" <=> (conv[t] = c /\ stage[t] = "save")'
    /\ conv[t] = c /\ flush[t] = "save" <=> (conv[t] = c /\ flush[t] = "save")'
    /\ conv[t] = c /\ stage[t] = "save" => snap'[t] = snap[t]
    /\ conv[t] = c /\ flush[t] = "save" => flushSnap'[t] = flushSnap[t]

LEMMA FollowedKept ==
  ASSUME NEW c, Followed(c), SameSnapshots(c), items'[c] = items[c], rows'[c] = rows[c]
  PROVE  Followed(c)'
<1>1. Present(c)' <=> Present(c)
  BY DEF Present
<1>2. ToBeRead(c)' <=> ToBeRead(c)
  BY DEF ToBeRead, SameSnapshots
<1>3. Fresh(c) => Fresh(c)'
  BY DEF Fresh, SameSnapshots
<1>4. Saving(c)' <=> Saving(c)
  BY DEF Saving, SameSnapshots
<1>. QED  BY <1>1, <1>2, <1>3, <1>4 DEF Followed

\* A deletion leaves the snapshots alone.
LEMMA DeletionKeeps ==
  ASSUME NEW c, UNCHANGED turn, UNCHANGED header
  PROVE  SameSnapshots(c)
BY DEF turn, header, SameSnapshots

\* So does a turn on another conversation.
LEMMA StartKeeps ==
  ASSUME TurnType, NEW t \in Turns, NEW c, NEW e, e # c, Started(t, c)
  PROVE  SameSnapshots(e)
BY DEF Started, SameSnapshots, TurnType

LEMMA UpdateKeeps ==
  ASSUME TurnType, NEW t \in Turns, NEW e, e # conv[t], conv' = conv,
         stage' = [stage EXCEPT ![t] = "read"], snap' = snap,
         \A u \in Turns : u # t => flush'[u] = flush[u], flushSnap' = flushSnap
  PROVE  SameSnapshots(e)
BY DEF SameSnapshots, TurnType

LEMMA ReleaseKeeps ==
  ASSUME NEW t \in Turns, NEW e \in Conversations, e # conv[t], Released(t),
         \A u \in Turns : u # t => snap'[u] = snap[u] /\ flushSnap'[u] = flushSnap[u]
  PROVE  SameSnapshots(e)
<1>1. conv'[t] # e
  BY ConversationsAssumption DEF Released
<1>. QED  BY <1>1 DEF Released, SameSnapshots

LEMMA FollowedStep ==
  ASSUME Shape, Unexcused, [Next]_vars, NEW e \in Conversations \ excused'
  PROVE  Followed(e)'
<1>. StoreOK /\ TurnType /\ RestType /\ TurnShape /\ DeleterShape
  BY ShapeParts
<1>. None \notin Conversations
  BY ConversationsAssumption
<1>. Shape'
  BY ShapeStep
<1>1. ASSUME NEW t \in Turns, Read(t) PROVE Followed(e)'
  <2>1. Followed(e)
    BY <1>1, ReadIs DEF Unexcused
  <2>2. CASE e = conv[t] /\ Present(e)
    <3>1. ~Saving(e)
      BY <1>1, <2>2, ReadIs DEF Overtaken
    <3>2. stage'[t] = "save" /\ snap'[t] = items[e] /\ items'[e] = items[e] /\ conv'[t] = e
      BY <1>1, <2>2, ReadIs DEF TurnType, Released
    <3>3. \A u \in Turns : u # t => ~(conv'[u] = e /\ (stage'[u] = "save" \/ flush'[u] = "save"))
      BY <1>1, <3>1, ReadIs DEF Released, Saving
    <3>4. flush'[t] # "save"
      BY <1>1, <2>2, <3>1, ReadIs DEF Released, Saving
    <3>. QED  BY <3>2, <3>3, <3>4 DEF Followed, ToBeRead, Fresh, Saving
  <2>3. CASE e = conv[t] /\ ~Present(e)
    BY <1>1, <2>3, ReadIs DEF Followed, Present
  <2>4. CASE e # conv[t]
    <3>1. SameSnapshots(e)
      <4>1. \A u \in Turns : u # t => snap'[u] = snap[u] /\ flushSnap'[u] = flushSnap[u]
        <5>1. (snap' = [snap EXCEPT ![t] = items[conv[t]]] \/ snap' = snap) /\ flushSnap' = flushSnap
          BY <1>1, ReadIs
        <5>. QED  BY <5>1 DEF TurnType
      <4>2. Released(t)
        BY <1>1, ReadIs
      <4>. QED  BY <2>4, <4>1, <4>2, ReleaseKeeps
    <3>2. items'[e] = items[e] /\ rows'[e] = rows[e]
      BY <1>1, <2>4, ReadIs
    <3>. QED  BY <2>1, <3>1, <3>2, FollowedKept
  <2>. QED  BY <2>2, <2>3, <2>4
<1>2. ASSUME NEW t \in Turns, Save(t) PROVE Followed(e)'
  <2>1. Followed(e)
    BY <1>2, SaveIs DEF Unexcused
  <2>2. CASE e = conv[t]
    <3>1. CASE ToBeRead(e)
      <4>1. PICK u \in Turns : conv[u] = e /\ stage[u] = "read"
        BY <3>1 DEF ToBeRead
      <4>2. conv'[u] = e /\ stage'[u] = "read"
        BY <1>2, <4>1, SaveIs DEF Released
      <4>. QED  BY <4>2 DEF Followed, ToBeRead
    <3>2. CASE Present(e) /\ ~ToBeRead(e)
      <4>1. Fresh(e)
        BY <2>1, <3>2 DEF Followed
      <4>2. rows'[e] = items[e] /\ items'[e] = items[e]
        BY <1>2, <2>2, <4>1, SaveIs DEF Fresh, RestType
      <4>3. Fresh(e)'
        BY <1>2, <2>2, <4>1, <4>2, SaveIs DEF Fresh, Released
      <4>. QED  BY <4>2, <4>3 DEF Followed
    <3>3. CASE ~Present(e)
      BY <1>2, <3>3, SaveIs DEF Followed, Present
    <3>. QED  BY <3>1, <3>2, <3>3
  <2>3. CASE e # conv[t]
    <3>1. \A u \in Turns : u # t => snap'[u] = snap[u] /\ flushSnap'[u] = flushSnap[u]
      BY <1>2, SaveIs
    <3>2. Released(t)
      BY <1>2, SaveIs
    <3>3. SameSnapshots(e)
      BY <2>3, <3>1, <3>2, ReleaseKeeps
    <3>4. items'[e] = items[e] /\ rows'[e] = rows[e]
      BY <1>2, <2>3, SaveIs DEF RestType
    <3>. QED  BY <2>1, <3>3, <3>4, FollowedKept
  <2>. QED  BY <2>2, <2>3
<1>3. ASSUME NEW t \in Turns, FlushHeaders(t) PROVE Followed(e)'
  <2>1. Followed(e)
    BY <1>3, FlushIs DEF Unexcused
  <2>2. CASE e = conv[t] /\ Present(e)
    <3>1. ~Saving(e)
      BY <1>3, <2>2, FlushIs DEF Overtaken
    <3>2. /\ flush'[t] = "save" /\ flushSnap'[t] = items[e] /\ items' = items
          /\ conv' = conv /\ stage' = stage
          /\ \A u \in Turns : u # t => flush'[u] = flush[u]
      BY <1>3, <2>2, FlushIs
    <3>3. Fresh(e)' /\ Saving(e)'
      BY <2>2, <3>1, <3>2 DEF Fresh, Saving
    <3>. QED  BY <3>3 DEF Followed
  <2>3. CASE e = conv[t] /\ ~Present(e)
    BY <1>3, <2>3, FlushIs DEF Followed, Present
  <2>4. CASE e # conv[t]
    <3>1. SameSnapshots(e)
      BY <1>3, <2>4, FlushIs DEF SameSnapshots
    <3>2. items'[e] = items[e] /\ rows'[e] = rows[e]
      BY <1>3, FlushIs
    <3>. QED  BY <2>1, <3>1, <3>2, FollowedKept
  <2>. QED  BY <2>2, <2>3, <2>4
<1>4. ASSUME NEW t \in Turns, FlushSave(t) PROVE Followed(e)'
  <2>1. Followed(e)
    BY <1>4, FlushSaveIs DEF Unexcused
  <2>2. CASE e = conv[t]
    <3>1. CASE ToBeRead(e)
      <4>1. PICK u \in Turns : conv[u] = e /\ stage[u] = "read"
        BY <3>1 DEF ToBeRead
      <4>2. conv'[u] = e /\ stage'[u] = "read"
        BY <1>4, <4>1, FlushSaveIs DEF Released
      <4>. QED  BY <4>2 DEF Followed, ToBeRead
    <3>2. CASE Present(e) /\ ~ToBeRead(e)
      <4>1. Fresh(e)
        BY <2>1, <3>2 DEF Followed
      <4>2. rows'[e] = items[e] /\ items'[e] = items[e]
        BY <1>4, <2>2, <4>1, FlushSaveIs DEF Fresh, RestType
      <4>3. Fresh(e)'
        BY <1>4, <2>2, <4>1, <4>2, FlushSaveIs DEF Fresh, Released
      <4>. QED  BY <4>2, <4>3 DEF Followed
    <3>3. CASE ~Present(e)
      BY <1>4, <3>3, FlushSaveIs DEF Followed, Present
    <3>. QED  BY <3>1, <3>2, <3>3
  <2>3. CASE e # conv[t]
    <3>1. \A u \in Turns : u # t => snap'[u] = snap[u] /\ flushSnap'[u] = flushSnap[u]
      BY <1>4, FlushSaveIs
    <3>2. Released(t)
      BY <1>4, FlushSaveIs
    <3>3. SameSnapshots(e)
      BY <2>3, <3>1, <3>2, ReleaseKeeps
    <3>4. items'[e] = items[e] /\ rows'[e] = rows[e]
      BY <1>4, <2>3, FlushSaveIs DEF RestType
    <3>. QED  BY <2>1, <3>3, <3>4, FollowedKept
  <2>. QED  BY <2>2, <2>3
<1>5. ASSUME NEW t \in Turns, NEW c \in Conversations, Begin(t, c) PROVE Followed(e)'
  <2>1. Started(t, c) /\ (e # c => items'[e] = items[e] \/ items'[e] = None)
    BY <1>5, BeginIs
  <2>2. CASE e = c
    <3>1. conv'[t] = e /\ stage'[t] = "read"
      BY <2>1, <2>2 DEF Started, TurnType
    <3>. QED  BY <3>1 DEF Followed, ToBeRead
  <2>3. CASE e # c /\ items'[e] = items[e]
    <3>1. Followed(e) /\ rows'[e] = rows[e]
      BY <2>1, <2>3 DEF Started, Unexcused
    <3>2. SameSnapshots(e)
      BY <2>1, <2>3, StartKeeps
    <3>. QED  BY <2>3, <3>1, <3>2, FollowedKept
  <2>4. CASE items'[e] = None
    BY <2>4 DEF Followed, Present
  <2>. QED  BY <2>1, <2>2, <2>3, <2>4
<1>6. ASSUME NEW t \in Turns, NEW c \in Conversations, Resolve(t, c)
      PROVE  Followed(e)'
  <2>1. Followed(e)
    BY <1>6 DEF Unexcused, Resolve, ghost
  <2>2. conv[t] = None /\ stage[t] = "none" /\ flush[t] = "off" /\ e # None
    BY <1>6 DEF Resolve, TurnShape
  <2>3. /\ \A u \in Turns : u # t => conv'[u] = conv[u]
        /\ stage' = stage /\ snap' = snap /\ flush' = flush /\ flushSnap' = flushSnap
    BY <1>6 DEF Resolve, header, TurnType
  <2>4. SameSnapshots(e)
    BY <2>2, <2>3 DEF SameSnapshots
  <2>. QED  BY <1>6, <2>1, <2>4, FollowedKept DEF Resolve, store
<1>7. ASSUME NEW t \in Turns, NEW c \in Conversations, BeginInstead(t, c)
      PROVE  Followed(e)'
  <2>1. Started(t, c) /\ (e # c => items'[e] = items[e] \/ items'[e] = None)
    BY <1>7, BeginIs
  <2>2. CASE e = c
    <3>1. conv'[t] = e /\ stage'[t] = "read"
      BY <2>1, <2>2 DEF Started, TurnType
    <3>. QED  BY <3>1 DEF Followed, ToBeRead
  <2>3. CASE e # c /\ items'[e] = items[e]
    <3>1. Followed(e) /\ rows'[e] = rows[e]
      BY <2>1, <2>3 DEF Started, Unexcused
    <3>2. SameSnapshots(e)
      BY <2>1, <2>3, StartKeeps
    <3>. QED  BY <2>3, <3>1, <3>2, FollowedKept
  <2>4. CASE items'[e] = None
    BY <2>4 DEF Followed, Present
  <2>. QED  BY <2>1, <2>2, <2>3, <2>4
<1>8. ASSUME NEW t \in Turns, Continue(t) PROVE Followed(e)'
  <2>1. Started(t, conv[t]) /\ (e # conv[t] => items'[e] = items[e] \/ items'[e] = None)
    BY <1>8, ContinueIs
  <2>2. CASE e = conv[t]
    <3>1. conv'[t] = e /\ stage'[t] = "read"
      BY <2>1, <2>2 DEF Started, TurnType
    <3>. QED  BY <3>1 DEF Followed, ToBeRead
  <2>3. CASE e # conv[t] /\ items'[e] = items[e]
    <3>1. Followed(e) /\ rows'[e] = rows[e]
      BY <2>1, <2>3 DEF Started, Unexcused
    <3>2. SameSnapshots(e)
      BY <2>1, <2>3, StartKeeps
    <3>. QED  BY <2>3, <3>1, <3>2, FollowedKept
  <2>4. CASE items'[e] = None
    BY <2>4 DEF Followed, Present
  <2>. QED  BY <2>1, <2>2, <2>3, <2>4
<1>9. ASSUME NEW t \in Turns, Mark(t) PROVE Followed(e)'
  <2>1. Followed(e)
    BY <1>9 DEF Unexcused, Mark, ghost
  <2>2. conv' = conv /\ stage' = [stage EXCEPT ![t] = "read"] /\ snap' = snap /\ flushSnap' = flushSnap
    BY <1>9 DEF Mark, Update
  <2>3. CASE e = conv[t]
    <3>1. conv'[t] = e /\ stage'[t] = "read"
      BY <2>2, <2>3 DEF TurnType
    <3>. QED  BY <3>1 DEF Followed, ToBeRead
  <2>4. CASE e # conv[t]
    <3>1. \A u \in Turns : u # t => flush'[u] = flush[u]
      BY <1>9 DEF Mark, TurnType
    <3>2. SameSnapshots(e)
      BY <2>2, <2>4, <3>1, UpdateKeeps
    <3>3. items'[e] = items[e] /\ rows'[e] = rows[e]
      BY <1>9, <2>4, MarkIs DEF Mark
    <3>. QED  BY <2>1, <3>2, <3>3, FollowedKept
  <2>. QED  BY <2>3, <2>4
<1>10. ASSUME NEW t \in Turns, PushDelta(t) PROVE Followed(e)'
  <2>1. Followed(e)
    BY <1>10, PushDeltaIs DEF Unexcused
  <2>2. conv' = conv /\ stage' = [stage EXCEPT ![t] = "read"] /\ snap' = snap /\ flushSnap' = flushSnap
    BY <1>10, PushDeltaIs DEF StatusOf
  <2>3. CASE e = conv[t]
    <3>1. conv'[t] = e /\ stage'[t] = "read"
      BY <2>2, <2>3 DEF TurnType
    <3>. QED  BY <3>1 DEF Followed, ToBeRead
  <2>4. CASE e # conv[t]
    <3>1. \A u \in Turns : u # t => flush'[u] = flush[u]
      BY <1>10, PushDeltaIs
    <3>2. SameSnapshots(e)
      BY <2>2, <2>4, <3>1, UpdateKeeps
    <3>3. items'[e] = items[e] /\ rows'[e] = rows[e]
      BY <1>10, <2>4, PushDeltaIs DEF StatusOf
    <3>. QED  BY <2>1, <3>2, <3>3, FollowedKept
  <2>. QED  BY <2>3, <2>4
<1>11. ASSUME NEW t \in Turns, Fail(t) PROVE Followed(e)'
  <2>1. Followed(e)
    BY <1>11, FailIs DEF Unexcused
  <2>2. conv' = conv /\ stage' = [stage EXCEPT ![t] = "read"] /\ snap' = snap /\ flushSnap' = flushSnap
    BY <1>11, FailIs DEF StatusOf
  <2>3. CASE e = conv[t]
    <3>1. conv'[t] = e /\ stage'[t] = "read"
      BY <2>2, <2>3 DEF TurnType
    <3>. QED  BY <3>1 DEF Followed, ToBeRead
  <2>4. CASE e # conv[t]
    <3>1. \A u \in Turns : u # t => flush'[u] = flush[u]
      BY <1>11, FailIs
    <3>2. SameSnapshots(e)
      BY <2>2, <2>4, <3>1, UpdateKeeps
    <3>3. items'[e] = items[e] /\ rows'[e] = rows[e]
      <4>1. rows' = rows
        BY <1>11, FailIs
      <4>2. StatusOf(t, "ended")
        BY <1>11, FailIs
      <4>. QED  BY <2>4, <4>1, <4>2 DEF StatusOf
    <3>. QED  BY <2>1, <3>2, <3>3, FollowedKept
  <2>. QED  BY <2>3, <2>4
<1>12. ASSUME NEW t \in Turns, Abandon(t) PROVE Followed(e)'
  <2>1. Followed(e)
    BY <1>12, AbandonIs DEF Unexcused
  <2>2. SameSnapshots(e)
    BY <1>12, AbandonIs DEF SameSnapshots, Released
  <2>. QED  BY <1>12, <2>1, <2>2, AbandonIs, FollowedKept
<1>13. ASSUME NEW t \in Turns, NEW thread \in BOOLEAN, Complete(t, thread)
       PROVE  Followed(e)'
  <2>1. Followed(e)
    BY <1>13, CompleteIs DEF Unexcused
  <2>2. conv' = conv /\ stage' = [stage EXCEPT ![t] = "read"] /\ snap' = snap /\ flushSnap' = flushSnap
    BY <1>13, CompleteIs
  <2>3. CASE e = conv[t]
    <3>1. conv'[t] = e /\ stage'[t] = "read"
      BY <2>2, <2>3 DEF TurnType
    <3>. QED  BY <3>1 DEF Followed, ToBeRead
  <2>4. CASE e # conv[t]
    <3>1. \A u \in Turns : u # t => flush'[u] = flush[u]
      BY <1>13, CompleteIs
    <3>2. SameSnapshots(e)
      BY <2>2, <2>4, <3>1, UpdateKeeps
    <3>3. items'[e] = items[e] /\ rows'[e] = rows[e]
      BY <1>13, <2>4, CompleteIs
    <3>. QED  BY <2>1, <3>2, <3>3, FollowedKept
  <2>. QED  BY <2>3, <2>4
<1>14. ASSUME NEW d \in Deleters, NEW c \in Conversations, Look(d, c)
       PROVE  Followed(e)'
  <2>1. Followed(e) /\ UNCHANGED turn /\ UNCHANGED header /\ items' = items /\ rows' = rows
    BY <1>14 DEF Look, Unexcused, Excuse, ghost, store
  <2>. QED  BY <2>1, DeletionKeeps, FollowedKept
<1>15. ASSUME NEW d \in Deleters, DeleteThread(d) PROVE Followed(e)'
  <2>1. Followed(e) /\ UNCHANGED turn /\ UNCHANGED header /\ items' = items /\ rows' = rows
    BY <1>15 DEF DeleteThread, Unexcused, Excuse, ghost, store
  <2>. QED  BY <2>1, DeletionKeeps, FollowedKept
<1>16. ASSUME NEW d \in Deleters, DeleteThreadFails(d) PROVE Followed(e)'
  <2>1. Followed(e) /\ UNCHANGED turn /\ UNCHANGED header /\ items' = items /\ rows' = rows
    BY <1>16 DEF DeleteThreadFails, Unexcused, Excuse, ghost, store
  <2>. QED  BY <2>1, DeletionKeeps, FollowedKept
<1>17. ASSUME NEW d \in Deleters, RemoveConversation(d) PROVE Followed(e)'
  <2>1. Followed(e) /\ UNCHANGED turn /\ UNCHANGED header /\ rows' = rows
    BY <1>17 DEF RemoveConversation, Unexcused, ghost
  <2>2. target[d] \in Conversations
    BY <1>17, DeletersTarget DEF RemoveConversation
  <2>3. CASE e = target[d]
    <3>1. items'[e] = None
      BY <1>17, <2>2, <2>3 DEF RemoveConversation, StoreOK
    <3>. QED  BY <3>1 DEF Followed, Present
  <2>4. CASE e # target[d]
    <3>1. items'[e] = items[e]
      BY <1>17, <2>2, <2>4 DEF RemoveConversation, StoreOK
    <3>. QED  BY <2>1, <3>1, DeletionKeeps, FollowedKept
  <2>. QED  BY <2>3, <2>4
<1>18. ASSUME NEW d \in Deleters, RemoveRefused(d) PROVE Followed(e)'
  <2>1. Followed(e) /\ UNCHANGED turn /\ UNCHANGED header /\ items' = items /\ rows' = rows
    BY <1>18 DEF RemoveRefused, Unexcused, Excuse, ghost, store
  <2>. QED  BY <2>1, DeletionKeeps, FollowedKept
<1>19. ASSUME NEW d \in Deleters, DeleteRow(d) PROVE Followed(e)'
  <2>1. /\ Followed(e) /\ Undisturbed(e) /\ UNCHANGED turn /\ UNCHANGED header
        /\ items' = items /\ dpc[d] = "row" /\ rows' = [rows EXCEPT ![target[d]] = None]
    BY <1>19 DEF DeleteRow, Unexcused, store
  <2>2. CASE e = target[d]
    <3>1. ~Present(e)'
      BY <2>1, <2>2 DEF Undisturbed, Present
    <3>. QED  BY <3>1 DEF Followed
  <2>3. CASE e # target[d]
    <3>1. rows'[e] = rows[e]
      BY <2>1, <2>3 DEF RestType
    <3>. QED  BY <2>1, <3>1, DeletionKeeps, FollowedKept
  <2>. QED  BY <2>2, <2>3
<1>20. ASSUME NEW d \in Deleters, DeleteRowFails(d) PROVE Followed(e)'
  <2>1. Followed(e) /\ UNCHANGED turn /\ UNCHANGED header /\ items' = items /\ rows' = rows
    BY <1>20 DEF DeleteRowFails, Unexcused, Excuse, ghost, store
  <2>. QED  BY <2>1, DeletionKeeps, FollowedKept
<1>21. CASE Restart
  <2>1. Present(e)' => items'[e] = rows'[e]
    <3>1. items'[e] = rows[e] \/ items'[e] = None
      BY <1>21, RestartIs DEF RestType
    <3>. QED  BY <1>21, <3>1 DEF Restart, Present
  <2>2. \A u \in Turns : conv'[u] # e
    BY <1>21 DEF Restart
  <2>. QED  BY <2>1, <2>2 DEF Followed, Fresh
<1>22. CASE UNCHANGED vars
  <2>1. Followed(e) /\ UNCHANGED turn /\ UNCHANGED header /\ items' = items /\ rows' = rows
    BY <1>22 DEF vars, Unexcused, ghost, store
  <2>. QED  BY <2>1, DeletionKeeps, FollowedKept
<1>. QED  BY <1>1, <1>2, <1>3, <1>4, <1>5, <1>6, <1>7, <1>8, <1>9, <1>10, <1>11,
          <1>12, <1>13, <1>14, <1>15, <1>16, <1>17, <1>18, <1>19, <1>20, <1>21, <1>22
     DEF Next, TurnStep, DeleterStep

-----------------------------------------------------------------------------
(* Threads are kept.                                                       *)

\* No snapshot of c is added.
NoNewSnapshot(c) ==
  \A t \in Turns :
    /\ (conv[t] = c /\ stage[t] = "save")' => conv[t] = c /\ stage[t] = "save" /\ snap'[t] = snap[t]
    /\ (conv[t] = c /\ flush[t] = "save")' => conv[t] = c /\ flush[t] = "save" /\ flushSnap'[t] = flushSnap[t]

LEMMA ThreadlessKept ==
  ASSUME NEW c, Threadless(c), NoNewSnapshot(c), Bare(items'[c]), Bare(rows'[c])
  PROVE  Threadless(c)'
BY DEF Threadless, NoNewSnapshot, Bare

LEMMA BareNext ==
  ASSUME NEW c, Threadless(c), items'[c] = items[c] \/ items'[c] = None, rows'[c] = rows[c] \/ rows'[c] = None
  PROVE  Bare(items'[c]) /\ Bare(rows'[c])
BY DEF Threadless, Bare

LEMMA GoesNextKept ==
  ASSUME NEW c, GoesNext(c), c \in orphaned' => c \in orphaned, Threadless(c) => Threadless(c)',
         dpc' = dpc, target' = target
  PROVE  GoesNext(c)'
BY DEF GoesNext

LEMMA ReleaseAdds ==
  ASSUME NEW t \in Turns, NEW e \in Conversations, Released(t),
         \A u \in Turns : u # t => snap'[u] = snap[u] /\ flushSnap'[u] = flushSnap[u],
         stage'[t] = "save" => stage[t] = "save" /\ snap'[t] = snap[t],
         flush'[t] = "save" => flushSnap'[t] = flushSnap[t]
  PROVE  NoNewSnapshot(e)
<1>1. conv'[t] = e => conv[t] = e
  BY ConversationsAssumption DEF Released
<1>. QED  BY <1>1 DEF Released, NoNewSnapshot

LEMMA StartAdds ==
  ASSUME TurnType, NEW t \in Turns, NEW c, NEW e, Started(t, c)
  PROVE  NoNewSnapshot(e)
BY DEF Started, NoNewSnapshot, TurnType

LEMMA UpdateAdds ==
  ASSUME TurnType, NEW t \in Turns, NEW e, conv' = conv,
         stage' = [stage EXCEPT ![t] = "read"], snap' = snap,
         \A u \in Turns : flush'[u] = "save" => flush[u] = "save", flushSnap' = flushSnap
  PROVE  NoNewSnapshot(e)
BY DEF NoNewSnapshot, TurnType

LEMMA DeletionAdds ==
  ASSUME NEW c, UNCHANGED turn, UNCHANGED header
  PROVE  NoNewSnapshot(c)
BY DEF turn, header, NoNewSnapshot

LEMMA GoesNextStep ==
  ASSUME Shape, Unexcused, [Next]_vars, NEW e \in Conversations \ excused'
  PROVE  GoesNext(e)'
<1>. StoreOK /\ TurnType /\ RestType /\ TurnShape /\ DeleterShape
  BY ShapeParts
<1>. None \notin Conversations
  BY ConversationsAssumption
<1>. Shape'
  BY ShapeStep
<1>1. ASSUME NEW t \in Turns, Read(t) PROVE GoesNext(e)'
  <2>1. GoesNext(e)
    BY <1>1, ReadIs DEF Unexcused
  <2>2. ASSUME Threadless(e) PROVE Threadless(e)'
    <3>1. Bare(items'[e]) /\ Bare(rows'[e])
      BY <1>1, <2>2, ReadIs, BareNext
    <3>2. CASE Present(conv[t]) /\ e = conv[t]
      <4>1. conv'[t] = e => Bare(snap'[t]) /\ (flush'[t] = "save" => conv[t] = e /\ flush[t] = "save")
        BY <1>1, <2>2, <3>2, ReadIs DEF Threadless, TurnType, Released
      <4>2. flushSnap' = flushSnap /\ \A u \in Turns : u # t =>
               /\ snap'[u] = snap[u] /\ conv'[u] = conv[u] /\ stage'[u] = stage[u] /\ flush'[u] = flush[u]
        BY <1>1, <3>2, ReadIs DEF TurnType, Released
      <4>. QED  BY <2>2, <3>1, <4>1, <4>2 DEF Threadless
    <3>3. CASE ~Present(conv[t]) \/ e # conv[t]
      <4>1. conv'[t] = e => conv[t] = e
        BY <1>1, ReadIs DEF Released
      <4>2. conv'[t] = e => stage'[t] # "save"
        BY <1>1, <3>3, <4>1, ReadIs
      <4>3. \A u \in Turns : u # t => snap'[u] = snap[u]
        <5>1. snap' = [snap EXCEPT ![t] = items[conv[t]]] \/ snap' = snap
          BY <1>1, ReadIs
        <5>. QED  BY <5>1 DEF TurnType
      <4>4. NoNewSnapshot(e)
        BY <1>1, <4>1, <4>2, <4>3, ReadIs DEF NoNewSnapshot, Released
      <4>. QED  BY <2>2, <3>1, <4>4, ThreadlessKept
    <3>. QED  BY <3>2, <3>3
  <2>3. dpc' = dpc /\ target' = target /\ orphaned' = orphaned
    BY <1>1, ReadIs
  <2>. QED  BY <2>1, <2>2, <2>3, GoesNextKept
<1>2. ASSUME NEW t \in Turns, Save(t) PROVE GoesNext(e)'
  <2>1. GoesNext(e)
    BY <1>2, SaveIs DEF Unexcused
  <2>2. ASSUME Threadless(e) PROVE Threadless(e)'
    <3>1. Bare(rows'[e])
      <4>1. e = conv[t] => rows'[e] = snap[t] /\ Bare(snap[t])
        BY <1>2, <2>2, SaveIs DEF RestType, Threadless
      <4>2. e # conv[t] => rows'[e] = rows[e]
        BY <1>2, SaveIs DEF RestType
      <4>. QED  BY <2>2, <4>1, <4>2 DEF Threadless
    <3>2. Bare(items'[e])
      BY <1>2, <2>2, SaveIs DEF Threadless
    <3>3. Released(t) /\ \A u \in Turns : u # t => snap'[u] = snap[u] /\ flushSnap'[u] = flushSnap[u]
      BY <1>2, SaveIs
    <3>4. /\ stage'[t] = "save" => stage[t] = "save" /\ snap'[t] = snap[t]
          /\ flush'[t] = "save" => flushSnap'[t] = flushSnap[t]
      BY <1>2, SaveIs
    <3>5. NoNewSnapshot(e)
      BY <3>3, <3>4, ReleaseAdds
    <3>. QED  BY <2>2, <3>1, <3>2, <3>5, ThreadlessKept
  <2>3. dpc' = dpc /\ target' = target /\ orphaned' = orphaned
    BY <1>2, SaveIs
  <2>. QED  BY <2>1, <2>2, <2>3, GoesNextKept
<1>3. ASSUME NEW t \in Turns, FlushHeaders(t) PROVE GoesNext(e)'
  <2>1. GoesNext(e)
    BY <1>3, FlushIs DEF Unexcused
  <2>2. ASSUME Threadless(e) PROVE Threadless(e)'
    <3>1. Bare(items'[e]) /\ Bare(rows'[e])
      BY <1>3, <2>2, FlushIs, BareNext
    <3>2. conv[t] = e /\ flush'[t] = "save" => Bare(flushSnap'[t])
      BY <1>3, <2>2, FlushIs DEF Threadless
    <3>3. /\ conv' = conv /\ stage' = stage /\ snap' = snap
          /\ \A u \in Turns : u # t => flush'[u] = flush[u] /\ flushSnap'[u] = flushSnap[u]
      BY <1>3, FlushIs
    <3>. QED  BY <2>2, <3>1, <3>2, <3>3 DEF Threadless
  <2>3. dpc' = dpc /\ target' = target /\ orphaned' = orphaned
    BY <1>3, FlushIs
  <2>. QED  BY <2>1, <2>2, <2>3, GoesNextKept
<1>4. ASSUME NEW t \in Turns, FlushSave(t) PROVE GoesNext(e)'
  <2>1. GoesNext(e)
    BY <1>4, FlushSaveIs DEF Unexcused
  <2>2. ASSUME Threadless(e) PROVE Threadless(e)'
    <3>1. Bare(rows'[e])
      <4>1. e = conv[t] => rows'[e] = flushSnap[t] /\ Bare(flushSnap[t])
        BY <1>4, <2>2, FlushSaveIs DEF RestType, Threadless
      <4>2. e # conv[t] => rows'[e] = rows[e]
        BY <1>4, FlushSaveIs DEF RestType
      <4>. QED  BY <2>2, <4>1, <4>2 DEF Threadless
    <3>2. Bare(items'[e])
      BY <1>4, <2>2, FlushSaveIs DEF Threadless
    <3>3. Released(t) /\ \A u \in Turns : u # t => snap'[u] = snap[u] /\ flushSnap'[u] = flushSnap[u]
      BY <1>4, FlushSaveIs
    <3>4. /\ stage'[t] = "save" => stage[t] = "save" /\ snap'[t] = snap[t]
          /\ flush'[t] = "save" => flushSnap'[t] = flushSnap[t]
      BY <1>4, FlushSaveIs
    <3>5. NoNewSnapshot(e)
      BY <3>3, <3>4, ReleaseAdds
    <3>. QED  BY <2>2, <3>1, <3>2, <3>5, ThreadlessKept
  <2>3. dpc' = dpc /\ target' = target /\ orphaned' = orphaned
    BY <1>4, FlushSaveIs
  <2>. QED  BY <2>1, <2>2, <2>3, GoesNextKept
<1>5. ASSUME NEW t \in Turns, NEW c \in Conversations, Begin(t, c) PROVE GoesNext(e)'
  <2>1. /\ Started(t, c) /\ items'[c] = [status |-> "running", thread |-> FALSE]
        /\ e # c => items'[e] = items[e] \/ items'[e] = None
    BY <1>5, BeginIs
  <2>2. dpc' = dpc /\ target' = target /\ orphaned' = orphaned /\ rows' = rows
    BY <2>1 DEF Started
  <2>3. CASE e \in excused
    <3>1. e = c
      BY <2>1, <2>3 DEF Started
    <3>2. ~Attended(e) /\ rows[e] = None
      BY <1>5, <2>3, <3>1, BeginIs
    <3>3. Bare(items'[e]) /\ Bare(rows'[e])
      BY <2>1, <2>2, <3>1, <3>2 DEF Bare
    <3>4. \A u \in Turns : conv'[u] = e => stage'[u] # "save" /\ flush'[u] # "save"
      BY <2>1, <3>2 DEF Started, Attended, TurnType
    <3>5. Threadless(e)'
      BY <3>3, <3>4 DEF Threadless
    <3>. QED  BY <3>5 DEF GoesNext
  <2>4. ASSUME Threadless(e) PROVE Threadless(e)'
    <3>1. Bare(items'[e])
      BY <2>1, <2>4 DEF Threadless, Bare
    <3>2. Bare(rows'[e])
      BY <2>1, <2>4 DEF Started, Threadless
    <3>. QED  BY <2>1, <2>4, <3>1, <3>2, StartAdds, ThreadlessKept
  <2>5. CASE e \notin excused
    BY <2>2, <2>4, <2>5, GoesNextKept DEF Unexcused
  <2>. QED  BY <2>3, <2>5
<1>6. ASSUME NEW t \in Turns, NEW c \in Conversations, Resolve(t, c)
      PROVE  GoesNext(e)'
  <2>1. GoesNext(e)
    BY <1>6 DEF Unexcused, Resolve, ghost
  <2>2. ASSUME Threadless(e) PROVE Threadless(e)'
    <3>1. conv[t] = None /\ stage[t] = "none" /\ flush[t] = "off"
      BY <1>6 DEF Resolve, TurnShape
    <3>2. /\ \A u \in Turns : u # t => conv'[u] = conv[u]
          /\ stage' = stage /\ snap' = snap /\ flush' = flush /\ flushSnap' = flushSnap
          /\ items' = items /\ rows' = rows
      BY <1>6 DEF Resolve, header, store, TurnType
    <3>. QED  BY <2>2, <3>1, <3>2 DEF Threadless
  <2>3. dpc' = dpc /\ target' = target /\ orphaned' = orphaned
    BY <1>6 DEF Resolve, deletion
  <2>. QED  BY <2>1, <2>2, <2>3, GoesNextKept
<1>7. ASSUME NEW t \in Turns, NEW c \in Conversations, BeginInstead(t, c)
      PROVE  GoesNext(e)'
  <2>1. /\ Started(t, c) /\ items'[c] = [status |-> "running", thread |-> FALSE]
        /\ e # c => items'[e] = items[e] \/ items'[e] = None
    BY <1>7, BeginIs
  <2>2. dpc' = dpc /\ target' = target /\ orphaned' = orphaned /\ rows' = rows
    BY <2>1 DEF Started
  <2>3. e \notin excused
    BY <1>7, BeginIs
  <2>4. ASSUME Threadless(e) PROVE Threadless(e)'
    <3>1. Bare(items'[e])
      BY <2>1, <2>4 DEF Threadless, Bare
    <3>2. Bare(rows'[e])
      BY <2>1, <2>4 DEF Started, Threadless
    <3>. QED  BY <2>1, <2>4, <3>1, <3>2, StartAdds, ThreadlessKept
  <2>. QED  BY <2>2, <2>3, <2>4, GoesNextKept DEF Unexcused
<1>8. ASSUME NEW t \in Turns, Continue(t) PROVE GoesNext(e)'
  <2>1. Started(t, conv[t])
    BY <1>8, ContinueIs
  <2>2. dpc' = dpc /\ target' = target /\ orphaned' = orphaned /\ rows' = rows
    BY <2>1 DEF Started
  <2>3. e \notin excused
    BY <1>8, ContinueIs
  <2>4. ASSUME Threadless(e) PROVE Threadless(e)'
    <3>1. Bare(items'[e])
      <4>1. CASE e = conv[t]
        BY <1>8, <2>4, <4>1, ContinueIs DEF Threadless, Bare, Present
      <4>2. CASE e # conv[t]
        BY <1>8, <2>4, <4>2, ContinueIs DEF Threadless
      <4>. QED  BY <4>1, <4>2
    <3>2. Bare(rows'[e])
      BY <2>1, <2>4 DEF Started, Threadless
    <3>. QED  BY <2>1, <2>4, <3>1, <3>2, StartAdds, ThreadlessKept
  <2>. QED  BY <2>2, <2>3, <2>4, GoesNextKept DEF Unexcused
<1>9. ASSUME NEW t \in Turns, Mark(t) PROVE GoesNext(e)'
  <2>1. GoesNext(e)
    BY <1>9 DEF Unexcused, Mark, ghost
  <2>2. conv' = conv /\ stage' = [stage EXCEPT ![t] = "read"] /\ snap' = snap /\ flushSnap' = flushSnap
    BY <1>9 DEF Mark, Update
  <2>3. \A u \in Turns : flush'[u] = "save" => flush[u] = "save"
    BY <1>9 DEF Mark, TurnType
  <2>4. ASSUME Threadless(e) PROVE Threadless(e)'
    <3>1. Bare(items'[e])
      BY <1>9, <2>4, MarkIs DEF Threadless
    <3>2. Bare(rows'[e])
      BY <1>9, <2>4 DEF Threadless, Mark
    <3>3. NoNewSnapshot(e)
      BY <2>2, <2>3, UpdateAdds
    <3>. QED  BY <2>4, <3>1, <3>2, <3>3, ThreadlessKept
  <2>5. dpc' = dpc /\ target' = target /\ orphaned' = orphaned
    BY <1>9 DEF Mark, deletion
  <2>. QED  BY <2>1, <2>4, <2>5, GoesNextKept
<1>10. ASSUME NEW t \in Turns, PushDelta(t) PROVE GoesNext(e)'
  <2>1. GoesNext(e)
    BY <1>10, PushDeltaIs DEF Unexcused
  <2>2. conv' = conv /\ stage' = [stage EXCEPT ![t] = "read"] /\ snap' = snap /\ flushSnap' = flushSnap
    BY <1>10, PushDeltaIs DEF StatusOf
  <2>3. \A u \in Turns : flush'[u] = "save" => flush[u] = "save"
    BY <1>10, PushDeltaIs
  <2>4. ASSUME Threadless(e) PROVE Threadless(e)'
    <3>1. Bare(items'[e])
      <4>1. StatusOf(t, "running")
        BY <1>10, PushDeltaIs
      <4>2. CASE e = conv[t]
        <5>1. CASE Present(e)
          BY <2>4, <4>1, <4>2, <5>1 DEF StatusOf, Threadless, Bare, Present
        <5>2. CASE ~Present(e)
          BY <4>1, <5>2 DEF StatusOf, Bare, Present
        <5>. QED  BY <5>1, <5>2
      <4>3. CASE e # conv[t]
        BY <2>4, <4>1, <4>3 DEF StatusOf, Threadless
      <4>. QED  BY <4>2, <4>3
    <3>2. Bare(rows'[e])
      BY <1>10, <2>4, PushDeltaIs DEF Threadless
    <3>3. NoNewSnapshot(e)
      BY <2>2, <2>3, UpdateAdds
    <3>. QED  BY <2>4, <3>1, <3>2, <3>3, ThreadlessKept
  <2>5. dpc' = dpc /\ target' = target /\ orphaned' = orphaned
    BY <1>10, PushDeltaIs
  <2>. QED  BY <2>1, <2>4, <2>5, GoesNextKept
<1>11. ASSUME NEW t \in Turns, Fail(t) PROVE GoesNext(e)'
  <2>1. GoesNext(e)
    BY <1>11, FailIs DEF Unexcused
  <2>2. conv' = conv /\ stage' = [stage EXCEPT ![t] = "read"] /\ snap' = snap /\ flushSnap' = flushSnap
    BY <1>11, FailIs DEF StatusOf
  <2>3. \A u \in Turns : flush'[u] = "save" => flush[u] = "save"
    BY <1>11, FailIs
  <2>4. ASSUME Threadless(e) PROVE Threadless(e)'
    <3>1. Bare(items'[e])
      <4>1. StatusOf(t, "ended")
        BY <1>11, FailIs
      <4>2. CASE e = conv[t]
        <5>1. CASE Present(e)
          BY <2>4, <4>1, <4>2, <5>1 DEF StatusOf, Threadless, Bare, Present
        <5>2. CASE ~Present(e)
          BY <4>1, <5>2 DEF StatusOf, Bare, Present
        <5>. QED  BY <5>1, <5>2
      <4>3. CASE e # conv[t]
        BY <2>4, <4>1, <4>3 DEF StatusOf, Threadless
      <4>. QED  BY <4>2, <4>3
    <3>2. Bare(rows'[e])
      BY <1>11, <2>4, FailIs DEF Threadless
    <3>3. NoNewSnapshot(e)
      BY <2>2, <2>3, UpdateAdds
    <3>. QED  BY <2>4, <3>1, <3>2, <3>3, ThreadlessKept
  <2>5. dpc' = dpc /\ target' = target /\ orphaned' = orphaned
    BY <1>11, FailIs
  <2>. QED  BY <2>1, <2>4, <2>5, GoesNextKept
<1>12. ASSUME NEW t \in Turns, Abandon(t) PROVE GoesNext(e)'
  <2>1. GoesNext(e)
    BY <1>12, AbandonIs DEF Unexcused
  <2>2. ASSUME Threadless(e) PROVE Threadless(e)'
    <3>1. Released(t) /\ snap' = snap /\ flushSnap' = flushSnap /\ stage' = stage
      BY <1>12, AbandonIs
    <3>2. items' = items /\ rows' = rows
      BY <1>12, AbandonIs
    <3>3. NoNewSnapshot(e)
      BY <3>1, ReleaseAdds
    <3>. QED  BY <2>2, <3>2, <3>3, BareNext, ThreadlessKept
  <2>3. dpc' = dpc /\ target' = target /\ orphaned' = orphaned
    BY <1>12, AbandonIs
  <2>. QED  BY <2>1, <2>2, <2>3, GoesNextKept
<1>13. ASSUME NEW t \in Turns, NEW thread \in BOOLEAN, Complete(t, thread)
       PROVE  GoesNext(e)'
  <2>1. GoesNext(e)
    BY <1>13, CompleteIs DEF Unexcused
  <2>2. conv' = conv /\ stage' = [stage EXCEPT ![t] = "read"] /\ snap' = snap /\ flushSnap' = flushSnap
    BY <1>13, CompleteIs
  <2>3. \A u \in Turns : flush'[u] = "save" => flush[u] = "save"
    BY <1>13, CompleteIs
  <2>4. CASE e = conv[t]
    BY <1>13, <2>4, CompleteIs DEF GoesNext
  <2>5. CASE e # conv[t]
    <3>1. ASSUME Threadless(e) PROVE Threadless(e)'
      <4>1. items'[e] = items[e] /\ rows'[e] = rows[e]
        BY <1>13, <2>5, CompleteIs
      <4>2. NoNewSnapshot(e)
        BY <2>2, <2>3, UpdateAdds
      <4>. QED  BY <3>1, <4>1, <4>2, BareNext, ThreadlessKept
    <3>2. dpc' = dpc /\ target' = target /\ orphaned' = orphaned \ {conv[t]}
      BY <1>13, CompleteIs
    <3>. QED  BY <2>1, <3>1, <3>2, GoesNextKept
  <2>. QED  BY <2>4, <2>5
<1>14. ASSUME NEW d \in Deleters, NEW c \in Conversations, Look(d, c)
       PROVE  GoesNext(e)'
  <2>1. GoesNext(e) /\ UNCHANGED turn /\ UNCHANGED header
    BY <1>14 DEF Look, Unexcused, Excuse, ghost
  <2>2. ASSUME Threadless(e) PROVE Threadless(e)'
    <3>1. (items'[e] = items[e] \/ items'[e] = None) /\ (rows'[e] = rows[e] \/ rows'[e] = None)
      BY <1>14, DeletersTarget DEF Look, store, StoreOK, RestType
    <3>. QED  BY <2>1, <2>2, <3>1, BareNext, DeletionAdds, ThreadlessKept
  <2>3. e \in orphaned' => e \in orphaned
    BY <1>14 DEF Look, RestType
  <2>4. \A f \in Deleters : target[f] = e /\ dpc[f] = "local" => target'[f] = e /\ dpc'[f] = "local"
    BY <1>14, ReturnIs DEF Look, RestType
  <2>. QED  BY <2>1, <2>2, <2>3, <2>4 DEF GoesNext
<1>15. ASSUME NEW d \in Deleters, DeleteThread(d) PROVE GoesNext(e)'
  <2>1. GoesNext(e) /\ UNCHANGED turn /\ UNCHANGED header
    BY <1>15 DEF DeleteThread, Unexcused, Excuse, ghost
  <2>2. ASSUME Threadless(e) PROVE Threadless(e)'
    <3>1. (items'[e] = items[e] \/ items'[e] = None) /\ (rows'[e] = rows[e] \/ rows'[e] = None)
      BY <1>15, DeletersTarget DEF DeleteThread, store, StoreOK, RestType
    <3>. QED  BY <2>1, <2>2, <3>1, BareNext, DeletionAdds, ThreadlessKept
  <2>3. CASE e = target[d]
    <3>1. target' = target /\ dpc' = [dpc EXCEPT ![d] = "local"]
      BY <1>15 DEF DeleteThread
    <3>. QED  BY <2>3, <3>1 DEF GoesNext, RestType
  <2>4. CASE e # target[d]
    <3>1. e \in orphaned' => e \in orphaned
      BY <1>15, <2>4 DEF DeleteThread
    <3>2. \A f \in Deleters : target[f] = e /\ dpc[f] = "local" => target'[f] = e /\ dpc'[f] = "local"
      BY <1>15 DEF DeleteThread, RestType
    <3>. QED  BY <2>1, <2>2, <3>1, <3>2 DEF GoesNext
  <2>. QED  BY <2>3, <2>4
<1>16. ASSUME NEW d \in Deleters, DeleteThreadFails(d) PROVE GoesNext(e)'
  <2>1. GoesNext(e) /\ UNCHANGED turn /\ UNCHANGED header
    BY <1>16 DEF DeleteThreadFails, Unexcused, Excuse, ghost
  <2>2. ASSUME Threadless(e) PROVE Threadless(e)'
    <3>1. (items'[e] = items[e] \/ items'[e] = None) /\ (rows'[e] = rows[e] \/ rows'[e] = None)
      BY <1>16, DeletersTarget DEF DeleteThreadFails, store, StoreOK, RestType
    <3>. QED  BY <2>1, <2>2, <3>1, BareNext, DeletionAdds, ThreadlessKept
  <2>3. e \in orphaned' => e \in orphaned
    BY <1>16 DEF DeleteThreadFails, RestType
  <2>4. \A f \in Deleters : target[f] = e /\ dpc[f] = "local" => target'[f] = e /\ dpc'[f] = "local"
    BY <1>16, ReturnIs DEF DeleteThreadFails, RestType
  <2>. QED  BY <2>1, <2>2, <2>3, <2>4 DEF GoesNext
<1>17. ASSUME NEW d \in Deleters, RemoveConversation(d) PROVE GoesNext(e)'
  <2>1. GoesNext(e) /\ UNCHANGED turn /\ UNCHANGED header
    BY <1>17 DEF RemoveConversation, Unexcused, Excuse, ghost
  <2>2. ASSUME Threadless(e) PROVE Threadless(e)'
    <3>1. (items'[e] = items[e] \/ items'[e] = None) /\ (rows'[e] = rows[e] \/ rows'[e] = None)
      BY <1>17, DeletersTarget DEF RemoveConversation, store, StoreOK, RestType
    <3>. QED  BY <2>1, <2>2, <3>1, BareNext, DeletionAdds, ThreadlessKept
  <2>3. CASE e = target[d]
    BY <1>17, <2>3 DEF RemoveConversation, GoesNext
  <2>4. CASE e # target[d]
    <3>1. e \in orphaned' => e \in orphaned
      BY <1>17 DEF RemoveConversation
    <3>2. \A f \in Deleters : target[f] = e /\ dpc[f] = "local" => target'[f] = e /\ dpc'[f] = "local"
      BY <1>17, <2>4 DEF RemoveConversation, RestType
    <3>. QED  BY <2>1, <2>2, <3>1, <3>2 DEF GoesNext
  <2>. QED  BY <2>3, <2>4
<1>18. ASSUME NEW d \in Deleters, RemoveRefused(d) PROVE GoesNext(e)'
  <2>1. GoesNext(e) /\ UNCHANGED turn /\ UNCHANGED header
    BY <1>18 DEF RemoveRefused, Unexcused, Excuse, ghost
  <2>2. ASSUME Threadless(e) PROVE Threadless(e)'
    <3>1. (items'[e] = items[e] \/ items'[e] = None) /\ (rows'[e] = rows[e] \/ rows'[e] = None)
      BY <1>18, DeletersTarget DEF RemoveRefused, store, StoreOK, RestType
    <3>. QED  BY <2>1, <2>2, <3>1, BareNext, DeletionAdds, ThreadlessKept
  <2>3. e \in orphaned' => e \in orphaned
    BY <1>18 DEF RemoveRefused
  <2>4. e # target[d]
    <3>1. Undisturbed(e)
      BY <1>18 DEF RemoveRefused, Excuse, Unexcused
    <3>2. ASSUME e = target[d] PROVE FALSE
      <4>1. Present(e)
        BY <1>18, <3>2 DEF RemoveRefused, Excuse
      <4>2. Running(e)
        BY <1>18, <3>2, <4>1 DEF RemoveRefused
      <4>. QED  BY <3>1, <3>2, <4>2 DEF Undisturbed, BeingDeleted
    <3>. QED  BY <3>2
  <2>5. \A f \in Deleters : target[f] = e /\ dpc[f] = "local" => target'[f] = e /\ dpc'[f] = "local"
    BY <1>18, <2>4, ReturnIs DEF RemoveRefused
  <2>. QED  BY <2>1, <2>2, <2>3, <2>5 DEF GoesNext
<1>19. ASSUME NEW d \in Deleters, DeleteRow(d) PROVE GoesNext(e)'
  <2>1. GoesNext(e) /\ UNCHANGED turn /\ UNCHANGED header
    BY <1>19 DEF DeleteRow, Unexcused, Excuse, ghost
  <2>2. ASSUME Threadless(e) PROVE Threadless(e)'
    <3>1. (items'[e] = items[e] \/ items'[e] = None) /\ (rows'[e] = rows[e] \/ rows'[e] = None)
      BY <1>19, DeletersTarget DEF DeleteRow, store, StoreOK, RestType
    <3>. QED  BY <2>1, <2>2, <3>1, BareNext, DeletionAdds, ThreadlessKept
  <2>3. e \in orphaned' => e \in orphaned
    BY <1>19 DEF DeleteRow, RestType
  <2>4. \A f \in Deleters : target[f] = e /\ dpc[f] = "local" => target'[f] = e /\ dpc'[f] = "local"
    BY <1>19, ReturnIs DEF DeleteRow, RestType
  <2>. QED  BY <2>1, <2>2, <2>3, <2>4 DEF GoesNext
<1>20. ASSUME NEW d \in Deleters, DeleteRowFails(d) PROVE GoesNext(e)'
  <2>1. GoesNext(e) /\ UNCHANGED turn /\ UNCHANGED header
    BY <1>20 DEF DeleteRowFails, Unexcused, Excuse, ghost
  <2>2. ASSUME Threadless(e) PROVE Threadless(e)'
    <3>1. (items'[e] = items[e] \/ items'[e] = None) /\ (rows'[e] = rows[e] \/ rows'[e] = None)
      BY <1>20, DeletersTarget DEF DeleteRowFails, store, StoreOK, RestType
    <3>. QED  BY <2>1, <2>2, <3>1, BareNext, DeletionAdds, ThreadlessKept
  <2>3. e \in orphaned' => e \in orphaned
    BY <1>20 DEF DeleteRowFails, RestType
  <2>4. \A f \in Deleters : target[f] = e /\ dpc[f] = "local" => target'[f] = e /\ dpc'[f] = "local"
    BY <1>20, ReturnIs DEF DeleteRowFails, RestType
  <2>. QED  BY <2>1, <2>2, <2>3, <2>4 DEF GoesNext
<1>21. CASE Restart
  <2>1. GoesNext(e) /\ ~BeingDeleted(e)
    BY <1>21 DEF Restart, Unexcused, Excuse
  <2>2. orphaned' = orphaned /\ rows' = rows
    BY <1>21 DEF Restart
  <2>3. ASSUME Threadless(e) PROVE Threadless(e)'
    <3>1. items'[e] = rows[e] \/ items'[e] = None
      BY <1>21, RestartIs DEF RestType
    <3>2. Bare(items'[e]) /\ Bare(rows'[e])
      BY <2>2, <2>3, <3>1 DEF Threadless, Bare
    <3>3. \A u \in Turns : conv'[u] # e
      BY <1>21 DEF Restart
    <3>. QED  BY <3>2, <3>3 DEF Threadless
  <2>. QED  BY <2>1, <2>2, <2>3 DEF GoesNext, BeingDeleted
<1>22. CASE UNCHANGED vars
  <2>1. GoesNext(e) /\ UNCHANGED turn /\ UNCHANGED header /\ items' = items /\ rows' = rows
    BY <1>22 DEF vars, Unexcused, ghost, store
  <2>2. Threadless(e) => Threadless(e)'
    BY <2>1, BareNext, DeletionAdds, ThreadlessKept
  <2>. QED  BY <1>22, <2>1, <2>2, GoesNextKept DEF vars, deletion
<1>. QED  BY <1>1, <1>2, <1>3, <1>4, <1>5, <1>6, <1>7, <1>8, <1>9, <1>10, <1>11,
          <1>12, <1>13, <1>14, <1>15, <1>16, <1>17, <1>18, <1>19, <1>20, <1>21, <1>22
     DEF Next, TurnStep, DeleterStep

LEMMA UnexcusedInvariant == Spec => [](Shape /\ Unexcused)
<1>1. Init => Unexcused
  BY ConversationsAssumption DEF Init, Unexcused, Undisturbed, BeingDeleted, Followed,
       GoesNext, Present
<1>2. ASSUME Shape, Unexcused, [Next]_vars PROVE Unexcused'
  BY <1>2, UndisturbedStep, FollowedStep, GoesNextStep DEF Unexcused
<1>. QED  BY <1>1, <1>2, ShapeInit, ShapeStep, PTL DEF Spec

\* A conversation nobody works on is in the table as it is in memory, however
\* many turns and header goroutines have changed it in turn.
THEOREM RowsAlwaysFollow == Spec => []RowsFollow
<1>1. ASSUME Shape, Unexcused PROVE RowsFollow
  <2> SUFFICES ASSUME NEW c \in Conversations \ excused, Present(c), ~WorkedOn(c), ~BeingFlushed(c)
               PROVE  rows[c] = items[c]
    BY DEF RowsFollow
  <2>1. Followed(c)
    BY <1>1 DEF Unexcused
  <2>2. \A t \in Turns : conv[t] = c => stage[t] = "none" /\ flush[t] # "save"
    BY <1>1, ShapeParts DEF WorkedOn, BeingFlushed, TurnShape, TurnType
  <2>. QED  BY <2>1, <2>2 DEF Followed, ToBeRead, Saving
<1>. QED  BY <1>1, UnexcusedInvariant, PTL

\* A conversation that is kept keeps its thread: Notion deletes the thread of
\* one that its deletion will then remove, whatever turns begin and end
\* meanwhile.
THEOREM ThreadsAlwaysKept == Spec => []ThreadsKept
<1>1. ASSUME Unexcused PROVE ThreadsKept
  <2> SUFFICES ASSUME NEW c \in Conversations \ excused, Present(c), items[c].thread, ~BeingDeleted(c)
               PROVE  c \notin orphaned
    BY DEF ThreadsKept
  <2>1. GoesNext(c)
    BY <1>1 DEF Unexcused
  <2>. QED  BY <2>1 DEF GoesNext, Threadless, Bare, Present, BeingDeleted
<1>. QED  BY <1>1, UnexcusedInvariant, PTL

=============================================================================
