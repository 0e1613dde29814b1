-------------------------- MODULE AccentThemeProofs --------------------------
(***************************************************************************)
(* Proofs about AccentTheme, for any number of tabs and colours and        *)
(* whatever may wait in the queues of events.  LastEventTells is inductive *)
(* together with the types; TabsAgree is what is left of it once every     *)
(* queue is empty.                                                         *)
(***************************************************************************)
EXTENDS AccentTheme, SequenceTheorems, TLAPS

LEMMA LastOfConcat ==
  ASSUME NEW S, NEW s \in Seq(S), NEW t \in Seq(S), t # <<>>
  PROVE  /\ s \o t \in Seq(S)
         /\ s \o t # <<>>
         /\ (s \o t)[Len(s \o t)] = t[Len(t)]
<1>1. Len(t) \in Nat /\ Len(t) > 0 /\ Len(s) \in Nat
  BY EmptySeq, LenProperties
<1>2. Len(s \o t) = Len(s) + Len(t) /\ s \o t \in Seq(S)
  BY ConcatProperties
<1>3. (s \o t)[Len(s) + Len(t)] = t[Len(t)]
  BY <1>1, ConcatProperties
<1>4. s \o t # <<>>
  BY <1>1, <1>2, EmptySeq
<1> QED BY <1>2, <1>3, <1>4

LEMMA LastOfRest ==
  ASSUME NEW S, NEW s \in Seq(S), NEW n \in 0 .. Len(s)
  PROVE  LET rest == SubSeq(s, n + 1, Len(s))
         IN  /\ rest \in Seq(S)
             /\ n < Len(s) => rest # <<>> /\ rest[Len(rest)] = s[Len(s)]
<1> DEFINE rest == SubSeq(s, n + 1, Len(s))
<1>1. Len(s) \in Nat /\ n \in Nat /\ n <= Len(s)
  BY LenProperties
<1>2. /\ rest \in Seq(S)
      /\ Len(rest) = IF n + 1 <= Len(s) THEN Len(s) - n ELSE 0
      /\ \A i \in 1 .. Len(s) - n : rest[i] = s[n + i]
  BY <1>1
<1>3. ASSUME n < Len(s) PROVE rest # <<>> /\ rest[Len(rest)] = s[Len(s)]
  <2>1. Len(rest) = Len(s) - n /\ Len(rest) # 0
    BY <1>1, <1>2, <1>3
  <2>2. rest[Len(s) - n] = s[n + (Len(s) - n)]
    BY <1>1, <1>2, <1>3
  <2>3. rest # <<>>
    BY <1>2, <2>1, EmptySeq
  <2> HIDE DEF rest
  <2> QED BY <1>1, <2>1, <2>2, <2>3
<1> QED BY <1>2, <1>3

(* What a task announces ends with what it leaves stored.                  *)
Tells(news, next) ==
  /\ news \in Seq(Accents)
  /\ IF news = <<>> THEN next = storedAccent ELSE news[Len(news)] = next

LEMMA AnnouncedTells ==
  ASSUME NEW next \in Accents PROVE Tells(Announced(storedAccent, next), next)
BY DEF Tells, Announced

LEMMA OpenTells ==
  ASSUME NEW next \in Accents
  PROVE  Tells(Announced(storedAccent, next) \o Announced(next, DefaultAccent)
                 \o Announced(DefaultAccent, next), next)
<1> USE AccentAssumption
<1>1. CASE next = DefaultAccent
  BY <1>1 DEF Tells, Announced
<1>2. CASE next # DefaultAccent
  <2> DEFINE news == Announced(storedAccent, next) \o Announced(next, DefaultAccent)
  <2>1. news \in Seq(Accents)
    BY DEF Announced
  <2>2. Announced(DefaultAccent, next) = <<next>>
    BY <1>2 DEF Announced
  <2>3. <<next>> \in Seq(Accents) /\ <<next>> # <<>>
    OBVIOUS
  <2>4. news \o <<next>> \in Seq(Accents)
    BY <2>1, <2>3, LastOfConcat
  <2>5. news \o <<next>> # <<>> /\ (news \o <<next>>)[Len(news \o <<next>>)] = next
    BY <2>1, <2>3, LastOfConcat
  <2> QED BY <2>2, <2>4, <2>5 DEF Tells
<1> QED BY <1>1, <1>2

(* A task of an open tab, or of one that opens, that writes a colour and   *)
(* shows it.                                                               *)
LEMMA WriteKeeps ==
  ASSUME NEW p \in Pages, NEW next \in Accents, NEW news, Tells(news, next),
         NEW queues \in [Pages -> Seq(Accents)],
         \A q \in Pages \ {p} : queues[q] = storageEvents[q],
         ThemeTypeOK, LastEventTells,
         accent' = [accent EXCEPT ![p] = next],
         listening' \subseteq Pages,
         applyAccentTheme(p, queues, next, news)
  PROVE  ThemeTypeOK' /\ LastEventTells'
<1> USE AccentAssumption
<1>1. news \in Seq(Accents)
  BY DEF Tells
<1>2. storageEvents' \in [Pages -> Seq(Accents)]
  BY <1>1, ConcatProperties DEF applyAccentTheme
<1>3. ThemeTypeOK'
  BY <1>2 DEF ThemeTypeOK, applyAccentTheme, Opened
<1>4. ASSUME NEW q \in Opened' \ missed'
      PROVE  \/ accent'[q] = storedAccent'
             \/ /\ storageEvents'[q] # <<>>
                /\ storageEvents'[q][Len(storageEvents'[q])] = storedAccent'
  <2>1. CASE q = p
    BY <2>1 DEF applyAccentTheme, ThemeTypeOK
  <2>2. ASSUME q # p
        PROVE  q \in Opened /\ accent'[q] = accent[q] /\ queues[q] = storageEvents[q]
    BY <2>2 DEF Opened, ThemeTypeOK
  <2>3. CASE q # p /\ news = <<>>
    <3>1. q \notin missed /\ storedAccent' = storedAccent
      BY <2>3 DEF applyAccentTheme, Tells
    <3>2. storageEvents'[q] = storageEvents[q]
      BY <2>2, <2>3 DEF applyAccentTheme, ThemeTypeOK, Opened
    <3> QED BY <2>2, <2>3, <3>1, <3>2 DEF LastEventTells
  <2>4. CASE q # p /\ news # <<>>
    <3>1. q \in listening \ {p}
      BY <2>2, <2>4 DEF applyAccentTheme
    <3>2. storageEvents'[q] = storageEvents[q] \o news /\ storageEvents[q] \in Seq(Accents)
      BY <2>2, <2>4, <3>1 DEF applyAccentTheme, ThemeTypeOK
    <3>3. news[Len(news)] = storedAccent'
      BY <2>4 DEF Tells, applyAccentTheme
    <3> QED BY <1>1, <2>4, <3>2, <3>3, LastOfConcat
  <2> QED BY <2>1, <2>3, <2>4
<1> QED BY <1>3, <1>4 DEF LastEventTells

LEMMA ThemeStep ==
  ASSUME ThemeTypeOK, LastEventTells, [ThemeNext]_themeVars
  PROVE  ThemeTypeOK' /\ LastEventTells'
<1> USE AccentAssumption
<1>1. ASSUME NEW p \in Pages, Open(p) PROVE ThemeTypeOK' /\ LastEventTells'
  <2>1. readStoredAccentTheme \in Accents
    BY DEF readStoredAccentTheme, ThemeTypeOK
  <2>2. listening' \subseteq Pages
    BY <1>1 DEF Open, ThemeTypeOK
  <2> QED BY <1>1, <2>1, <2>2, OpenTells, WriteKeeps DEF Open, ThemeTypeOK
<1>2. ASSUME NEW p \in Pages, Listen(p) PROVE ThemeTypeOK' /\ LastEventTells'
  BY <1>2 DEF Listen, ThemeTypeOK, LastEventTells, Opened
<1>3. ASSUME NEW p \in Pages, Close(p) PROVE ThemeTypeOK' /\ LastEventTells'
  <2>1. ThemeTypeOK'
    BY <1>3 DEF Close, ThemeTypeOK
  <2>2. ASSUME NEW q \in Opened' \ missed'
        PROVE  /\ q \in Opened \ missed /\ accent'[q] = accent[q]
               /\ storageEvents'[q] = storageEvents[q]
    BY <1>3 DEF Close, Opened, ThemeTypeOK
  <2>3. storedAccent' = storedAccent
    BY <1>3 DEF Close
  <2> QED BY <2>1, <2>2, <2>3 DEF LastEventTells
<1>4. ASSUME NEW p \in Pages, NEW n \in 0 .. Len(storageEvents[p]), NEW next \in Accents,
             Pick(p, next, n)
      PROVE  ThemeTypeOK' /\ LastEventTells'
  <2> DEFINE queues == [storageEvents EXCEPT ![p] = SubSeq(@, n + 1, Len(@))]
  <2>1. SubSeq(storageEvents[p], n + 1, Len(storageEvents[p])) \in Seq(Accents)
    BY LastOfRest DEF ThemeTypeOK
  <2>2. queues \in [Pages -> Seq(Accents)] /\ \A q \in Pages \ {p} : queues[q] = storageEvents[q]
    BY <2>1 DEF ThemeTypeOK
  <2>3. listening' \subseteq Pages
    BY <1>4 DEF Pick, ThemeTypeOK
  <2>4. /\ accent' = [accent EXCEPT ![p] = next]
        /\ applyAccentTheme(p, queues, next, Announced(storedAccent, next))
    BY <1>4 DEF Pick
  <2> HIDE DEF queues
  <2> QED BY <2>2, <2>3, <2>4, AnnouncedTells, WriteKeeps
<1>5. ASSUME NEW p \in Pages, NEW n \in 1 .. Len(storageEvents[p]), Receive(p, n)
      PROVE  ThemeTypeOK' /\ LastEventTells'
  <2> DEFINE queues == [storageEvents EXCEPT ![p] = SubSeq(@, n + 1, Len(@))]
             next == storageEvents[p][n]
             rest == SubSeq(storageEvents[p], n + 1, Len(storageEvents[p]))
  <2>1. storageEvents[p] \in Seq(Accents)
    BY DEF ThemeTypeOK
  <2>2. n \in 0 .. Len(storageEvents[p]) /\ next \in Accents
    BY <2>1, ElementOfSeq
  <2>3. /\ rest \in Seq(Accents)
        /\ n < Len(storageEvents[p]) =>
             rest # <<>> /\ rest[Len(rest)] = storageEvents[p][Len(storageEvents[p])]
    BY <2>1, <2>2, LastOfRest
  <2>4. /\ queues \in [Pages -> Seq(Accents)] /\ queues[p] = rest
        /\ \A q \in Pages \ {p} : queues[q] = storageEvents[q]
    BY <2>3 DEF ThemeTypeOK
  <2>5. listening' \subseteq Pages
    BY <1>5 DEF Receive, ThemeTypeOK
  <2>6. CASE next = accent[p]
    <3>1. storageEvents' = queues /\ UNCHANGED <<storedAccent, accent, missed, listening>>
      BY <1>5, <2>6 DEF Receive
    <3>2. ThemeTypeOK'
      BY <3>1, <2>4 DEF ThemeTypeOK
    <3>3. ASSUME NEW q \in Opened' \ missed'
          PROVE  \/ accent'[q] = storedAccent'
                 \/ /\ storageEvents'[q] # <<>>
                    /\ storageEvents'[q][Len(storageEvents'[q])] = storedAccent'
      <4>1. q \in Opened \ missed
        BY <3>1 DEF Opened
      <4>2. CASE q # p
        BY <3>1, <2>4, <4>1, <4>2 DEF LastEventTells, Opened
      <4>3. CASE q = p /\ n < Len(storageEvents[p])
        BY <3>1, <2>3, <2>4, <4>1, <4>3 DEF LastEventTells
      <4>4. CASE q = p /\ n = Len(storageEvents[p])
        BY <3>1, <2>6, <4>1, <4>4 DEF LastEventTells
      <4> QED BY <4>2, <4>3, <4>4, <2>1, <2>2, LenProperties
    <3> QED BY <3>2, <3>3 DEF LastEventTells
  <2>7. CASE next # accent[p]
    <3>1. /\ accent' = [accent EXCEPT ![p] = next]
          /\ applyAccentTheme(p, queues, next, Announced(storedAccent, next))
      BY <1>5, <2>7 DEF Receive
    <3> HIDE DEF queues, next, rest
    <3> QED BY <2>2, <2>4, <2>5, <3>1, AnnouncedTells, WriteKeeps
  <2> QED BY <2>6, <2>7
<1>6. CASE UNCHANGED themeVars
  BY <1>6 DEF themeVars, ThemeTypeOK, LastEventTells, Opened
<1> QED BY <1>1, <1>2, <1>3, <1>4, <1>5, <1>6 DEF ThemeNext

LEMMA ThemeStart == ASSUME ThemeInit PROVE ThemeTypeOK /\ LastEventTells
BY AccentAssumption DEF ThemeInit, ThemeTypeOK, LastEventTells, Opened

(* Every variable keeps its type, however many events wait.                *)
THEOREM ThemeTypeCorrect == ThemeSpec => []ThemeTypeOK
<1>1. ThemeSpec => [](ThemeTypeOK /\ LastEventTells)
  BY ThemeStart, ThemeStep, PTL DEF ThemeSpec
<1> QED BY <1>1, PTL

(* A tab that shows another colour than the stored one has the event that  *)
(* tells it last in its queue, unless no event could reach it.             *)
THEOREM LastEventAlwaysTells == ThemeSpec => []LastEventTells
<1>1. ThemeSpec => [](ThemeTypeOK /\ LastEventTells)
  BY ThemeStart, ThemeStep, PTL DEF ThemeSpec
<1> QED BY <1>1, PTL

LEMMA QuietTabsAgree == ASSUME LastEventTells PROVE TabsAgree
BY DEF LastEventTells, TabsAgree, Opened

(* Once all events are rendered, all tabs that events could reach show the *)
(* stored colour.                                                          *)
THEOREM TabsAlwaysAgree == ThemeSpec => []TabsAgree
BY LastEventAlwaysTells, QuietTabsAgree, PTL

=============================================================================
