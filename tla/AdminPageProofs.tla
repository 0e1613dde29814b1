--------------------------- MODULE AdminPageProofs ---------------------------
(***************************************************************************)
(* Proofs about the administration page, for any tabs, colours,            *)
(* conversations, ids and addresses, and whatever the bounds of the runs.  *)
(* A step of the page is a step of one part and leaves the others alone,   *)
(* so what is invariant in a part is invariant in the page.                *)
(***************************************************************************)
EXTENDS AdminPage, AccentThemeProofs, SettingsFormProofs, FiniteSetTheorems

LEMMA PageStep ==
  ASSUME [Next]_vars
  PROVE  /\ [ThemeNext]_themeVars /\ [ConsoleNext]_consoleVars
         /\ [TesterNext]_testerVars /\ [AccountsNext]_accountsVars
BY DEF Next, vars, InTheme, InConversations, InTester, InSettings, InAccounts

(* On the page, too, the tabs that events can reach show the stored colour *)
(* once they have rendered what they were sent.                            *)
THEOREM PageTabsAgree == Spec => []TabsAgree
<1>1. Spec => ThemeSpec
  BY PageStep, PTL DEF Spec, Init, ThemeSpec
<1> QED BY <1>1, TabsAlwaysAgree, PTL

----------------------------------------------------------------------------
(* The console.  Signed out, only the replies of calls that were under way *)
(* change what is shown, and each of them marks the page as late; the      *)
(* stream is closed with the session, so no event is handled.              *)

LEMMA ClearedStep ==
  ASSUME ClearedAfterLogout, [ConsoleNext]_consoleVars
  PROVE  ClearedAfterLogout'
<1> USE DEF ClearedAfterLogout
<1>1. ASSUME NEW c \in Threads, NEW reaches \in BOOLEAN, Publish(c, reaches)
      PROVE  ClearedAfterLogout'
  BY <1>1 DEF Publish, cache
<1>2. ASSUME NEW c \in Threads, OthersDelete(c) \/ selectConversation(c)
      PROVE  ClearedAfterLogout'
  BY <1>2 DEF OthersDelete, selectConversation, unaffected, server, cache, stream
<1>3. CASE SessionEnds
  BY <1>3 DEF SessionEnds, cache, stream
<1>4. CASE StreamBreaks
  BY <1>4 DEF StreamBreaks, cache
<1>5. CASE handleEvent
  BY <1>5 DEF handleEvent
<1>6. CASE refreshAll \/ login \/ logout \/ refreshConversations
  BY <1>6 DEF refreshAll, login, logout, refreshConversations, unaffected, cache, stream
<1>7. ASSUME NEW D \in SUBSET Threads, deleteConversations(D) PROVE ClearedAfterLogout'
  BY <1>7 DEF deleteConversations, unaffected, cache, stream
<1>8. ASSUME NEW x \in calls,
             \/ ServeLogin(x) \/ ServeLogout(x) \/ ServeSession(x) \/ ServeBundle(x)
             \/ \E done \in SUBSET Threads : ServeDeletion(x, done)
             \/ ServeList(x) \/ ServeDetail(x) \/ CallFails(x)
      PROVE  ClearedAfterLogout'
  BY <1>8 DEF ServeLogin, ServeLogout, ServeSession, ServeBundle, ServeDeletion, Remove,
              ServeList, ServeDetail, CallFails, page, cache, stream
<1>9. ASSUME NEW x \in calls, ShowSignedIn(x) \/ ShowSignedOut(x)
      PROVE  ClearedAfterLogout'
  BY <1>9 DEF ShowSignedIn, ShowSignedOut
<1>10. ASSUME NEW x \in calls, ShowBundle(x) \/ ShowList(x) \/ ShowDetail(x)
       PROVE  ClearedAfterLogout'
  BY <1>10 DEF ShowBundle, ShowList, ShowDetail, cache, stream
<1>11. ASSUME NEW x \in calls, ShowDeleted(x) PROVE ClearedAfterLogout'
  BY <1>11 DEF ShowDeleted, stream, None
<1>12. CASE UNCHANGED consoleVars
  BY <1>12 DEF consoleVars, cache, stream
<1> QED BY <1>1, <1>2, <1>3, <1>4, <1>5, <1>6, <1>7, <1>8, <1>9, <1>10, <1>11, <1>12
        DEF ConsoleNext

(* A page that learned it is signed out has closed its stream, and shows   *)
(* nothing but what calls begun before bring late.                         *)
THEOREM PageIsCleared == Spec => []ClearedAfterLogout
<1>1. Init => ClearedAfterLogout
  BY DEF Init, ConsoleInit, ClearedAfterLogout
<1> QED BY <1>1, PageStep, ClearedStep, PTL DEF Spec

----------------------------------------------------------------------------
(* The console: its types.  A list that is not empty has a latest change,  *)
(* as the stamps are bounded.                                              *)

Replies == [at : Stages, ids : SUBSET Threads, signedIn : BOOLEAN,
            items : Stamps, sure : SUBSET Threads]

Events == [id : Threads, at : 1..MaxStamp]

LEMMA LatestExists ==
  ASSUME NEW list \in Stamps, Threads # {}
  PROVE  \E c \in Threads : \A d \in Threads : list[d] <= list[c]
<1> USE ConsoleAssumption
<1> DEFINE T == {MaxStamp - list[c] : c \in Threads}
<1>1. T \subseteq Nat /\ T # {}
  BY DEF Stamps
<1>2. PICK x \in T : \A y \in T : ~ (<<y, x>> \in OpToRel(<, Nat))
  <2> HIDE DEF T
  <2> QED BY <1>1, NatLessThanWellFounded, WFMin
<1>3. \A y \in T : ~ (y < x)
  BY <1>1, <1>2 DEF OpToRel
<1>4. PICK c \in Threads : x = MaxStamp - list[c]
  OBVIOUS
<1>5. ASSUME NEW d \in Threads PROVE list[d] <= list[c]
  <2>1. ~ (MaxStamp - list[d] < MaxStamp - list[c])
    BY <1>3, <1>4
  <2> QED BY <2>1 DEF Stamps
<1> QED BY <1>5

LEMMA FirstType ==
  ASSUME NEW list \in Stamps
  PROVE  /\ firstOf(list) \in Threads \cup {NoThread}
         /\ firstOf(list) # NoThread => firstOf(list) \in Threads
<1>1. CASE list = None
  BY <1>1 DEF firstOf
<1>2. CASE list # None
  <2>1. Threads # {}
    BY <1>2 DEF Stamps, None
  <2>2. firstOf(list) \in Threads
    BY <1>2, <2>1, LatestExists DEF firstOf
  <2> QED BY <2>2
<1> QED BY <1>1, <1>2

LEMMA NoneIsStamps == None \in Stamps
BY ConsoleAssumption DEF None, Stamps

LEMMA CallType ==
  ASSUME NEW at \in Stages, NEW ids \in SUBSET Threads
  PROVE  /\ Call(at, ids) \in Replies
         /\ Call(at, ids).sure = {} /\ Call(at, ids).at = at
BY NoneIsStamps DEF Call, Replies

LEMMA DisturbedType ==
  ASSUME NEW cs \in SUBSET Replies, NEW D
  PROVE  /\ Disturbed(cs, D) \subseteq Replies
         /\ \A y \in Disturbed(cs, D) :
              \E x \in cs : /\ y.sure = x.sure \ D /\ y.items = x.items
                            /\ y.at = x.at /\ y.ids = x.ids
<1>1. ASSUME NEW x \in cs
      PROVE  LET y == [x EXCEPT !.sure = @ \ D]
             IN  /\ y \in Replies /\ y.sure = x.sure \ D /\ y.items = x.items
                 /\ y.at = x.at /\ y.ids = x.ids
  BY DEF Replies
<1> QED BY <1>1 DEF Disturbed

LEMMA SettleType ==
  ASSUME NEW list \in Stamps, NEW details \in Stamps,
         NEW selected \in Threads \cup {NoThread}, NEW cs \in SUBSET Replies,
         Settle(list, details, selected, cs)
  PROVE  /\ conversations' = list /\ conversationDetails' = details
         /\ selectedConversationId' \in Threads \cup {NoThread}
         /\ calls' \subseteq Replies
         /\ \A y \in calls' : y \in cs \/ (y.sure = {} /\ y.at = "detail")
<1> DEFINE first == firstOf(list)
<1>1. first \in Threads \cup {NoThread} /\ (first # NoThread => {first} \in SUBSET Threads)
  BY FirstType
<1> HIDE DEF first
<1>2. "detail" \in Stages
  BY DEF Stages
<1>3. first # NoThread => /\ Call("detail", {first}) \in Replies
                          /\ Call("detail", {first}).sure = {}
                          /\ Call("detail", {first}).at = "detail"
  BY <1>1, <1>2, CallType
<1>4. /\ conversations' = list /\ conversationDetails' = details
      /\ selectedConversationId' \in {selected, first}
      /\ calls' \in {cs, cs \cup {Call("detail", {first})}}
      /\ first = NoThread => calls' = cs
  BY DEF Settle, first
<1> QED BY <1>1, <1>3, <1>4

LEMMA ClickType ==
  ASSUME ConsoleTypeOK, NEW x \in Replies, Click(x)
  PROVE  calls' \subseteq Replies /\ clicks' \in 0..MaxClicks
BY ConsoleAssumption DEF Click, ConsoleTypeOK, Replies

LEMMA GoesOnType ==
  ASSUME ConsoleTypeOK, NEW x, NEW y \in Replies, GoesOn(x, y)
  PROVE  calls' \subseteq Replies
BY DEF GoesOn, ConsoleTypeOK, Replies

LEMMA EventsAre ==
  ASSUME NEW s \in Seq(Events)
  PROVE  DOMAIN s = 1..Len(s) /\ Len(s) \in Nat /\ \A i \in DOMAIN s : s[i] \in Events
BY ElementOfSeq, LenProperties

LEMMA ConsoleTypesStep ==
  ASSUME ConsoleTypeOK, [ConsoleNext]_consoleVars PROVE ConsoleTypeOK'
<1> USE ConsoleAssumption
<1>a. ConsoleTypeOK
  OBVIOUS
<1>b. calls \subseteq Replies /\ sse \in Seq(Events)
  BY DEF ConsoleTypeOK, Replies, Events
<1>c. \A at \in Stages, ids \in SUBSET Threads : Call(at, ids) \in Replies
  BY CallType
<1>d. /\ calls' \subseteq Replies /\ sse' \in Seq(Events)
      /\ session' \in BOOLEAN
      /\ updatedAt' \in Stamps /\ deleted' \subseteq Threads /\ clock' \in 0..MaxStamp
      /\ verify' \in {"unknown", "in", "out"}
      /\ payloads' \in BOOLEAN
      /\ conversations' \in Stamps /\ conversationDetails' \in Stamps
      /\ selectedConversationId' \in Threads \cup {NoThread}
      /\ eventSource' \in {"none", "open", "dead"}
      /\ behind' \subseteq Threads /\ unsure' \subseteq Threads
      /\ late' \in BOOLEAN
      /\ clicks' \in 0..MaxClicks
      => ConsoleTypeOK'
  BY DEF ConsoleTypeOK, Replies, Events
<1>e. Waiting \subseteq Threads
  BY <1>b, EventsAre DEF Waiting, Events
<1>f. clicks < MaxClicks => clicks + 1 \in 0..MaxClicks
  BY DEF ConsoleTypeOK
<1>1. ASSUME NEW c \in Threads, NEW reaches \in BOOLEAN, Publish(c, reaches)
      PROVE  ConsoleTypeOK'
  <2>1. clock' \in 1..MaxStamp /\ updatedAt' \in Stamps
    BY <1>1 DEF Publish, ConsoleTypeOK, Stamps
  <2>2. sse' \in Seq(Events)
    <3>1. [id |-> c, at |-> clock'] \in Events
      BY <2>1 DEF Events
    <3> QED BY <1>1, <1>b, <3>1, AppendProperties DEF Publish
  <2>3. calls' \subseteq Replies /\ behind' \subseteq Threads /\ unsure' \subseteq Threads
    <3>1. Disturbed(calls, {c}) \subseteq Replies
      BY <1>b, DisturbedType
    <3> QED BY <1>1, <1>b, <3>1 DEF Publish, ConsoleTypeOK
  <2> QED BY <1>1, <1>d, <2>1, <2>2, <2>3 DEF Publish, ConsoleTypeOK, cache
<1>2. ASSUME NEW D \in SUBSET Threads, Remove(D)
      PROVE  updatedAt' \in Stamps /\ deleted' \subseteq Threads /\ behind' \subseteq Threads
  BY <1>2 DEF Remove, ConsoleTypeOK, Stamps
<1>3. ASSUME NEW c \in Threads, OthersDelete(c) PROVE ConsoleTypeOK'
  <2>1. updatedAt' \in Stamps /\ deleted' \subseteq Threads /\ behind' \subseteq Threads
    BY <1>2, <1>3 DEF OthersDelete
  <2>2. calls' \subseteq Replies
    BY <1>3, <1>b, DisturbedType DEF OthersDelete
  <2> QED BY <1>3, <1>b, <1>d, <1>f, <2>1, <2>2 DEF OthersDelete, ConsoleTypeOK, cache, stream
<1>4. ASSUME NEW c \in Threads, selectConversation(c) PROVE ConsoleTypeOK'
  <2>1. calls' \subseteq Replies /\ clicks' \in 0..MaxClicks
    <3>1. Call("detail", {c}) \in Replies
      BY <1>c DEF Stages
    <3> QED BY <1>4, <1>b, <3>1, ClickType DEF selectConversation, ConsoleTypeOK
  <2> QED BY <1>4, <1>b, <1>d, <2>1 DEF selectConversation, ConsoleTypeOK, unaffected,
                                        server, stream
<1>5. CASE SessionEnds
  BY <1>5, <1>b, <1>d, <1>f DEF SessionEnds, ConsoleTypeOK, cache, stream
<1>6. CASE StreamBreaks
  <2>1. calls' \subseteq Replies /\ sse' \in Seq(Events)
    BY <1>6, <1>b, DisturbedType, EmptySeq DEF StreamBreaks
  <2> QED BY <1>6, <1>d, <1>e, <2>1 DEF StreamBreaks, ConsoleTypeOK, server, cache
<1>7. CASE handleEvent
  <2> DEFINE c == Head(sse).id
             list == [conversations EXCEPT ![c] = Head(sse).at]
             details == [conversationDetails EXCEPT ![c] = Head(sse).at]
             selected == IF selectedConversationId = NoThread THEN c ELSE selectedConversationId
             cs == Disturbed(calls, {c})
  <2>1. Head(sse) \in Events /\ sse' \in Seq(Events)
    BY <1>7, <1>b, HeadTailProperties DEF handleEvent
  <2>2. /\ c \in Threads /\ list \in Stamps /\ details \in Stamps
        /\ selected \in Threads \cup {NoThread}
    BY <2>1 DEF Events, ConsoleTypeOK, Stamps
  <2>3. cs \in SUBSET Replies
    BY <1>b, DisturbedType
  <2>4. Settle(list, details, selected, cs)
    BY <1>7 DEF handleEvent
  <2> HIDE DEF list, details, selected, cs
  <2>5. /\ conversations' \in Stamps /\ conversationDetails' \in Stamps
        /\ selectedConversationId' \in Threads \cup {NoThread} /\ calls' \subseteq Replies
    BY <2>2, <2>3, <2>4, SettleType
  <2> QED BY <1>7, <1>d, <2>1, <2>5 DEF handleEvent, ConsoleTypeOK, server
<1>8. CASE refreshAll \/ login \/ logout \/ refreshConversations
  <2>1. calls' \subseteq Replies /\ clicks' \in 0..MaxClicks
    <3>1. \A at \in {"verify", "login", "logout", "list"} : Call(at, {}) \in Replies
      BY <1>c DEF Stages
    <3> QED BY <1>8, <3>1, ClickType DEF refreshAll, login, logout, refreshConversations
  <2> QED BY <1>8, <1>b, <1>d, <2>1 DEF refreshAll, login, logout, refreshConversations,
                                        ConsoleTypeOK, unaffected, server, cache, stream
<1>9. ASSUME NEW D \in SUBSET Threads, deleteConversations(D) PROVE ConsoleTypeOK'
  <2>1. calls' \subseteq Replies /\ clicks' \in 0..MaxClicks
    <3>1. Call("delete", D) \in Replies
      BY <1>c DEF Stages
    <3> QED BY <1>9, <3>1, ClickType DEF deleteConversations
  <2> QED BY <1>9, <1>b, <1>d, <2>1 DEF deleteConversations, ConsoleTypeOK, unaffected,
                                        server, cache, stream
<1>10. ASSUME NEW x \in calls, ServeLogin(x) \/ ServeLogout(x) PROVE ConsoleTypeOK'
  <2>1. calls' \subseteq Replies
    <3>1. Call("verify", {}) \in Replies
      BY <1>c DEF Stages
    <3> QED BY <1>10, <3>1, GoesOnType DEF ServeLogin, ServeLogout
  <2> QED BY <1>10, <1>b, <1>d, <2>1 DEF ServeLogin, ServeLogout, ConsoleTypeOK, page,
                                         cache, stream
<1>11. ASSUME NEW x \in calls,
              ServeSession(x) \/ ServeBundle(x) \/ ServeList(x) \/ ServeDetail(x) \/ CallFails(x)
       PROVE  ConsoleTypeOK'
  <2>1. x \in Replies
    BY <1>b
  <2>2. calls' \subseteq Replies
    <3>1. CASE ServeSession(x)
      <4>1. [x EXCEPT !.at = "verified", !.signedIn = session] \in Replies
        BY <2>1 DEF Replies, Stages, ConsoleTypeOK
      <4> QED BY <3>1, <4>1, GoesOnType DEF ServeSession
    <3>2. CASE ServeBundle(x)
      <4>1. [x EXCEPT !.at = "bundled"] \in Replies
        BY <2>1 DEF Replies, Stages
      <4> QED BY <3>2, <4>1, GoesOnType DEF ServeBundle
    <3>3. CASE ServeList(x)
      <4>1. [x EXCEPT !.at = "listed", !.items = updatedAt,
                      !.sure = Threads \ Outdated] \in Replies
        BY <2>1 DEF Replies, Stages, ConsoleTypeOK
      <4> QED BY <3>3, <4>1, GoesOnType DEF ServeList
    <3>4. CASE ServeDetail(x)
      <4> DEFINE items1 == [c \in Threads |-> IF c \in x.ids THEN updatedAt[c] ELSE 0]
      <4>1. items1 \in Stamps
        BY DEF ConsoleTypeOK, Stamps
      <4> HIDE DEF items1
      <4>2. [x EXCEPT !.at = "detailed", !.sure = x.ids \ Outdated, !.items = items1] \in Replies
        BY <2>1, <4>1 DEF Replies, Stages
      <4> QED BY <3>4, <4>2, GoesOnType DEF ServeDetail, items1
    <3>5. CASE CallFails(x)
      BY <3>5, <1>b DEF CallFails
    <3> QED BY <1>11, <3>1, <3>2, <3>3, <3>4, <3>5
  <2> QED BY <1>11, <1>b, <1>d, <2>2 DEF ServeSession, ServeBundle, ServeList, ServeDetail,
                                CallFails, ConsoleTypeOK, page, server, cache, stream
<1>12. ASSUME NEW x \in calls, NEW done \in SUBSET Threads, ServeDeletion(x, done)
       PROVE  ConsoleTypeOK'
  <2>1. updatedAt' \in Stamps /\ deleted' \subseteq Threads /\ behind' \subseteq Threads
    BY <1>2, <1>12 DEF ServeDeletion
  <2>2. calls' \subseteq Replies
    <3>1. [x EXCEPT !.at = "deleted"] \in Replies
      BY <1>b DEF Replies, Stages
    <3>2. calls \ {x} \in SUBSET Replies
      BY <1>b
    <3> QED BY <1>12, <3>1, <3>2, DisturbedType DEF ServeDeletion
  <2> QED BY <1>12, <1>b, <1>d, <2>1, <2>2 DEF ServeDeletion, ConsoleTypeOK, page, cache, stream
<1>13. ASSUME NEW x \in calls, ShowSignedIn(x) \/ ShowBundle(x) \/ ShowDeleted(x)
       PROVE  ConsoleTypeOK'
  <2>1. calls' \subseteq Replies
    <3>1. Call("bundle", {}) \in Replies /\ Call("list", {}) \in Replies
      BY <1>c DEF Stages
    <3> QED BY <1>13, <3>1, GoesOnType DEF ShowSignedIn, ShowBundle, ShowDeleted
  <2>2. ShowDeleted(x) => conversationDetails' \in Stamps
    BY DEF ShowDeleted, ConsoleTypeOK, Stamps
  <2> QED BY <1>13, <1>b, <1>d, <2>1, <2>2 DEF ShowSignedIn, ShowBundle, ShowDeleted,
                                       ConsoleTypeOK, server, cache, stream
<1>14. ASSUME NEW x \in calls, ShowSignedOut(x) PROVE ConsoleTypeOK'
  <2>1. calls' \subseteq Replies /\ sse' \in Seq(Events)
    <3>1. calls \ {x} \in SUBSET Replies
      BY <1>b
    <3> QED BY <1>14, <3>1, DisturbedType, EmptySeq DEF ShowSignedOut
  <2> QED BY <1>14, <1>d, <2>1, NoneIsStamps DEF ShowSignedOut, ConsoleTypeOK, server
<1>15. ASSUME NEW x \in calls, ShowList(x) PROVE ConsoleTypeOK'
  <2> DEFINE keep == selectedConversationId # NoThread /\ x.items[selectedConversationId] # 0
             target == IF keep THEN selectedConversationId ELSE firstOf(x.items)
             cs == (calls \ {x}) \cup IF target = NoThread THEN {}
                                      ELSE {Call("detail", {target})}
  <2>1. x.items \in Stamps /\ x.sure \subseteq Threads
    BY <1>b DEF Replies
  <2>2. target \in Threads \cup {NoThread}
    BY <2>1, FirstType DEF ConsoleTypeOK
  <2> HIDE DEF target
  <2>3. target # NoThread => Call("detail", {target}) \in Replies
    BY <1>c, <2>2 DEF Stages
  <2>4. cs \in SUBSET Replies
    BY <1>b, <2>3
  <2>5. Settle(x.items, conversationDetails, target, cs)
    BY <1>15 DEF ShowList, target
  <2>6. conversationDetails \in Stamps
    BY DEF ConsoleTypeOK
  <2> HIDE DEF cs
  <2>7. /\ conversations' \in Stamps /\ conversationDetails' \in Stamps
        /\ selectedConversationId' \in Threads \cup {NoThread} /\ calls' \subseteq Replies
    BY <2>1, <2>2, <2>4, <2>5, <2>6, SettleType
  <2> QED BY <1>15, <1>b, <1>d, <2>1, <2>7 DEF ShowList, ConsoleTypeOK, server, stream
<1>16. ASSUME NEW x \in calls, ShowDetail(x) PROVE ConsoleTypeOK'
  <2>1. x \in Replies
    BY <1>b
  <2>2. conversationDetails' \in Stamps /\ unsure' \subseteq Threads /\ calls' \subseteq Replies
    BY <1>16, <1>b, <2>1 DEF ShowDetail, ConsoleTypeOK, Stamps, Replies
  <2> QED BY <1>16, <1>b, <1>d, <2>2 DEF ShowDetail, ConsoleTypeOK, server, stream
<1>17. CASE UNCHANGED consoleVars
  BY <1>17 DEF consoleVars, ConsoleTypeOK, server, cache, stream
<1> QED BY <1>1, <1>3, <1>4, <1>5, <1>6, <1>7, <1>8, <1>9, <1>10, <1>11, <1>12, <1>13,
           <1>14, <1>15, <1>16, <1>17 DEF ConsoleNext

LEMMA ConsoleTypesInit == ASSUME ConsoleInit PROVE ConsoleTypeOK
<1>1. Call("verify", {}) \in Replies
  BY CallType DEF Stages
<1>2. calls \subseteq Replies
  BY <1>1 DEF ConsoleInit
<1>3. sse \in Seq([id : Threads, at : 1..MaxStamp])
  BY EmptySeq DEF ConsoleInit
<1>4. /\ session \in BOOLEAN /\ updatedAt \in Stamps /\ deleted \subseteq Threads
      /\ clock \in 0..MaxStamp /\ verify \in {"unknown", "in", "out"} /\ payloads \in BOOLEAN
      /\ conversations \in Stamps /\ conversationDetails \in Stamps
      /\ selectedConversationId \in Threads \cup {NoThread}
      /\ eventSource \in {"none", "open", "dead"}
      /\ behind \subseteq Threads /\ unsure \subseteq Threads /\ late \in BOOLEAN
      /\ clicks \in 0..MaxClicks
  <2>1. /\ session \in BOOLEAN /\ updatedAt = None /\ deleted = {} /\ clock = 0
        /\ verify = "unknown" /\ payloads = FALSE
        /\ conversations = None /\ conversationDetails = None
        /\ selectedConversationId = NoThread /\ eventSource = "none"
        /\ behind = Threads /\ unsure = {} /\ late = FALSE /\ clicks = 0
    BY Zenon DEF ConsoleInit
  <2>2. session \in BOOLEAN /\ payloads \in BOOLEAN /\ late \in BOOLEAN
    BY <2>1, Zenon
  <2>3. clock \in 0..MaxStamp /\ clicks \in 0..MaxClicks
    BY <2>1, ConsoleAssumption
  <2> QED BY <2>1, <2>2, <2>3, NoneIsStamps, Zenon
<1> QED BY <1>2, <1>3, <1>4 DEF ConsoleTypeOK, Replies

----------------------------------------------------------------------------
(* The view.  Where the page is not behind, what it shows of a             *)
(* conversation is what the server has, or will be once the events on      *)
(* their way are handled; a reply knows that of the conversations it is    *)
(* sure of, whatever overtakes it.                                         *)

Agrees(stamp, c) == IF c \in Waiting THEN c \notin Outdated ELSE stamp = updatedAt[c]

(* A detail may also be missing.                                           *)
DetailAgrees(stamp, c) ==
  IF c \in Waiting THEN c \notin Outdated ELSE stamp \in {0, updatedAt[c]}

ReplyAgrees(x) ==
  /\ x.at \notin {"listed", "detailed"} => x.sure = {}
  /\ x.at = "detailed" => x.sure \subseteq x.ids
  /\ \A c \in x.sure : Agrees(x.items[c], c)

ViewInv ==
  /\ \A c \in deleted : updatedAt[c] = 0
  /\ \A c \in Threads \ behind : Agrees(conversations[c], c)
  /\ \A c \in Threads \ (unsure \cup deleted) : DetailAgrees(conversationDetails[c], c)
  /\ \A x \in calls : ReplyAgrees(x)

(* Nothing happens, on the server or to the events, but to those of D.     *)
Quiet(D) ==
  \A c \in Threads \ D :
    /\ c \in Waiting' <=> c \in Waiting
    /\ c \in Outdated' => c \in Outdated
    /\ updatedAt'[c] = updatedAt[c]

AgreesNext(stamp, c) ==
  IF c \in Waiting' THEN c \notin Outdated' ELSE stamp = updatedAt'[c]

DetailAgreesNext(stamp, c) ==
  IF c \in Waiting' THEN c \notin Outdated' ELSE stamp \in {0, updatedAt'[c]}

LEMMA SameEvents ==
  ASSUME NEW D, sse' = sse, \A c \in Threads \ D : updatedAt'[c] = updatedAt[c]
  PROVE  Quiet(D)
<1>1. Waiting' = Waiting
  BY DEF Waiting
<1>2. ASSUME NEW c \in Threads \ D, c \in Outdated' PROVE c \in Outdated
  BY <1>2 DEF Outdated
<1> QED BY <1>1, <1>2 DEF Quiet

LEMMA NoEvents ==
  ASSUME sse' = <<>>, updatedAt' = updatedAt
  PROVE  Quiet(Waiting) /\ Waiting' = {} /\ Outdated' = {}
<1>1. DOMAIN sse' = {}
  OBVIOUS
<1>2. Waiting' = {} /\ Outdated' = {}
  BY <1>1 DEF Waiting, Outdated
<1> QED BY <1>2 DEF Quiet

LEMMA EventSent ==
  ASSUME ConsoleTypeOK, NEW c \in Threads, NEW at \in 1..MaxStamp,
         sse' = Append(sse, [id |-> c, at |-> at]),
         updatedAt' = [updatedAt EXCEPT ![c] = at]
  PROVE  Quiet({c}) /\ c \in Waiting' /\ c \notin Outdated'
<1> DEFINE e == [id |-> c, at |-> at]
           n == Len(sse)
<1>1. sse \in Seq(Events) /\ e \in Events
  BY DEF ConsoleTypeOK, Events
<1>2. /\ n \in Nat /\ DOMAIN sse = 1..n
      /\ DOMAIN sse' = 1..(n + 1) /\ sse'[n + 1] = e
      /\ \A i \in 1..n : sse'[i] = sse[i]
  <2>1. sse' = Append(sse, e)
    OBVIOUS
  <2> HIDE DEF e
  <2> QED BY <1>1, <2>1, AppendProperties, EventsAre
<1>3. /\ updatedAt'[c] = at /\ \A d \in Threads : d # c => updatedAt'[d] = updatedAt[d]
  BY DEF ConsoleTypeOK, Stamps
<1>4. e.id = c /\ e.at = at
  OBVIOUS
<1> HIDE DEF e, n
<1>5. c \in Waiting' /\ c \notin Outdated'
  BY <1>2, <1>3, <1>4 DEF Waiting, Outdated
<1>6. ASSUME NEW d \in Threads \ {c}
      PROVE  (d \in Waiting' <=> d \in Waiting) /\ (d \in Outdated' => d \in Outdated)
  <2>1. \A i \in 1..(n + 1) : sse'[i].id = d => i \in 1..n
    BY <1>2, <1>4
  <2>2. d \in Waiting' <=> d \in Waiting
    BY <1>2, <2>1 DEF Waiting
  <2>3. ASSUME d \in Outdated' PROVE d \in Outdated
    <3>1. PICK i \in DOMAIN sse' :
            /\ sse'[i].id = d /\ sse'[i].at # updatedAt'[d]
            /\ \A j \in DOMAIN sse' : sse'[j].id = d => j <= i
      BY <2>3 DEF Outdated
    <3>2. i \in 1..n /\ sse[i].id = d /\ sse[i].at # updatedAt[d]
      BY <1>2, <1>3, <2>1, <3>1
    <3>3. \A j \in 1..n : sse[j].id = d => j <= i
      BY <1>2, <3>1
    <3> QED BY <1>2, <3>2, <3>3 DEF Outdated
  <2> QED BY <2>2, <2>3
<1> QED BY <1>3, <1>5, <1>6 DEF Quiet

LEMMA EventHandled ==
  ASSUME ConsoleTypeOK, sse # <<>>, sse' = Tail(sse), updatedAt' = updatedAt
  PROVE  LET c == Head(sse).id
         IN  /\ Quiet({c}) /\ c \in Waiting /\ c \in Threads
             /\ c \notin Outdated => AgreesNext(Head(sse).at, c)
<1> DEFINE c == Head(sse).id
           n == Len(sse)
<1>1. sse \in Seq(Events) /\ Head(sse) \in Events /\ Head(sse) = sse[1] /\ c \in Threads
  <2>1. sse \in Seq(Events)
    BY DEF ConsoleTypeOK, Events
  <2>2. Head(sse) \in Events
    BY <2>1, HeadTailProperties
  <2> QED BY <2>1, <2>2 DEF Events
<1>2. /\ n \in Nat /\ n >= 1 /\ DOMAIN sse = 1..n
      /\ DOMAIN sse' = 1..(n - 1) /\ \A i \in 1..(n - 1) : sse'[i] = sse[i + 1]
  <2>1. n \in Nat /\ DOMAIN sse = 1..n /\ n # 0
    BY <1>1, EventsAre, LenProperties, EmptySeq
  <2>2. Tail(sse) \in Seq(Events) /\ Len(Tail(sse)) = n - 1
        /\ \A i \in 1..(n - 1) : Tail(sse)[i] = sse[i + 1]
    BY <1>1, HeadTailProperties
  <2>3. DOMAIN Tail(sse) = 1..(n - 1)
    BY <2>2, EventsAre
  <2> QED BY <2>1, <2>2, <2>3
<1>3. sse[1].id = c /\ sse[1].at = Head(sse).at
  BY <1>1
<1> DEFINE at == Head(sse).at
<1>4. sse[1].at = at
  BY <1>3
<1> HIDE DEF c, n, at
<1>5. c \in Waiting
  BY <1>2, <1>3 DEF Waiting
<1>6. \A d : d \in Waiting' => d \in Waiting
  BY <1>2 DEF Waiting
<1>7. ASSUME NEW d, d # c, d \in Waiting PROVE d \in Waiting'
  <2>1. PICK i \in 1..n : sse[i].id = d
    BY <1>2, <1>7 DEF Waiting
  <2>2. i # 1
    BY <1>3, <1>7, <2>1
  <2>3. i - 1 \in 1..(n - 1) /\ sse'[i - 1] = sse[i]
    BY <1>2, <2>1, <2>2
  <2> QED BY <1>2, <2>1, <2>3 DEF Waiting
<1>8. ASSUME NEW d, d \in Outdated' PROVE d \in Outdated
  <2>1. PICK i \in 1..(n - 1) :
          /\ sse'[i].id = d /\ sse'[i].at # updatedAt[d]
          /\ \A j \in 1..(n - 1) : sse'[j].id = d => j <= i
    BY <1>2, <1>8 DEF Outdated
  <2>2. i + 1 \in 1..n /\ sse[i + 1].id = d /\ sse[i + 1].at # updatedAt[d]
    BY <1>2, <2>1
  <2>3. ASSUME NEW j \in 1..n, sse[j].id = d PROVE j <= i + 1
    <3>1. CASE j = 1
      BY <2>1, <3>1
    <3>2. CASE j # 1
      <4>1. j - 1 \in 1..(n - 1) /\ sse'[j - 1] = sse[j]
        BY <1>2, <3>2
      <4>2. j - 1 <= i
        BY <2>1, <2>3, <4>1
      <4>3. i \in Int /\ j \in Int
        BY <1>2
      <4> QED BY <4>2, <4>3
    <3> QED BY <3>1, <3>2
  <2> QED BY <1>2, <2>2, <2>3 DEF Outdated
<1>9. ASSUME c \notin Outdated PROVE AgreesNext(at, c)
  <2>1. CASE c \in Waiting'
    BY <1>8, <1>9, <2>1 DEF AgreesNext
  <2>2. CASE c \notin Waiting'
    <3>1. ASSUME NEW j \in 1..n, sse[j].id = c PROVE j <= 1
      <4>1. CASE j # 1
        <5>1. j - 1 \in 1..(n - 1) /\ sse'[j - 1] = sse[j]
          BY <1>2, <4>1
        <5> QED BY <1>2, <2>2, <3>1, <5>1 DEF Waiting
      <4> QED BY <4>1
    <3>2. 1 \in DOMAIN sse
      BY <1>2
    <3>3. at = updatedAt[c]
      BY <1>2, <1>3, <1>4, <1>9, <3>1, <3>2 DEF Outdated
    <3> QED BY <2>2, <3>3 DEF AgreesNext
  <2> QED BY <2>1, <2>2
<1>10. Quiet({c})
  BY <1>6, <1>7, <1>8 DEF Quiet
<1> QED BY <1>1, <1>5, <1>9, <1>10 DEF c, at

(* What is kept by a step that is quiet but for D.                         *)
LEMMA ViewKept ==
  ASSUME ConsoleTypeOK, ViewInv, NEW D, Quiet(D),
         \A c \in deleted' : updatedAt'[c] = 0,
         \A c \in Threads \ behind' :
           \/ c \notin D \cup behind /\ conversations'[c] = conversations[c]
           \/ AgreesNext(conversations'[c], c),
         \A c \in Threads \ (unsure' \cup deleted') :
           \/ /\ c \notin UNION {D, unsure, deleted}
              /\ conversationDetails'[c] \in {0, conversationDetails[c]}
           \/ DetailAgreesNext(conversationDetails'[c], c),
         \A y \in calls' :
           \/ y.sure = {}
           \/ \E x \in calls : /\ y.sure = x.sure \ D /\ y.items = x.items
                               /\ y.at = x.at /\ y.ids = x.ids
           \/ /\ y.at \notin {"listed", "detailed"} => y.sure = {}
              /\ y.at = "detailed" => y.sure \subseteq y.ids
              /\ \A c \in y.sure : AgreesNext(y.items[c], c)
  PROVE  ViewInv'
<1>1. ASSUME NEW stamp, NEW c \in Threads \ D, Agrees(stamp, c) PROVE AgreesNext(stamp, c)
  BY <1>1 DEF Quiet, Agrees, AgreesNext
<1>2. ASSUME NEW stamp, NEW c \in Threads \ D, DetailAgrees(stamp, c)
      PROVE  DetailAgreesNext(stamp, c) /\ DetailAgreesNext(0, c)
  BY <1>2 DEF Quiet, DetailAgrees, DetailAgreesNext
<1>3. \A c \in Threads \ behind' : AgreesNext(conversations'[c], c)
  BY <1>1 DEF ViewInv
<1>4. \A c \in Threads \ (unsure' \cup deleted') : DetailAgreesNext(conversationDetails'[c], c)
  BY <1>2 DEF ViewInv
<1>5. ASSUME NEW y \in calls'
      PROVE  /\ y.at \notin {"listed", "detailed"} => y.sure = {}
             /\ y.at = "detailed" => y.sure \subseteq y.ids
             /\ \A c \in y.sure : AgreesNext(y.items[c], c)
  <2>1. CASE y.sure = {}
    BY <2>1
  <2>2. CASE \E x \in calls : /\ y.sure = x.sure \ D /\ y.items = x.items
                              /\ y.at = x.at /\ y.ids = x.ids
    <3>1. PICK x \in calls : /\ y.sure = x.sure \ D /\ y.items = x.items
                             /\ y.at = x.at /\ y.ids = x.ids
      BY <2>2
    <3>2. ReplyAgrees(x) /\ x.sure \subseteq Threads
      BY DEF ViewInv, ConsoleTypeOK
    <3> QED BY <1>1, <3>1, <3>2 DEF ReplyAgrees
  <2> QED BY <1>5, <2>1, <2>2
<1> QED BY <1>3, <1>4, <1>5
        DEF ViewInv, ReplyAgrees, Agrees, DetailAgrees, AgreesNext, DetailAgreesNext

LEMMA ViewInit == ASSUME ConsoleInit PROVE ViewInv
<1>1. sse = <<>> /\ updatedAt = None /\ conversationDetails = None /\ deleted = {}
      /\ behind = Threads /\ calls = {Call("verify", {})}
  BY DEF ConsoleInit
<1>2. Waiting = {}
  BY <1>1 DEF Waiting
<1>3. \A c \in Threads : None[c] = 0
  BY DEF None
<1>4. Call("verify", {}).at = "verify" /\ Call("verify", {}).sure = {}
  BY DEF Call
<1> QED BY <1>1, <1>2, <1>3, <1>4 DEF ViewInv, DetailAgrees, ReplyAgrees

LEMMA ViewStep ==
  ASSUME ConsoleTypeOK, ViewInv, [ConsoleNext]_consoleVars PROVE ViewInv'
<1>a. calls \subseteq Replies /\ conversationDetails \in Stamps /\ updatedAt \in Stamps
  BY DEF ConsoleTypeOK, Replies
<1>b. \A c \in deleted : updatedAt[c] = 0
  BY DEF ViewInv
<1>c. \A at \in Stages, ids \in SUBSET Threads : Call(at, ids).sure = {}
  BY CallType
<1>d. \A D : \A y \in Disturbed(calls, D) :
        \E x \in calls : /\ y.sure = x.sure \ D /\ y.items = x.items
                         /\ y.at = x.at /\ y.ids = x.ids
  BY <1>a, DisturbedType
<1>e. \A y \in calls : \E x \in calls : /\ y.sure = x.sure \ {} /\ y.items = x.items
                                        /\ y.at = x.at /\ y.ids = x.ids
  OBVIOUS
(* A step of the page or of a call, which leaves the view alone.           *)
<1>f. ASSUME UNCHANGED <<sse, updatedAt, deleted, behind, unsure, conversations>>,
             \A c \in Threads : conversationDetails'[c] \in {0, conversationDetails[c]},
             \A y \in calls' :
               \/ y \in calls \/ y.sure = {}
               \/ /\ y.at = "listed" \/ (y.at = "detailed" /\ y.sure \subseteq y.ids)
                  /\ \A c \in y.sure : Agrees(y.items[c], c)
      PROVE  ViewInv'
  <2>1. Waiting' = Waiting /\ Outdated' = Outdated
    BY <1>f DEF Waiting, Outdated
  <2>2. \A c \in Threads \ (unsure \cup deleted) : DetailAgrees(conversationDetails'[c], c)
    BY <1>f DEF ViewInv, DetailAgrees
  <2>3. ASSUME NEW y \in calls' PROVE ReplyAgrees(y)
    BY <1>f DEF ViewInv, ReplyAgrees
  <2> QED BY <1>f, <2>1, <2>2, <2>3 DEF ViewInv, ReplyAgrees, Agrees, DetailAgrees
<1>1. ASSUME NEW c \in Threads, NEW reaches \in BOOLEAN, Publish(c, reaches)
      PROVE  ViewInv'
  <2>1. /\ clock + 1 \in 1..MaxStamp /\ updatedAt' = [updatedAt EXCEPT ![c] = clock + 1]
        /\ c \notin deleted
        /\ UNCHANGED <<deleted, conversations, conversationDetails>>
    BY <1>1, ConsoleAssumption DEF Publish, ConsoleTypeOK, cache
  <2>2. Quiet({c})
    <3>1. CASE reaches
      BY <1>1, <2>1, <3>1, EventSent DEF Publish
    <3>2. CASE ~reaches
      BY <1>1, <2>1, <3>2, <1>a, SameEvents DEF Publish, Stamps
    <3> QED BY <3>1, <3>2
  <2>3. \A d \in deleted' : updatedAt'[d] = 0
    BY <1>a, <1>b, <2>1 DEF Stamps
  <2>4. CASE reaches
    <3>1. c \in Waiting' /\ c \notin Outdated' /\ UNCHANGED <<calls, behind, unsure>>
      BY <1>1, <2>1, <2>4, EventSent DEF Publish
    <3>3. /\ \A stamp : AgreesNext(stamp, c) /\ DetailAgreesNext(stamp, c)
      BY <3>1 DEF AgreesNext, DetailAgreesNext
    <3>4. ASSUME NEW y \in calls'
          PROVE  /\ y.at \notin {"listed", "detailed"} => y.sure = {}
                 /\ y.at = "detailed" => y.sure \subseteq y.ids
                 /\ \A d \in y.sure : AgreesNext(y.items[d], d)
      <4>1. ReplyAgrees(y) /\ y.sure \subseteq Threads
        BY <3>1 DEF ViewInv, ConsoleTypeOK
      <4> QED BY <2>2, <3>3, <4>1 DEF ReplyAgrees, Agrees, AgreesNext, Quiet
    <3> QED BY <2>1, <2>2, <2>3, <3>1, <3>3, <3>4, ViewKept
  <2>5. CASE ~reaches
    <3>1. calls' = Disturbed(calls, {c}) /\ behind' = behind \cup {c} /\ unsure' = unsure \cup {c}
      BY <1>1, <2>5 DEF Publish
    <3> QED BY <1>d, <2>1, <2>2, <2>3, <3>1, ViewKept
  <2> QED BY <2>4, <2>5
<1>2. ASSUME NEW D \in SUBSET Threads, Remove(D), sse' = sse
      PROVE  /\ Quiet(D) /\ \A c \in deleted' : updatedAt'[c] = 0
             /\ behind' = behind \cup D /\ deleted' = deleted \cup D
  <2>1. \A c \in Threads \ D : updatedAt'[c] = updatedAt[c]
    BY <1>2 DEF Remove
  <2>2. \A c \in deleted' : updatedAt'[c] = 0
    BY <1>2, <1>b DEF Remove, ConsoleTypeOK
  <2> QED BY <1>2, <2>1, <2>2, SameEvents DEF Remove
<1>3. ASSUME NEW c \in Threads, OthersDelete(c) PROVE ViewInv'
  <2>1. /\ Quiet({c}) /\ \A d \in deleted' : updatedAt'[d] = 0
        /\ behind' = behind \cup {c} /\ deleted' = deleted \cup {c}
    BY <1>2, <1>3 DEF OthersDelete, stream
  <2>2. calls' = Disturbed(calls, {c})
        /\ UNCHANGED <<unsure, conversations, conversationDetails>>
    BY <1>3 DEF OthersDelete, cache
  <2> QED BY <1>d, <2>1, <2>2, ViewKept
<1>4. ASSUME NEW c \in Threads, selectConversation(c) PROVE ViewInv'
  <2>1. calls' = calls \/ calls' = calls \cup {Call("detail", {c})}
    BY <1>4 DEF selectConversation, Click
  <2>2. Call("detail", {c}).sure = {}
    BY <1>c DEF Stages
  <2> QED BY <1>4, <1>f, <2>1, <2>2 DEF selectConversation, unaffected, server, stream
<1>5. CASE SessionEnds
  BY <1>5, <1>f DEF SessionEnds, cache, stream
<1>6. CASE StreamBreaks
  <2>1. Quiet(Waiting) /\ Waiting' = {} /\ Outdated' = {}
    BY <1>6, NoEvents DEF StreamBreaks, server
  <2>2. /\ calls' = Disturbed(calls, Waiting)
        /\ behind' = behind \cup Waiting /\ unsure' = unsure \cup Waiting
        /\ UNCHANGED <<updatedAt, deleted, conversations, conversationDetails>>
    BY <1>6 DEF StreamBreaks, server, cache
  <2> QED BY <1>b, <1>d, <2>1, <2>2, ViewKept
<1>7. CASE handleEvent
  <2> DEFINE c == Head(sse).id
             at == Head(sse).at
             list == [conversations EXCEPT ![c] = at]
             details == [conversationDetails EXCEPT ![c] = at]
             selected == IF selectedConversationId = NoThread THEN c ELSE selectedConversationId
             cs == Disturbed(calls, {c})
  <2>1. sse # <<>> /\ sse' = Tail(sse) /\ UNCHANGED <<updatedAt, deleted, behind, unsure>>
    BY <1>7 DEF handleEvent, server
  <2>2. /\ Quiet({c}) /\ c \in Waiting /\ c \in Threads
        /\ c \notin Outdated => AgreesNext(at, c)
    BY <2>1, EventHandled
  <2>3. /\ list \in Stamps /\ details \in Stamps
        /\ selected \in Threads \cup {NoThread}
    <3>1. sse \in Seq(Events)
      BY DEF ConsoleTypeOK, Events
    <3>2. Head(sse) \in Events
      BY <2>1, <3>1, HeadTailProperties
    <3>3. at \in 1..MaxStamp
      BY <3>2 DEF Events
    <3> QED BY <2>2, <3>3 DEF ConsoleTypeOK, Stamps
  <2>4. cs \in SUBSET Replies
    BY <1>a, DisturbedType
  <2>5. Settle(list, details, selected, cs)
    BY <1>7 DEF handleEvent
  <2>6. /\ list[c] = at /\ details[c] = at
        /\ \A d \in Threads \ {c} : list[d] = conversations[d] /\ details[d] = conversationDetails[d]
    BY <2>2 DEF ConsoleTypeOK, Stamps
  <2>7. \A y \in cs : \E x \in calls : /\ y.sure = x.sure \ {c} /\ y.items = x.items
                                       /\ y.at = x.at /\ y.ids = x.ids
    BY <1>d
  <2> HIDE DEF list, details, selected, cs, c, at
  <2>8. /\ conversations' = list /\ conversationDetails' = details
        /\ \A y \in calls' : y \in cs \/ (y.sure = {} /\ y.at = "detail")
    BY <2>3, <2>4, <2>5, SettleType
  <2>9. /\ c \notin behind => AgreesNext(at, c)
        /\ c \notin unsure \cup deleted => DetailAgreesNext(at, c)
    BY <2>2 DEF ViewInv, Agrees, DetailAgrees, AgreesNext, DetailAgreesNext
  <2> QED BY <1>b, <2>1, <2>2, <2>6, <2>7, <2>8, <2>9, ViewKept
<1>8. CASE refreshAll \/ login \/ logout \/ refreshConversations
  <2>1. \E at \in {"verify", "login", "logout", "list"} : calls' = calls \cup {Call(at, {})}
    BY <1>8 DEF refreshAll, login, logout, refreshConversations, Click
  <2>2. \A at \in {"verify", "login", "logout", "list"} : Call(at, {}).sure = {}
    BY <1>c DEF Stages
  <2> QED BY <1>8, <1>f, <2>1, <2>2 DEF refreshAll, login, logout, refreshConversations,
                                        unaffected, server, cache, stream
<1>9. ASSUME NEW D \in SUBSET Threads, deleteConversations(D) PROVE ViewInv'
  <2>1. calls' = calls \cup {Call("delete", D)}
    BY <1>9 DEF deleteConversations, Click
  <2>2. Call("delete", D).sure = {}
    BY <1>c DEF Stages
  <2> QED BY <1>9, <1>f, <2>1, <2>2 DEF deleteConversations, unaffected, server, cache, stream
<1>10. ASSUME NEW x \in calls, ServeLogin(x) \/ ServeLogout(x) PROVE ViewInv'
  <2>1. calls' = (calls \ {x}) \cup {Call("verify", {})} /\ Call("verify", {}).sure = {}
    BY <1>10, <1>c DEF ServeLogin, ServeLogout, GoesOn, Stages
  <2> QED BY <1>10, <1>f, <2>1 DEF ServeLogin, ServeLogout, page, cache, stream
<1>11. ASSUME NEW x \in calls, ServeSession(x) \/ ServeBundle(x) \/ CallFails(x)
       PROVE  ViewInv'
  <2>1. x \in Replies
    BY <1>a
  <2>2. x.at \in {"verify", "bundle"} => x.sure = {}
    BY DEF ViewInv, ReplyAgrees
  <2>3. \A y \in calls' : y \in calls \/ (x.at \in {"verify", "bundle"} /\ y.sure = x.sure)
    BY <1>11, <2>1 DEF ServeSession, ServeBundle, CallFails, GoesOn, Replies
  <2> QED BY <1>11, <1>f, <2>2, <2>3 DEF ServeSession, ServeBundle, CallFails, server, page, cache, stream
<1>12. ASSUME NEW x \in calls, ServeList(x) \/ ServeDetail(x) PROVE ViewInv'
  <2>1. x \in Replies
    BY <1>a
  <2>2. \A y \in calls' : \/ y \in calls
                          \/ /\ y.at = "listed" \/ (y.at = "detailed" /\ y.sure \subseteq y.ids)
                             /\ \A c \in y.sure : Agrees(y.items[c], c)
    <3>1. CASE ServeList(x)
      <4> DEFINE y == [x EXCEPT !.at = "listed", !.items = updatedAt, !.sure = Threads \ Outdated]
      <4>1. y.at = "listed" /\ y.items = updatedAt /\ y.sure = Threads \ Outdated
        BY <2>1 DEF Replies
      <4>2. calls' = (calls \ {x}) \cup {y}
        BY <3>1 DEF ServeList, GoesOn
      <4> HIDE DEF y
      <4> QED BY <4>1, <4>2 DEF Agrees
    <3>2. CASE ServeDetail(x)
      <4> DEFINE items1 == [c \in Threads |-> IF c \in x.ids THEN updatedAt[c] ELSE 0]
                 y == [x EXCEPT !.at = "detailed", !.sure = x.ids \ Outdated, !.items = items1]
      <4>1. /\ y.at = "detailed" /\ y.ids = x.ids /\ y.items = items1
            /\ y.sure = x.ids \ Outdated /\ x.ids \subseteq Threads
        BY <2>1 DEF Replies
      <4>2. calls' = (calls \ {x}) \cup {y}
        BY <3>2 DEF ServeDetail, GoesOn
      <4>3. \A c \in x.ids : items1[c] = updatedAt[c]
        BY <4>1
      <4> HIDE DEF y, items1
      <4> QED BY <4>1, <4>2, <4>3 DEF Agrees
    <3> QED BY <1>12, <3>1, <3>2
  <2> QED BY <1>12, <1>f, <2>2 DEF ServeList, ServeDetail, server, page, cache, stream
<1>13. ASSUME NEW x \in calls, NEW done \in SUBSET Threads, ServeDeletion(x, done)
       PROVE  ViewInv'
  <2>1. /\ Quiet(done) /\ \A c \in deleted' : updatedAt'[c] = 0
        /\ behind' = behind \cup done /\ deleted' = deleted \cup done
    BY <1>2, <1>13 DEF ServeDeletion, page, stream
  <2>2. UNCHANGED <<unsure, conversations, conversationDetails>>
    BY <1>13 DEF ServeDeletion, page, cache
  <2>3. x.at = "delete" /\ x \in Replies /\ x.sure = {}
    BY <1>13, <1>a DEF ServeDeletion, ViewInv, ReplyAgrees
  <2>4. ASSUME NEW y \in calls'
        PROVE  \/ \E z \in calls : /\ y.sure = z.sure \ done /\ y.items = z.items
                                   /\ y.at = z.at /\ y.ids = z.ids
               \/ y.sure = {}
    <3>1. CASE y \in Disturbed(calls \ {x}, done)
      <4>1. calls \ {x} \in SUBSET Replies
        BY <1>a
      <4> QED BY <3>1, <4>1, DisturbedType
    <3>2. CASE y = [x EXCEPT !.at = "deleted"]
      BY <2>3, <3>2 DEF Replies
    <3> QED BY <1>13, <3>1, <3>2 DEF ServeDeletion
  <2> QED BY <2>1, <2>2, <2>4, ViewKept
<1>14. ASSUME NEW x \in calls, ShowSignedIn(x) \/ ShowBundle(x) PROVE ViewInv'
  <2>1. \E at \in {"bundle", "list"} : calls' = (calls \ {x}) \cup {Call(at, {})}
    BY <1>14 DEF ShowSignedIn, ShowBundle, GoesOn
  <2>2. \A at \in {"bundle", "list"} : Call(at, {}).sure = {}
    BY <1>c DEF Stages
  <2> QED BY <1>14, <1>f, <2>1, <2>2 DEF ShowSignedIn, ShowBundle, server, cache, stream
<1>15. ASSUME NEW x \in calls, ShowDeleted(x) PROVE ViewInv'
  <2>1. calls' = (calls \ {x}) \cup {Call("list", {})} /\ Call("list", {}).sure = {}
    BY <1>15, <1>c DEF ShowDeleted, GoesOn, Stages
  <2>2. \A c \in Threads : conversationDetails'[c] \in {0, conversationDetails[c]}
    BY <1>15 DEF ShowDeleted
  <2> QED BY <1>15, <1>f, <2>1, <2>2 DEF ShowDeleted, server, stream
<1>16. ASSUME NEW x \in calls, ShowSignedOut(x) PROVE ViewInv'
  <2>1. Quiet(Waiting) /\ Waiting' = {} /\ Outdated' = {}
    BY <1>16, NoEvents DEF ShowSignedOut, server
  <2>2. /\ calls' = Disturbed(calls \ {x}, Waiting)
        /\ behind' = Threads /\ unsure' = {} /\ UNCHANGED <<updatedAt, deleted>>
        /\ conversationDetails' = None
    BY <1>16 DEF ShowSignedOut, server
  <2>3. \A y \in calls' : \E z \in calls : /\ y.sure = z.sure \ Waiting /\ y.items = z.items
                                           /\ y.at = z.at /\ y.ids = z.ids
    <3>1. calls \ {x} \in SUBSET Replies
      BY <1>a
    <3> QED BY <2>2, <3>1, DisturbedType
  <2>4. \A c \in Threads : DetailAgreesNext(conversationDetails'[c], c)
    BY <2>1, <2>2 DEF DetailAgreesNext, None
  <2> QED BY <1>b, <2>1, <2>2, <2>3, <2>4, ViewKept
<1>17. ASSUME NEW x \in calls, ShowList(x) PROVE ViewInv'
  <2> DEFINE keep == selectedConversationId # NoThread /\ x.items[selectedConversationId] # 0
             target == IF keep THEN selectedConversationId ELSE firstOf(x.items)
             cs == (calls \ {x}) \cup IF target = NoThread THEN {}
                                      ELSE {Call("detail", {target})}
  <2>1. x.items \in Stamps /\ x.sure \subseteq Threads /\ ReplyAgrees(x)
    BY <1>a DEF Replies, ViewInv
  <2>2. target \in Threads \cup {NoThread}
    BY <2>1, FirstType DEF ConsoleTypeOK
  <2>3. Settle(x.items, conversationDetails, target, cs)
    BY <1>17 DEF ShowList
  <2> HIDE DEF target
  <2>4. target # NoThread => /\ Call("detail", {target}) \in Replies
                             /\ Call("detail", {target}).sure = {}
    BY <2>2, CallType DEF Stages
  <2>5. cs \in SUBSET Replies /\ \A y \in cs : y \in calls \/ y.sure = {}
    BY <1>a, <2>4
  <2> HIDE DEF cs
  <2>6. /\ conversations' = x.items /\ conversationDetails' = conversationDetails
        /\ \A y \in calls' : y \in cs \/ (y.sure = {} /\ y.at = "detail")
    BY <1>a, <2>1, <2>2, <2>3, <2>5, SettleType
  <2>7. behind' = Threads \ x.sure /\ UNCHANGED <<updatedAt, deleted, sse, unsure>>
    BY <1>17 DEF ShowList, server, stream
  <2>8. Quiet({}) /\ Waiting' = Waiting /\ Outdated' = Outdated
    BY <2>7, SameEvents DEF Waiting, Outdated
  <2>9. \A c \in Threads \ behind' : AgreesNext(conversations'[c], c)
    BY <2>1, <2>6, <2>7, <2>8 DEF ReplyAgrees, Agrees, AgreesNext
  <2> QED BY <1>b, <1>e, <2>5, <2>6, <2>7, <2>8, <2>9, ViewKept
<1>18. ASSUME NEW x \in calls, ShowDetail(x) PROVE ViewInv'
  <2>1. x.at = "detailed" /\ ReplyAgrees(x) /\ x.sure \subseteq x.ids
    BY <1>18 DEF ShowDetail, ViewInv, ReplyAgrees
  <2>2. /\ \A c \in Threads : conversationDetails'[c] =
             IF c \in x.ids THEN x.items[c] ELSE conversationDetails[c]
        /\ unsure' = (unsure \ x.sure) \cup (x.ids \ x.sure)
        /\ calls' = calls \ {x}
        /\ UNCHANGED <<updatedAt, deleted, sse, conversations, behind>>
    BY <1>18 DEF ShowDetail, server, stream
  <2>3. Quiet({}) /\ Waiting' = Waiting /\ Outdated' = Outdated
    BY <2>2, SameEvents DEF Waiting, Outdated
  <2>4. ASSUME NEW c \in Threads \ (unsure' \cup deleted')
        PROVE  \/ /\ c \notin UNION {{}, unsure, deleted}
                  /\ conversationDetails'[c] \in {0, conversationDetails[c]}
               \/ DetailAgreesNext(conversationDetails'[c], c)
    <3>1. CASE c \in x.sure
      BY <2>1, <2>2, <2>3, <3>1 DEF ReplyAgrees, Agrees, DetailAgreesNext
    <3>2. CASE c \notin x.sure
      BY <2>1, <2>2, <2>4, <3>2
    <3> QED BY <3>1, <3>2
  <2> QED BY <1>b, <1>e, <2>2, <2>3, <2>4, ViewKept
<1>19. CASE UNCHANGED consoleVars
  BY <1>19, <1>f DEF consoleVars, server, cache, stream
<1> QED BY <1>1, <1>3, <1>4, <1>5, <1>6, <1>7, <1>8, <1>9, <1>10, <1>11, <1>12, <1>13,
           <1>14, <1>15, <1>16, <1>17, <1>18, <1>19 DEF ConsoleNext

(* What the page shows is what the server has, except where the page       *)
(* cannot know.                                                            *)
THEOREM PageIsCurrent == Spec => []ViewIsCurrent
<1>1. Init => ConsoleTypeOK /\ ViewInv
  BY ConsoleTypesInit, ViewInit DEF Init
<1>2. Spec => [](ConsoleTypeOK /\ ViewInv)
  BY <1>1, PageStep, ConsoleTypesStep, ViewStep, PTL DEF Spec
<1>3. ConsoleTypeOK /\ ViewInv => ViewIsCurrent
  BY DEF ViewInv, ViewIsCurrent, Agrees, DetailAgrees, ConsoleTypeOK
<1> QED BY <1>2, <1>3, PTL

----------------------------------------------------------------------------
(* The tester.  As long as the field was not changed since a run with the  *)
(* switch on, it shows the id that run ended with; a run that is under way *)
(* carries the field of its click, and lastId waits for it.                *)

FieldShowsLast ==
  /\ (lastId # NoText /\ ~edited) => conversationID = lastId
  /\ (run.at = "reading" /\ run.same) => (lastId # NoText /\ run.field = lastId)

LEMMA NoRunIsRun == NoRun \in TesterRun
BY DEF NoRun, TesterRun, IdTexts

LEMMA TesterTypesInit == ASSUME TesterInit PROVE TesterTypeOK
BY NoRunIsRun DEF TesterInit, TesterTypeOK, IdTexts

LEMMA TesterTypesStep ==
  ASSUME TesterTypeOK, [TesterNext]_testerVars PROVE TesterTypeOK'
<1> USE TesterAssumption DEF TesterTypeOK
<1>1. ASSUME NEW on \in BOOLEAN, ToggleTile(on) PROVE TesterTypeOK'
  BY <1>1 DEF ToggleTile, testerServer
<1>2. ASSUME NEW content \in {"nothing", "prompt", "files"}, DraftInputs(content)
      PROVE  TesterTypeOK'
  BY <1>2 DEF DraftInputs, testerServer
<1>3. ASSUME NEW text \in IdTexts, EditConversationID(text) PROVE TesterTypeOK'
  BY <1>3 DEF EditConversationID, testerServer
<1>4. CASE ClickRun
  BY <1>4 DEF ClickRun, NoRun, testerServer, IdTexts, TesterRun
<1>5. ASSUME NEW generated \in Ids, SendRun(generated) PROVE TesterTypeOK'
  <2> DEFINE fieldText == TrimmedId(run.field)
             id == IF ~run.on THEN NoText
                   ELSE IF fieldText # NoText THEN fieldText ELSE generated
  <2>1. id \in Ids \cup {NoText} /\ (run.on => id \in Ids)
    BY DEF TrimmedId, IdTexts, TesterRun
  <2>2. run' = [NoRun EXCEPT !.at = "sent", !.on = run.on, !.id = id]
    BY <1>5 DEF SendRun
  <2>3. run' \in TesterRun
    BY <2>1, <2>2 DEF NoRun, IdTexts, TesterRun
  <2>4. /\ conversationID' \in IdTexts /\ usedIds' \subseteq Ids /\ usedIds \subseteq usedIds'
        /\ lastId' \in Ids \cup {NoText} /\ edited' \in BOOLEAN
        /\ UNCHANGED <<useConversationID, draft, known, continuable>>
    BY <1>5, <2>1 DEF SendRun, IdTexts, testerServer
  <2> QED BY <2>3, <2>4
<1>6. CASE ReadFails \/ RefuseRun \/ ReceiveAnswer \/ RunFails
  <2>1. CASE ReadFails \/ RunFails
    BY <2>1, NoRunIsRun DEF ReadFails, RunFails, testerServer
  <2>2. CASE RefuseRun
    BY <2>2 DEF RefuseRun, testerServer, TesterRun
  <2>3. CASE ReceiveAnswer
    BY <2>3 DEF ReceiveAnswer, testerServer, TesterRun
  <2> QED BY <1>6, <2>1, <2>2, <2>3
<1>7. ASSUME NEW made \in Ids, NEW succeeds \in BOOLEAN, ServeRun(made, succeeds)
      PROVE  TesterTypeOK'
  <2> DEFINE id == IF run.id \in continuable THEN run.id
                   ELSE IF run.id \in Ids \ known THEN run.id ELSE made
  <2>1. id \in Ids
    OBVIOUS
  <2>2. /\ known' = known \cup {id} /\ usedIds' = usedIds \cup {id}
        /\ continuable' = IF succeeds THEN continuable \cup {id} ELSE continuable
        /\ run' = IF succeeds THEN [run EXCEPT !.at = "answered", !.answer = id]
                  ELSE [run EXCEPT !.at = "refused"]
        /\ UNCHANGED <<useConversationID, conversationID, draft, lastId, edited>>
    BY <1>7 DEF ServeRun
  <2>3. run' \in TesterRun
    BY <2>1, <2>2 DEF TesterRun
  <2> HIDE DEF id
  <2> QED BY <2>1, <2>2, <2>3
<1>8. CASE RunEnds
  BY <1>8, NoRunIsRun DEF RunEnds, testerServer, IdTexts, TesterRun
<1>9. CASE UNCHANGED testerVars
  BY <1>9 DEF testerVars, testerServer
<1> QED BY <1>1, <1>2, <1>3, <1>4, <1>5, <1>6, <1>7, <1>8, <1>9 DEF TesterNext

LEMMA FieldShowsLastStep ==
  ASSUME TesterTypeOK, FieldShowsLast, [TesterNext]_testerVars PROVE FieldShowsLast'
<1> USE TesterAssumption DEF FieldShowsLast, TesterTypeOK, TesterRun
<1>1. ASSUME NEW on \in BOOLEAN, ToggleTile(on) PROVE FieldShowsLast'
  BY <1>1 DEF ToggleTile
<1>2. ASSUME NEW content \in {"nothing", "prompt", "files"}, DraftInputs(content)
      PROVE  FieldShowsLast'
  BY <1>2 DEF DraftInputs
<1>3. ASSUME NEW text \in IdTexts, EditConversationID(text) PROVE FieldShowsLast'
  BY <1>3 DEF EditConversationID
<1>4. CASE ClickRun
  BY <1>4 DEF ClickRun, NoRun
<1>5. ASSUME NEW generated \in Ids, SendRun(generated) PROVE FieldShowsLast'
  <2>1. run'.at = "sent"
    BY <1>5 DEF SendRun, NoRun
  <2>2. CASE run.on
    BY <1>5, <2>1, <2>2 DEF SendRun
  <2>3. CASE ~run.on
    BY <1>5, <2>1, <2>3 DEF SendRun
  <2> QED BY <2>2, <2>3
<1>6. CASE ReadFails \/ RefuseRun \/ ReceiveAnswer \/ RunFails
  BY <1>6 DEF ReadFails, RefuseRun, ReceiveAnswer, RunFails, NoRun
<1>7. ASSUME NEW made \in Ids, NEW succeeds \in BOOLEAN, ServeRun(made, succeeds)
      PROVE  FieldShowsLast'
  BY <1>7 DEF ServeRun
<1>8. CASE RunEnds
  BY <1>8 DEF RunEnds, NoRun
<1>9. CASE UNCHANGED testerVars
  BY <1>9 DEF testerVars
<1> QED BY <1>1, <1>2, <1>3, <1>4, <1>5, <1>6, <1>7, <1>8, <1>9 DEF TesterNext

LEMMA SendsLast ==
  ASSUME TesterTypeOK, FieldShowsLast, [TesterNext]_testerVars
  PROVE  [(run.at = "reading" /\ run'.at = "sent" /\ run.on /\ run.same)
            => run'.id = lastId]_testerVars
<1> SUFFICES ASSUME TesterNext, run.at = "reading", run'.at = "sent", run.on, run.same
             PROVE  run'.id = lastId
  BY DEF testerVars
<1>1. run.field = lastId /\ lastId \in Ids
  BY DEF FieldShowsLast, TesterTypeOK, TesterRun
<1>2. \E generated \in Ids : SendRun(generated)
  <2>1. run' # run
    OBVIOUS
  <2>2. ~ \E on \in BOOLEAN : ToggleTile(on)
    BY <2>1 DEF ToggleTile
  <2>3. ~ \E content \in {"nothing", "prompt", "files"} : DraftInputs(content)
    BY <2>1 DEF DraftInputs
  <2>4. ~ \E text \in IdTexts : EditConversationID(text)
    BY <2>1 DEF EditConversationID
  <2>5. ~ ClickRun /\ ~ ReadFails
    BY DEF ClickRun, ReadFails, NoRun
  <2>6. ~ \E made \in Ids, succeeds \in BOOLEAN : ServeRun(made, succeeds)
    BY DEF ServeRun
  <2>7. ~ RefuseRun /\ ~ ReceiveAnswer /\ ~ RunFails /\ ~ RunEnds
    BY DEF RefuseRun, ReceiveAnswer, RunFails, RunEnds
  <2> QED BY <2>2, <2>3, <2>4, <2>5, <2>6, <2>7 DEF TesterNext
<1>3. PICK generated \in Ids : SendRun(generated)
  BY <1>2
<1> QED BY <1>1, <1>3, TesterAssumption DEF SendRun, TrimmedId, NoRun

(* With the switch on, a run asks for the conversation the run before it   *)
(* ended with, unless the field was changed in between.                    *)
THEOREM PageReusesOne == Spec => OnReusesOne
<1>1. Init => TesterTypeOK /\ FieldShowsLast
  <2> SUFFICES ASSUME TesterInit PROVE TesterTypeOK /\ FieldShowsLast
    BY DEF Init
  <2>1. FieldShowsLast
    BY DEF TesterInit, FieldShowsLast, NoRun
  <2> QED BY <2>1, TesterTypesInit
<1>2. Spec => [](TesterTypeOK /\ FieldShowsLast)
  BY <1>1, PageStep, TesterTypesStep, FieldShowsLastStep, PTL DEF Spec
<1> QED BY <1>2, PageStep, SendsLast, PTL DEF Spec, OnReusesOne

----------------------------------------------------------------------------
(* The accounts.  The forms that nobody touched show the list.             *)

UntouchedShowList ==
  /\ DOMAIN accountEdits = Listed(items)
  /\ \A e \in Listed(items) \ touched :
       accountEdits[e] = items[FindAccount(items, e)].row

LEMMA FilledFormsShowList ==
  ASSUME NEW list, NEW active, items' = list, ResetForms(list, active)
  PROVE  UntouchedShowList'
BY DEF ResetForms, buildAccountEditMap, UntouchedShowList

LEMMA ListIsKept ==
  ASSUME UntouchedShowList, UNCHANGED <<items, accountEdits, touched>>
  PROVE  UntouchedShowList'
BY DEF UntouchedShowList, Listed, FindAccount

LEMMA UntouchedStep ==
  ASSUME UntouchedShowList, [AccountsNext]_accountsVars PROVE UntouchedShowList'
<1>1. ASSUME NEW e \in Addresses,
             \/ SelectAccount(e) \/ SelectTestAccount(e) \/ StartLogin(e)
             \/ VerifyCode(e) \/ runQuickTest(e) \/ OthersChange(e)
      PROVE  UntouchedShowList'
  <2>1. UNCHANGED <<items, accountEdits, touched>>
    BY <1>1 DEF SelectAccount, SelectTestAccount, StartLogin, VerifyCode, runQuickTest,
                OthersChange, Begin, listShown
  <2> QED BY <2>1, ListIsKept
<1>2. ASSUME NEW value, updateAccountEdit(value) PROVE UntouchedShowList'
  <2>1. /\ items' = items /\ touched' = touched \cup {selectedEmail}
        /\ accountEdits' = [accountEdits EXCEPT ![selectedEmail][accountFocus] = value]
    BY <1>2 DEF updateAccountEdit, listShown
  <2>2. /\ Listed(items') = Listed(items)
        /\ \A e : FindAccount(items', e) = FindAccount(items, e)
    BY <2>1
  <2>3. DOMAIN accountEdits' = DOMAIN accountEdits
    BY <2>1
  <2>4. ASSUME NEW e \in Listed(items) \ touched' PROVE accountEdits'[e] = accountEdits[e]
    BY <2>1, <2>4 DEF UntouchedShowList
  <2> QED BY <2>1, <2>2, <2>3, <2>4 DEF UntouchedShowList
<1>3. CASE SchedulingInputs
  BY <1>2, <1>3 DEF SchedulingInputs
<1>4. ASSUME NEW text, IdentityInputs(text) \/ ProbeInput(text) PROVE UntouchedShowList'
  BY <1>4, ListIsKept DEF IdentityInputs, ProbeInput, listShown
<1>5. ASSUME NEW e, NEW active, performManualImport(e, active) PROVE UntouchedShowList'
  BY <1>5, ListIsKept DEF performManualImport, Begin, listShown
<1>6. CASE FillForms \/ DetailButtons \/ RefreshButton
  BY <1>6, ListIsKept DEF FillForms, DetailButtons, RefreshButton, Begin, listShown
<1>7. ASSUME NEW c \in chains,
             \/ ServeStart(c) \/ LoginFails(c) \/ ServeActivate(c) \/ ServeDelete(c)
             \/ ServeSave(c) \/ ServeTest(c) \/ ReadAccounts(c)
             \/ ChainFails(c) \/ RefreshAllFails(c) \/ FinishChain(c)
             \/ \E stored \in Addresses : ServeVerify(c, stored) \/ ServeImport(c, stored)
      PROVE  UntouchedShowList'
  <2>1. UNCHANGED <<items, accountEdits, touched>>
    BY <1>7 DEF ServeStart, LoginFails, ServeActivate, ServeDelete, ServeSave, ServeTest,
                ReadAccounts, ChainFails, RefreshAllFails, FinishChain, ServeVerify,
                ServeImport, panelState, listShown
  <2> QED BY <2>1, ListIsKept
<1>8. ASSUME NEW c \in chains, ShowAccounts(c) PROVE UntouchedShowList'
  BY <1>8, FilledFormsShowList DEF ShowAccounts
<1>9. CASE UNCHANGED accountsVars
  BY <1>9, ListIsKept DEF accountsVars
<1> QED BY <1>1, <1>3, <1>4, <1>5, <1>6, <1>7, <1>8, <1>9 DEF AccountsNext

(* A chain has a stage, so a chain that goes on is no longer at its start. *)
ChainsHaveStage == \A c \in chains : "at" \in DOMAIN c

LEMMA NewChain ==
  ASSUME NEW kind, NEW email
  PROVE  /\ "at" \in DOMAIN NoChain /\ NoChain.kind = "refresh"
         /\ "at" \in DOMAIN Asked(kind, email)
         /\ Asked(kind, email).kind = kind /\ Asked(kind, email).email = email
         /\ \A row : LET c == [Asked(kind, email) EXCEPT !.row = row]
                     IN  /\ "at" \in DOMAIN c
                         /\ c.kind = kind /\ c.email = email /\ c.row = row
         /\ \A id, active : LET c == [Asked(kind, email) EXCEPT !.userID = id, !.active = active]
                            IN  "at" \in DOMAIN c /\ c.kind = kind
BY DEF NoChain, Asked

LEMMA BegunHasStage ==
  ASSUME ChainsHaveStage, NEW c, "at" \in DOMAIN c, Begin(c) PROVE ChainsHaveStage'
BY DEF ChainsHaveStage, Begin

LEMMA OnHasStage ==
  ASSUME ChainsHaveStage, NEW c, NEW D, \A d \in D : "at" \in DOMAIN d,
         chains' = (chains \ {c}) \cup D
  PROVE  ChainsHaveStage'
BY DEF ChainsHaveStage

LEMMA StageStep ==
  ASSUME ChainsHaveStage, [AccountsNext]_accountsVars PROVE ChainsHaveStage'
<1>1. ASSUME NEW e \in Addresses,
             SelectAccount(e) \/ SelectTestAccount(e) \/ OthersChange(e)
      PROVE  ChainsHaveStage'
  BY <1>1 DEF SelectAccount, SelectTestAccount, OthersChange, ChainsHaveStage
<1>2. ASSUME NEW e \in Addresses, StartLogin(e) \/ VerifyCode(e) \/ runQuickTest(e)
      PROVE  ChainsHaveStage'
  BY <1>2, NewChain, BegunHasStage DEF StartLogin, VerifyCode, runQuickTest
<1>3. CASE SchedulingInputs \/ FillForms
  BY <1>3 DEF SchedulingInputs, updateAccountEdit, FillForms, ChainsHaveStage
<1>4. ASSUME NEW text, IdentityInputs(text) \/ ProbeInput(text) PROVE ChainsHaveStage'
  BY <1>4 DEF IdentityInputs, ProbeInput, ChainsHaveStage
<1>5. ASSUME NEW e, NEW active, performManualImport(e, active) PROVE ChainsHaveStage'
  BY <1>5, NewChain, BegunHasStage DEF performManualImport
<1>6. CASE DetailButtons \/ RefreshButton
  BY <1>6, NewChain, BegunHasStage DEF DetailButtons, RefreshButton
<1>7. ASSUME NEW c \in chains, NEW email, Served(c, email) PROVE ChainsHaveStage'
  BY <1>7, OnHasStage DEF Served, ChainsHaveStage
<1>8. ASSUME NEW c \in chains,
             \/ ServeStart(c) \/ ServeActivate(c) \/ ServeDelete(c) \/ ServeSave(c)
             \/ \E stored \in Addresses : ServeVerify(c, stored) \/ ServeImport(c, stored)
      PROVE  ChainsHaveStage'
  BY <1>7, <1>8 DEF ServeStart, ServeActivate, ServeDelete, ServeSave, ServeVerify, ServeImport
<1>9. ASSUME NEW c \in chains,
             LoginFails(c) \/ ServeTest(c) \/ ChainFails(c) \/ FinishChain(c)
      PROVE  ChainsHaveStage'
  BY <1>9 DEF LoginFails, ServeTest, ChainFails, FinishChain, ChainsHaveStage
<1>10. ASSUME NEW c \in chains, ReadAccounts(c) \/ ShowAccounts(c) \/ RefreshAllFails(c)
       PROVE  ChainsHaveStage'
  BY <1>10, OnHasStage DEF ReadAccounts, ShowAccounts, RefreshAllFails, ChainsHaveStage
<1>11. CASE UNCHANGED accountsVars
  BY <1>11 DEF accountsVars, ChainsHaveStage
<1> QED BY <1>1, <1>2, <1>3, <1>4, <1>5, <1>6, <1>8, <1>9, <1>10, <1>11 DEF AccountsNext

(* Only a click on save begins a save.                                     *)
SavesBegun == {c \in chains' \ chains : c.kind = "save" /\ c.at = "sent"}

LEMMA OthersSaveNothing ==
  ASSUME ChainsHaveStage, AccountsNext, ~DetailButtons PROVE SavesBegun = {}
<1> USE DEF SavesBegun
<1>1. ASSUME NEW e \in Addresses,
             SelectAccount(e) \/ SelectTestAccount(e) \/ OthersChange(e)
      PROVE  SavesBegun = {}
  BY <1>1 DEF SelectAccount, SelectTestAccount, OthersChange
<1>2. ASSUME NEW e \in Addresses, StartLogin(e) \/ VerifyCode(e) \/ runQuickTest(e)
      PROVE  SavesBegun = {}
  BY <1>2, NewChain DEF StartLogin, VerifyCode, runQuickTest, Begin
<1>3. CASE SchedulingInputs \/ FillForms
  BY <1>3 DEF SchedulingInputs, updateAccountEdit, FillForms
<1>4. ASSUME NEW text, IdentityInputs(text) \/ ProbeInput(text) PROVE SavesBegun = {}
  BY <1>4 DEF IdentityInputs, ProbeInput
<1>5. ASSUME NEW e, NEW active, performManualImport(e, active) PROVE SavesBegun = {}
  <2> DEFINE c == [Asked("import", e) EXCEPT !.userID = userID, !.active = active]
  <2>1. c.kind = "import"
    BY NewChain
  <2>2. chains' = chains \cup {c}
    BY <1>5 DEF performManualImport, Begin
  <2> HIDE DEF c
  <2> QED BY <2>1, <2>2
<1>6. CASE RefreshButton
  BY <1>6, NewChain DEF RefreshButton, Begin
<1>7. ASSUME NEW c \in chains, NEW email, Served(c, email) PROVE SavesBegun = {}
  BY <1>7 DEF Served, ChainsHaveStage
<1>8. ASSUME NEW c \in chains,
             \/ ServeStart(c) \/ ServeActivate(c) \/ ServeDelete(c) \/ ServeSave(c)
             \/ \E stored \in Addresses : ServeVerify(c, stored) \/ ServeImport(c, stored)
      PROVE  SavesBegun = {}
  BY <1>7, <1>8 DEF ServeStart, ServeActivate, ServeDelete, ServeSave, ServeVerify, ServeImport
<1>9. ASSUME NEW c \in chains,
             LoginFails(c) \/ ServeTest(c) \/ ChainFails(c) \/ FinishChain(c)
      PROVE  SavesBegun = {}
  BY <1>9 DEF LoginFails, ServeTest, ChainFails, FinishChain
<1>10. ASSUME NEW c \in chains, ReadAccounts(c) \/ ShowAccounts(c) \/ RefreshAllFails(c)
       PROVE  SavesBegun = {}
  BY <1>10 DEF ReadAccounts, ShowAccounts, RefreshAllFails, ChainsHaveStage
<1> QED BY <1>1, <1>2, <1>3, <1>4, <1>5, <1>6, <1>8, <1>9, <1>10 DEF AccountsNext

LEMMA SavesWhatIsShown ==
  ASSUME UntouchedShowList, ChainsHaveStage, [AccountsNext]_accountsVars
  PROVE  [\A c \in chains' \ chains :
            (c.kind = "save" /\ c.at = "sent" /\ c.email \notin touched)
              => c.row = items[FindAccount(items, c.email)].row]_accountsVars
<1> SUFFICES ASSUME AccountsNext, NEW c \in chains' \ chains,
                    c.kind = "save", c.at = "sent", c.email \notin touched
             PROVE  c.row = items[FindAccount(items, c.email)].row
  OBVIOUS
<1>1. DetailButtons
  BY OthersSaveNothing DEF SavesBegun
<1>2. /\ selectedEmail \in Listed(items)
      /\ c.email = selectedEmail /\ c.row = accountEdits[selectedEmail]
  <2> DEFINE save == [Asked("save", selectedEmail) EXCEPT !.row = accountEdits[selectedEmail]]
  <2>1. save.email = selectedEmail /\ save.row = accountEdits[selectedEmail]
    BY NewChain
  <2>2. \A kind : Asked(kind, selectedEmail).kind = kind
    BY NewChain
  <2>3. chains' \in {chains \cup {save}, chains \cup {Asked("activate", selectedEmail)},
                    chains \cup {Asked("delete", selectedEmail)}}
    BY <1>1 DEF DetailButtons, Begin
  <2>4. selectedEmail \in Listed(items)
    BY <1>1 DEF DetailButtons
  <2> HIDE DEF save
  <2> QED BY <2>1, <2>2, <2>3, <2>4
<1> QED BY <1>2 DEF UntouchedShowList

(* A save sends, for a form nobody touched since the list was shown, what  *)
(* the list shows.                                                         *)
THEOREM PageSavesOnlyEditedRows == Spec => RowSavesOnlyEdits
<1>1. Init => UntouchedShowList /\ ChainsHaveStage
  <2>1. ASSUME AccountsInit PROVE UntouchedShowList
    BY <2>1 DEF AccountsInit, UntouchedShowList, buildAccountEditMap
  <2>2. ASSUME AccountsAbsent PROVE UntouchedShowList
    <3>1. DOMAIN accountEdits = {} /\ DOMAIN items = {}
      <4>1. accountEdits = <<>> /\ items = <<>>
        BY <2>2 DEF AccountsAbsent
      <4>2. DOMAIN <<>> = {}
        OBVIOUS
      <4> QED BY <4>1, <4>2, Zenon
    <3>2. Listed(items) = {}
      BY <3>1 DEF Listed
    <3> QED BY <3>1, <3>2 DEF UntouchedShowList
  <2>3. chains = {} => ChainsHaveStage
    BY DEF ChainsHaveStage
  <2> QED BY <2>1, <2>2, <2>3 DEF Init, AccountsInit, AccountsAbsent
<1>2. Spec => [](UntouchedShowList /\ ChainsHaveStage)
  BY <1>1, PageStep, UntouchedStep, StageStep, PTL DEF Spec
<1> QED BY <1>2, PageStep, SavesWhatIsShown, PTL DEF Spec, RowSavesOnlyEdits

----------------------------------------------------------------------------
(* The types of the accounts.  A chain is of one kind and at one stage,    *)
(* and a login has an address.                                             *)

MaybeAddress == Addresses \cup {NoAddress}
AskedKinds == {"start", "verify", "import", "save", "activate", "delete", "test"}
Chain ==
  [kind : AskedKinds \cup {"refresh"},
   at : {"sent", "served", "read", "shown"}, email : MaybeAddress, row : AccountEditState,
   userID : UserIDs \cup {""}, active : BOOLEAN, items : Seq(AccountItem),
   listedActive : MaybeAddress]

ChainOK(c) == c \in Chain /\ (c.kind \in {"start", "verify"} => c.email \in Addresses)
ChainsOK ==
  /\ IsFiniteSet(chains) /\ Cardinality(chains) <= MaxChains
  /\ \A c \in chains : ChainOK(c)
PoolOK == pool \in Seq(AccountItem) /\ activeAccount \in MaybeAddress
ListOK ==
  /\ items \in Seq(AccountItem) /\ listedActive \in MaybeAddress
  /\ DOMAIN accountEdits = Listed(items)
  /\ \A e \in DOMAIN accountEdits : accountEdits[e] \in AccountEditState
PickedOK == quickTestEmail \in MaybeAddress /\ selectedEmail \in MaybeAddress
IdentityOK ==
  /\ userID \in UserIDs \cup {""} /\ typedUserID \in UserIDs \cup {""}
  /\ probeJSON \in ProbeDraft
GhostsOK ==
  /\ accountFocus \in AccountFocuses
  /\ touched \subseteq Addresses /\ disturbed \in BOOLEAN
  /\ requests \in 0..MaxRequests[accountFocus]

AccountsOK == ChainsOK /\ PoolOK /\ ListOK /\ PickedOK /\ IdentityOK /\ GhostsOK

LEMMA AccountsTyped == ASSUME AccountsOK PROVE AccountsTypeOK
<1>1. \A c \in chains : DOMAIN c = DOMAIN NoChain
  <2>1. \A c \in Chain : DOMAIN c = DOMAIN NoChain
    BY DEF Chain, NoChain
  <2> QED BY <2>1 DEF AccountsOK, ChainsOK, ChainOK
<1> QED BY <1>1, Zenon DEF AccountsOK, AccountsTypeOK, ChainsOK, PoolOK, ListOK, PickedOK,
             IdentityOK, GhostsOK, MaybeAddress

LEMMA PartsKept ==
  /\ (chains' = chains /\ ChainsOK) => ChainsOK'
  /\ (UNCHANGED serverAccounts /\ PoolOK) => PoolOK'
  /\ (UNCHANGED <<listShown, accountEdits>> /\ ListOK) => ListOK'
  /\ (UNCHANGED <<selectedEmail, quickTestEmail>> /\ PickedOK) => PickedOK'
  /\ (UNCHANGED manualForm /\ IdentityOK) => IdentityOK'
  /\ (UNCHANGED <<fixed, touched, disturbed>> /\ GhostsOK) => GhostsOK'
<1>1. (UNCHANGED <<listShown, accountEdits>> /\ ListOK) => ListOK'
  BY DEF listShown, ListOK, Listed
<1> QED BY <1>1, Zenon DEF serverAccounts, manualForm, fixed, ChainsOK, PoolOK, PickedOK,
             IdentityOK, GhostsOK

LEMMA NewRowType == NewRow \in AccountEditState
BY DEF NewRow, AccountEditState

LEMMA ItemType ==
  ASSUME NEW list \in Seq(AccountItem), NEW i \in DOMAIN list
  PROVE  list[i] \in AccountItem /\ list[i].email \in Addresses /\ list[i].row \in AccountEditState
<1>1. list[i] \in AccountItem
  BY LenProperties
<1> QED BY <1>1 DEF AccountItem

LEMMA AccountFound ==
  ASSUME NEW list \in Seq(AccountItem), NEW e, Key[e] \in AccountKeys(list)
  PROVE  /\ FindAccount(list, e) \in DOMAIN list
         /\ FindAccount(list, e) \in 1..Len(list)
         /\ Key[list[FindAccount(list, e)].email] = Key[e]
<1>1. \E i \in DOMAIN list : Key[list[i].email] = Key[e]
  BY DEF AccountKeys, Listed
<1>2. FindAccount(list, e) \in DOMAIN list /\ Key[list[FindAccount(list, e)].email] = Key[e]
  BY <1>1, Zenon DEF FindAccount
<1>3. DOMAIN list = 1..Len(list)
  BY LenProperties
<1> QED BY <1>2, <1>3

LEMMA ListedFound ==
  ASSUME NEW list \in Seq(AccountItem), NEW e \in Listed(list)
  PROVE  e \in Addresses /\ Key[e] \in AccountKeys(list)
<1>1. e \in Addresses
  BY ItemType DEF Listed
<1> QED BY <1>1 DEF AccountKeys

(* The server stores an account under the address given.                   *)
LEMMA AccountStored ==
  ASSUME NEW list \in Seq(AccountItem), NEW e \in Addresses, NEW stored \in Addresses
  PROVE  /\ UpsertAccount(list, e, stored) \in Seq(AccountItem)
         /\ stored \in Listed(UpsertAccount(list, e, stored))
<1> DEFINE l == UpsertAccount(list, e, stored)
<1>1. CASE Key[e] \in AccountKeys(list)
  <2> DEFINE i == FindAccount(list, e)
             item == [list[i] EXCEPT !.email = stored]
  <2>1. i \in 1..Len(list) /\ i \in DOMAIN list
    BY <1>1, AccountFound
  <2>2. item \in AccountItem /\ item.email = stored
    BY <2>1, ItemType DEF AccountItem
  <2>3. l = [list EXCEPT ![i] = item]
    BY <1>1 DEF UpsertAccount
  <2> HIDE DEF i, item, l
  <2>4. l \in Seq(AccountItem) /\ DOMAIN l = DOMAIN list /\ l[i] = item
    BY <2>1, <2>2, <2>3, ExceptSeq
  <2> QED BY <2>1, <2>2, <2>4 DEF Listed, l
<1>2. CASE Key[e] \notin AccountKeys(list)
  <2> DEFINE item == [email |-> stored, row |-> NewRow]
             n == Len(list) + 1
  <2>1. item \in AccountItem /\ item.email = stored
    BY NewRowType DEF AccountItem
  <2>2. l = Append(list, item)
    BY <1>2 DEF UpsertAccount
  <2> HIDE DEF item, l
  <2>3. l \in Seq(AccountItem) /\ l[n] = item /\ n \in 1..Len(l)
    BY <2>1, <2>2, AppendProperties, LenProperties
  <2>4. n \in DOMAIN l
    BY <2>3, LenProperties
  <2> QED BY <2>1, <2>3, <2>4 DEF Listed, l
<1> QED BY <1>1, <1>2

LEMMA AccountRemoved ==
  ASSUME NEW list \in Seq(AccountItem), NEW i \in 1..Len(list)
  PROVE  SubSeq(list, 1, i - 1) \o SubSeq(list, i + 1, Len(list)) \in Seq(AccountItem)
<1>1. Len(list) \in Nat /\ \A j \in 1..Len(list) : list[j] \in AccountItem
  BY LenProperties, ItemType
<1>2. SubSeq(list, 1, i - 1) \in Seq(AccountItem)
  BY <1>1, SubSeqProperties
<1>3. SubSeq(list, i + 1, Len(list)) \in Seq(AccountItem)
  BY <1>1, SubSeqProperties
<1> QED BY <1>2, <1>3, ConcatProperties

LEMMA SettingsStored ==
  ASSUME PoolOK, NEW e, NEW row \in AccountEditState, SettingsOf(e, row)
  PROVE  PoolOK'
<1> DEFINE i == FindAccount(pool, e)
           item == [pool[i] EXCEPT !.row = row]
<1>1. pool \in Seq(AccountItem) /\ i \in 1..Len(pool) /\ i \in DOMAIN pool
  BY AccountFound DEF PoolOK, SettingsOf
<1>2. item \in AccountItem
  BY <1>1, ItemType DEF AccountItem
<1>3. pool' = [pool EXCEPT ![i] = item]
  BY DEF SettingsOf
<1>4. activeAccount' \in MaybeAddress
  BY DEF SettingsOf, Cleared, PoolOK, MaybeAddress
<1> HIDE DEF i, item
<1> QED BY <1>1, <1>2, <1>3, <1>4, ExceptSeq DEF PoolOK

LEMMA FilledFormsType ==
  ASSUME NEW list \in Seq(AccountItem), NEW e \in Listed(list)
  PROVE  buildAccountEditMap(list)[e] \in AccountEditState
<1>1. FindAccount(list, e) \in DOMAIN list
  BY ListedFound, AccountFound
<1> QED BY <1>1, ItemType DEF buildAccountEditMap

LEMMA KeptType ==
  ASSUME NEW current \in MaybeAddress, NEW list \in Seq(AccountItem),
         NEW active \in MaybeAddress
  PROVE  Kept(current, list, active) \in MaybeAddress
<1>1. list # <<>> => list[1].email \in Addresses
  <2>1. list # <<>> => 1 \in DOMAIN list
    BY LenProperties, EmptySeq
  <2> QED BY <2>1, ItemType
<1> QED BY <1>1 DEF Kept, preferredEmail, MaybeAddress

LEMMA ListIsShown ==
  ASSUME PickedOK, NEW list \in Seq(AccountItem), NEW active \in MaybeAddress,
         items' = list, listedActive' = active, ResetForms(list, active)
  PROVE  ListOK' /\ PickedOK'
<1>1. PickedOK'
  BY KeptType DEF PickedOK, ResetForms
<1>2. accountEdits' = buildAccountEditMap(list) /\ DOMAIN accountEdits' = Listed(list)
  BY DEF ResetForms, buildAccountEditMap
<1> QED BY <1>1, <1>2, FilledFormsType DEF ListOK, Listed

LEMMA ChainTypes ==
  /\ ChainOK(NoChain)
  /\ \A kind \in AskedKinds,
        e \in MaybeAddress :
       (kind \in {"start", "verify"} => e \in Addresses) =>
         /\ ChainOK(Asked(kind, e))
         /\ \A row \in AccountEditState : ChainOK([Asked(kind, e) EXCEPT !.row = row])
         /\ \A id \in UserIDs \cup {""}, active \in BOOLEAN :
              ChainOK([Asked(kind, e) EXCEPT !.userID = id, !.active = active])
<1>1. <<>> \in Seq(AccountItem) /\ NewRow \in AccountEditState
  BY EmptySeq, NewRowType
<1>2. NoChain \in Chain
  BY <1>1 DEF NoChain, Chain, MaybeAddress
<1>3. ASSUME NEW kind \in AskedKinds,
             NEW e \in MaybeAddress
      PROVE  Asked(kind, e) \in Chain /\ Asked(kind, e).kind = kind /\ Asked(kind, e).email = e
  <2> HIDE DEF NoChain
  <2> QED BY <1>2 DEF Asked, Chain
<1>4. ASSUME NEW c \in Chain, NEW row \in AccountEditState,
             NEW id \in UserIDs \cup {""}, NEW active \in BOOLEAN
      PROVE  /\ [c EXCEPT !.row = row] \in Chain
             /\ [c EXCEPT !.row = row].kind = c.kind /\ [c EXCEPT !.row = row].email = c.email
             /\ [c EXCEPT !.userID = id, !.active = active] \in Chain
             /\ [c EXCEPT !.userID = id, !.active = active].kind = c.kind
             /\ [c EXCEPT !.userID = id, !.active = active].email = c.email
  BY DEF Chain
<1>5. ChainOK(NoChain)
  BY <1>2 DEF ChainOK, NoChain
<1>6. ASSUME NEW kind \in AskedKinds,
             NEW e \in MaybeAddress, kind \in {"start", "verify"} => e \in Addresses,
             NEW row \in AccountEditState, NEW id \in UserIDs \cup {""}, NEW active \in BOOLEAN
      PROVE  /\ ChainOK(Asked(kind, e)) /\ ChainOK([Asked(kind, e) EXCEPT !.row = row])
             /\ ChainOK([Asked(kind, e) EXCEPT !.userID = id, !.active = active])
  <2> DEFINE c == Asked(kind, e)
  <2>1. c \in Chain /\ c.kind = kind /\ c.email = e
    BY <1>3, Zenon
  <2> HIDE DEF c
  <2> DEFINE x == [c EXCEPT !.row = row]
             y == [c EXCEPT !.userID = id, !.active = active]
  <2>2. /\ x \in Chain /\ x.kind = c.kind /\ x.email = c.email
        /\ y \in Chain /\ y.kind = c.kind /\ y.email = c.email
    BY <1>4, <2>1
  <2> HIDE DEF x, y
  <2>3. ChainOK(c) /\ ChainOK(x) /\ ChainOK(y)
    BY <1>6, <2>1, <2>2 DEF ChainOK
  <2> QED BY <2>3 DEF c, x, y
<1> QED BY <1>1, <1>5, <1>6

LEMMA ChainGoesOn ==
  ASSUME ChainsOK, NEW c \in chains, NEW d, ChainOK(d), chains' = (chains \ {c}) \cup {d}
  PROVE  ChainsOK'
<1>1. IsFiniteSet(chains \ {c}) /\ Cardinality(chains \ {c}) = Cardinality(chains) - 1
  BY FS_RemoveElement DEF ChainsOK
<1>2. Cardinality(chains) \in Nat
  BY FS_CardinalityType DEF ChainsOK
<1>3. /\ IsFiniteSet((chains \ {c}) \cup {d})
      /\ Cardinality((chains \ {c}) \cup {d}) <= Cardinality(chains)
  BY <1>1, <1>2, FS_AddElement
<1>4. Cardinality((chains \ {c}) \cup {d}) \in Nat
  BY <1>3, FS_CardinalityType
<1>5. \A x \in chains' : ChainOK(x)
  BY DEF ChainsOK
<1> QED BY <1>2, <1>3, <1>4, <1>5, AccountsAssumption DEF ChainsOK

LEMMA ChainEnds ==
  ASSUME ChainsOK, NEW c \in chains, chains' = chains \ {c}
  PROVE  ChainsOK'
<1>1. IsFiniteSet(chains \ {c}) /\ Cardinality(chains \ {c}) = Cardinality(chains) - 1
  BY FS_RemoveElement DEF ChainsOK
<1>2. Cardinality(chains) \in Nat
  BY FS_CardinalityType DEF ChainsOK
<1> QED BY <1>1, <1>2, AccountsAssumption DEF ChainsOK

LEMMA ChainBegins ==
  ASSUME AccountsOK, NEW c, ChainOK(c), Begin(c), quickTestEmail' \in MaybeAddress
  PROVE  AccountsOK'
<1>1. IsFiniteSet(chains \cup {c}) /\ Cardinality(chains \cup {c}) = Cardinality(chains) + 1
  BY FS_AddElement DEF AccountsOK, ChainsOK, Begin
<1>2. Cardinality(chains) \in Nat
  BY FS_CardinalityType DEF AccountsOK, ChainsOK
<1>3. ChainsOK'
  BY <1>1, <1>2, AccountsAssumption DEF AccountsOK, ChainsOK, Begin
<1>4. /\ PoolOK' /\ ListOK' /\ IdentityOK'
  BY PartsKept DEF AccountsOK, Begin
<1>5. PickedOK'
  BY DEF AccountsOK, PickedOK, Begin
<1>6. GhostsOK'
  <2>1. MaxRequests[accountFocus] \in Nat
    BY AccountsAssumption DEF AccountsOK, GhostsOK
  <2>2. requests' \in 0..MaxRequests[accountFocus]
    BY <2>1 DEF AccountsOK, GhostsOK, Begin
  <2> QED BY <2>2 DEF AccountsOK, GhostsOK, Begin
<1> QED BY <1>3, <1>4, <1>5, <1>6 DEF AccountsOK

LEMMA AccountsInitOK == ASSUME AccountsInit PROVE AccountsOK
<1>1. ChainsOK
  <2>1. chains = {}
    BY DEF AccountsInit
  <2>2. IsFiniteSet(chains) /\ Cardinality(chains) = 0
    BY <2>1, FS_EmptySet, Zenon
  <2> QED BY <2>1, <2>2, AccountsAssumption DEF ChainsOK
<1>2. pool \in Seq(AccountItem) /\ activeAccount \in MaybeAddress
  <2>1. PICK e, f \in {Key[g] : g \in Addresses} :
           /\ pool \in {<<>>, UpsertAccount(<<[email |-> e, row |-> NewRow]>>, f, f)}
           /\ activeAccount \in {NoAddress, e} \cap ({NoAddress} \cup Listed(pool))
    BY Zenon DEF AccountsInit
  <2>2. e \in Addresses /\ f \in Addresses
    BY AccountsAssumption
  <2> DEFINE item == [email |-> e, row |-> NewRow]
  <2>3. item \in AccountItem
    BY <2>2, NewRowType DEF AccountItem
  <2> HIDE DEF item
  <2>4. <<item>> \in Seq(AccountItem) /\ <<>> \in Seq(AccountItem)
    BY <2>3, EmptySeq
  <2>5. UpsertAccount(<<item>>, f, f) \in Seq(AccountItem)
    BY <2>2, <2>4, AccountStored
  <2>6. pool \in {<<>>, UpsertAccount(<<item>>, f, f)}
    BY <2>1 DEF item
  <2> QED BY <2>1, <2>2, <2>4, <2>5, <2>6 DEF MaybeAddress
<1>3. /\ items = pool /\ listedActive = activeAccount
      /\ accountEdits = buildAccountEditMap(items)
      /\ selectedEmail = preferredEmail(items, listedActive)
      /\ quickTestEmail = preferredEmail(items, listedActive)
      /\ accountFocus \in AccountFocuses /\ touched = {} /\ requests = 0
  BY DEF AccountsInit
<1>4. NoAddress \in Listed(items) => NoAddress \in Addresses
  BY <1>2, <1>3, ListedFound
<1>5. Kept(NoAddress, items, listedActive) = preferredEmail(items, listedActive)
  BY <1>4, AccountsAssumption DEF Kept
<1>6. PickedOK
  BY <1>2, <1>3, <1>5, KeptType DEF PickedOK, MaybeAddress
<1>7. ListOK
  <2>1. DOMAIN accountEdits = Listed(items)
    BY <1>3 DEF buildAccountEditMap
  <2> QED BY <1>2, <1>3, <2>1, FilledFormsType DEF ListOK
<1>8. IdentityOK
  BY DEF AccountsInit, IdentityOK, ProbeDraft
<1>9. GhostsOK
  <2>1. MaxRequests[accountFocus] \in Nat
    BY <1>3, AccountsAssumption
  <2>2. disturbed \in BOOLEAN
    BY Zenon DEF AccountsInit
  <2> QED BY <1>3, <2>1, <2>2 DEF GhostsOK
<1> QED BY <1>1, <1>2, <1>6, <1>7, <1>8, <1>9 DEF AccountsOK, PoolOK

LEMMA AccountsOKStep ==
  ASSUME AccountsOK, [AccountsNext]_accountsVars PROVE AccountsOK'
<1> USE DEF AccountsOK
<1>1. ASSUME NEW e \in Addresses, SelectAccount(e) \/ SelectTestAccount(e)
      PROVE  AccountsOK'
  <2>1. ChainsOK' /\ PoolOK' /\ ListOK' /\ IdentityOK' /\ GhostsOK'
    BY <1>1, PartsKept DEF SelectAccount, SelectTestAccount
  <2>2. PickedOK'
    BY <1>1 DEF SelectAccount, SelectTestAccount, PickedOK, MaybeAddress
  <2> QED BY <2>1, <2>2
<1>2. ASSUME NEW e \in Addresses, StartLogin(e) \/ VerifyCode(e) \/ runQuickTest(e)
      PROVE  AccountsOK'
  <2>1. \A kind \in {"start", "verify", "test"} : ChainOK(Asked(kind, e))
    BY ChainTypes DEF MaybeAddress, AskedKinds
  <2>2. quickTestEmail' \in MaybeAddress
    BY <1>2 DEF StartLogin, VerifyCode, runQuickTest, PickedOK, MaybeAddress
  <2> QED BY <1>2, <2>1, <2>2, ChainBegins DEF StartLogin, VerifyCode, runQuickTest
<1>3. ASSUME NEW e \in Addresses, OthersChange(e) PROVE AccountsOK'
  <2>1. ChainsOK' /\ ListOK' /\ PickedOK' /\ IdentityOK'
    BY <1>3, PartsKept DEF OthersChange
  <2>2. PoolOK'
    <3>1. \A on \in BOOLEAN : [NewRow EXCEPT !.disabled = on] \in AccountEditState
      BY NewRowType DEF AccountEditState
    <3> QED BY <1>3, <3>1, SettingsStored DEF OthersChange
  <2>3. GhostsOK'
    <3>1. MaxRequests[accountFocus] \in Nat
      BY AccountsAssumption DEF GhostsOK
    <3> QED BY <1>3, <3>1 DEF OthersChange, GhostsOK
  <2> QED BY <2>1, <2>2, <2>3
<1>4. CASE SchedulingInputs
  <2>1. PICK value : /\ updateAccountEdit(value)
                     /\ \/ accountFocus = "priority" /\ value \in Int
                        \/ accountFocus = "hourlyQuota" /\ value \in Nat
                        \/ accountFocus = "maxConcurrency" /\ value \in Nat \ {0}
                        \/ accountFocus = "disabled" /\ value \in BOOLEAN
    BY <1>4 DEF SchedulingInputs, NumberTyped
  <2> DEFINE row == [accountEdits[selectedEmail] EXCEPT ![accountFocus] = value]
  <2>2. selectedEmail \in Listed(items) /\ accountEdits[selectedEmail] \in AccountEditState
    BY <2>1 DEF updateAccountEdit, ListOK
  <2>3. row \in AccountEditState
    <3>1. CASE accountFocus = "priority" /\ value \in Int
      BY <2>2, <3>1 DEF AccountEditState
    <3>2. CASE accountFocus = "hourlyQuota" /\ value \in Nat
      BY <2>2, <3>2 DEF AccountEditState
    <3>3. CASE accountFocus = "maxConcurrency" /\ value \in Nat \ {0}
      BY <2>2, <3>3 DEF AccountEditState
    <3>4. CASE accountFocus = "disabled" /\ value \in BOOLEAN
      BY <2>2, <3>4 DEF AccountEditState
    <3> QED BY <2>1, <3>1, <3>2, <3>3, <3>4
  <2>4. accountEdits' = [accountEdits EXCEPT ![selectedEmail] = row]
    BY <2>1 DEF updateAccountEdit
  <2> HIDE DEF row
  <2>5. ListOK'
    BY <2>1, <2>3, <2>4 DEF updateAccountEdit, ListOK, listShown, Listed
  <2>6. ChainsOK' /\ PoolOK' /\ PickedOK' /\ IdentityOK'
    BY <2>1, PartsKept DEF updateAccountEdit
  <2>7. selectedEmail \in Addresses
    BY <2>2, ListedFound DEF ListOK
  <2>8. GhostsOK'
    BY <2>1, <2>7 DEF updateAccountEdit, GhostsOK, fixed
  <2> QED BY <2>5, <2>6, <2>8
<1>5. ASSUME NEW text, \/ text \in UserIDs \cup {""} /\ IdentityInputs(text)
                       \/ text \in ProbeDraft /\ ProbeInput(text)
      PROVE  AccountsOK'
  <2>1. ChainsOK' /\ PoolOK' /\ ListOK' /\ PickedOK' /\ GhostsOK'
    BY <1>5, PartsKept DEF IdentityInputs, ProbeInput
  <2>2. IdentityOK'
    BY <1>5 DEF IdentityInputs, ProbeInput, IdentityOK
  <2> QED BY <2>1, <2>2
<1>6. ASSUME NEW e \in MaybeAddress, NEW active \in BOOLEAN, performManualImport(e, active)
      PROVE  AccountsOK'
  <2>1. userID \in UserIDs \cup {""}
    BY DEF IdentityOK
  <2>2. ChainOK([Asked("import", e) EXCEPT !.userID = userID, !.active = active])
    BY <2>1, ChainTypes DEF AskedKinds
  <2>3. quickTestEmail' \in MaybeAddress
    BY <1>6 DEF performManualImport, PickedOK
  <2> QED BY <1>6, <2>2, <2>3, ChainBegins DEF performManualImport
<1>7. CASE FillForms
  <2>1. ChainsOK' /\ PoolOK' /\ ListOK' /\ IdentityOK' /\ GhostsOK'
    BY <1>7, PartsKept DEF FillForms
  <2>2. PickedOK'
    BY <1>7 DEF FillForms, populateEmail, PickedOK
  <2> QED BY <2>1, <2>2
<1>8. CASE DetailButtons \/ RefreshButton
  <2>1. ChainOK(NoChain) /\ selectedEmail \in MaybeAddress
    BY ChainTypes DEF PickedOK
  <2>2. \A kind \in {"activate", "delete"} : ChainOK(Asked(kind, selectedEmail))
    BY <2>1, ChainTypes DEF AskedKinds
  <2>3. selectedEmail \in Listed(items) =>
          ChainOK([Asked("save", selectedEmail) EXCEPT !.row = accountEdits[selectedEmail]])
    BY <2>1, ChainTypes DEF ListOK, AskedKinds
  <2>4. quickTestEmail' \in MaybeAddress
    BY <1>8 DEF DetailButtons, RefreshButton, PickedOK
  <2> QED BY <1>8, <2>1, <2>2, <2>3, <2>4, ChainBegins DEF DetailButtons, RefreshButton
<1>a. \A c \in chains : ChainOK(c)
  BY DEF ChainsOK
(* What the server or the page does with a chain.                          *)
<1>b. ASSUME NEW c \in chains, NEW email \in MaybeAddress,
             c.kind \in {"start", "verify"} => email \in Addresses,
             Served(c, email)
      PROVE  ChainsOK'
  <2> DEFINE d == [c EXCEPT !.at = "served", !.email = email]
  <2>1. ChainOK(d)
    BY <1>a, <1>b DEF ChainOK, Chain
  <2>2. chains' = (chains \ {c}) \cup {d}
    BY <1>b DEF Served
  <2> HIDE DEF d
  <2> QED BY <2>1, <2>2, ChainGoesOn
<1>c. UNCHANGED panelState => /\ ListOK' /\ PickedOK' /\ IdentityOK' /\ GhostsOK'
  BY PartsKept DEF panelState
<1>9. ASSUME NEW c \in chains, ServeStart(c) PROVE AccountsOK'
  <2>1. c.email \in Addresses
    BY <1>9, <1>a DEF ServeStart, ChainOK
  <2>2. ChainsOK'
    BY <1>9, <1>b, <2>1 DEF ServeStart, MaybeAddress
  <2>3. PoolOK'
    BY <1>9, <2>1, AccountStored DEF ServeStart, PoolOK
  <2> QED BY <1>9, <1>c, <2>2, <2>3 DEF ServeStart
<1>10. ASSUME NEW c \in chains, NEW stored \in Addresses, ServeVerify(c, stored)
       PROVE  AccountsOK'
  <2>1. c.email \in Addresses
    BY <1>10, <1>a DEF ServeVerify, ChainOK
  <2>2. ChainsOK'
    BY <1>10, <1>b, <2>1 DEF ServeVerify, MaybeAddress
  <2>3. PoolOK'
    BY <1>10, <2>1, AccountStored DEF ServeVerify, PoolOK, MaybeAddress
  <2> QED BY <1>10, <1>c, <2>2, <2>3 DEF ServeVerify
<1>11. ASSUME NEW c \in chains, NEW stored \in Addresses, ServeImport(c, stored)
       PROVE  AccountsOK'
  <2>1. ChainsOK'
    BY <1>11, <1>b DEF ServeImport, MaybeAddress
  <2>2. PoolOK'
    BY <1>11, AccountStored DEF ServeImport, PoolOK, MaybeAddress
  <2> QED BY <1>11, <1>c, <2>1, <2>2 DEF ServeImport
<1>12. ASSUME NEW c \in chains, LoginFails(c) PROVE AccountsOK'
  <2>1. c.email \in Addresses
    BY <1>12, <1>a DEF LoginFails, ChainOK
  <2>2. ChainsOK'
    BY <1>12, ChainEnds DEF LoginFails
  <2>3. PoolOK'
    BY <1>12, <2>1, AccountStored DEF LoginFails, PoolOK
  <2> QED BY <1>12, <1>c, <2>2, <2>3 DEF LoginFails
<1>13. ASSUME NEW c \in chains, ServeActivate(c) \/ ServeDelete(c) \/ ServeSave(c)
       PROVE  AccountsOK'
  <2>1. c.email \in MaybeAddress /\ c.row \in AccountEditState
    BY <1>a DEF ChainOK, Chain
  <2>2. ChainsOK'
    BY <1>13, <1>b, <2>1 DEF ServeActivate, ServeDelete, ServeSave
  <2>3. CASE ServeActivate(c)
    <3>1. pool[FindAccount(pool, c.email)].email \in Addresses
      BY <2>3, AccountFound, ItemType DEF ServeActivate, PoolOK
    <3>2. PoolOK'
      BY <2>3, <3>1 DEF ServeActivate, PoolOK, MaybeAddress
    <3> QED BY <1>c, <2>2, <2>3, <3>2 DEF ServeActivate
  <2>4. CASE ServeDelete(c)
    <3>1. FindAccount(pool, c.email) \in 1..Len(pool)
      BY <2>4, AccountFound DEF ServeDelete, DeleteOf, PoolOK
    <3>2. PoolOK'
      BY <2>4, <3>1, AccountRemoved DEF ServeDelete, DeleteOf, Cleared, PoolOK, MaybeAddress
    <3> QED BY <1>c, <2>2, <2>4, <3>2 DEF ServeDelete
  <2>5. CASE ServeSave(c)
    <3>1. PoolOK'
      BY <2>1, <2>5, SettingsStored DEF ServeSave
    <3> QED BY <1>c, <2>2, <2>5, <3>1 DEF ServeSave
  <2> QED BY <1>13, <2>3, <2>4, <2>5
<1>14. ASSUME NEW c \in chains, ServeTest(c) \/ ChainFails(c) PROVE AccountsOK'
  <2>1. ChainsOK'
    BY <1>14, ChainEnds DEF ServeTest, ChainFails
  <2>2. PoolOK'
    BY <1>14, PartsKept DEF ServeTest, ChainFails, serverAccounts
  <2> QED BY <1>14, <1>c, <2>1, <2>2 DEF ServeTest, ChainFails
<1>15. ASSUME NEW c \in chains, ReadAccounts(c) PROVE AccountsOK'
  <2> DEFINE d == [c EXCEPT !.at = "read", !.items = pool, !.listedActive = activeAccount]
  <2>1. ChainOK(d)
    BY <1>a DEF ChainOK, Chain, PoolOK
  <2>2. chains' = (chains \ {c}) \cup {d}
    BY <1>15 DEF ReadAccounts
  <2> HIDE DEF d
  <2>3. ChainsOK'
    BY <2>1, <2>2, ChainGoesOn
  <2>4. PoolOK'
    BY <1>15, PartsKept DEF ReadAccounts, serverAccounts
  <2> QED BY <1>15, <1>c, <2>3, <2>4 DEF ReadAccounts
<1>d. ASSUME NEW c \in chains,
             chains' = (chains \ {c}) \cup
               {[c EXCEPT !.at = "shown", !.items = <<>>, !.listedActive = NoAddress]}
      PROVE  ChainsOK'
  <2> DEFINE d == [c EXCEPT !.at = "shown", !.items = <<>>, !.listedActive = NoAddress]
  <2>1. ChainOK(d)
    BY <1>a, EmptySeq DEF ChainOK, Chain, MaybeAddress
  <2>2. chains' = (chains \ {c}) \cup {d}
    BY <1>d
  <2> HIDE DEF d
  <2> QED BY <2>1, <2>2, ChainGoesOn
<1>16. ASSUME NEW c \in chains, ShowAccounts(c) PROVE AccountsOK'
  <2>1. c.items \in Seq(AccountItem) /\ c.listedActive \in MaybeAddress
    BY <1>a DEF ChainOK, Chain
  <2>2. ListOK' /\ PickedOK'
    BY <1>16, <2>1, ListIsShown DEF ShowAccounts
  <2>3. ChainsOK'
    BY <1>16, <1>d DEF ShowAccounts
  <2>4. PoolOK' /\ IdentityOK'
    BY <1>16, PartsKept DEF ShowAccounts
  <2>5. GhostsOK'
    BY <1>16 DEF ShowAccounts, ResetForms, GhostsOK, fixed
  <2> QED BY <2>2, <2>3, <2>4, <2>5
<1>17. ASSUME NEW c \in chains, RefreshAllFails(c) PROVE AccountsOK'
  <2>1. ChainsOK'
    BY <1>17, <1>d DEF RefreshAllFails
  <2>2. PoolOK' /\ ListOK' /\ PickedOK' /\ IdentityOK'
    BY <1>17, PartsKept DEF RefreshAllFails
  <2>3. GhostsOK'
    BY <1>17 DEF RefreshAllFails, GhostsOK, fixed
  <2> QED BY <2>1, <2>2, <2>3
<1>18. ASSUME NEW c \in chains, FinishChain(c) PROVE AccountsOK'
  <2>1. ChainsOK'
    BY <1>18, ChainEnds DEF FinishChain
  <2>2. PoolOK' /\ ListOK' /\ IdentityOK' /\ GhostsOK'
    BY <1>18, PartsKept DEF FinishChain
  <2>3. c.email \in MaybeAddress
    BY <1>a DEF ChainOK, Chain
  <2>4. PickedOK'
    BY <1>18, <2>3 DEF FinishChain, populateEmail, PickedOK
  <2> QED BY <2>1, <2>2, <2>4
<1>19. CASE UNCHANGED accountsVars
  BY <1>19, PartsKept DEF accountsVars, serverAccounts, listShown, manualForm, fixed
<1> QED BY <1>1, <1>2, <1>3, <1>4, <1>5, <1>6, <1>7, <1>8, <1>9, <1>10, <1>11, <1>12,
           <1>13, <1>14, <1>15, <1>16, <1>17, <1>18, <1>19 DEF AccountsNext, MaybeAddress

----------------------------------------------------------------------------
(* Where a login or an import ends.  Nothing else crossed it as long as it *)
(* is the only chain; then the account it is about is in the pool once it  *)
(* is served, in the list it has read, and in the list that is shown.      *)

HasAccount(list, c) ==
  \/ c.email \in Listed(list)
  \/ c.kind = "verify" /\ Key[c.email] \in AccountKeys(list)

OnItsWay(c, accounts, shown) ==
  c.kind \in {"start", "verify", "import"} =>
    /\ c.at = "served" => HasAccount(accounts, c)
    /\ c.at = "read" => HasAccount(c.items, c)
    /\ c.at = "shown" => HasAccount(shown, c)

EndsInv ==
  ~disturbed =>
    /\ \A c, d \in chains : c = d
    /\ \A c \in chains : OnItsWay(c, pool, items)

LEMMA EndsKept ==
  ASSUME EndsInv, UNCHANGED <<disturbed, pool, items>>, chains' \subseteq chains
  PROVE  EndsInv'
BY DEF EndsInv, OnItsWay, HasAccount, Listed, AccountKeys

LEMMA EndsBegins ==
  ASSUME NEW c, c.at = "sent" \/ c.kind \notin {"start", "verify", "import"}, Begin(c)
  PROVE  EndsInv'
<1>1. chains' = chains \cup {c} /\ disturbed' = (chains # {})
  BY DEF Begin
<1>2. OnItsWay(c, pool', items')
  BY DEF OnItsWay
<1> QED BY <1>1, <1>2 DEF EndsInv, OnItsWay, HasAccount, Listed, AccountKeys

LEMMA EndsGoesOn ==
  ASSUME EndsInv, UNCHANGED disturbed, NEW c \in chains, NEW d,
         chains' = (chains \ {c}) \cup {d}, OnItsWay(d, pool', items')
  PROVE  EndsInv'
<1>1. ASSUME ~disturbed PROVE chains' = {d}
  BY <1>1 DEF EndsInv
<1> QED BY <1>1 DEF EndsInv, OnItsWay, HasAccount, Listed, AccountKeys

LEMMA EndsGone ==
  ASSUME EndsInv, UNCHANGED disturbed, NEW c \in chains, chains' = chains \ {c}
  PROVE  EndsInv'
<1>1. ASSUME ~disturbed PROVE chains' = {}
  BY <1>1 DEF EndsInv
<1> QED BY <1>1 DEF EndsInv

LEMMA EndsStep ==
  ASSUME AccountsOK, EndsInv, [AccountsNext]_accountsVars
  PROVE  EndsInv'
<1>a. \A c \in chains : ChainOK(c) /\ c \in Chain
  BY DEF AccountsOK, ChainsOK, ChainOK
<1>b. pool \in Seq(AccountItem)
  BY DEF AccountsOK, PoolOK
<1>c. \A kind, e : Asked(kind, e).at = "sent"
  BY DEF Asked, NoChain
<1>1. ASSUME NEW e \in Addresses, SelectAccount(e) \/ SelectTestAccount(e)
      PROVE  EndsInv'
  BY <1>1, EndsKept DEF SelectAccount, SelectTestAccount, serverAccounts, listShown
<1>2. ASSUME NEW e \in Addresses, StartLogin(e) \/ VerifyCode(e) \/ runQuickTest(e)
      PROVE  EndsInv'
  BY <1>2, <1>c, EndsBegins DEF StartLogin, VerifyCode, runQuickTest
<1>3. ASSUME NEW e \in Addresses, OthersChange(e) PROVE EndsInv'
  BY <1>3 DEF OthersChange, EndsInv
<1>4. ASSUME NEW value, updateAccountEdit(value) PROVE EndsInv'
  BY <1>4, EndsKept DEF updateAccountEdit, serverAccounts, listShown
<1>5. CASE SchedulingInputs
  BY <1>4, <1>5 DEF SchedulingInputs
<1>6. ASSUME NEW text, IdentityInputs(text) \/ ProbeInput(text) PROVE EndsInv'
  BY <1>6, EndsKept DEF IdentityInputs, ProbeInput, serverAccounts, listShown
<1>7. ASSUME NEW e, NEW active, performManualImport(e, active) PROVE EndsInv'
  <2> DEFINE c == [Asked("import", e) EXCEPT !.userID = userID, !.active = active]
  <2>1. c.at = "sent"
    BY DEF Asked, NoChain
  <2>2. Begin(c)
    BY <1>7 DEF performManualImport
  <2> HIDE DEF c
  <2> QED BY <2>1, <2>2, EndsBegins
<1>8. CASE FillForms
  BY <1>8, EndsKept DEF FillForms, serverAccounts, listShown
<1>9. CASE DetailButtons \/ RefreshButton
  <2>1. NoChain.kind = "refresh"
    BY DEF NoChain
  <2>2. CASE RefreshButton
    BY <2>1, <2>2, EndsBegins DEF RefreshButton
  <2>3. CASE DetailButtons
    <3>1. PICK c \in {[Asked("save", selectedEmail) EXCEPT !.row = accountEdits[selectedEmail]],
                      Asked("activate", selectedEmail), Asked("delete", selectedEmail)} : Begin(c)
      BY <2>3, Zenon DEF DetailButtons
    <3>2. c.at = "sent"
      BY <3>1 DEF Asked, NoChain
    <3> QED BY <3>1, <3>2, EndsBegins
  <2> QED BY <1>9, <2>2, <2>3
<1>d. ASSUME NEW c \in chains, NEW email, Served(c, email)
      PROVE  \E d : /\ chains' = (chains \ {c}) \cup {d}
                    /\ d.kind = c.kind /\ d.at = "served" /\ d.email = email
  <2> DEFINE d == [c EXCEPT !.at = "served", !.email = email]
  <2>1. d.kind = c.kind /\ d.at = "served" /\ d.email = email
    BY <1>a DEF Chain
  <2>2. chains' = (chains \ {c}) \cup {d}
    BY <1>d DEF Served
  <2> HIDE DEF d
  <2> QED BY <2>1, <2>2
<1>10. ASSUME NEW c \in chains, ServeStart(c) PROVE EndsInv'
  <2>1. c.email \in Addresses
    BY <1>10, <1>a DEF ServeStart, ChainOK
  <2>2. c.email \in Listed(pool')
    BY <1>10, <1>b, <2>1, AccountStored DEF ServeStart
  <2>3. PICK d : /\ chains' = (chains \ {c}) \cup {d}
                 /\ d.kind = c.kind /\ d.at = "served" /\ d.email = c.email
    BY <1>10, <1>d DEF ServeStart
  <2>4. OnItsWay(d, pool', items')
    BY <2>2, <2>3 DEF OnItsWay, HasAccount
  <2>5. UNCHANGED disturbed
    BY <1>10 DEF ServeStart, panelState
  <2> QED BY <2>3, <2>4, <2>5, EndsGoesOn
<1>11. ASSUME NEW c \in chains, NEW stored \in Addresses, ServeVerify(c, stored)
       PROVE  EndsInv'
  <2>1. c.email \in Addresses /\ c.kind = "verify"
    BY <1>11, <1>a DEF ServeVerify, ChainOK
  <2>2. stored \in Listed(pool')
    BY <1>11, <1>b, <2>1, AccountStored DEF ServeVerify
  <2>3. Key[c.email] \in AccountKeys(pool')
    <3>1. Key[stored] \in AccountKeys(pool')
      BY <2>2 DEF AccountKeys
    <3> QED BY <1>11, <3>1 DEF ServeVerify
  <2>4. PICK d : /\ chains' = (chains \ {c}) \cup {d}
                 /\ d.kind = c.kind /\ d.at = "served" /\ d.email = c.email
    BY <1>11, <1>d DEF ServeVerify
  <2>5. OnItsWay(d, pool', items')
    BY <2>1, <2>3, <2>4 DEF OnItsWay, HasAccount
  <2>6. UNCHANGED disturbed
    BY <1>11 DEF ServeVerify, panelState
  <2> QED BY <2>4, <2>5, <2>6, EndsGoesOn
<1>12. ASSUME NEW c \in chains, NEW stored \in Addresses, ServeImport(c, stored)
       PROVE  EndsInv'
  <2>1. stored \in Listed(pool')
    BY <1>12, <1>b, AccountStored DEF ServeImport
  <2>2. PICK d : /\ chains' = (chains \ {c}) \cup {d}
                 /\ d.kind = c.kind /\ d.at = "served" /\ d.email = stored
    BY <1>12, <1>d DEF ServeImport
  <2>3. OnItsWay(d, pool', items')
    BY <2>1, <2>2 DEF OnItsWay, HasAccount
  <2>4. UNCHANGED disturbed
    BY <1>12 DEF ServeImport, panelState
  <2> QED BY <2>2, <2>3, <2>4, EndsGoesOn
<1>13. ASSUME NEW c \in chains, ServeActivate(c) \/ ServeDelete(c) \/ ServeSave(c)
       PROVE  EndsInv'
  <2>1. PICK d : /\ chains' = (chains \ {c}) \cup {d}
                 /\ d.kind = c.kind /\ d.at = "served" /\ d.email = c.email
    BY <1>13, <1>d DEF ServeActivate, ServeDelete, ServeSave
  <2>2. OnItsWay(d, pool', items')
    BY <1>13, <2>1 DEF ServeActivate, ServeDelete, ServeSave, OnItsWay
  <2>3. UNCHANGED disturbed
    BY <1>13 DEF ServeActivate, ServeDelete, ServeSave, panelState
  <2> QED BY <2>1, <2>2, <2>3, EndsGoesOn
<1>14. ASSUME NEW c \in chains,
              LoginFails(c) \/ ServeTest(c) \/ ChainFails(c) \/ FinishChain(c)
       PROVE  EndsInv'
  <2>1. chains' = chains \ {c} /\ UNCHANGED disturbed
    BY <1>14 DEF LoginFails, ServeTest, ChainFails, FinishChain, panelState
  <2> QED BY <2>1, EndsGone
<1>15. ASSUME NEW c \in chains, ReadAccounts(c) PROVE EndsInv'
  <2> DEFINE d == [c EXCEPT !.at = "read", !.items = pool, !.listedActive = activeAccount]
  <2>1. d.kind = c.kind /\ d.at = "read" /\ d.items = pool /\ d.email = c.email
    BY <1>a DEF Chain
  <2>2. chains' = (chains \ {c}) \cup {d} /\ UNCHANGED disturbed /\ c.at = "served"
    BY <1>15 DEF ReadAccounts, panelState
  <2> HIDE DEF d
  <2>3. ASSUME ~disturbed PROVE OnItsWay(d, pool', items')
    <3>1. OnItsWay(c, pool, items)
      BY <2>3 DEF EndsInv
    <3> QED BY <2>1, <2>2, <3>1 DEF OnItsWay, HasAccount
  <2>4. disturbed => EndsInv'
    BY <2>2 DEF EndsInv
  <2> QED BY <2>2, <2>3, <2>4, EndsGoesOn
<1>16. ASSUME NEW c \in chains, ShowAccounts(c) PROVE EndsInv'
  <2> DEFINE d == [c EXCEPT !.at = "shown", !.items = <<>>, !.listedActive = NoAddress]
  <2>1. d.kind = c.kind /\ d.at = "shown" /\ d.email = c.email
    BY <1>a DEF Chain
  <2>2. /\ chains' = (chains \ {c}) \cup {d} /\ UNCHANGED disturbed /\ c.at = "read"
        /\ items' = c.items
    BY <1>16 DEF ShowAccounts
  <2> HIDE DEF d
  <2>3. ASSUME ~disturbed PROVE OnItsWay(d, pool', items')
    <3>1. OnItsWay(c, pool, items)
      BY <2>3 DEF EndsInv
    <3> QED BY <2>1, <2>2, <3>1 DEF OnItsWay, HasAccount
  <2>4. disturbed => EndsInv'
    BY <2>2 DEF EndsInv
  <2> QED BY <2>2, <2>3, <2>4, EndsGoesOn
<1>17. ASSUME NEW c \in chains, RefreshAllFails(c) PROVE EndsInv'
  BY <1>17 DEF RefreshAllFails, EndsInv
<1>18. CASE UNCHANGED accountsVars
  BY <1>18, EndsKept DEF accountsVars
<1> QED BY <1>1, <1>2, <1>3, <1>5, <1>6, <1>7, <1>8, <1>9, <1>10, <1>11, <1>12,
           <1>13, <1>14, <1>15, <1>16, <1>17, <1>18 DEF AccountsNext

(* A chain that was shown ends at its last step or fails there, and no     *)
(* other step takes a chain at that stage away.                            *)
LEMMA EndsOnItsAccountStep ==
  ASSUME AccountsOK, EndsInv, [AccountsNext]_accountsVars
  PROVE  [\A c \in chains \ chains' :
            (c.kind \in {"start", "verify", "import"} /\ c.at = "shown" /\ ~disturbed)
              => \/ selectedEmail' = selectedEmail
                 \/ selectedEmail' \in Listed(items)
                 \/ c.kind = "verify" /\ Key[selectedEmail'] \in AccountKeys(items)]_accountsVars
<1> SUFFICES ASSUME AccountsNext, NEW c \in chains \ chains',
                    c.kind \in {"start", "verify", "import"}, c.at = "shown", ~disturbed,
                    selectedEmail' # selectedEmail
             PROVE  \/ selectedEmail' \in Listed(items)
                    \/ c.kind = "verify" /\ Key[selectedEmail'] \in AccountKeys(items)
  OBVIOUS
<1>1. HasAccount(items, c)
  BY DEF EndsInv, OnItsWay
<1>2. ASSUME NEW d \in chains, FinishChain(d)
      PROVE  selectedEmail' = c.email
  <2>1. d = c
    BY DEF EndsInv
  <2> QED BY <1>2, <2>1 DEF FinishChain, populateEmail
<1>3. \E d \in chains : FinishChain(d)
  <2>1. ASSUME NEW x, Begin(x) PROVE FALSE
    BY <2>1 DEF Begin
  <2>2. ASSUME NEW d \in chains,
               \/ ServeStart(d) \/ LoginFails(d) \/ ServeActivate(d) \/ ServeDelete(d)
               \/ ServeSave(d) \/ ServeTest(d) \/ ReadAccounts(d) \/ ChainFails(d)
               \/ RefreshAllFails(d)
               \/ \E stored \in Addresses : ServeVerify(d, stored) \/ ServeImport(d, stored)
        PROVE  selectedEmail' = selectedEmail
    BY <2>2 DEF ServeStart, LoginFails, ServeActivate, ServeDelete, ServeSave, ServeTest,
                ReadAccounts, ChainFails, RefreshAllFails, ServeVerify, ServeImport, panelState
  <2>3. ASSUME NEW d \in chains, ShowAccounts(d) PROVE FALSE
    <3>1. d = c
      BY DEF EndsInv
    <3> QED BY <2>3, <3>1 DEF ShowAccounts
  <2>4. ASSUME NEW e, SelectAccount(e) \/ SelectTestAccount(e) \/ OthersChange(e)
        PROVE  FALSE
    BY <2>4 DEF SelectAccount, SelectTestAccount, OthersChange
  <2>5. ASSUME NEW e, StartLogin(e) \/ VerifyCode(e) \/ runQuickTest(e) PROVE FALSE
    BY <2>1, <2>5 DEF StartLogin, VerifyCode, runQuickTest
  <2>6. ~SchedulingInputs /\ ~FillForms
    BY DEF SchedulingInputs, updateAccountEdit, FillForms
  <2>7. \A text : ~IdentityInputs(text) /\ ~ProbeInput(text)
    BY DEF IdentityInputs, ProbeInput
  <2>8. \A e, active : ~performManualImport(e, active)
    BY <2>1 DEF performManualImport
  <2>9. ~DetailButtons /\ ~RefreshButton
    BY <2>1 DEF DetailButtons, RefreshButton
  <2> QED BY <2>2, <2>3, <2>4, <2>5, <2>6, <2>7, <2>8, <2>9 DEF AccountsNext
<1> QED BY <1>1, <1>2, <1>3 DEF HasAccount

AccountsPart == IF activeTab = "accounts" THEN AccountsOK /\ EndsInv ELSE AccountsAbsent

LEMMA AccountsPageStep ==
  ASSUME [Next]_vars
  PROVE  /\ activeTab' = activeTab
         /\ activeTab = "accounts" => [AccountsNext]_accountsVars
         /\ activeTab # "accounts" => UNCHANGED accountsVars
BY DEF Next, vars, InTheme, InConversations, InTester, InSettings, InAccounts

LEMMA AccountsPartInit == ASSUME Init PROVE AccountsPart
<1>1. AccountsInit => EndsInv
  BY DEF AccountsInit, EndsInv
<1> QED BY <1>1, AccountsInitOK DEF Init, AccountsPart

LEMMA AccountsPartStep ==
  ASSUME AccountsPart, [Next]_vars PROVE AccountsPart'
<1>1. CASE activeTab = "accounts"
  BY <1>1, AccountsPageStep, AccountsOKStep, EndsStep DEF AccountsPart
<1>2. CASE activeTab # "accounts"
  BY <1>2, AccountsPageStep DEF AccountsPart, AccountsAbsent, accountsVars
<1> QED BY <1>1, <1>2

LEMMA AccountsPartHolds == Spec => []AccountsPart
BY AccountsPartInit, AccountsPartStep, PTL DEF Spec

(* A login or an import that nothing else crossed ends on its account.     *)
THEOREM PageEndsOnItsAccount == Spec => EndsOnItsAccount
<1> DEFINE Step ==
      \A c \in chains \ chains' :
        (c.kind \in {"start", "verify", "import"} /\ c.at = "shown" /\ ~disturbed)
          => \/ selectedEmail' = selectedEmail
             \/ selectedEmail' \in Listed(items)
             \/ c.kind = "verify" /\ Key[selectedEmail'] \in AccountKeys(items)
<1>1. ASSUME AccountsPart, [Next]_vars PROVE [Step]_accountsVars
  <2>1. CASE activeTab = "accounts"
    BY <1>1, <2>1, AccountsPageStep, EndsOnItsAccountStep DEF AccountsPart
  <2>2. CASE activeTab # "accounts"
    BY <1>1, <2>2, AccountsPageStep
  <2> QED BY <2>1, <2>2
<1> QED BY <1>1, AccountsPartHolds, PTL DEF Spec, EndsOnItsAccount

----------------------------------------------------------------------------
(* The settings.  The panel keeps its invariant while it is in front, and  *)
(* has no state otherwise.                                                 *)

SettingsPart == IF activeTab = "settings" THEN SettingsInv ELSE SettingsAbsent

LEMMA SettingsPageStep ==
  ASSUME [Next]_vars
  PROVE  /\ activeTab' = activeTab
         /\ activeTab = "settings" => [SettingsNext]_formVars
         /\ activeTab # "settings" => UNCHANGED formVars
BY DEF Next, vars, InTheme, InConversations, InTester, InSettings, InAccounts

LEMMA SettingsPartInit == ASSUME Init PROVE SettingsPart
BY SettingsInitInv DEF Init, SettingsPart

LEMMA SettingsPartStep ==
  ASSUME SettingsPart, [Next]_vars PROVE SettingsPart'
<1>1. CASE activeTab = "settings"
  BY <1>1, SettingsPageStep, SettingsStep DEF SettingsPart
<1>2. CASE activeTab # "settings"
  BY <1>2, SettingsPageStep DEF SettingsPart, SettingsAbsent, formVars
<1> QED BY <1>1, <1>2

LEMMA SettingsPartHolds == Spec => []SettingsPart
BY SettingsPartInit, SettingsPartStep, PTL DEF Spec

(* A save changes on the server only what was changed in the form.         *)
THEOREM PageSavesOnlyEdits == Spec => SavesOnlyEdits
<1> DEFINE Step ==
      jobs["save"].at = "sent" /\ jobs'["save"].at = "served" =>
        LET job == jobs["save"]
            force == job.payload["forceDisableUpstreamEdits"] = "on"
            shown == Read(serverConfig)
        IN  \A f \in (AppConfigShape \ {"persistConversations"}) \ job.edits :
              (/\ f \in {"readOnly", "writerMode"} => ~force
               /\ f \in OmittedWhenEmpty => serverConfig[f] \notin {"", "0"}
               /\ Meaning(shown, f) = Meaning(job.base, f))
              => Meaning(serverConfig', f) = Meaning(serverConfig, f)
<1>1. ASSUME SettingsPart, [Next]_vars PROVE [Step]_formVars
  <2>1. CASE activeTab = "settings"
    BY <1>1, <2>1, SettingsPageStep, SavesOnlyEditsStep DEF SettingsPart
  <2>2. CASE activeTab # "settings"
    BY <1>1, <2>2, SettingsPageStep
  <2> QED BY <2>1, <2>2
<1> QED BY <1>1, SettingsPartHolds, PTL DEF Spec, SavesOnlyEdits

(* The form shows what was saved once the page has read it back.           *)
THEOREM PageShowsSaved == Spec => SavedIsShown
<1> DEFINE Step ==
      LET job == jobs["save"]
      IN  (/\ job.at = "read" /\ jobs'["save"].at = "idle"
           /\ config' = job.copy /\ job.alone)
          => \A f \in SettingsFormState \ (Secrets \cup {"modelAliases"}) :
               job.payload[f] \notin {"", " ", "0"} => form'[f] = job.payload[f]
<1>1. ASSUME SettingsPart, [Next]_vars PROVE [Step]_formVars
  <2>1. CASE activeTab = "settings"
    BY <1>1, <2>1, SettingsPageStep, SavedIsShownStep DEF SettingsPart
  <2>2. CASE activeTab # "settings"
    BY <1>1, <2>2, SettingsPageStep
  <2> QED BY <2>1, <2>2
<1> QED BY <1>1, SettingsPartHolds, PTL DEF Spec, SavedIsShown

----------------------------------------------------------------------------
(* Everything the page keeps has its type, and the panels that are not in  *)
(* front keep nothing.                                                     *)
THEOREM PageTypeCorrect == Spec => []TypeOK
<1> DEFINE Typed == activeTab \in Tabs /\ ConsoleTypeOK /\ TesterTypeOK
<1>1. Init => Typed
  BY ConsoleTypesInit, TesterTypesInit DEF Init
<1>2. Typed /\ [Next]_vars => Typed'
  BY PageStep, SettingsPageStep, ConsoleTypesStep, TesterTypesStep
<1>3. Spec => []Typed
  BY <1>1, <1>2, PTL DEF Spec
<1>4. Spec => []ThemeTypeOK
  <2>1. Spec => ThemeSpec
    BY PageStep, PTL DEF Spec, Init, ThemeSpec
  <2> QED BY <2>1, ThemeTypeCorrect, PTL
<1>5. Typed /\ ThemeTypeOK /\ SettingsPart /\ AccountsPart => TypeOK
  BY SettingsTyped, AccountsTyped DEF TypeOK, SettingsPart, AccountsPart
<1> QED BY <1>3, <1>4, <1>5, SettingsPartHolds, AccountsPartHolds, PTL

=============================================================================
