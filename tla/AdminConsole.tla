---------------------------- MODULE AdminConsole -----------------------------
(***************************************************************************)
(* The state behind the administration page (use-admin-console.ts) with    *)
(* the conversations panel in front: the session, the payloads, the list   *)
(* of conversations, their cached details and the stream of events.        *)
(*                                                                         *)
(* A call is a chain of requests.  What a request reads on the server and  *)
(* what the page makes of its reply are two steps, so replies overtake     *)
(* each other and the events, which come over a connection of their own.   *)
(* A conversation is known by the stamp of its latest change (updated_at), *)
(* 0 where there is none.  An event carries the summary and the whole      *)
(* conversation.  The server never tells of a deletion.                    *)
(***************************************************************************)
EXTENDS Integers, Sequences, FiniteSets

CONSTANTS
  Threads,          \* ids of conversations
  NoThread,         \* ""
  MaxStamp,         \* changes of conversations in a behaviour (a bound)
  MaxCalls,         \* calls under way when the administrator starts one (a bound)
  MaxClicks         \* clicks, lost sessions and broken streams (a bound)

ASSUME ConsoleAssumption ==
  /\ NoThread \notin Threads
  /\ MaxStamp \in Nat /\ MaxCalls \in Nat /\ MaxClicks \in Nat

VARIABLES
  session,          \* the server knows the session of this browser
  updatedAt, deleted, clock,  \* conversations of the server, ids used up, time
  verify,           \* "unknown", "in" or "out"
  payloads,         \* config, version, health and accounts are loaded
  conversations, conversationDetails,    \* stamps of the list and of the cache
  selectedConversationId,
  eventSource,      \* "none", "open", or "dead": closed by the browser for good
  sse,              \* events on their way
  calls,
  behind, unsure,   \* ghosts: where the list and the cache may be wrong, see below
  late,             \* ghost: a reply was shown after the page was cleared
  clicks

server == <<session, updatedAt, deleted, clock>>
cache == <<conversations, conversationDetails, selectedConversationId>>
stream == <<eventSource, sse>>
consoleVars == <<server, verify, payloads, cache, stream, calls, behind, unsure,
                 late, clicks>>

----------------------------------------------------------------------------
(* The data.                                                               *)

Stamps == [Threads -> 0..MaxStamp]
None == [c \in Threads |-> 0]

(* ids are the conversations to delete or to read, items what was read.    *)
(* sure (ghost): the conversations nothing happened to since the read that *)
(* the reply does not know of.                                             *)
Stages == {"login", "logout", "verify", "verified", "bundle", "bundled",
           "list", "listed", "delete", "deleted", "detail", "detailed"}
Call(at, ids) == [at |-> at, ids |-> ids, signedIn |-> FALSE, items |-> None, sure |-> {}]

ConsoleTypeOK ==
  /\ session \in BOOLEAN
  /\ updatedAt \in Stamps /\ deleted \subseteq Threads /\ clock \in 0..MaxStamp
  /\ verify \in {"unknown", "in", "out"}
  /\ payloads \in BOOLEAN
  /\ conversations \in Stamps /\ conversationDetails \in Stamps
  /\ selectedConversationId \in Threads \cup {NoThread}
  /\ eventSource \in {"none", "open", "dead"}
  /\ sse \in Seq([id : Threads, at : 1..MaxStamp])
  /\ calls \subseteq [at : Stages, ids : SUBSET Threads, signedIn : BOOLEAN,
                      items : Stamps, sure : SUBSET Threads]
  /\ behind \subseteq Threads /\ unsure \subseteq Threads
  /\ late \in BOOLEAN
  /\ clicks \in 0..MaxClicks

(* sortConversations: the latest change first.                             *)
firstOf(list) ==
  IF list = None THEN NoThread
  ELSE CHOOSE c \in Threads : \A d \in Threads : list[d] <= list[c]

Waiting == {sse[i].id : i \in DOMAIN sse}

(* Those whose events on their way do not end with what the server has.    *)
Outdated ==
  {sse[i].id : i \in {i \in DOMAIN sse : /\ sse[i].at # updatedAt[sse[i].id]
                                         /\ \A j \in DOMAIN sse : sse[j].id = sse[i].id => j <= i}}

(* Something happened to the conversations of D that no reply knows of.    *)
Disturbed(cs, D) == {[x EXCEPT !.sure = @ \ D] : x \in cs}

(* The effects of a render: a selection that is not listed gives way to    *)
(* the first conversation, whose detail the panel then asks for.           *)
Settle(list, details, selected, cs) ==
  LET first == firstOf(list)
      keep == selected # NoThread /\ list[selected] # 0
  IN  /\ conversations' = list
      /\ conversationDetails' = details
      /\ selectedConversationId' = IF keep THEN selected ELSE first
      /\ calls' = IF keep \/ first = NoThread \/ details[first] # 0 THEN cs
                  ELSE cs \cup {Call("detail", {first})}

ConsoleInit ==
  /\ session \in BOOLEAN
  /\ updatedAt = None /\ deleted = {} /\ clock = 0
  /\ verify = "unknown"
  /\ payloads = FALSE
  /\ conversations = None /\ conversationDetails = None
  /\ selectedConversationId = NoThread
  /\ eventSource = "none" /\ sse = <<>>
  /\ calls = {Call("verify", {})}
  /\ behind = Threads /\ unsure = {}
  /\ late = FALSE
  /\ clicks = 0

----------------------------------------------------------------------------
(* The server changes a conversation and announces it; an event may be     *)
(* lost, and without a stream nobody hears it.                             *)

Publish(c, reaches) ==
  /\ c \notin deleted
  /\ clock < MaxStamp
  /\ reaches => eventSource = "open"
  /\ clock' = clock + 1
  /\ updatedAt' = [updatedAt EXCEPT ![c] = clock']
  /\ IF reaches
     THEN /\ sse' = Append(sse, [id |-> c, at |-> clock'])
          /\ UNCHANGED <<calls, behind, unsure>>
     ELSE /\ calls' = Disturbed(calls, {c})
          /\ behind' = behind \cup {c} /\ unsure' = unsure \cup {c}
          /\ UNCHANGED sse
  /\ UNCHANGED <<session, deleted, verify, payloads, cache, eventSource, late, clicks>>

(* Conversations are deleted.  Nobody is told, and an event about them     *)
(* that is still on its way brings them back.                              *)
Remove(D) ==
  /\ updatedAt' = [c \in Threads |-> IF c \in D THEN 0 ELSE updatedAt[c]]
  /\ deleted' = deleted \cup D
  /\ behind' = behind \cup D

OthersDelete(c) ==
  /\ clicks < MaxClicks
  /\ updatedAt[c] # 0
  /\ Remove({c})
  /\ calls' = Disturbed(calls, {c})
  /\ clicks' = clicks + 1
  /\ UNCHANGED <<session, clock, verify, payloads, cache, stream, unsure, late>>

SessionEnds ==
  /\ session /\ clicks < MaxClicks
  /\ session' = FALSE
  /\ clicks' = clicks + 1
  /\ UNCHANGED <<updatedAt, deleted, clock, verify, payloads, cache, stream, calls,
                 behind, unsure, late>>

(* The connection breaks and the browser connects again, which loses the   *)
(* events in between; a refusal closes the stream for good.                *)
StreamBreaks ==
  /\ eventSource = "open" /\ clicks < MaxClicks
  /\ eventSource' = IF session THEN "open" ELSE "dead"
  /\ sse' = <<>>
  /\ calls' = Disturbed(calls, Waiting)
  /\ behind' = behind \cup Waiting /\ unsure' = unsure \cup Waiting
  /\ clicks' = clicks + 1
  /\ UNCHANGED <<server, verify, payloads, cache, late>>

(* A mutation of handleEvent: the summary of a listed one is passed over.  *)
handleEventOfNew ==
  /\ sse # <<>>
  /\ LET c == Head(sse).id
     IN  /\ Settle([conversations EXCEPT ![c] = IF @ = 0 THEN Head(sse).at ELSE @],
                   [conversationDetails EXCEPT ![c] = Head(sse).at],
                   IF selectedConversationId = NoThread THEN c ELSE selectedConversationId,
                   Disturbed(calls, {c}))
  /\ sse' = Tail(sse)
  /\ UNCHANGED <<server, verify, payloads, eventSource, behind, unsure, late, clicks>>

(* handleEvent: the summary goes to the list, the conversation to the      *)
(* cache, and one that was just created is selected if nothing is.         *)
handleEvent ==
  /\ sse # <<>>
  /\ LET c == Head(sse).id
     IN  /\ Settle([conversations EXCEPT ![c] = Head(sse).at],
                   [conversationDetails EXCEPT ![c] = Head(sse).at],
                   IF selectedConversationId = NoThread THEN c ELSE selectedConversationId,
                   Disturbed(calls, {c}))
  /\ sse' = Tail(sse)
  /\ UNCHANGED <<server, verify, payloads, eventSource, behind, unsure, late, clicks>>

----------------------------------------------------------------------------
(* The buttons.                                                            *)

Click(x) ==
  /\ clicks < MaxClicks /\ Cardinality(calls) < MaxCalls
  /\ x \notin calls
  /\ calls' = calls \cup {x}
  /\ clicks' = clicks + 1

unaffected == <<server, verify, payloads, stream, behind, unsure, late>>

refreshAll == verify # "unknown" /\ Click(Call("verify", {})) /\ UNCHANGED <<unaffected, cache>>
login == verify = "out" /\ Click(Call("login", {})) /\ UNCHANGED <<unaffected, cache>>
logout == verify = "in" /\ Click(Call("logout", {})) /\ UNCHANGED <<unaffected, cache>>
refreshConversations == verify = "in" /\ Click(Call("list", {})) /\ UNCHANGED <<unaffected, cache>>

deleteConversations(D) ==
  /\ verify = "in"
  /\ D # {} /\ \A c \in D : conversations[c] # 0
  /\ Click(Call("delete", D))
  /\ UNCHANGED <<unaffected, cache>>

(* onSelect: a detail that is cached is not read again.                    *)
selectConversation(c) ==
  /\ verify = "in" /\ conversations[c] # 0
  /\ selectedConversationId' = c
  /\ IF conversationDetails[c] # 0 THEN UNCHANGED <<calls, clicks>>
     ELSE Click(Call("detail", {c}))
  /\ UNCHANGED <<unaffected, conversations, conversationDetails>>

----------------------------------------------------------------------------
(* The server serves a request of call x, which goes on as y.              *)

page == <<verify, payloads, cache, stream, unsure, late, clicks>>

GoesOn(x, y) == calls' = (calls \ {x}) \cup {y}

ServeLogin(x) ==
  /\ x.at = "login"
  /\ session' = TRUE
  /\ GoesOn(x, Call("verify", {}))
  /\ UNCHANGED <<updatedAt, deleted, clock, behind, page>>

ServeLogout(x) ==
  /\ x.at = "logout"
  /\ session' = FALSE
  /\ GoesOn(x, Call("verify", {}))
  /\ UNCHANGED <<updatedAt, deleted, clock, behind, page>>

ServeSession(x) ==
  /\ x.at = "verify"
  /\ GoesOn(x, [x EXCEPT !.at = "verified", !.signedIn = session])
  /\ UNCHANGED <<server, behind, page>>

ServeBundle(x) ==
  /\ x.at = "bundle" /\ session
  /\ GoesOn(x, [x EXCEPT !.at = "bundled"])
  /\ UNCHANGED <<server, behind, page>>

(* A batch succeeds whatever part of it was deleted.                       *)
ServeDeletion(x, done) ==
  /\ x.at = "delete" /\ session
  /\ done \subseteq {c \in x.ids : updatedAt[c] # 0}
  /\ Cardinality(x.ids) = 1 => done = x.ids
  /\ Remove(done)
  /\ calls' = Disturbed(calls \ {x}, done) \cup {[x EXCEPT !.at = "deleted"]}
  /\ UNCHANGED <<session, clock, page>>

ServeList(x) ==
  /\ x.at = "list" /\ session
  /\ GoesOn(x, [x EXCEPT !.at = "listed", !.items = updatedAt,
                         !.sure = Threads \ Outdated])
  /\ UNCHANGED <<server, behind, page>>

ServeDetail(x) ==
  /\ x.at = "detail" /\ session
  /\ \A c \in x.ids : updatedAt[c] # 0
  /\ GoesOn(x, [x EXCEPT !.at = "detailed", !.sure = x.ids \ Outdated,
                         !.items = [c \in Threads |-> IF c \in x.ids THEN updatedAt[c] ELSE 0]])
  /\ UNCHANGED <<server, behind, page>>

(* A call that is refused, or whose request or reply is lost, ends.        *)
CallFails(x) ==
  /\ calls' = calls \ {x}
  /\ UNCHANGED <<server, behind, page>>

----------------------------------------------------------------------------
(* The page receives a reply.                                              *)

(* Signed in: the stream is opened unless there is one.                    *)
ShowSignedIn(x) ==
  /\ x.at = "verified" /\ x.signedIn
  /\ verify' = "in"
  /\ eventSource' = IF eventSource = "none" THEN IF session THEN "open" ELSE "dead"
                    ELSE eventSource
  /\ GoesOn(x, Call("bundle", {}))
  /\ UNCHANGED <<server, payloads, cache, sse, behind, unsure, late, clicks>>

(* A mutation of ShowSignedOut: the cached details are kept.               *)
ShowSignedOutKeeping(x) ==
  /\ x.at = "verified" /\ ~x.signedIn
  /\ verify' = "out"
  /\ payloads' = FALSE
  /\ conversations' = None
  /\ selectedConversationId' = NoThread
  /\ eventSource' = "none" /\ sse' = <<>>
  /\ calls' = Disturbed(calls \ {x}, Waiting)
  /\ behind' = Threads /\ unsure' = {}
  /\ late' = FALSE
  /\ UNCHANGED <<server, conversationDetails, clicks>>

(* Signed out: the stream is closed and everything is cleared.             *)
ShowSignedOut(x) ==
  /\ x.at = "verified" /\ ~x.signedIn
  /\ verify' = "out"
  /\ payloads' = FALSE
  /\ conversations' = None /\ conversationDetails' = None
  /\ selectedConversationId' = NoThread
  /\ eventSource' = "none" /\ sse' = <<>>
  /\ calls' = Disturbed(calls \ {x}, Waiting)
  /\ behind' = Threads /\ unsure' = {}
  /\ late' = FALSE
  /\ UNCHANGED <<server, clicks>>

ShowBundle(x) ==
  /\ x.at = "bundled"
  /\ payloads' = TRUE
  /\ GoesOn(x, Call("list", {}))
  /\ late' = (late \/ verify = "out")
  /\ UNCHANGED <<server, verify, cache, stream, behind, unsure, clicks>>

(* Details of what was to be deleted are dropped, deleted or not.          *)
ShowDeleted(x) ==
  /\ x.at = "deleted"
  /\ conversationDetails' = [c \in Threads |->
                               IF c \in x.ids THEN 0 ELSE conversationDetails[c]]
  /\ GoesOn(x, Call("list", {}))
  /\ UNCHANGED <<server, verify, payloads, conversations, selectedConversationId,
                 stream, behind, unsure, late, clicks>>

(* loadConversations, and the forced detail of refreshConversations.       *)
ShowList(x) ==
  /\ x.at = "listed"
  /\ LET keep == selectedConversationId # NoThread /\ x.items[selectedConversationId] # 0
         target == IF keep THEN selectedConversationId ELSE firstOf(x.items)
     IN  Settle(x.items, conversationDetails, target,
                (calls \ {x}) \cup IF target = NoThread THEN {}
                                   ELSE {Call("detail", {target})})
  /\ behind' = Threads \ x.sure
  /\ late' = (late \/ verify = "out")
  /\ UNCHANGED <<server, verify, payloads, stream, unsure, clicks>>

(* rememberConversation; a forced detail had selected the conversation     *)
(* again when it was asked for.                                            *)
ShowDetail(x) ==
  /\ x.at = "detailed"
  /\ conversationDetails' = [c \in Threads |->
       IF c \in x.ids THEN x.items[c] ELSE conversationDetails[c]]
  /\ unsure' = (unsure \ x.sure) \cup (x.ids \ x.sure)
  /\ calls' = calls \ {x}
  /\ late' = (late \/ verify = "out")
  /\ UNCHANGED <<server, verify, payloads, conversations, selectedConversationId,
                 stream, behind, clicks>>

ConsoleNext ==
  \/ \E c \in Threads : \/ \E reaches \in BOOLEAN : Publish(c, reaches)
                        \/ OthersDelete(c) \/ selectConversation(c)
  \/ SessionEnds \/ StreamBreaks \/ handleEvent
  \/ refreshAll \/ login \/ logout \/ refreshConversations
  \/ \E D \in SUBSET Threads : deleteConversations(D)
  \/ \E x \in calls :
       \/ ServeLogin(x) \/ ServeLogout(x) \/ ServeSession(x) \/ ServeBundle(x)
       \/ \E done \in SUBSET Threads : ServeDeletion(x, done)
       \/ ServeList(x) \/ ServeDetail(x) \/ CallFails(x)
       \/ ShowSignedIn(x) \/ ShowSignedOut(x) \/ ShowBundle(x)
       \/ ShowDeleted(x) \/ ShowList(x) \/ ShowDetail(x)

ConsoleSpec == ConsoleInit /\ [][ConsoleNext]_consoleVars

----------------------------------------------------------------------------
(* What the page shows of a conversation is what the server has, once no   *)
(* event about it is on its way, except where a lost event, a deletion     *)
(* nobody told of, or a reply that an event overtook left it behind: the   *)
(* next list or detail read in order makes up for that.                    *)
ViewIsCurrent ==
  verify = "in" =>
    \A c \in Threads \ Waiting :
      /\ c \notin behind => conversations[c] = updatedAt[c]
      /\ (c \notin behind \cup unsure /\ conversations[c] # 0)
           => conversationDetails[c] \in {0, updatedAt[c]}

(* A page that learned it is signed out has closed its stream, and keeps   *)
(* nothing of the session but what a reply asked for before brings late.   *)
ClearedAfterLogout ==
  /\ verify # "in" => eventSource = "none" /\ sse = <<>>
  /\ (verify = "out" /\ ~late) =>
       /\ ~payloads
       /\ conversations = None /\ conversationDetails = None
       /\ selectedConversationId = NoThread

=============================================================================
