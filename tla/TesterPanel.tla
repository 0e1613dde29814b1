----------------------------- MODULE TesterPanel -----------------------------
(***************************************************************************)
(* The API tester of the administration page (tester-panel.tsx).  A run is *)
(* a chain of steps: the attachments are read, POST /admin/test is served, *)
(* its reply is received, the list of conversations is reloaded            *)
(* (admin-console.tsx), and only then does the panel look at the reply.    *)
(* The chain keeps using the values of the render it was clicked in, while *)
(* the administrator goes on editing the form.                             *)
(***************************************************************************)
EXTENDS Integers, FiniteSets

CONSTANTS
  Ids,          \* conversation ids, typed, generated or made by the server
  NoText,        \* ""
  Spaces         \* a text of spaces

ASSUME TesterAssumption == NoText \notin Ids /\ Spaces \notin Ids /\ NoText # Spaces

VARIABLES
  useConversationID, conversationID,    \* the switch and the field
  draft,        \* what there is to send: "nothing", a "prompt" or "files"
  run,          \* the chain of performRun, or where it is not running
  known,        \* conversations of the server
  continuable,  \* those whose upstream thread can be continued
  usedIds,      \* ids that exist anywhere
  lastId,       \* ghost: the id the latest run with the switch on ended with
  edited        \* ghost: the field was changed otherwise since that run

testerServer == <<known, continuable>>
testerVars == <<useConversationID, conversationID, draft, run,
                testerServer, usedIds, lastId, edited>>

IdTexts == Ids \cup {NoText, Spaces}
TrimmedId(text) == IF text = Spaces THEN NoText ELSE text

(* on, files and field are the switch, the attachments and the field at    *)
(* the click; same (ghost): the latest run with the switch on left the     *)
(* field as it was at this click.                                          *)
NoRun == [at |-> "idle", on |-> FALSE, files |-> FALSE, field |-> NoText,
         same |-> FALSE, id |-> NoText, answer |-> NoText]

TesterRun ==
  [at : {"idle", "reading", "sent", "answered", "refused", "listing"},
   on : BOOLEAN, files : BOOLEAN, field : IdTexts, same : BOOLEAN,
   id : Ids \cup {NoText}, answer : Ids \cup {NoText}]

TesterTypeOK ==
  /\ useConversationID \in BOOLEAN
  /\ draft \in {"nothing", "prompt", "files"}
  /\ conversationID \in IdTexts
  /\ run \in TesterRun
  /\ continuable \subseteq known /\ known \subseteq usedIds /\ usedIds \subseteq Ids
  /\ lastId \in Ids \cup {NoText}
  /\ edited \in BOOLEAN

TesterInit ==
  /\ useConversationID = FALSE
  /\ conversationID = NoText
  /\ draft = "nothing"
  /\ run = NoRun
  /\ known = {} /\ continuable = {} /\ usedIds = {}
  /\ lastId = NoText
  /\ edited = FALSE

----------------------------------------------------------------------------
(* The inputs.                                                             *)

ToggleTile(on) ==
  /\ useConversationID' = on
  /\ UNCHANGED <<conversationID, draft, run, testerServer, usedIds,
                 lastId, edited>>

DraftInputs(content) ==
  /\ draft' = content
  /\ UNCHANGED <<useConversationID, conversationID, run, testerServer, usedIds,
                 lastId, edited>>

(* The field is disabled while the switch is off, the button that clears   *)
(* it only while it is empty.                                              *)
EditConversationID(text) ==
  /\ IF text = NoText THEN conversationID # NoText ELSE useConversationID
  /\ conversationID' = text
  /\ edited' = TRUE
  /\ usedIds' = usedIds \cup ({text} \cap Ids)
  /\ UNCHANGED <<useConversationID, draft, run, testerServer, lastId>>

----------------------------------------------------------------------------
(* performRun.                                                             *)

ClickRun ==
  /\ run = NoRun
  /\ draft # "nothing"
  /\ run' = [NoRun EXCEPT !.at = "reading", !.on = useConversationID,
                         !.files = (draft = "files"), !.field = conversationID,
                         !.same = lastId # NoText /\ ~edited]
  /\ UNCHANGED <<useConversationID, conversationID, draft, testerServer, usedIds,
                 lastId, edited>>

(* The id a run sends: with the switch on, the one of the field as it was  *)
(* at the click, or a generated one, which the field then shows.           *)
SendRun(generated) ==
  LET normalized == TrimmedId(run.field)
      id == IF ~run.on THEN NoText
            ELSE IF normalized # NoText THEN normalized ELSE generated
  IN  /\ run.at = "reading"
      /\ generated \in Ids \ usedIds
      /\ run' = [NoRun EXCEPT !.at = "sent", !.on = run.on, !.id = id]
      /\ IF run.on /\ normalized = NoText
         THEN conversationID' = id /\ usedIds' = usedIds \cup {id}
         ELSE UNCHANGED <<conversationID, usedIds>>
      /\ IF run.on
         THEN lastId' = id /\ edited' = (conversationID' # id)
         ELSE UNCHANGED <<lastId, edited>>
      /\ UNCHANGED <<useConversationID, draft, testerServer>>

(* readFilesAsAttachments fails.                                           *)
ReadFails ==
  /\ run.at = "reading" /\ run.files
  /\ run' = NoRun
  /\ UNCHANGED <<useConversationID, conversationID, draft,
                 testerServer, usedIds, lastId, edited>>

(* handleAdminTest: a request that is refused leaves nothing.  Otherwise   *)
(* the named conversation goes on if its thread can be continued; if not,  *)
(* one is begun under that id, or under a new one when the id is taken.    *)
(* A turn that fails upstream stays in the list without a thread.          *)
ServeRun(made, succeeds) ==
  LET id == IF run.id \in continuable THEN run.id
            ELSE IF run.id \in Ids \ known THEN run.id ELSE made
  IN  /\ run.at = "sent"
      /\ made \in Ids \ usedIds
      /\ known' = known \cup {id}
      /\ usedIds' = usedIds \cup {id}
      /\ continuable' = IF succeeds THEN continuable \cup {id} ELSE continuable
      /\ run' = IF succeeds THEN [run EXCEPT !.at = "answered", !.answer = id]
                ELSE [run EXCEPT !.at = "refused"]
      /\ UNCHANGED <<useConversationID, conversationID, draft,
                     lastId, edited>>

RefuseRun ==
  /\ run.at = "sent"
  /\ run' = [run EXCEPT !.at = "refused"]
  /\ UNCHANGED <<useConversationID, conversationID, draft,
                 testerServer, usedIds, lastId, edited>>

(* onRun: the reply arrives and loadConversations is sent, or it is an     *)
(* error, or it is lost on the way.                                        *)
ReceiveAnswer ==
  /\ run.at = "answered"
  /\ run' = [run EXCEPT !.at = "listing"]
  /\ UNCHANGED <<useConversationID, conversationID, draft,
                 testerServer, usedIds, lastId, edited>>

RunFails ==
  /\ run.at \in {"answered", "refused", "listing"}
  /\ run' = NoRun
  /\ UNCHANGED <<useConversationID, conversationID, draft,
                 testerServer, usedIds, lastId, edited>>

(* A mutation of RunEnds: the id the service answered with is not shown.   *)
RunEndsAsAsked ==
  /\ run.at = "listing"
  /\ lastId' = IF run.on THEN run.answer ELSE lastId
  /\ edited' = IF run.on THEN FALSE ELSE edited
  /\ run' = NoRun
  /\ UNCHANGED <<useConversationID, conversationID, draft, testerServer, usedIds>>

(* The list is there: the field shows the id of the reply, whatever it     *)
(* shows by now and whether or not the run carried one.                    *)
RunEnds ==
  /\ run.at = "listing"
  /\ conversationID' = run.answer
  /\ lastId' = IF run.on THEN run.answer ELSE lastId
  /\ edited' = ~run.on
  /\ run' = NoRun
  /\ UNCHANGED <<useConversationID, draft, testerServer, usedIds>>

TesterNext ==
  \/ \E on \in BOOLEAN : ToggleTile(on)
  \/ \E content \in {"nothing", "prompt", "files"} : DraftInputs(content)
  \/ \E text \in IdTexts : EditConversationID(text)
  \/ ClickRun
  \/ \E generated \in Ids : SendRun(generated)
  \/ ReadFails
  \/ \E made \in Ids, succeeds \in BOOLEAN : ServeRun(made, succeeds)
  \/ RefuseRun \/ ReceiveAnswer \/ RunFails \/ RunEnds

TesterSpec == TesterInit /\ [][TesterNext]_testerVars

----------------------------------------------------------------------------
(* "With the switch on, the same test conversation is reused" (line 191):  *)
(* unless the field was changed in between, a run with the switch on asks  *)
(* for the conversation the one before it ended with, also when that one   *)
(* failed, lost its reply, or was answered with another id.                *)
OnReusesOne ==
  [][(run.at = "reading" /\ run'.at = "sent" /\ run.on /\ run.same)
       => run'.id = lastId]_testerVars

=============================================================================
