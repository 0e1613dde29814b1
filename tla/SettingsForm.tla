---------------------------- MODULE SettingsForm ----------------------------
(***************************************************************************)
(* The settings panel (settings-panel.tsx): a form filled from the copy of *)
(* the configuration the page last read, edited by the administrator, and  *)
(* saved as a whole: the copy is cloned, every field of the form is        *)
(* written into the clone, and PUT /admin/settings merges the clone into   *)
(* the configuration of that moment.  Saves and imports are followed by a  *)
(* refresh of the page, whose new copy fills the form again, whatever was  *)
(* typed meanwhile.  Another administrator may save at any time.           *)
(*                                                                         *)
(* Texts are abstract: "" is empty, " " blank, "default" the default of    *)
(* the field, "a" another, "0" and "1.5" numbers, "on" and "off" flags.    *)
(*  The same values stand for what the configuration holds.                *)
(***************************************************************************)
EXTENDS Integers, FiniteSets

CONSTANTS
  Focuses,      \* sets of settings; one of them changes in a behaviour (a bound)
  MaxOutside    \* imports, and saves by others, in a behaviour (a bound)

----------------------------------------------------------------------------
(* The fields, by the section of the panel whose inputs edit them.         *)

RuntimeFields == {"host", "port", "apiKey", "defaultModel", "timeoutSec",
  "responsesTTL", "pollInterval", "pollRounds", "chunkRunes"}

UpstreamFields == {"upstreamBaseURL", "upstreamOrigin", "upstreamHost",
  "upstreamTLSServerName", "upstreamUseEnvProxy"}

guardToggles == {"forceDisableUpstreamEdits", "forceFreshThreadPerRequest",
  "readOnly", "writerMode"}

capabilityToggles == {"useWebSearch", "generateImage", "enableCsv"}

BehaviorFields == guardToggles \cup capabilityToggles \cup {"aiSurface", "threadType"}

ProfileFields == {"promptProfile", "fallbackProfiles", "maxEscalationSteps",
  "maxRefusalRetries", "customPromptPrefix", "cognitiveReframingPrefix",
  "toolboxCapabilityExpansionPrefix"}

RetryBlocks == {"codingRetryPrefixes", "generalRetryPrefixes",
  "directAnswerRetryPrefixes"}

PromptFields == ProfileFields \cup RetryBlocks

SecurityFields == {"adminPassword", "adminTTL", "loginSessionsDir",
  "loginTimeoutSec", "sqlitePath"}

PersistenceToggles == {"persistConversationSnapshots", "persistResponses",
  "persistContinuationSessions", "persistSillyTavernBindings"}

AdvancedFields == {"debugUpstream", "searchScopes", "modelAliases"}

SettingsFormState ==
  UNION {RuntimeFields, UpstreamFields, BehaviorFields, PromptFields,
         SecurityFields, PersistenceToggles, AdvancedFields}

(* What a configuration holds: those fields, the flag the persistence      *)
(* toggles fall back on, and the rest (the accounts, ...), which the page  *)
(* carries along.                                                          *)
AppConfigShape == SettingsFormState \cup {"persistConversations", "rest"}

ASSUME SettingsAssumption == Focuses \subseteq SUBSET AppConfigShape /\ MaxOutside \in Nat

Secrets == {"apiKey", "adminPassword"}

Toggles == {"upstreamUseEnvProxy", "debugUpstream"}
             \cup guardToggles \cup capabilityToggles \cup PersistenceToggles

Positive == {"port", "timeoutSec", "responsesTTL", "pollInterval", "pollRounds",
  "chunkRunes", "maxRefusalRetries", "adminTTL", "loginTimeoutSec"}

Numbers == Positive \cup {"maxEscalationSteps"}

Selected == {"defaultModel", "promptProfile"}

(* PromptConfig fields that an empty value drops from the JSON             *)
(* (config.go:77, omitempty): the page cannot tell empty from absent.      *)
OmittedWhenEmpty == {"maxEscalationSteps", "cognitiveReframingPrefix",
  "toolboxCapabilityExpansionPrefix"} \cup RetryBlocks

(* What an input lets the administrator enter.                             *)
Texts(f) ==
  IF f \in Toggles THEN {"on", "off"}
  ELSE IF f \in Numbers THEN {"", "a", "0", "1.5"}
  ELSE IF f \in Selected THEN {"default", "a"}
  ELSE IF f = "modelAliases" THEN {"", "a", "a+b", "bad"}
  ELSE {"", " ", "a"}

Values == {"", " ", "default", "a", "0", "1.5", "a+b", "bad", "on", "off", "set"}

Trim(text) == IF text = " " THEN "" ELSE text
OrDefault(text) == IF text = "" THEN "default" ELSE text

----------------------------------------------------------------------------
VARIABLES
  focus,        \* the settings that are changed in this behaviour
  serverConfig, \* the configuration of the service
  config,       \* the page's copy of it, the prop of the panel
  form,         \* the state form
  editedFields, \* ghost: fields of the form changed since it was last filled
  jobs,         \* the chains of saveConfig and of an import
  outside       \* imports and saves by others so far

formVars == <<focus, serverConfig, config, form, editedFields, jobs, outside>>

NoConfig == [f \in AppConfigShape |-> ""]

(* payload: what is sent; copy: what the refresh has read; base, edits     *)
(* (ghosts): the page's copy and the edited fields at the click; alone     *)
(* (ghost): nobody else has changed the configuration since it was served. *)
NoJob == [at |-> "idle", payload |-> <<>>, copy |-> <<>>,
          base |-> <<>>, edits |-> {}, alone |-> FALSE]

SettingsTypeOK ==
  /\ focus \subseteq AppConfigShape
  /\ {serverConfig, config} \subseteq [AppConfigShape -> Values]
  /\ form \in [SettingsFormState -> Values]
  /\ editedFields \subseteq SettingsFormState
  /\ \A k \in {"save", "import"} :
       /\ jobs[k].at \in {"idle", "sent", "served", "read"}
       /\ jobs[k].at # "idle" =>
            jobs[k].payload \in [AppConfigShape -> Values \cup {"keep"}]
       /\ jobs[k].at = "sent" /\ k = "save" =>
            jobs[k].base \in [AppConfigShape -> Values]
       /\ jobs[k].at = "read" => jobs[k].copy \in [AppConfigShape -> Values]
       /\ jobs[k].edits \subseteq SettingsFormState
       /\ jobs[k].alone \in BOOLEAN
  /\ outside \in 0 .. MaxOutside

----------------------------------------------------------------------------
(* GET /admin/config: the secrets are blanked (redactConfigSecrets), a     *)
(* zero is dropped where it is omitted.                                    *)
Read(c) ==
  [f \in AppConfigShape |->
     IF f \in Secrets \/ (f \in OmittedWhenEmpty /\ c[f] = "0") THEN "" ELSE c[f]]

(* A mutation of it: the general flag wins.                                *)
generalPersistenceFlag(flag, fallback) == IF fallback = "" THEN flag ELSE fallback

resolveStoragePersistenceFlag(flag, fallback) == IF flag = "" THEN fallback ELSE flag

buildPromptStrategyFormState(c) ==
  [f \in PromptFields |-> IF f = "customPromptPrefix" THEN c[f] ELSE OrDefault(c[f])]

buildFormState(c) ==
  [f \in SettingsFormState |->
     IF f \in Secrets THEN ""
     ELSE IF f \in PersistenceToggles
       THEN resolveStoragePersistenceFlag(c[f], c["persistConversations"])
     ELSE IF f = "upstreamOrigin"
       THEN IF c[f] # "" THEN c[f] ELSE OrDefault(c["upstreamBaseURL"])
     ELSE IF f \in PromptFields THEN buildPromptStrategyFormState(c)[f]
     ELSE IF f \in {"host", "upstreamHost", "upstreamTLSServerName",
                    "loginSessionsDir", "searchScopes", "modelAliases"} THEN c[f]
     ELSE OrDefault(c[f])]

(* The effect on form.forceDisableUpstreamEdits: it runs when the flag     *)
(* changes, in either direction.                                           *)
Forced(before, after) ==
  IF after["forceDisableUpstreamEdits"] = "on" /\ before["forceDisableUpstreamEdits"] # "on"
  THEN [after EXCEPT !["readOnly"] = "on", !["writerMode"] = "off"]
  ELSE after

Differing(f1, f2) == {f \in SettingsFormState : f1[f] # f2[f]}

buildPromptStrategyPayload(x) ==
  [f \in PromptFields |->
     IF f \in {"promptProfile", "maxEscalationSteps", "maxRefusalRetries"}
       THEN OrDefault(Trim(x[f]))
     ELSE IF f \in RetryBlocks \cup {"fallbackProfiles"} THEN Trim(x[f])
     ELSE x[f]]

(* A secret left blank is deleted from the clone.                          *)
blankSecretsAsSent(text) == Trim(text)    \* a mutation of it

keepBlankSecrets(text) == IF Trim(text) = "" THEN "keep" ELSE Trim(text)

(* saveConfig's next: the clone of the copy, overwritten field by field.   *)
nextConfig(x, c) ==
  LET base == OrDefault(Trim(x["upstreamBaseURL"]))
      force == x["forceDisableUpstreamEdits"] = "on"
  IN  [f \in AppConfigShape |->
        IF f = "rest" THEN c[f]
        ELSE IF f = "persistConversations"
          THEN IF \E t \in PersistenceToggles : x[t] = "on" THEN "on" ELSE "off"
        ELSE IF f \in Secrets THEN keepBlankSecrets(x[f])
        ELSE IF f \in PromptFields THEN buildPromptStrategyPayload(x)[f]
        ELSE IF f = "upstreamOrigin" THEN IF Trim(x[f]) = "" THEN base ELSE Trim(x[f])
        ELSE IF f = "readOnly" /\ force THEN "on"
        ELSE IF f = "writerMode" /\ force THEN "off"
        ELSE IF f \in {"host", "upstreamHost", "upstreamTLSServerName",
                       "loginSessionsDir", "searchScopes", "modelAliases",
                       "defaultModel"} \cup Toggles THEN Trim(x[f])
        ELSE OrDefault(Trim(x[f]))]

----------------------------------------------------------------------------
(* mergeConfigFromBody and normalizeConfig (admin.go, config.go): what the *)
(* body leaves out stays, aliases are added to the map and never removed,  *)
(* a fraction is refused where an integer is due, and empty or zero values *)
(* become defaults.                                                        *)
Decodes(payload) ==
  \A f \in Numbers : payload[f] # "" /\ (payload[f] = "1.5" => f = "pollInterval")

normalized(c) ==
  [f \in AppConfigShape |->
     IF f = "upstreamOrigin" /\ Trim(c[f]) = "" THEN OrDefault(Trim(c["upstreamBaseURL"]))
     ELSE IF f \in Positive /\ c[f] = "0" THEN "default"
     ELSE IF f \in {"host", "upstreamBaseURL", "defaultModel", "promptProfile",
                    "fallbackProfiles", "sqlitePath", "loginSessionsDir", "aiSurface",
                    "threadType"} THEN OrDefault(Trim(c[f]))
     ELSE Trim(c[f])]

merged(c, payload) ==
  normalized([f \in AppConfigShape |->
     IF payload[f] = "keep" THEN c[f]
     ELSE IF f = "modelAliases"
       THEN IF "a+b" \in {c[f], payload[f]} THEN "a+b"
            ELSE IF "a" \in {c[f], payload[f]} THEN "a" ELSE ""
     ELSE payload[f]])

----------------------------------------------------------------------------
InitialConfig ==
  [f \in AppConfigShape |->
     IF f \in Secrets THEN "set"
     ELSE IF f \in {"upstreamHost", "upstreamTLSServerName", "customPromptPrefix",
                    "searchScopes", "modelAliases"} \cup PersistenceToggles THEN ""
     ELSE IF f \in {"forceDisableUpstreamEdits", "readOnly", "persistConversations"} THEN "on"
     ELSE IF f \in Toggles THEN "off"
     ELSE "default"]

SettingsInit ==
  /\ focus \in Focuses
  /\ serverConfig = InitialConfig
  /\ config = Read(InitialConfig)
  /\ form = buildFormState(config)
  /\ editedFields = {}
  /\ jobs = [k \in {"save", "import"} |-> NoJob]
  /\ outside = 0

(* The form takes the values of next, with the effect of the force flag.   *)
setForm(next) ==
  /\ form' = Forced(form, next)
  /\ editedFields' = editedFields \cup Differing(form, form')

(* An input of any section.  Two toggles are disabled while forced.        *)
EditField(f, text) ==
  /\ f \in focus \cap SettingsFormState
  /\ text \in Texts(f) \ {form[f]}
  /\ f \in {"readOnly", "writerMode"} => form["forceDisableUpstreamEdits"] = "off"
  /\ setForm([form EXCEPT ![f] = text])
  /\ UNCHANGED <<focus, serverConfig, config, jobs, outside>>

(* applyPromptStrategy: the defaults, or a strategy file, whose absent     *)
(* fields become the defaults too.                                         *)
applyPromptStrategy(prompt) ==
  LET shown == buildPromptStrategyFormState(prompt)
  IN  /\ setForm([f \in SettingsFormState |-> IF f \in PromptFields THEN shown[f] ELSE form[f]])
      /\ UNCHANGED <<focus, serverConfig, config, jobs, outside>>

ImportStrategy ==
  \E f \in focus \cap PromptFields, text \in {"", "a"} :
    applyPromptStrategy([NoConfig EXCEPT ![f] = text])

(* A click on save; the button is disabled while one is under way.  Model  *)
(* aliases that are no JSON end it before anything is sent.                *)
saveConfig ==
  /\ jobs["save"] = NoJob
  /\ form["modelAliases"] # "bad"
  /\ jobs' = [jobs EXCEPT !["save"] = [NoJob EXCEPT
       !.at = "sent", !.payload = nextConfig(form, config),
       !.base = config, !.edits = editedFields]]
  /\ UNCHANGED <<focus, serverConfig, config, form, editedFields, outside>>

(* onImport: a configuration file, complete or not, is sent as it is.      *)
importConfig ==
  \E f \in focus \cap SettingsFormState, text \in Values :
    /\ jobs["import"] = NoJob
    /\ outside < MaxOutside /\ outside' = outside + 1
    /\ text \in Texts(f) \ {"bad"}
    /\ jobs' = [jobs EXCEPT !["import"] = [NoJob EXCEPT !.at = "sent",
         !.payload = [g \in AppConfigShape |-> IF g = f THEN text ELSE "keep"]]]
    /\ UNCHANGED <<focus, serverConfig, config, form, editedFields>>

Overtaken(js, k) ==
  [j \in {"save", "import"} |-> IF j = k THEN js[j] ELSE [js[j] EXCEPT !.alone = FALSE]]

ServeSettings(k) ==
  /\ jobs[k].at = "sent"
  /\ Decodes(jobs[k].payload)
  /\ serverConfig' = merged(serverConfig, jobs[k].payload)
  /\ jobs' = [Overtaken(jobs, k) EXCEPT ![k] = [NoJob EXCEPT
       !.at = "served", !.payload = jobs[k].payload, !.alone = TRUE]]
  /\ UNCHANGED <<focus, config, form, editedFields, outside>>

(* The request is refused or lost, or a request of the refresh is: the     *)
(* panel shows the error of the first; refreshAll swallows the second.     *)
SettingsFail(k) ==
  /\ jobs[k].at \in {"sent", "served"}
  /\ jobs' = [jobs EXCEPT ![k] = NoJob]
  /\ UNCHANGED <<focus, serverConfig, config, form, editedFields, outside>>

(* refreshAll: the configuration is read, and arrives later.               *)
ReadConfig(k) ==
  /\ jobs[k].at = "served"
  /\ jobs' = [jobs EXCEPT ![k].at = "read", ![k].copy = Read(serverConfig)]
  /\ UNCHANGED <<focus, serverConfig, config, form, editedFields, outside>>

(* setConfigPayload: the effect on config fills the form.                  *)
ShowConfig(k) ==
  /\ jobs[k].at = "read"
  /\ config' = jobs[k].copy
  /\ form' = Forced(form, buildFormState(jobs[k].copy))
  /\ editedFields' = Differing(buildFormState(jobs[k].copy), form')
  /\ jobs' = [jobs EXCEPT ![k] = NoJob]
  /\ UNCHANGED <<focus, serverConfig, outside>>

(* Another administrator, or the service itself (the accounts).            *)
OthersWrite ==
  \E f \in focus :
    \E value \in IF f = "rest" THEN {"a"} ELSE Texts(f) \cap {"a", "on", "off"} :
      /\ serverConfig' = merged(serverConfig, [g \in AppConfigShape |->
                                               IF g = f THEN value ELSE "keep"])
      /\ serverConfig' # serverConfig
      /\ outside < MaxOutside /\ outside' = outside + 1
      /\ jobs' = Overtaken(jobs, "others")
      /\ UNCHANGED <<focus, config, form, editedFields>>

SettingsNext ==
  \/ \E f \in focus \cap SettingsFormState, text \in Values : EditField(f, text)
  \/ applyPromptStrategy(NoConfig)
  \/ ImportStrategy
  \/ saveConfig
  \/ importConfig
  \/ \E k \in {"save", "import"} :
       ServeSettings(k) \/ SettingsFail(k) \/ ReadConfig(k) \/ ShowConfig(k)
  \/ OthersWrite

SettingsSpec == SettingsInit /\ [][SettingsNext]_formVars

----------------------------------------------------------------------------
(* What a configuration means: a persistence flag that is not set follows  *)
(* the general one.                                                        *)
Meaning(c, f) ==
  IF f \in PersistenceToggles
  THEN resolveStoragePersistenceFlag(c[f], c["persistConversations"]) ELSE c[f]

(* A save changes on the server only what the administrator changed in the *)
(* form: every other setting of the whole-configuration request, which the *)
(* page may hold no value for (the secrets) or never shows (the accounts), *)
(* keeps its meaning, as long as nobody changed it since the page read it. *)
(* Excepted are the two flags that "force" determines, and the prompt      *)
(* settings that are empty on the server, which the page takes for unset.  *)
SavesOnlyEdits ==
  [][jobs["save"].at = "sent" /\ jobs'["save"].at = "served" =>
       LET job == jobs["save"]
           force == job.payload["forceDisableUpstreamEdits"] = "on"
           shown == Read(serverConfig)
       IN  \A f \in (AppConfigShape \ {"persistConversations"}) \ job.edits :
             (/\ f \in {"readOnly", "writerMode"} => ~force
              /\ f \in OmittedWhenEmpty => serverConfig[f] \notin {"", "0"}
              /\ Meaning(shown, f) = Meaning(job.base, f))
             => Meaning(serverConfig', f) = Meaning(serverConfig, f)]_formVars

(* The form shows what was saved once the refresh after the save fills it, *)
(* if nobody else wrote in between: no conversion on the way there and     *)
(* back loses a setting.  Excepted are values the service replaces by a    *)
(* default, prefixes of blanks only, which it trims, the secrets, which    *)
(* are never shown, and aliases, of which it never removes one.            *)
SavedIsShown ==
  [][LET job == jobs["save"]
     IN  (/\ job.at = "read" /\ jobs'["save"].at = "idle"
          /\ config' = job.copy /\ job.alone)
         => \A f \in SettingsFormState \ (Secrets \cup {"modelAliases"}) :
              job.payload[f] \notin {"", " ", "0"} => form'[f] = job.payload[f]]_formVars

=============================================================================
