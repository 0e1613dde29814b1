-------------------------- MODULE SettingsFormProofs --------------------------
(***************************************************************************)
(* Proofs about the settings panel, for any settings that are changed and  *)
(* any number of writes by others.  First what the four conversions        *)
(* between a configuration and the form make of a field of each kind;      *)
(* then the invariant that carries a field through them.                   *)
(***************************************************************************)
EXTENDS SettingsForm, TLAPS

Configs == [AppConfigShape -> Values]
Forms == [SettingsFormState -> Values]
Payloads == [AppConfigShape -> Values \cup {"keep"}]

Flags == Toggles \ PersistenceToggles

(* Fields normalizeConfig gives a default when they are empty.             *)
Defaulted == {"host", "upstreamBaseURL", "defaultModel", "promptProfile",
  "fallbackProfiles", "sqlitePath", "loginSessionsDir", "aiSurface", "threadType"}

NeverEmpty ==
  UNION {Defaulted, {"upstreamOrigin"}, Positive, Flags, {"persistConversations"}}

(* A configuration as the service holds it.                                *)
Normal(c) ==
  /\ c \in Configs
  /\ \A f \in AppConfigShape : c[f] # " "
  /\ \A f \in NeverEmpty : c[f] # ""
  /\ \A f \in Positive : c[f] # "0"
  /\ c["modelAliases"] \in {"", "a", "a+b"}

(* A configuration as the page reads it.                                   *)
IsCopy(c) ==
  /\ c \in Configs
  /\ \A f \in AppConfigShape : c[f] # " "
  /\ \A f \in Secrets : c[f] = ""
  /\ \A f \in Flags \cup {"persistConversations"} : c[f] # ""

(* What any writer sends: no flag is left empty, no number blank.          *)
WellSent(p) ==
  /\ p \in Payloads
  /\ \A f \in Flags \cup {"persistConversations"} : p[f] \notin {"", " "}
  /\ \A f \in Numbers : p[f] # " "

----------------------------------------------------------------------------
(* The fields.                                                             *)

LEMMA FieldsAre ==
  /\ PromptFields \subseteq SettingsFormState /\ SettingsFormState \subseteq AppConfigShape
  /\ Secrets \subseteq SettingsFormState /\ Toggles \subseteq SettingsFormState
  /\ PersistenceToggles \subseteq Toggles
  /\ Numbers \subseteq SettingsFormState /\ Positive \subseteq Numbers
  /\ OmittedWhenEmpty \subseteq PromptFields
  /\ NeverEmpty \subseteq AppConfigShape /\ Defaulted \subseteq SettingsFormState
  /\ {"readOnly", "writerMode", "forceDisableUpstreamEdits"} \subseteq Flags
  /\ {"persistConversations", "rest"} \subseteq AppConfigShape \ SettingsFormState
  /\ {"upstreamBaseURL", "upstreamOrigin", "modelAliases"} \subseteq SettingsFormState
BY DEF PromptFields, ProfileFields, RetryBlocks, SettingsFormState, RuntimeFields,
       UpstreamFields, BehaviorFields, guardToggles, capabilityToggles, SecurityFields,
       PersistenceToggles, AdvancedFields, AppConfigShape, Secrets, Toggles, Numbers,
       Positive, OmittedWhenEmpty, NeverEmpty, Defaulted, Flags

LEMMA ValuesAre ==
  /\ \A v \in Values : Trim(v) \in Values /\ OrDefault(v) \in Values
  /\ \A v \in Values : Trim(v) # " " /\ OrDefault(v) # ""
  /\ \A v \in Values : v # " " => Trim(v) = v /\ OrDefault(v) # " "
  /\ \A v \in Values : v # "" => OrDefault(v) = v
  /\ "keep" \notin Values /\ {"", "on", "off", "default", "a", "a+b", "0"} \subseteq Values
BY DEF Trim, OrDefault, Values

LEMMA ReadType == ASSUME NEW c \in Configs PROVE Read(c) \in Configs
BY ValuesAre DEF Read, Configs

LEMMA FormType == ASSUME NEW c \in Configs PROVE buildFormState(c) \in Forms
<1>1. c["persistConversations"] \in Values /\ c["upstreamBaseURL"] \in Values
  BY FieldsAre DEF Configs
<1>2. ASSUME NEW f \in SettingsFormState PROVE buildFormState(c)[f] \in Values
  BY <1>1, FieldsAre, ValuesAre
     DEF buildFormState, buildPromptStrategyFormState, resolveStoragePersistenceFlag, Configs
<1> QED BY <1>2 DEF Forms, buildFormState

LEMMA ForcedType ==
  ASSUME NEW f1, NEW f2 \in Forms PROVE Forced(f1, f2) \in Forms
BY FieldsAre, ValuesAre DEF Forced, Forms, Flags

LEMMA SentType ==
  ASSUME NEW x \in Forms, NEW c \in Configs PROVE nextConfig(x, c) \in Payloads
<1>1. x["upstreamBaseURL"] \in Values /\ c["rest"] \in Values
  BY FieldsAre DEF Configs, Forms
<1>2. ASSUME NEW f \in AppConfigShape PROVE nextConfig(x, c)[f] \in Values \cup {"keep"}
  <2>1. CASE f \in SettingsFormState
    BY <1>1, <2>1, FieldsAre, ValuesAre
       DEF nextConfig, buildPromptStrategyPayload, keepBlankSecrets, Forms
  <2>2. CASE f \in {"persistConversations", "rest"}
    BY <1>1, <2>2, FieldsAre, ValuesAre DEF nextConfig, Secrets
  <2> QED BY <2>1, <2>2 DEF AppConfigShape
<1> QED BY <1>2 DEF nextConfig, Payloads

(* A configuration that is read stays what a page may hold.                *)
LEMMA ReadIsCopy == ASSUME NEW c, Normal(c) PROVE IsCopy(Read(c))
<1>1. Flags \cup {"persistConversations"} \subseteq NeverEmpty \ (Secrets \cup OmittedWhenEmpty)
  BY DEF NeverEmpty, Flags, Toggles, guardToggles, capabilityToggles, PersistenceToggles,
         Secrets, OmittedWhenEmpty, RetryBlocks
<1> QED BY <1>1, FieldsAre, ReadType DEF Normal, IsCopy, Read

LEMMA InitialNormal == Normal(InitialConfig) /\ IsCopy(Read(InitialConfig))
<1> DEFINE c == InitialConfig
<1>1. \A f \in AppConfigShape : c[f] \in {"set", "", "on", "off", "default"}
  BY DEF InitialConfig
<1>2. c \in Configs
  BY <1>1 DEF InitialConfig, Configs, Values
<1>3. \A f \in NeverEmpty : c[f] # ""
  <2>1. \A f \in NeverEmpty :
          f \notin {"upstreamHost", "upstreamTLSServerName", "customPromptPrefix",
                   "searchScopes", "modelAliases"} \cup PersistenceToggles
    BY DEF NeverEmpty, Defaulted, Positive, Flags, Toggles, guardToggles, capabilityToggles,
           PersistenceToggles
  <2> QED BY <2>1, FieldsAre DEF InitialConfig
<1>4. c["modelAliases"] = ""
  BY FieldsAre DEF InitialConfig, Secrets
<1>5. Normal(c)
  BY <1>1, <1>2, <1>3, <1>4, FieldsAre DEF Normal
<1> QED BY <1>5, ReadIsCopy

LEMMA NormalizedField ==
  ASSUME NEW c \in Configs, NEW f \in AppConfigShape
  PROVE  /\ normalized(c)[f] \in Values \ {" "}
         /\ f \in Positive => normalized(c)[f] # "0"
         /\ f \in Defaulted \cup {"upstreamOrigin"} => normalized(c)[f] # ""
         /\ c[f] \notin {"", " "} => normalized(c)[f] # ""
         /\ f \notin Positive /\ c[f] \notin {"", " "} => normalized(c)[f] = c[f]
         /\ c[f] \notin {"", " ", "0"} => normalized(c)[f] = c[f]
         /\ c[f] = "" /\ f \notin Defaulted \cup {"upstreamOrigin"} => normalized(c)[f] = ""
<1>1. c[f] \in Values /\ c["upstreamBaseURL"] \in Values
  BY FieldsAre DEF Configs
<1>2. f \in Positive => f \notin Defaulted \cup {"upstreamOrigin"}
  BY DEF Positive, Defaulted
<1> QED BY <1>1, <1>2, ValuesAre DEF normalized, Defaulted, Trim, OrDefault

(* What the merge hands to normalizeConfig.                                *)
taken(c, payload) ==
  [f \in AppConfigShape |->
     IF payload[f] = "keep" THEN c[f]
     ELSE IF f = "modelAliases"
       THEN IF "a+b" \in {c[f], payload[f]} THEN "a+b"
            ELSE IF "a" \in {c[f], payload[f]} THEN "a" ELSE ""
     ELSE payload[f]]

LEMMA TakenType ==
  ASSUME NEW c \in Configs, NEW p \in Payloads
  PROVE  taken(c, p) \in Configs /\ merged(c, p) = normalized(taken(c, p))
<1>1. taken(c, p) \in Configs
  BY ValuesAre DEF taken, Configs, Payloads
<1> QED BY <1>1 DEF merged, taken

(* A merge keeps the configuration normal.                                 *)
LEMMA MergedNormal ==
  ASSUME NEW c, Normal(c), NEW p, WellSent(p), Decodes(p)
  PROVE  Normal(merged(c, p))
<1> DEFINE t == taken(c, p)
<1>1. /\ c \in Configs /\ p \in Payloads
      /\ t \in Configs /\ merged(c, p) = normalized(t)
  BY TakenType DEF Normal, WellSent
<1>2. \A f \in AppConfigShape : t[f] = IF p[f] = "keep" THEN c[f]
                                       ELSE IF f = "modelAliases" THEN t[f] ELSE p[f]
  BY DEF taken
<1>3. t["modelAliases"] \in {"", "a", "a+b"}
  BY FieldsAre DEF taken, Normal
<1> HIDE DEF t
<1>4. normalized(t) \in Configs
  BY <1>1, NormalizedField DEF Configs, normalized
<1>5. ASSUME NEW f \in NeverEmpty PROVE normalized(t)[f] # ""
  <2>1. CASE f \in Defaulted \cup {"upstreamOrigin"}
    BY <1>1, <2>1, NormalizedField, FieldsAre
  <2>2. CASE f \in Positive \cup Flags \cup {"persistConversations"}
    <3>1. f \in AppConfigShape /\ f # "modelAliases"
      BY <2>2, FieldsAre DEF Positive, Flags, Toggles, guardToggles, capabilityToggles
    <3>2. p[f] \notin {"", " "}
      BY <2>2, FieldsAre DEF WellSent, Decodes
    <3>3. c[f] \notin {"", " "}
      BY <2>2, <3>1 DEF Normal, NeverEmpty
    <3> QED BY <1>1, <1>2, <3>1, <3>2, <3>3, NormalizedField
  <2> QED BY <2>1, <2>2 DEF NeverEmpty
<1>6. normalized(t)["modelAliases"] \in {"", "a", "a+b"}
  BY <1>1, <1>3, NormalizedField, FieldsAre DEF Positive, Defaulted
<1>7. \A f \in AppConfigShape : /\ normalized(t)[f] # " "
                                /\ f \in Positive => normalized(t)[f] # "0"
  BY <1>1, NormalizedField
<1> QED BY <1>1, <1>4, <1>5, <1>6, <1>7, FieldsAre DEF Normal

(* A form whose flags are all set, as every form is.                       *)
FlagsSet(x) == \A f \in Flags : x[f] \notin {"", " "}

LEMMA FormOfCopy ==
  ASSUME NEW c, IsCopy(c)
  PROVE  buildFormState(c) \in Forms /\ FlagsSet(buildFormState(c))
<1>1. ASSUME NEW f \in Flags PROVE buildFormState(c)[f] = c[f] /\ c[f] \notin {"", " "}
  <2>1. f \in SettingsFormState \ (Secrets \cup PersistenceToggles \cup PromptFields)
    BY DEF Flags, Toggles, guardToggles, capabilityToggles, Secrets, PersistenceToggles,
           PromptFields, ProfileFields, RetryBlocks, SettingsFormState, BehaviorFields,
           UpstreamFields, AdvancedFields
  <2>2. f \notin {"upstreamOrigin", "host", "upstreamHost", "upstreamTLSServerName",
                  "loginSessionsDir", "searchScopes", "modelAliases"}
    BY DEF Flags, Toggles, guardToggles, capabilityToggles, PersistenceToggles
  <2>3. buildFormState(c)[f] = OrDefault(c[f])
    BY <2>1, <2>2 DEF buildFormState
  <2>4. c[f] \in Values \ {"", " "}
    BY <2>1, FieldsAre DEF IsCopy, Configs
  <2> QED BY <2>3, <2>4, ValuesAre
<1> QED BY <1>1, FormType DEF FlagsSet, IsCopy

LEMMA ForcedFlags ==
  ASSUME NEW f1, NEW f2 \in Forms, FlagsSet(f2)
  PROVE  FlagsSet(Forced(f1, f2))
<1>1. ASSUME NEW f \in Flags PROVE Forced(f1, f2)[f] \in {f2[f], "on", "off"}
  <2>1. f \in SettingsFormState
    BY FieldsAre DEF Flags
  <2> QED BY <2>1 DEF Forced, Forms
<1> QED BY <1>1 DEF FlagsSet

(* What a save sends.  The three fields that depend on others are apart.   *)
Plain == (Toggles \ {"readOnly", "writerMode"}) \cup
  {"host", "upstreamHost", "upstreamTLSServerName", "loginSessionsDir", "searchScopes",
   "modelAliases", "defaultModel", "fallbackProfiles"} \cup RetryBlocks

Untrimmed == {"customPromptPrefix", "cognitiveReframingPrefix",
              "toolboxCapabilityExpansionPrefix"}

LEMMA SentField ==
  ASSUME NEW x, NEW c, NEW f \in SettingsFormState \ (Secrets \cup {"upstreamOrigin"})
  PROVE  nextConfig(x, c)[f] =
           IF f \in {"readOnly", "writerMode"} /\ x["forceDisableUpstreamEdits"] = "on"
             THEN IF f = "readOnly" THEN "on" ELSE "off"
           ELSE IF f \in Untrimmed THEN x[f]
           ELSE IF f \in Plain \cup {"readOnly", "writerMode"} THEN Trim(x[f])
           ELSE OrDefault(Trim(x[f]))
<1>1. f \in AppConfigShape \ {"rest", "persistConversations"}
  BY FieldsAre
<1>2. CASE f \in PromptFields
  <2>1. f \notin {"readOnly", "writerMode"}
    BY <1>2 DEF PromptFields, ProfileFields, RetryBlocks
  <2>2. nextConfig(x, c)[f] = buildPromptStrategyPayload(x)[f]
    BY <1>1, <1>2 DEF nextConfig
  <2>3. CASE f \in {"promptProfile", "maxEscalationSteps", "maxRefusalRetries"}
    <3>1. f \notin Plain \cup Untrimmed
      BY <2>3 DEF Plain, Untrimmed, RetryBlocks, Toggles, guardToggles, capabilityToggles,
                  PersistenceToggles
    <3> QED BY <1>2, <2>1, <2>2, <2>3, <3>1 DEF buildPromptStrategyPayload
  <2>4. CASE f \in RetryBlocks \cup {"fallbackProfiles"}
    <3>1. f \in Plain \ Untrimmed
      BY <2>4 DEF Plain, Untrimmed, RetryBlocks
    <3>2. f \notin {"promptProfile", "maxEscalationSteps", "maxRefusalRetries"}
      BY <2>4 DEF RetryBlocks
    <3> QED BY <1>2, <2>1, <2>2, <2>4, <3>1, <3>2 DEF buildPromptStrategyPayload
  <2>5. CASE f \in Untrimmed
    <3>1. f \notin RetryBlocks \cup {"fallbackProfiles", "promptProfile",
                                    "maxEscalationSteps", "maxRefusalRetries"}
      BY <2>5 DEF Untrimmed, RetryBlocks
    <3> QED BY <1>2, <2>1, <2>2, <2>5, <3>1 DEF buildPromptStrategyPayload
  <2> QED BY <1>2, <2>3, <2>4, <2>5 DEF PromptFields, ProfileFields, Untrimmed
<1>3. CASE f \notin PromptFields
  <2>1. f \notin Untrimmed \cup RetryBlocks \cup {"fallbackProfiles"}
    BY <1>3 DEF PromptFields, ProfileFields, Untrimmed
  <2>2. {"readOnly", "writerMode"} \subseteq Toggles
    BY DEF Toggles, guardToggles
  <2> QED BY <1>1, <1>3, <2>1, <2>2 DEF nextConfig, Plain
<1> QED BY <1>2, <1>3

LEMMA SentWell ==
  ASSUME NEW x \in Forms, FlagsSet(x), NEW c \in Configs
  PROVE  WellSent(nextConfig(x, c))
<1> DEFINE p == nextConfig(x, c)
<1>1. p \in Payloads
  BY SentType
<1>2. p["persistConversations"] \in {"on", "off"}
  BY FieldsAre DEF nextConfig
<1>3. ASSUME NEW f \in Flags PROVE p[f] \notin {"", " "}
  <2>1. f \in SettingsFormState \ (Secrets \cup {"upstreamOrigin"} \cup Untrimmed)
    <3>1. f \notin Secrets \cup {"upstreamOrigin"} \cup Untrimmed
      BY DEF Flags, Toggles, guardToggles, capabilityToggles, Secrets, Untrimmed,
             PersistenceToggles
    <3> QED BY <3>1, FieldsAre DEF Flags
  <2>2. f \in Plain \cup {"readOnly", "writerMode"} /\ x[f] \in Values
    BY <2>1 DEF Plain, Flags, Forms
  <2>3. p[f] \in {"on", "off", Trim(x[f])}
    BY <2>1, <2>2, SentField
  <2>4. x[f] \notin {"", " "}
    BY DEF FlagsSet
  <2> QED BY <2>2, <2>3, <2>4, ValuesAre
<1>4. ASSUME NEW f \in Numbers PROVE p[f] # " "
  <2>1. /\ f \in SettingsFormState \ (Secrets \cup {"upstreamOrigin"} \cup Untrimmed)
        /\ f \notin Plain \cup {"readOnly", "writerMode"}
    <3>1. f \notin UNION {Secrets, {"upstreamOrigin", "readOnly", "writerMode"}, Untrimmed, Plain}
      BY DEF Numbers, Positive, Plain, Toggles, guardToggles, capabilityToggles,
             Secrets, Untrimmed, PersistenceToggles, RetryBlocks
    <3> QED BY <3>1, FieldsAre
  <2>2. x[f] \in Values
    BY <2>1 DEF Forms
  <2>3. p[f] = OrDefault(Trim(x[f]))
    BY <2>1, SentField
  <2> QED BY <2>2, <2>3, ValuesAre
<1> QED BY <1>1, <1>2, <1>3, <1>4 DEF WellSent

----------------------------------------------------------------------------
(* From a configuration to the form and back.                              *)

(* A field that is set is shown as it is.                                  *)
LEMMA SetFieldIsShown ==
  ASSUME NEW c \in Configs, NEW f \in SettingsFormState \ Secrets, c[f] # ""
  PROVE  buildFormState(c)[f] = c[f]
<1>1. c[f] \in Values
  BY FieldsAre DEF Configs
<1> QED BY <1>1, ValuesAre
        DEF buildFormState, buildPromptStrategyFormState, resolveStoragePersistenceFlag

(* So is a field that may be empty.                                        *)
MayBeEmpty ==
  {"upstreamHost", "upstreamTLSServerName", "customPromptPrefix", "searchScopes", "modelAliases"}

LEMMA EmptyFieldIsShown ==
  ASSUME NEW c, NEW f \in MayBeEmpty PROVE buildFormState(c)[f] = c[f]
<1>1. f \in SettingsFormState \ (Secrets \cup PersistenceToggles)
  BY DEF MayBeEmpty, SettingsFormState, UpstreamFields, PromptFields, ProfileFields,
         AdvancedFields, Secrets, PersistenceToggles
<1>2. f = "customPromptPrefix" => f \in PromptFields
  BY DEF PromptFields, ProfileFields
<1>3. f # "customPromptPrefix" => f \notin PromptFields
  BY DEF MayBeEmpty, PromptFields, ProfileFields, RetryBlocks
<1> QED BY <1>1, <1>2, <1>3 DEF MayBeEmpty, buildFormState, buildPromptStrategyFormState

LEMMA EmptyFieldsAre ==
  AppConfigShape \subseteq
    UNION {NeverEmpty, Secrets, OmittedWhenEmpty, PersistenceToggles, MayBeEmpty, {"rest"}}
BY DEF PromptFields, ProfileFields, RetryBlocks, SettingsFormState, RuntimeFields,
       UpstreamFields, BehaviorFields, guardToggles, capabilityToggles, SecurityFields,
       PersistenceToggles, AdvancedFields, AppConfigShape, Secrets, Toggles,
       Positive, OmittedWhenEmpty, NeverEmpty, Defaulted, Flags, MayBeEmpty

(* What the service makes of a value that is sent.                         *)
LEMMA MergedField ==
  ASSUME NEW c \in Configs, NEW p \in Payloads, NEW f \in AppConfigShape,
         p[f] # "keep",
         f = "modelAliases" => p[f] = c[f] /\ c[f] \in {"", "a", "a+b"}
  PROVE  /\ (p[f] \notin {"", " "} /\ (f \in Positive => p[f] # "0")) => merged(c, p)[f] = p[f]
         /\ (p[f] = "" /\ f \notin Defaulted \cup {"upstreamOrigin"}) => merged(c, p)[f] = ""
<1> DEFINE t == taken(c, p)
<1>1. t[f] = p[f]
  BY DEF taken
<1>2. t \in Configs /\ merged(c, p) = normalized(t)
  BY TakenType
<1> HIDE DEF t
<1>3. p[f] \in Values
  BY <1>1, <1>2 DEF Configs
<1>4. p[f] \notin {"", " "} /\ (f \in Positive => p[f] # "0") => normalized(t)[f] = p[f]
  BY <1>1, <1>2, NormalizedField
<1>5. p[f] = "" /\ f \notin Defaulted \cup {"upstreamOrigin"} => normalized(t)[f] = ""
  BY <1>1, <1>2, NormalizedField
<1> QED BY <1>2, <1>4, <1>5

(* The form x, filled from the copy base, shows of f what c has.           *)
Untouched(c, base, x, f) ==
  /\ Normal(c) /\ IsCopy(base) /\ x \in Forms
  /\ f \in AppConfigShape \ {"persistConversations"}
  /\ f \in SettingsFormState => x[f] = buildFormState(base)[f]
  /\ f \in {"readOnly", "writerMode"} => x["forceDisableUpstreamEdits"] # "on"
  /\ f \in OmittedWhenEmpty => c[f] \notin {"", "0"}
  /\ Meaning(Read(c), f) = Meaning(base, f)

(* Sending such a form leaves f as it is.                                  *)
LEMMA SavedKeeps ==
  ASSUME NEW c, NEW base, NEW x, NEW f, Untouched(c, base, x, f)
  PROVE  Meaning(merged(c, nextConfig(x, base)), f) = Meaning(c, f)
<1> DEFINE p == nextConfig(x, base)
<1> USE DEF Untouched
<1>1. /\ c \in Configs /\ base \in Configs /\ p \in Payloads
      /\ c[f] \in Values \ {" "} /\ base[f] \in Values \ {" "}
  BY SentType DEF Normal, IsCopy, Configs
<1>2. f \in PersistenceToggles =>
        /\ f \in SettingsFormState \ UNION {Secrets, OmittedWhenEmpty, Untrimmed, Positive,
             PromptFields, {"upstreamOrigin", "readOnly", "writerMode", "modelAliases"}}
        /\ f \in Plain
  BY DEF PersistenceToggles, SettingsFormState, Secrets, OmittedWhenEmpty, Untrimmed, Positive,
         RetryBlocks, Plain, Toggles, PromptFields, ProfileFields
<1>3. Secrets \cap OmittedWhenEmpty = {} /\ "persistConversations" \notin Secrets \cup OmittedWhenEmpty
  BY DEF Secrets, OmittedWhenEmpty, RetryBlocks
<1>4. CASE f \in Secrets
  <2>1. p[f] = "keep"
    <3>1. f \in SettingsFormState /\ buildFormState(base)[f] = ""
      BY <1>4, FieldsAre DEF buildFormState
    <3>2. f \notin {"rest", "persistConversations"}
      BY <3>1, FieldsAre
    <3> QED BY <1>4, <3>1, <3>2 DEF nextConfig, keepBlankSecrets, Trim
  <2>2. taken(c, p)[f] = c[f]
    BY <2>1 DEF taken
  <2>3. f \notin Positive \cup Defaulted \cup {"upstreamOrigin"} \cup PersistenceToggles
    BY <1>4 DEF Secrets, Positive, Defaulted, PersistenceToggles
  <2>4. merged(c, p)[f] = c[f]
    <3>1. taken(c, p) \in Configs /\ merged(c, p) = normalized(taken(c, p))
      BY <1>1, TakenType
    <3>2. CASE c[f] # ""
      BY <1>1, <2>2, <2>3, <3>1, <3>2, NormalizedField
    <3>3. CASE c[f] = ""
      BY <1>1, <2>2, <2>3, <3>1, <3>3, NormalizedField
    <3> QED BY <3>2, <3>3
  <2> QED BY <2>3, <2>4 DEF Meaning
<1>5. CASE f \in PersistenceToggles
  <2> DEFINE m == resolveStoragePersistenceFlag(base[f], base["persistConversations"])
  <2>1. m \in Values \ {"", " "} /\ x[f] = m
    <3>1. base["persistConversations"] \in Values \ {"", " "}
      BY FieldsAre DEF IsCopy, Configs
    <3> QED BY <1>1, <1>2, <1>5, <3>1 DEF buildFormState, resolveStoragePersistenceFlag
  <2>2. Meaning(c, f) = m
    BY <1>2, <1>3, <1>5, FieldsAre DEF Meaning, Read
  <2>3. p[f] = m
    <3>1. p[f] = Trim(x[f])
      BY <1>2, <1>5, SentField
    <3> QED BY <2>1, <3>1, ValuesAre
  <2>4. merged(c, p)[f] = m
    BY <1>1, <1>2, <1>5, <2>1, <2>3, MergedField, ValuesAre
  <2> QED BY <1>5, <2>1, <2>2, <2>4 DEF Meaning, resolveStoragePersistenceFlag
<1>6. CASE f \notin Secrets \cup PersistenceToggles
  <2>1. base[f] = c[f]
    BY <1>1, <1>6 DEF Meaning, Read
  <2>2. p[f] = c[f]
    <3>1. CASE f = "rest"
      BY <2>1, <3>1 DEF nextConfig
    <3>2. CASE f \in SettingsFormState
      <4>1. x[f] = c[f]
        <5>1. c[f] # "" => buildFormState(base)[f] = c[f]
          BY <1>1, <1>6, <2>1, <3>2, SetFieldIsShown
        <5>2. c[f] = "" => f \in MayBeEmpty
          BY <1>6, <3>2, EmptyFieldsAre, FieldsAre DEF Normal
        <5> QED BY <2>1, <3>2, <5>1, <5>2, EmptyFieldIsShown
      <4>2. CASE f = "upstreamOrigin"
        <5>1. c[f] # ""
          BY <4>2 DEF Normal, NeverEmpty
        <5>2. f \notin Secrets \cup PromptFields \cup {"rest", "persistConversations"}
          BY <4>2 DEF Secrets, PromptFields, ProfileFields, RetryBlocks
        <5> QED BY <1>1, <4>1, <4>2, <5>1, <5>2, ValuesAre DEF nextConfig
      <4>3. CASE f # "upstreamOrigin"
        <5>1. c[f] = "" => f \in Plain \cup Untrimmed
          <6>1. c[f] = "" => f \in MayBeEmpty
            BY <1>6, <3>2, EmptyFieldsAre, FieldsAre DEF Normal
          <6> QED BY <6>1 DEF MayBeEmpty, Plain, Untrimmed
        <5>2. \/ p[f] \in {x[f], Trim(x[f])}
              \/ f \notin Plain \cup Untrimmed /\ p[f] = OrDefault(Trim(x[f]))
          <6>1. f \in {"readOnly", "writerMode"} => x["forceDisableUpstreamEdits"] # "on"
            OBVIOUS
          <6>2. f \in SettingsFormState \ (Secrets \cup {"upstreamOrigin"})
            BY <1>6, <3>2, <4>3
          <6>3. p[f] = IF f \in Untrimmed THEN x[f]
                       ELSE IF f \in Plain \cup {"readOnly", "writerMode"} THEN Trim(x[f])
                       ELSE OrDefault(Trim(x[f]))
            BY <6>1, <6>2, SentField
          <6> HIDE DEF p
          <6> QED BY <6>3
        <5> QED BY <1>1, <4>1, <5>1, <5>2, ValuesAre
      <4> QED BY <4>2, <4>3
    <3> QED BY <3>1, <3>2 DEF AppConfigShape
  <2>3. f \in Positive => c[f] # "0"
    BY DEF Normal
  <2>4. c[f] = "" => f \notin Defaulted \cup {"upstreamOrigin"}
    BY DEF Normal, NeverEmpty
  <2>5. f = "modelAliases" => c[f] \in {"", "a", "a+b"}
    BY DEF Normal
  <2>6. merged(c, p)[f] = c[f]
    <3>1. p[f] # "keep" /\ f \in AppConfigShape
      BY <1>1, <2>2, ValuesAre
    <3> HIDE DEF p
    <3>2. CASE c[f] # ""
      BY <1>1, <2>2, <2>3, <2>5, <3>1, <3>2, MergedField
    <3>3. CASE c[f] = ""
      BY <1>1, <2>2, <2>4, <2>5, <3>1, <3>3, MergedField
    <3> QED BY <3>2, <3>3
  <2> QED BY <1>6, <2>6 DEF Meaning
<1> QED BY <1>4, <1>5, <1>6

(* A save whose configuration is read shows what was sent.                 *)
Reflects(copy, p) ==
  \A f \in SettingsFormState \ (Secrets \cup {"modelAliases"}) :
    (p[f] \notin {"", " "} /\ (p[f] = "0" => f \notin Numbers \cup OmittedWhenEmpty))
      => buildFormState(copy)[f] = p[f]

(* What is sent agrees with the flag that forces two others.               *)
Consistent(p) ==
  /\ \A f \in SettingsFormState \ Secrets : p[f] # "keep"
  /\ p["forceDisableUpstreamEdits"] = "on" => p["readOnly"] = "on" /\ p["writerMode"] = "off"

LEMMA MergedReflects ==
  ASSUME NEW c \in Configs, NEW p \in Payloads, Consistent(p),
         merged(c, p) \in Configs
  PROVE  Reflects(Read(merged(c, p)), p)
<1> DEFINE n == merged(c, p)
<1> SUFFICES ASSUME NEW f \in SettingsFormState \ (Secrets \cup {"modelAliases"}),
                    p[f] \notin {"", " "}, p[f] = "0" => f \notin Numbers \cup OmittedWhenEmpty
             PROVE  buildFormState(Read(n))[f] = p[f]
  BY DEF Reflects
<1>1. n[f] = p[f]
  <2>1. p[f] # "keep"
    BY DEF Consistent
  <2>2. f \in AppConfigShape /\ f # "modelAliases"
    BY FieldsAre
  <2>3. f \in Positive => p[f] # "0"
    BY FieldsAre
  <2> QED BY <2>1, <2>2, <2>3, MergedField
<1>2. Read(n)[f] = p[f]
  BY <1>1, FieldsAre DEF Read
<1>3. Read(n) \in Configs
  BY ReadType
<1> QED BY <1>2, <1>3, SetFieldIsShown

LEMMA SentConsistent ==
  ASSUME NEW x \in Forms, NEW c \in Configs
  PROVE  /\ Consistent(nextConfig(x, c))
         /\ nextConfig(x, c)["forceDisableUpstreamEdits"] = "on"
              <=> x["forceDisableUpstreamEdits"] = "on"
<1> DEFINE p == nextConfig(x, c)
           force == "forceDisableUpstreamEdits"
<1>1. ASSUME NEW f \in SettingsFormState \ Secrets PROVE p[f] # "keep"
  <2>1. x[f] \in Values /\ x["upstreamBaseURL"] \in Values
    BY FieldsAre DEF Forms
  <2>2. ASSUME NEW v \in Values PROVE /\ Trim(v) # "keep" /\ OrDefault(Trim(v)) # "keep"
    BY ValuesAre
  <2>3. CASE f = "upstreamOrigin"
    <3>1. f \notin Secrets \cup PromptFields \cup {"rest", "persistConversations"}
      BY <2>3 DEF Secrets, PromptFields, ProfileFields, RetryBlocks
    <3>2. f \in AppConfigShape
      BY FieldsAre
    <3>3. p[f] = IF Trim(x[f]) = "" THEN OrDefault(Trim(x["upstreamBaseURL"])) ELSE Trim(x[f])
      BY <2>3, <3>1, <3>2 DEF nextConfig
    <3> QED BY <2>2, <2>1, <3>3
  <2>4. CASE f # "upstreamOrigin"
    <3>1. f \in SettingsFormState \ (Secrets \cup {"upstreamOrigin"})
      BY <2>4
    <3>2. p[f] \in {"on", "off", x[f], Trim(x[f]), OrDefault(Trim(x[f]))}
      BY <3>1, SentField
    <3> QED BY <2>2, <2>1, <3>2, ValuesAre
  <2> QED BY <2>3, <2>4
<1>2. /\ {force, "readOnly", "writerMode"} \subseteq SettingsFormState \ (Secrets \cup {"upstreamOrigin"})
      /\ force \in Plain \ Untrimmed
  BY DEF SettingsFormState, BehaviorFields, guardToggles, Secrets, Plain, Toggles, Untrimmed
<1>3. p[force] = Trim(x[force])
  BY <1>2, SentField
<1>4. p[force] = "on" <=> x[force] = "on"
  BY <1>3 DEF Trim
<1>5. x[force] = "on" => p["readOnly"] = "on" /\ p["writerMode"] = "off"
  BY <1>2, SentField
<1> QED BY <1>1, <1>4, <1>5 DEF Consistent

----------------------------------------------------------------------------
(* The invariant.                                                          *)

Jobs == {"save", "import"}

Job == [at : {"idle", "sent", "served", "read"}, payload : Payloads \cup {<<>>},
        copy : Configs \cup {<<>>}, base : Configs \cup {<<>>},
        edits : SUBSET SettingsFormState, alone : BOOLEAN]

(* The service holds a normal configuration and the page a copy of one;    *)
(* the form shows the copy but where it was edited.                        *)
FormInv ==
  /\ focus \subseteq AppConfigShape
  /\ outside \in 0 .. MaxOutside
  /\ Normal(serverConfig)
  /\ IsCopy(config)
  /\ form \in Forms /\ FlagsSet(form)
  /\ editedFields \subseteq SettingsFormState
  /\ \A f \in SettingsFormState \ editedFields : form[f] = buildFormState(config)[f]

(* What each request carries, and what is known of its answer.             *)
JobOK(job) ==
  /\ job \in Job
  /\ job.at # "idle" => WellSent(job.payload)
  /\ job.at = "read" => IsCopy(job.copy)

JobsOK(js) == js \in [Jobs -> Job] /\ \A k \in Jobs : JobOK(js[k])

(* A save carries the form of its click: where that was not edited, the    *)
(* copy of the click.                                                      *)
SentFrom(job) ==
  /\ IsCopy(job.base)
  /\ \E x \in Forms :
       /\ job.payload = nextConfig(x, job.base)
       /\ \A f \in SettingsFormState \ job.edits : x[f] = buildFormState(job.base)[f]

(* Alone, the server, and then the page, has what was sent.                *)
SaveOK(job, c) ==
  /\ job.at # "idle" => Consistent(job.payload)
  /\ job.at = "sent" => SentFrom(job)
  /\ (job.at = "served" /\ job.alone) => Reflects(Read(c), job.payload)
  /\ (job.at = "read" /\ job.alone) => Reflects(job.copy, job.payload)

SettingsInv == FormInv /\ JobsOK(jobs) /\ SaveOK(jobs["save"], serverConfig)

LEMMA IdleJob == JobOK(NoJob) /\ NoJob.at = "idle" /\ \A c : SaveOK(NoJob, c)
BY DEF JobOK, Job, NoJob, SaveOK

LEMMA JobReplaced ==
  ASSUME NEW js, JobsOK(js), NEW k \in Jobs, NEW job, JobOK(job)
  PROVE  JobsOK([js EXCEPT ![k] = job]) /\ [js EXCEPT ![k] = job][k] = job
BY DEF JobsOK, JobOK

LEMMA OvertakenJob ==
  ASSUME NEW job, JobOK(job)
  PROVE  LET o == [job EXCEPT !.alone = FALSE]
         IN  /\ JobOK(o) /\ o.at = job.at
             /\ \A c, d : SaveOK(job, c) => SaveOK(o, d)
<1> DEFINE o == [job EXCEPT !.alone = FALSE]
<1>1. /\ o \in Job /\ o.at = job.at /\ o.payload = job.payload /\ o.copy = job.copy
      /\ o.base = job.base /\ o.edits = job.edits /\ o.alone = FALSE
  BY DEF JobOK, Job
<1> HIDE DEF o
<1>2. JobOK(o) /\ \A c, d : SaveOK(job, c) => SaveOK(o, d)
  BY <1>1 DEF JobOK, SaveOK, SentFrom
<1> QED BY <1>1, <1>2 DEF o

LEMMA OvertakenJobs ==
  ASSUME NEW js, JobsOK(js), NEW k
  PROVE  /\ JobsOK(Overtaken(js, k))
         /\ \A j \in Jobs : Overtaken(js, k)[j] =
              IF j = k THEN js[j] ELSE [js[j] EXCEPT !.alone = FALSE]
<1>1. \A j \in Jobs : Overtaken(js, k)[j] =
              IF j = k THEN js[j] ELSE [js[j] EXCEPT !.alone = FALSE]
  BY DEF Overtaken, Jobs
<1>2. \A j \in Jobs : JobOK(Overtaken(js, k)[j])
  BY <1>1, OvertakenJob DEF JobsOK
<1>3. Overtaken(js, k) \in [Jobs -> Job]
  BY <1>2 DEF Overtaken, Jobs, JobOK
<1> QED BY <1>1, <1>2, <1>3 DEF JobsOK

----------------------------------------------------------------------------
(* Every step keeps the invariant.                                         *)

LEMMA SettingsInitInv == ASSUME SettingsInit PROVE SettingsInv
<1>1. FormInv
  <2>1. serverConfig = InitialConfig /\ config = Read(InitialConfig)
        /\ form = buildFormState(config) /\ editedFields = {} /\ outside = 0
        /\ focus \subseteq AppConfigShape
    BY SettingsAssumption DEF SettingsInit
  <2>2. Normal(serverConfig) /\ IsCopy(config)
    BY <2>1, InitialNormal
  <2>3. form \in Forms /\ FlagsSet(form)
    BY <2>1, <2>2, FormOfCopy
  <2> QED BY <2>1, <2>2, <2>3, SettingsAssumption DEF FormInv
<1>2. jobs \in [Jobs -> Job] /\ \A k \in Jobs : jobs[k] = NoJob
  BY IdleJob DEF SettingsInit, Jobs, JobOK
<1>3. JobsOK(jobs)
  BY <1>2, IdleJob DEF JobsOK
<1>4. SaveOK(jobs["save"], serverConfig)
  BY <1>2, IdleJob DEF Jobs
<1> QED BY <1>1, <1>3, <1>4 DEF SettingsInv

(* An edit of the form.                                                    *)
LEMMA SetFormKeeps ==
  ASSUME SettingsInv, NEW next \in Forms, FlagsSet(next), setForm(next),
         UNCHANGED <<focus, serverConfig, config, jobs, outside>>
  PROVE  SettingsInv'
<1>1. form' \in Forms /\ FlagsSet(form')
  BY ForcedType, ForcedFlags DEF setForm
<1>2. editedFields' = editedFields \cup Differing(form, form')
  BY DEF setForm
<1>3. \A f \in SettingsFormState \ editedFields' : form'[f] = form[f]
  BY <1>2 DEF Differing
<1>4. FormInv'
  BY <1>1, <1>2, <1>3 DEF SettingsInv, FormInv, Differing
<1> QED BY <1>4 DEF SettingsInv

LEMMA TextsAre ==
  ASSUME NEW f
  PROVE  /\ Texts(f) \subseteq Values
         /\ f \in Flags => Texts(f) \subseteq {"on", "off"}
         /\ f \in Numbers => " " \notin Texts(f)
<1>1. f \in Numbers => f \notin Toggles
  BY DEF Numbers, Positive, Toggles, guardToggles, capabilityToggles, PersistenceToggles
<1> QED BY <1>1 DEF Texts, Values, Flags

LEMMA EditStep ==
  ASSUME SettingsInv, NEW f, NEW text, EditField(f, text) PROVE SettingsInv'
<1> DEFINE next == [form EXCEPT ![f] = text]
<1>1. text \in Values /\ (f \in Flags => text \in {"on", "off"})
  BY TextsAre DEF EditField
<1>2. next \in Forms /\ FlagsSet(next)
  BY <1>1, FieldsAre DEF SettingsInv, FormInv, Forms, FlagsSet, Flags
<1>3. setForm(next) /\ UNCHANGED <<focus, serverConfig, config, jobs, outside>>
  BY DEF EditField
<1> QED BY <1>2, <1>3, SetFormKeeps

LEMMA StrategyStep ==
  ASSUME SettingsInv, NEW prompt, prompt \in Configs, applyPromptStrategy(prompt)
  PROVE  SettingsInv'
<1> DEFINE next == [f \in SettingsFormState |->
              IF f \in PromptFields THEN buildPromptStrategyFormState(prompt)[f] ELSE form[f]]
<1>1. ASSUME NEW f \in PromptFields PROVE buildPromptStrategyFormState(prompt)[f] \in Values
  BY FieldsAre, ValuesAre DEF buildPromptStrategyFormState, Configs
<1>2. form \in Forms /\ FlagsSet(form)
  BY DEF SettingsInv, FormInv
<1>3. next \in Forms
  BY <1>1, <1>2 DEF Forms
<1>4. Flags \subseteq SettingsFormState \ PromptFields
  BY FieldsAre DEF Flags, Toggles, guardToggles, capabilityToggles, PromptFields,
                   ProfileFields, RetryBlocks, PersistenceToggles
<1>5. FlagsSet(next)
  BY <1>2, <1>4 DEF FlagsSet
<1>6. setForm(next) /\ UNCHANGED <<focus, serverConfig, config, jobs, outside>>
  BY DEF applyPromptStrategy
<1> HIDE DEF next
<1> QED BY <1>3, <1>5, <1>6, SetFormKeeps

(* A click sends the form.                                                 *)
LEMMA SaveStep == ASSUME SettingsInv, saveConfig PROVE SettingsInv'
<1> DEFINE job == [NoJob EXCEPT !.at = "sent", !.payload = nextConfig(form, config),
                                !.base = config, !.edits = editedFields]
<1>1. /\ job.at = "sent" /\ job.payload = nextConfig(form, config) /\ job.base = config
      /\ job.edits = editedFields
  BY IdleJob DEF JobOK, Job
<1>2. /\ form \in Forms /\ FlagsSet(form) /\ config \in Configs /\ IsCopy(config)
      /\ editedFields \subseteq SettingsFormState
      /\ \A f \in SettingsFormState \ editedFields : form[f] = buildFormState(config)[f]
  BY DEF SettingsInv, FormInv, IsCopy
<1>3. jobs' = [jobs EXCEPT !["save"] = job]
      /\ UNCHANGED <<focus, serverConfig, config, form, editedFields, outside>>
  BY DEF saveConfig
<1> HIDE DEF job
<1>4. WellSent(job.payload) /\ Consistent(job.payload)
  BY <1>1, <1>2, SentWell, SentConsistent
<1>5. JobOK(job)
  <2>1. job.payload \in Payloads
    BY <1>4 DEF WellSent
  <2>2. job \in Job
    BY <1>1, <1>2, <2>1, IdleJob DEF JobOK, Job, job
  <2> QED BY <1>1, <1>4, <2>2 DEF JobOK
<1>6. SentFrom(job)
  BY <1>1, <1>2 DEF SentFrom
<1>7. SaveOK(job, serverConfig)
  BY <1>1, <1>4, <1>6 DEF SaveOK
<1>8. JobsOK(jobs') /\ jobs'["save"] = job
  BY <1>3, <1>5, JobReplaced DEF Jobs, SettingsInv
<1> QED BY <1>3, <1>7, <1>8 DEF SettingsInv, FormInv

(* What others send.                                                       *)
LEMMA OnlySent ==
  ASSUME NEW f \in AppConfigShape, NEW value \in Texts(f) \cup {"a"},
         f \in Flags => value \in {"on", "off"},
         f = "persistConversations" => value = "a"
  PROVE  WellSent([g \in AppConfigShape |-> IF g = f THEN value ELSE "keep"])
<1> DEFINE p == [g \in AppConfigShape |-> IF g = f THEN value ELSE "keep"]
<1>1. value \in Values
  BY TextsAre, ValuesAre
<1>2. f \in Numbers => value # " "
  BY TextsAre
<1>3. p \in Payloads
  BY <1>1 DEF Payloads
<1>4. \A g \in AppConfigShape : p[g] \in {value, "keep"} /\ (g # f => p[g] = "keep")
  OBVIOUS
<1> HIDE DEF p
<1>5. \A g \in Flags \cup {"persistConversations"} : g \in AppConfigShape
  BY FieldsAre DEF Flags
<1>6. \A g \in Numbers : g \in AppConfigShape
  BY FieldsAre
<1>7. WellSent(p)
  BY <1>2, <1>3, <1>4, <1>5, <1>6 DEF WellSent
<1> QED BY <1>7 DEF p

LEMMA ImportStep == ASSUME SettingsInv, importConfig PROVE SettingsInv'
<1>1. PICK f \in focus \cap SettingsFormState, text \in Values :
        /\ outside < MaxOutside /\ outside' = outside + 1
        /\ text \in Texts(f) \ {"bad"}
        /\ jobs' = [jobs EXCEPT !["import"] = [NoJob EXCEPT !.at = "sent",
             !.payload = [g \in AppConfigShape |-> IF g = f THEN text ELSE "keep"]]]
        /\ UNCHANGED <<focus, serverConfig, config, form, editedFields>>
  BY DEF importConfig
<1> DEFINE p == [g \in AppConfigShape |-> IF g = f THEN text ELSE "keep"]
           job == [NoJob EXCEPT !.at = "sent", !.payload = p]
<1>2. WellSent(p)
  <2>1. f \in AppConfigShape /\ f # "persistConversations"
    BY FieldsAre
  <2>2. f \in Flags => text \in {"on", "off"}
    BY <1>1, TextsAre
  <2> QED BY <1>1, <2>1, <2>2, OnlySent
<1>3. jobs' = [jobs EXCEPT !["import"] = job]
  BY <1>1
<1> HIDE DEF p
<1>4. JobOK(job)
  <2>1. job \in Job /\ job.at = "sent" /\ job.payload = p
    BY <1>2, IdleJob DEF JobOK, Job, WellSent
  <2> HIDE DEF job
  <2> QED BY <1>2, <2>1 DEF JobOK
<1> HIDE DEF job
<1>5. JobsOK(jobs') /\ jobs'["save"] = jobs["save"]
  BY <1>3, <1>4, JobReplaced DEF Jobs, SettingsInv, JobsOK
<1>6. outside' \in 0 .. MaxOutside
  BY <1>1, SettingsAssumption DEF SettingsInv, FormInv
<1> QED BY <1>1, <1>5, <1>6 DEF SettingsInv, FormInv

(* The server merges what was sent.                                        *)
LEMMA ServeSettingsStep ==
  ASSUME SettingsInv, NEW k \in Jobs, ServeSettings(k) PROVE SettingsInv'
<1> DEFINE job == [NoJob EXCEPT !.at = "served", !.payload = jobs[k].payload, !.alone = TRUE]
           p == jobs[k].payload
<1>1. WellSent(p) /\ Decodes(p)
  BY DEF SettingsInv, JobsOK, JobOK, ServeSettings
<1>2. serverConfig' = merged(serverConfig, p) /\ Normal(serverConfig')
      /\ serverConfig \in Configs /\ serverConfig' \in Configs
  BY <1>1, MergedNormal DEF ServeSettings, SettingsInv, FormInv, Normal
<1>3. jobs' = [Overtaken(jobs, k) EXCEPT ![k] = job]
  BY DEF ServeSettings
<1>4. JobOK(job) /\ job.at = "served" /\ job.payload = p /\ job.alone = TRUE
  <2>1. job \in Job /\ job.at = "served" /\ job.payload = p /\ job.alone = TRUE
    BY <1>1, IdleJob DEF JobOK, Job, WellSent
  <2> HIDE DEF job, p
  <2> QED BY <1>1, <2>1 DEF JobOK
<1> HIDE DEF job
<1>5. JobsOK(Overtaken(jobs, k))
  BY OvertakenJobs DEF SettingsInv
<1>6. JobsOK(jobs') /\ jobs'[k] = job
  <2> DEFINE o == Overtaken(jobs, k)
  <2>1. JobsOK(o) /\ jobs' = [o EXCEPT ![k] = job]
    BY <1>3, <1>5
  <2>2. JobOK(job)
    BY <1>4
  <2> HIDE DEF o, p
  <2> QED BY <2>1, <2>2, JobReplaced
<1>7. SaveOK(jobs'["save"], serverConfig')
  <2>1. CASE k = "save"
    <3>1. Consistent(p)
      BY <2>1 DEF SettingsInv, SaveOK, ServeSettings
    <3>2. Reflects(Read(serverConfig'), p)
      BY <1>1, <1>2, <3>1, MergedReflects DEF WellSent
    <3> HIDE DEF p
    <3> QED BY <1>4, <1>6, <2>1, <3>1, <3>2 DEF SaveOK
  <2>2. CASE k # "save"
    <3>1. "save" \in Jobs /\ JobOK(jobs["save"]) /\ SaveOK(jobs["save"], serverConfig)
      BY DEF Jobs, SettingsInv, JobsOK
    <3>2. jobs'["save"] = [jobs["save"] EXCEPT !.alone = FALSE]
      BY <1>3, <1>5, <2>2, <3>1, OvertakenJobs DEF SettingsInv, JobsOK
    <3> QED BY <3>1, <3>2, OvertakenJob
  <2> QED BY <2>1, <2>2
<1> QED BY <1>2, <1>6, <1>7 DEF SettingsInv, FormInv, ServeSettings

LEMMA FailStep ==
  ASSUME SettingsInv, NEW k \in Jobs, SettingsFail(k) PROVE SettingsInv'
<1>1. jobs' = [jobs EXCEPT ![k] = NoJob]
      /\ UNCHANGED <<focus, serverConfig, config, form, editedFields, outside>>
  BY DEF SettingsFail
<1>2. JobsOK(jobs') /\ jobs'[k] = NoJob
  BY <1>1, IdleJob, JobReplaced DEF SettingsInv
<1>3. jobs'["save"] \in {NoJob, jobs["save"]}
  BY <1>1, <1>2 DEF SettingsInv, JobsOK, Jobs
<1> QED BY <1>1, <1>2, <1>3, IdleJob DEF SettingsInv, FormInv

(* The page reads the configuration and shows it.                          *)
LEMMA ReadStep ==
  ASSUME SettingsInv, NEW k \in Jobs, ReadConfig(k) PROVE SettingsInv'
<1> DEFINE job == [jobs[k] EXCEPT !.at = "read", !.copy = Read(serverConfig)]
<1>1. JobOK(jobs[k]) /\ jobs[k] \in Job /\ IsCopy(Read(serverConfig))
  BY ReadIsCopy DEF SettingsInv, JobsOK, FormInv, JobOK
<1>2. /\ job.at = "read" /\ job.payload = jobs[k].payload /\ job.alone = jobs[k].alone
      /\ job.copy = Read(serverConfig) /\ job \in Job
  BY <1>1 DEF Job, IsCopy
<1>3. jobs' = [jobs EXCEPT ![k] = job]
  BY DEF ReadConfig, SettingsInv, JobsOK
<1> HIDE DEF job
<1>4. JobOK(job)
  BY <1>1, <1>2 DEF JobOK, ReadConfig
<1>5. JobsOK(jobs') /\ jobs'[k] = job
  BY <1>3, <1>4, JobReplaced DEF SettingsInv
<1>6. SaveOK(jobs'["save"], serverConfig)
  <2>1. CASE k = "save"
    BY <1>2, <1>5, <2>1 DEF SettingsInv, SaveOK, ReadConfig
  <2>2. CASE k # "save"
    BY <1>3, <2>2 DEF SettingsInv, JobsOK, Jobs
  <2> QED BY <2>1, <2>2
<1> QED BY <1>5, <1>6 DEF SettingsInv, FormInv, ReadConfig

LEMMA ShowStep ==
  ASSUME SettingsInv, NEW k \in Jobs, ShowConfig(k) PROVE SettingsInv'
<1> DEFINE copy == jobs[k].copy
<1>1. IsCopy(copy)
  BY DEF SettingsInv, JobsOK, JobOK, ShowConfig
<1>2. buildFormState(copy) \in Forms /\ FlagsSet(buildFormState(copy))
  BY <1>1, FormOfCopy
<1>3. /\ config' = copy /\ form' = Forced(form, buildFormState(copy))
      /\ editedFields' = Differing(buildFormState(copy), form')
      /\ jobs' = [jobs EXCEPT ![k] = NoJob] /\ UNCHANGED <<focus, serverConfig, outside>>
  BY DEF ShowConfig
<1> HIDE DEF copy
<1>4. form' \in Forms /\ FlagsSet(form')
  BY <1>2, <1>3, ForcedType, ForcedFlags
<1>5. editedFields' \subseteq SettingsFormState
      /\ \A f \in SettingsFormState \ editedFields' : form'[f] = buildFormState(config')[f]
  BY <1>3 DEF Differing
<1>6. FormInv'
  BY <1>1, <1>3, <1>4, <1>5 DEF FormInv, SettingsInv
<1>7. JobsOK(jobs') /\ jobs'[k] = NoJob
  BY <1>3, IdleJob, JobReplaced DEF SettingsInv
<1>8. jobs'["save"] \in {NoJob, jobs["save"]}
  BY <1>3, <1>7 DEF SettingsInv, JobsOK, Jobs
<1> QED BY <1>3, <1>6, <1>7, <1>8, IdleJob DEF SettingsInv

LEMMA OthersStep == ASSUME SettingsInv, OthersWrite PROVE SettingsInv'
<1>1. PICK f \in focus : \E value \in IF f = "rest" THEN {"a"} ELSE Texts(f) \cap {"a", "on", "off"} :
        /\ serverConfig' = merged(serverConfig, [g \in AppConfigShape |->
                                               IF g = f THEN value ELSE "keep"])
        /\ outside < MaxOutside /\ outside' = outside + 1
        /\ jobs' = Overtaken(jobs, "others")
        /\ UNCHANGED <<focus, config, form, editedFields>>
  BY DEF OthersWrite
<1>2. PICK value \in IF f = "rest" THEN {"a"} ELSE Texts(f) \cap {"a", "on", "off"} :
        /\ serverConfig' = merged(serverConfig, [g \in AppConfigShape |->
                                               IF g = f THEN value ELSE "keep"])
        /\ outside < MaxOutside /\ outside' = outside + 1
        /\ jobs' = Overtaken(jobs, "others")
        /\ UNCHANGED <<focus, config, form, editedFields>>
  BY <1>1
<1> DEFINE p == [g \in AppConfigShape |-> IF g = f THEN value ELSE "keep"]
<1>3. f \in AppConfigShape
  BY DEF SettingsInv, FormInv
<1>4. WellSent(p)
  <2>1. value \in Texts(f) \cup {"a"}
    BY <1>2
  <2>2. f \in Flags => value \in {"on", "off"}
    <3>1. f \in Flags => f # "rest"
      BY FieldsAre DEF Flags
    <3> QED BY <1>2, <3>1, TextsAre
  <2>3. f = "persistConversations" => value = "a"
    <3>1. Texts("persistConversations") \cap {"on", "off"} = {}
      <4>1. "persistConversations" \notin Toggles \cup Numbers \cup Selected
        BY DEF Toggles, guardToggles, capabilityToggles, PersistenceToggles, Numbers,
               Positive, Selected
      <4> QED BY <4>1 DEF Texts
    <3> QED BY <1>2, <3>1
  <2> QED BY <1>3, <2>1, <2>2, <2>3, OnlySent
<1>5. Decodes(p)
  <2>1. value \in {"a", "on", "off"}
    BY <1>2
  <2>2. \A g \in Numbers : p[g] \in {value, "keep"}
    BY FieldsAre
  <2> HIDE DEF p
  <2> QED BY <2>1, <2>2 DEF Decodes
<1>6. Normal(serverConfig')
  BY <1>2, <1>4, <1>5, MergedNormal DEF SettingsInv, FormInv
<1>7. JobsOK(jobs') /\ jobs'["save"] = [jobs["save"] EXCEPT !.alone = FALSE]
  BY <1>2, OvertakenJobs DEF SettingsInv, Jobs
<1>8. SaveOK(jobs'["save"], serverConfig')
  BY <1>7, OvertakenJob DEF SettingsInv, JobsOK, Jobs
<1>9. outside' \in 0 .. MaxOutside
  BY <1>2, SettingsAssumption DEF SettingsInv, FormInv
<1>10. FormInv'
  BY <1>2, <1>6, <1>9 DEF SettingsInv, FormInv
<1> QED BY <1>7, <1>8, <1>10 DEF SettingsInv

LEMMA SettingsStep ==
  ASSUME SettingsInv, [SettingsNext]_formVars PROVE SettingsInv'
<1>1. ASSUME NEW f, NEW text, EditField(f, text) PROVE SettingsInv'
  BY <1>1, EditStep
<1>2. NoConfig \in Configs /\ \A f \in PromptFields, text \in Values : [NoConfig EXCEPT ![f] = text] \in Configs
  BY ValuesAre DEF NoConfig, Configs
<1>3. CASE applyPromptStrategy(NoConfig)
  BY <1>2, <1>3, StrategyStep
<1>4. CASE ImportStrategy
  <2>1. PICK f \in focus \cap PromptFields, text \in {"", "a"} :
          applyPromptStrategy([NoConfig EXCEPT ![f] = text])
    BY <1>4 DEF ImportStrategy
  <2>2. text \in Values
    BY ValuesAre
  <2> DEFINE prompt == [NoConfig EXCEPT ![f] = text]
  <2>3. prompt \in Configs /\ applyPromptStrategy(prompt)
    BY <1>2, <2>1, <2>2
  <2> HIDE DEF prompt
  <2> QED BY <2>3, StrategyStep
<1>5. CASE saveConfig
  BY <1>5, SaveStep
<1>6. CASE importConfig
  BY <1>6, ImportStep
<1>7. ASSUME NEW k \in {"save", "import"},
             ServeSettings(k) \/ SettingsFail(k) \/ ReadConfig(k) \/ ShowConfig(k)
      PROVE  SettingsInv'
  BY <1>7, ServeSettingsStep, FailStep, ReadStep, ShowStep DEF Jobs
<1>8. CASE OthersWrite
  BY <1>8, OthersStep
<1>9. CASE UNCHANGED formVars
  BY <1>9 DEF formVars, SettingsInv, FormInv
<1> QED BY <1>1, <1>3, <1>4, <1>5, <1>6, <1>7, <1>8, <1>9 DEF SettingsNext

----------------------------------------------------------------------------
(* What follows from it.                                                   *)

LEMMA SettingsTyped == ASSUME SettingsInv PROVE SettingsTypeOK
<1>1. /\ focus \subseteq AppConfigShape /\ outside \in 0 .. MaxOutside
      /\ serverConfig \in Configs /\ config \in Configs /\ form \in Forms
      /\ editedFields \subseteq SettingsFormState
  BY DEF SettingsInv, FormInv, Normal, IsCopy
<1>2. ASSUME NEW k \in Jobs
      PROVE  /\ jobs[k].at \in {"idle", "sent", "served", "read"}
             /\ jobs[k].at # "idle" => jobs[k].payload \in Payloads
             /\ jobs[k].at = "sent" /\ k = "save" => jobs[k].base \in Configs
             /\ jobs[k].at = "read" => jobs[k].copy \in Configs
             /\ jobs[k].edits \subseteq SettingsFormState
             /\ jobs[k].alone \in BOOLEAN
  <2>1. JobOK(jobs[k]) /\ jobs[k] \in Job
    BY DEF SettingsInv, JobsOK, JobOK
  <2>2. jobs[k].at = "sent" /\ k = "save" => jobs[k].base \in Configs
    BY DEF SettingsInv, SaveOK, SentFrom, IsCopy
  <2> QED BY <2>1, <2>2 DEF JobOK, Job, WellSent, IsCopy
<1> QED BY <1>1, <1>2 DEF SettingsTypeOK, Configs, Forms, Payloads, Jobs

(* What an action can make of the save of the panel.                       *)
LEMMA SaveMoves ==
  ASSUME SettingsInv, SettingsNext
  PROVE  /\ jobs'["save"].at = "served" /\ jobs["save"].at = "sent"
              => ServeSettings("save")
         /\ jobs'["save"].at = "idle" /\ jobs["save"].at = "read"
              => ShowConfig("save")
<1> DEFINE Goal ==
      /\ jobs'["save"].at = "served" /\ jobs["save"].at = "sent" => ServeSettings("save")
      /\ jobs'["save"].at = "idle" /\ jobs["save"].at = "read" => ShowConfig("save")
<1> SUFFICES Goal
  OBVIOUS
<1>1. JobsOK(jobs) /\ "save" \in Jobs /\ JobOK(jobs["save"]) /\ jobs["save"] \in Job
  BY DEF SettingsInv, Jobs, JobsOK, JobOK
<1>2. jobs'["save"].at = jobs["save"].at => Goal
  OBVIOUS
<1>3. ASSUME NEW f, NEW text, EditField(f, text) PROVE Goal
  BY <1>2, <1>3 DEF EditField
<1>4. ASSUME NEW prompt, applyPromptStrategy(prompt) PROVE Goal
  BY <1>2, <1>4 DEF applyPromptStrategy
<1>5. CASE ImportStrategy
  BY <1>4, <1>5 DEF ImportStrategy
<1>6. CASE saveConfig
  BY <1>6, IdleJob DEF saveConfig
<1>7. CASE importConfig
  <2>1. jobs'["save"] = jobs["save"]
    BY <1>1, <1>7 DEF importConfig, JobsOK, Jobs
  <2> QED BY <1>2, <2>1
<1>8. ASSUME NEW k \in Jobs, k # "save", NEW job, jobs' = [jobs EXCEPT ![k] = job]
      PROVE  Goal
  <2>1. jobs'["save"] = jobs["save"]
    BY <1>1, <1>8 DEF JobsOK
  <2> QED BY <1>2, <2>1
<1>9. ASSUME NEW k \in Jobs, ServeSettings(k) PROVE Goal
  <2>1. CASE k = "save"
    BY <1>9, <2>1 DEF ServeSettings
  <2>2. CASE k # "save"
    <3>1. jobs'["save"] = [jobs["save"] EXCEPT !.alone = FALSE]
      <4>1. Overtaken(jobs, k)["save"] = [jobs["save"] EXCEPT !.alone = FALSE]
        BY <1>1, <2>2, OvertakenJobs
      <4>2. jobs'["save"] = Overtaken(jobs, k)["save"]
        BY <1>9, <2>2 DEF ServeSettings, Overtaken
      <4> QED BY <4>1, <4>2
    <3>2. jobs'["save"].at = jobs["save"].at
      BY <1>1, <3>1, OvertakenJob
    <3> QED BY <1>2, <3>2
  <2> QED BY <2>1, <2>2
<1>10. ASSUME NEW k \in Jobs, SettingsFail(k) PROVE Goal
  <2>1. CASE k = "save"
    <3>1. jobs'["save"] = NoJob
      BY <1>1, <1>10, <2>1 DEF SettingsFail, JobsOK
    <3> QED BY <1>10, <2>1, <3>1, IdleJob DEF SettingsFail
  <2> QED BY <1>8, <1>10, <2>1 DEF SettingsFail
<1>11. ASSUME NEW k \in Jobs, ReadConfig(k) PROVE Goal
  <2>1. CASE k = "save"
    BY <1>11, <2>1 DEF ReadConfig
  <2> QED BY <1>8, <1>11, <2>1 DEF ReadConfig
<1>12. ASSUME NEW k \in Jobs, ShowConfig(k) PROVE Goal
  <2>1. CASE k = "save"
    BY <1>12, <2>1 DEF ShowConfig
  <2> QED BY <1>8, <1>12, <2>1 DEF ShowConfig
<1>13. CASE OthersWrite
  <2>1. jobs' = Overtaken(jobs, "others")
    BY <1>13 DEF OthersWrite
  <2>2. jobs'["save"] = [jobs["save"] EXCEPT !.alone = FALSE]
    BY <1>1, <2>1, OvertakenJobs
  <2>3. jobs'["save"].at = jobs["save"].at
    BY <1>1, <2>2, OvertakenJob
  <2> QED BY <1>2, <2>3
<1>14. ASSUME NEW k \in {"save", "import"},
              ServeSettings(k) \/ SettingsFail(k) \/ ReadConfig(k) \/ ShowConfig(k)
       PROVE  Goal
  <2>1. k \in Jobs
    BY DEF Jobs
  <2> HIDE DEF Goal
  <2> QED BY <1>9, <1>10, <1>11, <1>12, <1>14, <2>1
<1> HIDE DEF Goal
<1> QED BY <1>3, <1>4, <1>5, <1>6, <1>7, <1>13, <1>14 DEF SettingsNext

(* A save at work on f, which nobody changed in the form or on the server. *)
Unchanged(c, job, f) ==
  /\ f \in (AppConfigShape \ {"persistConversations"}) \ job.edits
  /\ f \in {"readOnly", "writerMode"} => ~(job.payload["forceDisableUpstreamEdits"] = "on")
  /\ f \in OmittedWhenEmpty => c[f] \notin {"", "0"}
  /\ Meaning(Read(c), f) = Meaning(job.base, f)

LEMMA ServedKeeps ==
  ASSUME NEW c, NEW job, NEW f, Normal(c), SentFrom(job), Unchanged(c, job, f)
  PROVE  Meaning(merged(c, job.payload), f) = Meaning(c, f)
<1>1. PICK x \in Forms :
        /\ job.payload = nextConfig(x, job.base)
        /\ \A g \in SettingsFormState \ job.edits : x[g] = buildFormState(job.base)[g]
  BY DEF SentFrom
<1>2. IsCopy(job.base)
  BY DEF SentFrom
<1>3. f \in {"readOnly", "writerMode"} => x["forceDisableUpstreamEdits"] # "on"
  BY <1>1, <1>2, SentConsistent DEF IsCopy, Unchanged
<1>4. Untouched(c, job.base, x, f)
  BY <1>1, <1>2, <1>3 DEF Untouched, Unchanged
<1>5. job.payload = nextConfig(x, job.base)
  BY <1>1
<1> QED BY <1>4, <1>5, SavedKeeps

LEMMA SavesOnlyEditsStep ==
  ASSUME SettingsInv, [SettingsNext]_formVars
  PROVE  [jobs["save"].at = "sent" /\ jobs'["save"].at = "served" =>
            LET job == jobs["save"]
                force == job.payload["forceDisableUpstreamEdits"] = "on"
                shown == Read(serverConfig)
            IN  \A f \in (AppConfigShape \ {"persistConversations"}) \ job.edits :
                  (/\ f \in {"readOnly", "writerMode"} => ~force
                   /\ f \in OmittedWhenEmpty => serverConfig[f] \notin {"", "0"}
                   /\ Meaning(shown, f) = Meaning(job.base, f))
                  => Meaning(serverConfig', f) = Meaning(serverConfig, f)]_formVars
<1> DEFINE job == jobs["save"]
<1> SUFFICES ASSUME SettingsNext, job.at = "sent", jobs'["save"].at = "served"
             PROVE  \A f \in (AppConfigShape \ {"persistConversations"}) \ job.edits :
                      (/\ f \in {"readOnly", "writerMode"} =>
                            ~(job.payload["forceDisableUpstreamEdits"] = "on")
                       /\ f \in OmittedWhenEmpty => serverConfig[f] \notin {"", "0"}
                       /\ Meaning(Read(serverConfig), f) = Meaning(job.base, f))
                      => Meaning(serverConfig', f) = Meaning(serverConfig, f)
  BY DEF formVars
<1>1. serverConfig' = merged(serverConfig, job.payload)
  BY SaveMoves DEF ServeSettings
<1>2. Normal(serverConfig) /\ SentFrom(job)
  BY DEF SettingsInv, FormInv, SaveOK
<1>3. ASSUME NEW f, Unchanged(serverConfig, job, f)
      PROVE  Meaning(serverConfig', f) = Meaning(serverConfig, f)
  <2> HIDE DEF job
  <2> QED BY <1>1, <1>2, <1>3, ServedKeeps
<1> HIDE DEF job
<1> QED BY <1>3 DEF Unchanged

LEMMA SavedIsShownStep ==
  ASSUME SettingsInv, [SettingsNext]_formVars
  PROVE  [LET job == jobs["save"]
          IN  (/\ job.at = "read" /\ jobs'["save"].at = "idle"
               /\ config' = job.copy /\ job.alone)
              => \A f \in SettingsFormState \ (Secrets \cup {"modelAliases"}) :
                   job.payload[f] \notin {"", " ", "0"} => form'[f] = job.payload[f]]_formVars
<1> DEFINE job == jobs["save"]
           shown == buildFormState(job.copy)
           fforce == "forceDisableUpstreamEdits"
<1> SUFFICES ASSUME SettingsNext, job.at = "read", jobs'["save"].at = "idle", job.alone,
                    NEW f \in SettingsFormState \ (Secrets \cup {"modelAliases"}),
                    job.payload[f] \notin {"", " ", "0"}
             PROVE  form'[f] = job.payload[f]
  BY DEF formVars
<1>1. form' = Forced(form, shown)
  BY SaveMoves DEF ShowConfig
<1>2. Reflects(job.copy, job.payload) /\ Consistent(job.payload)
  BY DEF SettingsInv, SaveOK
<1>3. JobOK(job)
  BY DEF SettingsInv, JobsOK, Jobs
<1>4. WellSent(job.payload) /\ IsCopy(job.copy)
  BY <1>3 DEF JobOK
<1> HIDE DEF job
<1>5. shown \in Forms
  BY <1>4, FormOfCopy
<1>6. shown[f] = job.payload[f]
  BY <1>2 DEF Reflects
<1>7. CASE ~(shown[fforce] = "on" /\ form[fforce] # "on")
  BY <1>1, <1>6, <1>7 DEF Forced
<1>8. CASE shown[fforce] = "on" /\ form[fforce] # "on"
  <2>1. /\ fforce \in SettingsFormState \ (Secrets \cup {"modelAliases"})
        /\ fforce \notin Numbers \cup OmittedWhenEmpty /\ fforce \in Flags
    BY DEF SettingsFormState, BehaviorFields, guardToggles, Secrets, Numbers, Positive,
           OmittedWhenEmpty, RetryBlocks, Flags, Toggles, PersistenceToggles
  <2>2. job.payload[fforce] \notin {"", " "}
    BY <1>4, <2>1 DEF WellSent
  <2>3. shown[fforce] = job.payload[fforce]
    BY <1>2, <2>1, <2>2 DEF Reflects
  <2>4. job.payload["readOnly"] = "on" /\ job.payload["writerMode"] = "off"
    BY <1>2, <1>8, <2>3 DEF Consistent
  <2>5. form' = [shown EXCEPT !["readOnly"] = "on", !["writerMode"] = "off"]
    BY <1>1, <1>8 DEF Forced
  <2> HIDE DEF shown
  <2> QED BY <1>5, <1>6, <2>4, <2>5 DEF Forms
<1> QED BY <1>7, <1>8

=============================================================================
