----------------------------- MODULE RoutePlan -----------------------------
(***************************************************************************)
(* How a session gets its two providers: the registry of providers         *)
(* (backends/registry.py), the configuration of a payload                  *)
(* (config/, service/session.py), the plan made before the local services  *)
(* run and the route selected when they do (runtime/router.py), and the    *)
(* probes of the "Test" buttons (service/cloud_probe.py).                  *)
(***************************************************************************)
EXTENDS Naturals, Sequences, FiniteSets

CONSTANTS
  Cases,       \* the payloads of the shell, each with what the detector may find
  Names,       \* what a payload or the detector may name
  Probes,      \* the pairs of providers tested, "" for none
  MaxChanges   \* bound: changes of the machine between plan and session

\* What the shell sends, and what the detector finds.
LocalServices == {"qwen_asr", "hymt"}
Requested ==
  [mode : Names, asr : Names, mt : Names, language : Names, asrPreference : Names, mtPreference : Names,
   audio : BOOLEAN, transcript : BOOLEAN]
Detected ==
  [network : BOOLEAN, keys : SUBSET Names, urls : SUBSET Names, models : SUBSET Names,
   runtimes : SUBSET LocalServices, services : SUBSET LocalServices, settings : [region : Names, tier : Names]]

ASSUME RouteAssumption ==
  Cases \subseteq Requested \X Detected /\ {"", "auto", "en"} \subseteq Names /\ MaxChanges \in Nat

VARIABLES
  phase,       \* "idle", "planned", "created" or "refused"; "probed" of a test
  payload, machine,
  atPlan,      \* the machine the plan was made for
  plan,        \* the planned route and the services to start
  started,     \* the services of the plan that were started
  route,       \* the route of the session
  probe,       \* the reply of a test
  changes

vars == <<phase, payload, machine, atPlan, plan, started, route, probe, changes>>

(*************************** the registry **********************************)

Languages == {"en", "zh", "ja", "ko"}

\* The required key of each credential group; the custom endpoint's is optional.
GroupKeys ==
  [g \in {"dashscope", "openai", "deepgram", "assemblyai", "gladia", "deepseek", "gemini", "groq", "openrouter",
          "siliconflow", "deepl", "google_translate", "azure_translator", "custom_openai"} |->
     {g} \ {"custom_openai"}]

Pseudo == [locality |-> "mock", group |-> "", languages |-> {}, service |-> "", auto |-> FALSE,
           probed |-> FALSE, partials |-> TRUE]
Local(service, languages, auto) ==
  [Pseudo EXCEPT !.locality = "local", !.service = service, !.languages = languages, !.auto = auto]
\* A cloud provider uploads (audio or transcript) and can be probed.
Cloud(group, languages, auto, partials) ==
  [Pseudo EXCEPT !.locality = "cloud", !.group = group, !.languages = languages, !.auto = auto,
                 !.probed = TRUE, !.partials = partials]

AsrProviders ==
  [none            |-> Pseudo,
   mock            |-> [Pseudo EXCEPT !.languages = Languages],
   qwen_local      |-> Local("qwen_asr", Languages, TRUE),
   simulstreaming  |-> Local("qwen_asr", Languages, FALSE),
   qwen_cloud      |-> Cloud("dashscope", Languages, TRUE, TRUE),
   openai_realtime |-> Cloud("openai", Languages, FALSE, TRUE),
   deepgram        |-> Cloud("deepgram", Languages, FALSE, TRUE),
   assemblyai      |-> Cloud("assemblyai", {"en"}, FALSE, TRUE),
   gladia          |-> Cloud("gladia", Languages, FALSE, TRUE)]

\* CHAT_PRESETS: the group and the base URL of a chat provider, "" for none.
ChatPresets ==
  [openai_chat      |-> [group |-> "openai", url |-> "api.openai.com"],
   deepseek_chat    |-> [group |-> "deepseek", url |-> "api.deepseek.com"],
   gemini_chat      |-> [group |-> "gemini", url |-> "generativelanguage.googleapis.com"],
   groq_chat        |-> [group |-> "groq", url |-> "api.groq.com"],
   openrouter_chat  |-> [group |-> "openrouter", url |-> "openrouter.ai"],
   siliconflow_chat |-> [group |-> "siliconflow", url |-> "api.siliconflow.cn"],
   custom_chat      |-> [group |-> "custom_openai", url |-> ""]]

ApiTranslators == {"deepl", "google_translate", "azure_translator"}
MtProviders ==
  [p \in {"none", "mock", "hymt_local", "qwen_cloud"} \cup ApiTranslators \cup DOMAIN ChatPresets |->
     CASE p \in {"none", "mock"} -> Pseudo
       [] p = "hymt_local" -> Local("hymt", {}, TRUE)
       [] p = "qwen_cloud" -> Cloud("dashscope", {}, TRUE, TRUE)
       [] p \in ApiTranslators -> Cloud(p, {}, FALSE, FALSE)
       [] p \in DOMAIN ChatPresets -> Cloud(ChatPresets[p].group, {}, FALSE, TRUE)]

Known(specs) == DOMAIN specs \cup {"auto"}
Supports(spec, language) == language = "auto" \/ spec.languages = {} \/ language \in spec.languages
KeysPresent(spec, keys) == spec.group = "" \/ GroupKeys[spec.group] \subseteq keys

(*************************** the configuration *****************************)

Regions == {"singapore", "beijing"}
NormalRegion(value) == IF value \in Regions THEN value ELSE "singapore"

\* load_config without a file: defaults, then the settings the shell forwards that are known.
Loaded(settings) ==
  [mode |-> "auto", asr |-> "auto", mt |-> "auto", language |-> "en",
   asrPreference |-> "qwen_cloud", mtPreference |-> "qwen_cloud",
   audio |-> FALSE, transcript |-> FALSE, asrProfile |-> "quality", mtProfile |-> "lightweight",
   asrRegion |-> NormalRegion(settings.region), mtRegion |-> NormalRegion(settings.region),
   tier |-> IF settings.tier \in {"free", "pro"} THEN settings.tier ELSE "free"]

\* What a payload leaves out keeps its value, except the consents.
DesktopConfig(p, settings) ==
  LET c == Loaded(settings) IN
  [c EXCEPT !.mode = p.mode, !.asr = p.asr, !.mt = p.mt, !.language = p.language,
            !.asrPreference = IF p.asrPreference = "" THEN @ ELSE p.asrPreference,
            !.mtPreference = IF p.mtPreference = "" THEN @ ELSE p.mtPreference,
            !.audio = p.audio, !.transcript = p.transcript]

Valid(c) ==
  /\ c.mode \in {"auto", "local", "cloud"}
  /\ c.asr \in Known(AsrProviders) /\ c.mt \in Known(MtProviders)
  /\ c.language \in Languages \cup {"auto"}
  /\ c.asrPreference \in DOMAIN AsrProviders /\ AsrProviders[c.asrPreference].locality = "cloud"
  /\ c.mtPreference \in DOMAIN MtProviders /\ MtProviders[c.mtPreference].locality = "cloud"
  /\ LET chosen == {AsrProviders[p] : p \in {c.asr} \ {"auto"}} \cup {MtProviders[p] : p \in {c.mt} \ {"auto"}}
     IN \A spec \in chosen : /\ ~(c.mode = "local" /\ spec.locality = "cloud")
                             /\ ~(c.mode = "cloud" /\ spec.locality = "local")
  /\ c.asr # "auto" /\ AsrProviders[c.asr].locality = "cloud" => c.audio
  /\ c.asr # "auto" => Supports(AsrProviders[c.asr], c.language)
  /\ c.mt # "auto" /\ MtProviders[c.mt].locality = "cloud" => c.transcript
  /\ c.asrRegion \in Regions /\ c.tier \in {"free", "pro"}

AsrModels == [quality |-> "qwen3-asr-1.7b", lightweight |-> "qwen3-asr-0.6b"]
MtModels == [quality |-> "hymt2-7b", lightweight |-> "hymt2-1.8b"]
\* A profile whose model is missing gives way to an installed lightweight one.
AlignedProfile(profile, names, models) ==
  IF profile = "quality" /\ names.quality \notin models /\ names.lightweight \in models
    THEN "lightweight" ELSE profile
\* The translation models a configuration names are not the names the detector reports.
AlignLocalProfiles(c, m) ==
  [c EXCEPT !.asrProfile = AlignedProfile(@, AsrModels, m.models)]

(***************************** the router **********************************)

Usable(spec, m) == m.network /\ KeysPresent(spec, m.keys)

\* The preferred cloud provider, or else one that is validated; "" for none.
PreferredCloud(specs, preference, language, m) ==
  LET Serves(p) == Usable(specs[p], m) /\ Supports(specs[p], language)
      others == {p \in DOMAIN specs : specs[p].locality = "cloud" /\ specs[p].auto /\ Serves(p)}
  IN IF Serves(preference) THEN preference
     ELSE IF others # {} THEN CHOOSE p \in others : TRUE ELSE ""

Healthy(service, m) == service \in m.services
\* Mutant: an installed runtime counts as a service that answers.
ReadyOnceInstalled(service, m, requireHealthy) == Healthy(service, m) \/ service \in m.runtimes
Ready(service, m, requireHealthy) ==
  Healthy(service, m) \/ (~requireHealthy /\ service \in m.runtimes)

ExplicitServes(spec, language, m, requireHealthy) ==
  /\ spec.locality = "cloud" => Usable(spec, m) /\ Supports(spec, language)
  /\ spec.locality # "cloud" /\ spec.service # "" => Ready(spec.service, m, requireHealthy)

Pick(provider, degraded) == [ok |-> TRUE, provider |-> provider, degraded |-> degraded]
NoPick == [ok |-> FALSE, provider |-> "none", degraded |-> FALSE]

\* No caller measures the models: none ever meets its latency target.
Calibrated == {}
MeetsSla(model) == model \in Calibrated

SelectAsr(c, m, requireHealthy) ==
  LET ready == Ready("qwen_asr", m, requireHealthy)
      cloud == PreferredCloud(AsrProviders, c.asrPreference, c.language, m)
  IN IF c.asr # "auto"
       THEN IF ExplicitServes(AsrProviders[c.asr], c.language, m, requireHealthy)
              THEN Pick(c.asr, FALSE) ELSE NoPick
     ELSE IF c.mode # "cloud" /\ ready
             /\ \E model \in {AsrModels.quality, AsrModels.lightweight} : model \in m.models /\ MeetsSla(model)
       THEN Pick("qwen_local", FALSE)
     ELSE IF c.mode # "local" /\ c.audio /\ cloud # "" THEN Pick(cloud, FALSE)
     ELSE IF AsrModels.lightweight \in m.models /\ ready THEN Pick("qwen_local", TRUE)
     ELSE NoPick

\* Without any translator the session goes on without translation.
SelectTranslation(c, m, requireHealthy) ==
  LET ready == Ready("hymt", m, requireHealthy)
      cloud == PreferredCloud(MtProviders, c.mtPreference, "auto", m)
  IN IF c.mt = "none" THEN Pick("none", FALSE)
     ELSE IF c.mt # "auto"
       THEN IF ExplicitServes(MtProviders[c.mt], "auto", m, requireHealthy) THEN Pick(c.mt, FALSE) ELSE NoPick
     ELSE IF c.mode # "cloud" /\ ready
             /\ \E model \in {MtModels.quality, MtModels.lightweight} : model \in m.models /\ MeetsSla(model)
       THEN Pick("hymt_local", FALSE)
     ELSE IF c.mode # "local" /\ c.transcript /\ cloud # "" THEN Pick(cloud, FALSE)
     ELSE IF MtModels.lightweight \in m.models /\ ready THEN Pick("hymt_local", TRUE)
     ELSE Pick("none", TRUE)

Select(c, m, requireHealthy) ==
  LET asr == SelectAsr(c, m, requireHealthy)
      mt == SelectTranslation(c, m, requireHealthy)
      asrCloud == AsrProviders[asr.provider].locality = "cloud"
      mtCloud == MtProviders[mt.provider].locality = "cloud"
      degraded == asr.degraded \/ mt.degraded
  IN [ok |-> asr.ok /\ mt.ok, asr |-> asr.provider, mt |-> mt.provider, degraded |-> degraded,
      status |-> CASE degraded -> "degraded"
                   [] ~degraded /\ asrCloud /\ mtCloud -> "cloud"
                   [] ~degraded /\ asrCloud # mtCloud /\ mt.provider # "none" -> "hybrid"
                   [] OTHER -> "local"]

ServicesToStart(decision, m) ==
  {s \in {AsrProviders[decision.asr].service, MtProviders[decision.mt].service} \ {""} : ~Healthy(s, m)}

\* route_payload: the model the reply names, by the profile.
RoutedModel(decision, c) ==
  IF decision.asr = "qwen_local" THEN AsrModels[c.asrProfile] ELSE ""

(***************************** the adapters ********************************)

\* What a factory gives the recognizer: the consent, the key and the region of the session.
AsrAdapter(provider, c, m) ==
  [consent |-> c.audio, key |-> AsrProviders[provider].group \in m.keys, region |-> c.asrRegion]

\* chat_preset_values: the environment before the configuration (empty) before the preset.
ChatUrl(provider, m) == IF ChatPresets[provider].group \in m.urls THEN "configured" ELSE ChatPresets[provider].url

MtAdapter(provider, c, m) ==
  [consent |-> c.transcript, key |-> MtProviders[provider].group \in m.keys, region |-> c.mtRegion,
   url |-> IF provider \in DOMAIN ChatPresets THEN ChatUrl(provider, m) ELSE "fixed"]

\* authorize of the translation adapters.
Authorizes(provider, c, m) ==
  LET a == MtAdapter(provider, c, m) IN
  a.consent /\ a.url # "" /\ (a.key \/ provider = "custom_chat")

\* The presets of the assistant: one per chat group, and DashScope's compatible mode.
AssistantGroups == {"dashscope"} \cup {ChatPresets[p].group : p \in DOMAIN ChatPresets}
AssistantPreset(group) ==
  IF group = "dashscope" THEN [url |-> "", keyRequired |-> TRUE]
  ELSE [url |-> (CHOOSE preset \in {ChatPresets[p] : p \in DOMAIN ChatPresets} : preset.group = group).url,
        keyRequired |-> GroupKeys[group] # {}]
AssistantEndpoint(group, m) ==
  [region |-> IF group = "dashscope" THEN NormalRegion(m.settings.region) ELSE "",
   url |-> IF group = "dashscope" THEN "regional"
           ELSE IF group \in m.urls THEN "configured" ELSE AssistantPreset(group).url,
   key |-> group \in m.keys, keyRequired |-> AssistantPreset(group).keyRequired]

(****************************** the actions ********************************)

NoRoute == [ok |-> FALSE, asr |-> "none", mt |-> "none", degraded |-> FALSE, status |-> "local",
            services |-> {}, model |-> ""]
NoProbe == [ok |-> FALSE, asr |-> "skipped", mt |-> "skipped", code |-> "", uploads |-> FALSE]
NoMachine == [network |-> FALSE, keys |-> {}, urls |-> {}, models |-> {}, runtimes |-> {}, services |-> {},
              settings |-> [region |-> "", tier |-> ""]]
NoPayload == [mode |-> "auto", asr |-> "auto", mt |-> "auto", language |-> "en", asrPreference |-> "",
              mtPreference |-> "", audio |-> FALSE, transcript |-> FALSE]

Init ==
  /\ phase = "idle" /\ payload = NoPayload /\ machine = NoMachine /\ atPlan = NoMachine
  /\ plan = NoRoute /\ started = {} /\ route = NoRoute /\ probe = NoProbe /\ changes = 0

\* The model is that of the plan's or the session's aligned configuration.
Decided(p, m, requireHealthy) ==
  LET c == DesktopConfig(p, m.settings)
      aligned == AlignLocalProfiles(c, m)
      decision == Select(aligned, m, requireHealthy)
  IN IF ~Valid(c) \/ ~decision.ok THEN NoRoute
     ELSE [ok |-> TRUE, asr |-> decision.asr, mt |-> decision.mt, degraded |-> decision.degraded,
           status |-> decision.status, services |-> ServicesToStart(decision, m),
           model |-> RoutedModel(decision, aligned)]

Plan(p, m) ==
  /\ phase = "idle"
  /\ payload' = p /\ machine' = m /\ atPlan' = m
  /\ plan' = Decided(p, m, FALSE)
  /\ phase' = IF plan'.ok THEN "planned" ELSE "refused"
  /\ UNCHANGED <<started, route, probe, changes>>

\* The shell starts the services of the plan, one after the other.
StartService(s) ==
  /\ phase = "planned" /\ s \in plan.services \ started
  /\ started' = started \cup {s}
  /\ machine' = [machine EXCEPT !.services = @ \cup {s}]
  /\ UNCHANGED <<phase, payload, atPlan, plan, route, probe, changes>>

\* A service that cannot be started ends the start of the session.
StartFails(s) ==
  /\ phase = "planned" /\ s \in plan.services \ started
  /\ phase' = "refused"
  /\ UNCHANGED <<payload, machine, atPlan, plan, started, route, probe, changes>>

\* The network goes or comes, or a service ends.
MachineChanges ==
  /\ phase = "planned" /\ changes < MaxChanges
  /\ changes' = changes + 1
  /\ \/ machine' = [machine EXCEPT !.network = ~@]
     \/ \E s \in machine.services : machine' = [machine EXCEPT !.services = @ \ {s}]
  /\ UNCHANGED <<phase, payload, atPlan, plan, started, route, probe>>

\* start_session: the route is selected again, of services that answer.
Create ==
  /\ phase = "planned" /\ plan.services \subseteq started
  /\ route' = Decided(payload, machine, TRUE)
  /\ phase' = IF route'.ok THEN "created" ELSE "refused"
  /\ UNCHANGED <<payload, machine, atPlan, plan, started, probe, changes>>

\* The probe of a recognizer has no consent, that of a translator has the caller's.
ProbeUploads(kind) == kind = "mt"
\* probe_cloud: the recognizer first; the first failure ends the test.
ProbeCloud(asr, mt, asrWorks, mtWorks) ==
  LET Asked(p) == IF p = "" THEN "skipped" ELSE "pending"
      Probeable(specs, p) == p \in DOMAIN specs /\ specs[p].probed
      start == [NoProbe EXCEPT !.asr = Asked(asr), !.mt = Asked(mt)]
      afterAsr ==
        IF asr = "" THEN start
        ELSE IF ~Probeable(AsrProviders, asr) THEN [start EXCEPT !.asr = "failed", !.code = "unknown_provider"]
        ELSE IF asrWorks THEN [start EXCEPT !.asr = "connected"]
        ELSE [start EXCEPT !.asr = "failed", !.code = "error", !.mt = IF @ = "pending" THEN "not_tested" ELSE @]
  IN IF afterAsr.code # "" THEN afterAsr
     ELSE IF mt = "" THEN [afterAsr EXCEPT !.ok = TRUE]
     ELSE IF ~Probeable(MtProviders, mt) THEN [afterAsr EXCEPT !.mt = "failed", !.code = "unknown_provider"]
     ELSE IF mtWorks THEN [afterAsr EXCEPT !.mt = "connected", !.ok = TRUE, !.uploads = ProbeUploads("mt")]
     ELSE [afterAsr EXCEPT !.mt = "failed", !.code = "error", !.uploads = ProbeUploads("mt")]

Test(asr, mt) ==
  /\ phase = "idle"
  /\ \E asrWorks, mtWorks \in BOOLEAN : probe' = ProbeCloud(asr, mt, asrWorks, mtWorks)
  /\ phase' = "probed"
  /\ UNCHANGED <<payload, machine, atPlan, plan, started, route, changes>>

Next ==
  \/ \E case \in Cases : Plan(case[1], case[2])
  \/ \E s \in LocalServices : StartService(s) \/ StartFails(s)
  \/ MachineChanges
  \/ Create
  \/ \E pair \in Probes : Test(pair[1], pair[2])

Spec == Init /\ [][Next]_vars

(***************************** properties **********************************)

TypeOK ==
  /\ phase \in {"idle", "planned", "created", "refused", "probed"}
  /\ payload \in Requested /\ machine \in Detected /\ atPlan \in Detected
  /\ \A r \in {plan, route} :
       r.asr \in DOMAIN AsrProviders /\ r.mt \in DOMAIN MtProviders /\ r.services \subseteq LocalServices
  /\ started \subseteq plan.services /\ changes \in 0..MaxChanges

IsCloud(specs, p) == specs[p].locality = "cloud"

\* Nothing leaves the computer without its consent or in local mode, nor is a chosen provider replaced.
UploadsAreAllowed ==
  \A r \in {plan, route} : r.ok =>
    /\ IsCloud(AsrProviders, r.asr) => payload.audio /\ payload.mode # "local"
    /\ IsCloud(MtProviders, r.mt) => payload.transcript /\ payload.mode # "local"
    /\ payload.asr \in {r.asr, "auto"} /\ payload.mt \in {r.mt, "auto"}

\* When all the services of the plan started and nothing else changed, the session has the planned route.
PlanIsKept ==
  plan.ok /\ changes = 0 /\ plan.services \subseteq started =>
    /\ phase # "refused"
    /\ phase = "created" => route = [plan EXCEPT !.services = {}]

\* The providers of a session answer: local ones run, cloud ones have their key, an endpoint and the language.
RouteServes ==
  LET c == AlignLocalProfiles(DesktopConfig(payload, machine.settings), machine) IN
  phase = "created" =>
    /\ route.services = {}
    /\ IsCloud(AsrProviders, route.asr) =>
         /\ AsrAdapter(route.asr, c, machine).consent /\ AsrAdapter(route.asr, c, machine).key
         /\ Supports(AsrProviders[route.asr], payload.language)
    /\ IsCloud(MtProviders, route.mt) =>
         Authorizes(route.mt, c, machine) \/ (route.mt = "custom_chat" /\ "custom_openai" \notin machine.urls)

\* The local model an automatic route names is installed.
AutoModelIsInstalled ==
  \A r \in {<<plan, atPlan>>, <<route, machine>>} :
    r[1].ok /\ payload.asr = "auto" /\ r[1].asr = "qwen_local" => r[1].model \in r[2].models

\* More consent never turns a session away nor makes its route worse.
ConsentNeverHurts ==
  LET granted == Decided([payload EXCEPT !.audio = TRUE, !.transcript = TRUE], atPlan, FALSE)
  IN plan.ok => granted.ok /\ (granted.degraded => plan.degraded)

\* A stale preference of the shell neither refuses a session nor sends a key to two regions.
SettingsAreHarmless ==
  LET c == DesktopConfig(payload, atPlan.settings)
      plain == Decided(payload, [atPlan EXCEPT !.settings = NoMachine.settings], FALSE)
  IN phase # "idle" /\ phase # "probed" =>
       /\ plan = plain
       /\ {c.asrRegion, c.mtRegion} = {AssistantEndpoint("dashscope", atPlan).region}

\* The assistant and a translator of the same key use the same endpoint.
OneEndpoint ==
  \A p \in DOMAIN ChatPresets :
    AssistantEndpoint(ChatPresets[p].group, machine).url = ChatUrl(p, machine)

\* A test that passed reached every provider asked for; none is left undecided but after an unknown one.
TestsAreDecided ==
  phase = "probed" =>
    /\ probe.ok = ({"pending", "failed", "not_tested"} \cap {probe.asr, probe.mt} = {})
    /\ "pending" \in {probe.asr, probe.mt} => probe.code = "unknown_provider"
    /\ probe.uploads => probe.asr \in {"connected", "skipped"}
=============================================================================
