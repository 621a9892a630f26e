-------------------------- MODULE RoutePlanProofs --------------------------
(***************************************************************************)
(* Proofs about RoutePlan: whatever a payload asks for, whatever keys,     *)
(* models and services the machine has and however it changes, a route     *)
(* uploads only what the user allowed, serves, and is the planned one      *)
(* while the machine stays as it was (RoutesAreAllowed).                   *)
(*                                                                         *)
(* A decision is a function of payload and machine.  It is put into a form *)
(* without the settings of the shell (DecidedIs), what it selects is shown *)
(* to serve (AsrSound, MtSound) and to stay selected when its services     *)
(* started (PlanStays); the invariant then only says when each route was   *)
(* decided (RouteInv).                                                     *)
(***************************************************************************)
EXTENDS MCProviders, TLAPS

(***************************************************************************)
(* Consent.                                                                *)

\* The part of UploadsAreAllowed that one route and one payload decide.
Allowed(r, p) ==
  r.ok =>
    /\ IsCloud(AsrProviders, r.asr) => p.audio /\ p.mode # "local"
    /\ IsCloud(MtProviders, r.mt) => p.transcript /\ p.mode # "local"
    /\ p.asr \in {r.asr, "auto"} /\ p.mt \in {r.mt, "auto"}

\* A session's route exists only once the session does: a plan is made before.
RouteIsLate == route.ok => phase = "created"

ConsentInv == Allowed(plan, payload) /\ Allowed(route, payload) /\ RouteIsLate

\* The local recognizer and translator and the placeholder for none are not cloud providers.
LEMMA LocalIsNotCloud ==
  /\ ~IsCloud(AsrProviders, "qwen_local") /\ ~IsCloud(AsrProviders, "none")
  /\ ~IsCloud(MtProviders, "hymt_local") /\ ~IsCloud(MtProviders, "none")
<1>1. ~IsCloud(AsrProviders, "qwen_local") /\ ~IsCloud(AsrProviders, "none")
  BY DEF IsCloud, AsrProviders, Local, Pseudo
<1>2. MtProviders["hymt_local"] = Local("hymt", {}, TRUE) /\ MtProviders["none"] = Pseudo
  BY DEF MtProviders, ApiTranslators, ChatPresets
<1>3. Local("hymt", {}, TRUE).locality = "local" /\ Pseudo.locality = "mock"
  BY DEF Local, Pseudo
<1> QED BY <1>1, <1>2, <1>3 DEF IsCloud

\* What the payload says of consent, mode and providers is what the session's configuration says.
LEMMA ConfigKeepsChoice ==
  ASSUME NEW p, NEW settings, NEW m
  PROVE  LET c == AlignLocalProfiles(DesktopConfig(p, settings), m) IN
         /\ c.mode = p.mode /\ c.asr = p.asr /\ c.mt = p.mt
         /\ c.audio = p.audio /\ c.transcript = p.transcript
BY DEF AlignLocalProfiles, DesktopConfig, Loaded

\* A chosen recognizer is taken or the session refused; an automatic cloud one needs consent and the mode.
LEMMA AsrChoice ==
  ASSUME NEW c, NEW m, NEW requireHealthy, SelectAsr(c, m, requireHealthy).ok
  PROVE  LET r == SelectAsr(c, m, requireHealthy) IN
         /\ c.asr # "auto" => r.provider = c.asr
         /\ c.asr = "auto" /\ IsCloud(AsrProviders, r.provider) => c.audio /\ c.mode # "local"
BY LocalIsNotCloud DEF SelectAsr, Pick, NoPick

\* So is a chosen translator, and an automatic cloud one.
LEMMA MtChoice ==
  ASSUME NEW c, NEW m, NEW requireHealthy, SelectTranslation(c, m, requireHealthy).ok
  PROVE  LET r == SelectTranslation(c, m, requireHealthy) IN
         /\ c.mt # "auto" => r.provider = c.mt
         /\ c.mt = "auto" /\ IsCloud(MtProviders, r.provider) => c.transcript /\ c.mode # "local"
BY LocalIsNotCloud DEF SelectTranslation, Pick, NoPick

\* validate() refuses an explicit cloud provider in local mode or without its consent.
LEMMA ExplicitNeedsConsent ==
  ASSUME NEW c, Valid(c)
  PROVE  /\ c.asr # "auto" /\ IsCloud(AsrProviders, c.asr) => c.audio /\ c.mode # "local"
         /\ c.mt # "auto" /\ IsCloud(MtProviders, c.mt) => c.transcript /\ c.mode # "local"
<1> DEFINE chosen == {AsrProviders[p] : p \in {c.asr} \ {"auto"}} \cup {MtProviders[p] : p \in {c.mt} \ {"auto"}}
<1>1. \A spec \in chosen : ~(c.mode = "local" /\ spec.locality = "cloud")
  BY DEF Valid
<1>2. c.asr # "auto" => AsrProviders[c.asr] \in chosen
  OBVIOUS
<1>3. c.mt # "auto" => MtProviders[c.mt] \in chosen
  OBVIOUS
<1>4. c.asr # "auto" /\ AsrProviders[c.asr].locality = "cloud" => c.audio
  BY DEF Valid
<1>5. c.mt # "auto" /\ MtProviders[c.mt].locality = "cloud" => c.transcript
  BY DEF Valid
<1> HIDE DEF chosen
<1> QED BY <1>1, <1>2, <1>3, <1>4, <1>5 DEF IsCloud

\* A refusal is no route.
LEMMA NoRouteIsNone == ~NoRoute.ok
BY DEF NoRoute

\* What the router selects for a valid payload is allowed by it.
LEMMA SelectionIsAllowed ==
  ASSUME NEW p, NEW settings, NEW m, NEW requireHealthy,
         Valid(DesktopConfig(p, settings)),
         Select(AlignLocalProfiles(DesktopConfig(p, settings), m), m, requireHealthy).ok
  PROVE  Allowed(Select(AlignLocalProfiles(DesktopConfig(p, settings), m), m, requireHealthy), p)
<1> DEFINE c == DesktopConfig(p, settings)
           aligned == AlignLocalProfiles(c, m)
           asr == SelectAsr(aligned, m, requireHealthy)
           mt == SelectTranslation(aligned, m, requireHealthy)
           r == Select(aligned, m, requireHealthy)
<1>1. /\ r.ok = (asr.ok /\ mt.ok) /\ r.asr = asr.provider /\ r.mt = mt.provider
  BY DEF Select
<1>2. /\ c.mode = p.mode /\ c.asr = p.asr /\ c.mt = p.mt /\ c.audio = p.audio /\ c.transcript = p.transcript
  BY DEF DesktopConfig, Loaded
<1>3. /\ aligned.mode = p.mode /\ aligned.asr = p.asr /\ aligned.mt = p.mt
      /\ aligned.audio = p.audio /\ aligned.transcript = p.transcript
  BY ConfigKeepsChoice
<1>4. asr.ok /\ mt.ok
  BY <1>1
<1>5. /\ p.asr # "auto" => asr.provider = p.asr
      /\ p.asr = "auto" /\ IsCloud(AsrProviders, asr.provider) => p.audio /\ p.mode # "local"
  <2> HIDE DEF aligned
  <2> QED BY <1>3, <1>4, AsrChoice
<1>6. /\ p.mt # "auto" => mt.provider = p.mt
      /\ p.mt = "auto" /\ IsCloud(MtProviders, mt.provider) => p.transcript /\ p.mode # "local"
  <2> HIDE DEF aligned
  <2> QED BY <1>3, <1>4, MtChoice
<1>7. /\ p.asr # "auto" /\ IsCloud(AsrProviders, p.asr) => p.audio /\ p.mode # "local"
      /\ p.mt # "auto" /\ IsCloud(MtProviders, p.mt) => p.transcript /\ p.mode # "local"
  <2> HIDE DEF c
  <2> QED BY <1>2, ExplicitNeedsConsent DEF c
<1> HIDE DEF r, asr, mt
<1> QED BY <1>1, <1>5, <1>6, <1>7 DEF Allowed, r, aligned, c

\* So is what a plan or a session's start decides.
LEMMA DecisionIsAllowed ==
  ASSUME NEW p, NEW m, NEW requireHealthy
  PROVE  Allowed(Decided(p, m, requireHealthy), p)
<1> DEFINE decision == Select(AlignLocalProfiles(DesktopConfig(p, m.settings), m), m, requireHealthy)
           r == Decided(p, m, requireHealthy)
<1>1. CASE r = NoRoute
  BY <1>1, NoRouteIsNone DEF Allowed
<1>2. CASE r # NoRoute
  <2>1. Valid(DesktopConfig(p, m.settings)) /\ decision.ok /\ r.asr = decision.asr /\ r.mt = decision.mt
    BY <1>2 DEF Decided
  <2>2. Allowed(decision, p)
    BY <2>1, SelectionIsAllowed
  <2> HIDE DEF decision, r
  <2> QED BY <2>1, <2>2 DEF Allowed, r
<1> QED BY <1>1, <1>2

\* ConsentInv holds at first and every action keeps it: only Plan and Create decide a route.
LEMMA InitConsent == Init => ConsentInv
BY NoRouteIsNone DEF Init, ConsentInv, Allowed, RouteIsLate

LEMMA NextConsent == ConsentInv /\ [Next]_vars => ConsentInv'
<1> SUFFICES ASSUME ConsentInv, [Next]_vars PROVE ConsentInv'
  OBVIOUS
<1>1. ASSUME NEW p, NEW m, Plan(p, m) PROVE ConsentInv'
  <2>1. plan' = Decided(p, m, FALSE) /\ payload' = p /\ route' = route /\ phase = "idle"
    BY <1>1 DEF Plan
  <2>2. ~route.ok
    BY <2>1 DEF ConsentInv, RouteIsLate
  <2>3. Allowed(plan', payload')
    BY <2>1, DecisionIsAllowed
  <2> QED BY <2>1, <2>2, <2>3 DEF ConsentInv, Allowed, RouteIsLate
<1>2. CASE Create
  <2>1. route' = Decided(payload, machine, TRUE) /\ payload' = payload /\ plan' = plan
    BY <1>2 DEF Create
  <2>2. route'.ok => phase' = "created"
    BY <1>2 DEF Create
  <2>3. Allowed(route', payload')
    BY <2>1, DecisionIsAllowed
  <2> QED BY <2>1, <2>2, <2>3 DEF ConsentInv, RouteIsLate
<1>3. ASSUME NEW s, StartService(s) \/ StartFails(s) PROVE ConsentInv'
  BY <1>3 DEF StartService, StartFails, ConsentInv, RouteIsLate
<1>4. CASE MachineChanges
  BY <1>4 DEF MachineChanges, ConsentInv, RouteIsLate
<1>5. ASSUME NEW asr, NEW mt, Test(asr, mt) PROVE ConsentInv'
  BY <1>5 DEF Test, ConsentInv, RouteIsLate
<1>6. CASE UNCHANGED vars
  BY <1>6 DEF vars, ConsentInv, RouteIsLate
<1> QED BY <1>1, <1>2, <1>3, <1>4, <1>5, <1>6 DEF Next

(* No planned route and no session's route uploads audio or transcripts    *)
(* without the consent of the payload or in local mode, and a provider the *)
(* user chose is never replaced (config/schema.py validate,                *)
(* runtime/router.py), for all payloads and machines.                      *)
THEOREM ConsentIsKept == Spec => []UploadsAreAllowed
<1>1. ConsentInv => UploadsAreAllowed
  BY DEF ConsentInv, UploadsAreAllowed, Allowed
<1> QED BY InitConsent, NextConsent, <1>1, PTL DEF Spec

(***************************************************************************)
(* The registry.                                                           *)

\* A provider of a registry is a cloud one with a key and no service, or one that needs no key.
IsAsrSpec(s) ==
  /\ s.locality = "cloud" => s.service = "" /\ s.group \in DOMAIN GroupKeys \ {"custom_openai"}
  /\ s.locality # "cloud" => s.service \in {"", "qwen_asr"} /\ s.group = ""
IsMtSpec(s) ==
  /\ s.locality = "cloud" => s.service = "" /\ s.group \in DOMAIN GroupKeys
  /\ s.locality # "cloud" => s.service \in {"", "hymt"} /\ s.group = ""

\* What the entries of the registries have in common.
LEMMA CloudSpec ==
  ASSUME NEW languages, NEW auto, NEW partials, NEW g \in DOMAIN GroupKeys
  PROVE  /\ IsMtSpec(Cloud(g, languages, auto, partials))
         /\ g # "custom_openai" => IsAsrSpec(Cloud(g, languages, auto, partials))
         /\ Cloud(g, languages, auto, partials).group = g
         /\ Cloud(g, languages, auto, partials).locality = "cloud"
         /\ Cloud(g, languages, auto, partials).languages = languages
BY DEF IsMtSpec, IsAsrSpec, Cloud, Pseudo

LEMMA OtherSpec ==
  /\ IsAsrSpec(Pseudo) /\ IsAsrSpec([Pseudo EXCEPT !.languages = Languages]) /\ IsMtSpec(Pseudo)
  /\ Pseudo.service = "" /\ Pseudo.locality = "mock"
  /\ \A languages, auto : /\ IsAsrSpec(Local("qwen_asr", languages, auto)) /\ IsMtSpec(Local("hymt", languages, auto))
                          /\ Local("qwen_asr", languages, auto).service = "qwen_asr"
                          /\ Local("hymt", languages, auto).service = "hymt"
                          /\ Local("qwen_asr", languages, auto).locality = "local"
                          /\ Local("hymt", languages, auto).locality = "local"
BY DEF IsAsrSpec, IsMtSpec, Local, Pseudo

\* The recognizers, with the ones the router names itself.
LEMMA AsrRegistry ==
  /\ \A p \in DOMAIN AsrProviders : IsAsrSpec(AsrProviders[p])
  /\ {"none", "qwen_local"} \subseteq DOMAIN AsrProviders
  /\ AsrProviders["qwen_local"].service = "qwen_asr" /\ AsrProviders["qwen_local"].locality = "local"
  /\ AsrProviders["none"].locality = "mock" /\ AsrProviders["none"].service = ""
<1>1. DOMAIN AsrProviders = {"none", "mock", "qwen_local", "simulstreaming", "qwen_cloud", "openai_realtime",
                             "deepgram", "assemblyai", "gladia"}
  BY DEF AsrProviders
<1>2. {"dashscope", "openai", "deepgram", "assemblyai", "gladia"} \subseteq DOMAIN GroupKeys \ {"custom_openai"}
  BY DEF GroupKeys
<1>3. IsAsrSpec(AsrProviders["none"]) /\ IsAsrSpec(AsrProviders["mock"])
  BY OtherSpec DEF AsrProviders
<1>4. IsAsrSpec(AsrProviders["qwen_local"]) /\ IsAsrSpec(AsrProviders["simulstreaming"])
  BY OtherSpec DEF AsrProviders
<1>5. /\ IsAsrSpec(AsrProviders["qwen_cloud"]) /\ IsAsrSpec(AsrProviders["openai_realtime"])
      /\ IsAsrSpec(AsrProviders["deepgram"]) /\ IsAsrSpec(AsrProviders["assemblyai"])
      /\ IsAsrSpec(AsrProviders["gladia"])
  BY <1>2, CloudSpec DEF AsrProviders
<1>6. /\ AsrProviders["qwen_local"].service = "qwen_asr" /\ AsrProviders["qwen_local"].locality = "local"
      /\ AsrProviders["none"].locality = "mock" /\ AsrProviders["none"].service = ""
  BY OtherSpec DEF AsrProviders
<1> QED BY <1>1, <1>3, <1>4, <1>5, <1>6

\* The base URL and the credential group of each chat provider.
LEMMA Presets ==
  /\ DOMAIN ChatPresets = {"openai_chat", "deepseek_chat", "gemini_chat", "groq_chat", "openrouter_chat",
                           "siliconflow_chat", "custom_chat"}
  /\ \A p \in DOMAIN ChatPresets :
       /\ ChatPresets[p].group \in DOMAIN GroupKeys /\ ChatPresets[p].group # "dashscope"
       /\ p # "custom_chat" => ChatPresets[p].url # "" /\ ChatPresets[p].group # "custom_openai"
       /\ p = "custom_chat" => ChatPresets[p].group = "custom_openai"
  /\ \A p, q \in DOMAIN ChatPresets : ChatPresets[p].group = ChatPresets[q].group => p = q
<1>1. DOMAIN ChatPresets = {"openai_chat", "deepseek_chat", "gemini_chat", "groq_chat", "openrouter_chat",
                            "siliconflow_chat", "custom_chat"}
  BY DEF ChatPresets
<1>2. /\ ChatPresets["openai_chat"].group = "openai" /\ ChatPresets["deepseek_chat"].group = "deepseek"
      /\ ChatPresets["gemini_chat"].group = "gemini" /\ ChatPresets["groq_chat"].group = "groq"
      /\ ChatPresets["openrouter_chat"].group = "openrouter" /\ ChatPresets["siliconflow_chat"].group = "siliconflow"
      /\ ChatPresets["custom_chat"].group = "custom_openai"
  BY DEF ChatPresets
<1>3. /\ ChatPresets["openai_chat"].url # "" /\ ChatPresets["deepseek_chat"].url # ""
      /\ ChatPresets["gemini_chat"].url # "" /\ ChatPresets["groq_chat"].url # ""
      /\ ChatPresets["openrouter_chat"].url # "" /\ ChatPresets["siliconflow_chat"].url # ""
  BY DEF ChatPresets
<1>4. {"openai", "deepseek", "gemini", "groq", "openrouter", "siliconflow", "custom_openai"} \subseteq DOMAIN GroupKeys
  BY DEF GroupKeys
<1>5. \A p \in DOMAIN ChatPresets :
        /\ ChatPresets[p].group \in DOMAIN GroupKeys /\ ChatPresets[p].group # "dashscope"
        /\ p # "custom_chat" => ChatPresets[p].url # "" /\ ChatPresets[p].group # "custom_openai"
        /\ p = "custom_chat" => ChatPresets[p].group = "custom_openai"
  BY <1>1, <1>2, <1>3, <1>4
<1>6. \A p, q \in DOMAIN ChatPresets : ChatPresets[p].group = ChatPresets[q].group => p = q
  BY <1>1, <1>2
<1> QED BY <1>1, <1>5, <1>6

\* The translators.
LEMMA MtRegistry ==
  /\ \A p \in DOMAIN MtProviders : IsMtSpec(MtProviders[p])
  /\ {"none", "hymt_local"} \subseteq DOMAIN MtProviders
  /\ MtProviders["hymt_local"].service = "hymt" /\ MtProviders["hymt_local"].locality = "local"
  /\ MtProviders["none"].locality = "mock" /\ MtProviders["none"].service = ""
  /\ \A p \in DOMAIN MtProviders :
       p # "custom_chat" /\ MtProviders[p].locality = "cloud" => MtProviders[p].group # "custom_openai"
<1>1. DOMAIN MtProviders = {"none", "mock", "hymt_local", "qwen_cloud"} \cup ApiTranslators \cup DOMAIN ChatPresets
  BY Zenon DEF MtProviders
<1>2. MtProviders["none"] = Pseudo /\ MtProviders["mock"] = Pseudo
  BY Presets DEF MtProviders, ApiTranslators
<1>3. MtProviders["hymt_local"] = Local("hymt", {}, TRUE)
  BY Presets DEF MtProviders, ApiTranslators
<1>4. MtProviders["qwen_cloud"] = Cloud("dashscope", {}, TRUE, TRUE)
  BY Presets DEF MtProviders, ApiTranslators
<1>5. \A p \in ApiTranslators : MtProviders[p] = Cloud(p, {}, FALSE, FALSE)
  BY Presets DEF MtProviders, ApiTranslators
<1>6. \A p \in DOMAIN ChatPresets : MtProviders[p] = Cloud(ChatPresets[p].group, {}, FALSE, TRUE)
  BY Presets DEF MtProviders, ApiTranslators
<1>7. "dashscope" \in DOMAIN GroupKeys /\ \A p \in ApiTranslators : p \in DOMAIN GroupKeys /\ p # "custom_openai"
  BY DEF GroupKeys, ApiTranslators
<1>8. \A g \in DOMAIN GroupKeys :
        /\ IsMtSpec(Cloud(g, {}, FALSE, FALSE)) /\ Cloud(g, {}, FALSE, FALSE).group = g
        /\ IsMtSpec(Cloud(g, {}, FALSE, TRUE)) /\ Cloud(g, {}, FALSE, TRUE).group = g
        /\ IsMtSpec(Cloud(g, {}, TRUE, TRUE)) /\ Cloud(g, {}, TRUE, TRUE).group = g
  BY DEF IsMtSpec, Cloud, Pseudo
<1>9. \A p \in ApiTranslators : IsMtSpec(MtProviders[p]) /\ MtProviders[p].group # "custom_openai"
  <2> TAKE p \in ApiTranslators
  <2>1. MtProviders[p] = Cloud(p, {}, FALSE, FALSE)
    BY <1>5
  <2>2. IsMtSpec(Cloud(p, {}, FALSE, FALSE)) /\ Cloud(p, {}, FALSE, FALSE).group = p /\ p # "custom_openai"
    BY <1>7, <1>8
  <2> QED BY Zenon, <2>1, <2>2
<1>10. \A p \in DOMAIN ChatPresets : IsMtSpec(MtProviders[p]) /\ (p # "custom_chat" => MtProviders[p].group # "custom_openai")
  <2> TAKE p \in DOMAIN ChatPresets
  <2> DEFINE g == ChatPresets[p].group
  <2>1. g \in DOMAIN GroupKeys /\ (p # "custom_chat" => g # "custom_openai")
    BY Presets
  <2>2. MtProviders[p] = Cloud(g, {}, FALSE, TRUE)
    BY <1>6
  <2>3. IsMtSpec(Cloud(g, {}, FALSE, TRUE)) /\ Cloud(g, {}, FALSE, TRUE).group = g
    BY <1>8, <2>1
  <2> HIDE DEF g
  <2> QED BY Zenon, <2>1, <2>2, <2>3
<1>11. IsMtSpec(MtProviders["qwen_cloud"]) /\ MtProviders["qwen_cloud"].group = "dashscope"
  BY Zenon, <1>4, <1>7, <1>8
<1>12. IsMtSpec(MtProviders["none"]) /\ IsMtSpec(MtProviders["mock"]) /\ IsMtSpec(MtProviders["hymt_local"])
  BY <1>2, <1>3, OtherSpec
<1>13. /\ MtProviders["hymt_local"].service = "hymt" /\ MtProviders["hymt_local"].locality = "local"
       /\ MtProviders["none"].locality = "mock" /\ MtProviders["none"].service = ""
       /\ MtProviders["mock"].locality = "mock"
  BY <1>2, <1>3, OtherSpec
<1> QED BY <1>1, <1>9, <1>10, <1>11, <1>12, <1>13

\* A key that a provider needs is there when all of them are, and the endpoint of one's own needs none.
LEMMA KeyIsThere ==
  ASSUME NEW s, NEW m, s.group \in DOMAIN GroupKeys, Usable(s, m), s.group # "custom_openai"
  PROVE  s.group \in m.keys
<1>1. GroupKeys[s.group] = {s.group}
  BY DEF GroupKeys
<1>2. s.group # ""
  BY DEF GroupKeys
<1> QED BY <1>1, <1>2 DEF Usable, KeysPresent

(***************************************************************************)
(* The selection.                                                          *)

\* What validate() makes sure of the provider and the preference of one kind.
Choosable(specs, provider, preference) ==
  /\ provider \in Known(specs)
  /\ preference \in DOMAIN specs /\ specs[preference].locality = "cloud"

\* A preferred cloud provider is one of the registry that can be used.
LEMMA PreferredServes ==
  ASSUME NEW specs, NEW preference, NEW language, NEW m,
         preference \in DOMAIN specs, specs[preference].locality = "cloud",
         PreferredCloud(specs, preference, language, m) # ""
  PROVE  LET p == PreferredCloud(specs, preference, language, m) IN
         /\ p \in DOMAIN specs /\ specs[p].locality = "cloud"
         /\ Usable(specs[p], m) /\ Supports(specs[p], language)
<1> DEFINE Serves(p) == Usable(specs[p], m) /\ Supports(specs[p], language)
           others == {p \in DOMAIN specs : specs[p].locality = "cloud" /\ specs[p].auto /\ Serves(p)}
           chosen == CHOOSE p \in others : TRUE
<1>1. PreferredCloud(specs, preference, language, m)
        = IF Serves(preference) THEN preference ELSE IF others # {} THEN chosen ELSE ""
  BY Zenon DEF PreferredCloud
<1>2. others # {} => chosen \in others
  OBVIOUS
<1>3. \A p \in others : p \in DOMAIN specs /\ specs[p].locality = "cloud" /\ Serves(p)
  OBVIOUS
<1> HIDE DEF others, chosen
<1> QED BY <1>1, <1>2, <1>3

\* It depends on the network and the keys alone.
LEMMA PreferredDepends ==
  ASSUME NEW specs, NEW preference, NEW language, NEW m, NEW n, m.network = n.network, m.keys = n.keys
  PROVE  /\ PreferredCloud(specs, preference, language, m) = PreferredCloud(specs, preference, language, n)
         /\ \A s : Usable(s, m) = Usable(s, n)
<1>1. \A s : Usable(s, m) = Usable(s, n)
  BY DEF Usable, KeysPresent
<1> DEFINE Serves(k, p) == Usable(specs[p], k) /\ Supports(specs[p], language)
           Others(k) == {p \in DOMAIN specs : specs[p].locality = "cloud" /\ specs[p].auto /\ Serves(k, p)}
           Chosen(k) == CHOOSE p \in Others(k) : TRUE
           Preferred(k) == IF Serves(k, preference) THEN preference ELSE IF Others(k) # {} THEN Chosen(k) ELSE ""
<1>2. PreferredCloud(specs, preference, language, m) = Preferred(m)
  BY Zenon DEF PreferredCloud
<1>3. PreferredCloud(specs, preference, language, n) = Preferred(n)
  BY Zenon DEF PreferredCloud
<1>4. Others(m) = Others(n)
  BY <1>1
<1>5. Serves(m, preference) = Serves(n, preference)
  BY <1>1
<1>6. Chosen(m) = Chosen(n)
  <2> HIDE DEF Others
  <2> QED BY Zenon, <1>4
<1>7. Preferred(m) = Preferred(n)
  <2> HIDE DEF Others, Chosen, Serves
  <2> QED BY <1>4, <1>5, <1>6
<1> HIDE DEF Preferred
<1> QED BY <1>1, <1>2, <1>3, <1>7

\* What a selection of each kind comes to: no model meets its latency target, so the first choice is never taken.
AsrForm(asr, mode, language, audio, preference, m, f) ==
  LET cloud == PreferredCloud(AsrProviders, preference, language, m) IN
  IF asr # "auto"
    THEN IF ExplicitServes(AsrProviders[asr], language, m, f) THEN Pick(asr, FALSE) ELSE NoPick
  ELSE IF mode # "local" /\ audio /\ cloud # "" THEN Pick(cloud, FALSE)
  ELSE IF AsrModels.lightweight \in m.models /\ Ready("qwen_asr", m, f) THEN Pick("qwen_local", TRUE) ELSE NoPick

MtForm(mt, mode, transcript, preference, m, f) ==
  LET cloud == PreferredCloud(MtProviders, preference, "auto", m) IN
  IF mt = "none" THEN Pick("none", FALSE)
  ELSE IF mt # "auto" THEN IF ExplicitServes(MtProviders[mt], "auto", m, f) THEN Pick(mt, FALSE) ELSE NoPick
  ELSE IF mode # "local" /\ transcript /\ cloud # "" THEN Pick(cloud, FALSE)
  ELSE IF MtModels.lightweight \in m.models /\ Ready("hymt", m, f) THEN Pick("hymt_local", TRUE) ELSE Pick("none", TRUE)

\* Both selections take these forms.
LEMMA SelectionForms ==
  ASSUME NEW c, NEW m, NEW f
  PROVE  /\ SelectAsr(c, m, f) = AsrForm(c.asr, c.mode, c.language, c.audio, c.asrPreference, m, f)
         /\ SelectTranslation(c, m, f) = MtForm(c.mt, c.mode, c.transcript, c.mtPreference, m, f)
<1>1. \A model : ~MeetsSla(model)
  BY DEF MeetsSla, Calibrated
<1>2. SelectAsr(c, m, f) = AsrForm(c.asr, c.mode, c.language, c.audio, c.asrPreference, m, f)
  BY Zenon, <1>1 DEF SelectAsr, AsrForm
<1>3. SelectTranslation(c, m, f) = MtForm(c.mt, c.mode, c.transcript, c.mtPreference, m, f)
  BY Zenon, <1>1 DEF SelectTranslation, MtForm
<1> QED BY <1>2, <1>3

(***************************************************************************)
(* The configuration.                                                      *)

Preference(value) == IF value = "" THEN "qwen_cloud" ELSE value
Config(p, settings, m) == AlignLocalProfiles(DesktopConfig(p, settings), m)

\* What the configuration of a payload says, field by field.
LEMMA DesktopFields ==
  ASSUME NEW p, NEW settings
  PROVE  LET c == DesktopConfig(p, settings) IN
         /\ c.mode = p.mode /\ c.asr = p.asr /\ c.mt = p.mt /\ c.language = p.language
         /\ c.audio = p.audio /\ c.transcript = p.transcript
         /\ c.asrPreference = Preference(p.asrPreference) /\ c.mtPreference = Preference(p.mtPreference)
         /\ c.asrRegion = NormalRegion(settings.region) /\ c.mtRegion = NormalRegion(settings.region)
         /\ c.tier = (IF settings.tier \in {"free", "pro"} THEN settings.tier ELSE "free")
BY DEF DesktopConfig, Loaded, Preference

\* Aligning the local profiles leaves all of it but the recognizer's profile.
LEMMA ConfigFields ==
  ASSUME NEW p, NEW settings, NEW m
  PROVE  LET c == Config(p, settings, m) IN
         /\ c.mode = p.mode /\ c.asr = p.asr /\ c.mt = p.mt /\ c.language = p.language
         /\ c.audio = p.audio /\ c.transcript = p.transcript
         /\ c.asrPreference = Preference(p.asrPreference) /\ c.mtPreference = Preference(p.mtPreference)
         /\ c.asrRegion = NormalRegion(settings.region) /\ c.mtRegion = NormalRegion(settings.region)
         /\ c.asrProfile = AlignedProfile("quality", AsrModels, m.models)
BY DEF Config, AlignLocalProfiles, DesktopConfig, Loaded, Preference

\* What validate() asks of a payload: the settings of the shell cannot fail it.
ValidPayload(p) ==
  /\ p.mode \in {"auto", "local", "cloud"} /\ p.language \in Languages \cup {"auto"}
  /\ Choosable(AsrProviders, p.asr, Preference(p.asrPreference))
  /\ Choosable(MtProviders, p.mt, Preference(p.mtPreference))
  /\ p.asr # "auto" => /\ ~(p.mode = "local" /\ AsrProviders[p.asr].locality = "cloud")
                       /\ ~(p.mode = "cloud" /\ AsrProviders[p.asr].locality = "local")
                       /\ AsrProviders[p.asr].locality = "cloud" => p.audio
                       /\ Supports(AsrProviders[p.asr], p.language)
  /\ p.mt # "auto" => /\ ~(p.mode = "local" /\ MtProviders[p.mt].locality = "cloud")
                      /\ ~(p.mode = "cloud" /\ MtProviders[p.mt].locality = "local")
                      /\ MtProviders[p.mt].locality = "cloud" => p.transcript

\* Both sides of validate() agree.
LEMMA ValidIsValidPayload ==
  ASSUME NEW p, NEW settings
  PROVE  Valid(DesktopConfig(p, settings)) <=> ValidPayload(p)
<1> SUFFICES ASSUME NEW c,
                    c.mode = p.mode, c.asr = p.asr, c.mt = p.mt, c.language = p.language,
                    c.audio = p.audio, c.transcript = p.transcript,
                    c.asrPreference = Preference(p.asrPreference), c.mtPreference = Preference(p.mtPreference),
                    c.asrRegion = NormalRegion(settings.region),
                    c.tier = (IF settings.tier \in {"free", "pro"} THEN settings.tier ELSE "free")
             PROVE  Valid(c) <=> ValidPayload(p)
  BY DesktopFields
<1> DEFINE chosen == {AsrProviders[q] : q \in {c.asr} \ {"auto"}} \cup {MtProviders[q] : q \in {c.mt} \ {"auto"}}
           Fits(spec) == ~(p.mode = "local" /\ spec.locality = "cloud") /\ ~(p.mode = "cloud" /\ spec.locality = "local")
<1>1. c.asrRegion \in Regions /\ c.tier \in {"free", "pro"}
  BY DEF NormalRegion, Regions
<1>2. (\A spec \in chosen : Fits(spec)) <=> /\ p.asr # "auto" => Fits(AsrProviders[p.asr])
                                            /\ p.mt # "auto" => Fits(MtProviders[p.mt])
  <2> HIDE DEF Fits
  <2>1. \A spec : spec \in chosen <=> (p.asr # "auto" /\ spec = AsrProviders[p.asr]) \/ (p.mt # "auto" /\ spec = MtProviders[p.mt])
    OBVIOUS
  <2> HIDE DEF chosen
  <2> QED BY <2>1
<1>3. Valid(c) <=>
        /\ c.mode \in {"auto", "local", "cloud"}
        /\ c.asr \in Known(AsrProviders) /\ c.mt \in Known(MtProviders)
        /\ c.language \in Languages \cup {"auto"}
        /\ c.asrPreference \in DOMAIN AsrProviders /\ AsrProviders[c.asrPreference].locality = "cloud"
        /\ c.mtPreference \in DOMAIN MtProviders /\ MtProviders[c.mtPreference].locality = "cloud"
        /\ \A spec \in chosen : Fits(spec)
        /\ c.asr # "auto" /\ AsrProviders[c.asr].locality = "cloud" => c.audio
        /\ c.asr # "auto" => Supports(AsrProviders[c.asr], c.language)
        /\ c.mt # "auto" /\ MtProviders[c.mt].locality = "cloud" => c.transcript
        /\ c.asrRegion \in Regions /\ c.tier \in {"free", "pro"}
  BY Zenon DEF Valid
<1> HIDE DEF chosen
<1> QED BY <1>1, <1>2, <1>3 DEF ValidPayload, Choosable

\* What is selected for a payload: the settings of the shell do not matter.
Asr(p, m, f) == AsrForm(p.asr, p.mode, p.language, p.audio, Preference(p.asrPreference), m, f)
Mt(p, m, f) == MtForm(p.mt, p.mode, p.transcript, Preference(p.mtPreference), m, f)
Profile(m) == AlignedProfile("quality", AsrModels, m.models)
Status(asr, mt) ==
  CASE asr.degraded \/ mt.degraded -> "degraded"
    [] ~(asr.degraded \/ mt.degraded) /\ IsCloud(AsrProviders, asr.provider) /\ IsCloud(MtProviders, mt.provider) -> "cloud"
    [] ~(asr.degraded \/ mt.degraded) /\ IsCloud(AsrProviders, asr.provider) # IsCloud(MtProviders, mt.provider)
       /\ mt.provider # "none" -> "hybrid"
    [] OTHER -> "local"
Services(asr, mt, m) ==
  {s \in {AsrProviders[asr.provider].service, MtProviders[mt.provider].service} \ {""} : ~Healthy(s, m)}
Decision(asr, mt, m) ==
  [ok |-> TRUE, asr |-> asr.provider, mt |-> mt.provider, degraded |-> asr.degraded \/ mt.degraded,
   status |-> Status(asr, mt), services |-> Services(asr, mt, m),
   model |-> IF asr.provider = "qwen_local" THEN AsrModels[Profile(m)] ELSE ""]

\* What is decided, as a function of the two selections.
LEMMA DecidedIs ==
  ASSUME NEW p, NEW m, NEW f
  PROVE  Decided(p, m, f) = IF ValidPayload(p) /\ Asr(p, m, f).ok /\ Mt(p, m, f).ok
                              THEN Decision(Asr(p, m, f), Mt(p, m, f), m) ELSE NoRoute
<1> DEFINE c == Config(p, m.settings, m)
           asr == Asr(p, m, f)
           mt == Mt(p, m, f)
           decision == Select(c, m, f)
<1>1. SelectAsr(c, m, f) = asr /\ SelectTranslation(c, m, f) = mt /\ c.asrProfile = Profile(m)
  <2>1. /\ c.mode = p.mode /\ c.asr = p.asr /\ c.mt = p.mt /\ c.language = p.language
        /\ c.audio = p.audio /\ c.transcript = p.transcript
        /\ c.asrPreference = Preference(p.asrPreference) /\ c.mtPreference = Preference(p.mtPreference)
        /\ c.asrProfile = Profile(m)
    BY ConfigFields DEF Profile
  <2> HIDE DEF c
  <2> QED BY Zenon, <2>1, SelectionForms DEF Asr, Mt
<1>2. decision = [ok |-> asr.ok /\ mt.ok, asr |-> asr.provider, mt |-> mt.provider, degraded |-> asr.degraded \/ mt.degraded,
                  status |-> Status(asr, mt)]
  <2> HIDE DEF c, asr, mt
  <2> QED BY Zenon, <1>1 DEF Select, Status, IsCloud
<1>3. Decided(p, m, f) =
        IF ~Valid(DesktopConfig(p, m.settings)) \/ ~decision.ok THEN NoRoute
        ELSE [ok |-> TRUE, asr |-> decision.asr, mt |-> decision.mt, degraded |-> decision.degraded,
              status |-> decision.status, services |-> ServicesToStart(decision, m),
              model |-> RoutedModel(decision, c)]
  BY Zenon DEF Decided, Config
<1>4. /\ ServicesToStart(decision, m)
           = {s \in {AsrProviders[decision.asr].service, MtProviders[decision.mt].service} \ {""} : ~Healthy(s, m)}
      /\ RoutedModel(decision, c) = IF decision.asr = "qwen_local" THEN AsrModels[c.asrProfile] ELSE ""
  BY Zenon DEF ServicesToStart, RoutedModel
<1>5. Valid(DesktopConfig(p, m.settings)) <=> ValidPayload(p)
  BY ValidIsValidPayload
<1> HIDE DEF decision, asr, mt, c
<1>6. /\ decision.ok = (asr.ok /\ mt.ok) /\ decision.asr = asr.provider /\ decision.mt = mt.provider
      /\ decision.degraded = (asr.degraded \/ mt.degraded) /\ decision.status = Status(asr, mt)
  BY <1>2
<1>7. ServicesToStart(decision, m) = Services(asr, mt, m)
  BY <1>4, <1>6 DEF Services
<1>8. RoutedModel(decision, c) = IF asr.provider = "qwen_local" THEN AsrModels[Profile(m)] ELSE ""
  BY <1>1, <1>4, <1>6
<1> QED BY Zenon, <1>3, <1>5, <1>6, <1>7, <1>8 DEF Decision, asr, mt

\* A decision, field by field, and a refusal.
LEMMA DecisionFields ==
  ASSUME NEW p, NEW m, NEW f
  PROVE  LET asr == Asr(p, m, f)
             mt == Mt(p, m, f)
             d == Decided(p, m, f)
         IN /\ d.ok \in BOOLEAN
            /\ d.ok <=> ValidPayload(p) /\ asr.ok /\ mt.ok
            /\ ~d.ok => d = NoRoute
            /\ d.ok => /\ d = Decision(asr, mt, m)
                       /\ d.asr = asr.provider /\ d.mt = mt.provider /\ d.degraded = (asr.degraded \/ mt.degraded)
                       /\ d.services = Services(asr, mt, m)
                       /\ d.model = IF asr.provider = "qwen_local" THEN AsrModels[Profile(m)] ELSE ""
<1>1. NoRoute.ok = FALSE
  BY DEF NoRoute
<1> DEFINE asr == Asr(p, m, f)
           mt == Mt(p, m, f)
           k == Decision(asr, mt, m)
<1>2. /\ k.ok = TRUE /\ k.asr = asr.provider /\ k.mt = mt.provider /\ k.degraded = (asr.degraded \/ mt.degraded)
      /\ k.services = Services(asr, mt, m)
      /\ k.model = IF asr.provider = "qwen_local" THEN AsrModels[Profile(m)] ELSE ""
  <2> HIDE DEF asr, mt
  <2> QED BY DEF Decision
<1>3. Decided(p, m, f) = IF ValidPayload(p) /\ asr.ok /\ mt.ok THEN k ELSE NoRoute
  BY DecidedIs
<1> HIDE DEF asr, mt, k
<1> QED BY <1>1, <1>2, <1>3 DEF asr, mt, k

(***************************************************************************)
(* A provider that is selected serves.                                     *)

AsrServes(p, m, f, r) ==
  /\ r.provider \in DOMAIN AsrProviders
  /\ AsrProviders[r.provider].locality = "cloud" =>
       /\ p.audio /\ Usable(AsrProviders[r.provider], m) /\ Supports(AsrProviders[r.provider], p.language)
  /\ AsrProviders[r.provider].locality # "cloud" =>
       AsrProviders[r.provider].service = "" \/ Ready(AsrProviders[r.provider].service, m, f)
  /\ p.asr = "auto" /\ r.provider = "qwen_local" => AsrModels.lightweight \in m.models

MtServes(p, m, f, r) ==
  /\ r.provider \in DOMAIN MtProviders
  /\ MtProviders[r.provider].locality = "cloud" => p.transcript /\ Usable(MtProviders[r.provider], m)
  /\ MtProviders[r.provider].locality # "cloud" =>
       MtProviders[r.provider].service = "" \/ Ready(MtProviders[r.provider].service, m, f)

\* A recognizer that is selected serves, and so does a translator.
LEMMA AsrSound ==
  ASSUME NEW p, NEW m, NEW f, ValidPayload(p), Asr(p, m, f).ok
  PROVE  AsrServes(p, m, f, Asr(p, m, f))
<1> DEFINE r == Asr(p, m, f)
           cloud == PreferredCloud(AsrProviders, Preference(p.asrPreference), p.language, m)
           Uploads == p.mode # "local" /\ p.audio /\ cloud # ""
           Lightweight == AsrModels.lightweight \in m.models /\ Ready("qwen_asr", m, f)
<1>1. NoPick.ok = FALSE
  BY DEF NoPick
<1>2. CASE p.asr # "auto"
  <2>1. r = IF ExplicitServes(AsrProviders[p.asr], p.language, m, f) THEN Pick(p.asr, FALSE) ELSE NoPick
    BY Zenon, <1>2 DEF Asr, AsrForm
  <2> HIDE DEF r
  <2>2. ExplicitServes(AsrProviders[p.asr], p.language, m, f) /\ r = Pick(p.asr, FALSE)
    BY Zenon, <1>1, <2>1 DEF r
  <2>3. p.asr \in DOMAIN AsrProviders /\ (AsrProviders[p.asr].locality = "cloud" => p.audio)
    BY <1>2 DEF ValidPayload, Choosable, Known
  <2>4. r.provider = p.asr
    BY <2>2 DEF Pick
  <2> QED BY <1>2, <2>2, <2>3, <2>4 DEF AsrServes, ExplicitServes, r
<1>3. CASE p.asr = "auto" /\ Uploads
  <2>1. r = Pick(cloud, FALSE)
    BY Zenon, <1>3 DEF Asr, AsrForm
  <2> HIDE DEF r, cloud
  <2>2. r.provider = cloud
    BY <2>1 DEF Pick
  <2>3. Preference(p.asrPreference) \in DOMAIN AsrProviders /\ AsrProviders[Preference(p.asrPreference)].locality = "cloud"
    BY DEF ValidPayload, Choosable
  <2>4. cloud \in DOMAIN AsrProviders /\ AsrProviders[cloud].locality = "cloud" /\ Usable(AsrProviders[cloud], m)
        /\ Supports(AsrProviders[cloud], p.language)
    BY <1>3, <2>3, PreferredServes DEF cloud
  <2>5. cloud # "qwen_local"
    BY <2>4, AsrRegistry
  <2> QED BY <1>3, <2>2, <2>4, <2>5 DEF AsrServes, r
<1>4. CASE p.asr = "auto" /\ ~Uploads
  <2>1. r = IF Lightweight THEN Pick("qwen_local", TRUE) ELSE NoPick
    BY Zenon, <1>4 DEF Asr, AsrForm
  <2> HIDE DEF r, Uploads, Lightweight
  <2>2. Lightweight /\ r = Pick("qwen_local", TRUE)
    BY Zenon, <1>1, <2>1 DEF r
  <2>3. r.provider = "qwen_local"
    BY <2>2 DEF Pick
  <2> QED BY <2>2, <2>3, AsrRegistry DEF AsrServes, r, Lightweight
<1> QED BY <1>2, <1>3, <1>4

LEMMA MtSound ==
  ASSUME NEW p, NEW m, NEW f, ValidPayload(p), Mt(p, m, f).ok
  PROVE  MtServes(p, m, f, Mt(p, m, f))
<1> DEFINE r == Mt(p, m, f)
           cloud == PreferredCloud(MtProviders, Preference(p.mtPreference), "auto", m)
           Uploads == p.mode # "local" /\ p.transcript /\ cloud # ""
           Lightweight == MtModels.lightweight \in m.models /\ Ready("hymt", m, f)
<1>1. NoPick.ok = FALSE
  BY DEF NoPick
<1>2. CASE p.mt \notin {"none", "auto"}
  <2>1. r = IF ExplicitServes(MtProviders[p.mt], "auto", m, f) THEN Pick(p.mt, FALSE) ELSE NoPick
    BY Zenon, <1>2 DEF Mt, MtForm
  <2> HIDE DEF r
  <2>2. ExplicitServes(MtProviders[p.mt], "auto", m, f) /\ r = Pick(p.mt, FALSE)
    BY Zenon, <1>1, <2>1 DEF r
  <2>3. p.mt \in DOMAIN MtProviders /\ (MtProviders[p.mt].locality = "cloud" => p.transcript)
    BY <1>2 DEF ValidPayload, Choosable, Known
  <2>4. r.provider = p.mt
    BY <2>2 DEF Pick
  <2> QED BY <1>2, <2>2, <2>3, <2>4 DEF MtServes, ExplicitServes, r
<1>3. CASE p.mt = "auto" /\ Uploads
  <2>1. r = Pick(cloud, FALSE)
    <3>1. "auto" # "none"
      OBVIOUS
    <3> QED BY Zenon, <1>3, <3>1 DEF Mt, MtForm
  <2> HIDE DEF r, cloud
  <2>2. r.provider = cloud
    BY <2>1 DEF Pick
  <2>3. Preference(p.mtPreference) \in DOMAIN MtProviders /\ MtProviders[Preference(p.mtPreference)].locality = "cloud"
    BY DEF ValidPayload, Choosable
  <2>4. cloud \in DOMAIN MtProviders /\ MtProviders[cloud].locality = "cloud" /\ Usable(MtProviders[cloud], m)
    BY <1>3, <2>3, PreferredServes DEF cloud
  <2> QED BY <1>3, <2>2, <2>4 DEF MtServes, r
<1>4. CASE p.mt = "auto" /\ ~Uploads
  <2>1. r = IF Lightweight THEN Pick("hymt_local", TRUE) ELSE Pick("none", TRUE)
    <3>1. "auto" # "none"
      OBVIOUS
    <3> QED BY Zenon, <1>4, <3>1 DEF Mt, MtForm
  <2> HIDE DEF r, Uploads, Lightweight
  <2>2. (Lightweight /\ r.provider = "hymt_local") \/ r.provider = "none"
    BY <2>1 DEF Pick
  <2> QED BY <2>2, MtRegistry DEF MtServes, r, Lightweight
<1>5. CASE p.mt = "none"
  <2>1. r = Pick("none", FALSE)
    BY Zenon, <1>5 DEF Mt, MtForm
  <2> HIDE DEF r
  <2>2. r.provider = "none"
    BY <2>1 DEF Pick
  <2> QED BY <2>2, MtRegistry DEF MtServes, r
<1> QED BY <1>2, <1>3, <1>4, <1>5

(***************************************************************************)
(* The plan is kept: once its services run, the same providers are chosen. *)

\* The recognizer of a plan is selected again when its service runs.
LEMMA AsrStays ==
  ASSUME NEW p, NEW m, NEW n, m.network = n.network, m.keys = n.keys, m.models = n.models,
         Asr(p, m, FALSE).ok,
         LET s == AsrProviders[Asr(p, m, FALSE).provider].service IN s = "" \/ s \in n.services
  PROVE  Asr(p, n, TRUE) = Asr(p, m, FALSE)
<1> DEFINE r == Asr(p, m, FALSE)
           cloud == PreferredCloud(AsrProviders, Preference(p.asrPreference), p.language, m)
           Uploads == p.mode # "local" /\ p.audio /\ cloud # ""
           Lightweight(k, f) == AsrModels.lightweight \in k.models /\ Ready("qwen_asr", k, f)
<1>1. NoPick.ok = FALSE
  BY DEF NoPick
<1>2. /\ PreferredCloud(AsrProviders, Preference(p.asrPreference), p.language, n) = cloud
      /\ \A s : Usable(s, m) = Usable(s, n)
  BY PreferredDepends
<1>3. CASE p.asr # "auto"
  <2>1. r = IF ExplicitServes(AsrProviders[p.asr], p.language, m, FALSE) THEN Pick(p.asr, FALSE) ELSE NoPick
    BY Zenon, <1>3 DEF Asr, AsrForm
  <2>2. Asr(p, n, TRUE) = IF ExplicitServes(AsrProviders[p.asr], p.language, n, TRUE) THEN Pick(p.asr, FALSE) ELSE NoPick
    BY Zenon, <1>3 DEF Asr, AsrForm
  <2>3. r.ok /\ (AsrProviders[r.provider].service = "" \/ AsrProviders[r.provider].service \in n.services)
    OBVIOUS
  <2> HIDE DEF r
  <2>4. ExplicitServes(AsrProviders[p.asr], p.language, m, FALSE) /\ r = Pick(p.asr, FALSE)
    BY Zenon, <1>1, <2>1, <2>3
  <2>5. r.provider = p.asr
    BY <2>4 DEF Pick
  <2>6. ExplicitServes(AsrProviders[p.asr], p.language, n, TRUE)
    BY <1>2, <2>3, <2>4, <2>5 DEF ExplicitServes, Ready, Healthy
  <2> QED BY Zenon, <2>2, <2>4, <2>6 DEF r
<1>4. CASE p.asr = "auto" /\ Uploads
  <2>1. r = Pick(cloud, FALSE)
    BY Zenon, <1>4 DEF Asr, AsrForm
  <2>2. Asr(p, n, TRUE) = Pick(cloud, FALSE)
    BY Zenon, <1>2, <1>4 DEF Asr, AsrForm
  <2> QED BY Zenon, <2>1, <2>2
<1>5. CASE p.asr = "auto" /\ ~Uploads
  <2>1. r = IF Lightweight(m, FALSE) THEN Pick("qwen_local", TRUE) ELSE NoPick
    BY Zenon, <1>5 DEF Asr, AsrForm
  <2>2. Asr(p, n, TRUE) = IF Lightweight(n, TRUE) THEN Pick("qwen_local", TRUE) ELSE NoPick
    BY Zenon, <1>2, <1>5 DEF Asr, AsrForm
  <2>3. r.ok /\ (AsrProviders[r.provider].service = "" \/ AsrProviders[r.provider].service \in n.services)
    OBVIOUS
  <2> HIDE DEF r
  <2>4. Lightweight(m, FALSE) /\ r = Pick("qwen_local", TRUE)
    BY Zenon, <1>1, <2>1, <2>3
  <2>5. r.provider = "qwen_local"
    BY <2>4 DEF Pick
  <2>6. "qwen_asr" \in n.services
    BY <2>3, <2>5, AsrRegistry
  <2>7. Lightweight(n, TRUE)
    BY <2>4, <2>6 DEF Ready, Healthy
  <2> QED BY Zenon, <2>2, <2>4, <2>7 DEF r
<1> QED BY <1>3, <1>4, <1>5

\* So is the translator; without one, no service that starts makes the local one ready.
LEMMA MtStays ==
  ASSUME NEW p, NEW m, NEW n, m.network = n.network, m.keys = n.keys, m.models = n.models,
         Mt(p, m, FALSE).ok,
         LET s == MtProviders[Mt(p, m, FALSE).provider].service IN
         /\ s = "" \/ s \in n.services
         /\ "hymt" \in n.services => "hymt" \in m.services \/ s = "hymt"
  PROVE  Mt(p, n, TRUE) = Mt(p, m, FALSE)
<1> DEFINE r == Mt(p, m, FALSE)
           cloud == PreferredCloud(MtProviders, Preference(p.mtPreference), "auto", m)
           Uploads == p.mode # "local" /\ p.transcript /\ cloud # ""
           Lightweight(k, f) == MtModels.lightweight \in k.models /\ Ready("hymt", k, f)
<1>1. NoPick.ok = FALSE /\ "auto" # "none"
  BY DEF NoPick
<1>2. /\ PreferredCloud(MtProviders, Preference(p.mtPreference), "auto", n) = cloud
      /\ \A s : Usable(s, m) = Usable(s, n)
  BY PreferredDepends
<1>3. CASE p.mt \notin {"none", "auto"}
  <2>1. r = IF ExplicitServes(MtProviders[p.mt], "auto", m, FALSE) THEN Pick(p.mt, FALSE) ELSE NoPick
    BY Zenon, <1>3 DEF Mt, MtForm
  <2>2. Mt(p, n, TRUE) = IF ExplicitServes(MtProviders[p.mt], "auto", n, TRUE) THEN Pick(p.mt, FALSE) ELSE NoPick
    BY Zenon, <1>3 DEF Mt, MtForm
  <2>3. r.ok /\ (MtProviders[r.provider].service = "" \/ MtProviders[r.provider].service \in n.services)
    OBVIOUS
  <2> HIDE DEF r
  <2>4. ExplicitServes(MtProviders[p.mt], "auto", m, FALSE) /\ r = Pick(p.mt, FALSE)
    BY Zenon, <1>1, <2>1, <2>3
  <2>5. r.provider = p.mt
    BY <2>4 DEF Pick
  <2>6. ExplicitServes(MtProviders[p.mt], "auto", n, TRUE)
    BY <1>2, <2>3, <2>4, <2>5 DEF ExplicitServes, Ready, Healthy
  <2> QED BY Zenon, <2>2, <2>4, <2>6 DEF r
<1>4. CASE p.mt = "auto" /\ Uploads
  <2>1. r = Pick(cloud, FALSE)
    BY Zenon, <1>1, <1>4 DEF Mt, MtForm
  <2>2. Mt(p, n, TRUE) = Pick(cloud, FALSE)
    BY Zenon, <1>1, <1>2, <1>4 DEF Mt, MtForm
  <2> QED BY Zenon, <2>1, <2>2
<1>5. CASE p.mt = "auto" /\ ~Uploads
  <2>1. r = IF Lightweight(m, FALSE) THEN Pick("hymt_local", TRUE) ELSE Pick("none", TRUE)
    BY Zenon, <1>1, <1>5 DEF Mt, MtForm
  <2>2. Mt(p, n, TRUE) = IF Lightweight(n, TRUE) THEN Pick("hymt_local", TRUE) ELSE Pick("none", TRUE)
    BY Zenon, <1>1, <1>2, <1>5 DEF Mt, MtForm
  <2>3. LET s == MtProviders[r.provider].service IN
        /\ s = "" \/ s \in n.services
        /\ "hymt" \in n.services => "hymt" \in m.services \/ s = "hymt"
    OBVIOUS
  <2> HIDE DEF r
  <2>4. CASE Lightweight(m, FALSE)
    <3>1. r = Pick("hymt_local", TRUE)
      BY Zenon, <2>1, <2>4
    <3>2. r.provider = "hymt_local"
      BY <3>1 DEF Pick
    <3>3. "hymt" \in n.services
      BY <2>3, <3>2, MtRegistry
    <3>4. Lightweight(n, TRUE)
      BY <2>4, <3>3 DEF Ready, Healthy
    <3> QED BY Zenon, <2>2, <3>1, <3>4 DEF r
  <2>5. CASE ~Lightweight(m, FALSE)
    <3>1. r = Pick("none", TRUE)
      BY Zenon, <2>1, <2>5
    <3>2. r.provider = "none"
      BY <3>1 DEF Pick
    <3>3. "hymt" \in n.services => "hymt" \in m.services
      BY <2>3, <3>2, MtRegistry
    <3>4. ~Lightweight(n, TRUE)
      BY <2>5, <3>3 DEF Ready, Healthy
    <3> QED BY Zenon, <2>2, <3>1, <3>4 DEF r
  <2> QED BY <2>4, <2>5
<1>6. CASE p.mt = "none"
  <2>1. r = Pick("none", FALSE) /\ Mt(p, n, TRUE) = Pick("none", FALSE)
    BY Zenon, <1>6 DEF Mt, MtForm
  <2> QED BY Zenon, <2>1
<1> QED BY <1>3, <1>4, <1>5, <1>6

\* A reply of its parts, and one without its services.
Yes == TRUE
WithoutServices(d) == [d EXCEPT !.services = {}]
Reply(ok, x, y, g, u, services, w) ==
  [ok |-> ok, asr |-> x, mt |-> y, degraded |-> g, status |-> u, services |-> services, model |-> w]
\* Leaving the services out of a reply.
LEMMA ReplyFields ==
  \A ok, x, y, g, u, services, w : Reply(ok, x, y, g, u, {}, w) = WithoutServices(Reply(ok, x, y, g, u, services, w))
BY DEF Reply, WithoutServices

\* The decision of a session is that of its plan, with no service left to start.
LEMMA PlanStays ==
  ASSUME NEW p, NEW m, NEW n, Decided(p, m, FALSE).ok,
         n.network = m.network, n.keys = m.keys, n.models = m.models,
         n.services = m.services \cup Decided(p, m, FALSE).services
  PROVE  Decided(p, n, TRUE) = WithoutServices(Decided(p, m, FALSE))
<1> DEFINE asr == Asr(p, m, FALSE)
           mt == Mt(p, m, FALSE)
           d == Decided(p, m, FALSE)
<1>1. /\ ValidPayload(p) /\ asr.ok /\ mt.ok
      /\ d.services = Services(asr, mt, m) /\ d = Decision(asr, mt, m)
  BY DecisionFields
<1>2. AsrServes(p, m, FALSE, asr) /\ MtServes(p, m, FALSE, mt)
  BY <1>1, AsrSound, MtSound
<1> DEFINE a == AsrProviders[asr.provider].service
           t == MtProviders[mt.provider].service
<1>3. a \in {"", "qwen_asr"} /\ t \in {"", "hymt"}
  <2>1. IsAsrSpec(AsrProviders[asr.provider]) /\ IsMtSpec(MtProviders[mt.provider])
    BY <1>2, AsrRegistry, MtRegistry DEF AsrServes, MtServes
  <2> QED BY <2>1 DEF IsAsrSpec, IsMtSpec
<1>4. d.services = {s \in {a, t} \ {""} : s \notin m.services}
  BY <1>1 DEF Services, Healthy
<1> HIDE DEF a, t, d, asr, mt
<1>5. n.services = m.services \cup d.services
  BY DEF d
<1>7. /\ a = "" \/ a \in n.services
      /\ t = "" \/ t \in n.services
      /\ "hymt" \in n.services => "hymt" \in m.services \/ t = "hymt"
  BY <1>3, <1>4, <1>5
<1>8. Asr(p, n, TRUE) = asr
  BY <1>1, <1>7, AsrStays DEF a, asr
<1>9. Mt(p, n, TRUE) = mt
  BY <1>1, <1>7, MtStays DEF t, mt
<1>10. Decided(p, n, TRUE) = Decision(asr, mt, n)
  BY Zenon, <1>1, <1>8, <1>9, DecidedIs
<1>11. Services(asr, mt, n) = {}
  BY <1>7 DEF Services, Healthy, a, t
<1>12. Profile(n) = Profile(m)
  BY DEF Profile
<1>13. Decision(asr, mt, n) = WithoutServices(Decision(asr, mt, m))
  <2> DEFINE w == IF asr.provider = "qwen_local" THEN AsrModels[Profile(m)] ELSE ""
             g == asr.degraded \/ mt.degraded
  <2>1. /\ Decision(asr, mt, m) = Reply(Yes, asr.provider, mt.provider, g, Status(asr, mt), Services(asr, mt, m), w)
        /\ Decision(asr, mt, n) = Reply(Yes, asr.provider, mt.provider, g, Status(asr, mt), {}, w)
    BY Zenon, <1>11, <1>12 DEF Decision, Reply, Yes
  <2> HIDE DEF w, g
  <2>2. Reply(Yes, asr.provider, mt.provider, g, Status(asr, mt), {}, w)
          = WithoutServices(Reply(Yes, asr.provider, mt.provider, g, Status(asr, mt), Services(asr, mt, m), w))
    BY ReplyFields
  <2> QED BY <2>1, <2>2
<1> QED BY <1>1, <1>10, <1>13 DEF d

\* The settings of the shell change nothing of a decision.
LEMMA SettingsDoNotMatter ==
  ASSUME NEW p, NEW m \in Detected, NEW settings
  PROVE  Decided(p, [m EXCEPT !.settings = settings], FALSE) = Decided(p, m, FALSE)
<1> DEFINE n == [m EXCEPT !.settings = settings]
<1>1. /\ n.network = m.network /\ n.keys = m.keys /\ n.models = m.models
      /\ n.runtimes = m.runtimes /\ n.services = m.services
  BY DEF Detected
<1> HIDE DEF n
<1>2. \A s : Ready(s, n, FALSE) = Ready(s, m, FALSE) /\ Healthy(s, n) = Healthy(s, m)
  BY <1>1 DEF Ready, Healthy
<1>3. /\ \A s : Usable(s, n) = Usable(s, m)
      /\ PreferredCloud(AsrProviders, Preference(p.asrPreference), p.language, n)
           = PreferredCloud(AsrProviders, Preference(p.asrPreference), p.language, m)
      /\ PreferredCloud(MtProviders, Preference(p.mtPreference), "auto", n)
           = PreferredCloud(MtProviders, Preference(p.mtPreference), "auto", m)
  BY <1>1, PreferredDepends
<1>4. \A spec, language : ExplicitServes(spec, language, n, FALSE) = ExplicitServes(spec, language, m, FALSE)
  BY <1>2, <1>3 DEF ExplicitServes
<1>5. Asr(p, n, FALSE) = Asr(p, m, FALSE)
  BY Zenon, <1>1, <1>2, <1>3, <1>4 DEF Asr, AsrForm
<1>6. Mt(p, n, FALSE) = Mt(p, m, FALSE)
  BY Zenon, <1>1, <1>2, <1>3, <1>4 DEF Mt, MtForm
<1>7. \A asr, mt : Services(asr, mt, n) = Services(asr, mt, m)
  BY <1>2 DEF Services
<1>8. Profile(n) = Profile(m)
  BY Zenon, <1>1 DEF Profile
<1>9. \A asr, mt : Decision(asr, mt, n) = Decision(asr, mt, m)
  BY Zenon, <1>7, <1>8 DEF Decision
<1>10. Decided(p, n, FALSE) = Decided(p, m, FALSE)
  BY Zenon, <1>5, <1>6, <1>9, DecidedIs
<1> QED BY <1>10 DEF n

\* The region of a key is the same for recognizer, translator and assistant.
LEMMA OneRegion ==
  ASSUME NEW p, NEW m
  PROVE  LET c == DesktopConfig(p, m.settings) IN
         {c.asrRegion, c.mtRegion} = {AssistantEndpoint("dashscope", m).region}
<1>1. LET c == DesktopConfig(p, m.settings) IN
      c.asrRegion = NormalRegion(m.settings.region) /\ c.mtRegion = NormalRegion(m.settings.region)
  BY DesktopFields
<1>2. AssistantEndpoint("dashscope", m).region = NormalRegion(m.settings.region)
  BY DEF AssistantEndpoint
<1> QED BY Zenon, <1>1, <1>2

\* A preset of the assistant is that of the one translator of its group.
LEMMA EndpointsAgree ==
  ASSUME NEW m
  PROVE  \A p \in DOMAIN ChatPresets : AssistantEndpoint(ChatPresets[p].group, m).url = ChatUrl(p, m)
<1> TAKE p \in DOMAIN ChatPresets
<1> DEFINE presets == {ChatPresets[q] : q \in DOMAIN ChatPresets}
           chosen == CHOOSE preset \in presets : preset.group = ChatPresets[p].group
<1>1. chosen \in presets /\ chosen.group = ChatPresets[p].group
  <2>1. \E preset \in presets : preset.group = ChatPresets[p].group
    OBVIOUS
  <2> HIDE DEF presets
  <2> QED BY <2>1
<1>2. chosen = ChatPresets[p]
  <2> HIDE DEF chosen
  <2> QED BY <1>1, Presets
<1>3. ChatPresets[p].group # "dashscope"
  BY Presets
<1>4. AssistantPreset(ChatPresets[p].group).url = chosen.url
  BY <1>3 DEF AssistantPreset
<1> HIDE DEF chosen, presets
<1>5. AssistantEndpoint(ChatPresets[p].group, m).url
        = IF ChatPresets[p].group \in m.urls THEN "configured" ELSE AssistantPreset(ChatPresets[p].group).url
  BY <1>3 DEF AssistantEndpoint
<1> QED BY <1>2, <1>4, <1>5 DEF ChatUrl

\* An automatic local recognizer names an installed model.
LEMMA ModelIsInstalled ==
  ASSUME NEW p, NEW m, NEW f, Decided(p, m, f).ok, p.asr = "auto", Decided(p, m, f).asr = "qwen_local"
  PROVE  Decided(p, m, f).model \in m.models
<1>1. /\ ValidPayload(p) /\ Asr(p, m, f).ok /\ Asr(p, m, f).provider = "qwen_local"
      /\ Decided(p, m, f).model = AsrModels[Profile(m)]
  BY DecisionFields
<1>2. AsrModels.lightweight \in m.models
  BY <1>1, AsrSound DEF AsrServes
<1>3. AsrModels[Profile(m)] \in m.models
  BY <1>2 DEF Profile, AlignedProfile, AsrModels
<1> QED BY <1>1, <1>3

(***************************************************************************)
(* More consent.                                                           *)

Granted(p) == [p EXCEPT !.audio = TRUE, !.transcript = TRUE]

\* The same payload with every consent.
LEMMA GrantedFields ==
  ASSUME NEW p \in Requested
  PROVE  LET g == Granted(p) IN
         /\ g.mode = p.mode /\ g.asr = p.asr /\ g.mt = p.mt /\ g.language = p.language
         /\ g.asrPreference = p.asrPreference /\ g.mtPreference = p.mtPreference
         /\ g.audio = TRUE /\ g.transcript = TRUE
BY DEF Granted, Requested

\* More consent makes no payload invalid.
LEMMA GrantedIsValid ==
  ASSUME NEW p \in Requested, ValidPayload(p)
  PROVE  ValidPayload(Granted(p))
BY GrantedFields DEF ValidPayload

\* With consent the same recognizer is selected, or a cloud one that is not degraded; translators likewise.
LEMMA GrantedAsr ==
  ASSUME NEW p \in Requested, NEW m, NEW f, Asr(p, m, f).ok
  PROVE  /\ Asr(Granted(p), m, f).ok
         /\ Asr(Granted(p), m, f) = Asr(p, m, f) \/ Asr(Granted(p), m, f).degraded = FALSE
<1> DEFINE g == Granted(p)
           cloud == PreferredCloud(AsrProviders, Preference(p.asrPreference), p.language, m)
<1>1. /\ g.mode = p.mode /\ g.asr = p.asr /\ g.language = p.language /\ g.asrPreference = p.asrPreference
      /\ g.audio = TRUE
  BY GrantedFields
<1> HIDE DEF g
<1>2. CASE p.asr # "auto"
  <2>1. Asr(g, m, f) = Asr(p, m, f)
    BY Zenon, <1>1, <1>2 DEF Asr, AsrForm
  <2> QED BY Zenon, <2>1 DEF g
<1>3. CASE p.asr = "auto" /\ p.mode # "local" /\ cloud # ""
  <2>1. Asr(g, m, f) = Pick(cloud, FALSE)
    BY Zenon, <1>1, <1>3 DEF Asr, AsrForm
  <2> HIDE DEF cloud
  <2>2. Asr(g, m, f).ok = TRUE /\ Asr(g, m, f).degraded = FALSE
    BY <2>1 DEF Pick
  <2> QED BY <2>2 DEF g
<1>4. CASE p.asr = "auto" /\ ~(p.mode # "local" /\ cloud # "")
  <2>1. Asr(g, m, f) = Asr(p, m, f)
    BY Zenon, <1>1, <1>4 DEF Asr, AsrForm
  <2> QED BY Zenon, <2>1 DEF g
<1> QED BY <1>2, <1>3, <1>4

LEMMA GrantedMt ==
  ASSUME NEW p \in Requested, NEW m, NEW f, Mt(p, m, f).ok
  PROVE  /\ Mt(Granted(p), m, f).ok
         /\ Mt(Granted(p), m, f) = Mt(p, m, f) \/ Mt(Granted(p), m, f).degraded = FALSE
<1> DEFINE g == Granted(p)
           cloud == PreferredCloud(MtProviders, Preference(p.mtPreference), "auto", m)
<1>1. /\ g.mode = p.mode /\ g.mt = p.mt /\ g.mtPreference = p.mtPreference /\ g.transcript = TRUE
  BY GrantedFields
<1> HIDE DEF g
<1>2. CASE p.mt # "auto"
  <2>1. Mt(g, m, f) = Mt(p, m, f)
    BY Zenon, <1>1, <1>2 DEF Mt, MtForm
  <2> QED BY Zenon, <2>1 DEF g
<1>3. CASE p.mt = "auto" /\ p.mode # "local" /\ cloud # ""
  <2>0. "auto" # "none"
    OBVIOUS
  <2>1. Mt(g, m, f) = Pick(cloud, FALSE)
    BY Zenon, <1>1, <1>3, <2>0 DEF Mt, MtForm
  <2> HIDE DEF cloud
  <2>2. Mt(g, m, f).ok = TRUE /\ Mt(g, m, f).degraded = FALSE
    BY <2>1 DEF Pick
  <2> QED BY <2>2 DEF g
<1>4. CASE p.mt = "auto" /\ ~(p.mode # "local" /\ cloud # "")
  <2>1. Mt(g, m, f) = Mt(p, m, f)
    BY Zenon, <1>1, <1>4 DEF Mt, MtForm
  <2> QED BY Zenon, <2>1 DEF g
<1> QED BY <1>2, <1>3, <1>4

\* A route is not lost and gets no worse with more consent.
LEMMA ConsentHelps ==
  ASSUME NEW p \in Requested, NEW m, NEW f, Decided(p, m, f).ok
  PROVE  /\ Decided(Granted(p), m, f).ok
         /\ Decided(Granted(p), m, f).degraded => Decided(p, m, f).degraded
<1> DEFINE g == Granted(p)
           d == Decided(p, m, f)
           e == Decided(g, m, f)
<1>1. ValidPayload(p) /\ Asr(p, m, f).ok /\ Mt(p, m, f).ok /\ d.degraded = (Asr(p, m, f).degraded \/ Mt(p, m, f).degraded)
  BY DecisionFields
<1>2. ValidPayload(g) /\ Asr(g, m, f).ok /\ Mt(g, m, f).ok
  BY <1>1, GrantedIsValid, GrantedAsr, GrantedMt
<1>3. e.ok /\ e.degraded = (Asr(g, m, f).degraded \/ Mt(g, m, f).degraded)
  BY <1>2, DecisionFields
<1>4. /\ Asr(g, m, f).degraded => Asr(p, m, f).degraded
      /\ Mt(g, m, f).degraded => Mt(p, m, f).degraded
  BY <1>1, GrantedAsr, GrantedMt
<1> HIDE DEF g, d, e
<1> QED BY <1>1, <1>3, <1>4 DEF g, d, e

(***************************************************************************)
(* A test.                                                                 *)

\* A reply has an outcome for each provider, and is good when none failed or was left out.
AllTested(r) == {"pending", "failed", "not_tested"} \cap {r.asr, r.mt} = {}
IsReply(r) ==
  /\ r.ok = AllTested(r)
  /\ "pending" \in {r.asr, r.mt} => r.code = "unknown_provider"
  /\ r.uploads => r.asr \in {"connected", "skipped"}

\* A reply is one when its three parts hold.
LEMMA ReplyIs ==
  ASSUME NEW r, \/ r.ok = TRUE /\ AllTested(r)
                \/ r.ok = FALSE /\ ~AllTested(r),
         "pending" \in {r.asr, r.mt} => r.code = "unknown_provider",
         r.uploads => r.asr \in {"connected", "skipped"}
  PROVE  IsReply(r)
<1>1. r.ok = AllTested(r)
  <2>1. CASE AllTested(r)
    <3>1. AllTested(r) = TRUE
      BY <2>1
    <3> QED BY <2>1, <3>1
  <2>2. CASE ~AllTested(r)
    <3>1. AllTested(r) = FALSE
      BY <2>2
    <3> QED BY <2>2, <3>1
  <2> QED BY <2>1, <2>2
<1> QED BY Zenon, <1>1 DEF IsReply

\* Every outcome of probe_cloud is a reply.
LEMMA ProbeIsDecided ==
  ASSUME NEW asr, NEW mt, NEW asrWorks \in BOOLEAN, NEW mtWorks \in BOOLEAN
  PROVE  IsReply(ProbeCloud(asr, mt, asrWorks, mtWorks))
<1> DEFINE Asked(p) == IF p = "" THEN "skipped" ELSE "pending"
           Probeable(specs, p) == p \in DOMAIN specs /\ specs[p].probed
           start == [NoProbe EXCEPT !.asr = Asked(asr), !.mt = Asked(mt)]
           afterAsr ==
             IF asr = "" THEN start
             ELSE IF ~Probeable(AsrProviders, asr) THEN [start EXCEPT !.asr = "failed", !.code = "unknown_provider"]
             ELSE IF asrWorks THEN [start EXCEPT !.asr = "connected"]
             ELSE [start EXCEPT !.asr = "failed", !.code = "error", !.mt = IF @ = "pending" THEN "not_tested" ELSE @]
           r == ProbeCloud(asr, mt, asrWorks, mtWorks)
<1>1. r = IF afterAsr.code # "" THEN afterAsr
          ELSE IF mt = "" THEN [afterAsr EXCEPT !.ok = TRUE]
          ELSE IF ~Probeable(MtProviders, mt) THEN [afterAsr EXCEPT !.mt = "failed", !.code = "unknown_provider"]
          ELSE IF mtWorks THEN [afterAsr EXCEPT !.mt = "connected", !.ok = TRUE, !.uploads = ProbeUploads("mt")]
          ELSE [afterAsr EXCEPT !.mt = "failed", !.code = "error", !.uploads = ProbeUploads("mt")]
  BY Zenon DEF ProbeCloud
<1>2. /\ start.asr = Asked(asr) /\ start.mt = Asked(mt) /\ start.code = ""
      /\ start.ok = FALSE /\ start.uploads = FALSE
      /\ DOMAIN start = {"ok", "asr", "mt", "code", "uploads"}
  <2> HIDE DEF Asked
  <2> QED BY DEF NoProbe
<1> SUFFICES IsReply(r)
  OBVIOUS
<1> HIDE DEF Probeable, start, r
<1>3. /\ DOMAIN afterAsr = {"ok", "asr", "mt", "code", "uploads"}
      /\ afterAsr.ok = FALSE /\ afterAsr.uploads = FALSE
  BY <1>2
<1>4. \/ afterAsr.code # "" /\ afterAsr.asr = "failed" /\ (afterAsr.mt = "pending" => afterAsr.code = "unknown_provider")
      \/ afterAsr.code = "" /\ afterAsr.asr \in {"connected", "skipped"} /\ afterAsr.mt = Asked(mt)
  BY <1>2
<1> HIDE DEF afterAsr
<1>5. CASE afterAsr.code # ""
  <2>1. r = afterAsr
    BY <1>1, <1>5
  <2>2. r.ok = FALSE /\ ~AllTested(r)
    BY <1>3, <1>4, <1>5, <2>1 DEF AllTested
  <2> QED BY <1>3, <1>4, <1>5, <2>1, <2>2, ReplyIs
<1>6. CASE afterAsr.code = "" /\ mt = ""
  <2>1. r = [afterAsr EXCEPT !.ok = TRUE]
    BY <1>1, <1>6
  <2>2. r.ok = TRUE /\ r.asr = afterAsr.asr /\ r.mt = "skipped" /\ r.uploads = FALSE
    BY <1>3, <1>4, <1>6, <2>1
  <2>3. r.ok = TRUE /\ AllTested(r)
    BY <1>4, <1>6, <2>2 DEF AllTested
  <2> QED BY <1>4, <1>6, <2>2, <2>3, ReplyIs
<1>7. CASE afterAsr.code = "" /\ mt # "" /\ ~Probeable(MtProviders, mt)
  <2>1. r = [afterAsr EXCEPT !.mt = "failed", !.code = "unknown_provider"]
    BY Zenon, <1>1, <1>7
  <2>2. r.ok = FALSE /\ r.mt = "failed" /\ r.uploads = FALSE /\ r.code = "unknown_provider"
    BY <1>3, <2>1
  <2>3. r.ok = FALSE /\ ~AllTested(r)
    BY <2>2 DEF AllTested
  <2> QED BY <2>2, <2>3, ReplyIs
<1>8. CASE afterAsr.code = "" /\ mt # "" /\ Probeable(MtProviders, mt) /\ mtWorks
  <2>1. r = [afterAsr EXCEPT !.mt = "connected", !.ok = TRUE, !.uploads = ProbeUploads("mt")]
    BY Zenon, <1>1, <1>8
  <2>2. r.ok = TRUE /\ r.mt = "connected" /\ r.asr = afterAsr.asr
    BY <1>3, <2>1
  <2>3. r.ok = TRUE /\ AllTested(r)
    BY <1>4, <1>8, <2>2 DEF AllTested
  <2> QED BY <1>4, <1>8, <2>2, <2>3, ReplyIs
<1>9. CASE afterAsr.code = "" /\ mt # "" /\ Probeable(MtProviders, mt) /\ ~mtWorks
  <2>1. r = [afterAsr EXCEPT !.mt = "failed", !.code = "error", !.uploads = ProbeUploads("mt")]
    BY Zenon, <1>1, <1>9
  <2>2. r.ok = FALSE /\ r.mt = "failed" /\ r.asr = afterAsr.asr
    BY <1>3, <2>1
  <2>3. r.ok = FALSE /\ ~AllTested(r)
    BY <1>4, <1>9, <2>2 DEF AllTested
  <2> QED BY <1>4, <1>9, <2>2, <2>3, ReplyIs
<1> QED BY <1>5, <1>6, <1>7, <1>8, <1>9

\* The providers of a session answer once its services run.
RouteServesOn(r, p, m) ==
  LET c == AlignLocalProfiles(DesktopConfig(p, m.settings), m) IN
  /\ r.services = {}
  /\ IsCloud(AsrProviders, r.asr) =>
       /\ AsrAdapter(r.asr, c, m).consent /\ AsrAdapter(r.asr, c, m).key
       /\ Supports(AsrProviders[r.asr], p.language)
  /\ IsCloud(MtProviders, r.mt) =>
       Authorizes(r.mt, c, m) \/ (r.mt = "custom_chat" /\ "custom_openai" \notin m.urls)

\* A route decided with services that answer serves.
LEMMA SessionServes ==
  ASSUME NEW p, NEW m, Decided(p, m, TRUE).ok
  PROVE  RouteServesOn(Decided(p, m, TRUE), p, m)
<1> DEFINE r == Decided(p, m, TRUE)
           c == Config(p, m.settings, m)
<1>1. /\ ValidPayload(p) /\ Asr(p, m, TRUE).ok /\ Mt(p, m, TRUE).ok
      /\ r.asr = Asr(p, m, TRUE).provider /\ r.mt = Mt(p, m, TRUE).provider
      /\ r.services = Services(Asr(p, m, TRUE), Mt(p, m, TRUE), m)
  BY DecisionFields
<1>2. AsrServes(p, m, TRUE, Asr(p, m, TRUE)) /\ MtServes(p, m, TRUE, Mt(p, m, TRUE))
  BY <1>1, AsrSound, MtSound
<1> DEFINE asr == AsrProviders[r.asr]
           mt == MtProviders[r.mt]
<1> HIDE DEF r
<1>3. IsAsrSpec(asr) /\ IsMtSpec(mt)
  BY <1>1, <1>2, AsrRegistry, MtRegistry DEF AsrServes, MtServes
<1>4. /\ asr.locality = "cloud" => p.audio /\ Usable(asr, m) /\ Supports(asr, p.language)
      /\ mt.locality = "cloud" => p.transcript /\ Usable(mt, m)
      /\ asr.service = "" \/ asr.service \in m.services
      /\ mt.service = "" \/ mt.service \in m.services
  BY <1>1, <1>2, <1>3 DEF AsrServes, MtServes, Ready, Healthy, IsAsrSpec, IsMtSpec
<1>5. r.services = {}
  BY <1>1, <1>4 DEF Services, Healthy
<1>6. c.audio = p.audio /\ c.transcript = p.transcript
  BY ConfigFields
<1> HIDE DEF c
<1>7. ASSUME asr.locality = "cloud"
      PROVE  AsrAdapter(r.asr, c, m).consent /\ AsrAdapter(r.asr, c, m).key /\ Supports(asr, p.language)
  <2>1. asr.group \in m.keys
    BY <1>3, <1>4, <1>7, KeyIsThere DEF IsAsrSpec
  <2> QED BY <1>4, <1>6, <1>7, <2>1 DEF AsrAdapter
<1>8. ASSUME mt.locality = "cloud", ~(r.mt = "custom_chat" /\ "custom_openai" \notin m.urls)
      PROVE  Authorizes(r.mt, c, m)
  <2> DEFINE a == MtAdapter(r.mt, c, m)
  <2>1. /\ a.consent = c.transcript /\ a.key = (mt.group \in m.keys)
        /\ a.url = IF r.mt \in DOMAIN ChatPresets THEN ChatUrl(r.mt, m) ELSE "fixed"
    BY DEF MtAdapter
  <2>2. a.url # ""
    BY <1>8, <2>1, Presets DEF ChatUrl
  <2>3. r.mt \in DOMAIN MtProviders
    BY <1>1, <1>2 DEF MtServes
  <2>4. r.mt # "custom_chat" => mt.group \in m.keys
    BY <1>3, <1>4, <1>8, <2>3, MtRegistry, KeyIsThere DEF IsMtSpec
  <2> HIDE DEF a, mt
  <2>5. a.consent
    BY <1>4, <1>6, <1>8, <2>1
  <2>6. a.key \/ r.mt = "custom_chat"
    BY <2>1, <2>4
  <2> QED BY <2>2, <2>5, <2>6 DEF Authorizes, a
<1> QED BY <1>5, <1>7, <1>8 DEF RouteServesOn, IsCloud, r, c, Config

(***************************************************************************)
(* The invariant of the routes.                                            *)

RouteTypes ==
  /\ phase \in {"idle", "planned", "created", "refused", "probed"}
  /\ payload \in Requested /\ machine \in Detected /\ atPlan \in Detected
  /\ changes \in 0..MaxChanges

\* A plan is what was decided before its services ran, a session's route what was decided when they did.
RoutesDecided ==
  /\ phase \in {"idle", "probed"} => plan = NoRoute /\ started = {}
  /\ phase \notin {"idle", "probed"} => plan = Decided(payload, atPlan, FALSE)
  /\ phase = "planned" => plan.ok
  /\ phase # "created" => route = NoRoute
  /\ phase = "created" => route.ok /\ route = Decided(payload, machine, TRUE)
  /\ started \subseteq plan.services

\* While nothing else changed, the machine is that of the plan with the services started.
MachineStays ==
  /\ changes = 0 /\ phase \notin {"idle", "probed"} =>
       /\ machine.network = atPlan.network /\ machine.keys = atPlan.keys /\ machine.models = atPlan.models
       /\ machine.services = atPlan.services \cup started
  /\ plan.ok /\ changes = 0 /\ plan.services \subseteq started =>
       /\ phase # "refused"
       /\ phase = "created" => route = WithoutServices(plan)

Replied == phase = "probed" => IsReply(probe)

RouteInv == RouteTypes /\ RoutesDecided /\ MachineStays /\ Replied

\* A refusal, field by field.
LEMMA NoRouteFields ==
  /\ ~NoRoute.ok /\ NoRoute.asr = "none" /\ NoRoute.mt = "none" /\ NoRoute.services = {} /\ NoRoute.degraded = FALSE
BY DEF NoRoute

LEMMA ChangesBound == MaxChanges \in Nat
BY RouteAssumption DEF RouteAssumption

\* RouteInv holds at first.
LEMMA InitRoutes == Init => RouteInv
<1> SUFFICES ASSUME Init PROVE RouteInv
  OBVIOUS
<1>1. RouteTypes
  <2>1. NoPayload \in Requested /\ NoMachine \in Detected
    BY RouteAssumption DEF RouteAssumption, NoPayload, Requested, NoMachine, Detected, LocalServices
  <2> QED BY <2>1, ChangesBound DEF RouteTypes, Init
<1>2. RoutesDecided /\ MachineStays /\ Replied
  BY NoRouteFields DEF RoutesDecided, MachineStays, Replied, Init
<1> QED BY <1>1, <1>2 DEF RouteInv

\* What each action keeps.
LEMMA PlanKeeps ==
  ASSUME RouteInv, NEW p \in Requested, NEW m \in Detected, Plan(p, m)
  PROVE  RouteInv'
<1>1. /\ phase = "idle" /\ payload' = p /\ machine' = m /\ atPlan' = m /\ plan' = Decided(p, m, FALSE)
      /\ phase' = IF plan'.ok THEN "planned" ELSE "refused"
      /\ started' = started /\ route' = route /\ changes' = changes
  BY DEF Plan
<1>2. plan' = Decided(payload', atPlan', FALSE) /\ started = {} /\ route = NoRoute
  BY <1>1 DEF RouteInv, RoutesDecided
<1>3. \/ phase' = "planned" /\ plan'.ok
      \/ phase' = "refused" /\ ~plan'.ok
  <2>1. CASE plan'.ok
    BY <1>1, <2>1
  <2>2. CASE ~plan'.ok
    BY <1>1, <2>2
  <2> QED BY <2>1, <2>2
<1>4. RouteTypes'
  BY <1>1, <1>3 DEF RouteInv, RouteTypes
<1>5. RoutesDecided'
  BY <1>1, <1>2, <1>3 DEF RoutesDecided
<1>6. MachineStays'
  <2>1. /\ machine'.network = atPlan'.network /\ machine'.keys = atPlan'.keys /\ machine'.models = atPlan'.models
        /\ machine'.services = atPlan'.services \cup started'
    BY <1>1, <1>2
  <2> QED BY <1>3, <2>1 DEF MachineStays
<1>7. Replied'
  BY <1>3 DEF Replied
<1> QED BY <1>4, <1>5, <1>6, <1>7 DEF RouteInv

LEMMA StartServiceKeeps ==
  ASSUME RouteInv, NEW s \in LocalServices, StartService(s)
  PROVE  RouteInv'
<1>1. /\ phase = "planned" /\ s \in plan.services \ started /\ started' = started \cup {s}
      /\ machine' = [machine EXCEPT !.services = @ \cup {s}]
      /\ phase' = phase /\ payload' = payload /\ atPlan' = atPlan /\ plan' = plan /\ route' = route /\ changes' = changes
  BY DEF StartService
<1>2. /\ machine' \in Detected /\ machine'.network = machine.network /\ machine'.keys = machine.keys
      /\ machine'.models = machine.models /\ machine'.services = machine.services \cup {s}
  BY <1>1 DEF RouteInv, RouteTypes, Detected
<1>3. RouteTypes'
  BY <1>1, <1>2 DEF RouteInv, RouteTypes
<1>4. RoutesDecided'
  BY <1>1 DEF RouteInv, RoutesDecided
<1>5. MachineStays'
  BY <1>1, <1>2 DEF RouteInv, MachineStays
<1>6. Replied'
  BY <1>1 DEF Replied
<1> QED BY <1>3, <1>4, <1>5, <1>6 DEF RouteInv

LEMMA StartFailsKeeps ==
  ASSUME RouteInv, NEW s \in LocalServices, StartFails(s)
  PROVE  RouteInv'
<1>1. /\ phase = "planned" /\ s \in plan.services \ started /\ phase' = "refused"
      /\ payload' = payload /\ machine' = machine /\ atPlan' = atPlan /\ plan' = plan /\ started' = started
      /\ route' = route /\ changes' = changes
  BY DEF StartFails
<1>2. RouteTypes'
  BY <1>1 DEF RouteInv, RouteTypes
<1>3. RoutesDecided'
  BY <1>1 DEF RouteInv, RoutesDecided
<1>4. MachineStays'
  BY <1>1 DEF RouteInv, MachineStays
<1>5. Replied'
  BY <1>1 DEF Replied
<1> QED BY <1>2, <1>3, <1>4, <1>5 DEF RouteInv

LEMMA MachineChangesKeeps ==
  ASSUME RouteInv, MachineChanges
  PROVE  RouteInv'
<1>1. /\ phase = "planned" /\ changes < MaxChanges /\ changes' = changes + 1
      /\ phase' = phase /\ payload' = payload /\ atPlan' = atPlan /\ plan' = plan /\ started' = started /\ route' = route
  BY DEF MachineChanges
<1>2. machine' \in Detected
  <2>1. machine \in Detected
    BY DEF RouteInv, RouteTypes
  <2>2. CASE machine' = [machine EXCEPT !.network = ~@]
    BY <2>1, <2>2 DEF Detected
  <2>3. ASSUME NEW s \in machine.services, machine' = [machine EXCEPT !.services = @ \ {s}] PROVE machine' \in Detected
    BY <2>1, <2>3 DEF Detected
  <2> QED BY <2>2, <2>3 DEF MachineChanges
<1>3. changes' \in 0..MaxChanges /\ changes' # 0
  BY <1>1, ChangesBound DEF RouteInv, RouteTypes
<1>4. RouteTypes'
  BY <1>1, <1>2, <1>3 DEF RouteInv, RouteTypes
<1>5. RoutesDecided'
  BY <1>1 DEF RouteInv, RoutesDecided
<1>6. MachineStays'
  BY <1>3 DEF MachineStays
<1>7. Replied'
  BY <1>1 DEF Replied
<1> QED BY <1>4, <1>5, <1>6, <1>7 DEF RouteInv

LEMMA CreateKeeps ==
  ASSUME RouteInv, Create
  PROVE  RouteInv'
<1>1. /\ phase = "planned" /\ plan.services \subseteq started /\ route' = Decided(payload, machine, TRUE)
      /\ phase' = IF route'.ok THEN "created" ELSE "refused"
      /\ payload' = payload /\ machine' = machine /\ atPlan' = atPlan /\ plan' = plan /\ started' = started
      /\ changes' = changes
  BY DEF Create
<1>2. plan = Decided(payload, atPlan, FALSE) /\ plan.ok /\ started = plan.services
  BY <1>1 DEF RouteInv, RoutesDecided
<1>3. \/ phase' = "created" /\ route'.ok
      \/ phase' = "refused" /\ route' = NoRoute
  BY <1>1, DecisionFields
<1>4. RouteTypes'
  BY <1>1, <1>3 DEF RouteInv, RouteTypes
<1>5. RoutesDecided'
  BY <1>1, <1>2, <1>3 DEF RoutesDecided
<1>6. ASSUME changes = 0 PROVE route' = WithoutServices(plan) /\ route'.ok
  <2>1. /\ machine.network = atPlan.network /\ machine.keys = atPlan.keys /\ machine.models = atPlan.models
        /\ machine.services = atPlan.services \cup plan.services
    BY <1>1, <1>2, <1>6 DEF RouteInv, MachineStays
  <2>2. Decided(payload, machine, TRUE) = WithoutServices(Decided(payload, atPlan, FALSE))
    BY <1>2, <2>1, PlanStays
  <2>3. route' = WithoutServices(plan)
    BY <1>1, <1>2, <2>2
  <2>4. DOMAIN plan = {"ok", "asr", "mt", "degraded", "status", "services", "model"}
    <3>1. plan = Decision(Asr(payload, atPlan, FALSE), Mt(payload, atPlan, FALSE), atPlan)
      BY <1>2, DecisionFields
    <3> QED BY <3>1 DEF Decision
  <2>5. route'.ok = plan.ok
    BY <2>3, <2>4 DEF WithoutServices
  <2> QED BY <1>2, <2>3, <2>5
<1>7. MachineStays'
  <2>1. changes' = 0 => /\ machine'.network = atPlan'.network /\ machine'.keys = atPlan'.keys
                        /\ machine'.models = atPlan'.models /\ machine'.services = atPlan'.services \cup started'
    BY <1>1 DEF RouteInv, MachineStays
  <2>2. changes' = 0 => phase' # "refused" /\ route' = WithoutServices(plan')
    BY <1>1, <1>3, <1>6, NoRouteFields
  <2> QED BY <2>1, <2>2 DEF MachineStays
<1>8. Replied'
  BY <1>3 DEF Replied
<1> QED BY <1>4, <1>5, <1>7, <1>8 DEF RouteInv

LEMMA TestKeeps ==
  ASSUME RouteInv, NEW asr, NEW mt, Test(asr, mt)
  PROVE  RouteInv'
<1>1. /\ phase = "idle" /\ phase' = "probed"
      /\ payload' = payload /\ machine' = machine /\ atPlan' = atPlan /\ plan' = plan /\ started' = started
      /\ route' = route /\ changes' = changes
  BY DEF Test
<1>2. IsReply(probe')
  BY ProbeIsDecided DEF Test
<1>3. RouteTypes'
  BY <1>1 DEF RouteInv, RouteTypes
<1>4. RoutesDecided'
  BY <1>1 DEF RouteInv, RoutesDecided
<1>5. MachineStays'
  BY <1>1, NoRouteFields DEF RouteInv, RoutesDecided, MachineStays
<1>6. Replied'
  BY <1>2 DEF Replied
<1> QED BY <1>3, <1>4, <1>5, <1>6 DEF RouteInv

\* Every step keeps RouteInv.
LEMMA NextRoutes == RouteInv /\ [Next]_vars => RouteInv'
<1> SUFFICES ASSUME RouteInv, [Next]_vars PROVE RouteInv'
  OBVIOUS
<1>1. ASSUME NEW case \in Cases, Plan(case[1], case[2]) PROVE RouteInv'
  <2>1. case[1] \in Requested /\ case[2] \in Detected
    BY RouteAssumption DEF RouteAssumption
  <2> QED BY <1>1, <2>1, PlanKeeps
<1>2. ASSUME NEW s \in LocalServices, StartService(s) \/ StartFails(s) PROVE RouteInv'
  BY <1>2, StartServiceKeeps, StartFailsKeeps
<1>3. CASE MachineChanges
  BY <1>3, MachineChangesKeeps
<1>4. CASE Create
  BY <1>4, CreateKeeps
<1>5. ASSUME NEW pair \in Probes, Test(pair[1], pair[2]) PROVE RouteInv'
  BY <1>5, TestKeeps
<1>6. CASE UNCHANGED vars
  BY <1>6 DEF vars, RouteInv, RouteTypes, RoutesDecided, MachineStays, Replied
<1> QED BY <1>1, <1>2, <1>3, <1>4, <1>5, <1>6 DEF Next

\* The session asked for with consent is no worse.
Helps(p, m, f) ==
  Decided(p, m, f).ok =>
    Decided(Granted(p), m, f).ok /\ (Decided(Granted(p), m, f).degraded => Decided(p, m, f).degraded)

\* RouteInv is enough for everything the run asks of the routes.
LEMMA RoutesFollow ==
  ASSUME RouteInv, ConsentInv
  PROVE  /\ TypeOK /\ UploadsAreAllowed /\ PlanIsKept /\ RouteServes /\ AutoModelIsInstalled
         /\ ConsentNeverHurts /\ SettingsAreHarmless /\ OneEndpoint /\ TestsAreDecided
<1>1. /\ plan = NoRoute \/ (plan = Decided(payload, atPlan, FALSE) /\ phase \notin {"idle", "probed"})
      /\ route = NoRoute \/ (route = Decided(payload, machine, TRUE) /\ route.ok /\ phase = "created")
  BY DEF RouteInv, RoutesDecided
<1>2. TypeOK
  <2>1. ASSUME NEW p, NEW m, NEW f, Decided(p, m, f).ok
        PROVE  LET r == Decided(p, m, f) IN
               r.asr \in DOMAIN AsrProviders /\ r.mt \in DOMAIN MtProviders /\ r.services \subseteq LocalServices
    <3> DEFINE asr == Asr(p, m, f)
               mt == Mt(p, m, f)
               r == Decided(p, m, f)
    <3>1. /\ ValidPayload(p) /\ asr.ok /\ mt.ok /\ r.asr = asr.provider /\ r.mt = mt.provider
          /\ r.services = Services(asr, mt, m)
      BY <2>1, DecisionFields
    <3>2. AsrServes(p, m, f, asr) /\ MtServes(p, m, f, mt)
      BY <3>1, AsrSound, MtSound
    <3> HIDE DEF asr, mt, r
    <3>3. r.asr \in DOMAIN AsrProviders /\ r.mt \in DOMAIN MtProviders
      BY <3>1, <3>2 DEF AsrServes, MtServes
    <3>4. AsrProviders[r.asr].service \in {"", "qwen_asr"} /\ MtProviders[r.mt].service \in {"", "hymt"}
      <4>1. IsAsrSpec(AsrProviders[r.asr]) /\ IsMtSpec(MtProviders[r.mt])
        BY <3>3, AsrRegistry, MtRegistry
      <4> QED BY <4>1 DEF IsAsrSpec, IsMtSpec
    <3>5. r.services \subseteq LocalServices
      BY <3>1, <3>4 DEF Services, LocalServices
    <3> QED BY <3>3, <3>5 DEF r
  <2>2. NoRoute.asr \in DOMAIN AsrProviders /\ NoRoute.mt \in DOMAIN MtProviders /\ NoRoute.services \subseteq LocalServices
    BY NoRouteFields, AsrRegistry, MtRegistry
  <2>3. ASSUME NEW p, NEW m, NEW f
        PROVE  LET r == Decided(p, m, f) IN
               r.asr \in DOMAIN AsrProviders /\ r.mt \in DOMAIN MtProviders /\ r.services \subseteq LocalServices
    BY <2>1, <2>2, DecisionFields
  <2>4. \A r \in {plan, route} :
          r.asr \in DOMAIN AsrProviders /\ r.mt \in DOMAIN MtProviders /\ r.services \subseteq LocalServices
    BY <1>1, <2>2, <2>3
  <2> QED BY <2>4 DEF TypeOK, RouteInv, RouteTypes, RoutesDecided
<1>3. UploadsAreAllowed
  BY DEF ConsentInv, UploadsAreAllowed, Allowed
<1>4. PlanIsKept
  BY DEF PlanIsKept, RouteInv, MachineStays, WithoutServices
<1>5. RouteServes
  <2>1. phase = "created" => RouteServesOn(route, payload, machine)
    BY SessionServes DEF RouteInv, RoutesDecided
  <2> QED BY <2>1 DEF RouteServes, RouteServesOn
<1>6. AutoModelIsInstalled
  <2>1. plan.ok /\ payload.asr = "auto" /\ plan.asr = "qwen_local" => plan.model \in atPlan.models
    BY <1>1, NoRouteFields, ModelIsInstalled
  <2>2. route.ok /\ payload.asr = "auto" /\ route.asr = "qwen_local" => route.model \in machine.models
    BY <1>1, NoRouteFields, ModelIsInstalled
  <2> QED BY <2>1, <2>2 DEF AutoModelIsInstalled
<1>7. ConsentNeverHurts
  <2>1. plan.ok => Decided(Granted(payload), atPlan, FALSE).ok
                   /\ (Decided(Granted(payload), atPlan, FALSE).degraded => plan.degraded)
    <3>1. payload \in Requested
      BY DEF RouteInv, RouteTypes
    <3>2. \A m, f : Helps(payload, m, f)
      BY <3>1, ConsentHelps DEF Helps
    <3>3. Helps(payload, atPlan, FALSE)
      BY Zenon, <3>2
    <3>4. plan.ok => plan = Decided(payload, atPlan, FALSE)
      BY <1>1, NoRouteFields
    <3> QED BY <3>3, <3>4 DEF Helps
  <2> QED BY <2>1 DEF ConsentNeverHurts, Granted
<1>8. SettingsAreHarmless
  <2>1. phase \notin {"idle", "probed"} => plan = Decided(payload, [atPlan EXCEPT !.settings = NoMachine.settings], FALSE)
    BY SettingsDoNotMatter DEF RouteInv, RouteTypes, RoutesDecided
  <2>2. LET c == DesktopConfig(payload, atPlan.settings) IN
        {c.asrRegion, c.mtRegion} = {AssistantEndpoint("dashscope", atPlan).region}
    BY OneRegion
  <2> QED BY <2>1, <2>2 DEF SettingsAreHarmless
<1>9. OneEndpoint
  BY EndpointsAgree DEF OneEndpoint
<1>10. TestsAreDecided
  BY DEF TestsAreDecided, RouteInv, Replied, IsReply, AllTested
<1> QED BY <1>2, <1>3, <1>4, <1>5, <1>6, <1>7, <1>8, <1>9, <1>10

(* A session's route is the one its payload, the user's consent and the    *)
(* machine allow, whatever they are.                                       *)
THEOREM RoutesAreSafe == PartsSpec => []RoutesAreAllowed
<1>1. PartsInit => RouteInv /\ ConsentInv
  BY InitRoutes, InitConsent DEF PartsInit
<1>2. (RouteInv /\ ConsentInv) /\ [PartsNext]_<<part, routeVars, adapterVars, contextVars>> => (RouteInv /\ ConsentInv)'
  <2> SUFFICES ASSUME RouteInv, ConsentInv, [PartsNext]_<<part, routeVars, adapterVars, contextVars>>
               PROVE  RouteInv' /\ ConsentInv'
    OBVIOUS
  <2>1. [Next]_vars
    BY DEF PartsNext, routeVars, vars
  <2> QED BY <2>1, NextRoutes, NextConsent
<1>3. RouteInv /\ ConsentInv => RoutesAreAllowed
  BY RoutesFollow DEF RoutesAreAllowed
<1> QED BY <1>1, <1>2, <1>3, PTL DEF PartsSpec
=============================================================================
