---------------------------- MODULE MCProviders ----------------------------
(***************************************************************************)
(* What a session needs before it runs, as three parts of one              *)
(* specification: the routes of its providers, the translation adapters    *)
(* behind them and the lecture context that goes into their prompts. A     *)
(* behaviour takes the steps of one part.                                  *)
(***************************************************************************)
EXTENDS RoutePlan

CONSTANTS
  MaxTokens, MaxRequests, Spans, MaxChars, MaxMemory, Repeats, MaxUnit, ChatLimit, HyMtLimit,
  MaxEdits, ContextChars, TopicChars, PromptChars, TermsLineChars, TermChars, UsableChars, SideChars,
  MaxTerms, MaxAnswers, MinOccurrences, Back, MaxKeyterms, KeytermChars, KeytermBytes, SpokenLanguages

\* Every part needs a unit of two characters, a request and a word before the cut at least.
ASSUME BoundsAssumption ==
  /\ {MaxTokens, MaxRequests, Repeats, MaxUnit, MaxTerms, TopicChars} \subseteq Nat \ {0, 1}
  /\ TopicChars <= PromptChars /\ UsableChars <= TermChars

VARIABLES
  part,
  adapter, request, sent, received, text, shown, error, stage, requests,
  material, offered, context, standing, spoken, parsed, editing, skipped, edits

\* One choice of the payload or the machine is varied at a time against the ordinary ones.
Ordinary == [mode |-> "auto", asr |-> "auto", mt |-> "auto", language |-> "en", asrPreference |-> "",
             mtPreference |-> "", audio |-> TRUE, transcript |-> TRUE]
Modes == {"auto", "local", "cloud"}
AsrPayloads ==
  {[Ordinary EXCEPT !.mode = mode, !.asr = asr, !.language = language, !.asrPreference = preference, !.audio = audio] :
     mode \in Modes, asr \in {"auto", "qwen_local", "assemblyai", "qwen_cloud"},
     language \in {"en", "ja"}, preference \in {"", "assemblyai"}, audio \in BOOLEAN}
MtPayloads ==
  {[Ordinary EXCEPT !.mode = mode, !.mt = mt, !.mtPreference = preference, !.audio = audio, !.transcript = transcript] :
     mode \in Modes, mt \in {"auto", "hymt_local", "deepl", "custom_chat", "none"},
     preference \in {"", "custom_chat"}, audio \in BOOLEAN, transcript \in BOOLEAN}
InvalidPayloads ==
  {[Ordinary EXCEPT !.mode = "other"], [Ordinary EXCEPT !.asr = "other"], [Ordinary EXCEPT !.mt = "other"],
   [Ordinary EXCEPT !.language = "fr"], [Ordinary EXCEPT !.asrPreference = "qwen_local"]}
Machine(network, keys, urls, models, runtimes, services, region) ==
  [network |-> network, keys |-> keys, urls |-> urls, models |-> models, runtimes |-> runtimes,
   services |-> services, settings |-> [region |-> region, tier |-> IF region = "" THEN "" ELSE "trial"]]
Laptops ==
  {Machine(network, {"dashscope", "custom_openai"}, {}, models, runtimes, {}, "") :
     network \in BOOLEAN, models \in {{}, {"qwen3-asr-0.6b", "hymt2-1.8b"}, {"qwen3-asr-1.7b", "hymt2-1.8b"}},
     runtimes \in {{"hymt"}, {"qwen_asr", "hymt"}}}
Machines ==
  {Machine(TRUE, keys, urls, models, runtimes, services, region) :
     keys \in {{}, {"assemblyai", "deepl"}, {"dashscope"}}, urls \in {{}, {"custom_openai"}},
     models \in {{"qwen3-asr-0.6b", "hymt2-1.8b"}, {"qwen3-asr-0.6b", "qwen3-asr-1.7b"}},
     runtimes \in {{}, {"hymt"}, {"qwen_asr", "hymt"}}, services \in {{}, {"qwen_asr"}}, region \in {"", "beijing"}}
Few == {[Ordinary EXCEPT !.asrPreference = a, !.mtPreference = m, !.audio = c] :
          a \in {"", "assemblyai"}, m \in {"", "custom_chat"}, c \in BOOLEAN}
MCCases ==
  ((AsrPayloads \cup MtPayloads) \X Laptops) \cup (InvalidPayloads \X Machines) \cup (Few \X Machines)
MCNames ==
  Modes \cup Languages \cup Regions \cup DOMAIN AsrProviders \cup DOMAIN MtProviders \cup DOMAIN GroupKeys
    \cup {AsrModels.quality, AsrModels.lightweight, MtModels.lightweight, "", "other", "fr", "trial"}
MCProbes == {"", "deepgram", "mock"} \X {"", "deepl", "hymt_local"}

(************************ the adapters' requests ***************************)

Adapter(p, consent, key, url, replaces) ==
  [provider |-> p, consent |-> consent, key |-> key, url |-> url, replaces |-> replaces,
   thinking |-> FALSE, refused |-> FALSE]
Request(c, topic, committed, blank) ==
  [context |-> c, topic |-> topic, committed |-> committed, blank |-> blank, attempt |-> 1,
   dropped |-> FALSE, resent |-> FALSE]
AdapterProviders ==
  {"openai_chat", "deepseek_chat", "custom_chat", "qwen_cloud", "hymt_local",
   "deepl", "google_translate", "azure_translator"}
MCRequests ==
  {Request(<<>>, 2, TRUE, FALSE), Request(<<1, 0, 2, 1>>, 0, TRUE, FALSE), Request(<<2, 4, 1>>, 2, FALSE, FALSE)}
AdapterCases ==
  ({Adapter(p, TRUE, TRUE, TRUE, FALSE) : p \in AdapterProviders} \X MCRequests)
  \cup (({Adapter("custom_chat", TRUE, FALSE, url, FALSE) : url \in BOOLEAN}
          \cup {Adapter("qwen_cloud", TRUE, TRUE, TRUE, TRUE)}) \X {Request(<<>>, 0, TRUE, FALSE)})
  \cup ({Adapter(p, consent, ~consent, TRUE, FALSE) : p \in AdapterProviders, consent \in BOOLEAN}
        \X {Request(<<>>, 0, TRUE, FALSE)})
  \cup ({Adapter(p, TRUE, TRUE, TRUE, FALSE) : p \in AdapterProviders} \X {Request(<<>>, 0, TRUE, TRUE)})
\* What a delta brings: letters, a space, quotes, a label.
MCPieces == {<<"a">>, <<" ">>, <<"q">>, <<"a", "b">>, <<"q", " ">>, <<"L", " ">>}

(************************* the lecture context *****************************)

Token(script, size) == [script |-> script, size |-> size]
P(key, form, tokens) == [key |-> <<key>>, form |-> <<form>>, tokens |-> tokens, ends |-> FALSE]
Gabor == P("gabor", "Gabor", <<Token("latin", 5)>>)
gaborLower == P("gabor", "gabor", <<Token("latin", 5)>>)
Cnn == P("cnn", "CNN", <<Token("latin", 3)>>)
Eye == P("eye", "eye", <<Token("han", 4)>>)
Prose == [P("prose", "prose", <<Token("latin", 4), Token("latin", 6)>>) EXCEPT !.ends = TRUE]
HanProse == [P("talk", "talk", <<Token("han", 7)>>) EXCEPT !.ends = TRUE]
HanTwo == P("h2", "h2", <<Token("han", 2)>>)
HanThree == P("h3", "h3", <<Token("han", 3)>>)
L(label, separator, items) == [label |-> label, separator |-> separator, items |-> items]
MCTypedLines ==
  {L("", "", <<<<Gabor>>>>), L("terms", "", <<<<gaborLower>>, <<Eye>>, <<Cnn, HanTwo>>>>),
   L("", "arrow", <<<<gaborLower, HanTwo>>>>), L("", "colon", <<<<Gabor, HanThree>>>>),
   L("topic", "colon", <<<<Cnn, Gabor>>>>), L("", "", <<<<Prose>>>>), L("", "", <<<<HanProse>>>>),
   L("comment", "", <<<<Cnn>>>>), L("", "", <<<<Cnn>>, <<Eye>>>>)}
W(key, form, kind, size) == [key |-> key, form |-> form, kind |-> kind, size |-> size]
Bela == W("bela", "Bela", "name", 4)
Julesz == W("julesz", "Julesz", "name", 6)
Net == W("imagenet", "ImageNet", "camel", 8)
Rgb == W("rgb", "RGB", "acronym", 3)
Of == W("of", "of", "connector", 2)
The == W("the", "the", "stop", 3)
Texture == W("texture", "Texture", "name", 7)
textureLower == W("texture", "texture", "plain", 7)
Dot == W(".", ".", "break", 1)
Sentences ==
  {<<Bela, Julesz, Dot, Texture>>, <<The, Julesz, Of, Bela>>, <<textureLower, Rgb, Net>>, <<Rgb, Texture>>}
Documents ==
  {<<a, <<Bela, Julesz, Dot, Texture>>, <<textureLower, Rgb, Net>>, b>> : a, b \in Sentences}
  \cup {<<c, c>> : c \in {<<Bela, Of, Julesz, Of, Rgb>>}}
MCTitles ==
  {<<>>, <<[phrase |-> Gabor, generic |-> FALSE], [phrase |-> Prose, generic |-> TRUE],
           [phrase |-> gaborLower, generic |-> FALSE]>>}
MCAnswers ==
  {<<>>, <<[source |-> P("rgb", "RGB", <<Token("latin", 3)>>), target |-> HanTwo], [source |-> Eye, target |-> Gabor]>>}
MCMaterials == {[titles |-> t, lines |-> d, answer |-> a] : t \in MCTitles, d \in Documents, a \in MCAnswers}

(***************************** the parts ***********************************)

A == INSTANCE TranslationAdapters WITH Cases <- AdapterCases, Pieces <- MCPieces, phase <- stage
C == INSTANCE SessionContext WITH Materials <- MCMaterials, TypedLines <- MCTypedLines, phase <- editing, language <- spoken

routeVars == <<phase, payload, machine, atPlan, plan, started, route, probe, changes>>
adapterVars == <<adapter, request, sent, received, text, shown, error, stage, requests>>
contextVars == <<material, offered, context, standing, spoken, parsed, editing, skipped, edits>>

PartsInit == part \in {"routes", "adapters", "context"} /\ Init /\ A!Init /\ C!Init
PartsNext ==
  /\ part' = part
  /\ \/ part = "routes" /\ Next /\ UNCHANGED <<adapterVars, contextVars>>
     \/ part = "adapters" /\ A!Next /\ UNCHANGED <<routeVars, contextVars>>
     \/ part = "context" /\ C!Next /\ UNCHANGED <<routeVars, adapterVars>>
PartsSpec == PartsInit /\ [][PartsNext]_<<part, routeVars, adapterVars, contextVars>>

(* A session runs on the providers its payload and the user's consent      *)
(* allow: nothing is uploaded that was not allowed, the route of the       *)
(* session is the planned one while the machine stays as it was, consent   *)
(* and settings never make a session worse, and a test decides both        *)
(* providers (runtime/router.py, service/session.py, cloud_probe.py).      *)
RoutesAreAllowed ==
  part = "routes" =>
    /\ TypeOK
    /\ UploadsAreAllowed
    /\ PlanIsKept
    /\ RouteServes
    /\ AutoModelIsInstalled
    /\ ConsentNeverHurts
    /\ SettingsAreHarmless
    /\ OneEndpoint
    /\ TestsAreDecided

(* A translation is asked for only with consent and with the newest        *)
(* earlier sentences, a refusal of them is not repeated, a refused key is   *)
(* not taken for a refused text, and however the answer is cut into deltas *)
(* the final text is the answer (backends/translation/).                   *)
RequestsAreFaithful ==
  part = "adapters" =>
    /\ A!TypeOK
    /\ A!NothingWithoutConsent
    /\ A!BackgroundIsRecent
    /\ A!RefusedContextIsDropped
    /\ A!KeyAndQuotaAreNamed
    /\ A!ThinkingIsDropped
    /\ A!TextIsTheAnswer
    /\ A!FinalIsShown

(* What the user types and imports reaches the recognizer or the           *)
(* translation: the lecture's own pairs come first, a term in a foreign    *)
(* script leaves the recognizer's prompt but is not lost, what an import   *)
(* writes is read back, and every budget is kept (session_context.py,      *)
(* assistant/terms.py, backends/asr/_context.py).                          *)
ContextSurvives ==
  part = "context" =>
    /\ C!TypeOK
    /\ C!WithinBudgets
    /\ C!LectureComesFirst
    /\ C!NothingIsLost
    /\ C!ImportIsRead
    /\ C!TermsOccur
    /\ C!TermsFitRecognizer
=============================================================================
