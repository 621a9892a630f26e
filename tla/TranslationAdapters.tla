------------------------ MODULE TranslationAdapters ------------------------
(***************************************************************************)
(* What one translation of the scheduler does at a provider: the prompt,   *)
(* the stream of a chat model (backends/translation/chat_base.py,          *)
(* openai_chat.py, cloud_qwen_mt.py, local_hymt.py), the answer of a       *)
(* request/response API (rest_base.py, deepl.py, google_translate.py,      *)
(* azure_translator.py), what a refusal means and the second attempt.      *)
(* A text is a sequence of letters, spaces, quotes "q" and a label "L".    *)
(***************************************************************************)
EXTENDS Naturals, Sequences, SequencesExt, FiniteSets, FiniteSetsExt

CONSTANTS
  Cases,          \* the adapters with a request for each
  Pieces,         \* what one delta of a stream brings
  MaxTokens,      \* bound: the tokens of an answer
  MaxRequests,    \* bound: the requests of an adapter
  Spans, MaxChars,              \* background_spans and background_max_chars
  MaxMemory,                    \* the pairs of a translation memory
  Repeats, MaxUnit,             \* repeated_tail; a unit has two characters at least
  ChatLimit, HyMtLimit          \* the longest answer to the source of the request

VARIABLES
  adapter,    \* [provider, consent, key, url, replaces, thinking, refused]
  request,    \* the request of the scheduler, [context, topic, committed, blank, attempt, dropped, resent]
  sent,       \* the payloads of the request that were sent
  received,   \* what the provider streamed for the last of them
  text,       \* the text so far
  shown,      \* the last event
  error,      \* the last error, [code, retry, status, body]
  phase,      \* "new", "ready", "asked", "done", "failed" or "over"
  requests

vars == <<adapter, request, sent, received, text, shown, error, phase, requests>>

Chat == {"openai_chat", "deepseek_chat", "custom_chat"}
Streams == Chat \cup {"qwen_cloud", "hymt_local"}
Rest == {"deepl", "google_translate", "azure_translator"}

(****************************** the prompt *********************************)

\* The newest earlier sentences, blank ones left out, until one does not fit or there are enough.
Background(context, used, most) ==
  LET Take(b, size) ==
        IF b.full \/ size = 0 THEN b
        ELSE IF b.used + size > MaxChars THEN [b EXCEPT !.full = TRUE]
        ELSE [spans |-> <<size>> \o b.spans, used |-> b.used + size, full |-> Len(b.spans) + 1 = most]
  IN FoldLeft(Take, [spans |-> <<>>, used |-> used, full |-> most = 0], Reverse(context)).spans
Newest(context, n) == SubSeq(context, IF Len(context) > n THEN Len(context) - n + 1 ELSE 1, Len(context))

Nothing == [background |-> <<>>, topic |-> 0, memory |-> <<>>, thinking |-> FALSE]
ChatPayload(r) ==
  [Nothing EXCEPT !.background = Background(Newest(r.context, Spans), 0, Spans), !.topic = r.topic,
                  !.thinking = adapter.thinking]
HyMtPayload(r) ==
  [Nothing EXCEPT !.background = Background(Newest(r.context, Spans), r.topic, Spans), !.topic = r.topic]
\* Pairs of sources and targets: the translation memory of the model.
QwenPayload(r) == [Nothing EXCEPT !.memory = Newest(r.context, MaxMemory), !.topic = r.topic]
DeepLPayload(r) == [Nothing EXCEPT !.background = Background(r.context, r.topic, Spans), !.topic = r.topic]
GooglePayload == Nothing
AzurePayload == Nothing
Payload(r) ==
  CASE adapter.provider \in Chat -> ChatPayload(r)
    [] adapter.provider = "hymt_local" -> HyMtPayload(r)
    [] adapter.provider = "qwen_cloud" -> QwenPayload(r)
    [] adapter.provider = "deepl" -> DeepLPayload(r)
    [] adapter.provider = "google_translate" -> GooglePayload
    [] adapter.provider = "azure_translator" -> AzurePayload

(****************************** refusals ***********************************)

Error(code, retry) == [code |-> code, retry |-> retry]
NoError == [code |-> "", retry |-> FALSE, status |-> 0, body |-> ""]

ChatAuthorize ==
  IF ~adapter.consent THEN "privacy_policy_denied"
  ELSE IF ~adapter.url THEN "configuration"
  ELSE IF adapter.provider # "custom_chat" /\ ~adapter.key THEN "authentication_failed" ELSE ""
CloudAuthorize ==
  IF ~adapter.consent THEN "privacy_policy_denied" ELSE IF ~adapter.key THEN "authentication_failed" ELSE ""
Authorize ==
  IF adapter.provider = "hymt_local" THEN ""
  ELSE IF adapter.provider \in Chat THEN ChatAuthorize ELSE CloudAuthorize

\* The refusals every chat endpoint shares.
ChatErrors(status, body) ==
  IF status \in {401, 403} THEN Error("authentication_failed", FALSE)
  ELSE IF status = 429 THEN Error("rate_limited", FALSE)
  ELSE IF status = 404 THEN Error("model_not_found", FALSE)
  ELSE Error(IF status < 500 /\ body = "context" THEN "context_overflow" ELSE "http",
             status < 500 /\ request.context # <<>>)

\* The refused request carried the field its refusal names.
ThinkingRejected(status, body) ==
  /\ status \in {400, 422} /\ body = "thinking"
  /\ adapter.provider = "deepseek_chat" /\ sent[Len(sent)].thinking

OpenAiErrors(status, body) ==
  IF ThinkingRejected(status, body) THEN Error("thinking", FALSE)
  ELSE IF status = 400 /\ body = "key" THEN Error("authentication_failed", FALSE)
  ELSE IF status = 400 /\ body = "stream_options" THEN Error("bad_request", FALSE)
  ELSE ChatErrors(status, body)

QwenErrors(status) ==
  IF status \in {401, 403} THEN Error("authentication_failed", FALSE)
  ELSE IF status = 429 THEN Error("rate_limited", FALSE)
  ELSE Error("http", FALSE)

HyMtErrors(status, body) ==
  Error(IF body = "context" THEN "context_overflow" ELSE "http", status < 500 /\ request.context # <<>>)

DeepLErrors(status, body) ==
  LET context == DeepLPayload(request).background # <<>> \/ request.topic > 0
  IN CASE status \in {401, 403} -> Error("authentication_failed", FALSE)
       [] status \in {429, 456, 529} -> Error("rate_limited", FALSE)
       [] status = 400 -> Error("bad_request", body # "language" /\ context)
       [] status = 413 -> Error("request_too_large", context)
       [] status = 404 -> Error("not_found", FALSE)
       [] OTHER -> Error("http", FALSE)

GoogleErrors(status, body) ==
  CASE status \in {401, 403} \/ (status = 400 /\ body = "key") -> Error("authentication_failed", FALSE)
    [] status = 429 -> Error("rate_limited", FALSE)
    [] status = 400 /\ body # "key" -> Error("bad_request", FALSE)
    [] status = 413 -> Error("request_too_large", FALSE)
    [] OTHER -> Error("http", FALSE)

AzureErrors(status, body) ==
  CASE status \in {401, 403} -> Error("authentication_failed", FALSE)
    [] status = 429 -> Error("rate_limited", FALSE)
    [] status = 413 \/ (status = 400 /\ body = "context") -> Error("request_too_large", FALSE)
    [] status = 400 /\ body # "context" -> Error("bad_request", FALSE)
    [] status = 404 -> Error("not_found", FALSE)
    [] status = 408 -> Error("provider_timeout", FALSE)
    [] OTHER -> Error("http", FALSE)

Errors(status, body) ==
  CASE adapter.provider \in Chat -> OpenAiErrors(status, body)
    [] adapter.provider = "qwen_cloud" -> QwenErrors(status)
    [] adapter.provider = "hymt_local" -> HyMtErrors(status, body)
    [] adapter.provider = "deepl" -> DeepLErrors(status, body)
    [] adapter.provider = "google_translate" -> GoogleErrors(status, body)
    [] adapter.provider = "azure_translator" -> AzureErrors(status, body)

(****************************** the answer *********************************)

LTrim(t) == LET kept == {i \in DOMAIN t : t[i] # " "} IN IF kept = {} THEN <<>> ELSE SubSeq(t, Min(kept), Len(t))
Trim(t) == Reverse(LTrim(Reverse(LTrim(t))))

\* A label the model put before its answer, with the space after it.
StripLabel(t) == LET u == LTrim(t) IN IF u # <<>> /\ u[1] = "L" THEN LTrim(Tail(u)) ELSE u
\* Quotes around the whole answer.
StripQuotes(t) ==
  LET u == Trim(t)
      inner == SubSeq(u, 2, Len(u) - 1)
  IN IF Len(u) > 2 /\ u[1] = "q" /\ u[Len(u)] = "q" /\ "q" \notin Range(inner) THEN Trim(inner) ELSE u
\* Mutant: space at the end is dropped after every delta.
ChatTrimmed(t) == StripQuotes(StripLabel(t))
\* Space at the end is kept: the next delta may begin a word.
ChatCleaned(t) ==
  LET u == StripLabel(t) IN IF StripQuotes(u) = Trim(u) THEN LTrim(u) ELSE StripQuotes(u)
Cleaned(t) ==
  CASE adapter.provider \in Chat -> ChatCleaned(t)
    [] adapter.provider = "hymt_local" -> StripLabel(t)
    [] OTHER -> t

\* The length of the shortest unit that ends the text several times, 0 for none.
RepeatedTail(t) ==
  LET u == Reverse(LTrim(Reverse(t)))
      Repeated(n) == /\ n * Repeats <= Len(u)
                     /\ \A i \in 1..n * (Repeats - 1) : u[Len(u) - i + 1] = u[Len(u) - i + 1 - n]
      units == {n \in 2..MaxUnit : Repeated(n)}
  IN IF units = {} THEN 0 ELSE Min(units)

\* The text kept and why the stream is ended, "" to go on.
Guard(t, limit) ==
  LET unit == RepeatedTail(t)
      u == Reverse(LTrim(Reverse(t)))
  IN IF unit > 0 THEN [text |-> Reverse(LTrim(Reverse(SubSeq(u, 1, Len(u) - unit * (Repeats - 1))))), stop |-> "repetition"]
     ELSE [text |-> t, stop |-> IF Len(t) > limit THEN "length" ELSE ""]
Guarded(t) ==
  CASE adapter.provider \in Chat -> Guard(t, ChatLimit)
    [] adapter.provider = "hymt_local" -> Guard(t, HyMtLimit)
    [] OTHER -> [text |-> t, stop |-> ""]

\* Deltas follow each other, or each brings the whole answer again.
Accumulated(t, piece) == IF adapter.replaces THEN received \o piece ELSE t \o piece

(****************************** the actions ********************************)

Event(kind, t, truncated, reason) == [kind |-> kind, text |-> t, truncated |-> truncated, reason |-> reason]
NoEvent == Event("none", <<>>, FALSE, "")
NoAdapter == [provider |-> "hymt_local", consent |-> FALSE, key |-> FALSE, url |-> TRUE, replaces |-> FALSE,
              thinking |-> FALSE, refused |-> FALSE]
NoRequest == [context |-> <<>>, topic |-> 0, committed |-> TRUE, blank |-> FALSE, attempt |-> 1,
              dropped |-> FALSE, resent |-> FALSE]

Init ==
  /\ adapter = NoAdapter /\ request = NoRequest /\ sent = <<>> /\ received = <<>> /\ text = <<>>
  /\ shown = NoEvent /\ error = NoError /\ phase = "new" /\ requests = 0

\* An adapter is built; deepseek's requests turn reasoning off.
Open(a, r) ==
  /\ phase = "new"
  /\ adapter' = [a EXCEPT !.thinking = (a.provider = "deepseek_chat")]
  /\ request' = r /\ requests' = 1 /\ phase' = "ready"
  /\ UNCHANGED <<sent, received, text, shown, error>>

Fail(e, status, body) ==
  /\ error' = [code |-> e.code, retry |-> e.retry, status |-> status, body |-> body]
  /\ phase' = "failed"

\* Nothing is sent of a blank text to an API.
AnswerBlank ==
  /\ phase = "ready" /\ Authorize = "" /\ request.blank /\ adapter.provider \in Rest
  /\ shown' = Event("final", <<>>, FALSE, "stop") /\ phase' = "done"
  /\ UNCHANGED <<adapter, request, sent, received, text, error, requests>>

Deny ==
  /\ phase = "ready" /\ Authorize # ""
  /\ Fail(Error(Authorize, FALSE), 0, "")
  /\ UNCHANGED <<adapter, request, sent, received, text, shown, requests>>

Ask ==
  /\ phase = "ready" /\ Authorize = "" /\ ~(request.blank /\ adapter.provider \in Rest)
  /\ sent' = Append(sent, Payload(request))
  /\ received' = <<>> /\ text' = <<>> /\ phase' = "asked"
  /\ UNCHANGED <<adapter, request, shown, error, requests>>

\* The request whose field was refused is sent again at once, without it.
RefuseThinking(status, body) ==
  /\ phase = "asked" /\ received = <<>> /\ ThinkingRejected(status, body)
  /\ adapter' = [adapter EXCEPT !.thinking = FALSE, !.refused = TRUE]
  /\ IF request.resent THEN Fail(Errors(status, body), status, body) /\ UNCHANGED request
     ELSE phase' = "ready" /\ request' = [request EXCEPT !.resent = TRUE] /\ UNCHANGED error
  /\ UNCHANGED <<sent, received, text, shown, requests>>

Refuse(status, body) ==
  /\ phase = "asked" /\ received = <<>> /\ ~ThinkingRejected(status, body)
  /\ Fail(Errors(status, body), status, body)
  /\ UNCHANGED <<adapter, request, sent, received, text, shown, requests>>

\* A delta is shown unless it ends the stream.
Delta(piece) ==
  /\ phase = "asked" /\ adapter.provider \in Streams /\ Len(received) + Len(piece) <= MaxTokens
  /\ received' = received \o piece
  /\ LET g == Guarded(Cleaned(Accumulated(text, piece))) IN
       /\ text' = g.text
       /\ IF g.stop = ""
            THEN shown' = Event("partial", g.text, FALSE, "") /\ UNCHANGED phase
            ELSE shown' = Event("final", Trim(g.text), TRUE, g.stop) /\ phase' = "done"
  /\ error' = NoError
  /\ UNCHANGED <<adapter, request, sent, requests>>

\* The end of the stream, whether the provider gave a reason or not, and the timeout of the request.
EndStream(reason) ==
  /\ phase = "asked" /\ adapter.provider \in Streams
  /\ shown' = Event("final", Trim(text), reason \in {"timeout", "length"}, reason)
  /\ phase' = "done" /\ error' = NoError
  /\ UNCHANGED <<adapter, request, sent, received, text, requests>>

\* The answer of an API; DeepL's is never empty.
Answer(piece) ==
  /\ phase = "asked" /\ adapter.provider \in Rest
  /\ received' = piece /\ text' = piece
  /\ IF piece = <<>> /\ adapter.provider = "deepl"
       THEN Fail(Error("empty_response", FALSE), 200, "") /\ UNCHANGED shown
       ELSE shown' = Event("final", Trim(piece), FALSE, "stop") /\ phase' = "done" /\ error' = NoError
  /\ UNCHANGED <<adapter, request, sent, requests>>

\* The connection breaks; an API also fails by its timeout and by an answer without a translation.
Break ==
  /\ phase = "asked"
  /\ \/ Fail(Error("network_error", FALSE), 0, "")
     \/ adapter.provider \in Rest /\ Fail(Error("provider_timeout", FALSE), 0, "")
     \/ adapter.provider \in Rest /\ \E code \in {"invalid_response", "empty_response"} : Fail(Error(code, FALSE), 200, "")
  /\ UNCHANGED <<adapter, request, sent, received, text, shown, requests>>

\* The scheduler repeats a committed text once, without its context if the error says so.
Retry ==
  /\ phase = "failed" /\ request.committed /\ request.attempt = 1
  /\ request' = [request EXCEPT !.attempt = 2, !.dropped = error.retry, !.resent = FALSE,
                                !.context = IF error.retry THEN <<>> ELSE @,
                                !.topic = IF error.retry THEN 0 ELSE @]
  /\ phase' = "ready"
  /\ UNCHANGED <<adapter, sent, received, text, shown, error, requests>>

\* The next request of the session's adapter.
NextRequest(r) ==
  /\ phase = "done" \/ (phase = "failed" /\ ~(request.committed /\ request.attempt = 1))
  /\ requests < MaxRequests
  /\ requests' = requests + 1 /\ request' = r /\ phase' = "ready"
  /\ sent' = <<>> /\ received' = <<>> /\ text' = <<>> /\ shown' = NoEvent /\ error' = NoError
  /\ UNCHANGED adapter

Statuses == {400, 401, 403, 404, 408, 413, 422, 429, 456, 500, 529}
Bodies == {"", "context", "thinking", "key", "stream_options", "language"}
Next ==
  \/ \E case \in Cases : Open(case[1], case[2])
  \/ AnswerBlank \/ Deny \/ Ask \/ Break \/ Retry
  \/ \E status \in Statuses, body \in Bodies : RefuseThinking(status, body) \/ Refuse(status, body)
  \/ \E piece \in Pieces : Delta(piece)
  \/ \E piece \in Pieces \cup {<<>>} : Answer(piece)
  \/ \E reason \in {"stop", "length", "timeout"} : EndStream(reason)
  \/ \E case \in Cases : case[1].provider = adapter.provider /\ NextRequest(case[2])

Spec == Init /\ [][Next]_vars

(***************************** properties **********************************)

TypeOK ==
  /\ adapter.provider \in Streams \cup Rest
  /\ phase \in {"new", "ready", "asked", "done", "failed"} /\ requests \in 0..MaxRequests
  /\ shown.kind \in {"none", "partial", "final"} /\ Len(sent) <= 3 /\ Len(received) <= MaxTokens

\* Text leaves the computer only with consent, and target text only for Qwen's translation memory.
NothingWithoutConsent ==
  sent # <<>> => /\ adapter.consent \/ adapter.provider = "hymt_local"
                 /\ adapter.provider # "qwen_cloud" => \A i \in DOMAIN sent : sent[i].memory = <<>>

\* The earlier sentences of a prompt are the newest ones, in their order and within the budget.
BackgroundIsRecent ==
  \A i \in DOMAIN sent :
    /\ IsSuffix(sent[i].background, SelectSeq(request.context, LAMBDA size : size > 0))
       \/ request.dropped
    /\ FoldLeft(LAMBDA n, size : n + size, 0, sent[i].background) <= MaxChars
    /\ Len(sent[i].background) <= Spans /\ Len(sent[i].memory) <= MaxMemory
    /\ IsSuffix(sent[i].memory, request.context) \/ request.dropped

\* A refusal for the text of a request is not answered by the same earlier sentences.
RefusedContextIsDropped ==
  LET n == Len(sent) IN
  /\ n > 1 /\ request.attempt = 2 /\ phase = "asked" /\ received = <<>>
  /\ sent[n - 1].background # <<>>
  /\ error.status \in {400, 413} \/ (error.status = 422 /\ adapter.provider # "deepl")
  /\ error.body \in {"", "context"}
  => sent[n].background = <<>> /\ sent[n].topic = 0

\* A refused key or quota is told apart from a refused text.
KeyAndQuotaAreNamed ==
  /\ error.status \in {401, 403} /\ adapter.provider # "hymt_local" => error.code = "authentication_failed"
  /\ error.status = 429 /\ adapter.provider # "hymt_local" => error.code = "rate_limited"
  /\ error.code \in {"authentication_failed", "rate_limited"} => ~error.retry

\* An endpoint that does not know the reasoning field costs no translation and is not sent it again.
ThinkingIsDropped ==
  /\ phase = "failed" => error.code # "thinking"
  /\ adapter.refused /\ phase = "asked" => ~sent[Len(sent)].thinking

HasQuotes(t) == "q" \in Range(t)
Letters(t) == SelectSeq(t, LAMBDA c : c \in {"a", "b"})
Labels(t) == Len(SelectSeq(t, LAMBDA c : c = "L"))
\* However the answer is cut into deltas, the text is the answer without its label; quotes alone may be lost,
\* and a second label that follows the first.
TextIsTheAnswer ==
  /\ phase \in {"asked", "done"} /\ shown.reason # "repetition" /\ received # <<>>
  => /\ Letters(text) = Letters(received)
     /\ ~HasQuotes(received) /\ Labels(received) < 2 => text = Cleaned(received)

\* The final text is the one shown last, and marked when the answer was cut short.
FinalIsShown ==
  phase = "done" =>
    /\ shown.kind = "final" /\ shown.text = Trim(text)
    /\ shown.truncated = (shown.reason \in {"timeout", "length", "repetition"})
    /\ shown.reason = "repetition" => RepeatedTail(text) = 0
=============================================================================
