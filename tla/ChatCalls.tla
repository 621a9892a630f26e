------------------------------ MODULE ChatCalls ------------------------------
(***************************************************************************)
(* ChatClient (assistant/llm.py): the calls of one OpenAI-compatible       *)
(* endpoint by one task.  Optional request fields are dropped when the     *)
(* endpoint refuses them, a text stopped at the output limit is continued, *)
(* and the head of a continuation is compared with what was written.       *)
(* The model's text is 1, 2, 3, ..: a number is a character in its place.  *)
(***************************************************************************)
EXTENDS Naturals, Sequences, SequencesExt, FiniteSets

CONSTANTS
  MaxCalls, MaxChunk,       \* bounds: calls of a client, characters of a chunk
  TextLength,               \* bound: what the model has to say
  MaxAttempts,              \* MAX_REQUEST_ATTEMPTS
  MaxContinuations,         \* MAX_CONTINUATIONS
  MinOverlap, OverlapWindow \* trim_overlap; a continuation is held back as long

VARIABLES
  client,  \* the fields the client still sends, and what the endpoint refuses
  call,    \* the call under way
  calls    \* calls made

vars == <<client, call, calls>>

Optional == {"stream_options", "thinking", "temperature"}
TokenFields == {"max_tokens", "max_completion_tokens"}
\* What an endpoint may refuse: an optional field, max_tokens, more than 4096 tokens, a
\* request that is too long for the model.
Refusable == Optional \cup {"max_tokens", "large", "context"}
Errors == {"none", "authentication", "rate_limit", "context_too_long", "content_filtered",
           "provider_error", "network"}

NoCall == [kind |-> "none", phase |-> "idle", thinkingOff |-> FALSE, attempt |-> 0, asked |-> FALSE,
           large |-> FALSE, sent |-> {}, cont |-> 0, from |-> 1, at |-> 0, pending |-> <<>>,
           dedupe |-> FALSE, segment |-> <<>>, before |-> <<>>, text |-> <<>>, finish |-> "none",
           billed |-> 0, blamed |-> FALSE, error |-> "none"]

Characters == 1..TextLength
TypeOK ==
  /\ client.open \in BOOLEAN /\ client.fields \subseteq Optional /\ client.tokens \in TokenFields
  /\ client.refuses \subseteq Refusable /\ client.refused \subseteq Optional \cup {"max_tokens"}
  /\ calls \in 0..MaxCalls
  /\ call.kind \in {"none", "stream", "complete"}
  /\ call.phase \in {"idle", "request", "streaming", "over"}
  /\ call.attempt \in 0..MaxAttempts - 1 /\ call.cont \in 0..MaxContinuations
  /\ call.sent \subseteq Optional \cup TokenFields
  /\ {call.pending, call.segment, call.before, call.text} \subseteq Seq(Characters)
  /\ call.from \in 1..TextLength + 1 /\ call.at \in 0..TextLength
  /\ call.billed \in 0..MaxContinuations + 1 /\ call.error \in Errors

Init ==
  /\ client = [open |-> FALSE, fields |-> Optional, tokens |-> "max_tokens", refuses |-> {}, refused |-> {}]
  /\ call = NoCall /\ calls = 0
----------------------------------------------------------------------------
(* payload and the refusals.                                               *)

\* The provider decides which fields there are at all.
Connect ==
  /\ ~client.open /\ UNCHANGED <<call, calls>>
  /\ \E fields \in SUBSET Optional, refuses \in SUBSET Refusable :
       /\ "temperature" \in fields /\ refuses \cap Optional \subseteq fields
       /\ ~ {"large", "context"} \subseteq refuses
       /\ client' = [client EXCEPT !.open = TRUE, !.fields = fields, !.refuses = refuses]

Payload(sender, next) ==
  {sender.tokens} \cup {field \in sender.fields :
     CASE field = "stream_options" -> next.kind = "stream"
       [] field = "thinking" -> next.thinkingOff
       [] OTHER -> TRUE}

Requested(next) == [next EXCEPT !.phase = "request", !.sent = Payload(client, next)]

\* _adjust_for_rejection of an answer that names a field: what is sent instead, if anything.
\* One that is too long names max_tokens, too.
Adjusted(field) ==
  IF field \in Optional \cap call.sent
  THEN {[fields |-> client.fields \ {field}, tokens |-> client.tokens, large |-> call.large]}
  ELSE IF field = "max_tokens" /\ client.tokens = "max_tokens"
  THEN {[fields |-> client.fields, tokens |-> "max_completion_tokens", large |-> call.large]}
  ELSE IF field \in {"large", "context"} /\ call.large
  THEN {[fields |-> client.fields, tokens |-> client.tokens, large |-> FALSE]}
  ELSE {}

\* Why an endpoint that refuses some fields refuses this request: 400 or 422.
Refusals ==
  (client.refuses \cap (call.sent \cup {"context"}))
    \cup (IF call.large THEN client.refuses \cap {"large"} ELSE {})

Over(error) ==
  [call EXCEPT !.phase = "over", !.error = error, !.sent = {}, !.large = FALSE, !.attempt = 0,
               !.pending = <<>>, !.segment = <<>>, !.before = <<>>, !.dedupe = FALSE]

\* _status_error, of a status no field is to blame for.
StatusError(status, wording) ==
  CASE status \in {401, 403} \/ (status = 400 /\ wording = "key") -> "authentication"
    [] status = 429 -> "rate_limit"
    [] status \in {400, 413, 422} /\ wording = "context" -> "context_too_long"
    [] status = 400 /\ wording = "filter" -> "content_filtered"
    [] OTHER -> "provider_error"

Refused(field) ==
  /\ call.phase = "request" /\ field \in Refusals /\ UNCHANGED calls
  /\ IF call.attempt + 1 < MaxAttempts /\ Adjusted(field) # {}
     THEN \E next \in Adjusted(field) :
            LET changed == [client EXCEPT !.fields = next.fields, !.tokens = next.tokens,
                                          !.refused = @ \cup ({field} \ {"large", "context"})]
                now == [call EXCEPT !.attempt = @ + 1, !.large = next.large]
            IN /\ client' = changed
               /\ call' = [now EXCEPT !.sent = Payload(changed, now)]
     ELSE /\ call' = [Over(StatusError(400, field)) EXCEPT !.blamed = TRUE]
          /\ UNCHANGED client

Answerable == {<<401, "">>, <<403, "">>, <<429, "">>, <<400, "key">>, <<413, "context">>,
               <<400, "filter">>, <<404, "">>, <<500, "">>}

RequestFails ==
  /\ call.phase = "request" /\ UNCHANGED <<client, calls>>
  /\ \/ \E answer \in Answerable : call' = Over(StatusError(answer[1], answer[2]))
     \/ call' = Over("network")

----------------------------------------------------------------------------
(* The calls.                                                              *)

StartCall(kind, thinkingOff, large) ==
  /\ client.open /\ call.phase = "idle" /\ (kind = "complete" => thinkingOff)
  /\ calls < MaxCalls /\ calls' = calls + 1
  /\ call' = Requested([NoCall EXCEPT !.kind = kind, !.thinkingOff = thinkingOff,
                                    !.asked = large, !.large = large])
  /\ UNCHANGED client

Accepted ==
  /\ call.phase = "request" /\ Refusals = {} /\ UNCHANGED <<client, calls>>
  /\ call' = [call EXCEPT !.phase = "streaming", !.finish = "none"]

\* complete: the whole answer at once, its reasoning removed.
CompleteAnswers ==
  /\ call.phase = "streaming" /\ call.kind = "complete" /\ UNCHANGED <<client, calls>>
  /\ \/ \E n \in {0, TextLength}, finish \in {"stop", "length"} :
          call' = [Over("none") EXCEPT !.text = [i \in 1..n |-> i], !.at = n,
                               !.finish = finish, !.billed = 1]
     \/ call' = Over("provider_error")

Interval(a, n) == [i \in 1..n |-> a + i - 1]

\* The longest head, of at least MinOverlap, that the tail of the written text ends with.
Overlaps(written, head) ==
  {n \in MinOverlap..OverlapWindow : n <= Len(head) /\ IsSuffix(SubSeq(head, 1, n),
     SubSeq(written, (IF Len(written) > OverlapWindow THEN Len(written) - OverlapWindow + 1 ELSE 1), Len(written)))}
\* Mutant: what a continuation restates is written again.
TrimNothing(written, head) == head

TrimOverlap(written, head) ==
  LET sizes == Overlaps(written, head)
  IN IF sizes = {} THEN head
     ELSE SubSeq(head, (CHOOSE n \in sizes : \A k \in sizes : k <= n) + 1, Len(head))

Yields(next, text) == [next EXCEPT !.segment = @ \o text, !.text = @ \o text]

\* The head of a continuation is held back until it can be compared.
Takes(text) ==
  IF ~call.dedupe THEN Yields(call, text)
  ELSE IF Len(call.pending \o text) < OverlapWindow THEN [call EXCEPT !.pending = @ \o text]
  ELSE Yields([call EXCEPT !.pending = <<>>, !.dedupe = FALSE],
              TrimOverlap(call.before, call.pending \o text))

Chunk(n) ==
  /\ call.phase = "streaming" /\ call.kind = "stream" /\ UNCHANGED <<client, calls>>
  /\ call.from + n - 1 <= TextLength
  /\ call' = [Takes(Interval(call.from, n)) EXCEPT !.from = @ + n,
                !.at = IF call.from + n - 1 > @ THEN call.from + n - 1 ELSE @]

ReleasedNever == [call EXCEPT !.pending = <<>>]

\* What was held back is released with the end of the stream.
Released ==
  IF call.pending = <<>> THEN call
  ELSE Yields([call EXCEPT !.pending = <<>>], TrimOverlap(call.before, call.pending))

\* A continuation may restate a part of the tail: none, or one that can be told from chance.
Restated(at) == {0} \cup {n \in MinOverlap..OverlapWindow : n <= at}

CanContinue(next) == next.finish = "length" /\ next.cont < MaxContinuations /\ next.segment # <<>>

\* The model does not stop while it restates.
StreamEnds(finish) ==
  /\ call.phase = "streaming" /\ call.kind = "stream" /\ call.from > call.at
  /\ UNCHANGED <<client, calls>>
  /\ LET ended == [Released EXCEPT !.finish = finish, !.billed = @ + 1]
     IN IF CanContinue(ended)
        THEN \E n \in Restated(ended.at) :
               call' = Requested([ended EXCEPT !.cont = @ + 1, !.attempt = 0, !.large = ended.asked,
                         !.before = ended.text, !.segment = <<>>, !.dedupe = TRUE,
                         !.from = ended.at + 1 - n])
        ELSE call' = [ended EXCEPT !.phase = "over"]

\* An error chunk, or the connection is lost; what was yielded stays with the caller.
StreamFails ==
  /\ call.phase = "streaming" /\ call.kind = "stream" /\ UNCHANGED <<client, calls>>
  /\ \E error \in {"provider_error", "network"} : call' = Over(error)

CallReturns ==
  call.phase = "over" /\ call' = NoCall /\ UNCHANGED <<client, calls>>
----------------------------------------------------------------------------
Streaming == (\E n \in 1..MaxChunk : Chunk(n))
Ending == \/ \E finish \in {"stop", "length"} : StreamEnds(finish)
          \/ StreamFails \/ CompleteAnswers
Requesting == (\E field \in Refusable : Refused(field)) \/ RequestFails \/ Accepted

Next ==
  \/ Connect
  \/ \E kind \in {"stream", "complete"}, thinkingOff, large \in BOOLEAN : StartCall(kind, thinkingOff, large)
  \/ Requesting \/ Streaming \/ Ending \/ CallReturns

Spec == Init /\ [][Next]_vars
----------------------------------------------------------------------------
Succeeded == call.phase = "over" /\ call.error = "none"

(* The text a task is given is what the model wrote, each character once   *)
(* and in its place, however the chunks fall and whatever a continuation   *)
(* restates, and nothing of it is held back at the end.                    *)
TextIsWhole ==
  /\ call.text = [i \in 1..Len(call.text) |-> i]
  /\ Succeeded /\ call.kind = "stream" => Len(call.text) = call.at

(* "each is dropped for the rest of this client's life": a field that was  *)
(* refused is in no later request of the client, of this call or another.  *)
NeverSentAgain == call.phase = "request" => client.refused \cap call.sent = {}

(* A client works around what an endpoint refuses, up to three things at   *)
(* once: of a field the client could leave out no call fails, and one that *)
(* is too long is reported as that, although the answer names max_tokens.  *)
RefusalsAreWorkedOut ==
  call.blamed /\ Cardinality(client.refuses) < MaxAttempts => call.error = "context_too_long"
=============================================================================
