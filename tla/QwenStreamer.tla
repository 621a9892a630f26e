----------------------------- MODULE QwenStreamer -----------------------------
(***************************************************************************)
(* The segments of the local Qwen3 recognizer (service/qwen_server.py) and *)
(* its roll policy, speech and peak timelines (qwen_segment_policy.py).    *)
(* One unit of audio is a decoder step, a frame of the timelines and a hop *)
(* of the encoder.  A text is a sequence of words and sentence marks.      *)
(***************************************************************************)
EXTENDS Naturals, Sequences, SequencesExt, FiniteSets, FiniteSetsExt

CONSTANTS
  Hypotheses,               \* what the model may decode from a segment
  MaxAudio, MaxText,        \* bounds: audio and committed text of a stream
  Ahead,                    \* right context of the encoder
  Keep,                     \* keep_seconds of the timelines
  HoldBack, Cap, MaxTail,   \* upstream: words held back, longest segment, steps kept by a roll
  MinSteps, PauseSteps,     \* pause_roll_min_steps, pause_roll_steps
  PunctSteps,               \* punct_roll_min_steps
  MinSpeech,                \* CONTEXT_GATE_MIN_SPEECH_MS
  SilenceMin, SilenceSteps, \* SILENCE_ROLL_MIN_STEPS, silence_roll_ms
  DigitalSteps              \* DIGITAL_SILENCE_ROLL_MS

VARIABLES
  opt,        \* what the stream was opened with: a context, eager rolls
  vad,        \* the speech timeline is available
  audio,      \* the samples since the last reset
  seg,        \* the active segment
  completed,  \* text of the segments that rolled
  lastRoll    \* the last roll: reason, its final text, and what confirmed it

vars == <<opt, vad, audio, seg, completed, lastRoll>>

Kinds == {"zero", "quiet", "speech"}
Mark == "."
None == <<"none">>
Prompts == {"none", "plain", "context"}

\* same: the steps decoded while the hypothesis has been what it is.
Fresh(start) ==
  [start |-> start, latched |-> FALSE, gated |-> FALSE, deferred |-> FALSE, previous |-> None,
   candidate |-> None, quiet |-> 0, committed |-> <<>>, hypothesis |-> <<>>, same |-> 0,
   prompt |-> "none", decoded |-> start]

NoRoll == [reason |-> "none", final |-> <<>>, same |-> 0, speech |-> FALSE]

Text == Seq({"a", "b", Mark})
TypeOK ==
  /\ opt \in [open : BOOLEAN, context : BOOLEAN, eager : BOOLEAN] /\ vad \in BOOLEAN
  /\ audio \in Seq(Kinds) /\ Len(audio) <= MaxAudio /\ completed \in Text
  /\ seg.start \in 0..MaxAudio /\ seg.decoded \in 0..MaxAudio /\ {seg.committed, seg.hypothesis} \subseteq Text
  /\ {seg.latched, seg.gated, seg.deferred} \subseteq BOOLEAN /\ seg.prompt \in Prompts
  /\ {seg.previous, seg.candidate} \subseteq Text \cup {None}
  \* A segment never gets longer than the cap, whatever keeps it from rolling.
  /\ seg.decoded - seg.start <= Cap

Init ==
  /\ opt = [open |-> FALSE, context |-> FALSE, eager |-> FALSE] /\ vad = TRUE
  /\ audio = <<>> /\ seg = Fresh(0) /\ completed = <<>> /\ lastRoll = NoRoll

\* The online processor has a detector only with a context, and if its model is there.
Detector(context) == IF context THEN BOOLEAN ELSE {FALSE}

\* A detector that fails on a chunk is not asked again.
Feed == vad' \in (IF vad THEN BOOLEAN ELSE {FALSE})

\* build_streamer and the attached timelines; the detector may be missing.
Open ==
  /\ ~opt.open /\ UNCHANGED <<audio, seg, completed, lastRoll>>
  /\ \E context, eager \in BOOLEAN : opt' = [open |-> TRUE, context |-> context, eager |-> eager]
  /\ vad' \in Detector(opt'.context)
----------------------------------------------------------------------------
(* The timelines.                                                          *)

FirstKept == IF Len(audio) > Keep THEN Len(audio) - Keep ELSE 0

\* Samples of a range in speech frames; what was trimmed away reads as no speech.
Speech(from, to) == {i \in from + 1..to : i > FirstKept /\ audio[i] = "speech"}
SpeechSamples(from, to) == Cardinality(Speech(from, to))
LastSpeechEnd(from, to) == Max(Speech(from, to))

\* _segment_samples: the encoder is behind the newest sample.
Encoded == IF Len(audio) > Ahead THEN Len(audio) - Ahead ELSE 0
Start == Min({seg.start, Encoded})
Steps == Encoded - Start

\* Audio that the peak timeline no longer holds is unknown, not silent.
Unheard(from) == from >= FirstKept /\ \A i \in from + 1..Len(audio) : audio[i] = "zero"
DigitalSilence == Unheard(Start)
----------------------------------------------------------------------------
(* prompt_template_token_ids                                               *)

WithPrompt(prompt, s) == [s EXCEPT !.prompt = prompt]

\* Mutant: the prompt changes behind committed words.
LatchAnyway == [seg EXCEPT !.prompt = "context", !.latched = TRUE]

\* There is speech, or no detector after the plain prompt was used.
Latch ==
  IF seg.committed # <<>> THEN WithPrompt("plain", [seg EXCEPT !.deferred = TRUE])
  ELSE WithPrompt("context", [seg EXCEPT !.latched = TRUE])

\* Mutant: speech the decoder has not received counts.
HasSpeech == SpeechSamples(Start, Len(audio)) >= MinSpeech

\* Speech that the decoder does not receive yet does not count.
HoldsSpeech == SpeechSamples(Start, Encoded) >= MinSpeech

Prompted ==
  IF ~opt.context \/ seg.latched THEN WithPrompt(IF opt.context THEN "context" ELSE "plain", seg)
  ELSE IF vad /\ ~HoldsSpeech THEN WithPrompt("plain", [seg EXCEPT !.gated = TRUE])
  ELSE IF ~vad /\ ~seg.gated THEN WithPrompt("context", seg)
  ELSE Latch
----------------------------------------------------------------------------
(* PauseRollTracker.observe and the silence roll.                          *)

EndsWithMark(text) == text # <<>> /\ Last(text) = Mark

Tracked(candidate, quiet, reason) == [candidate |-> candidate, quiet |-> quiet, reason |-> reason]

Watches(text) == Tracked(IF EndsWithMark(text) THEN text ELSE None, 0, "none")

Observe(s, text, new) ==
  IF s.candidate = None THEN Watches(text)
  ELSE IF text = s.candidate
  THEN LET quiet == s.quiet + new
       IN Tracked(text, quiet, IF quiet >= PauseSteps /\ Steps >= MinSteps THEN "pause" ELSE "none")
  ELSE IF Steps >= PunctSteps THEN Tracked(s.candidate, s.quiet, "punctuation")
  ELSE IF Steps >= MinSteps /\ IsStrictPrefix(s.candidate, text) THEN Tracked(s.candidate, s.quiet, "confirmed")
  ELSE Watches(text)

\* A latched segment went quiet, and no speech is on its way to the decoder.
SilenceRollDue(s, text) ==
  /\ s.latched /\ vad /\ text # <<>> /\ text = s.previous /\ Steps >= SilenceMin
  /\ Speech(Start, Encoded) # {} /\ Encoded - LastSpeechEnd(Start, Encoded) >= SilenceSteps
  /\ SpeechSamples(Encoded, Len(audio)) = 0
----------------------------------------------------------------------------
(* Rolls.                                                                  *)

\* strip_edge_punct; a text of nothing else is kept.
StripEdge(text) ==
  LET words == {i \in DOMAIN text : text[i] # Mark}
  IN IF words = {} THEN text ELSE SubSeq(text, 1, Max(words))

Kept(reason, text) == IF reason \in {"pause", "silence"} \/ opt.eager THEN text ELSE StripEdge(text)

\* The next segment starts where the dropped steps ended.
RollStart(tail) == IF Encoded > tail THEN Encoded - tail ELSE 0

Rolls(s, reason, text) ==
  LET final == Kept(reason, text) IN
  /\ \E tail \in 0..MaxTail : seg' = Fresh(RollStart(tail))
  /\ completed' = completed \o final
  /\ lastRoll' = [reason |-> reason, final |-> final, same |-> s.same,
                  speech |-> \E i \in Start + 1..Encoded : i > Encoded - SilenceSteps /\ audio[i] = "speech"]

\* The prefixes upstream may hold for stable: they grow and stop short of the end.
Stable(s, text) ==
  {SubSeq(text, 1, n) : n \in {n \in 0..Len(text) : n + HoldBack <= Len(text) \/ n = Len(s.committed)}}
CanHear(text) == seg.committed = <<>> \/ IsPrefix(seg.committed, text) \/ DigitalSilence

\* The hypothesis of a segment of digital silence is dropped before anything sees it.
Hypothesis(text) == IF DigitalSilence THEN <<>> ELSE text

\* A segment of nothing but digital silence rolls empty.
DigitalRollDue == DigitalSilence /\ Steps >= DigitalSteps

\* Upstream rolls at the cap, or after any mark when it is eager.
UpstreamRolls(text) == Steps >= Cap \/ (opt.eager /\ EndsWithMark(text))

\* update_from_hypothesis.
Decode(heard) ==
  LET text == Hypothesis(heard)
      new == Encoded - seg.decoded
      s == [Prompted EXCEPT !.hypothesis = text, !.decoded = Encoded,
              !.same = IF text = seg.hypothesis THEN @ + new ELSE 0]
      tracked == Observe(s, text, new)
      kept == [s EXCEPT !.previous = text, !.candidate = tracked.candidate, !.quiet = tracked.quiet]
      reason == IF tracked.reason # "none" THEN tracked.reason
                ELSE IF SilenceRollDue(s, text) THEN "silence" ELSE "none"
  IN /\ opt.open /\ Encoded > seg.decoded /\ CanHear(heard) /\ Len(completed \o text) <= MaxText
     /\ UNCHANGED <<opt, vad, audio>>
     /\ IF UpstreamRolls(text) THEN Rolls(s, IF opt.eager THEN "eager" ELSE "cap", text)
        ELSE IF DigitalRollDue THEN Rolls(s, "digital_silence", text)
        ELSE IF ~opt.eager /\ reason # "none" THEN Rolls(s, reason, text)
        ELSE /\ \E stable \in Stable(s, text) :
                  /\ IsPrefix(seg.committed, stable)
                  /\ seg' = [(IF opt.eager THEN s ELSE kept) EXCEPT !.committed = stable]
             /\ UNCHANGED <<completed, lastRoll>>
----------------------------------------------------------------------------
(* The online processor.                                                   *)

\* A decode follows before the next chunk is inserted.
Insert(kind) ==
  /\ opt.open /\ Len(audio) < MaxAudio /\ (Encoded = seg.decoded \/ Encoded = 0)
  /\ audio' = Append(audio, kind) /\ UNCHANGED <<opt, seg, completed, lastRoll>>
  /\ Feed

\* start_silence: what is left is decoded, flushed and handed over; a new streamer and
\* timelines that were reset count from 0.
StartSilence ==
  /\ opt.open /\ audio # <<>> /\ Encoded = seg.decoded
  /\ seg' = Fresh(0) /\ audio' = <<>> /\ completed' = <<>> /\ lastRoll' = NoRoll /\ UNCHANGED opt
  /\ Feed

Next ==
  \/ Open \/ StartSilence
  \/ \E kind \in Kinds : Insert(kind)
  \/ \E heard \in Hypotheses : Decode(heard)

Spec == Init /\ [][Next]_vars
----------------------------------------------------------------------------
(* "keeps each segment on the plain prompt until it holds speech": while   *)
(* there is a detector, audio is decoded under the context only when it    *)
(* holds enough speech, so that silence never becomes the context's text.  *)
ContextNeedsSpeech ==
  vad /\ opt.context /\ seg.prompt = "context" =>
    Cardinality({i \in Start + 1..seg.decoded : audio[i] = "speech"}) >= MinSpeech

(* "re-decoding the segment under another prompt could revise words that   *)
(* were already committed": while a segment lasts its prompt changes only  *)
(* before its first committed word, even when the detector fails.          *)
PromptIsKept ==
  [][seg.committed # <<>> /\ seg'.prompt # seg.prompt => seg'.prompt = "none"]_vars

(* "nothing is displayed or committed" of digital silence: the text that   *)
(* is dropped never takes back a word, and none comes out of a segment     *)
(* that so far is nothing else.                                            *)
SilenceSaysNothing == opt.open /\ DigitalSilence => seg.committed = <<>> /\ seg.hypothesis = <<>>

(* A segment of digital silence stays short, so speech starts a fresh one. *)
SilentSegmentsStayShort == DigitalSilence => seg.decoded - Start < DigitalSteps

(* "A segment now rolls on a sentence mark only once a pause confirms it": *)
(* a mark at the end of what rolled means that the hypothesis stayed while *)
(* the pause was decoded, or that a long silence followed the last speech. *)
MarksAreConfirmed ==
  EndsWithMark(lastRoll.final) /\ ~opt.eager => lastRoll.same >= PauseSteps \/ ~lastRoll.speech

(* What was shown as committed is not taken back by a roll: the text only  *)
(* grows, but for a mark that ends it.                                     *)
CommittedOnlyGrows ==
  [][audio' # <<>> => IsPrefix(StripEdge(completed \o seg.committed), completed' \o seg'.committed)]_vars
=============================================================================
