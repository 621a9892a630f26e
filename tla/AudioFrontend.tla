---------------------------- MODULE AudioFrontend ----------------------------
(***************************************************************************)
(* Captured frames on their way to the recognizer: InputRateAdapter        *)
(* (service/session.py), the 10 ms blocks of WebRtcProcessor               *)
(* (enhancement.py), StreamingResampler (resample.py), the chunks of the   *)
(* pipeline (pipeline.py) and LectureSpeechPolicy (streaming.py).          *)
(* Samples are counted: every stage passes them on in order.               *)
(***************************************************************************)
EXTENDS Integers, Sequences, SequencesExt, FiniteSets, FiniteSetsExt

CONSTANTS
  FrameSizes, MaxFrames,      \* samples of a frame; bound: frames of a session
  AdapterRatio, AsrRatio,     \* <<output, input>> rates of the two resamplers
  Delay,                      \* samples the converter may be behind
  Block,                      \* samples of a 10 ms block
  MinSpeech, MinSilence       \* min_speech_ms, min_silence_ms in frames

VARIABLES
  opt,       \* the stages this device's rate and the profile call for
  phase,     \* "new", "open", "finished"
  captured,  \* frames and samples accepted from the capture
  adapter,   \* InputRateAdapter: its resampler and the metadata of one frame
  blocks,    \* WebRtcProcessor._pending
  rate,      \* the resampler to 16 kHz
  chunks,    \* pushed to the recognizer: label, first and last sample
  policy     \* LectureSpeechPolicy, and how long it lasted

vars == <<opt, phase, captured, adapter, blocks, rate, chunks, policy>>

Resampler == [pending |-> 0, in |-> 0, out |-> 0]
NoLabel == -2  \* no metadata
TailLabel == -1  \* sequence of the last chunk

Init ==
  /\ opt = [adapts |-> FALSE, webrtc |-> FALSE, identity |-> FALSE] /\ phase = "new"
  /\ captured = [frames |-> 0, samples |-> 0]
  /\ adapter = [resampler |-> Resampler, label |-> NoLabel] /\ blocks = 0 /\ rate = Resampler
  /\ chunks = <<>>
  /\ policy = [speaking |-> FALSE, speech |-> 0, silence |-> 0, loud |-> 0, low |-> 0]

\* create: the adapter when WebRTC does not take the rate.
Open ==
  /\ phase = "new" /\ phase' = "open"
  /\ \E adapts, webrtc, identity \in BOOLEAN :
       /\ adapts => ~identity
       /\ opt' = [adapts |-> adapts, webrtc |-> webrtc, identity |-> identity]
  /\ UNCHANGED <<captured, adapter, blocks, rate, chunks, policy>>
----------------------------------------------------------------------------
(* StreamingResampler.process: the results it may give for n samples.      *)

\* round(n * ratio), half to even.
Rounded(n, ratio) ==
  LET twice == 2 * n * ratio[1] + ratio[2]
      floor == twice \div (2 * ratio[2])
  IN IF twice % (2 * ratio[2]) = 0 /\ floor % 2 = 1 THEN floor - 1 ELSE floor

\* What the converter may give for what is pending: it is behind by a few samples.
Converted(r, ratio) ==
  LET limit == (r.in * ratio[1]) \div ratio[2]
  IN {k \in 0..limit : r.out + k <= limit /\ (r.out + k >= limit - Delay)}

\* Mutant: the flush does not fill up the duration.
FinalizedShort(r, ratio) == [r |-> [r EXCEPT !.pending = 0], n |-> 0]

\* _finalize pads and trims to the exact duration.
Finalized(r, ratio) ==
  LET needed == Max({0, Rounded(r.in, ratio) - r.out})
  IN [r |-> [r EXCEPT !.pending = 0, !.out = @ + needed], n |-> needed]

\* One buffer stays pending; the one before it is converted.
Process(r, n, ratio, end) ==
  LET fed == [r EXCEPT !.in = @ + n, !.pending = n] IN
  IF n > 0 /\ r.pending = 0 THEN IF end THEN {Finalized(fed, ratio)} ELSE {[r |-> fed, n |-> 0]}
  ELSE IF n > 0
  THEN {LET first == [fed EXCEPT !.out = @ + k]  rest == Finalized(first, ratio)
        IN IF end THEN [r |-> rest.r, n |-> k + rest.n] ELSE [r |-> first, n |-> k] :
          k \in Converted(r, ratio)}
  ELSE IF end /\ r.pending > 0 THEN {Finalized(r, ratio)} ELSE {[r |-> r, n |-> 0]}

ToAsr(n, end) ==
  IF opt.identity THEN {[r |-> [rate EXCEPT !.in = @ + n, !.out = @ + n], n |-> n]}
  ELSE Process(rate, n, AsrRatio, end)
----------------------------------------------------------------------------
(* WebRtcProcessor.process: whole blocks; the remainder waits.             *)

Whole(n) == IF opt.webrtc THEN ((blocks + n) \div Block) * Block ELSE n
Rest(n) == IF opt.webrtc THEN (blocks + n) % Block ELSE 0

Pushed == IF chunks = <<>> THEN 0 ELSE Last(chunks).end
Chunk(label, n) == [label |-> label, start |-> Pushed, end |-> Pushed + n]
----------------------------------------------------------------------------
(* LectureSpeechPolicy.observe of a frame above the start threshold, above *)
(* the continue threshold, or below both.                                  *)

Observe(p, heard) ==
  IF p.speaking
  THEN IF heard # "low" THEN [p EXCEPT !.silence = 0]
       ELSE IF p.silence + 1 >= MinSilence
       THEN [p EXCEPT !.silence = @ + 1, !.speaking = FALSE, !.speech = 0]
       ELSE [p EXCEPT !.silence = @ + 1]
  ELSE IF heard = "high"
  THEN IF p.speech + 1 >= MinSpeech
       THEN [p EXCEPT !.speech = @ + 1, !.speaking = TRUE, !.silence = 0]
       ELSE [p EXCEPT !.speech = @ + 1]
  ELSE [p EXCEPT !.speech = 0]

\* loud and low: the frames in a row up to this one that could start or end speech.
Heard(heard) ==
  LET next == Observe(policy, heard) IN
  [next EXCEPT !.loud = IF heard = "high" THEN @ + 1 ELSE 0,
               !.low = IF heard = "low" THEN @ + 1 ELSE 0]
----------------------------------------------------------------------------
\* push_frame: process_frame and a chunk, empty or not.
PushFrame(label, n, heard) ==
  /\ \E step \in ToAsr(Whole(n), FALSE) :
       rate' = step.r /\ chunks' = Append(chunks, Chunk(label, step.n))
  /\ blocks' = Rest(n) /\ policy' = Heard(heard)

\* push: the adapter is a frame behind, and gives the metadata of that frame.
Push(n, heard) ==
  /\ phase = "open" /\ captured.frames < MaxFrames
  /\ captured' = [frames |-> captured.frames + 1, samples |-> captured.samples + n]
  /\ IF ~opt.adapts THEN PushFrame(captured'.frames, n, heard) /\ UNCHANGED adapter
     ELSE \E step \in Process(adapter.resampler, n, AdapterRatio, FALSE) :
            /\ adapter' = [resampler |-> step.r, label |-> captured'.frames]
            /\ IF adapter.label = NoLabel \/ step.n = 0 THEN UNCHANGED <<blocks, rate, chunks, policy>>
               ELSE PushFrame(adapter.label, step.n, heard)
  /\ UNCHANGED <<opt, phase>>

\* InputRateAdapter.finish, whose frame goes the way of the others.
FinishAdapter(heard) ==
  /\ phase = "open" /\ opt.adapts /\ adapter.label # NoLabel
  /\ \E step \in Process(adapter.resampler, 0, AdapterRatio, TRUE) :
       /\ adapter' = [resampler |-> step.r, label |-> NoLabel]
       /\ IF step.n = 0 THEN UNCHANGED <<blocks, rate, chunks, policy>>
          ELSE PushFrame(adapter.label, step.n, heard)
  /\ phase' = "flushing" /\ UNCHANGED <<opt, captured>>

\* finish of the pipeline: the remainder of a block and the tail of the resampler.
FinishPipeline ==
  /\ phase = "flushing" \/ (phase = "open" /\ (~opt.adapts \/ adapter.label = NoLabel))
  /\ \E step \in ToAsr(blocks, TRUE) :
       /\ rate' = step.r
       /\ chunks' = IF step.n = 0 THEN chunks ELSE Append(chunks, Chunk(TailLabel, step.n))
  /\ blocks' = 0 /\ phase' = "finished" /\ UNCHANGED <<opt, captured, adapter, policy>>

Next ==
  \/ Open \/ FinishPipeline
  \/ \E n \in FrameSizes, heard \in {"high", "mid", "low"} : Push(n, heard)
  \/ \E heard \in {"high", "low"} : FinishAdapter(heard)

Spec == Init /\ [][Next]_vars
----------------------------------------------------------------------------
Adapted == IF opt.adapts THEN Rounded(captured.samples, AdapterRatio) ELSE captured.samples
Expected == IF opt.identity THEN Adapted ELSE Rounded(Adapted, AsrRatio)

(* "every resampled frame is forwarded": a finished session has sent the   *)
(* recognizer exactly the duration it captured, whatever the sizes of the  *)
(* frames and however far the converters were behind.                      *)
NothingIsLost == phase = "finished" => Pushed = Expected

(* What is not sent yet is bounded: a frame for each resampler, a block    *)
(* and what the converters are behind.                                     *)
LagIsBounded ==
  LET frame == Rounded(Max(FrameSizes), AdapterRatio) + 1
      held == 2 * frame + 2 * Delay + Block
  IN phase = "open" => Expected - Pushed <= held

(* A chunk carries the label of its own frame: labels follow the capture,  *)
(* none twice, and the audio of a frame is at most one frame late.         *)
LabelsFollowTheCapture ==
  /\ \A i \in 1..Len(chunks) - 1 : chunks[i].label # TailLabel /\ (chunks[i + 1].label # TailLabel => chunks[i].label < chunks[i + 1].label)
  /\ chunks # <<>> /\ phase = "open" => captured.frames - Last(chunks).label \in 0..(IF opt.adapts THEN 2 ELSE 0)

(* Speech starts only after enough loud frames in a row and ends only      *)
(* after enough low ones: a pause or a noise does not toggle it.           *)
SpeechIsHeld ==
  [][policy'.speaking # policy.speaking =>
       IF policy'.speaking THEN policy'.loud >= MinSpeech ELSE policy'.low >= MinSilence]_vars
=============================================================================
