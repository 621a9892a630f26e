---------------------------- MODULE MCLocalSpeech ----------------------------
(***************************************************************************)
(* The local recognition of speech, part by part: the frames on their way  *)
(* to the recognizer, its segments, the captions made of its hypotheses,   *)
(* the alignment after the session, and the watch that ends the processes  *)
(* of it all.                                                              *)
(***************************************************************************)
EXTENDS Integers, Sequences, FiniteSets

CONSTANTS
  MaxAudio, MaxText, Ahead, Keep, HoldBack, Cap, MaxTail, MinSteps, PauseSteps, PunctSteps,
  MinSpeech, SilenceMin, SilenceSteps, DigitalSteps,
  FrameSizes, MaxFrames, Delay, Block, MinLoud, MinLow,
  MaxWords, MaxHypothesis, SentenceMin, ClauseMin, CapClauseMin, MaxTokens, CharacterHoldBack,
  Stops, Clauses, Dangling, Noise, RollsCoverPromotion, Rewrites,
  MaxSamples, MaxTexts, MaxFiles

ASSUME LocalSpeechAssumption ==
  /\ {MaxAudio, MaxText, Cap, MaxTail, MinSteps, PauseSteps, PunctSteps, MinSpeech, SilenceMin,
      SilenceSteps, DigitalSteps, MaxFrames, Block, MinLoud, MinLow, MaxSamples, MaxTexts, MaxFiles} \subseteq Nat \ {0}
  /\ {Ahead, Keep, HoldBack, Delay} \subseteq Nat /\ FrameSizes \subseteq Nat \ {0}
  /\ \E longest \in FrameSizes : \A n \in FrameSizes : n <= longest
  \* The timelines keep what the encoder has not read; short of the cap segments may roll.
  /\ Ahead < Keep /\ DigitalSteps < Cap /\ MinSteps < Cap

ASSUME UnitsAssumption ==
  /\ {MaxWords, MaxHypothesis, MaxTokens, SentenceMin, ClauseMin, CapClauseMin} \subseteq Nat \ {0}
  /\ CharacterHoldBack \in Nat /\ {RollsCoverPromotion, Rewrites} \subseteq BOOLEAN
  /\ Stops \cup Clauses \cup Dangling \cup Noise \subseteq 1..MaxWords

\* A frame is a buffer of the capture device. _finalize makes room for a converter that is 512 samples
\* behind; the one in use lags by a few dozen, less than two buffers of some milliseconds give.
ASSUME ConverterIsQuick == \A n \in FrameSizes : Delay < 3 * n

VARIABLES
  part,                                                              \* the part a behaviour is of
  opt, vad, audio, seg, completed, lastRoll,                         \* QwenStreamer
  stages, phase, captured, adapter, blocks, rate, chunks, policy,    \* AudioFrontend
  rolled, lines, segmenter, promotion, committed, session,           \* SpeechUnits
  file, crashed, files, samples, stable, final, align, updates,      \* AlignmentCapture
  host, owner, watch, kind, worker, child, stop, why                 \* ProcessWatch

Q == INSTANCE QwenStreamer WITH
  Hypotheses <- {<<>>, <<"a">>, <<"a", ".">>, <<"a", ".", "b">>, <<"a", "b">>}
F == INSTANCE AudioFrontend WITH
  opt <- stages, MinSpeech <- MinLoud, MinSilence <- MinLow,
  AdapterRatio <- <<3, 2>>, AsrRatio <- <<1, 3>>
U == INSTANCE SpeechUnits WITH HoldBack <- CharacterHoldBack
A == INSTANCE AlignmentCapture
W == INSTANCE ProcessWatch

streamerVars == <<opt, vad, audio, seg, completed, lastRoll>>
frontendVars == <<stages, phase, captured, adapter, blocks, rate, chunks, policy>>
unitsVars    == <<rolled, lines, segmenter, promotion, committed, session>>
alignVars    == <<file, crashed, files, samples, stable, final, align, updates>>
watchVars    == <<host, owner, watch, kind, worker, child, stop, why>>

Init ==
  /\ part \in {"streamer", "frontend", "units", "alignment", "watch"}
  /\ Q!Init /\ F!Init /\ U!Init /\ A!Init /\ W!Init

Next ==
  /\ part' = part
  /\ \/ part = "streamer" /\ Q!Next /\ UNCHANGED <<frontendVars, unitsVars, alignVars, watchVars>>
     \/ part = "frontend" /\ F!Next /\ UNCHANGED <<streamerVars, unitsVars, alignVars, watchVars>>
     \/ part = "units" /\ U!Next /\ UNCHANGED <<streamerVars, frontendVars, alignVars, watchVars>>
     \/ part = "alignment" /\ A!Next /\ UNCHANGED <<streamerVars, frontendVars, unitsVars, watchVars>>
     \/ part = "watch" /\ W!Next /\ UNCHANGED <<streamerVars, frontendVars, unitsVars, alignVars>>

Spec == Init /\ [][Next]_<<part, streamerVars, frontendVars, unitsVars, alignVars, watchVars>>

(* The types; a segment is decoded under the context only when it holds    *)
(* speech, says nothing of digital silence, and rolls when it is due.      *)
SegmentsAreGuarded ==
  /\ Q!TypeOK /\ Q!ContextNeedsSpeech /\ Q!SilenceSaysNothing /\ Q!SilentSegmentsStayShort
  /\ Q!MarksAreConfirmed

(* The recognizer gets exactly what was captured, in time and labelled.    *)
AudioIsComplete == F!NothingIsLost /\ F!LagIsBounded /\ F!LabelsFollowTheCapture

(* Committed words, the prompt they were decoded under and the decision    *)
(* that somebody speaks are not taken back by what is heard next.          *)
DecisionsAreKept == Q!PromptIsKept /\ Q!CommittedOnlyGrows /\ F!SpeechIsHeld

(* The captions: units that are tidy inside, and an open one that is       *)
(* short; each word once and in its order, whatever was promoted, rolled   *)
(* or rewritten; text is only ever added, and at the end all of it there.  *)
UnitsAreWellFormed == U!TypeOK /\ U!ArtefactsAtEdges /\ U!OpenUnitIsShort
WordsOnce  == U!WordsOnce
TextIsKept == U!ShownOnlyGrows /\ U!FinalTakesEverything

(* The recording of a session and the processes of a worker do not outlive *)
(* it, no worker ends while its owner lives, and each text is aligned with *)
(* its own part of the recording.                                          *)
NothingStaysBehind ==
  /\ A!TypeOK /\ A!SpoolIsDiscarded /\ A!UpdatesFollowTheTexts /\ A!InferredRangesAreApart
  /\ W!TypeOK /\ W!WrapperReapsChild /\ W!OwnerKeepsWorkers
=============================================================================
