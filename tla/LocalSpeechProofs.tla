-------------------------- MODULE LocalSpeechProofs --------------------------
(***************************************************************************)
(* Proofs about the parts of MCLocalSpeech, for any constants: what each   *)
(* part keeps is invariant under its own steps, and the others leave its   *)
(* variables alone.                                                        *)
(***************************************************************************)
EXTENDS MCLocalSpeech, SequenceTheorems, FiniteSetTheorems, WellFoundedInduction, TLAPS

\* A watch that was given up says that the owner's process has exited.
WatchIsRight == watch = "exited" => owner # "alive"
WatchInv == W!TypeOK /\ W!WrapperReapsChild /\ W!OwnerKeepsWorkers /\ WatchIsRight

Ranges == [start : Nat, end : Nat, last : Nat, said : BOOLEAN]
Segments == [from : Nat, to : Nat]
AlignTypes ==
  /\ file \in {"none", "open", "closed", "gone"} /\ crashed \subseteq {"young", "old"}
  /\ files \in 0..MaxFiles /\ samples \in 0..MaxSamples /\ final \in BOOLEAN
  /\ stable \in Seq(Ranges) /\ Len(stable) <= MaxTexts
  /\ align \in [stage : {"waiting", "aligning", "ended"}, next : 1..(MaxTexts + 1), ok : BOOLEAN]
  /\ updates \in Seq([of : Nat, segment : Segments])

\* A text ends no earlier than it starts, and one that says no start follows the last.
RangesFollow ==
  /\ \A i \in 1..Len(stable) : stable[i].start <= stable[i].end
  /\ A!InferredRangesAreApart

\* While texts come there is no alignment, and while there is one the recording stays as it is.
AlignProgress ==
  /\ align.stage = "waiting" => align.next = 1 /\ updates = <<>> /\ ~align.ok
  /\ align.stage = "aligning" => file = "closed" /\ ~align.ok
  /\ align.stage = "ended" => file = "gone"
  /\ align.next <= Len(A!Sources) + 1
  /\ align.ok => align.next > Len(A!Sources)

\* The sources before the next one: what was aligned, in order, and what has no audio.
AlignUpdates ==
  /\ \A i \in 1..Len(updates) :
       /\ updates[i].of \in 1..align.next - 1
       /\ updates[i].segment = A!Segment(A!Sources[updates[i].of])
       /\ ~A!IsEmpty(updates[i].segment)
  /\ \A i, j \in 1..Len(updates) : i < j => updates[i].of < updates[j].of
  /\ \A n \in 1..align.next - 1 :
       A!IsEmpty(A!Segment(A!Sources[n])) \/ \E i \in 1..Len(updates) : updates[i].of = n

AlignInv == AlignTypes /\ RangesFollow /\ AlignProgress /\ AlignUpdates

\* Of n samples: what a converter gives of them at most.
Limit(n, ratio) == (n * ratio[1]) \div ratio[2]
ToAdapter == <<3, 2>>
ToRecognizer == <<1, 3>>
Ratios == {ToAdapter, ToRecognizer}
Resamplers == [pending : Nat, in : Nat, out : Nat]

\* A resampler while its input lasts: the last buffer waits, the rest is converted but for the delay.
Converts(r, ratio) ==
  /\ r \in Resamplers /\ r.pending <= r.in
  /\ r.pending = 0 => r.in = 0 /\ r.out = 0
  /\ r.out <= Limit(r.in - r.pending, ratio)
  /\ Limit(r.in - r.pending, ratio) <= r.out + Delay

Chunks == [label : Int, start : Nat, end : Nat]
Longest == F!Max(FrameSizes)
\* What went from the adapter, or from the capture, to the blocks.
Fed == IF stages.adapts THEN adapter.resampler.out ELSE captured.samples

StagesOK ==
  /\ stages \in [adapts : BOOLEAN, webrtc : BOOLEAN, identity : BOOLEAN]
  /\ stages.adapts => ~stages.identity

\* The rest of a block waits, the last buffer of the resampler waits, and the rest was pushed.
RateOK ==
  /\ rate \in Resamplers /\ blocks \in Nat /\ chunks \in Seq(Chunks)
  /\ IF stages.webrtc THEN blocks < Block ELSE blocks = 0
  /\ IF stages.identity THEN rate.in = rate.out ELSE Converts(rate, ToRecognizer)
  /\ F!Pushed = rate.out

\* The adapter is a frame behind, and knows its number.
AdapterOK ==
  /\ adapter \in [resampler : Resamplers, label : Int]
  /\ phase = "open" /\ stages.adapts =>
       /\ Converts(adapter.resampler, ToAdapter) /\ adapter.resampler.in = captured.samples
       /\ IF captured.frames = 0 THEN adapter.label = F!NoLabel /\ adapter.resampler.pending = 0
          ELSE adapter.label = captured.frames /\ adapter.resampler.pending \in FrameSizes
  /\ phase = "flushing" =>
       stages.adapts /\ adapter.resampler.out = F!Rounded(captured.samples, ToAdapter)

FrontInv ==
  /\ StagesOK /\ AdapterOK
  /\ phase \in {"new", "open", "flushing", "finished"} /\ captured \in [frames : Nat, samples : Nat]
  /\ phase = "new" =>
       /\ captured = [frames |-> 0, samples |-> 0] /\ rate = F!Resampler /\ blocks = 0 /\ chunks = <<>>
       /\ adapter = [resampler |-> F!Resampler, label |-> F!NoLabel]
  /\ phase \in {"open", "flushing"} => RateOK /\ rate.in + blocks = Fed
  /\ phase = "open" /\ ~stages.identity => 2 * rate.pending <= 3 * Longest + 2 * Delay + 2 * Block + 1
  /\ phase = "finished" => chunks \in Seq(Chunks) /\ F!Pushed = F!Expected

LastLabel == chunks[Len(chunks)].label
\* Two frames behind, when the converter gave nothing for the last one.
FrameLate ==
  \E m \in FrameSizes :
    LET r == adapter.resampler IN
    m <= r.in - r.pending /\ r.out <= Limit(r.in - r.pending - m, ToAdapter)

LabelsRise ==
  \A i \in 1..Len(chunks) - 1 :
    chunks[i].label # F!TailLabel /\ (chunks[i + 1].label # F!TailLabel => chunks[i].label < chunks[i + 1].label)

LabelInv ==
  /\ LabelsRise
  /\ phase \in {"open", "flushing"} => \A i \in 1..Len(chunks) : chunks[i].label \in 1..captured.frames
  /\ phase = "open" /\ chunks # <<>> =>
       IF stages.adapts THEN captured.frames = LastLabel + 1 \/ (captured.frames = LastLabel + 2 /\ FrameLate)
       ELSE LastLabel = captured.frames

Policies == [speaking : BOOLEAN, speech : Nat, silence : Nat, loud : Nat, low : Nat]
\* Enough frames in a row are what a decision about speech waits for.
PolicyInv ==
  /\ policy \in Policies
  /\ IF policy.speaking THEN policy.silence <= policy.low ELSE policy.speech <= policy.loud

Text == Seq({"a", "b", Q!Mark})
Texts == Text \cup {Q!None}
Segment ==
  [start : Nat, latched : BOOLEAN, gated : BOOLEAN, deferred : BOOLEAN, previous : Texts, candidate : Texts,
   quiet : Nat, committed : Text, hypothesis : Text, same : Nat, prompt : Q!Prompts, decoded : Nat]

\* A segment starts and was decoded within what the encoder has, and is never longer than the cap.
StreamerTypes ==
  /\ opt \in [open : BOOLEAN, context : BOOLEAN, eager : BOOLEAN] /\ vad \in BOOLEAN
  /\ audio \in Seq(Q!Kinds) /\ Len(audio) <= MaxAudio /\ completed \in Text
  /\ seg \in Segment /\ seg.start <= seg.decoded /\ seg.decoded <= Q!Encoded
  /\ seg.decoded <= seg.start + Cap

Unopened == ~opt.open => audio = <<>> /\ seg = Q!Fresh(0) /\ lastRoll = Q!NoRoll

SpeechIn(from, to) == {i \in from + 1..to : audio[i] = "speech"}
\* While there is a detector the context was latched with enough speech, and stays latched.
LatchedOnSpeech ==
  vad /\ opt.context /\ (seg.prompt = "context" \/ seg.latched) =>
    Cardinality(SpeechIn(seg.start, seg.decoded)) >= MinSpeech

\* The prompt that a segment is decoded under, once it has words.
PromptOf(s) ==
  IF ~opt.context THEN s.prompt = "plain"
  ELSE IF s.latched THEN s.prompt = "context"
  ELSE \/ s.prompt = "plain" /\ s.gated
       \/ s.prompt = "context" /\ ~vad /\ ~s.gated
CommittedUnder == seg.committed # <<>> => PromptOf(seg)

\* The hypothesis has been the candidate for as long as the quiet lasts.
CandidateLasts ==
  ~opt.eager /\ seg.candidate # Q!None => seg.candidate = seg.hypothesis /\ seg.quiet <= seg.same

Silences ==
  Q!Unheard(seg.start) =>
    seg.committed = <<>> /\ seg.hypothesis = <<>> /\ seg.decoded - seg.start < DigitalSteps

StreamerInv ==
  /\ StreamerTypes /\ Unopened /\ LatchedOnSpeech /\ CommittedUnder /\ CandidateLasts /\ Silences
  /\ Q!MarksAreConfirmed
----------------------------------------------------------------------------
(* The watch of the owner: a handle is given up only when the owner's      *)
(* process has exited, and a wrapper that returned has reaped its child.   *)

LEMMA WatchInit == W!Init => WatchInv
BY DEF W!Init, WatchInv, W!TypeOK, W!WrapperReapsChild, W!OwnerKeepsWorkers, WatchIsRight

\* What a poll of the owner says: a "no" is never wrong.
LEMMA PollIsRight ==
  ASSUME WatchIsRight, NEW alive \in W!Alive, W!TypeOK
  PROVE  /\ alive \in BOOLEAN
         /\ ~alive => owner # "alive"
BY DEF W!Alive, W!Probe, WatchIsRight, W!TypeOK

LEMMA WatchStep == ASSUME WatchInv, W!Next PROVE WatchInv'
<1> USE DEF WatchInv
<1>1. CASE W!OwnerExits
  BY <1>1 DEF W!OwnerExits, W!TypeOK, W!WrapperReapsChild, W!OwnerKeepsWorkers, WatchIsRight
<1>2. CASE W!PidRecycled
  BY <1>2 DEF W!PidRecycled, W!TypeOK, W!WrapperReapsChild, W!OwnerKeepsWorkers, WatchIsRight
<1>3. CASE W!StartWorker
  BY <1>3 DEF W!StartWorker, W!Opened, W!TypeOK, W!WrapperReapsChild, W!OwnerKeepsWorkers, WatchIsRight
<1>4. CASE W!StartWrapper
  BY <1>4 DEF W!StartWrapper, W!Opened, W!TypeOK, W!WrapperReapsChild, W!OwnerKeepsWorkers, WatchIsRight
<1>5. CASE W!InstallHandlers
  BY <1>5 DEF W!InstallHandlers, W!TypeOK, W!WrapperReapsChild, W!OwnerKeepsWorkers, WatchIsRight
<1>6. CASE W!Signal
  BY <1>6 DEF W!Signal, W!TypeOK, W!WrapperReapsChild, W!OwnerKeepsWorkers, WatchIsRight
<1>7. CASE W!WorkerPolls
  <2>1. PICK alive \in W!Alive :
          /\ W!Watched(alive)
          /\ IF alive THEN UNCHANGED <<worker, why>> ELSE worker' = "gone" /\ why' = "owner"
    BY <1>7 DEF W!WorkerPolls
  <2>2. alive \in BOOLEAN /\ (~alive => owner # "alive")
    BY PollIsRight
  <2> QED BY <1>7, <2>1, <2>2 DEF W!WorkerPolls, W!Watched, W!TypeOK, W!WrapperReapsChild, W!OwnerKeepsWorkers, WatchIsRight
<1>8. CASE W!WrapperPolls
  <2> USE DEF W!TypeOK, W!WrapperReapsChild, W!OwnerKeepsWorkers, WatchIsRight
  <2>1. CASE child = "ended"
    BY <1>8, <2>1 DEF W!WrapperPolls, W!Returns
  <2>2. CASE child # "ended" /\ stop
    BY <1>8, <2>2 DEF W!WrapperPolls
  <2>3. CASE child # "ended" /\ ~stop
    <3>1. PICK alive \in W!Alive :
            /\ W!Watched(alive)
            /\ IF alive THEN UNCHANGED <<worker, why>> ELSE worker' = "terminating" /\ why' = "owner"
      BY <1>8, <2>3 DEF W!WrapperPolls
    <3>2. alive \in BOOLEAN /\ (~alive => owner # "alive")
      BY PollIsRight
    <3> QED BY <1>8, <2>3, <3>1, <3>2 DEF W!WrapperPolls, W!Watched
  <2> QED BY <2>1, <2>2, <2>3
<1>9. CASE W!ChildEnds
  BY <1>9 DEF W!ChildEnds, W!TypeOK, W!WrapperReapsChild, W!OwnerKeepsWorkers, WatchIsRight
<1>10. CASE W!WaitEnds
  BY <1>10 DEF W!WaitEnds, W!TypeOK, W!WrapperReapsChild, W!OwnerKeepsWorkers, WatchIsRight
<1> QED BY <1>1, <1>2, <1>3, <1>4, <1>5, <1>6, <1>7, <1>8, <1>9, <1>10 DEF W!Next

----------------------------------------------------------------------------
(* The recording of a session and its alignment.                           *)

LEMMA Bounds ==
  /\ MaxSamples \in Nat /\ MaxTexts \in Nat /\ MaxFiles \in Nat
  /\ MaxSamples > 0 /\ MaxTexts > 0 /\ MaxFiles > 0
BY LocalSpeechAssumption DEF LocalSpeechAssumption

LEMMA InSequence ==
  ASSUME NEW S, NEW s \in Seq(S)
  PROVE  Len(s) \in Nat /\ DOMAIN s = 1..Len(s) /\ \A i \in 1..Len(s) : s[i] \in S
OBVIOUS

LEMMA MinOfTwo ==
  ASSUME NEW a \in Int, NEW b \in Int
  PROVE  A!Min({a, b}) = (IF a <= b THEN a ELSE b)
<1>1. \E x \in {a, b} : \A y \in {a, b} : x <= y
  OBVIOUS
<1> QED BY <1>1 DEF A!Min

LEMMA MaxOfTwo ==
  ASSUME NEW a \in Int, NEW b \in Int
  PROVE  A!Max({a, b}) = (IF a >= b THEN a ELSE b)
<1>1. \E x \in {a, b} : \A y \in {a, b} : x >= y
  OBVIOUS
<1> QED BY <1>1 DEF A!Max

\* A source is a text's range, or the whole recording.
LEMMA SourceTypes ==
  ASSUME AlignTypes
  PROVE  /\ Len(A!Sources) \in 0..MaxTexts /\ DOMAIN A!Sources = 1..Len(A!Sources)
         /\ \A n \in 1..Len(A!Sources) : A!Sources[n].start \in Nat /\ A!Sources[n].end \in Nat
<1>1. CASE stable # <<>>
  <2>1. A!Sources = stable
    BY <1>1 DEF A!Sources
  <2>2. Len(stable) \in Nat /\ DOMAIN stable = 1..Len(stable) /\ \A i \in 1..Len(stable) : stable[i] \in Ranges
    BY InSequence DEF AlignTypes
  <2>3. Len(stable) \in 0..MaxTexts
    BY <2>2, Bounds DEF AlignTypes
  <2>4. \A r \in Ranges : r.start \in Nat /\ r.end \in Nat
    BY DEF Ranges
  <2> QED BY <2>1, <2>2, <2>3, <2>4
<1>2. CASE stable = <<>> /\ final
  BY <1>2, Bounds DEF A!Sources, A!Whole
<1>3. CASE stable = <<>> /\ ~final
  BY <1>3, Bounds DEF A!Sources
<1> QED BY <1>1, <1>2, <1>3

\* What is cut out of the recording for a source, or why there is nothing.
LEMMA SegmentFacts ==
  ASSUME NEW s, s.start \in Nat, s.end \in Nat, samples \in Nat
  PROVE  /\ A!Segment(s) \in Segments
         /\ A!IsEmpty(A!Segment(s)) => samples <= s.start
         /\ ~A!IsEmpty(A!Segment(s)) =>
              /\ A!Segment(s).from < A!Segment(s).to /\ A!Segment(s).to <= samples
              /\ A!HasRange(s) => s.start <= A!Segment(s).from /\ A!Segment(s).to <= s.end
<1>1. A!Min({samples, s.end}) = IF samples <= s.end THEN samples ELSE s.end
  BY MinOfTwo
<1>2. CASE A!HasRange(s)
  <2>1. A!Segment(s) = [from |-> s.start, to |-> IF samples <= s.end THEN samples ELSE s.end]
    BY <1>1, <1>2 DEF A!Segment
  <2> QED BY <1>2, <2>1 DEF A!IsEmpty, A!HasRange, Segments
<1>3. CASE ~A!HasRange(s)
  <2>1. A!Segment(s) = [from |-> 0, to |-> samples]
    BY <1>3 DEF A!Segment
  <2> QED BY <1>3, <2>1 DEF A!IsEmpty, Segments
<1> QED BY <1>2, <1>3

\* A new session, or none: nothing is recorded, observed or aligned.
LEMMA AlignFresh ==
  ASSUME AlignTypes, file' \in {"none", "open"}, crashed' \subseteq {"young", "old"}, files' \in 0..MaxFiles,
         samples' = 0, stable' = <<>>, final' = FALSE, align' = A!Waiting, updates' = <<>>
  PROVE  AlignInv'
<1>1. AlignTypes'
  <2>1. samples' \in 0..MaxSamples
    BY Bounds
  <2>4. Len(stable') <= MaxTexts
    BY Bounds
  <2>2. align' \in [stage : {"waiting", "aligning", "ended"}, next : 1..(MaxTexts + 1), ok : BOOLEAN]
    BY Bounds DEF A!Waiting
  <2>3. stable' \in Seq(Ranges) /\ updates' \in Seq([of : Nat, segment : Segments])
    OBVIOUS
  <2>5. final' \in BOOLEAN
    OBVIOUS
  <2> QED BY <2>1, <2>2, <2>3, <2>4, <2>5 DEF AlignTypes
<1>2. RangesFollow'
  BY DEF RangesFollow, A!InferredRangesAreApart
<1>3. A!Sources' = <<>>
  BY DEF A!Sources
<1>4. AlignProgress'
  BY <1>3 DEF AlignProgress, A!Waiting
<1>5. AlignUpdates'
  BY DEF AlignUpdates, A!Waiting
<1> QED BY <1>1, <1>2, <1>4, <1>5 DEF AlignInv

LEMMA AlignInit == A!Init => AlignInv
<1> SUFFICES ASSUME A!Init PROVE AlignInv
  OBVIOUS
<1>1. AlignTypes
  <2>1. samples \in 0..MaxSamples /\ files \in 0..MaxFiles
    BY Bounds DEF A!Init
  <2>4. Len(stable) <= MaxTexts
    BY Bounds DEF A!Init
  <2>5. final \in BOOLEAN
    BY DEF A!Init
  <2>2. align \in [stage : {"waiting", "aligning", "ended"}, next : 1..(MaxTexts + 1), ok : BOOLEAN]
    BY Bounds DEF A!Init, A!Waiting
  <2>3. stable \in Seq(Ranges) /\ updates \in Seq([of : Nat, segment : Segments])
    BY DEF A!Init
  <2> QED BY <2>1, <2>2, <2>3, <2>4, <2>5 DEF AlignTypes, A!Init
<1>2. RangesFollow
  BY DEF A!Init, RangesFollow, A!InferredRangesAreApart
<1>3. A!Sources = <<>>
  BY DEF A!Init, A!Sources
<1>4. AlignProgress
  BY <1>3 DEF A!Init, AlignProgress, A!Waiting
<1>5. AlignUpdates
  BY DEF A!Init, AlignUpdates, A!Waiting
<1> QED BY <1>1, <1>2, <1>4, <1>5 DEF AlignInv

\* While the session waits for its alignment, no update is at stake.
LEMMA AlignWaits ==
  ASSUME AlignTypes, AlignProgress, align.stage = "waiting", AlignTypes', UNCHANGED updates, align' = align
  PROVE  AlignProgress' /\ AlignUpdates'
<1>1. align.next = 1 /\ updates = <<>> /\ ~align.ok
  BY DEF AlignProgress
<1>2. Len(A!Sources') \in Nat
  <2>1. Len(stable') \in Nat
    BY InSequence DEF AlignTypes
  <2>2. A!Sources' = stable' \/ A!Sources' = <<A!Whole>> \/ A!Sources' = <<>>
    BY DEF A!Sources
  <2> QED BY <2>1, <2>2
<1>3. AlignProgress'
  BY <1>1, <1>2 DEF AlignProgress
<1>4. AlignUpdates'
  BY <1>1 DEF AlignUpdates
<1> QED BY <1>3, <1>4

LEMMA ObserveStep ==
  ASSUME AlignInv, NEW start \in {A!NoTime} \cup A!Cursors, NEW end \in {A!NoTime} \cup A!Cursors,
         NEW cursor \in A!Cursors, A!Observe(start, end, cursor)
  PROVE  AlignInv'
<1> USE DEF AlignInv
<1> DEFINE range == A!Ranged(start, end, cursor)
<1>1. stable' = Append(stable, range) /\ align.stage = "waiting" /\ Len(stable) < MaxTexts
      /\ UNCHANGED <<file, crashed, files, samples, final, align, updates>>
  BY DEF A!Observe
<1>2. stable \in Seq(Ranges) /\ samples \in Nat
  BY Bounds DEF AlignTypes
<1>3. A!LastEnd \in Nat /\ (stable # <<>> => stable[Len(stable)].end <= A!LastEnd)
  <2>1. CASE stable = <<>>
    BY <2>1 DEF A!LastEnd
  <2>2. CASE stable # <<>>
    <3>1. Len(stable) \in 1..Len(stable) /\ stable[Len(stable)] \in Ranges
      BY <1>2, <2>2, EmptySeq, InSequence
    <3> QED BY <2>2, <3>1 DEF A!LastEnd, A!Last, Ranges
  <2> QED BY <2>1, <2>2
<1>4. A!EndOf(end, cursor) \in Nat /\ A!NoTime = -1
  BY <1>2 DEF A!EndOf, A!NoTime, A!Cursors
<1>5. /\ range.start \in Nat /\ range.end \in Nat /\ range.start <= range.end
      /\ range \in Ranges
      /\ ~range.said => range.start = A!LastEnd
  <2> DEFINE from == IF start = A!NoTime THEN A!LastEnd ELSE start
  <2>1. from \in Nat
    BY <1>2, <1>3, <1>4 DEF A!Cursors
  <2>2. A!Max({from, A!EndOf(end, cursor)}) = IF from >= A!EndOf(end, cursor) THEN from ELSE A!EndOf(end, cursor)
    BY <1>4, <2>1, MaxOfTwo
  <2>3. range = [start |-> from, end |-> A!Max({from, A!EndOf(end, cursor)}), last |-> A!LastEnd, said |-> start # A!NoTime]
    BY DEF A!Ranged
  <2> HIDE DEF range, from
  <2>4. range.start = from /\ range.end = A!Max({from, A!EndOf(end, cursor)}) /\ range.said = (start # A!NoTime)
    BY <2>3
  <2>5. A!Max({from, A!EndOf(end, cursor)}) \in Nat /\ from <= A!Max({from, A!EndOf(end, cursor)})
    BY <1>4, <2>1, <2>2
  <2>6. range \in Ranges
    BY <1>3, <2>1, <2>3, <2>5 DEF Ranges
  <2> QED BY <2>1, <2>4, <2>5, <2>6 DEF from
<1> HIDE DEF range
<1>6. /\ stable' \in Seq(Ranges) /\ Len(stable') = Len(stable) + 1 /\ stable'[Len(stable) + 1] = range
      /\ \A i \in 1..Len(stable) : stable'[i] = stable[i]
      /\ Len(stable) \in Nat /\ DOMAIN stable = 1..Len(stable) /\ DOMAIN stable' = 1..Len(stable) + 1
  BY <1>1, <1>2, <1>5
<1>7. AlignTypes'
  BY <1>1, <1>6, Bounds DEF AlignTypes
<1>8. RangesFollow'
  <2>1. \A i \in 1..Len(stable') : stable'[i].start <= stable'[i].end
    BY <1>5, <1>6 DEF RangesFollow
  <2>2. ASSUME NEW i \in DOMAIN stable', NEW j \in DOMAIN stable', i + 1 = j, ~stable'[j].said
        PROVE  stable'[i].end <= stable'[j].start
    <3>1. i \in 1..Len(stable) /\ i \in DOMAIN stable
      BY <1>6, <2>2
    <3>2. CASE j = Len(stable) + 1
      <4>1. i = Len(stable) /\ stable # <<>>
        BY <2>2, <3>1, <3>2, <1>6
      <4> QED BY <1>3, <1>5, <1>6, <2>2, <3>1, <3>2, <4>1
    <3>3. CASE j # Len(stable) + 1
      <4>1. j \in DOMAIN stable
        BY <1>6, <3>3
      <4> QED BY <1>6, <2>2, <3>1, <4>1 DEF RangesFollow, A!InferredRangesAreApart
    <3> QED BY <3>2, <3>3
  <2> QED BY <2>1, <2>2 DEF RangesFollow, A!InferredRangesAreApart
<1> QED BY <1>1, <1>7, <1>8, AlignWaits

----------------------------------------------------------------------------
(* The resamplers.                                                         *)

LEMMA FrontBounds == MaxFrames \in Nat /\ Delay \in Nat /\ Block \in Nat /\ Block > 0 /\ FrameSizes \subseteq Nat \ {0}
BY LocalSpeechAssumption DEF LocalSpeechAssumption

LEMMA AdapterRounds ==
  ASSUME NEW n \in Nat
  PROVE  /\ Limit(n, ToAdapter) \in Nat /\ F!Rounded(n, ToAdapter) \in Nat
         /\ 2 * Limit(n, ToAdapter) <= 3 * n /\ 3 * n <= 2 * Limit(n, ToAdapter) + 1
         /\ 2 * F!Rounded(n, ToAdapter) <= 3 * n + 1 /\ 3 * n <= 2 * F!Rounded(n, ToAdapter) + 1
<1>1. Limit(n, ToAdapter) = (n * 3) \div 2
  BY DEF Limit, ToAdapter
<1>2. F!Rounded(n, ToAdapter) =
        IF (6 * n + 2) % 4 = 0 /\ ((6 * n + 2) \div 4) % 2 = 1 THEN (6 * n + 2) \div 4 - 1 ELSE (6 * n + 2) \div 4
  <2>1. 2 * n * 3 + 2 = 6 * n + 2 /\ 2 * 2 = 4
    OBVIOUS
  <2> QED BY <2>1 DEF F!Rounded, ToAdapter
<1>3. (6 * n + 2) \div 4 \in Nat /\ 4 * ((6 * n + 2) \div 4) <= 6 * n + 2 /\ 6 * n + 2 <= 4 * ((6 * n + 2) \div 4) + 3
  OBVIOUS
<1>4. (6 * n + 2) % 4 = 0 => 6 * n + 2 = 4 * ((6 * n + 2) \div 4)
  OBVIOUS
<1>5. ((6 * n + 2) \div 4) % 2 = 1 => (6 * n + 2) \div 4 >= 1
  BY <1>3
<1> QED BY <1>1, <1>2, <1>3, <1>4, <1>5

LEMMA RecognizerRounds ==
  ASSUME NEW n \in Nat
  PROVE  /\ Limit(n, ToRecognizer) \in Nat /\ F!Rounded(n, ToRecognizer) \in Nat
         /\ 3 * Limit(n, ToRecognizer) <= n /\ n <= 3 * Limit(n, ToRecognizer) + 2
         /\ 3 * F!Rounded(n, ToRecognizer) <= n + 1 /\ n <= 3 * F!Rounded(n, ToRecognizer) + 1
<1>1. Limit(n, ToRecognizer) = (n * 1) \div 3
  BY DEF Limit, ToRecognizer
<1>2. F!Rounded(n, ToRecognizer) = (2 * n + 3) \div 6
  <2>1. 2 * n * 1 + 3 = 2 * n + 3 /\ 2 * 3 = 6 /\ (2 * n + 3) % 6 # 0
    OBVIOUS
  <2> QED BY <2>1 DEF F!Rounded, ToRecognizer
<1>3. (2 * n + 3) \div 6 \in Nat /\ 6 * ((2 * n + 3) \div 6) <= 2 * n + 3 /\ 2 * n + 3 <= 6 * ((2 * n + 3) \div 6) + 5
  OBVIOUS
<1> QED BY <1>1, <1>2, <1>3

LEMMA LimitRounds ==
  ASSUME NEW ratio \in Ratios, NEW n \in Nat
  PROVE  /\ Limit(n, ratio) \in Nat /\ F!Rounded(n, ratio) \in Nat /\ Limit(n, ratio) <= F!Rounded(n, ratio)
         /\ Limit(0, ratio) = 0 /\ F!Rounded(0, ratio) = 0
         /\ \A m \in Nat : m <= n => Limit(m, ratio) <= Limit(n, ratio)
<1>1. CASE ratio = ToAdapter
  <2>1. \A m \in Nat : /\ Limit(m, ratio) \in Nat /\ F!Rounded(m, ratio) \in Nat
                       /\ 2 * Limit(m, ratio) <= 3 * m /\ 3 * m <= 2 * Limit(m, ratio) + 1
                       /\ 2 * F!Rounded(m, ratio) <= 3 * m + 1 /\ 3 * m <= 2 * F!Rounded(m, ratio) + 1
    BY <1>1, AdapterRounds
  <2>2. \A m \in Nat : m <= n => Limit(m, ratio) <= Limit(n, ratio)
    <3>1. ASSUME NEW m \in Nat, m <= n PROVE Limit(m, ratio) <= Limit(n, ratio)
      <4>1. CASE m = n
        BY <2>1, <4>1
      <4>2. CASE m + 1 <= n
        BY <2>1, <4>2
      <4> QED BY <3>1, <4>1, <4>2
    <3> QED BY <3>1
  <2>3. F!Rounded(0, ratio) = 0 /\ Limit(0, ratio) = 0
    BY <2>1
  <2> QED BY <2>1, <2>2, <2>3
<1>2. CASE ratio = ToRecognizer
  <2>1. \A m \in Nat : /\ Limit(m, ratio) \in Nat /\ F!Rounded(m, ratio) \in Nat
                       /\ 3 * Limit(m, ratio) <= m /\ m <= 3 * Limit(m, ratio) + 2
                       /\ 3 * F!Rounded(m, ratio) <= m + 1 /\ m <= 3 * F!Rounded(m, ratio) + 1
    BY <1>2, RecognizerRounds
  <2>2. \A m \in Nat : m <= n => Limit(m, ratio) <= Limit(n, ratio)
    <3>1. ASSUME NEW m \in Nat, m <= n PROVE Limit(m, ratio) <= Limit(n, ratio)
      BY <2>1, <3>1
    <3> QED BY <3>1
  <2>3. F!Rounded(0, ratio) = 0 /\ Limit(0, ratio) = 0
    BY <2>1
  <2> QED BY <2>1, <2>2, <2>3
<1> QED BY <1>1, <1>2 DEF Ratios

LEMMA FrontMax ==
  ASSUME NEW a \in Int
  PROVE  F!Max({0, a}) = (IF a <= 0 THEN 0 ELSE a)
<1>1. \E x \in {0, a} : \A y \in {0, a} : x >= y
  OBVIOUS
<1> QED BY <1>1 DEF F!Max

FedWith(r, n, k) == [[r EXCEPT !.in = @ + n, !.pending = n] EXCEPT !.out = @ + k]

LEMMA SameResampler ==
  ASSUME NEW r \in Resamplers, NEW q \in Resamplers, r.pending = q.pending, r.in = q.in, r.out = q.out
  PROVE  r = q
BY DEF Resamplers

\* The records the code's assignments make.
LEMMA FilledParts ==
  ASSUME NEW r \in Resamplers, NEW n \in Nat, NEW k \in Nat
  PROVE  [r EXCEPT !.pending = n, !.out = @ + k] = [pending |-> n, in |-> r.in, out |-> r.out + k]
<1> DEFINE q == [r EXCEPT !.pending = n, !.out = @ + k]
           p == [pending |-> n, in |-> r.in, out |-> r.out + k]
<1>1. r.in \in Nat /\ r.out \in Nat /\ r.out + k \in Nat
  BY DEF Resamplers
<1>2. p \in Resamplers /\ p.pending = n /\ p.in = r.in /\ p.out = r.out + k
  BY <1>1 DEF Resamplers
<1>3. q \in Resamplers
  BY <1>1 DEF Resamplers
<1>4. q.pending = n /\ q.in = r.in /\ q.out = r.out + k
  BY DEF Resamplers
<1> HIDE DEF p, q
<1>5. q = p
  BY <1>2, <1>3, <1>4, SameResampler
<1> QED BY <1>5 DEF p, q

LEMMA FedParts ==
  ASSUME NEW r \in Resamplers, NEW n \in Nat
  PROVE  [r EXCEPT !.in = @ + n, !.pending = n] = [pending |-> n, in |-> r.in + n, out |-> r.out]
<1> DEFINE q == [r EXCEPT !.in = @ + n, !.pending = n]
           p == [pending |-> n, in |-> r.in + n, out |-> r.out]
<1>1. r.in \in Nat /\ r.out \in Nat /\ r.in + n \in Nat
  BY DEF Resamplers
<1>2. p \in Resamplers /\ p.pending = n /\ p.in = r.in + n /\ p.out = r.out
  BY <1>1 DEF Resamplers
<1>3. q \in Resamplers
  BY <1>1 DEF Resamplers
<1>4. q.pending = n /\ q.in = r.in + n /\ q.out = r.out
  BY DEF Resamplers
<1> HIDE DEF p, q
<1>5. q = p
  BY <1>2, <1>3, <1>4, SameResampler
<1> QED BY <1>5 DEF p, q

LEMMA FedWithParts ==
  ASSUME NEW r \in Resamplers, NEW n \in Nat, NEW k \in Nat
  PROVE  FedWith(r, n, k) = [pending |-> n, in |-> r.in + n, out |-> r.out + k]
<1> DEFINE q == [r EXCEPT !.in = @ + n, !.pending = n]
<1>1. q = [pending |-> n, in |-> r.in + n, out |-> r.out]
  BY FedParts
<1> HIDE DEF q
<1>2. [q EXCEPT !.out = @ + k] = [pending |-> n, in |-> r.in + n, out |-> r.out + k]
  BY <1>1
<1> QED BY <1>2 DEF FedWith, q

\* A resampler that is not behind the rounded duration is filled up to it.
LEMMA FinalizedFacts ==
  ASSUME NEW ratio \in Ratios, NEW r \in Resamplers, r.out <= F!Rounded(r.in, ratio)
  PROVE  LET step == F!Finalized(r, ratio)
         IN /\ step.r \in Resamplers /\ step.n \in Nat
            /\ step.r.in = r.in /\ step.r.out = r.out + step.n /\ step.r.out = F!Rounded(r.in, ratio)
<1> DEFINE needed == F!Max({0, F!Rounded(r.in, ratio) - r.out})
<1>1. r.in \in Nat /\ r.out \in Nat /\ F!Rounded(r.in, ratio) \in Nat
  BY LimitRounds DEF Resamplers
<1>2. needed = F!Rounded(r.in, ratio) - r.out /\ needed \in Nat
  BY <1>1, FrontMax
<1>3. F!Finalized(r, ratio) = [r |-> [r EXCEPT !.pending = 0, !.out = @ + needed], n |-> needed]
  BY DEF F!Finalized
<1> HIDE DEF needed
<1>4. [r EXCEPT !.pending = 0, !.out = @ + needed] = [pending |-> 0, in |-> r.in, out |-> r.out + needed]
  BY <1>2, FilledParts
<1>5. F!Finalized(r, ratio) = [r |-> [pending |-> 0, in |-> r.in, out |-> r.out + needed], n |-> needed]
  BY <1>3, <1>4
<1>6. [pending |-> 0, in |-> r.in, out |-> r.out + needed] \in Resamplers
  BY <1>1, <1>2 DEF Resamplers
<1> QED BY <1>1, <1>2, <1>5, <1>6

\* What is converted of all that was fed before.
LEMMA ConvertedFacts ==
  ASSUME NEW ratio \in Ratios, NEW r \in Resamplers, Converts(r, ratio), NEW n \in Nat, NEW k \in F!Converted(r, ratio)
  PROVE  /\ k \in Nat /\ FedWith(r, n, k) \in Resamplers
         /\ FedWith(r, n, k).in = r.in + n /\ FedWith(r, n, k).pending = n /\ FedWith(r, n, k).out = r.out + k
         /\ FedWith(r, n, k).out <= Limit(r.in, ratio) /\ Limit(r.in, ratio) <= FedWith(r, n, k).out + Delay
<1>1. r \in Resamplers /\ r.in \in Nat /\ r.out \in Nat /\ Limit(r.in, ratio) \in Nat
  BY LimitRounds DEF Resamplers, Converts
<1>2. k \in 0..Limit(r.in, ratio) /\ r.out + k <= Limit(r.in, ratio) /\ r.out + k >= Limit(r.in, ratio) - Delay
  BY DEF F!Converted, Limit
<1>3. k \in Nat
  BY <1>1, <1>2
<1>4. FedWith(r, n, k) = [pending |-> n, in |-> r.in + n, out |-> r.out + k]
  BY <1>1, <1>3, FedWithParts
<1> QED BY <1>1, <1>2, <1>3, <1>4, FrontBounds DEF Resamplers

Goes(r, n, ratio) == F!Process(r, n, ratio, FALSE)
Ends(r, n, ratio) == F!Process(r, n, ratio, TRUE)

\* A buffer more: the last one waits, and what is given is what came out.
LEMMA ProcessGoesOn ==
  ASSUME NEW ratio \in Ratios, NEW r \in Resamplers, Converts(r, ratio), NEW n \in Nat, NEW step \in Goes(r, n, ratio)
  PROVE  /\ Converts(step.r, ratio) /\ step.n \in Nat
         /\ step.r.in = r.in + n /\ step.r.out = r.out + step.n
         /\ IF n = 0 THEN step.r = r /\ step.n = 0 ELSE step.r.pending = n
         /\ step.n # 0 => r.pending > 0
         /\ r.pending > 0 /\ n > 0 =>
              step.r.out <= Limit(r.in, ratio) /\ Limit(r.in, ratio) <= step.r.out + Delay
<1>1. r \in Resamplers /\ r.pending \in Nat /\ r.in \in Nat /\ r.out \in Nat
  BY DEF Resamplers, Converts
<1>2. CASE n = 0
  <2>1. step = [r |-> r, n |-> 0]
    BY <1>2 DEF F!Process, Goes, Ends
  <2> QED BY <1>1, <1>2, <2>1
<1>3. CASE n > 0 /\ r.pending = 0
  <2>1. step = [r |-> [r EXCEPT !.in = @ + n, !.pending = n], n |-> 0]
    BY <1>3 DEF F!Process, Goes, Ends
  <2>2. r.in = 0 /\ r.out = 0
    BY <1>3 DEF Converts
  <2>3. [r EXCEPT !.in = @ + n, !.pending = n] = [pending |-> n, in |-> n, out |-> 0]
    <3>1. [r EXCEPT !.in = @ + n, !.pending = n] = [pending |-> n, in |-> r.in + n, out |-> r.out]
      BY <1>1, FedParts
    <3> QED BY <2>2, <3>1
  <2>4. n - n = 0 /\ Limit(0, ratio) = 0
    BY LimitRounds
  <2>5. Converts([pending |-> n, in |-> n, out |-> 0], ratio)
    BY <1>3, <2>4, FrontBounds DEF Converts, Resamplers
  <2>6. step.r = [pending |-> n, in |-> n, out |-> 0] /\ step.n = 0
    BY <2>1, <2>3
  <2> QED BY <1>1, <1>3, <2>2, <2>5, <2>6
<1>4. CASE n > 0 /\ r.pending > 0
  <2>0. step \in {[r |-> [[r EXCEPT !.in = @ + n, !.pending = n] EXCEPT !.out = @ + k], n |-> k] :
                     k \in F!Converted(r, ratio)}
    <3>1. ~(n > 0 /\ r.pending = 0) /\ n > 0
      BY <1>1, <1>4
    <3> QED BY <3>1, Zenon DEF F!Process, Goes, Ends
  <2>1. PICK k \in F!Converted(r, ratio) :
          step = [r |-> [[r EXCEPT !.in = @ + n, !.pending = n] EXCEPT !.out = @ + k], n |-> k]
    BY <2>0, Zenon
  <2> DEFINE fed == FedWith(r, n, k)
  <2>2. /\ k \in Nat /\ fed \in Resamplers
        /\ fed.in = r.in + n /\ fed.pending = n /\ fed.out = r.out + k
        /\ fed.out <= Limit(r.in, ratio) /\ Limit(r.in, ratio) <= fed.out + Delay
    BY ConvertedFacts
  <2>3. step.r = fed /\ step.n = k
    BY <2>1 DEF FedWith
  <2> HIDE DEF fed
  <2>4. fed.in - fed.pending = r.in
    BY <1>1, <2>2
  <2>5. Converts(fed, ratio)
    BY <1>1, <1>4, <2>2, <2>4 DEF Converts
  <2> QED BY <1>1, <1>4, <2>2, <2>3, <2>5
<1> QED BY <1>1, <1>2, <1>3, <1>4

\* The end of the input: the duration is exact.
LEMMA ProcessEnds ==
  ASSUME NEW ratio \in Ratios, NEW r \in Resamplers, Converts(r, ratio), NEW n \in Nat, NEW step \in Ends(r, n, ratio)
  PROVE  /\ step.r \in Resamplers /\ step.n \in Nat
         /\ step.r.in = r.in + n /\ step.r.out = r.out + step.n /\ step.r.out = F!Rounded(r.in + n, ratio)
<1>1. r \in Resamplers /\ r.pending \in Nat /\ r.in \in Nat /\ r.out \in Nat
  BY DEF Resamplers, Converts
<1>2. r.out <= Limit(r.in, ratio)
  <2>1. r.in - r.pending \in Nat /\ r.in - r.pending <= r.in
    BY <1>1 DEF Converts
  <2>2. Limit(r.in - r.pending, ratio) <= Limit(r.in, ratio) /\ Limit(r.in - r.pending, ratio) \in Nat /\ Limit(r.in, ratio) \in Nat
    BY <1>1, <2>1, LimitRounds
  <2> QED BY <1>1, <2>2 DEF Converts
<1>3. /\ Limit(r.in, ratio) \in Nat /\ F!Rounded(r.in, ratio) \in Nat /\ Limit(r.in, ratio) <= F!Rounded(r.in, ratio)
      /\ F!Rounded(r.in + n, ratio) \in Nat /\ Limit(r.in, ratio) <= F!Rounded(r.in + n, ratio)
  <2>1. r.in + n \in Nat /\ r.in <= r.in + n
    BY <1>1
  <2>2. /\ Limit(r.in, ratio) <= Limit(r.in + n, ratio) /\ Limit(r.in + n, ratio) <= F!Rounded(r.in + n, ratio)
        /\ Limit(r.in + n, ratio) \in Nat /\ F!Rounded(r.in + n, ratio) \in Nat
    BY <1>1, <2>1, LimitRounds
  <2>3. Limit(r.in, ratio) \in Nat /\ F!Rounded(r.in, ratio) \in Nat /\ Limit(r.in, ratio) <= F!Rounded(r.in, ratio)
    BY <1>1, LimitRounds
  <2> QED BY <2>2, <2>3
<1> DEFINE fed == [r EXCEPT !.in = @ + n, !.pending = n]
<1>4. fed \in Resamplers /\ fed.in = r.in + n /\ fed.out = r.out
  <2>1. fed = [pending |-> n, in |-> r.in + n, out |-> r.out]
    BY <1>1, FedParts
  <2> HIDE DEF fed
  <2> QED BY <1>1, <2>1 DEF Resamplers
<1>5. CASE n > 0 /\ r.pending = 0
  <2>1. step = F!Finalized(fed, ratio)
    BY <1>5 DEF F!Process, Goes, Ends
  <2> HIDE DEF fed
  <2> QED BY <1>1, <1>2, <1>3, <1>4, <2>1, FinalizedFacts
<1>6. CASE n > 0 /\ r.pending > 0
  <2> DEFINE first(k) == [fed EXCEPT !.out = @ + k]
  <2>0. step \in {[r |-> F!Finalized(first(k), ratio).r, n |-> k + F!Finalized(first(k), ratio).n] :
                     k \in F!Converted(r, ratio)}
    <3>1. ~(n > 0 /\ r.pending = 0) /\ n > 0
      BY <1>1, <1>6
    <3> QED BY <3>1, Zenon DEF F!Process, Goes, Ends
  <2>1. PICK k \in F!Converted(r, ratio) :
          step = [r |-> F!Finalized(first(k), ratio).r, n |-> k + F!Finalized(first(k), ratio).n]
    BY <2>0, Zenon
  <2>2. /\ k \in Nat /\ first(k) \in Resamplers
        /\ first(k).in = r.in + n /\ first(k).out = r.out + k /\ first(k).out <= Limit(r.in, ratio)
    <3>1. first(k) = FedWith(r, n, k)
      BY DEF FedWith
    <3> HIDE DEF first
    <3> QED BY <3>1, ConvertedFacts
  <2> HIDE DEF first
  <2>3. first(k).out <= F!Rounded(first(k).in, ratio)
    BY <1>1, <1>3, <2>2
  <2> DEFINE rest == F!Finalized(first(k), ratio)
  <2>4. /\ rest.r \in Resamplers /\ rest.n \in Nat /\ rest.r.in = first(k).in
        /\ rest.r.out = first(k).out + rest.n /\ rest.r.out = F!Rounded(first(k).in, ratio)
    BY <2>2, <2>3, FinalizedFacts
  <2> HIDE DEF rest
  <2>5. step.r = rest.r /\ step.n = k + rest.n
    BY <2>1 DEF rest
  <2> QED BY <1>1, <2>2, <2>4, <2>5
<1>7. CASE n = 0 /\ r.pending > 0
  <2>1. step = F!Finalized(r, ratio)
    BY <1>1, <1>7 DEF F!Process, Goes, Ends
  <2> QED BY <1>1, <1>2, <1>3, <1>7, <2>1, FinalizedFacts
<1>8. CASE n = 0 /\ r.pending = 0
  <2>1. step = [r |-> r, n |-> 0]
    BY <1>8 DEF F!Process, Goes, Ends
  <2>2. r.in = 0 /\ r.out = 0 /\ F!Rounded(0, ratio) = 0
    BY <1>8, LimitRounds DEF Converts
  <2> QED BY <1>1, <1>8, <2>1, <2>2
<1> QED BY <1>1, <1>5, <1>6, <1>7, <1>8

----------------------------------------------------------------------------
(* The blocks, the second resampler and the chunks: a frame goes through.  *)

LEMMA LongestFrame == Longest \in FrameSizes /\ \A n \in FrameSizes : n <= Longest
<1>1. PICK longest \in FrameSizes : \A n \in FrameSizes : n <= longest
  BY LocalSpeechAssumption DEF LocalSpeechAssumption
<1>2. \E x \in FrameSizes : \A y \in FrameSizes : x >= y
  BY <1>1, FrontBounds
<1>3. /\ Longest \in FrameSizes
      /\ \A y \in FrameSizes : Longest >= y
  BY <1>2 DEF Longest, F!Max
<1> QED BY <1>3, FrontBounds

LEMMA BlockParts ==
  ASSUME StagesOK, blocks \in Nat, IF stages.webrtc THEN blocks < Block ELSE blocks = 0, NEW n \in Nat
  PROVE  /\ F!Whole(n) \in Nat /\ F!Rest(n) \in Nat /\ F!Whole(n) + F!Rest(n) = blocks + n
         /\ IF stages.webrtc THEN F!Rest(n) < Block ELSE F!Rest(n) = 0
<1>1. CASE stages.webrtc
  <2> DEFINE a == blocks + n
  <2>1. a \in Nat /\ Block \in Nat /\ Block > 0
    BY FrontBounds
  <2> HIDE DEF a
  <2>2. a \div Block \in Nat /\ a % Block \in 0..Block - 1
    BY <2>1
  <2>6. a % Block = a - (Block * (a \div Block))
    BY <2>1
  <2>3. (a \div Block) * Block = Block * (a \div Block) /\ (a \div Block) * Block \in Nat
    BY <2>1, <2>2
  <2>4. F!Whole(n) = (a \div Block) * Block /\ F!Rest(n) = a % Block
    BY <1>1 DEF F!Whole, F!Rest, a
  <2>5. a % Block \in Nat /\ a % Block < Block /\ (a \div Block) * Block + (a % Block) = a
    BY <2>1, <2>2, <2>3, <2>6
  <2>7. /\ F!Whole(n) \in Nat /\ F!Rest(n) \in Nat /\ F!Whole(n) + F!Rest(n) = a
        /\ F!Rest(n) < Block
    BY <2>3, <2>4, <2>5
  <2> QED BY <1>1, <2>7 DEF a
<1>2. CASE ~stages.webrtc
  BY <1>2 DEF F!Whole, F!Rest
<1> QED BY <1>1, <1>2

LEMMA PushedChunk ==
  ASSUME chunks \in Seq(Chunks), F!Pushed \in Nat, NEW label \in Int, NEW n \in Nat, chunks' = Append(chunks, F!Chunk(label, n))
  PROVE  /\ F!Chunk(label, n) \in Chunks /\ F!Chunk(label, n).label = label
         /\ chunks' \in Seq(Chunks) /\ F!Pushed' = F!Pushed + n
<1>1. F!Chunk(label, n) \in Chunks /\ F!Chunk(label, n).label = label /\ F!Chunk(label, n).end = F!Pushed + n
  BY DEF F!Chunk, Chunks
<1>2. chunks' \in Seq(Chunks) /\ Len(chunks') = Len(chunks) + 1 /\ chunks'[Len(chunks) + 1] = F!Chunk(label, n)
      /\ Len(chunks) \in Nat
  BY <1>1
<1>3. chunks' # <<>>
  BY <1>2
<1>4. F!Pushed' = chunks'[Len(chunks')].end
  BY <1>3 DEF F!Pushed, F!Last
<1> QED BY <1>1, <1>2, <1>4

LEMMA PushFrameFacts ==
  ASSUME StagesOK, RateOK, UNCHANGED stages, NEW label \in Int, NEW n \in Nat, NEW heard, F!PushFrame(label, n, heard)
  PROVE  /\ RateOK' /\ rate'.in + blocks' = rate.in + blocks + n
         /\ ~stages.identity => rate'.pending = rate.pending \/ rate'.pending <= blocks + n
         /\ \E c \in Chunks : c.label = label /\ chunks' = Append(chunks, c)
<1>1. PICK step \in F!ToAsr(F!Whole(n), FALSE) : rate' = step.r /\ chunks' = Append(chunks, F!Chunk(label, step.n))
  BY DEF F!PushFrame
<1>2. /\ F!Whole(n) \in Nat /\ F!Rest(n) \in Nat /\ F!Whole(n) + F!Rest(n) = blocks + n
      /\ IF stages.webrtc THEN F!Rest(n) < Block ELSE F!Rest(n) = 0
  BY BlockParts DEF RateOK
<1>3. blocks' = F!Rest(n) /\ blocks \in Nat
  BY DEF F!PushFrame, RateOK
<1>4. rate \in Resamplers /\ rate.in \in Nat /\ rate.out \in Nat /\ rate.pending \in Nat
  BY DEF RateOK, Resamplers
<1>5. /\ step.n \in Nat /\ rate' \in Resamplers
      /\ rate'.in = rate.in + F!Whole(n) /\ rate'.out = rate.out + step.n
      /\ IF stages.identity THEN rate'.in = rate'.out ELSE Converts(rate', ToRecognizer)
      /\ ~stages.identity => rate'.pending = rate.pending \/ rate'.pending = F!Whole(n)
  <2>1. CASE stages.identity
    <3> DEFINE w == F!Whole(n)
    <3>1. step = [r |-> [rate EXCEPT !.in = @ + w, !.out = @ + w], n |-> w]
      BY <2>1 DEF F!ToAsr
    <3>2. w \in Nat /\ rate.in = rate.out
      BY <1>2, <2>1 DEF RateOK
    <3> HIDE DEF w
    <3>3. rate.in + w \in Nat /\ rate.out + w \in Nat
      BY <1>4, <3>2
    <3>4. [rate EXCEPT !.in = @ + w, !.out = @ + w] \in Resamplers
      BY <1>4, <3>3 DEF Resamplers
    <3>5. [rate EXCEPT !.in = @ + w, !.out = @ + w].in = rate.in + w
          /\ [rate EXCEPT !.in = @ + w, !.out = @ + w].out = rate.out + w
      BY <1>4 DEF Resamplers
    <3>6. step.r = [rate EXCEPT !.in = @ + w, !.out = @ + w] /\ step.n = w
      BY <3>1
    <3> QED BY <1>1, <2>1, <3>2, <3>4, <3>5, <3>6 DEF w
  <2>2. CASE ~stages.identity
    <3>1. step \in F!Process(rate, F!Whole(n), ToRecognizer, FALSE) /\ Converts(rate, ToRecognizer) /\ ToRecognizer \in Ratios
      BY <2>2 DEF F!ToAsr, ToRecognizer, RateOK, Ratios
    <3> DEFINE w == F!Whole(n)
    <3>5. Converts(rate, ToRecognizer) /\ ToRecognizer \in Ratios /\ rate \in Resamplers
      BY <1>4, <3>1
    <3>3. w \in Nat /\ step \in Goes(rate, w, ToRecognizer)
      BY <1>2, <3>1 DEF Goes
    <3> HIDE DEF w
    <3>4. /\ Converts(step.r, ToRecognizer) /\ step.n \in Nat
          /\ step.r.in = rate.in + w /\ step.r.out = rate.out + step.n
          /\ IF w = 0 THEN step.r = rate /\ step.n = 0 ELSE step.r.pending = w
      BY ONLY <3>5, <3>3, ProcessGoesOn
    <3>2. /\ Converts(step.r, ToRecognizer) /\ step.n \in Nat
          /\ step.r.in = rate.in + F!Whole(n) /\ step.r.out = rate.out + step.n
          /\ IF F!Whole(n) = 0 THEN step.r = rate /\ step.n = 0 ELSE step.r.pending = F!Whole(n)
      BY <3>4 DEF w
    <3> QED BY <1>1, <2>2, <3>2 DEF Converts
  <2> QED BY <2>1, <2>2
<1>6. chunks \in Seq(Chunks) /\ F!Pushed = rate.out /\ F!Pushed \in Nat
  BY <1>4 DEF RateOK
<1>7. /\ F!Chunk(label, step.n) \in Chunks /\ F!Chunk(label, step.n).label = label
      /\ chunks' \in Seq(Chunks) /\ F!Pushed' = F!Pushed + step.n
  BY <1>1, <1>5, <1>6, PushedChunk
<1>8. RateOK'
  BY <1>2, <1>3, <1>5, <1>6, <1>7 DEF RateOK
<1>9. rate'.in + blocks' = rate.in + blocks + n
  BY <1>2, <1>3, <1>4, <1>5
<1>10. ~stages.identity => rate'.pending = rate.pending \/ rate'.pending <= blocks + n
  BY <1>2, <1>3, <1>5
<1> QED BY <1>1, <1>7, <1>8, <1>9, <1>10

----------------------------------------------------------------------------
(* The steps of the front end.                                             *)

LEMMA RatioKinds == ToAdapter \in Ratios /\ ToRecognizer \in Ratios
BY DEF Ratios

LEMMA EmptyResampler ==
  ASSUME NEW ratio \in Ratios
  PROVE  F!Resampler \in Resamplers /\ Converts(F!Resampler, ratio) /\ F!Resampler.in = 0 /\ F!Resampler.out = 0
         /\ F!Resampler.pending = 0
<1>1. F!Resampler = [pending |-> 0, in |-> 0, out |-> 0]
  BY DEF F!Resampler
<1>2. 0 - 0 = 0 /\ Limit(0, ratio) = 0
  BY LimitRounds
<1> HIDE DEF F!Resampler
<1>3. F!Resampler \in Resamplers
  BY <1>1 DEF Resamplers
<1>4. Converts(F!Resampler, ratio)
  BY <1>1, <1>2, <1>3, FrontBounds DEF Converts
<1> QED BY <1>1, <1>3, <1>4

LEMMA FrontInit == F!Init => FrontInv
<1> SUFFICES ASSUME F!Init PROVE FrontInv
  OBVIOUS
<1>1. StagesOK
  BY DEF F!Init, StagesOK
<1>2. adapter \in [resampler : Resamplers, label : Int]
  BY EmptyResampler, RatioKinds DEF F!Init, F!NoLabel
<1>3. AdapterOK
  BY <1>2 DEF F!Init, AdapterOK
<1> QED BY <1>1, <1>3 DEF F!Init, FrontInv

LEMMA OpenStep == ASSUME FrontInv, F!Open PROVE FrontInv'
<1>1. /\ phase = "new" /\ phase' = "open" /\ UNCHANGED <<captured, adapter, blocks, rate, chunks>>
      /\ captured = [frames |-> 0, samples |-> 0] /\ rate = F!Resampler /\ blocks = 0 /\ chunks = <<>>
      /\ adapter = [resampler |-> F!Resampler, label |-> F!NoLabel]
  BY DEF F!Open, FrontInv
<1>2. StagesOK'
  BY DEF F!Open, StagesOK
<1>3. /\ F!Resampler \in Resamplers /\ Converts(F!Resampler, ToAdapter) /\ Converts(F!Resampler, ToRecognizer)
      /\ F!Resampler.in = 0 /\ F!Resampler.out = 0 /\ F!Resampler.pending = 0
  BY EmptyResampler, RatioKinds
<1>4. adapter.resampler = F!Resampler /\ adapter.label = F!NoLabel /\ captured.frames = 0 /\ captured.samples = 0
  BY <1>1
<1>5. AdapterOK'
  BY <1>1, <1>3, <1>4 DEF AdapterOK, FrontInv
<1>6. F!Pushed = 0
  BY <1>1 DEF F!Pushed
<1>7. F!Pushed' = 0
  BY <1>1 DEF F!Pushed
<1>8. RateOK'
  <2>1. chunks' \in Seq(Chunks)
    BY <1>1
  <2>2. IF stages'.webrtc THEN blocks' < Block ELSE blocks' = 0
    BY <1>1, FrontBounds
  <2>3. IF stages'.identity THEN rate'.in = rate'.out ELSE Converts(rate', ToRecognizer)
    BY <1>1, <1>3
  <2> QED BY <1>1, <1>3, <1>7, <2>1, <2>2, <2>3 DEF RateOK
<1>9. rate'.in + blocks' = Fed'
  BY <1>1, <1>3, <1>4 DEF Fed
<1>10. 2 * rate'.pending <= 3 * Longest + 2 * Delay + 2 * Block + 1
  BY <1>1, <1>3, LongestFrame, FrontBounds
<1>11. captured' \in [frames : Nat, samples : Nat] /\ phase' = "open"
  BY <1>1 DEF FrontInv
<1> QED BY <1>2, <1>5, <1>8, <1>9, <1>10, <1>11 DEF FrontInv

\* A frame of n samples went into the blocks of an open pipeline.
LEMMA FrameGoes ==
  ASSUME StagesOK, RateOK, UNCHANGED stages, NEW label \in Int, NEW n \in Nat, NEW heard, F!PushFrame(label, n, heard),
         ~stages.identity => 2 * rate.pending <= 3 * Longest + 2 * Delay + 2 * Block + 1,
         2 * n <= 3 * Longest + 2 * Delay + 1
  PROVE  /\ RateOK' /\ rate'.in + blocks' = rate.in + blocks + n
         /\ ~stages'.identity => 2 * rate'.pending <= 3 * Longest + 2 * Delay + 2 * Block + 1
<1>1. /\ RateOK' /\ rate'.in + blocks' = rate.in + blocks + n
      /\ ~stages.identity => rate'.pending = rate.pending \/ rate'.pending <= blocks + n
  BY PushFrameFacts
<1>2. blocks \in Nat /\ blocks <= Block /\ rate.pending \in Nat /\ rate'.pending \in Nat
  BY <1>1, FrontBounds DEF RateOK, Resamplers
<1>3. Longest \in Nat
  BY LongestFrame, FrontBounds
<1>4. ASSUME ~stages.identity PROVE 2 * rate'.pending <= 3 * Longest + 2 * Delay + 2 * Block + 1
  <2>1. CASE rate'.pending = rate.pending
    BY <1>4, <2>1
  <2>2. CASE rate'.pending <= blocks + n
    BY <1>2, <1>3, <2>2, FrontBounds
  <2> QED BY <1>1, <1>4, <2>1, <2>2
<1> QED BY <1>1, <1>4

LEMMA PushStep == ASSUME FrontInv, NEW n \in FrameSizes, NEW heard, F!Push(n, heard) PROVE FrontInv'
<1> DEFINE frames == captured.frames
           r == adapter.resampler
<1>1. /\ phase = "open" /\ phase' = "open" /\ UNCHANGED stages
      /\ captured' = [frames |-> frames + 1, samples |-> captured.samples + n]
  BY DEF F!Push
<1>2. /\ StagesOK /\ AdapterOK /\ RateOK /\ rate.in + blocks = Fed /\ frames \in Nat /\ captured.samples \in Nat
      /\ ~stages.identity => 2 * rate.pending <= 3 * Longest + 2 * Delay + 2 * Block + 1
  BY <1>1 DEF FrontInv
<1>3. n \in Nat /\ n > 0 /\ n <= Longest /\ Longest \in Nat
  BY FrontBounds, LongestFrame
<1>4. captured'.frames = frames + 1 /\ captured'.samples = captured.samples + n
      /\ captured' \in [frames : Nat, samples : Nat]
  BY <1>1, <1>2, <1>3
<1>5. StagesOK'
  BY <1>1, <1>2 DEF StagesOK
<1>6. CASE ~stages.adapts
  <2>1. F!PushFrame(frames + 1, n, heard) /\ UNCHANGED adapter
    BY <1>4, <1>6 DEF F!Push
  <2>2. frames + 1 \in Int /\ 2 * n <= 3 * Longest + 2 * Delay + 1
    BY <1>2, <1>3, FrontBounds
  <2>3. /\ RateOK' /\ rate'.in + blocks' = rate.in + blocks + n
        /\ ~stages'.identity => 2 * rate'.pending <= 3 * Longest + 2 * Delay + 2 * Block + 1
    BY <1>1, <1>2, <1>3, <2>1, <2>2, FrameGoes
  <2>4. rate'.in + blocks' = Fed'
    BY <1>1, <1>2, <1>4, <1>6, <2>3 DEF Fed
  <2>5. AdapterOK'
    BY <1>1, <1>2, <1>6, <2>1 DEF AdapterOK
  <2> QED BY <1>1, <1>4, <1>5, <2>3, <2>4, <2>5 DEF FrontInv
<1>7. CASE stages.adapts
  <2>1. PICK step \in F!Process(r, n, ToAdapter, FALSE) :
          /\ adapter' = [resampler |-> step.r, label |-> captured'.frames]
          /\ IF adapter.label = F!NoLabel \/ step.n = 0 THEN UNCHANGED <<blocks, rate, chunks, policy>>
             ELSE F!PushFrame(adapter.label, step.n, heard)
    BY <1>7 DEF F!Push, ToAdapter
  <2>2. /\ r \in Resamplers /\ Converts(r, ToAdapter) /\ r.in = captured.samples /\ adapter.label \in Int
        /\ IF frames = 0 THEN adapter.label = F!NoLabel /\ r.pending = 0
           ELSE adapter.label = frames /\ r.pending \in FrameSizes
    BY <1>1, <1>2, <1>7 DEF AdapterOK
  <2>3. step \in Goes(r, n, ToAdapter)
    BY <2>1 DEF Goes
  <2>4. /\ Converts(step.r, ToAdapter) /\ step.n \in Nat
        /\ step.r.in = r.in + n /\ step.r.out = r.out + step.n
        /\ IF n = 0 THEN step.r = r /\ step.n = 0 ELSE step.r.pending = n
        /\ step.n # 0 => r.pending > 0
        /\ r.pending > 0 /\ n > 0 =>
             step.r.out <= Limit(r.in, ToAdapter) /\ Limit(r.in, ToAdapter) <= step.r.out + Delay
    BY ONLY <2>2, <2>3, <1>3, RatioKinds, ProcessGoesOn
  <2>5. step.r \in Resamplers /\ adapter'.resampler = step.r /\ adapter'.label = frames + 1
        /\ adapter' \in [resampler : Resamplers, label : Int]
    BY <1>2, <1>4, <2>1, <2>4 DEF Converts
  <2>6. AdapterOK'
    BY <1>1, <1>2, <1>3, <1>4, <2>2, <2>4, <2>5 DEF AdapterOK
  <2>7. r.in \in Nat /\ r.out \in Nat /\ r.pending \in Nat /\ r.pending <= r.in
    BY <2>2 DEF Converts, Resamplers
  <2>8. Fed = r.out /\ Fed' = r.out + step.n
    BY <1>1, <1>7, <2>4, <2>5 DEF Fed
  <2>9. CASE adapter.label = F!NoLabel \/ step.n = 0
    <3>1. step.n = 0
      <4>1. CASE frames = 0
        BY <2>2, <2>4, <4>1
      <4>2. CASE frames # 0
        BY <1>2, <2>2, <2>9, <4>2 DEF F!NoLabel
      <4> QED BY <4>1, <4>2
    <3>2. UNCHANGED <<blocks, rate, chunks>>
      BY <2>1, <2>9
    <3>3. F!Pushed' = F!Pushed
      BY <3>2 DEF F!Pushed
    <3>4. RateOK'
      BY <1>1, <1>2, <3>2, <3>3 DEF RateOK
    <3>5. rate'.in + blocks' = Fed'
      BY <1>2, <2>7, <2>8, <3>1, <3>2
    <3> QED BY <1>1, <1>2, <1>4, <1>5, <2>6, <3>2, <3>4, <3>5 DEF FrontInv
  <2>10. CASE ~(adapter.label = F!NoLabel \/ step.n = 0)
    <3>1. F!PushFrame(adapter.label, step.n, heard)
      BY <2>1, <2>10
    <3>2. 2 * step.n <= 3 * Longest + 2 * Delay + 1
      <4>1. frames # 0 /\ r.pending <= Longest
        BY <2>2, <2>10, LongestFrame
      <4>2. r.out + step.n <= Limit(r.in, ToAdapter)
        BY <1>3, <2>4, <2>7, <2>10
      <4>3. /\ 2 * Limit(r.in, ToAdapter) <= 3 * r.in /\ Limit(r.in, ToAdapter) \in Nat
            /\ 3 * (r.in - r.pending) <= 2 * Limit(r.in - r.pending, ToAdapter) + 1
            /\ Limit(r.in - r.pending, ToAdapter) \in Nat
        <5>1. r.in - r.pending \in Nat
          BY <2>7
        <5> QED BY <2>7, <5>1, AdapterRounds
      <4>4. Limit(r.in - r.pending, ToAdapter) <= r.out + Delay
        BY <2>2 DEF Converts
      <4> QED BY <1>3, <2>4, <2>7, <4>1, <4>2, <4>3, <4>4, FrontBounds
    <3>3. /\ RateOK' /\ rate'.in + blocks' = rate.in + blocks + step.n
          /\ ~stages'.identity => 2 * rate'.pending <= 3 * Longest + 2 * Delay + 2 * Block + 1
      BY <1>1, <1>2, <2>2, <2>4, <3>1, <3>2, FrameGoes
    <3>4. rate'.in + blocks' = Fed'
      BY <1>2, <2>8, <3>3
    <3> QED BY <1>1, <1>4, <1>5, <2>6, <3>3, <3>4 DEF FrontInv
  <2> QED BY <2>9, <2>10
<1> QED BY <1>6, <1>7

LEMMA FinishAdapterStep == ASSUME FrontInv, NEW heard, F!FinishAdapter(heard) PROVE FrontInv'
<1> DEFINE r == adapter.resampler
<1>1. /\ phase = "open" /\ phase' = "flushing" /\ UNCHANGED <<stages, captured>> /\ stages.adapts
      /\ adapter.label # F!NoLabel
  BY DEF F!FinishAdapter
<1>2. /\ StagesOK /\ AdapterOK /\ RateOK /\ rate.in + blocks = Fed
      /\ captured \in [frames : Nat, samples : Nat] /\ captured.samples \in Nat
      /\ ~stages.identity => 2 * rate.pending <= 3 * Longest + 2 * Delay + 2 * Block + 1
  BY <1>1 DEF FrontInv
<1>3. /\ r \in Resamplers /\ Converts(r, ToAdapter) /\ r.in = captured.samples /\ adapter.label \in Int
  BY <1>1, <1>2 DEF AdapterOK
<1>4. PICK step \in F!Process(r, 0, ToAdapter, TRUE) :
        /\ adapter' = [resampler |-> step.r, label |-> F!NoLabel]
        /\ IF step.n = 0 THEN UNCHANGED <<blocks, rate, chunks, policy>>
           ELSE F!PushFrame(adapter.label, step.n, heard)
  BY DEF F!FinishAdapter, ToAdapter
<1>5. step \in Ends(r, 0, ToAdapter) /\ 0 \in Nat
  BY <1>4 DEF Ends
<1>6. /\ step.r \in Resamplers /\ step.n \in Nat
      /\ step.r.in = r.in + 0 /\ step.r.out = r.out + step.n /\ step.r.out = F!Rounded(r.in + 0, ToAdapter)
  BY ONLY <1>3, <1>5, RatioKinds, ProcessEnds
<1>7. adapter'.resampler = step.r /\ adapter' \in [resampler : Resamplers, label : Int]
  BY <1>4, <1>6 DEF F!NoLabel
<1>8. AdapterOK'
  <2>1. r.in + 0 = captured.samples
    BY <1>2, <1>3
  <2>2. step.r.out = F!Rounded(captured.samples, ToAdapter)
    BY <1>6, <2>1
  <2>3. F!Rounded(captured.samples, ToAdapter)' = F!Rounded(captured.samples, ToAdapter)
    BY <1>1 DEF F!Rounded
  <2> QED BY <1>1, <1>7, <2>2, <2>3 DEF AdapterOK
<1>9. Fed = r.out /\ Fed' = r.out + step.n /\ r.out \in Nat
  BY <1>1, <1>3, <1>6, <1>7 DEF Fed, Resamplers
<1>10. StagesOK'
  BY <1>1, <1>2 DEF StagesOK
<1>11. CASE step.n = 0
  <2>1. UNCHANGED <<blocks, rate, chunks>>
    BY <1>4, <1>11
  <2>2. F!Pushed' = F!Pushed
    BY <2>1 DEF F!Pushed
  <2>3. RateOK'
    BY <1>1, <1>2, <2>1, <2>2 DEF RateOK
  <2>4. rate'.in + blocks' = Fed'
    BY <1>2, <1>9, <1>11, <2>1
  <2> QED BY <1>1, <1>2, <1>8, <1>10, <2>3, <2>4 DEF FrontInv
<1>12. CASE step.n # 0
  <2>1. F!PushFrame(adapter.label, step.n, heard)
    BY <1>4, <1>12
  <2>2. RateOK' /\ rate'.in + blocks' = rate.in + blocks + step.n
    BY <1>1, <1>2, <1>3, <1>6, <2>1, PushFrameFacts
  <2>3. rate'.in + blocks' = Fed'
    BY <1>2, <1>9, <2>2
  <2> QED BY <1>1, <1>2, <1>8, <1>10, <2>2, <2>3 DEF FrontInv
<1> QED BY <1>11, <1>12

\* What is left of a block and in the resampler is pushed, and with it all that was captured.
LEMMA FinishPipelineStep == ASSUME FrontInv, F!FinishPipeline PROVE FrontInv'
<1>1. /\ phase' = "finished" /\ UNCHANGED <<stages, captured, adapter>>
      /\ phase = "flushing" \/ (phase = "open" /\ (~stages.adapts \/ adapter.label = F!NoLabel))
  BY DEF F!FinishPipeline
<1>2. /\ StagesOK /\ AdapterOK /\ RateOK /\ rate.in + blocks = Fed
      /\ captured \in [frames : Nat, samples : Nat] /\ captured.frames \in Nat /\ captured.samples \in Nat
  BY <1>1 DEF FrontInv
<1>3. Fed = F!Adapted /\ F!Adapted \in Nat
  <2>1. CASE ~stages.adapts
    BY <1>2, <2>1 DEF Fed, F!Adapted
  <2>2. CASE stages.adapts /\ phase = "flushing"
    <3>1. Fed = F!Rounded(captured.samples, ToAdapter) /\ F!Adapted = F!Rounded(captured.samples, ToAdapter)
      BY <1>2, <2>2 DEF AdapterOK, Fed, F!Adapted, ToAdapter
    <3> QED BY <1>2, <3>1, LimitRounds, RatioKinds
  <2>3. CASE stages.adapts /\ phase = "open"
    <3>1. adapter.label = F!NoLabel
      BY <1>1, <2>3
    <3>2. /\ Converts(adapter.resampler, ToAdapter) /\ adapter.resampler.in = captured.samples
          /\ IF captured.frames = 0 THEN adapter.label = F!NoLabel /\ adapter.resampler.pending = 0
             ELSE adapter.label = captured.frames /\ adapter.resampler.pending \in FrameSizes
      BY <1>2, <2>3 DEF AdapterOK
    <3>3. captured.frames = 0
      BY <1>2, <3>1, <3>2 DEF F!NoLabel
    <3>4. adapter.resampler.in = 0 /\ adapter.resampler.out = 0
      BY <3>2, <3>3 DEF Converts
    <3>5. F!Adapted = F!Rounded(0, ToAdapter)
      BY <2>3, <3>2, <3>4 DEF F!Adapted, ToAdapter
    <3> QED BY <2>3, <3>4, <3>5, LimitRounds, RatioKinds DEF Fed
  <2> QED BY <1>1, <2>1, <2>2, <2>3
<1>4. PICK step \in F!ToAsr(blocks, TRUE) :
        /\ rate' = step.r
        /\ chunks' = IF step.n = 0 THEN chunks ELSE Append(chunks, F!Chunk(F!TailLabel, step.n))
  BY DEF F!FinishPipeline
<1>5. rate \in Resamplers /\ rate.in \in Nat /\ rate.out \in Nat /\ blocks \in Nat /\ F!Pushed = rate.out
      /\ chunks \in Seq(Chunks)
  BY <1>2 DEF RateOK, Resamplers
<1>6. step.n \in Nat /\ rate.out + step.n = F!Expected
  <2>1. CASE stages.identity
    <3>1. step = [r |-> [rate EXCEPT !.in = @ + blocks, !.out = @ + blocks], n |-> blocks]
      BY <1>4, <2>1 DEF F!ToAsr
    <3>2. step.n = blocks
      BY <3>1
    <3>3. rate.in = rate.out /\ F!Expected = F!Adapted
      BY <1>2, <2>1 DEF RateOK, F!Expected
    <3> QED BY <1>2, <1>3, <1>5, <3>2, <3>3
  <2>2. CASE ~stages.identity
    <3>1. step \in Ends(rate, blocks, ToRecognizer)
      BY <1>4, <2>2 DEF F!ToAsr, ToRecognizer, Ends
    <3>2. Converts(rate, ToRecognizer)
      BY <1>2, <2>2 DEF RateOK
    <3>3. step.n \in Nat /\ step.r.out = rate.out + step.n /\ step.r.out = F!Rounded(rate.in + blocks, ToRecognizer)
      BY ONLY <1>5, <3>1, <3>2, RatioKinds, ProcessEnds
    <3>4. F!Expected = F!Rounded(F!Adapted, ToRecognizer)
      BY <2>2 DEF F!Expected, ToRecognizer
    <3> QED BY <1>2, <1>3, <3>3, <3>4
  <2> QED BY <2>1, <2>2
<1>7. chunks' \in Seq(Chunks) /\ F!Pushed' = F!Pushed + step.n
  <2>1. CASE step.n = 0
    <3>1. chunks' = chunks
      BY <1>4, <2>1
    <3>2. F!Pushed' = F!Pushed
      BY <3>1 DEF F!Pushed
    <3> QED BY <1>5, <2>1, <3>1, <3>2
  <2>2. CASE step.n # 0
    BY <1>4, <1>5, <1>6, <2>2, PushedChunk DEF F!TailLabel
  <2> QED BY <2>1, <2>2
<1>8. F!Expected' = F!Expected
  BY <1>1 DEF F!Expected, F!Adapted, F!Rounded
<1>9. StagesOK' /\ AdapterOK'
  BY <1>1, <1>2 DEF StagesOK, AdapterOK
<1> QED BY <1>1, <1>2, <1>5, <1>6, <1>7, <1>8, <1>9 DEF FrontInv

LEMMA FrontStep == ASSUME FrontInv, F!Next PROVE FrontInv'
BY OpenStep, PushStep, FinishAdapterStep, FinishPipelineStep DEF F!Next

LEMMA FrontSame == ASSUME FrontInv, UNCHANGED frontendVars PROVE FrontInv'
<1>1. UNCHANGED <<stages, phase, captured, adapter, blocks, rate, chunks>>
  BY DEF frontendVars
<1>2. StagesOK' /\ AdapterOK'
  BY <1>1 DEF FrontInv, StagesOK, AdapterOK, F!Rounded
<1>3. F!Pushed' = F!Pushed /\ F!Expected' = F!Expected /\ Fed' = Fed
  BY <1>1 DEF F!Pushed, F!Expected, F!Adapted, F!Rounded, Fed
<1>4. RateOK => RateOK'
  BY <1>1, <1>3 DEF RateOK
<1> QED BY <1>1, <1>2, <1>3, <1>4 DEF FrontInv

\* How far the recognizer is behind the capture.
LEMMA FrontLags == ASSUME FrontInv PROVE F!NothingIsLost /\ F!LagIsBounded
<1>1. F!NothingIsLost
  BY DEF FrontInv, F!NothingIsLost
<1> DEFINE frame == F!Rounded(Longest, ToAdapter) + 1
           held == 2 * frame + 2 * Delay + Block
<1>2. ASSUME phase = "open" PROVE F!Expected - F!Pushed <= held
  <2>1. /\ StagesOK /\ AdapterOK /\ RateOK /\ rate.in + blocks = Fed /\ captured.samples \in Nat /\ captured.frames \in Nat
        /\ ~stages.identity => 2 * rate.pending <= 3 * Longest + 2 * Delay + 2 * Block + 1
    BY <1>2 DEF FrontInv
  <2>2. rate.in \in Nat /\ rate.out \in Nat /\ rate.pending \in Nat /\ blocks \in Nat /\ blocks <= Block
        /\ F!Pushed = rate.out
    BY <2>1, FrontBounds DEF RateOK, Resamplers
  <2>3. Longest \in Nat /\ frame \in Nat /\ 3 * Longest <= 2 * frame - 1
    <3>1. Longest \in Nat
      BY LongestFrame, FrontBounds
    <3>2. F!Rounded(Longest, ToAdapter) \in Nat /\ 3 * Longest <= 2 * F!Rounded(Longest, ToAdapter) + 1
      BY <3>1, AdapterRounds
    <3> QED BY <3>1, <3>2
  <2> HIDE DEF frame
  <2>4. Fed \in Nat /\ F!Adapted \in Nat /\ 2 * F!Adapted <= 2 * Fed + 3 * Longest + 2 * Delay + 2
    <3>1. CASE ~stages.adapts
      BY <2>1, <2>3, <3>1, FrontBounds DEF Fed, F!Adapted
    <3>2. CASE stages.adapts
      <4> DEFINE r == adapter.resampler
      <4>1. Converts(r, ToAdapter) /\ r.in = captured.samples /\ (r.pending = 0 \/ r.pending \in FrameSizes)
        BY <1>2, <2>1, <3>2 DEF AdapterOK
      <4>2. r.in \in Nat /\ r.out \in Nat /\ r.pending \in Nat /\ r.in - r.pending \in Nat /\ r.pending <= Longest
        BY <2>3, <4>1, LongestFrame DEF Converts, Resamplers
      <4>3. Fed = r.out /\ F!Adapted = F!Rounded(r.in, ToAdapter)
        BY <3>2, <4>1 DEF Fed, F!Adapted, ToAdapter
      <4>4. Limit(r.in - r.pending, ToAdapter) <= r.out + Delay
        BY <4>1 DEF Converts
      <4>5. /\ F!Rounded(r.in, ToAdapter) \in Nat /\ 2 * F!Rounded(r.in, ToAdapter) <= 3 * r.in + 1
        BY <4>2, AdapterRounds
      <4>6. Limit(r.in - r.pending, ToAdapter) \in Nat
            /\ 3 * (r.in - r.pending) <= 2 * Limit(r.in - r.pending, ToAdapter) + 1
        BY <4>2, AdapterRounds
      <4> HIDE DEF r
      <4> QED BY <2>3, <4>2, <4>3, <4>4, <4>5, <4>6, FrontBounds
    <3> QED BY <3>1, <3>2
  <2>5. CASE stages.identity
    <3>1. F!Expected = F!Adapted /\ rate.in = rate.out /\ ~stages.adapts
      BY <2>1, <2>5 DEF F!Expected, RateOK, StagesOK
    <3>2. F!Adapted = Fed
      BY <3>1 DEF F!Adapted, Fed
    <3> QED BY <2>1, <2>2, <2>3, <2>4, <3>1, <3>2, FrontBounds
  <2>6. CASE ~stages.identity
    <3>1. F!Expected = F!Rounded(F!Adapted, ToRecognizer) /\ Converts(rate, ToRecognizer)
      BY <2>1, <2>6 DEF F!Expected, RateOK, ToRecognizer
    <3>2. F!Rounded(F!Adapted, ToRecognizer) \in Nat /\ 3 * F!Rounded(F!Adapted, ToRecognizer) <= F!Adapted + 1
      BY <2>4, RecognizerRounds
    <3>3. rate.in - rate.pending \in Nat /\ Limit(rate.in - rate.pending, ToRecognizer) <= rate.out + Delay
      BY <2>2, <3>1 DEF Converts
    <3>4. Limit(rate.in - rate.pending, ToRecognizer) \in Nat
          /\ rate.in - rate.pending <= 3 * Limit(rate.in - rate.pending, ToRecognizer) + 2
      BY <3>3, RecognizerRounds
    <3>5. 6 * F!Expected <= 6 * rate.out + 6 * Longest + 10 * Delay + 4 * Block + 9
      BY <2>1, <2>2, <2>3, <2>4, <2>6, <3>1, <3>2, <3>3, <3>4, FrontBounds
    <3> QED BY <2>2, <2>3, <3>1, <3>2, <3>5, FrontBounds
  <2> QED BY <2>5, <2>6
<1>3. F!LagIsBounded
  BY <1>2 DEF F!LagIsBounded, Longest, ToAdapter
<1> QED BY <1>1, <1>3

----------------------------------------------------------------------------
(* The labels of the chunks.                                               *)

LEMMA LabelInit == F!Init => LabelInv
BY DEF F!Init, LabelInv, LabelsRise

\* A chunk with the label of a frame after those that have one.
LEMMA LabelGoes ==
  ASSUME chunks \in Seq(Chunks), LabelsRise, \A i \in 1..Len(chunks) : chunks[i].label \in 1..captured.frames,
         captured.frames \in Nat, captured'.frames \in Nat, captured.frames <= captured'.frames,
         NEW c \in Chunks, chunks' = Append(chunks, c), c.label \in 1..captured'.frames,
         chunks # <<>> => LastLabel < c.label
  PROVE  /\ LabelsRise' /\ \A i \in 1..Len(chunks') : chunks'[i].label \in 1..captured'.frames
         /\ LastLabel' = c.label /\ chunks' # <<>>
<1>1. /\ Len(chunks) \in Nat /\ Len(chunks') = Len(chunks) + 1 /\ chunks'[Len(chunks) + 1] = c
      /\ \A i \in 1..Len(chunks) : chunks'[i] = chunks[i]
  OBVIOUS
<1>2. \A i \in 1..Len(chunks') : i \in 1..Len(chunks) \/ i = Len(chunks) + 1
  BY <1>1
<1>3. \A i \in 1..Len(chunks') : chunks'[i].label \in 1..captured'.frames
  BY <1>1, <1>2
<1>4. LabelsRise'
  <2>1. ASSUME NEW i \in 1..Len(chunks') - 1
        PROVE  chunks'[i].label # F!TailLabel
               /\ (chunks'[i + 1].label # F!TailLabel => chunks'[i].label < chunks'[i + 1].label)
    <3>1. i \in 1..Len(chunks) /\ chunks'[i] = chunks[i] /\ chunks[i].label \in 1..captured.frames
      BY <1>1
    <3>2. CASE i = Len(chunks)
      <4>1. chunks # <<>>
        BY <1>1, <3>1
      <4> QED BY <1>1, <3>1, <3>2, <4>1 DEF LastLabel, F!TailLabel
    <3>3. CASE i # Len(chunks)
      <4>1. i \in 1..Len(chunks) - 1 /\ i + 1 \in 1..Len(chunks) /\ chunks'[i + 1] = chunks[i + 1]
        BY <1>1, <3>1, <3>3
      <4> QED BY <3>1, <4>1 DEF LabelsRise
    <3> QED BY <3>2, <3>3
  <2> QED BY <2>1 DEF LabelsRise, F!TailLabel
<1>5. LastLabel' = c.label /\ chunks' # <<>>
  BY <1>1 DEF LastLabel
<1> QED BY <1>3, <1>4, <1>5

\* A frame that the converter gives nothing for comes after one that it gave something for.
LEMMA NeverTwice ==
  ASSUME NEW r \in Resamplers, r.pending \in FrameSizes, r.pending <= r.in,
         NEW m \in FrameSizes, m <= r.in - r.pending, r.out <= Limit(r.in - r.pending - m, ToAdapter),
         Limit(r.in, ToAdapter) <= r.out + Delay
  PROVE  FALSE
<1>1. r.in \in Nat /\ r.out \in Nat /\ r.pending \in Nat /\ m \in Nat /\ r.in - r.pending - m \in Nat
  BY FrontBounds DEF Resamplers
<1>2. Delay < 3 * m /\ Delay < 3 * r.pending
  BY ConverterIsQuick
<1>3. Limit(r.in, ToAdapter) \in Nat /\ 3 * r.in <= 2 * Limit(r.in, ToAdapter) + 1
  BY <1>1, AdapterRounds
<1>4. /\ Limit(r.in - r.pending - m, ToAdapter) \in Nat
      /\ 2 * Limit(r.in - r.pending - m, ToAdapter) <= 3 * (r.in - r.pending - m)
  BY <1>1, AdapterRounds
<1> QED BY <1>1, <1>2, <1>3, <1>4, FrontBounds

LEMMA PushLabels ==
  ASSUME FrontInv, LabelInv, NEW n \in FrameSizes, NEW heard, F!Push(n, heard)
  PROVE  LabelInv'
<1> DEFINE frames == captured.frames
           r == adapter.resampler
<1>1. /\ phase = "open" /\ phase' = "open" /\ UNCHANGED stages
      /\ captured' = [frames |-> frames + 1, samples |-> captured.samples + n]
  BY DEF F!Push
<1>2. /\ StagesOK /\ AdapterOK /\ RateOK /\ frames \in Nat /\ captured.samples \in Nat /\ chunks \in Seq(Chunks)
  BY <1>1 DEF FrontInv, RateOK
<1>3. n \in Nat /\ n > 0 /\ captured'.frames = frames + 1 /\ captured'.samples = captured.samples + n
  BY <1>1, FrontBounds
<1>4. /\ LabelsRise /\ \A i \in 1..Len(chunks) : chunks[i].label \in 1..frames
      /\ chunks # <<>> =>
           IF stages.adapts THEN frames = LastLabel + 1 \/ (frames = LastLabel + 2 /\ FrameLate)
           ELSE LastLabel = frames
  BY <1>1 DEF LabelInv
<1>5. chunks # <<>> => LastLabel \in 1..frames
  <2>1. ASSUME chunks # <<>> PROVE Len(chunks) \in 1..Len(chunks)
    BY <1>2, <2>1, EmptySeq
  <2> QED BY <1>4, <2>1 DEF LastLabel
<1>6. CASE ~stages.adapts
  <2>1. F!PushFrame(frames + 1, n, heard)
    BY <1>3, <1>6 DEF F!Push
  <2>2. PICK c \in Chunks : c.label = frames + 1 /\ chunks' = Append(chunks, c)
    BY <1>1, <1>2, <1>3, <2>1, PushFrameFacts
  <2>3. c.label \in 1..captured'.frames /\ (chunks # <<>> => LastLabel < c.label)
    BY <1>2, <1>3, <1>5, <2>2
  <2>4. /\ LabelsRise' /\ \A i \in 1..Len(chunks') : chunks'[i].label \in 1..captured'.frames
        /\ LastLabel' = c.label /\ chunks' # <<>>
    BY <1>2, <1>3, <1>4, <2>2, <2>3, LabelGoes
  <2> QED BY <1>1, <1>3, <1>6, <2>2, <2>4 DEF LabelInv
<1>7. CASE stages.adapts
  <2>1. PICK step \in F!Process(r, n, ToAdapter, FALSE) :
          /\ adapter' = [resampler |-> step.r, label |-> captured'.frames]
          /\ IF adapter.label = F!NoLabel \/ step.n = 0 THEN UNCHANGED <<blocks, rate, chunks, policy>>
             ELSE F!PushFrame(adapter.label, step.n, heard)
    BY <1>7 DEF F!Push, ToAdapter
  <2>2. /\ r \in Resamplers /\ Converts(r, ToAdapter) /\ adapter.label \in Int
        /\ IF frames = 0 THEN adapter.label = F!NoLabel /\ r.pending = 0
           ELSE adapter.label = frames /\ r.pending \in FrameSizes
    BY <1>1, <1>2, <1>7 DEF AdapterOK
  <2>3. step \in Goes(r, n, ToAdapter)
    BY <2>1 DEF Goes
  <2>4. /\ Converts(step.r, ToAdapter) /\ step.n \in Nat
        /\ step.r.in = r.in + n /\ step.r.out = r.out + step.n
        /\ IF n = 0 THEN step.r = r /\ step.n = 0 ELSE step.r.pending = n
        /\ step.n # 0 => r.pending > 0
        /\ r.pending > 0 /\ n > 0 =>
             step.r.out <= Limit(r.in, ToAdapter) /\ Limit(r.in, ToAdapter) <= step.r.out + Delay
    BY ONLY <2>2, <2>3, <1>3, RatioKinds, ProcessGoesOn
  <2>5. adapter'.resampler = step.r
    BY <2>1
  <2>6. r.in \in Nat /\ r.out \in Nat /\ r.pending \in Nat /\ r.pending <= r.in
    BY <2>2 DEF Converts, Resamplers
  <2>7. CASE ~(adapter.label = F!NoLabel \/ step.n = 0)
    <3>1. F!PushFrame(adapter.label, step.n, heard) /\ frames # 0 /\ adapter.label = frames
      BY <2>1, <2>2, <2>7
    <3>2. PICK c \in Chunks : c.label = frames /\ chunks' = Append(chunks, c)
      BY <1>1, <1>2, <2>2, <2>4, <3>1, PushFrameFacts
    <3>3. c.label \in 1..captured'.frames /\ (chunks # <<>> => LastLabel < c.label)
      BY <1>2, <1>3, <1>4, <1>5, <1>7, <3>1, <3>2
    <3>4. /\ LabelsRise' /\ \A i \in 1..Len(chunks') : chunks'[i].label \in 1..captured'.frames
          /\ LastLabel' = c.label /\ chunks' # <<>>
      BY <1>2, <1>3, <1>4, <3>2, <3>3, LabelGoes
    <3> QED BY <1>1, <1>3, <1>7, <3>2, <3>4 DEF LabelInv
  <2>8. CASE adapter.label = F!NoLabel \/ step.n = 0
    <3>1. chunks' = chunks
      BY <2>1, <2>8
    <3>2. LabelsRise' /\ LastLabel' = LastLabel
      BY <1>4, <3>1 DEF LabelsRise, LastLabel
    <3>3. \A i \in 1..Len(chunks') : chunks'[i].label \in 1..captured'.frames
      BY <1>2, <1>3, <1>4, <3>1
    <3>4. ASSUME chunks # <<>>
          PROVE  captured'.frames = LastLabel + 2 /\ FrameLate'
      <4>1. frames > 0 /\ LastLabel \in Int
        BY <1>2, <1>5, <3>4
      <4>2. r.pending \in FrameSizes /\ r.pending > 0 /\ adapter.label = frames
        <5>1. frames # 0
          BY <1>2, <4>1
        <5>2. r.pending \in FrameSizes /\ adapter.label = frames
          BY <2>2, <5>1
        <5>3. \A m \in FrameSizes : m > 0
          BY FrontBounds
        <5> QED BY <5>2, <5>3
      <4>3. step.n = 0
        BY <1>2, <2>8, <4>1, <4>2 DEF F!NoLabel
      <4>4. step.r.out = r.out /\ r.out <= Limit(r.in, ToAdapter) /\ Limit(r.in, ToAdapter) <= r.out + Delay
        BY <1>3, <2>4, <2>6, <4>2, <4>3
      <4>5. frames = LastLabel + 1
        <5>1. CASE FrameLate
          <6>1. PICK m \in FrameSizes : m <= r.in - r.pending /\ r.out <= Limit(r.in - r.pending - m, ToAdapter)
            BY <5>1 DEF FrameLate
          <6> QED BY <2>2, <2>6, <4>2, <4>4, <6>1, NeverTwice
        <5> QED BY <1>4, <1>7, <3>4, <5>1
      <4>6. FrameLate'
        <5>1. r.out <= Limit(r.in - r.pending, ToAdapter)
          BY <2>2 DEF Converts
        <5>2. step.r.in - step.r.pending = r.in /\ step.r.pending = n
          BY <1>3, <2>4, <2>6
        <5>3. r.pending <= step.r.in - step.r.pending
              /\ step.r.out <= Limit(step.r.in - step.r.pending - r.pending, ToAdapter)
          BY <2>6, <4>4, <5>1, <5>2
        <5> QED BY <2>5, <4>2, <5>3 DEF FrameLate, Limit
      <4> QED BY <1>3, <4>1, <4>5, <4>6
    <3> QED BY <1>1, <1>7, <3>1, <3>2, <3>3, <3>4 DEF LabelInv
  <2> QED BY <2>7, <2>8
<1> QED BY <1>6, <1>7

LEMMA FinishLabels ==
  ASSUME FrontInv, LabelInv, NEW heard, F!FinishAdapter(heard)
  PROVE  LabelInv'
<1> DEFINE frames == captured.frames
           r == adapter.resampler
<1>1. /\ phase = "open" /\ phase' = "flushing" /\ UNCHANGED <<stages, captured>> /\ stages.adapts
      /\ adapter.label # F!NoLabel
  BY DEF F!FinishAdapter
<1>2. /\ StagesOK /\ AdapterOK /\ RateOK /\ frames \in Nat /\ chunks \in Seq(Chunks)
  BY <1>1 DEF FrontInv, RateOK
<1>3. /\ LabelsRise /\ \A i \in 1..Len(chunks) : chunks[i].label \in 1..frames
      /\ chunks # <<>> => frames = LastLabel + 1 \/ frames = LastLabel + 2
  BY <1>1 DEF LabelInv
<1>4. /\ r \in Resamplers /\ Converts(r, ToAdapter) /\ adapter.label = frames /\ frames # 0
  BY <1>1, <1>2 DEF AdapterOK
<1>5. PICK step \in F!Process(r, 0, ToAdapter, TRUE) :
        IF step.n = 0 THEN UNCHANGED <<blocks, rate, chunks, policy>>
        ELSE F!PushFrame(adapter.label, step.n, heard)
  BY DEF F!FinishAdapter, ToAdapter
<1>6. step \in Ends(r, 0, ToAdapter) /\ 0 \in Nat
  BY <1>5 DEF Ends
<1>7. step.n \in Nat
  BY ONLY <1>4, <1>6, RatioKinds, ProcessEnds
<1>8. CASE step.n = 0
  <2>1. chunks' = chunks
    BY <1>5, <1>8
  <2> QED BY <1>1, <1>3, <2>1 DEF LabelInv, LabelsRise
<1>9. CASE step.n # 0
  <2>1. F!PushFrame(frames, step.n, heard) /\ frames \in Int
    BY <1>2, <1>4, <1>5, <1>9
  <2>2. PICK c \in Chunks : c.label = frames /\ chunks' = Append(chunks, c)
    BY <1>1, <1>2, <1>7, <2>1, PushFrameFacts
  <2>3. chunks # <<>> => LastLabel < c.label
    <3>1. ASSUME chunks # <<>> PROVE LastLabel \in 1..frames
      <4>1. Len(chunks) \in 1..Len(chunks)
        BY <1>2, <3>1, EmptySeq
      <4> QED BY <1>3, <4>1 DEF LastLabel
    <3> QED BY <1>2, <1>3, <2>2, <3>1
  <2>4. c.label \in 1..captured'.frames /\ captured'.frames = frames
    BY <1>1, <1>2, <1>4, <2>2
  <2>5. LabelsRise' /\ \A i \in 1..Len(chunks') : chunks'[i].label \in 1..captured'.frames
    BY <1>2, <1>3, <2>2, <2>3, <2>4, LabelGoes
  <2> QED BY <1>1, <2>5 DEF LabelInv
<1> QED BY <1>8, <1>9

LEMMA FinishedLabels ==
  ASSUME FrontInv, LabelInv, F!FinishPipeline
  PROVE  LabelInv'
<1>1. phase' = "finished" /\ phase \in {"open", "flushing"}
  BY DEF F!FinishPipeline
<1>2. PICK step \in F!ToAsr(blocks, TRUE) :
        chunks' = IF step.n = 0 THEN chunks ELSE Append(chunks, F!Chunk(F!TailLabel, step.n))
  BY DEF F!FinishPipeline
<1>3. /\ LabelsRise /\ \A i \in 1..Len(chunks) : chunks[i].label \in 1..captured.frames
      /\ captured.frames \in Nat /\ chunks \in Seq(Chunks)
  BY <1>1 DEF LabelInv, FrontInv, RateOK
<1>4. CASE chunks' = chunks
  BY <1>1, <1>3, <1>4 DEF LabelInv, LabelsRise
<1>5. CASE chunks' = Append(chunks, F!Chunk(F!TailLabel, step.n))
  <2> DEFINE c == F!Chunk(F!TailLabel, step.n)
  <2>1. c.label = F!TailLabel
    BY DEF F!Chunk
  <2> HIDE DEF c
  <2>2. /\ Len(chunks) \in Nat /\ Len(chunks') = Len(chunks) + 1 /\ chunks'[Len(chunks) + 1] = c
        /\ \A i \in 1..Len(chunks) : chunks'[i] = chunks[i]
    <3>1. chunks' = Append(chunks, c)
      BY <1>5 DEF c
    <3> QED BY <1>3, <3>1
  <2>3. ASSUME NEW i \in 1..Len(chunks') - 1
        PROVE  chunks'[i].label # F!TailLabel
               /\ (chunks'[i + 1].label # F!TailLabel => chunks'[i].label < chunks'[i + 1].label)
    <3>1. i \in 1..Len(chunks) /\ chunks'[i] = chunks[i] /\ chunks[i].label \in 1..captured.frames
      BY <1>3, <2>2
    <3>2. CASE i = Len(chunks)
      BY <1>3, <2>1, <2>2, <3>1, <3>2 DEF F!TailLabel
    <3>3. CASE i # Len(chunks)
      <4>1. i \in 1..Len(chunks) - 1 /\ i + 1 \in 1..Len(chunks) /\ chunks'[i + 1] = chunks[i + 1]
        BY <2>2, <3>1, <3>3
      <4> QED BY <1>3, <3>1, <4>1 DEF LabelsRise
    <3> QED BY <3>2, <3>3
  <2>4. LabelsRise'
    BY <2>3 DEF LabelsRise, F!TailLabel
  <2> QED BY <1>1, <2>4 DEF LabelInv
<1> QED BY <1>2, <1>4, <1>5

LEMMA LabelStep == ASSUME FrontInv, LabelInv, F!Next PROVE LabelInv'
<1>1. CASE F!Open
  <2>1. chunks' = <<>>
    BY <1>1 DEF F!Open, FrontInv
  <2> QED BY <2>1 DEF LabelInv, LabelsRise
<1> QED BY <1>1, PushLabels, FinishLabels, FinishedLabels DEF F!Next

LEMMA LabelSame == ASSUME LabelInv, UNCHANGED frontendVars PROVE LabelInv'
<1>1. UNCHANGED <<stages, phase, captured, adapter, chunks>>
  BY DEF frontendVars
<1>2. LabelsRise' = LabelsRise /\ LastLabel' = LastLabel /\ FrameLate' = FrameLate
  BY <1>1 DEF LabelsRise, LastLabel, FrameLate, Limit
<1> QED BY <1>1, <1>2 DEF LabelInv

LEMMA LabelsFollow == ASSUME FrontInv, LabelInv PROVE F!LabelsFollowTheCapture
<1>1. ASSUME chunks # <<>>, phase = "open"
      PROVE  captured.frames - F!Last(chunks).label \in 0..(IF stages.adapts THEN 2 ELSE 0)
  <2>1. chunks \in Seq(Chunks) /\ captured.frames \in Nat
    BY <1>1 DEF FrontInv, RateOK
  <2>2. Len(chunks) \in 1..Len(chunks)
    BY <1>1, <2>1, EmptySeq
  <2>3. LastLabel \in Int /\ F!Last(chunks).label = LastLabel
    <3>1. chunks[Len(chunks)] \in Chunks
      BY <2>1, <2>2, InSequence
    <3> QED BY <3>1 DEF LastLabel, F!Last, Chunks
  <2> QED BY <1>1, <2>1, <2>3 DEF LabelInv
<1> QED BY <1>1 DEF LabelInv, LabelsRise, F!LabelsFollowTheCapture, F!TailLabel

----------------------------------------------------------------------------
(* What the streamer does with texts: sequences of words and marks.        *)

LEMMA StreamBounds ==
  /\ Ahead \in Nat /\ Keep \in Nat /\ Ahead < Keep /\ MinSpeech \in Nat /\ MaxAudio \in Nat /\ Cap \in Nat /\ Cap > 0
  /\ DigitalSteps \in Nat /\ DigitalSteps > 0 /\ DigitalSteps < Cap /\ PauseSteps \in Nat /\ PauseSteps > 0
  /\ SilenceSteps \in Nat /\ SilenceSteps > 0 /\ MaxTail \in Nat
BY LocalSpeechAssumption DEF LocalSpeechAssumption

\* A set of numbers up to m has a greatest one.
LEMMA GreatestOf ==
  ASSUME NEW m \in Nat, NEW T \in SUBSET (1..m), T # {}
  PROVE  Q!Max(T) \in T /\ \A k \in T : k <= Q!Max(T)
<1> DEFINE D == {m - k : k \in T}
<1>1. D \subseteq Nat /\ D # {}
  <2>1. \A k \in T : m - k \in Nat
    OBVIOUS
  <2>2. PICK k \in T : TRUE
    OBVIOUS
  <2>3. m - k \in D
    OBVIOUS
  <2> QED BY <2>1, <2>3
<1>2. PICK d \in D : \A e \in D : ~(<<e, d>> \in OpToRel(<, Nat))
  BY <1>1, NatLessThanWellFounded, WFMin
<1>3. \A e \in D : ~(e < d)
  BY <1>1, <1>2 DEF OpToRel
<1>4. PICK n \in T : d = m - n
  OBVIOUS
<1>5. ASSUME NEW k \in T PROVE k <= n
  <2>1. ~(m - k < m - n)
    BY <1>3, <1>4
  <2> QED BY <2>1
<1>6. \E x \in T : \A y \in T : x >= y
  BY <1>5
<1> QED BY <1>6 DEF Q!Max

LEMMA StartsWith ==
  ASSUME NEW S, NEW s \in Seq(S), NEW t \in Seq(S)
  PROVE  Q!IsPrefix(s, t) <=> Len(s) <= Len(t) /\ \A i \in 1..Len(s) : s[i] = t[i]
<1>1. Len(s) \in Nat /\ Len(t) \in Nat
  OBVIOUS
<1>2. SubSeq(s, 1, Len(s)) = s
  OBVIOUS
<1>3. ASSUME Len(s) <= Len(t)
      PROVE  Len(SubSeq(t, 1, Len(s))) = Len(s) /\ \A i \in 1..Len(s) : SubSeq(t, 1, Len(s))[i] = t[i]
  BY <1>1, <1>3
<1>4. ASSUME Len(s) <= Len(t), \A i \in 1..Len(s) : s[i] = t[i]
      PROVE  s = SubSeq(t, 1, Len(s))
  <2>1. SubSeq(t, 1, Len(s)) \in Seq(S)
    BY <1>1, <1>4
  <2> QED BY <1>1, <1>3, <1>4, <2>1, SeqEqual
<1> QED BY <1>2, <1>3, <1>4 DEF Q!IsPrefix

\* The words and marks of a text up to the last word, or all of a text without words.
LEMMA StripFacts ==
  ASSUME NEW text \in Text
  PROVE  /\ Q!StripEdge(text) \in Text /\ Len(Q!StripEdge(text)) <= Len(text)
         /\ \A i \in 1..Len(Q!StripEdge(text)) : Q!StripEdge(text)[i] = text[i]
         /\ \A i \in 1..Len(text) : text[i] # Q!Mark => i <= Len(Q!StripEdge(text))
         /\ \/ Q!StripEdge(text) = text /\ \A i \in 1..Len(text) : text[i] = Q!Mark
            \/ Len(Q!StripEdge(text)) \in 1..Len(text) /\ text[Len(Q!StripEdge(text))] # Q!Mark
<1> DEFINE words == {i \in DOMAIN text : text[i] # Q!Mark}
<1>1. Len(text) \in Nat /\ DOMAIN text = 1..Len(text)
  BY DEF Text
<1>2. Q!StripEdge(text) = IF words = {} THEN text ELSE SubSeq(text, 1, Q!Max(words))
  BY DEF Q!StripEdge
<1>3. CASE words = {}
  BY <1>1, <1>2, <1>3
<1>4. CASE words # {}
  <2> DEFINE n == Q!Max(words)
  <2>1. words \in SUBSET (1..Len(text))
    BY <1>1
  <2>2. n \in words /\ \A k \in words : k <= n
    BY <1>1, <1>4, <2>1, GreatestOf
  <2>3. n \in 1..Len(text) /\ text[n] # Q!Mark /\ \A i \in 1..Len(text) : text[i] # Q!Mark => i <= n
    BY <1>1, <2>2
  <2> HIDE DEF n
  <2>4. Q!StripEdge(text) = SubSeq(text, 1, n)
    BY <1>2, <1>4 DEF n
  <2>5. /\ SubSeq(text, 1, n) \in Text /\ Len(SubSeq(text, 1, n)) = n
        /\ \A i \in 1..n : SubSeq(text, 1, n)[i] = text[i]
    BY <1>1, <2>3 DEF Text
  <2> DEFINE stripped == Q!StripEdge(text)
  <2>6. stripped \in Text /\ Len(stripped) = n /\ \A i \in 1..n : stripped[i] = text[i]
    BY <2>4, <2>5
  <2> HIDE DEF stripped
  <2>7. /\ stripped \in Text /\ Len(stripped) \in 1..Len(text) /\ text[Len(stripped)] # Q!Mark
        /\ \A i \in 1..Len(stripped) : stripped[i] = text[i]
        /\ \A i \in 1..Len(text) : text[i] # Q!Mark => i <= Len(stripped)
    BY <2>3, <2>6
  <2>8. Len(stripped) <= Len(text)
    BY <1>1, <2>7
  <2> QED BY <2>7, <2>8 DEF stripped
<1> QED BY <1>3, <1>4

LEMMA JoinFacts ==
  ASSUME NEW s \in Text, NEW t \in Text
  PROVE  /\ s \o t \in Text /\ Len(s) \in Nat /\ Len(t) \in Nat /\ Len(s \o t) = Len(s) + Len(t)
         /\ \A i \in 1..Len(s) : (s \o t)[i] = s[i]
         /\ \A i \in 1..Len(t) : (s \o t)[Len(s) + i] = t[i]
BY DEF Text

\* What was shown stays, but for a mark at its end, when the next text starts with what was committed.
LEMMA ShownStays ==
  ASSUME NEW done \in Text, NEW held \in Text, NEW text \in Text, Q!IsPrefix(held, text),
         NEW kept \in {text, Q!StripEdge(text)}
  PROVE  Q!IsPrefix(Q!StripEdge(done \o held), done \o kept)
<1> DEFINE shown == Q!StripEdge(done \o held)
<1>1. /\ Len(held) \in Nat /\ Len(text) \in Nat /\ Len(done) \in Nat
      /\ Len(held) <= Len(text) /\ \A i \in 1..Len(held) : held[i] = text[i]
  BY StartsWith DEF Text
<1>2. /\ done \o held \in Text /\ Len(done \o held) = Len(done) + Len(held)
      /\ \A i \in 1..Len(done) : (done \o held)[i] = done[i]
      /\ \A i \in 1..Len(held) : (done \o held)[Len(done) + i] = held[i]
  BY JoinFacts
<1>3. /\ shown \in Text /\ Len(shown) <= Len(done \o held)
      /\ \A i \in 1..Len(shown) : shown[i] = (done \o held)[i]
      /\ \/ shown = done \o held /\ \A i \in 1..Len(done \o held) : (done \o held)[i] = Q!Mark
         \/ Len(shown) \in 1..Len(done \o held) /\ (done \o held)[Len(shown)] # Q!Mark
  BY <1>2, StripFacts
<1>4. /\ kept \in Text /\ Len(kept) \in Nat /\ Len(kept) <= Len(text)
      /\ \A i \in 1..Len(kept) : kept[i] = text[i]
      /\ \A i \in 1..Len(text) : text[i] # Q!Mark => i <= Len(kept)
      /\ kept = text \/ \E i \in 1..Len(text) : text[i] # Q!Mark /\ i = Len(kept)
  <2>1. CASE kept = text
    BY <1>1, <2>1
  <2>2. CASE kept = Q!StripEdge(text)
    <3>1. Len(Q!StripEdge(text)) \in Nat
      BY StripFacts DEF Text
    <3> QED BY <1>1, <2>2, <3>1, StripFacts
  <2> QED BY <2>1, <2>2
<1>5. /\ done \o kept \in Text /\ Len(done \o kept) = Len(done) + Len(kept)
      /\ \A i \in 1..Len(done) : (done \o kept)[i] = done[i]
      /\ \A i \in 1..Len(kept) : (done \o kept)[Len(done) + i] = kept[i]
  BY <1>4, JoinFacts
<1> HIDE DEF shown
<1>6. Len(shown) \in Nat
  BY <1>3 DEF Text
<1>7. Len(shown) <= Len(done) + Len(kept)
  <2>1. CASE Len(shown) <= Len(done)
    BY <1>1, <1>4, <1>6, <2>1
  <2>2. CASE Len(shown) > Len(done) /\ Len(shown) \in 1..Len(done \o held)
             /\ (done \o held)[Len(shown)] # Q!Mark
    <3> DEFINE k == Len(shown) - Len(done)
    <3>1. k \in 1..Len(held) /\ Len(shown) = Len(done) + k
      BY <1>1, <1>2, <1>6, <2>2
    <3>2. held[k] # Q!Mark
      BY <1>2, <2>2, <3>1
    <3>3. k \in 1..Len(text) /\ text[k] # Q!Mark
      BY <1>1, <3>1, <3>2
    <3>4. k <= Len(kept)
      BY <1>4, <3>3
    <3> HIDE DEF k
    <3> QED BY <1>1, <1>4, <3>1, <3>4
  <2>3. CASE shown = done \o held /\ \A i \in 1..Len(done \o held) : (done \o held)[i] = Q!Mark
    <3>1. \A i \in 1..Len(held) : text[i] = Q!Mark
      <4>1. ASSUME NEW i \in 1..Len(held) PROVE text[i] = Q!Mark
        <5>1. Len(done) + i \in 1..Len(done \o held)
          BY <1>1, <1>2
        <5> QED BY <1>1, <1>2, <2>3, <5>1
      <4> QED BY <4>1
    <3>2. Len(held) <= Len(kept)
      BY <1>1, <1>4, <3>1
    <3> QED BY <1>1, <1>2, <1>4, <2>3, <3>2
  <2> QED BY <1>1, <1>3, <1>6, <2>1, <2>2, <2>3
<1>8. ASSUME NEW i \in 1..Len(shown) PROVE shown[i] = (done \o kept)[i]
  <2>1. shown[i] = (done \o held)[i]
    BY <1>3
  <2>2. CASE i <= Len(done)
    BY <1>1, <1>2, <1>5, <1>6, <2>1, <2>2
  <2>3. CASE i > Len(done)
    <3> DEFINE k == i - Len(done)
    <3>1. k \in 1..Len(held) /\ k \in 1..Len(kept) /\ i = Len(done) + k
      BY <1>1, <1>2, <1>3, <1>4, <1>6, <1>7, <2>3
    <3> HIDE DEF k
    <3>2. (done \o held)[i] = held[k] /\ (done \o kept)[i] = kept[k]
      BY <1>2, <1>5, <3>1
    <3> QED BY <1>1, <1>4, <2>1, <3>1, <3>2
  <2>4. i <= Len(done) \/ i > Len(done)
    BY <1>1, <1>6
  <2> QED BY <2>2, <2>3, <2>4
<1>9. Q!IsPrefix(shown, done \o kept)
  BY <1>3, <1>5, <1>7, <1>8, StartsWith DEF Text
<1> QED BY <1>9 DEF shown
----------------------------------------------------------------------------
(* The steps of the streamer.                                              *)

Heard == {<<>>, <<"a">>, <<"a", ".">>, <<"a", ".", "b">>, <<"a", "b">>}
LEMMA HeardTexts ==
  ASSUME NEW heard \in Heard
  PROVE  heard \in Text /\ (heard = <<>> \/ heard[1] # Q!Mark)
<1> DEFINE Letters == {"a", "b", "."}
<1>1. Text = Seq(Letters) /\ Q!Mark = "."
  BY DEF Text, Q!Mark
<1>2. <<>> \in Seq(Letters) /\ <<"a">> \in Seq(Letters) /\ <<"a", ".">> \in Seq(Letters)
  OBVIOUS
<1>3. <<"a", ".", "b">> \in Seq(Letters) /\ <<"a", "b">> \in Seq(Letters)
  OBVIOUS
<1>4. \A word \in {<<"a">>, <<"a", ".">>, <<"a", ".", "b">>, <<"a", "b">>} : word[1] = "a" /\ "a" # "."
  OBVIOUS
<1> HIDE DEF Letters
<1>5. heard \in Seq(Letters)
  BY <1>2, <1>3 DEF Heard
<1>6. heard = <<>> \/ heard[1] # "."
  BY <1>4 DEF Heard
<1> QED BY <1>1, <1>5, <1>6

\* A text that starts with a word and ends at its last word does not end with a mark.
LEMMA NoMarkAtTheEnd ==
  ASSUME NEW text \in Text, text = <<>> \/ text[1] # Q!Mark
  PROVE  ~Q!EndsWithMark(Q!StripEdge(text))
<1> DEFINE stripped == Q!StripEdge(text)
<1>1. /\ Len(text) \in Nat /\ (text = <<>> <=> Len(text) = 0)
      /\ stripped \in Text /\ \A i \in 1..Len(stripped) : stripped[i] = text[i]
      /\ \/ stripped = text /\ \A i \in 1..Len(text) : text[i] = Q!Mark
         \/ Len(stripped) \in 1..Len(text) /\ text[Len(stripped)] # Q!Mark
  BY StripFacts, EmptySeq DEF Text
<1> HIDE DEF stripped
<1>2. CASE stripped = text /\ \A i \in 1..Len(text) : text[i] = Q!Mark
  <2>1. text = <<>>
    BY <1>1, <1>2
  <2> QED BY <1>2, <2>1 DEF Q!EndsWithMark, stripped
<1>3. CASE Len(stripped) \in 1..Len(text) /\ text[Len(stripped)] # Q!Mark
  <2>1. stripped[Len(stripped)] # Q!Mark
    BY <1>1, <1>3
  <2> QED BY <2>1 DEF Q!EndsWithMark, Q!Last, stripped
<1> QED BY <1>1, <1>2, <1>3

LEMMA StreamMin ==
  ASSUME NEW a \in Int, NEW b \in Int
  PROVE  Q!Min({a, b}) = (IF a <= b THEN a ELSE b)
<1>1. \E x \in {a, b} : \A y \in {a, b} : x <= y
  OBVIOUS
<1> QED BY <1>1 DEF Q!Min

\* The segment starts behind the encoder, and the encoder behind the newest sample.
LEMMA Positions ==
  ASSUME StreamerTypes
  PROVE  /\ Len(audio) \in Nat /\ Q!Encoded \in Nat /\ Q!Encoded <= Len(audio) /\ Q!FirstKept \in Nat
         /\ seg.start \in Nat /\ seg.decoded \in Nat /\ Q!Start = seg.start
         /\ Q!Steps = Q!Encoded - seg.start /\ Q!Steps \in Nat
<1>1. Len(audio) \in Nat /\ seg.start \in Nat /\ seg.decoded \in Nat
  BY DEF StreamerTypes, Segment
<1>2. Q!Encoded \in Nat /\ Q!Encoded <= Len(audio) /\ Q!FirstKept \in Nat
  BY <1>1, StreamBounds DEF Q!Encoded, Q!FirstKept
<1>3. seg.start <= Q!Encoded
  BY <1>1, <1>2 DEF StreamerTypes
<1>4. Q!Start = seg.start
  BY <1>1, <1>2, <1>3, StreamMin DEF Q!Start
<1> QED BY <1>1, <1>2, <1>3, <1>4 DEF Q!Steps

LEMMA FreshFacts ==
  ASSUME NEW n \in Nat
  PROVE  /\ Q!Fresh(n) \in Segment /\ Q!Fresh(n).start = n /\ Q!Fresh(n).decoded = n
         /\ Q!Fresh(n).latched = FALSE /\ Q!Fresh(n).prompt = "none" /\ Q!Fresh(n).candidate = Q!None
         /\ Q!Fresh(n).committed = <<>> /\ Q!Fresh(n).hypothesis = <<>>
<1>1. <<>> \in Text /\ Q!None \in Texts /\ "none" \in Q!Prompts
  BY DEF Text, Texts, Q!Prompts
<1> QED BY <1>1 DEF Q!Fresh, Segment

\* A segment that begins has no words, no prompt and no speech.
LEMMA SegmentBegins ==
  ASSUME NEW n \in Nat, seg' = Q!Fresh(n), n <= Q!Encoded',
         opt' \in [open : BOOLEAN, context : BOOLEAN, eager : BOOLEAN], vad' \in BOOLEAN,
         audio' \in Seq(Q!Kinds), Len(audio') <= MaxAudio, completed' \in Text, Unopened', Q!MarksAreConfirmed'
  PROVE  StreamerInv'
<1>1. /\ seg' \in Segment /\ seg'.start = n /\ seg'.decoded = n /\ seg'.latched = FALSE /\ seg'.prompt = "none"
      /\ seg'.candidate = Q!None /\ seg'.committed = <<>> /\ seg'.hypothesis = <<>>
  BY FreshFacts
<1>2. StreamerTypes'
  BY <1>1, StreamBounds DEF StreamerTypes
<1>3. LatchedOnSpeech' /\ CommittedUnder' /\ CandidateLasts'
  BY <1>1 DEF LatchedOnSpeech, CommittedUnder, CandidateLasts, Q!None
<1>4. Silences'
  BY <1>1, StreamBounds DEF Silences
<1> QED BY <1>2, <1>3, <1>4 DEF StreamerInv

LEMMA StreamInit == Q!Init => StreamerInv
<1> SUFFICES ASSUME Q!Init PROVE StreamerInv
  OBVIOUS
<1>1. /\ opt = [open |-> FALSE, context |-> FALSE, eager |-> FALSE] /\ vad = TRUE /\ audio = <<>>
      /\ seg = Q!Fresh(0) /\ completed = <<>> /\ lastRoll = Q!NoRoll
  BY DEF Q!Init
<1>2. /\ seg \in Segment /\ seg.start = 0 /\ seg.decoded = 0 /\ seg.latched = FALSE /\ seg.prompt = "none"
      /\ seg.candidate = Q!None /\ seg.committed = <<>> /\ seg.hypothesis = <<>>
  BY <1>1, FreshFacts
<1>3. Q!Encoded \in Nat
  BY <1>1, StreamBounds DEF Q!Encoded
<1>4. StreamerTypes
  BY <1>1, <1>2, <1>3, StreamBounds DEF StreamerTypes, Text
<1>5. LatchedOnSpeech /\ CommittedUnder /\ CandidateLasts
  BY <1>2 DEF LatchedOnSpeech, CommittedUnder, CandidateLasts, Q!None
<1>6. Silences
  BY <1>2, StreamBounds DEF Silences
<1>7. Q!MarksAreConfirmed /\ Unopened
  BY <1>1 DEF Q!MarksAreConfirmed, Q!NoRoll, Q!EndsWithMark, Unopened
<1> QED BY <1>4, <1>5, <1>6, <1>7 DEF StreamerInv

LEMMA StreamOpen == ASSUME StreamerInv, Q!Open PROVE StreamerInv'
<1>0. PICK context, eager \in BOOLEAN : opt' = [open |-> TRUE, context |-> context, eager |-> eager]
  BY DEF Q!Open
<1>1. /\ ~opt.open /\ UNCHANGED <<audio, seg, completed, lastRoll>> /\ opt'.open
      /\ opt' \in [open : BOOLEAN, context : BOOLEAN, eager : BOOLEAN] /\ vad' \in BOOLEAN
  <2>1. vad' \in BOOLEAN
    BY DEF Q!Open, Q!Detector
  <2>2. opt' \in [open : BOOLEAN, context : BOOLEAN, eager : BOOLEAN] /\ opt'.open
    BY <1>0
  <2> QED BY <2>1, <2>2 DEF Q!Open
<1>2. StreamerTypes /\ audio = <<>> /\ seg = Q!Fresh(0) /\ lastRoll = Q!NoRoll
  BY <1>1 DEF StreamerInv, Unopened
<1>3. audio' \in Seq(Q!Kinds) /\ Len(audio') <= MaxAudio /\ completed' \in Text
  BY <1>1, <1>2 DEF StreamerTypes
<1>4. Q!Encoded' \in Nat
  BY <1>1, <1>2, StreamBounds DEF Q!Encoded
<1>5. Unopened'
  BY <1>1 DEF Unopened
<1>6. Q!MarksAreConfirmed'
  BY <1>1, <1>2 DEF Q!MarksAreConfirmed, Q!NoRoll, Q!EndsWithMark
<1> QED BY <1>1, <1>2, <1>3, <1>4, <1>5, <1>6, SegmentBegins

LEMMA StreamSilence == ASSUME StreamerInv, Q!StartSilence PROVE StreamerInv'
<1>1. /\ opt.open /\ seg' = Q!Fresh(0) /\ audio' = <<>> /\ completed' = <<>> /\ lastRoll' = Q!NoRoll /\ opt' = opt
      /\ vad' \in BOOLEAN
  BY DEF Q!StartSilence, Q!Feed
<1>2. opt' \in [open : BOOLEAN, context : BOOLEAN, eager : BOOLEAN] /\ audio' \in Seq(Q!Kinds) /\ completed' \in Text
  BY <1>1 DEF StreamerInv, StreamerTypes, Text
<1>3. Len(audio') <= MaxAudio /\ Q!Encoded' \in Nat
  BY <1>1, StreamBounds DEF Q!Encoded
<1>4. Unopened'
  BY <1>1 DEF Unopened
<1>5. Q!MarksAreConfirmed'
  BY <1>1 DEF Q!MarksAreConfirmed, Q!NoRoll, Q!EndsWithMark
<1> QED BY <1>1, <1>2, <1>3, <1>4, <1>5, SegmentBegins

LEMMA StreamInsert == ASSUME StreamerInv, NEW sound \in Q!Kinds, Q!Insert(sound) PROVE StreamerInv'
<1>1. /\ opt.open /\ Len(audio) < MaxAudio /\ audio' = Append(audio, sound)
      /\ UNCHANGED <<opt, seg, completed, lastRoll>> /\ vad' \in BOOLEAN /\ (vad' => vad)
  BY DEF Q!Insert, Q!Feed, StreamerInv, StreamerTypes
<1>2. StreamerTypes
  BY DEF StreamerInv
<1>3. /\ Len(audio) \in Nat /\ Q!Encoded \in Nat /\ Q!Encoded <= Len(audio) /\ Q!FirstKept \in Nat
      /\ seg.start \in Nat /\ seg.decoded \in Nat /\ seg.decoded <= Q!Encoded
  BY <1>2, Positions DEF StreamerTypes
<1>4. /\ audio' \in Seq(Q!Kinds) /\ Len(audio') = Len(audio) + 1 /\ Len(audio') <= MaxAudio
      /\ \A i \in 1..Len(audio) : audio'[i] = audio[i]
  BY <1>1, <1>2, <1>3, StreamBounds DEF StreamerTypes
<1>5. Q!Encoded <= Q!Encoded' /\ Q!FirstKept <= Q!FirstKept' /\ Q!Encoded' \in Nat /\ Q!FirstKept' \in Nat
  BY <1>3, <1>4, StreamBounds DEF Q!Encoded, Q!FirstKept
<1>6. StreamerTypes'
  BY <1>1, <1>2, <1>3, <1>4, <1>5 DEF StreamerTypes
<1>7. LatchedOnSpeech'
  <2>1. {i \in seg.start + 1..seg.decoded : audio'[i] = "speech"} = SpeechIn(seg.start, seg.decoded)
    BY <1>3, <1>4 DEF SpeechIn
  <2>2. SpeechIn(seg.start, seg.decoded)' = SpeechIn(seg.start, seg.decoded)
    BY <1>1, <2>1 DEF SpeechIn
  <2> QED BY <1>1, <2>2 DEF StreamerInv, LatchedOnSpeech
<1>8. CommittedUnder'
  BY <1>1 DEF StreamerInv, CommittedUnder, PromptOf
<1>9. CandidateLasts' /\ Q!MarksAreConfirmed' /\ Unopened'
  BY <1>1 DEF StreamerInv, CandidateLasts, Q!MarksAreConfirmed, Unopened
<1>10. Silences'
  <2>1. ASSUME Q!Unheard(seg.start)' PROVE Q!Unheard(seg.start)
    <3>1. seg.start >= Q!FirstKept' /\ \A i \in seg.start + 1..Len(audio') : audio'[i] = "zero"
      BY <1>1, <2>1 DEF Q!Unheard
    <3>2. \A i \in seg.start + 1..Len(audio) : i \in seg.start + 1..Len(audio') /\ audio'[i] = audio[i]
      BY <1>3, <1>4
    <3>3. seg.start >= Q!FirstKept
      BY <1>3, <1>5, <3>1
    <3> QED BY <3>1, <3>2, <3>3 DEF Q!Unheard
  <2> QED BY <1>1, <2>1 DEF StreamerInv, Silences
<1> QED BY <1>6, <1>7, <1>8, <1>9, <1>10 DEF StreamerInv
----------------------------------------------------------------------------
(* A decode: the prompt it takes, what it finds due, and what it commits.  *)

\* The prompt of a segment with words stays, and the context is latched on speech.
LEMMA PromptedFacts ==
  ASSUME StreamerInv
  PROVE  /\ Q!Prompted \in Segment
         /\ Q!Prompted.start = seg.start /\ Q!Prompted.committed = seg.committed
         /\ Q!Prompted.candidate = seg.candidate /\ Q!Prompted.quiet = seg.quiet /\ Q!Prompted.same = seg.same
         /\ PromptOf(Q!Prompted)
         /\ seg.committed # <<>> => Q!Prompted.prompt = seg.prompt
         /\ vad /\ opt.context /\ (Q!Prompted.prompt = "context" \/ Q!Prompted.latched) => seg.latched \/ Q!HoldsSpeech
<1>1. /\ seg \in Segment /\ opt.context \in BOOLEAN /\ vad \in BOOLEAN
      /\ seg.latched \in BOOLEAN /\ seg.gated \in BOOLEAN
  BY DEF StreamerInv, StreamerTypes, Segment
<1>2. "plain" \in Q!Prompts /\ "context" \in Q!Prompts /\ "plain" # "context"
  BY DEF Q!Prompts
<1>3. CASE ~opt.context \/ seg.latched
  <2> DEFINE prompt == IF opt.context THEN "context" ELSE "plain"
  <2>1. Q!Prompted = [seg EXCEPT !.prompt = prompt]
    BY <1>3 DEF Q!Prompted, Q!WithPrompt
  <2>2. prompt \in Q!Prompts
    BY <1>2
  <2> HIDE DEF prompt
  <2>3. /\ Q!Prompted \in Segment /\ Q!Prompted.prompt = prompt /\ Q!Prompted.latched = seg.latched
        /\ Q!Prompted.start = seg.start /\ Q!Prompted.committed = seg.committed
        /\ Q!Prompted.candidate = seg.candidate /\ Q!Prompted.quiet = seg.quiet /\ Q!Prompted.same = seg.same
    BY <1>1, <2>1, <2>2 DEF Segment
  <2>4. seg.committed # <<>> => seg.prompt = prompt
    BY <1>3 DEF StreamerInv, CommittedUnder, PromptOf, prompt
  <2>5. PromptOf(Q!Prompted)
    BY <1>3, <2>3 DEF PromptOf, prompt
  <2>6. opt.context => seg.latched
    BY <1>3
  <2> QED BY <2>3, <2>4, <2>5, <2>6
<1>4. CASE opt.context /\ ~seg.latched /\ vad /\ ~Q!HoldsSpeech
  <2>1. Q!Prompted = [[seg EXCEPT !.gated = TRUE] EXCEPT !.prompt = "plain"]
    BY <1>4 DEF Q!Prompted, Q!WithPrompt
  <2>2. /\ Q!Prompted \in Segment /\ Q!Prompted.prompt = "plain" /\ Q!Prompted.latched = seg.latched /\ Q!Prompted.gated
        /\ Q!Prompted.start = seg.start /\ Q!Prompted.committed = seg.committed
        /\ Q!Prompted.candidate = seg.candidate /\ Q!Prompted.quiet = seg.quiet /\ Q!Prompted.same = seg.same
    BY <1>1, <1>2, <2>1 DEF Segment
  <2>3. seg.committed # <<>> => seg.prompt = "plain"
    BY <1>4 DEF StreamerInv, CommittedUnder, PromptOf
  <2>4. PromptOf(Q!Prompted)
    BY <1>4, <2>2 DEF PromptOf
  <2> QED BY <1>2, <1>4, <2>2, <2>3, <2>4
<1>5. CASE opt.context /\ ~seg.latched /\ ~vad /\ ~seg.gated
  <2>1. Q!Prompted = [seg EXCEPT !.prompt = "context"]
    BY <1>5 DEF Q!Prompted, Q!WithPrompt
  <2>2. /\ Q!Prompted \in Segment /\ Q!Prompted.prompt = "context" /\ Q!Prompted.latched = seg.latched
        /\ Q!Prompted.gated = seg.gated
        /\ Q!Prompted.start = seg.start /\ Q!Prompted.committed = seg.committed
        /\ Q!Prompted.candidate = seg.candidate /\ Q!Prompted.quiet = seg.quiet /\ Q!Prompted.same = seg.same
    BY <1>1, <1>2, <2>1 DEF Segment
  <2>3. seg.committed # <<>> => seg.prompt = "context"
    BY <1>5 DEF StreamerInv, CommittedUnder, PromptOf
  <2>4. PromptOf(Q!Prompted)
    BY <1>5, <2>2 DEF PromptOf
  <2> QED BY <1>5, <2>2, <2>3, <2>4
<1>6. CASE opt.context /\ ~seg.latched /\ (vad => Q!HoldsSpeech) /\ (~vad => seg.gated)
  <2>1. Q!Prompted = Q!Latch
    BY <1>6 DEF Q!Prompted
  <2>2. CASE seg.committed # <<>>
    <3>1. Q!Prompted = [[seg EXCEPT !.deferred = TRUE] EXCEPT !.prompt = "plain"]
      BY <2>1, <2>2 DEF Q!Latch, Q!WithPrompt
    <3>2. /\ Q!Prompted \in Segment /\ Q!Prompted.prompt = "plain" /\ Q!Prompted.latched = seg.latched
          /\ Q!Prompted.gated = seg.gated
          /\ Q!Prompted.start = seg.start /\ Q!Prompted.committed = seg.committed
          /\ Q!Prompted.candidate = seg.candidate /\ Q!Prompted.quiet = seg.quiet /\ Q!Prompted.same = seg.same
      BY <1>1, <1>2, <3>1 DEF Segment
    <3>3. seg.prompt = "plain" /\ seg.gated
      BY <1>6, <2>2 DEF StreamerInv, CommittedUnder, PromptOf
    <3>4. PromptOf(Q!Prompted)
      BY <1>6, <3>2, <3>3 DEF PromptOf
    <3> QED BY <1>2, <1>6, <3>2, <3>3, <3>4
  <2>3. CASE seg.committed = <<>>
    <3>1. Q!Prompted = [[seg EXCEPT !.latched = TRUE] EXCEPT !.prompt = "context"]
      BY <2>1, <2>3 DEF Q!Latch, Q!WithPrompt
    <3>2. /\ Q!Prompted \in Segment /\ Q!Prompted.prompt = "context" /\ Q!Prompted.latched
          /\ Q!Prompted.start = seg.start /\ Q!Prompted.committed = seg.committed
          /\ Q!Prompted.candidate = seg.candidate /\ Q!Prompted.quiet = seg.quiet /\ Q!Prompted.same = seg.same
      BY <1>1, <1>2, <3>1 DEF Segment
    <3>3. PromptOf(Q!Prompted)
      BY <1>6, <3>2 DEF PromptOf
    <3> QED BY <1>6, <2>3, <3>2, <3>3
  <2> QED BY <2>2, <2>3
<1> QED BY <1>1, <1>3, <1>4, <1>5, <1>6

\* The segment with its new hypothesis.
Decoded(text) ==
  [Q!Prompted EXCEPT !.hypothesis = text, !.decoded = Q!Encoded,
     !.same = IF text = seg.hypothesis THEN @ + (Q!Encoded - seg.decoded) ELSE 0]
Tracked(text) == Q!Observe(Decoded(text), text, Q!Encoded - seg.decoded)
Tracks(text) ==
  [Decoded(text) EXCEPT !.previous = text, !.candidate = Tracked(text).candidate, !.quiet = Tracked(text).quiet]

\* Why a segment rolls.
RollsFor(reason, text) ==
  \/ opt.eager
  \/ reason \in {"cap", "digital_silence"}
  \/ reason # "none" /\ reason = Tracked(text).reason
  \/ reason = "silence" /\ Q!SilenceRollDue(Decoded(text), text)

LEMMA DecodeIs ==
  ASSUME StreamerTypes, NEW heard, Q!Decode(heard), NEW text, text = Q!Hypothesis(heard)
  PROVE  /\ opt.open /\ Q!Encoded > seg.decoded /\ Q!CanHear(heard) /\ UNCHANGED <<opt, vad, audio>>
         /\ \/ \E reason : RollsFor(reason, text) /\ Q!Rolls(Decoded(text), reason, text)
            \/ /\ Q!Steps < Cap /\ ~Q!DigitalRollDue /\ UNCHANGED <<completed, lastRoll>>
               /\ ~opt.eager => Tracked(text).reason = "none"
               /\ \E held \in Q!Stable(Decoded(text), text) :
                    /\ Q!IsPrefix(seg.committed, held)
                    /\ seg' = [(IF opt.eager THEN Decoded(text) ELSE Tracks(text)) EXCEPT !.committed = held]
<1> DEFINE due == IF Tracked(text).reason # "none" THEN Tracked(text).reason
                  ELSE IF Q!SilenceRollDue(Decoded(text), text) THEN "silence" ELSE "none"
<1>1. /\ opt.open /\ Q!Encoded > seg.decoded /\ Q!CanHear(heard) /\ UNCHANGED <<opt, vad, audio>>
      /\ IF Q!UpstreamRolls(text) THEN Q!Rolls(Decoded(text), IF opt.eager THEN "eager" ELSE "cap", text)
         ELSE IF Q!DigitalRollDue THEN Q!Rolls(Decoded(text), "digital_silence", text)
         ELSE IF ~opt.eager /\ due # "none" THEN Q!Rolls(Decoded(text), due, text)
         ELSE /\ \E held \in Q!Stable(Decoded(text), text) :
                   /\ Q!IsPrefix(seg.committed, held)
                   /\ seg' = [(IF opt.eager THEN Decoded(text) ELSE Tracks(text)) EXCEPT !.committed = held]
              /\ UNCHANGED <<completed, lastRoll>>
  BY DEF Q!Decode, Decoded, Tracked, Tracks
<1>2. CASE Q!UpstreamRolls(text)
  <2>1. RollsFor(IF opt.eager THEN "eager" ELSE "cap", text)
    BY DEF RollsFor
  <2> QED BY <1>1, <1>2, <2>1
<1>3. CASE ~Q!UpstreamRolls(text) /\ Q!DigitalRollDue
  <2>1. RollsFor("digital_silence", text)
    BY DEF RollsFor
  <2> QED BY <1>1, <1>3, <2>1
<1>4. CASE ~Q!UpstreamRolls(text) /\ ~Q!DigitalRollDue /\ ~opt.eager /\ due # "none"
  <2>1. RollsFor(due, text)
    BY <1>4 DEF RollsFor
  <2> QED BY <1>1, <1>4, <2>1
<1>5. CASE ~Q!UpstreamRolls(text) /\ ~Q!DigitalRollDue /\ ~(~opt.eager /\ due # "none")
  <2>1. ~opt.eager => Tracked(text).reason = "none"
    BY <1>5
  <2>2. ~(Q!Steps >= Cap)
    BY <1>5 DEF Q!UpstreamRolls
  <2>3. Q!Steps < Cap
    BY <2>2, Positions, StreamBounds
  <2> HIDE DEF due
  <2> QED BY <1>1, <1>5, <2>1, <2>3
<1> QED BY <1>2, <1>3, <1>4, <1>5

LEMMA DecodedFacts ==
  ASSUME StreamerInv, Q!Encoded > seg.decoded, NEW text \in Text
  PROVE  /\ Decoded(text) \in Segment /\ Decoded(text).start = seg.start /\ Decoded(text).decoded = Q!Encoded
         /\ Decoded(text).committed = seg.committed /\ Decoded(text).hypothesis = text
         /\ Decoded(text).candidate = seg.candidate /\ Decoded(text).quiet = seg.quiet
         /\ Decoded(text).prompt = Q!Prompted.prompt /\ Decoded(text).latched = Q!Prompted.latched
         /\ Decoded(text).gated = Q!Prompted.gated
         /\ Decoded(text).same = IF text = seg.hypothesis THEN seg.same + (Q!Encoded - seg.decoded) ELSE 0
<1> DEFINE p == Q!Prompted
           same == IF text = seg.hypothesis THEN p.same + (Q!Encoded - seg.decoded) ELSE 0
<1>1. p \in Segment /\ p.same = seg.same /\ p.start = seg.start /\ p.committed = seg.committed
      /\ p.candidate = seg.candidate /\ p.quiet = seg.quiet
  BY PromptedFacts
<1>2. Q!Encoded \in Nat /\ seg.decoded \in Nat
  BY Positions DEF StreamerInv
<1>3. same \in Nat
  <2>1. p.same \in Nat
    BY <1>1 DEF Segment
  <2> HIDE DEF p
  <2> QED BY <1>2, <2>1
<1>4. Decoded(text) = [p EXCEPT !.hypothesis = text, !.decoded = Q!Encoded, !.same = same]
  BY DEF Decoded
<1> HIDE DEF p, same
<1>5. /\ Decoded(text) \in Segment /\ Decoded(text).start = p.start /\ Decoded(text).decoded = Q!Encoded
      /\ Decoded(text).committed = p.committed /\ Decoded(text).hypothesis = text
      /\ Decoded(text).candidate = p.candidate /\ Decoded(text).quiet = p.quiet
      /\ Decoded(text).prompt = p.prompt /\ Decoded(text).latched = p.latched
      /\ Decoded(text).gated = p.gated /\ Decoded(text).same = same
  BY <1>1, <1>2, <1>3, <1>4 DEF Segment
<1> QED BY <1>1, <1>5 DEF p, same

\* A candidate is watched for as long as the hypothesis is what it was.
LEMMA TrackedFacts ==
  ASSUME StreamerInv, Q!Encoded > seg.decoded, NEW text \in Text, ~opt.eager
  PROVE  /\ Tracked(text).reason \in {"none", "pause", "punctuation", "confirmed"}
         /\ Tracked(text).reason = "pause" => Decoded(text).same >= PauseSteps
         /\ Tracked(text).reason = "none" =>
              /\ Tracked(text).candidate \in Texts /\ Tracked(text).quiet \in Nat
              /\ Tracked(text).candidate # Q!None =>
                   Tracked(text).candidate = text /\ Tracked(text).quiet <= Decoded(text).same
<1> DEFINE s == Decoded(text)
           new == Q!Encoded - seg.decoded
           watches == Q!Watches(text)
<1>1. /\ s \in Segment /\ s.candidate = seg.candidate /\ s.quiet = seg.quiet /\ s.hypothesis = text
      /\ s.same = IF text = seg.hypothesis THEN seg.same + new ELSE 0
  BY DecodedFacts
<1>2. new \in Nat /\ seg.quiet \in Nat /\ seg.same \in Nat /\ seg.candidate \in Texts /\ PauseSteps \in Nat
  BY Positions, StreamBounds DEF StreamerInv, StreamerTypes, Segment
<1>3. seg.candidate # Q!None => seg.candidate = seg.hypothesis /\ seg.quiet <= seg.same
  BY DEF StreamerInv, CandidateLasts
<1>4. s.same \in Nat
  BY <1>1 DEF Segment
<1> HIDE DEF s, new
<1>5. /\ watches.reason = "none" /\ watches.candidate \in Texts /\ watches.quiet = 0
      /\ watches.candidate # Q!None => watches.candidate = text
  BY DEF Q!Watches, Q!Tracked, Texts
<1> HIDE DEF watches
<1>6. Tracked(text) = Q!Observe(s, text, new)
  BY DEF Tracked, s, new
<1>7. CASE Tracked(text) = watches
  BY <1>4, <1>5, <1>7 DEF s
<1>8. CASE s.candidate # Q!None /\ text = s.candidate
  <2> DEFINE quiet == s.quiet + new
             reason == IF quiet >= PauseSteps /\ Q!Steps >= MinSteps THEN "pause" ELSE "none"
  <2>1. Tracked(text) = [candidate |-> text, quiet |-> quiet, reason |-> reason]
    BY <1>6, <1>8 DEF Q!Observe, Q!Tracked
  <2>2. s.same = seg.same + new /\ seg.quiet <= seg.same
    BY <1>1, <1>3, <1>8
  <2>3. quiet \in Nat /\ quiet <= s.same
    BY <1>1, <1>2, <2>2
  <2>4. reason \in {"none", "pause"} /\ (reason = "pause" => s.same >= PauseSteps)
    BY <1>2, <1>4, <2>3
  <2>5. text \in Texts
    BY DEF Texts
  <2> HIDE DEF quiet, reason
  <2> QED BY <2>1, <2>3, <2>4, <2>5 DEF s
<1>9. CASE Tracked(text).reason \in {"punctuation", "confirmed"}
  BY <1>9
<1>10. \/ Tracked(text) = watches \/ (s.candidate # Q!None /\ text = s.candidate)
       \/ Tracked(text).reason \in {"punctuation", "confirmed"}
  BY <1>6 DEF Q!Observe, Q!Tracked, watches
<1> QED BY <1>7, <1>8, <1>9, <1>10

LEMMA HypothesisFacts ==
  ASSUME NEW heard \in Heard
  PROVE  /\ Q!Hypothesis(heard) \in Text
         /\ Q!Hypothesis(heard) = <<>> \/ Q!Hypothesis(heard)[1] # Q!Mark
BY HeardTexts DEF Q!Hypothesis, Text

\* The text that is left of a segment starts with what was committed of it.
LEMMA CommittedIsHeard ==
  ASSUME StreamerInv, opt.open, NEW heard \in Heard, Q!CanHear(heard)
  PROVE  Q!IsPrefix(seg.committed, Q!Hypothesis(heard))
<1>1. seg.committed \in Text /\ heard \in Text /\ Q!Hypothesis(heard) \in Text
  BY HypothesisFacts, HeardTexts DEF StreamerInv, StreamerTypes, Segment
<1>2. ASSUME seg.committed = <<>> PROVE Q!IsPrefix(seg.committed, Q!Hypothesis(heard))
  <2>1. Len(seg.committed) = 0 /\ Len(Q!Hypothesis(heard)) \in Nat
    BY <1>1, <1>2 DEF Text
  <2> QED BY <1>1, <2>1, StartsWith DEF Text
<1>3. CASE Q!DigitalSilence
  <2>1. Q!Unheard(seg.start)
    BY <1>3, Positions DEF Q!DigitalSilence, StreamerInv
  <2> QED BY <1>2, <2>1 DEF StreamerInv, Silences
<1>4. CASE ~Q!DigitalSilence
  BY <1>2, <1>4 DEF Q!CanHear, Q!Hypothesis
<1> QED BY <1>3, <1>4

\* What stands when a segment rolled: its mark was confirmed, or nothing was said since.
LEMMA RollMarks ==
  ASSUME StreamerInv, Q!Encoded > seg.decoded, NEW heard \in Heard, NEW text, text = Q!Hypothesis(heard),
         NEW reason, RollsFor(reason, text), Q!Rolls(Decoded(text), reason, text), ~opt.eager, opt' = opt
  PROVE  Q!MarksAreConfirmed'
<1> DEFINE kept == Q!Kept(reason, text)
           speaks == \E i \in Q!Start + 1..Q!Encoded : i > Q!Encoded - SilenceSteps /\ audio[i] = "speech"
<1>1. /\ lastRoll'.final = kept /\ lastRoll'.same = Decoded(text).same
      /\ lastRoll'.speech = speaks
  BY DEF Q!Rolls
<1>2. text \in Text /\ (text = <<>> \/ text[1] # Q!Mark)
  BY HypothesisFacts
<1>3. ~Q!EndsWithMark(Q!StripEdge(text))
  BY <1>2, NoMarkAtTheEnd
<1>4. CASE reason \notin {"pause", "silence"}
  <2>1. kept = Q!StripEdge(text)
    BY <1>4 DEF Q!Kept
  <2> HIDE DEF kept, speaks
  <2> QED BY <1>1, <1>3, <2>1 DEF Q!MarksAreConfirmed, Q!EndsWithMark
<1>5. CASE reason = "pause"
  <2>1. Tracked(text).reason = "pause"
    BY <1>5 DEF RollsFor
  <2>2. Decoded(text).same >= PauseSteps
    BY <1>2, <2>1, TrackedFacts
  <2> HIDE DEF kept, speaks
  <2> QED BY <1>1, <2>2 DEF Q!MarksAreConfirmed
<1>6. CASE reason = "silence"
  <2>1. Q!SilenceRollDue(Decoded(text), text)
    <3>1. Tracked(text).reason # "silence"
      BY <1>2, TrackedFacts
    <3> QED BY <1>6, <3>1 DEF RollsFor
  <2> DEFINE S == Q!Speech(Q!Start, Q!Encoded)
  <2>2. S # {} /\ Q!Encoded - Q!Max(S) >= SilenceSteps
    BY <2>1 DEF Q!SilenceRollDue, Q!LastSpeechEnd
  <2>3. S = {i \in Q!Start + 1..Q!Encoded : i > Q!FirstKept /\ audio[i] = "speech"}
    BY DEF Q!Speech
  <2>4. Q!Start \in Nat /\ Q!Encoded \in Nat /\ Q!FirstKept \in Nat /\ SilenceSteps \in Nat
    BY Positions, StreamBounds DEF StreamerInv
  <2>5. S \in SUBSET (1..Q!Encoded)
    BY <2>3, <2>4
  <2>6. Q!Max(S) \in S /\ \A k \in S : k <= Q!Max(S)
    BY <2>2, <2>4, <2>5, GreatestOf
  <2>7. ASSUME NEW i \in Q!Start + 1..Q!Encoded, i > Q!Encoded - SilenceSteps, audio[i] = "speech"
        PROVE  FALSE
    <3>1. Q!Max(S) \in Nat /\ Q!Max(S) > Q!FirstKept
      BY <2>3, <2>4, <2>6
    <3>2. i > Q!Max(S) /\ i > Q!FirstKept
      BY <2>2, <2>4, <2>7, <3>1
    <3>3. i \in S
      BY <2>3, <2>7, <3>2
    <3> QED BY <2>4, <2>6, <3>1, <3>2, <3>3
  <2>8. ~speaks
    BY <2>7
  <2> HIDE DEF kept, speaks
  <2> QED BY <1>1, <2>8 DEF Q!MarksAreConfirmed
<1> QED BY <1>4, <1>5, <1>6

\* QwenStreamer has its own copy of the operators of FiniteSets.
LEMMA SameCardinality == \A S : Q!Cardinality(S) = Cardinality(S)
BY DEF Q!Cardinality, Cardinality

\* Of more audio there is no less speech.
LEMMA MoreSpeech ==
  ASSUME NEW from \in Int, NEW to \in Int, NEW S \in SUBSET SpeechIn(from, to), Cardinality(S) >= MinSpeech
  PROVE  Cardinality(SpeechIn(from, to)) >= MinSpeech
<1> DEFINE T == SpeechIn(from, to)
<1>1. IsFiniteSet(from + 1..to) /\ T \in SUBSET (from + 1..to)
  BY FS_Interval DEF SpeechIn
<1>2. IsFiniteSet(T)
  BY <1>1, FS_Subset
<1> HIDE DEF T
<1>3. S \in SUBSET T
  BY DEF T
<1>4. IsFiniteSet(S) /\ Cardinality(S) <= Cardinality(T)
  BY <1>2, <1>3, FS_Subset
<1>5. Cardinality(S) \in Nat /\ Cardinality(T) \in Nat
  BY <1>2, <1>4, FS_CardinalityType
<1> QED BY <1>4, <1>5, StreamBounds DEF T

LEMMA StreamRoll ==
  ASSUME StreamerInv, opt.open, UNCHANGED <<opt, vad, audio>>, Q!Encoded > seg.decoded,
         NEW heard \in Heard, NEW text, text = Q!Hypothesis(heard),
         NEW reason, RollsFor(reason, text), Q!Rolls(Decoded(text), reason, text)
  PROVE  StreamerInv'
<1>1. PICK tail \in 0..MaxTail : seg' = Q!Fresh(Q!RollStart(tail))
  BY DEF Q!Rolls
<1>2. StreamerTypes /\ Q!Encoded \in Nat /\ MaxTail \in Nat
  BY Positions, StreamBounds DEF StreamerInv
<1>3. Q!Encoded' = Q!Encoded
  BY DEF Q!Encoded
<1>4. Q!RollStart(tail) \in Nat /\ Q!RollStart(tail) <= Q!Encoded'
  BY <1>2, <1>3 DEF Q!RollStart
<1>5. completed' \in Text
  <2>1. text \in Text /\ completed \in Text
    BY <1>2, HypothesisFacts DEF StreamerTypes
  <2>2. Q!Kept(reason, text) \in Text
    BY <2>1, StripFacts DEF Q!Kept
  <2>3. completed' = completed \o Q!Kept(reason, text)
    BY DEF Q!Rolls
  <2> QED BY <2>1, <2>2, <2>3, JoinFacts
<1>6. /\ opt' \in [open : BOOLEAN, context : BOOLEAN, eager : BOOLEAN] /\ vad' \in BOOLEAN
      /\ audio' \in Seq(Q!Kinds) /\ Len(audio') <= MaxAudio
  BY <1>2 DEF StreamerTypes
<1>7. Q!MarksAreConfirmed'
  <2>1. CASE opt.eager
    BY <2>1 DEF Q!MarksAreConfirmed
  <2>2. CASE ~opt.eager
    BY <2>2, RollMarks
  <2> QED BY <2>1, <2>2
<1>8. Unopened'
  BY DEF Unopened
<1> HIDE DEF StreamerInv
<1> QED BY <1>1, <1>4, <1>5, <1>6, <1>7, <1>8, SegmentBegins

\* A decode that rolls nothing: the segment has its hypothesis, and what is committed of it grows.
LEMMA StreamGrows ==
  ASSUME StreamerInv, opt.open, UNCHANGED <<opt, vad, audio, completed, lastRoll>>, Q!Encoded > seg.decoded,
         NEW heard \in Heard, NEW text, text = Q!Hypothesis(heard), Q!Steps < Cap, ~Q!DigitalRollDue,
         ~opt.eager => Tracked(text).reason = "none",
         NEW held \in Q!Stable(Decoded(text), text),
         seg' = [(IF opt.eager THEN Decoded(text) ELSE Tracks(text)) EXCEPT !.committed = held]
  PROVE  /\ StreamerInv'
         /\ seg'.prompt = Q!Prompted.prompt /\ seg'.committed = held /\ held \in Text
<1>1. text \in Text /\ StreamerTypes
  BY HypothesisFacts DEF StreamerInv
<1>2. /\ Decoded(text) \in Segment /\ Decoded(text).start = seg.start /\ Decoded(text).decoded = Q!Encoded
      /\ Decoded(text).committed = seg.committed /\ Decoded(text).hypothesis = text
      /\ Decoded(text).candidate = seg.candidate /\ Decoded(text).quiet = seg.quiet
      /\ Decoded(text).prompt = Q!Prompted.prompt /\ Decoded(text).latched = Q!Prompted.latched
      /\ Decoded(text).gated = Q!Prompted.gated
  BY <1>1, DecodedFacts
<1>3. held \in Text /\ (text = <<>> => held = <<>>)
  <2>1. PICK n \in 0..Len(text) : held = SubSeq(text, 1, n)
    BY DEF Q!Stable
  <2>2. Len(text) \in Nat
    BY <1>1 DEF Text
  <2>3. SubSeq(text, 1, n) \in Text
    BY <1>1, <2>2 DEF Text
  <2>4. ASSUME text = <<>> PROVE SubSeq(text, 1, n) = <<>>
    <3>1. n = 0
      BY <2>2, <2>4
    <3> QED BY <2>4, <3>1
  <2> QED BY <2>1, <2>3, <2>4
<1>4. Q!Encoded \in Nat /\ seg.start \in Nat /\ seg.decoded \in Nat /\ Q!Start = seg.start /\ Q!Steps = Q!Encoded - seg.start
      /\ Q!Encoded' = Q!Encoded /\ Len(audio) \in Nat
  BY <1>1, Positions DEF Q!Encoded
<1>5. /\ seg' \in Segment /\ seg'.start = seg.start /\ seg'.decoded = Q!Encoded /\ seg'.committed = held
      /\ seg'.hypothesis = text /\ seg'.prompt = Q!Prompted.prompt /\ seg'.latched = Q!Prompted.latched
      /\ seg'.gated = Q!Prompted.gated
      /\ ~opt.eager /\ seg'.candidate # Q!None => seg'.candidate = text /\ seg'.quiet <= seg'.same
  <2>1. CASE opt.eager
    <3>1. seg' = [Decoded(text) EXCEPT !.committed = held]
      BY <2>1
    <3> QED BY <1>2, <1>3, <2>1, <3>1 DEF Segment
  <2>2. CASE ~opt.eager
    <3> DEFINE d == Decoded(text)
               t == Tracked(text)
    <3>1. /\ t.candidate \in Texts /\ t.quiet \in Nat
          /\ t.candidate # Q!None => t.candidate = text /\ t.quiet <= d.same
      BY <1>1, <2>2, TrackedFacts
    <3>2. seg' = [[d EXCEPT !.previous = text, !.candidate = t.candidate, !.quiet = t.quiet] EXCEPT !.committed = held]
      BY <2>2 DEF Tracks
    <3>3. text \in Texts
      BY <1>1 DEF Texts
    <3>4. /\ d \in Segment /\ d.start = seg.start /\ d.decoded = Q!Encoded /\ d.hypothesis = text
          /\ d.prompt = Q!Prompted.prompt /\ d.latched = Q!Prompted.latched /\ d.gated = Q!Prompted.gated
      BY <1>2
    <3> HIDE DEF d, t
    <3> DEFINE e == [d EXCEPT !.previous = text, !.candidate = t.candidate, !.quiet = t.quiet]
    <3>5. /\ e \in Segment /\ e.start = d.start /\ e.decoded = d.decoded
          /\ e.hypothesis = d.hypothesis /\ e.prompt = d.prompt /\ e.latched = d.latched
          /\ e.gated = d.gated /\ e.candidate = t.candidate /\ e.quiet = t.quiet /\ e.same = d.same
      BY <3>1, <3>3, <3>4 DEF Segment
    <3>6. seg' = [e EXCEPT !.committed = held]
      BY <3>2
    <3> HIDE DEF e
    <3>7. /\ seg' \in Segment /\ seg'.start = e.start /\ seg'.decoded = e.decoded /\ seg'.committed = held
          /\ seg'.hypothesis = e.hypothesis /\ seg'.prompt = e.prompt /\ seg'.latched = e.latched
          /\ seg'.gated = e.gated /\ seg'.candidate = e.candidate /\ seg'.quiet = e.quiet /\ seg'.same = e.same
      BY <1>3, <3>5, <3>6 DEF Segment
    <3> QED BY <3>1, <3>4, <3>5, <3>7
  <2> QED BY <2>1, <2>2
<1>6. StreamerTypes'
  <2>1. seg'.start <= seg'.decoded /\ seg'.decoded <= Q!Encoded' /\ seg'.decoded <= seg'.start + Cap
    <3>1. seg.start <= seg.decoded /\ seg'.start = seg.start /\ seg'.decoded = Q!Encoded
      BY <1>1, <1>5 DEF StreamerTypes
    <3>2. Q!Encoded - seg.start < Cap
      BY <1>4
    <3>3. Q!Encoded <= Q!Encoded' /\ seg.start <= Q!Encoded /\ Q!Encoded <= seg.start + Cap
      <4>1. Q!Encoded \in Nat /\ seg.start \in Nat /\ seg.decoded \in Nat /\ Cap \in Nat /\ Q!Encoded' = Q!Encoded
        BY <1>4, StreamBounds
      <4> QED BY <3>1, <3>2, <4>1
    <3> QED BY <3>1, <3>3
  <2> QED BY <1>1, <1>5, <2>1 DEF StreamerTypes
<1>7. LatchedOnSpeech'
  <2>1. ASSUME vad, opt.context, seg'.prompt = "context" \/ seg'.latched
        PROVE  Cardinality(SpeechIn(seg.start, Q!Encoded)) >= MinSpeech
    <3>1. seg.latched \/ Q!HoldsSpeech
      BY <1>5, <2>1, PromptedFacts
    <3>2. seg.start \in Int /\ Q!Encoded \in Int
      BY <1>4
    <3>3. CASE seg.latched
      <4>1. Cardinality(SpeechIn(seg.start, seg.decoded)) >= MinSpeech
        BY <2>1, <3>3 DEF StreamerInv, LatchedOnSpeech
      <4>2. SpeechIn(seg.start, seg.decoded) \in SUBSET SpeechIn(seg.start, Q!Encoded)
        BY <1>4 DEF SpeechIn
      <4> QED BY <3>2, <4>1, <4>2, MoreSpeech
    <3>4. CASE Q!HoldsSpeech
      <4>1. Q!Cardinality(Q!Speech(seg.start, Q!Encoded)) >= MinSpeech
        BY <1>4, <3>4 DEF Q!HoldsSpeech, Q!SpeechSamples
      <4>2. Cardinality(Q!Speech(seg.start, Q!Encoded)) >= MinSpeech
        BY <4>1, SameCardinality
      <4>3. Q!Speech(seg.start, Q!Encoded) \in SUBSET SpeechIn(seg.start, Q!Encoded)
        BY DEF Q!Speech, SpeechIn
      <4> QED BY <3>2, <4>2, <4>3, MoreSpeech
    <3> QED BY <3>1, <3>3, <3>4
  <2>2. SpeechIn(seg.start, seg.decoded)' = SpeechIn(seg.start, Q!Encoded)
    BY <1>5 DEF SpeechIn
  <2> QED BY <2>1, <2>2 DEF LatchedOnSpeech
<1>8. CommittedUnder'
  <2>1. PromptOf(Q!Prompted)
    BY PromptedFacts
  <2> QED BY <1>5, <2>1 DEF CommittedUnder, PromptOf
<1>9. CandidateLasts'
  BY <1>5 DEF CandidateLasts
<1>10. Silences'
  <2>1. ASSUME Q!Unheard(seg.start)
        PROVE  text = <<>> /\ Q!Encoded - seg.start < DigitalSteps
    <3>1. Q!DigitalSilence
      BY <1>4, <2>1 DEF Q!DigitalSilence
    <3>2. ~(Q!Steps >= DigitalSteps)
      BY <3>1 DEF Q!DigitalRollDue
    <3> QED BY <1>4, <3>1, <3>2, StreamBounds DEF Q!Hypothesis
  <2>2. Q!Unheard(seg.start)' = Q!Unheard(seg.start)
    BY <1>5 DEF Q!Unheard, Q!FirstKept
  <2> QED BY <1>3, <1>5, <2>1, <2>2 DEF Silences, Q!Unheard, Q!FirstKept
<1>11. Unopened' /\ Q!MarksAreConfirmed'
  BY DEF StreamerInv, Unopened, Q!MarksAreConfirmed
<1> QED BY <1>3, <1>5, <1>6, <1>7, <1>8, <1>9, <1>10, <1>11 DEF StreamerInv

LEMMA StreamDecode == ASSUME StreamerInv, NEW heard \in Heard, Q!Decode(heard) PROVE StreamerInv'
<1> DEFINE text == Q!Hypothesis(heard)
<1>1. StreamerTypes
  BY DEF StreamerInv
<1>2. /\ opt.open /\ Q!Encoded > seg.decoded /\ Q!CanHear(heard) /\ UNCHANGED <<opt, vad, audio>>
      /\ \/ \E reason : RollsFor(reason, text) /\ Q!Rolls(Decoded(text), reason, text)
         \/ /\ Q!Steps < Cap /\ ~Q!DigitalRollDue /\ UNCHANGED <<completed, lastRoll>>
            /\ ~opt.eager => Tracked(text).reason = "none"
            /\ \E held \in Q!Stable(Decoded(text), text) :
                 /\ Q!IsPrefix(seg.committed, held)
                 /\ seg' = [(IF opt.eager THEN Decoded(text) ELSE Tracks(text)) EXCEPT !.committed = held]
  BY <1>1, DecodeIs
<1> QED BY <1>2, StreamRoll, StreamGrows

LEMMA StreamStep == ASSUME StreamerInv, Q!Next PROVE StreamerInv'
BY StreamOpen, StreamSilence, StreamInsert, StreamDecode DEF Q!Next, Heard

LEMMA StreamSame == ASSUME StreamerInv, UNCHANGED streamerVars PROVE StreamerInv'
<1>1. UNCHANGED <<opt, vad, audio, seg, completed, lastRoll>>
  BY DEF streamerVars
<1> QED BY <1>1 DEF StreamerInv, StreamerTypes, Unopened, LatchedOnSpeech, SpeechIn, CommittedUnder, PromptOf,
                     CandidateLasts,                     Silences, Q!MarksAreConfirmed, Q!Encoded, Q!Unheard, Q!FirstKept

LEMMA StreamGuards ==
  ASSUME StreamerInv
  PROVE  Q!TypeOK /\ Q!ContextNeedsSpeech /\ Q!SilenceSaysNothing /\ Q!SilentSegmentsStayShort /\ Q!MarksAreConfirmed
<1>1. /\ Len(audio) \in Nat /\ Q!Encoded \in Nat /\ Q!Encoded <= Len(audio) /\ seg.start \in Nat /\ seg.decoded \in Nat
      /\ Q!Start = seg.start /\ MaxAudio \in Nat /\ Cap \in Nat
  BY Positions, StreamBounds DEF StreamerInv
<1>2. Q!TypeOK
  <2>1. seg.start \in 0..MaxAudio /\ seg.decoded \in 0..MaxAudio /\ seg.decoded - seg.start <= Cap
    BY <1>1 DEF StreamerInv, StreamerTypes
  <2>2. /\ seg.committed \in Q!Text /\ seg.hypothesis \in Q!Text /\ completed \in Q!Text
        /\ seg.previous \in Q!Text \cup {Q!None} /\ seg.candidate \in Q!Text \cup {Q!None}
        /\ seg.latched \in BOOLEAN /\ seg.gated \in BOOLEAN /\ seg.deferred \in BOOLEAN /\ seg.prompt \in Q!Prompts
    BY DEF StreamerInv, StreamerTypes, Segment, Text, Texts, Q!Text
  <2> QED BY <2>1, <2>2 DEF StreamerInv, StreamerTypes, Q!TypeOK
<1>3. Q!ContextNeedsSpeech
  <2>1. {i \in Q!Start + 1..seg.decoded : audio[i] = "speech"} = SpeechIn(seg.start, seg.decoded)
    BY <1>1 DEF SpeechIn
  <2>2. Q!Cardinality({i \in Q!Start + 1..seg.decoded : audio[i] = "speech"}) = Cardinality(SpeechIn(seg.start, seg.decoded))
    BY <2>1, SameCardinality
  <2> QED BY <2>2 DEF StreamerInv, LatchedOnSpeech, Q!ContextNeedsSpeech
<1>4. Q!SilenceSaysNothing /\ Q!SilentSegmentsStayShort
  BY <1>1 DEF StreamerInv, Silences, Q!DigitalSilence, Q!SilenceSaysNothing, Q!SilentSegmentsStayShort
<1> QED BY <1>2, <1>3, <1>4 DEF StreamerInv

----------------------------------------------------------------------------
(* What a step never takes back.                                           *)

KeepsPrompt == seg.committed # <<>> /\ seg'.prompt # seg.prompt => seg'.prompt = "none"
KeepsWords ==
  audio' # <<>> => Q!IsPrefix(Q!StripEdge(completed \o seg.committed), completed' \o seg'.committed)
KeepsSpeech ==
  policy'.speaking # policy.speaking =>
    IF policy'.speaking THEN policy'.loud >= MinLoud ELSE policy'.low >= MinLow

LEMMA TextIsPrefix ==
  ASSUME NEW s \in Text, NEW t \in Text, NEW u \in Text, Q!IsPrefix(t, u)
  PROVE  Q!IsPrefix(Q!StripEdge(s \o t), s \o u)
BY ShownStays

LEMMA DecodeKeeps == ASSUME StreamerInv, NEW heard \in Heard, Q!Decode(heard) PROVE KeepsPrompt /\ KeepsWords
<1> DEFINE text == Q!Hypothesis(heard)
<1>1. StreamerTypes /\ completed \in Text /\ seg.committed \in Text /\ text \in Text
  BY HypothesisFacts DEF StreamerInv, StreamerTypes, Segment
<1>2. /\ opt.open /\ Q!Encoded > seg.decoded /\ Q!CanHear(heard) /\ UNCHANGED <<opt, vad, audio>>
      /\ \/ \E reason : RollsFor(reason, text) /\ Q!Rolls(Decoded(text), reason, text)
         \/ /\ Q!Steps < Cap /\ ~Q!DigitalRollDue /\ UNCHANGED <<completed, lastRoll>>
            /\ ~opt.eager => Tracked(text).reason = "none"
            /\ \E held \in Q!Stable(Decoded(text), text) :
                 /\ Q!IsPrefix(seg.committed, held)
                 /\ seg' = [(IF opt.eager THEN Decoded(text) ELSE Tracks(text)) EXCEPT !.committed = held]
  BY <1>1, DecodeIs
<1>3. Q!IsPrefix(seg.committed, text)
  BY <1>2, CommittedIsHeard
<1>4. ASSUME NEW reason, RollsFor(reason, text), Q!Rolls(Decoded(text), reason, text)
      PROVE  KeepsPrompt /\ KeepsWords
  <2> DEFINE kept == Q!Kept(reason, text)
  <2>1. PICK tail \in 0..MaxTail : seg' = Q!Fresh(Q!RollStart(tail))
    BY <1>4 DEF Q!Rolls
  <2>2. Q!RollStart(tail) \in Nat
    BY <1>1, Positions, StreamBounds DEF Q!RollStart
  <2>3. seg'.prompt = "none" /\ seg'.committed = <<>>
    BY <2>1, <2>2, FreshFacts
  <2>4. kept \in {text, Q!StripEdge(text)} /\ completed' = completed \o kept
    BY <1>4 DEF Q!Rolls, Q!Kept
  <2> HIDE DEF kept, text
  <2>5. Q!IsPrefix(Q!StripEdge(completed \o seg.committed), completed \o kept)
    BY <1>1, <1>3, <2>4, ShownStays
  <2>6. kept \in Text
    BY <1>1, <2>4, StripFacts
  <2>7. completed' \o seg'.committed = completed \o kept
    <3>1. completed \o kept \in Text
      BY <1>1, <2>6, JoinFacts
    <3> QED BY <2>3, <2>4, <3>1 DEF Text
  <2> QED BY <2>3, <2>5, <2>7 DEF KeepsPrompt, KeepsWords
<1>5. ASSUME Q!Steps < Cap, ~Q!DigitalRollDue, UNCHANGED <<completed, lastRoll>>,
             ~opt.eager => Tracked(text).reason = "none",
             NEW held \in Q!Stable(Decoded(text), text), Q!IsPrefix(seg.committed, held),
             seg' = [(IF opt.eager THEN Decoded(text) ELSE Tracks(text)) EXCEPT !.committed = held]
      PROVE  KeepsPrompt /\ KeepsWords
  <2>1. seg'.prompt = Q!Prompted.prompt /\ seg'.committed = held /\ held \in Text
    BY <1>2, <1>5, StreamGrows
  <2>2. KeepsPrompt
    BY <2>1, PromptedFacts DEF KeepsPrompt
  <2>3. KeepsWords
    BY <1>1, <1>5, <2>1, TextIsPrefix DEF KeepsWords
  <2> QED BY <2>2, <2>3
<1> QED BY <1>2, <1>4, <1>5

LEMMA StreamKeeps ==
  ASSUME StreamerInv, Q!Next \/ UNCHANGED streamerVars
  PROVE  (KeepsPrompt /\ KeepsWords) \/ UNCHANGED Q!vars
<1>1. seg.committed \in Text /\ completed \in Text /\ Q!IsPrefix(seg.committed, seg.committed)
  <2>1. seg.committed \in Text /\ completed \in Text /\ Len(seg.committed) \in Nat
    BY DEF StreamerInv, StreamerTypes, Segment, Text
  <2> QED BY <2>1, StartsWith DEF Text
<1>2. ASSUME UNCHANGED <<seg, completed>> PROVE KeepsPrompt /\ KeepsWords
  BY <1>1, <1>2, TextIsPrefix DEF KeepsPrompt, KeepsWords
<1>3. CASE Q!Open
  BY <1>2, <1>3 DEF Q!Open
<1>4. CASE Q!StartSilence
  <2>1. seg' = Q!Fresh(0) /\ audio' = <<>>
    BY <1>4 DEF Q!StartSilence
  <2> QED BY <2>1, FreshFacts DEF KeepsPrompt, KeepsWords
<1>5. CASE \E sound \in Q!Kinds : Q!Insert(sound)
  BY <1>2, <1>5 DEF Q!Insert
<1>6. CASE \E heard \in Heard : Q!Decode(heard)
  BY <1>6, DecodeKeeps
<1>7. CASE UNCHANGED streamerVars
  BY <1>7 DEF streamerVars, Q!vars
<1> QED BY <1>3, <1>4, <1>5, <1>6, <1>7 DEF Q!Next, Heard

LEMMA PolicyHears == ASSUME PolicyInv, NEW heard, policy' = F!Heard(heard) PROVE PolicyInv' /\ KeepsSpeech
<1> DEFINE next == F!Observe(policy, heard)
           loud == IF heard = "high" THEN policy.loud + 1 ELSE 0
           low == IF heard = "low" THEN policy.low + 1 ELSE 0
           more == policy.silence + 1
           again == policy.speech + 1
<1>1. policy \in Policies /\ MinLoud \in Nat /\ MinLow \in Nat
  BY LocalSpeechAssumption DEF PolicyInv, LocalSpeechAssumption, Policies
<1>2. /\ policy.speech \in Nat /\ policy.silence \in Nat /\ policy.loud \in Nat /\ policy.low \in Nat
      /\ policy.speaking \in BOOLEAN
  BY <1>1 DEF Policies
<1>3. /\ policy.speaking = TRUE => policy.silence <= policy.low
      /\ policy.speaking = FALSE => policy.speech <= policy.loud
  BY DEF PolicyInv
<1>4. /\ loud \in Nat /\ low \in Nat /\ more \in Nat /\ again \in Nat
      /\ policy.speaking = TRUE /\ heard = "low" => more <= low
      /\ policy.speaking = FALSE /\ heard = "high" => again <= loud
  BY <1>2, <1>3
<1>5. next \in Policies /\ next.loud = policy.loud /\ next.low = policy.low
      /\ (next.speaking = TRUE => next.silence <= low) /\ (next.speaking = FALSE => next.speech <= loud)
      /\ (next.speaking = TRUE /\ policy.speaking = FALSE => loud >= MinLoud)
      /\ (next.speaking = FALSE /\ policy.speaking = TRUE => low >= MinLow)
  <2>1. CASE policy.speaking = TRUE /\ heard # "low"
    <3>1. next = [policy EXCEPT !.silence = 0]
      BY <2>1 DEF F!Observe
    <3> HIDE DEF next, loud, low, more, again
    <3>2. /\ next \in Policies /\ next.loud = policy.loud /\ next.low = policy.low
          /\ next.speaking = TRUE /\ next.silence = 0 /\ next.speech = policy.speech
      BY <1>1, <1>2, <1>4, <2>1, <3>1 DEF Policies
    <3>3. next.silence <= low
      BY <1>1, <1>2, <1>4, <2>1, <3>2
    <3> QED BY <2>1, <3>2, <3>3
  <2>2. CASE policy.speaking = TRUE /\ heard = "low" /\ more >= MinLow
    <3>1. next = [policy EXCEPT !.silence = more, !.speaking = FALSE, !.speech = 0]
      BY <2>2 DEF F!Observe
    <3> HIDE DEF next, loud, low, more, again
    <3>2. /\ next \in Policies /\ next.loud = policy.loud /\ next.low = policy.low
          /\ next.speaking = FALSE /\ next.silence = more /\ next.speech = 0
      BY <1>1, <1>2, <1>4, <2>2, <3>1 DEF Policies
    <3>3. next.speech <= loud /\ low >= MinLow
      BY <1>1, <1>2, <1>4, <2>2, <3>2
    <3> QED BY <2>2, <3>2, <3>3
  <2>3. CASE policy.speaking = TRUE /\ heard = "low" /\ ~(more >= MinLow)
    <3>1. next = [policy EXCEPT !.silence = more]
      BY <2>3 DEF F!Observe
    <3> HIDE DEF next, loud, low, more, again
    <3>2. /\ next \in Policies /\ next.loud = policy.loud /\ next.low = policy.low
          /\ next.speaking = TRUE /\ next.silence = more /\ next.speech = policy.speech
      BY <1>1, <1>2, <1>4, <2>3, <3>1 DEF Policies
    <3>3. next.silence <= low
      BY <1>1, <1>2, <1>4, <2>3, <3>2
    <3> QED BY <2>3, <3>2, <3>3
  <2>4. CASE policy.speaking = FALSE /\ heard = "high" /\ again >= MinLoud
    <3>1. next = [policy EXCEPT !.speech = again, !.speaking = TRUE, !.silence = 0]
      BY <2>4 DEF F!Observe
    <3> HIDE DEF next, loud, low, more, again
    <3>2. /\ next \in Policies /\ next.loud = policy.loud /\ next.low = policy.low
          /\ next.speaking = TRUE /\ next.silence = 0 /\ next.speech = again
      BY <1>1, <1>2, <1>4, <2>4, <3>1 DEF Policies
    <3>3. next.silence <= low /\ loud >= MinLoud
      BY <1>1, <1>2, <1>4, <2>4, <3>2
    <3> QED BY <2>4, <3>2, <3>3
  <2>5. CASE policy.speaking = FALSE /\ heard = "high" /\ ~(again >= MinLoud)
    <3>1. next = [policy EXCEPT !.speech = again]
      BY <2>5 DEF F!Observe
    <3> HIDE DEF next, loud, low, more, again
    <3>2. /\ next \in Policies /\ next.loud = policy.loud /\ next.low = policy.low
          /\ next.speaking = FALSE /\ next.silence = policy.silence /\ next.speech = again
      BY <1>1, <1>2, <1>4, <2>5, <3>1 DEF Policies
    <3>3. next.speech <= loud
      BY <1>1, <1>2, <1>4, <2>5, <3>2
    <3> QED BY <2>5, <3>2, <3>3
  <2>6. CASE policy.speaking = FALSE /\ heard # "high"
    <3>1. next = [policy EXCEPT !.speech = 0]
      BY <2>6 DEF F!Observe
    <3> HIDE DEF next, loud, low, more, again
    <3>2. /\ next \in Policies /\ next.loud = policy.loud /\ next.low = policy.low
          /\ next.speaking = FALSE /\ next.silence = policy.silence /\ next.speech = 0
      BY <1>1, <1>2, <1>4, <2>6, <3>1 DEF Policies
    <3>3. next.speech <= loud
      BY <1>1, <1>2, <1>4, <2>6, <3>2
    <3> QED BY <2>6, <3>2, <3>3
  <2> QED BY <1>2, <2>1, <2>2, <2>3, <2>4, <2>5, <2>6
<1>6. policy' = [next EXCEPT !.loud = loud, !.low = low]
  BY <1>5 DEF F!Heard
<1> HIDE DEF next, loud, low, more, again
<1>7. /\ policy' \in Policies /\ policy'.speaking = next.speaking /\ policy'.speech = next.speech
      /\ policy'.silence = next.silence /\ policy'.loud = loud /\ policy'.low = low
  BY <1>4, <1>5, <1>6 DEF Policies
<1>8. policy'.speaking \in BOOLEAN
  BY <1>7 DEF Policies
<1>9. KeepsSpeech
  BY <1>2, <1>5, <1>7, <1>8 DEF KeepsSpeech
<1> QED BY <1>5, <1>7, <1>8, <1>9 DEF PolicyInv, Policies

LEMMA PolicyStep ==
  ASSUME PolicyInv, F!Next \/ UNCHANGED frontendVars
  PROVE  PolicyInv' /\ (KeepsSpeech \/ UNCHANGED F!vars)
<1>1. policy' = policy \/ \E heard : policy' = F!Heard(heard)
  BY DEF F!Next, F!Open, F!FinishPipeline, F!Push, F!FinishAdapter, F!PushFrame, frontendVars
<1>2. ASSUME policy' = policy PROVE PolicyInv' /\ KeepsSpeech
  BY <1>2 DEF PolicyInv, KeepsSpeech
<1> QED BY <1>1, <1>2, PolicyHears
\* Nothing that was observed or aligned changes.
LEMMA AlignSame ==
  ASSUME AlignInv, UNCHANGED <<samples, stable, final, updates, files>>, crashed' \subseteq {"young", "old"}
  PROVE  /\ align' = align /\ file' = file => AlignInv'
         /\ RangesFollow' /\ A!Sources' = A!Sources /\ \A s : A!Segment(s)' = A!Segment(s)
         /\ align'.next = align.next => AlignUpdates'
         /\ file' \in {"none", "open", "closed", "gone"}
              /\ align' \in [stage : {"waiting", "aligning", "ended"}, next : 1..(MaxTexts + 1), ok : BOOLEAN]
            => AlignTypes'
<1> USE DEF AlignInv
<1>1. RangesFollow'
  BY DEF RangesFollow, A!InferredRangesAreApart
<1>2. A!Sources' = A!Sources /\ \A s : A!Segment(s)' = A!Segment(s)
  BY DEF A!Sources, A!Segment, A!HasRange
<1>3. ASSUME align'.next = align.next PROVE AlignUpdates'
  BY <1>2, <1>3 DEF AlignUpdates, A!IsEmpty
<1>4. ASSUME file' \in {"none", "open", "closed", "gone"},
             align' \in [stage : {"waiting", "aligning", "ended"}, next : 1..(MaxTexts + 1), ok : BOOLEAN]
      PROVE  AlignTypes'
  BY <1>4 DEF AlignTypes
<1>5. ASSUME align' = align, file' = file PROVE AlignInv'
  <2>1. AlignTypes'
    BY <1>5 DEF AlignTypes
  <2>2. AlignProgress'
    BY <1>2, <1>5 DEF AlignProgress
  <2> QED BY <1>1, <1>3, <1>5, <2>1, <2>2
<1> QED BY <1>1, <1>2, <1>3, <1>4, <1>5

\* The alignment that ends where it is leaves no file.
LEMMA AlignEnded ==
  ASSUME AlignInv, UNCHANGED <<crashed, samples, stable, final, updates, files>>, file' = "gone",
         align' = [align EXCEPT !.stage = "ended"] \/ align' = [align EXCEPT !.stage = "ended", !.ok = TRUE],
         align'.ok => align.ok \/ align.next > Len(A!Sources)
  PROVE  AlignInv'
<1> USE DEF AlignInv
<1>1. align \in [stage : {"waiting", "aligning", "ended"}, next : 1..(MaxTexts + 1), ok : BOOLEAN]
  BY DEF AlignTypes
<1>2. align' \in [stage : {"waiting", "aligning", "ended"}, next : 1..(MaxTexts + 1), ok : BOOLEAN]
      /\ align'.next = align.next /\ align'.stage = "ended"
  BY <1>1
<1>3. crashed' \subseteq {"young", "old"}
  BY DEF AlignTypes
<1>4. RangesFollow' /\ A!Sources' = A!Sources /\ AlignUpdates' /\ AlignTypes'
  BY <1>2, <1>3, AlignSame
<1>5. AlignProgress'
  BY <1>2, <1>4 DEF AlignProgress
<1> QED BY <1>4, <1>5

LEMMA AlignNextStep == ASSUME AlignInv, A!AlignNext PROVE AlignInv'
<1> USE DEF AlignInv
<1> DEFINE k == align.next
           source == A!Sources[k]
<1>1. /\ align.stage = "aligning" /\ k <= Len(A!Sources)
      /\ align' = [align EXCEPT !.next = k + 1]
      /\ updates' = IF A!Calls THEN Append(updates, A!Update) ELSE updates
      /\ UNCHANGED <<file, crashed, files, samples, stable, final>>
  BY DEF A!AlignNext
<1>2. /\ align \in [stage : {"waiting", "aligning", "ended"}, next : 1..(MaxTexts + 1), ok : BOOLEAN]
      /\ samples \in Nat /\ updates \in Seq([of : Nat, segment : Segments])
      /\ Len(updates) \in Nat /\ k \in Nat /\ k > 0
  BY Bounds, InSequence DEF AlignTypes
<1>3. /\ Len(A!Sources) \in 0..MaxTexts
      /\ source.start \in Nat /\ source.end \in Nat
  BY <1>1, <1>2, SourceTypes
<1>4. A!Segment(source) \in Segments
  BY <1>2, <1>3, SegmentFacts
<1>5. /\ align' \in [stage : {"waiting", "aligning", "ended"}, next : 1..(MaxTexts + 1), ok : BOOLEAN]
      /\ align'.next = k + 1 /\ align'.stage = "aligning" /\ align'.ok = align.ok
  <2>1. k + 1 \in 1..MaxTexts + 1
    BY <1>1, <1>2, <1>3, Bounds
  <2> QED BY <1>1, <1>2, <2>1
<1>6. A!Sources' = A!Sources /\ \A s : A!Segment(s)' = A!Segment(s)
  BY <1>1 DEF A!Sources, A!Segment, A!HasRange
<1>7. RangesFollow'
  BY <1>1 DEF RangesFollow, A!InferredRangesAreApart
<1>8. AlignProgress'
  BY <1>1, <1>2, <1>3, <1>5, <1>6 DEF AlignProgress
<1>9. CASE A!IsEmpty(A!Segment(source))
  <2>1. updates' = updates
    BY <1>1, <1>9 DEF A!Calls, A!Source
  <2>2. AlignTypes'
    BY <1>1, <1>5, <2>1 DEF AlignTypes
  <2>3. AlignUpdates'
    <3>1. \A i \in 1..Len(updates) : updates[i].of \in 1..align'.next - 1
      BY <1>2, <1>5 DEF AlignUpdates
    <3>2. \A n \in 1..align'.next - 1 : n \in 1..align.next - 1 \/ n = k
      BY <1>2, <1>5
    <3> QED BY <1>6, <1>9, <2>1, <3>1, <3>2 DEF AlignUpdates, A!IsEmpty
  <2> QED BY <1>7, <1>8, <2>2, <2>3
<1>10. CASE ~A!IsEmpty(A!Segment(source))
  <2> DEFINE new == [of |-> k, segment |-> A!Segment(source)]
  <2>1. updates' = Append(updates, new)
    BY <1>1, <1>10 DEF A!Calls, A!Source, A!Update
  <2>2. new \in [of : Nat, segment : Segments] /\ new.of = k /\ new.segment = A!Segment(source)
    BY <1>2, <1>4
  <2> HIDE DEF new
  <2>3. /\ updates' \in Seq([of : Nat, segment : Segments]) /\ Len(updates') = Len(updates) + 1
        /\ updates'[Len(updates) + 1] = new
        /\ \A i \in 1..Len(updates) : updates'[i] = updates[i]
    BY <1>2, <2>1, <2>2
  <2>4. AlignTypes'
    BY <1>1, <1>5, <2>3 DEF AlignTypes
  <2>5. \A i \in 1..Len(updates') : i \in 1..Len(updates) \/ (i = Len(updates) + 1 /\ updates'[i] = new)
    BY <1>2, <2>3
  <2>6. \A i \in 1..Len(updates) : updates[i].of \in 1..align'.next - 1 /\ updates[i].of < k
    BY <1>2, <1>5 DEF AlignUpdates
  <2>7. \A n \in 1..align'.next - 1 : n \in 1..align.next - 1 \/ n = k
    BY <1>2, <1>5
  <2>8. \A i \in 1..Len(updates') : /\ updates'[i].of \in 1..align'.next - 1
                                   /\ updates'[i].segment = A!Segment(A!Sources[updates'[i].of])
                                   /\ ~A!IsEmpty(updates'[i].segment)
    <3>1. k \in 1..align'.next - 1
      BY <1>2, <1>5
    <3> QED BY <1>10, <2>2, <2>3, <2>5, <2>6, <3>1 DEF AlignUpdates
  <2>9. \A i, j \in 1..Len(updates') : i < j => updates'[i].of < updates'[j].of
    <3>1. ASSUME NEW i \in 1..Len(updates'), NEW j \in 1..Len(updates'), i < j
          PROVE  updates'[i].of < updates'[j].of
      <4>1. i \in 1..Len(updates)
        BY <1>2, <2>3, <3>1
      <4>2. CASE j \in 1..Len(updates)
        BY <2>3, <3>1, <4>1, <4>2 DEF AlignUpdates
      <4>3. CASE j = Len(updates) + 1
        BY <2>2, <2>3, <2>6, <4>1, <4>3
      <4> QED BY <2>5, <4>2, <4>3
    <3> QED BY <3>1
  <2>10. \A n \in 1..align'.next - 1 :
           A!IsEmpty(A!Segment(A!Sources[n])) \/ \E i \in 1..Len(updates') : updates'[i].of = n
    <3>1. ASSUME NEW n \in 1..align'.next - 1, ~A!IsEmpty(A!Segment(A!Sources[n]))
          PROVE  \E i \in 1..Len(updates') : updates'[i].of = n
      <4>1. CASE n \in 1..align.next - 1
        <5>1. PICK i \in 1..Len(updates) : updates[i].of = n
          BY <3>1, <4>1 DEF AlignUpdates
        <5>2. i \in 1..Len(updates')
          BY <1>2, <2>3
        <5> QED BY <2>3, <5>1, <5>2
      <4>2. CASE n = k
        <5>1. Len(updates) + 1 \in 1..Len(updates')
          BY <1>2, <2>3
        <5> QED BY <2>2, <2>3, <4>2, <5>1
      <4> QED BY <2>7, <4>1, <4>2
    <3> QED BY <3>1
  <2>11. AlignUpdates'
    BY <1>6, <2>8, <2>9, <2>10 DEF AlignUpdates, A!IsEmpty
  <2> QED BY <1>7, <1>8, <2>4, <2>11
<1> QED BY <1>9, <1>10

LEMMA AlignStep == ASSUME AlignInv, A!Next PROVE AlignInv'
<1> USE DEF AlignInv
<1>0. align \in [stage : {"waiting", "aligning", "ended"}, next : 1..(MaxTexts + 1), ok : BOOLEAN]
  BY DEF AlignTypes
<1>1. CASE A!Create
  <2>1. files' \in 0..MaxFiles /\ crashed' \subseteq {"young", "old"}
    BY <1>1, Bounds DEF A!Create, AlignTypes
  <2> QED BY <1>1, <2>1, AlignFresh DEF A!Create
<1>2. CASE A!DayPasses
  <2>1. crashed' \subseteq {"young", "old"}
    BY <1>2 DEF A!DayPasses, AlignTypes
  <2> QED BY <1>2, <2>1, AlignSame DEF A!DayPasses
<1>3. CASE A!ObserveFinal
  <2>1. AlignTypes'
    BY <1>3 DEF A!ObserveFinal, AlignTypes
  <2>2. RangesFollow'
    BY <1>3 DEF A!ObserveFinal, RangesFollow, A!InferredRangesAreApart
  <2> QED BY <1>3, <2>1, <2>2, AlignWaits DEF A!ObserveFinal
<1>4. CASE A!CloseAudio
  <2>1. align.stage = "waiting"
    BY <1>4, <1>0 DEF A!CloseAudio, AlignProgress
  <2>2. AlignTypes'
    BY <1>4 DEF A!CloseAudio, AlignTypes
  <2>3. RangesFollow'
    BY <1>4 DEF A!CloseAudio, RangesFollow, A!InferredRangesAreApart
  <2> QED BY <1>4, <2>1, <2>2, <2>3, AlignWaits DEF A!CloseAudio
<1>5. CASE A!CloseSession
  <2>1. ~align.ok
    BY <1>5 DEF A!CloseSession, AlignProgress
  <2> QED BY <1>5, <1>0, <2>1, AlignEnded DEF A!CloseSession, A!Discard
<1>6. CASE A!Crash
  <2>1. files' \in 0..MaxFiles /\ crashed' \subseteq {"young", "old"}
    BY <1>6, Bounds DEF A!Crash, AlignTypes
  <2> QED BY <1>6, <2>1, AlignFresh DEF A!Crash
<1>7. CASE \E n \in 1..MaxSamples : A!WriteAudio(n)
  <2>1. PICK n \in 1..MaxSamples : A!WriteAudio(n)
    BY <1>7
  <2>2. align.stage = "waiting"
    BY <2>1, <1>0 DEF A!WriteAudio, AlignProgress
  <2>3. samples' \in 0..MaxSamples
    BY <2>1, Bounds DEF A!WriteAudio, AlignTypes
  <2>4. AlignTypes'
    BY <2>1, <2>3 DEF A!WriteAudio, AlignTypes
  <2>5. RangesFollow'
    BY <2>1 DEF A!WriteAudio, RangesFollow, A!InferredRangesAreApart
  <2> QED BY <2>1, <2>2, <2>4, <2>5, AlignWaits DEF A!WriteAudio
<1>8. CASE \E start \in {A!NoTime} \cup A!Cursors, end \in {A!NoTime} \cup A!Cursors, cursor \in A!Cursors :
             (end # A!NoTime => cursor = 0) /\ A!Observe(start, end, cursor)
  BY <1>8, ObserveStep
<1>9. CASE A!StartAlign
  <2>1. align' = [align EXCEPT !.stage = "aligning"] /\ file' = "closed" /\ align.stage = "waiting"
        /\ UNCHANGED <<crashed, files, samples, stable, final, updates>>
    BY <1>9 DEF A!StartAlign
  <2>2. /\ align' \in [stage : {"waiting", "aligning", "ended"}, next : 1..(MaxTexts + 1), ok : BOOLEAN]
        /\ align'.next = align.next /\ align'.stage = "aligning" /\ align'.ok = align.ok
    BY <1>0, <2>1
  <2>3. crashed' \subseteq {"young", "old"}
    BY <2>1 DEF AlignTypes
  <2>4. RangesFollow' /\ A!Sources' = A!Sources /\ AlignUpdates' /\ AlignTypes'
    BY <2>1, <2>2, <2>3, AlignSame
  <2>5. AlignProgress'
    BY <2>1, <2>2, <2>4 DEF AlignProgress
  <2> QED BY <2>4, <2>5
<1>10. CASE A!AlignNext
  BY <1>10, AlignNextStep
<1>11. CASE A!AlignEnds
  BY <1>11, <1>0, AlignEnded DEF A!AlignEnds, A!Discard
<1>12. CASE A!AlignFails
  <2>1. ~align.ok
    BY <1>12 DEF A!AlignFails, A!Calls, AlignProgress
  <2> QED BY <1>12, <1>0, <2>1, AlignEnded DEF A!AlignFails, A!Discard
<1> QED BY <1>1, <1>2, <1>3, <1>4, <1>5, <1>6, <1>7, <1>8, <1>9, <1>10, <1>11, <1>12 DEF A!Next

\* What the invariant says of the updates, as the property states it.
LEMMA AlignFollows == ASSUME AlignInv PROVE A!UpdatesFollowTheTexts
<1> USE DEF AlignInv
<1>0. samples \in Nat /\ Len(updates) \in Nat /\ DOMAIN updates = 1..Len(updates)
      /\ align.next \in Nat /\ align.ok \in BOOLEAN
  BY Bounds, InSequence DEF AlignTypes
<1>1. Len(A!Sources) \in Nat /\ DOMAIN A!Sources = 1..Len(A!Sources)
      /\ \A n \in 1..Len(A!Sources) : A!Sources[n].start \in Nat /\ A!Sources[n].end \in Nat
  BY SourceTypes, Bounds
<1>2. \A i, j \in DOMAIN updates : i < j => updates[i].of < updates[j].of
  BY <1>0 DEF AlignUpdates
<1>3. ASSUME NEW i \in DOMAIN updates
      PROVE  LET s == A!Sources[updates[i].of]  segment == updates[i].segment
             IN segment.from < segment.to /\ segment.to <= samples
                /\ (A!HasRange(s) => s.start <= segment.from /\ segment.to <= s.end)
  <2> DEFINE s == A!Sources[updates[i].of]
  <2>1. updates[i].of \in 1..align.next - 1 /\ updates[i].segment = A!Segment(s) /\ ~A!IsEmpty(A!Segment(s))
    BY <1>0 DEF AlignUpdates
  <2>2. updates[i].of \in 1..Len(A!Sources)
    BY <1>0, <1>1, <2>1 DEF AlignProgress
  <2>3. s.start \in Nat /\ s.end \in Nat
    BY <1>1, <2>2
  <2> HIDE DEF s
  <2>4. A!Segment(s).from < A!Segment(s).to /\ A!Segment(s).to <= samples
        /\ (A!HasRange(s) => s.start <= A!Segment(s).from /\ A!Segment(s).to <= s.end)
    BY <1>0, <2>1, <2>3, SegmentFacts
  <2> QED BY <2>1, <2>4 DEF s
<1>4. ASSUME align.ok, NEW n \in DOMAIN A!Sources
      PROVE  n \in {updates[i].of : i \in DOMAIN updates} \/ samples <= A!Sources[n].start
  <2>1. n \in 1..align.next - 1
    BY <1>0, <1>1, <1>4 DEF AlignProgress
  <2>2. CASE A!IsEmpty(A!Segment(A!Sources[n]))
    BY <1>0, <1>1, <1>4, <2>2, SegmentFacts
  <2>3. CASE \E i \in 1..Len(updates) : updates[i].of = n
    BY <1>0, <2>3
  <2> QED BY <2>1, <2>2, <2>3 DEF AlignUpdates
<1> QED BY <1>2, <1>3, <1>4 DEF A!UpdatesFollowTheTexts

LEMMA AlignKeeps == ASSUME AlignInv PROVE A!TypeOK /\ A!SpoolIsDiscarded /\ A!InferredRangesAreApart
<1> USE DEF AlignInv
<1>1. DOMAIN stable = 1..Len(stable) /\ \A i \in 1..Len(stable) : stable[i] \in Ranges
  BY InSequence DEF AlignTypes
<1>2. \A i \in DOMAIN stable : 0 <= stable[i].start /\ stable[i].start <= stable[i].end
  BY <1>1 DEF RangesFollow, Ranges
<1>3. A!TypeOK
  BY <1>2 DEF AlignTypes, A!TypeOK
<1> QED BY <1>3 DEF RangesFollow, AlignProgress, A!SpoolIsDiscarded

----------------------------------------------------------------------------
(* The captions: the mapper and the segmenter (SpeechUnits).               *)

(***************************************************************************)
(* Induction.                                                              *)

\* A set of numbers up to m that holds 0 and, with each number, the next one.
LEMMA Induction ==
  ASSUME NEW m \in Nat, NEW T, 0 \in T, \A n \in 0..(m - 1) : n \in T => n + 1 \in T
  PROVE  \A n \in 0..m : n \in T
<1> DEFINE D == {n \in 0..m : n \notin T}
<1> SUFFICES ASSUME D # {} PROVE FALSE
  OBVIOUS
<1>1. D \subseteq Nat
  OBVIOUS
<1>2. PICK d \in D : \A e \in D : ~(<<e, d>> \in OpToRel(<, Nat))
  BY <1>1, NatLessThanWellFounded, WFMin
<1>3. \A e \in D : ~(e < d)
  BY <1>1, <1>2 DEF OpToRel
<1>4. d \in 0..m /\ d \notin T
  OBVIOUS
<1>5. d - 1 \in 0..(m - 1) /\ (d - 1) + 1 = d /\ d - 1 < d
  BY <1>4
<1>6. d - 1 \in T
  BY <1>3, <1>5
<1> QED BY <1>4, <1>5, <1>6

\* A step function of a recursion over 1..m, and f as its values from b on.
IsStep(G, m, D)   == G \in [(1..m) \X D -> D]
Follows(f, G, m, D, b) == f \in [0..m -> D] /\ f[0] = b /\ \A i \in 1..m : f[i] = G[<<i, f[i - 1]>>]

\* A recursion over 1..m has a value at each step.
LEMMA Recursion ==
  ASSUME NEW m \in Nat, NEW D, NEW b \in D, NEW G, IsStep(G, m, D)
  PROVE  \E f : Follows(f, G, m, D, b)
<1> DEFINE Upto(n) == \E f \in [0..n -> D] : f[0] = b /\ \A i \in 1..n : f[i] = G[<<i, f[i - 1]>>]
           T == {n \in 0..m : Upto(n)}
<1>0. G \in [(1..m) \X D -> D]
  BY DEF IsStep
<1>1. 0 \in T
  <2> DEFINE f == [i \in 0..0 |-> b]
  <2>1. f \in [0..0 -> D] /\ f[0] = b /\ \A i \in 1..0 : FALSE
    OBVIOUS
  <2> HIDE DEF f
  <2>2. Upto(0)
    BY <2>1
  <2> QED BY <2>2
<1>2. ASSUME NEW n \in 0..(m - 1), n \in T PROVE n + 1 \in T
  <2>1. PICK f \in [0..n -> D] : f[0] = b /\ \A i \in 1..n : f[i] = G[<<i, f[i - 1]>>]
    BY <1>2
  <2> DEFINE g == [i \in 0..(n + 1) |-> IF i <= n THEN f[i] ELSE G[<<n + 1, f[n]>>]]
  <2>2. G[<<n + 1, f[n]>>] \in D
    <3>1. <<n + 1, f[n]>> \in (1..m) \X D
      OBVIOUS
    <3> QED BY <1>0, <3>1
  <2>3. g \in [0..(n + 1) -> D] /\ g[0] = b
    BY <2>1, <2>2
  <2>4. ASSUME NEW i \in 1..(n + 1) PROVE g[i] = G[<<i, g[i - 1]>>]
    <3>1. CASE i <= n
      BY <2>1, <3>1
    <3>2. CASE i = n + 1
      <4>1. g[i] = G[<<n + 1, f[n]>>] /\ g[i - 1] = f[n]
        BY <3>2
      <4> QED BY <3>2, <4>1
    <3> QED BY <3>1, <3>2
  <2> HIDE DEF g
  <2>5. Upto(n + 1)
    BY <2>3, <2>4
  <2> QED BY <2>5
<1> HIDE DEF T
<1>3. m \in T
  BY <1>1, <1>2, Induction
<1> QED BY <1>3 DEF T, Follows

----------------------------------------------------------------------------
(* Captions.  A text is a sequence of tokens, a position and a mark.       *)

LEMMA UnitBounds ==
  /\ MaxWords \in Nat \ {0} /\ MaxHypothesis \in Nat \ {0} /\ MaxTokens \in Nat \ {0} /\ SentenceMin \in Nat \ {0}
  /\ ClauseMin \in Nat \ {0} /\ CapClauseMin \in Nat \ {0} /\ CharacterHoldBack \in Nat
  /\ Noise \subseteq 1..MaxWords /\ RollsCoverPromotion \in BOOLEAN
BY UnitsAssumption DEF UnitsAssumption

Token      == (1..MaxWords) \X U!Marks
HeardToken == (1..MaxWords) \X {0, 1} \X U!Marks

LEMMA TextIs == U!Text = Seq(Token) /\ U!Hypothesis = Seq(HeardToken)
BY DEF U!Text, U!Hypothesis, Token, HeardToken

LEMMA TokenParts ==
  /\ \A x \in Token : x[1] \in 1..MaxWords /\ x[2] \in U!Marks
  /\ \A n \in 1..MaxWords, mark \in U!Marks : <<n, mark>> \in Token
BY DEF Token

LEMMA HeardParts ==
  \A x \in HeardToken : x[1] \in 1..MaxWords /\ x[2] \in {0, 1} /\ x[3] \in U!Marks
BY DEF HeardToken

LEMMA PositionsAre ==
  ASSUME NEW t \in U!Text
  PROVE  /\ U!Positions(t) \in Seq(1..MaxWords) /\ Len(U!Positions(t)) = Len(t) /\ Len(t) \in Nat
         /\ \A i \in 1..Len(t) : U!Positions(t)[i] = t[i][1]
<1>1. t \in Seq(Token) /\ Len(t) \in Nat /\ DOMAIN t = 1..Len(t)
  BY TextIs, LenProperties
<1>2. \A i \in 1..Len(t) : t[i][1] \in 1..MaxWords
  BY <1>1, TokenParts, ElementOfSeq
<1> QED BY <1>1, <1>2 DEF U!Positions

LEMMA PositionsEqual ==
  ASSUME NEW a \in U!Text, NEW b \in U!Text, Len(a) = Len(b), \A i \in 1..Len(a) : a[i][1] = b[i][1]
  PROVE  U!Positions(a) = U!Positions(b)
<1>1. /\ U!Positions(a) \in Seq(1..MaxWords) /\ Len(U!Positions(a)) = Len(a)
      /\ \A i \in 1..Len(a) : U!Positions(a)[i] = a[i][1]
  BY PositionsAre
<1>2. /\ U!Positions(b) \in Seq(1..MaxWords) /\ Len(U!Positions(b)) = Len(b)
      /\ \A i \in 1..Len(b) : U!Positions(b)[i] = b[i][1]
  BY PositionsAre
<1> QED BY <1>1, <1>2, SeqEqual

LEMMA Joined ==
  ASSUME NEW S, NEW a \in Seq(S), NEW b \in Seq(S)
  PROVE  /\ a \o b \in Seq(S) /\ Len(a \o b) = Len(a) + Len(b) /\ Len(a) \in Nat /\ Len(b) \in Nat
         /\ \A i \in 1..(Len(a) + Len(b)) : (a \o b)[i] = IF i <= Len(a) THEN a[i] ELSE b[i - Len(a)]
BY ConcatProperties, LenProperties

LEMMA PositionsJoin ==
  ASSUME NEW a \in U!Text, NEW b \in U!Text
  PROVE  a \o b \in U!Text /\ U!Positions(a \o b) = U!Positions(a) \o U!Positions(b)
<1> DEFINE c == a \o b  p == U!Positions(a)  q == U!Positions(b)  r == U!Positions(c)
<1>1. /\ c \in U!Text /\ Len(c) = Len(a) + Len(b)
      /\ \A i \in 1..(Len(a) + Len(b)) : c[i] = IF i <= Len(a) THEN a[i] ELSE b[i - Len(a)]
  BY TextIs, ConcatProperties
<1>2. p \in Seq(1..MaxWords) /\ Len(p) = Len(a) /\ Len(a) \in Nat /\ \A i \in 1..Len(a) : p[i] = a[i][1]
  BY PositionsAre
<1>3. q \in Seq(1..MaxWords) /\ Len(q) = Len(b) /\ Len(b) \in Nat /\ \A i \in 1..Len(b) : q[i] = b[i][1]
  BY PositionsAre
<1> HIDE DEF c
<1>4. r \in Seq(1..MaxWords) /\ Len(r) = Len(c) /\ \A i \in 1..Len(c) : r[i] = c[i][1]
  BY <1>1, PositionsAre
<1> HIDE DEF p, q, r
<1>5. /\ p \o q \in Seq(1..MaxWords) /\ Len(p \o q) = Len(p) + Len(q)
      /\ \A i \in 1..(Len(p) + Len(q)) : (p \o q)[i] = IF i <= Len(p) THEN p[i] ELSE q[i - Len(p)]
  <2> DEFINE S == 1..MaxWords
  <2>1. p \in Seq(S) /\ q \in Seq(S)
    BY <1>2, <1>3
  <2> HIDE DEF S
  <2>2. /\ p \o q \in Seq(S) /\ Len(p \o q) = Len(p) + Len(q)
        /\ \A i \in 1..(Len(p) + Len(q)) : (p \o q)[i] = IF i <= Len(p) THEN p[i] ELSE q[i - Len(p)]
    BY <2>1, Joined
  <2> QED BY <2>2 DEF S
<1>6. ASSUME NEW i \in 1..(Len(a) + Len(b)) PROVE r[i] = (p \o q)[i]
  <2>1. CASE i <= Len(a)
    BY <2>1, <1>1, <1>2, <1>3, <1>4, <1>5
  <2>2. CASE ~(i <= Len(a))
    <3>1. i - Len(a) \in 1..Len(b)
      BY <2>2, <1>2, <1>3
    <3> QED BY <2>2, <3>1, <1>1, <1>2, <1>3, <1>4, <1>5
  <2> QED BY <2>1, <2>2
<1>7. r = p \o q
  BY <1>1, <1>2, <1>3, <1>4, <1>5, <1>6, SeqEqual
<1> QED BY <1>1, <1>7 DEF p, q, r, c

\* A piece of a text, and the text as two pieces.
LEMMA PieceIs ==
  ASSUME NEW S, NEW t \in Seq(S), NEW a \in 0..Len(t), NEW b \in a..Len(t)
  PROVE  /\ SubSeq(t, a + 1, b) \in Seq(S) /\ Len(SubSeq(t, a + 1, b)) = b - a
         /\ \A i \in 1..(b - a) : SubSeq(t, a + 1, b)[i] = t[a + i]
<1>1. Len(t) \in Nat /\ a \in Nat /\ b \in Nat /\ a <= b
  BY LenProperties
<1>2. \A i \in (a + 1)..b : t[i] \in S
  <2> SUFFICES ASSUME NEW i \in (a + 1)..b PROVE t[i] \in S
    OBVIOUS
  <2>1. i \in 1..Len(t)
    BY <1>1
  <2> QED BY <2>1, ElementOfSeq
<1> DEFINE p == a + 1
<1>3. p \in Int /\ b \in Int /\ \A i \in p..b : t[i] \in S
  BY <1>1, <1>2
<1> HIDE DEF p
<1>4. /\ SubSeq(t, p, b) \in Seq(S) /\ Len(SubSeq(t, p, b)) = IF p <= b THEN b - p + 1 ELSE 0
      /\ \A i \in 1..(b - p + 1) : SubSeq(t, p, b)[i] = t[p + i - 1]
  BY <1>3, SubSeqProperties
<1>5. b - p + 1 = b - a /\ (IF p <= b THEN b - p + 1 ELSE 0) = b - a /\ \A i \in 1..(b - a) : p + i - 1 = a + i
  BY <1>1 DEF p
<1>6. Len(SubSeq(t, p, b)) = b - a /\ \A i \in 1..(b - a) : SubSeq(t, p, b)[i] = t[a + i]
  BY <1>4, <1>5
<1> QED BY <1>4, <1>6 DEF p

LEMMA RestIs ==
  ASSUME NEW S, NEW t \in Seq(S), NEW k \in 0..Len(t)
  PROVE  /\ U!Rest(t, k) \in Seq(S) /\ Len(U!Rest(t, k)) = Len(t) - k /\ Len(t) \in Nat
         /\ \A i \in 1..(Len(t) - k) : U!Rest(t, k)[i] = t[k + i]
<1>1. Len(t) \in Nat /\ Len(t) \in k..Len(t)
  BY LenProperties
<1> QED BY <1>1, PieceIs DEF U!Rest

\* The units put together.
Flattens(g, us) ==
  /\ g \in [1..Len(us) -> U!Text]
  /\ \A i \in 1..Len(us) : g[i] = IF i = 1 THEN us[i] ELSE g[i - 1] \o us[i]

LEMMA FlatIs ==
  ASSUME NEW us \in Seq(U!Text), us # <<>>
  PROVE  \E g : Flattens(g, us) /\ U!FlattenSeq(us) = g[Len(us)]
<1> DEFINE n == Len(us)
           G == [p \in (1..n) \X U!Text |-> IF p[1] = 1 THEN us[p[1]] ELSE p[2] \o us[p[1]]]
           E == <<>>
           h == CHOOSE g : g = [i \in 1..n |-> IF i = 1 THEN us[i] ELSE g[i - 1] \o us[i]]
<1>1. n \in Nat /\ n # 0 /\ \A i \in 1..n : us[i] \in U!Text
  BY EmptySeq, ElementOfSeq, LenProperties
<1>2. E \in U!Text
  BY TextIs
<1>3. ASSUME NEW i \in 1..n, NEW t \in U!Text PROVE t \o us[i] \in U!Text
  BY <1>1, PositionsJoin
<1>4. IsStep(G, n, U!Text)
  <2>1. \A p \in (1..n) \X U!Text : p[1] \in 1..n /\ p[2] \in U!Text
    OBVIOUS
  <2>2. \A p \in (1..n) \X U!Text : (IF p[1] = 1 THEN us[p[1]] ELSE p[2] \o us[p[1]]) \in U!Text
    BY <1>1, <1>3, <2>1
  <2> QED BY <2>2 DEF IsStep
<1>5. \A i \in 1..n : \A t \in U!Text : G[<<i, t>>] = IF i = 1 THEN us[i] ELSE t \o us[i]
  OBVIOUS
<1>6. U!FlattenSeq(us) = h[n]
  BY <1>1 DEF U!FlattenSeq
<1> HIDE DEF G, E, n, h
<1>7. PICK f : Follows(f, G, n, U!Text, E)
  BY <1>1, <1>2, <1>4, Recursion
<1>8. f \in [0..n -> U!Text] /\ \A i \in 1..n : f[i] = G[<<i, f[i - 1]>>]
  BY <1>7 DEF Follows
<1>9. \A i \in 1..n : f[i] \in U!Text /\ f[i] = IF i = 1 THEN us[i] ELSE f[i - 1] \o us[i]
  <2> SUFFICES ASSUME NEW i \in 1..n PROVE f[i] \in U!Text /\ f[i] = IF i = 1 THEN us[i] ELSE f[i - 1] \o us[i]
    OBVIOUS
  <2>1. i \in 0..n /\ i - 1 \in 0..n
    BY <1>1
  <2>2. f[i] \in U!Text /\ f[i - 1] \in U!Text /\ f[i] = G[<<i, f[i - 1]>>]
    BY <1>8, <2>1
  <2> QED BY <1>5, <2>2
<1> DEFINE e == [i \in 1..n |-> f[i]]
<1>10. \A i \in 1..n : e[i] = f[i] /\ (i # 1 => i - 1 \in 1..n)
  BY <1>1
<1>11. e = [i \in 1..n |-> IF i = 1 THEN us[i] ELSE e[i - 1] \o us[i]]
  <2>1. \A i \in 1..n : e[i] = IF i = 1 THEN us[i] ELSE e[i - 1] \o us[i]
    BY <1>9, <1>10
  <2> QED BY <2>1
<1> HIDE DEF e
<1>12. h = [i \in 1..n |-> IF i = 1 THEN us[i] ELSE h[i - 1] \o us[i]]
  BY <1>11 DEF h
<1> DEFINE T == {k \in 0..n : k = 0 \/ h[k] = e[k]}
<1>13. 0 \in T
  BY <1>1
<1>14. ASSUME NEW k \in 0..(n - 1), k \in T PROVE k + 1 \in T
  <2>1. k + 1 \in 1..n /\ (k + 1) - 1 = k /\ (k + 1 = 1 <=> k = 0) /\ k + 1 \in 0..n
    BY <1>1
  <2>2. h[k + 1] = IF k + 1 = 1 THEN us[k + 1] ELSE h[(k + 1) - 1] \o us[k + 1]
    BY <1>12, <2>1
  <2>3. e[k + 1] = IF k + 1 = 1 THEN us[k + 1] ELSE e[(k + 1) - 1] \o us[k + 1]
    BY <1>11, <2>1
  <2>4. k # 0 => h[k] = e[k]
    BY <1>14
  <2> QED BY <2>1, <2>2, <2>3, <2>4
<1> HIDE DEF T
<1>15. \A k \in 0..n : k \in T
  <2>1. \A k \in 0..(n - 1) : k \in T => k + 1 \in T
    BY <1>14
  <2> QED BY <1>1, <1>13, <2>1, Induction
<1>16. h[n] = e[n]
  BY <1>1, <1>15 DEF T
<1>17. Flattens(e, us)
  <2>1. e \in [1..n -> U!Text]
    BY <1>9 DEF e
  <2>2. \A i \in 1..n : e[i] = IF i = 1 THEN us[i] ELSE e[i - 1] \o us[i]
    BY <1>11
  <2> QED BY <2>1, <2>2 DEF Flattens, n
<1> QED BY <1>6, <1>16, <1>17 DEF n

LEMMA FlatEmpty == U!FlattenSeq(<<>>) = <<>>
BY DEF U!FlattenSeq

LEMMA FlatAppend ==
  ASSUME NEW us \in Seq(U!Text), NEW u \in U!Text
  PROVE  U!FlattenSeq(us) \in U!Text /\ U!FlattenSeq(Append(us, u)) = U!FlattenSeq(us) \o u
<1> DEFINE n == Len(us)  vs == Append(us, u)
<1>1. n \in Nat /\ vs \in Seq(U!Text) /\ Len(vs) = n + 1 /\ vs[n + 1] = u /\ \A i \in 1..n : vs[i] = us[i]
  BY AppendProperties, LenProperties
<1>2. vs # <<>>
  BY <1>1, EmptySeq
<1> HIDE DEF vs
<1>3. PICK g : Flattens(g, vs) /\ U!FlattenSeq(vs) = g[Len(vs)]
  BY <1>1, <1>2, FlatIs
<1>4. g \in [1..(n + 1) -> U!Text] /\ \A i \in 1..(n + 1) : g[i] = IF i = 1 THEN vs[i] ELSE g[i - 1] \o vs[i]
  BY <1>1, <1>3 DEF Flattens
<1>5. CASE us = <<>>
  <2>1. n = 0
    BY <1>5
  <2>2. U!FlattenSeq(vs) = u
    BY <1>1, <1>3, <1>4, <2>1
  <2>3. <<>> \in U!Text /\ <<>> \o u = u
    <3>1. <<>> \in Seq(Token) /\ u \in Seq(Token)
      BY TextIs
    <3> QED BY <3>1, TextIs
  <2> QED BY <1>5, <2>2, <2>3, FlatEmpty DEF vs
<1>6. CASE us # <<>>
  <2>1. PICK f : Flattens(f, us) /\ U!FlattenSeq(us) = f[n]
    BY <1>6, FlatIs
  <2>2. f \in [1..n -> U!Text] /\ \A i \in 1..n : f[i] = IF i = 1 THEN us[i] ELSE f[i - 1] \o us[i]
    BY <2>1 DEF Flattens
  <2>3. n # 0
    BY <1>6, EmptySeq
  <2> HIDE DEF n
  <2> DEFINE T == {k \in 0..n : k = 0 \/ g[k] = f[k]}
  <2>4. 0 \in T
    BY <1>1
  <2>5. ASSUME NEW k \in 0..(n - 1), k \in T PROVE k + 1 \in T
    <3>1. k + 1 \in 1..n /\ k + 1 \in 1..(n + 1) /\ (k + 1) - 1 = k /\ (k + 1 = 1 <=> k = 0) /\ k + 1 \in 0..n
      BY <1>1
    <3>2. f[k + 1] = IF k + 1 = 1 THEN us[k + 1] ELSE f[(k + 1) - 1] \o us[k + 1]
      BY <2>2, <3>1
    <3>3. g[k + 1] = IF k + 1 = 1 THEN vs[k + 1] ELSE g[(k + 1) - 1] \o vs[k + 1]
      BY <1>4, <3>1
    <3>4. (k # 0 => g[k] = f[k]) /\ vs[k + 1] = us[k + 1]
      BY <1>1, <2>5, <3>1
    <3> QED BY <3>1, <3>2, <3>3, <3>4
  <2> HIDE DEF T
  <2>6. \A k \in 0..n : k \in T
    <3>1. \A k \in 0..(n - 1) : k \in T => k + 1 \in T
      BY <2>5
    <3> QED BY <1>1, <2>4, <3>1, Induction
  <2>7. g[n] = f[n]
    BY <1>1, <2>3, <2>6 DEF T
  <2>8. g[n + 1] = g[n] \o u
    <3>1. n + 1 \in 1..(n + 1) /\ n + 1 # 1 /\ (n + 1) - 1 = n
      BY <1>1, <2>3
    <3> QED BY <1>1, <1>4, <3>1
  <2>9. f[n] \in U!Text
    BY <1>1, <2>2, <2>3
  <2> QED BY <1>1, <1>3, <2>1, <2>7, <2>8, <2>9 DEF vs
<1> QED BY <1>5, <1>6

----------------------------------------------------------------------------
(* Where a text closes.                                                    *)

\* A set of numbers up to m has a least and a greatest one.
LEMMA LeastIs ==
  ASSUME NEW m \in Nat, NEW T \in SUBSET (0..m), T # {}
  PROVE  U!Min(T) \in T /\ \A k \in T : U!Min(T) <= k
<1>1. T \subseteq Nat /\ T # {}
  OBVIOUS
<1>2. PICK d \in T : \A e \in T : ~(<<e, d>> \in OpToRel(<, Nat))
  BY <1>1, NatLessThanWellFounded, WFMin
<1>3. \A e \in T : ~(e < d)
  BY <1>1, <1>2 DEF OpToRel
<1>4. \A e \in T : d <= e
  BY <1>1, <1>3
<1> QED BY <1>4 DEF U!Min

LEMMA MostIs ==
  ASSUME NEW m \in Nat, NEW T \in SUBSET (0..m), T # {}
  PROVE  U!Max(T) \in T /\ \A k \in T : k <= U!Max(T)
<1> DEFINE D == {m - k : k \in T}
<1>1. D \subseteq Nat /\ D # {}
  <2>1. \A k \in T : m - k \in Nat
    OBVIOUS
  <2>2. PICK k \in T : TRUE
    OBVIOUS
  <2>3. m - k \in D
    OBVIOUS
  <2> QED BY <2>1, <2>3
<1>2. PICK d \in D : \A e \in D : ~(<<e, d>> \in OpToRel(<, Nat))
  BY <1>1, NatLessThanWellFounded, WFMin
<1>3. \A e \in D : ~(e < d)
  BY <1>1, <1>2 DEF OpToRel
<1>4. PICK n \in T : d = m - n
  OBVIOUS
<1>5. ASSUME NEW k \in T PROVE k <= n
  <2>1. ~(m - k < m - n)
    BY <1>3, <1>4
  <2> QED BY <2>1
<1>6. \E x \in T : \A y \in T : x >= y
  BY <1>5
<1> QED BY <1>6 DEF U!Max

LEMMA SentenceEndsIn ==
  ASSUME NEW t \in U!Text
  PROVE  U!SentenceEnds(t) \in SUBSET (1..Len(t)) /\ U!ClauseEnds(t, CapClauseMin) \in SUBSET (1..Len(t)) /\ Len(t) \in Nat
<1>1. Len(t) \in Nat
  BY PositionsAre
<1> QED BY <1>1, UnitBounds DEF U!SentenceEnds, U!ClauseEnds

\* A text closes within itself; one that stays open has no end and is short.
StaysOpen(t) == t # <<>> => U!SentenceEnds(t) = {} /\ Len(t) < MaxTokens
LEMMA ClosureIs ==
  ASSUME NEW t \in U!Text, NEW late \in BOOLEAN
  PROVE  U!Closure(t, late) \in 0..Len(t) /\ (U!Closure(t, late) = 0 => StaysOpen(t))
<1>1. /\ Len(t) \in Nat /\ U!SentenceEnds(t) \in SUBSET (1..Len(t))
      /\ U!ClauseEnds(t, CapClauseMin) \in SUBSET (1..Len(t)) /\ 1..Len(t) \subseteq 0..Len(t)
  BY SentenceEndsIn
<1>2. t = <<>> <=> Len(t) = 0
  BY TextIs, EmptySeq
<1>3. CASE U!SentenceEnds(t) # {}
  <2>1. U!Min(U!SentenceEnds(t)) \in 1..Len(t)
    <3> DEFINE T == U!SentenceEnds(t)
    <3>1. T \in SUBSET (0..Len(t)) /\ T # {} /\ T \subseteq 1..Len(t)
      BY <1>1, <1>3
    <3> HIDE DEF T
    <3>2. U!Min(T) \in T
      BY <1>1, <3>1, LeastIs
    <3> QED BY <3>1, <3>2 DEF T
  <2>2. U!Closure(t, late) = U!Min(U!SentenceEnds(t))
    BY <1>3 DEF U!Closure
  <2> QED BY <1>1, <2>1, <2>2
<1>4. CASE U!SentenceEnds(t) = {} /\ Len(t) >= ClauseMin /\ U!LastMark(t) = "clause"
  <2>1. U!Closure(t, late) = Len(t) /\ Len(t) > 0
    BY <1>1, <1>4, UnitBounds DEF U!Closure
  <2> QED BY <1>1, <2>1
<1>5. CASE U!SentenceEnds(t) = {} /\ ~(Len(t) >= ClauseMin /\ U!LastMark(t) = "clause")
  <2>1. CASE t = <<>> \/ ~(Len(t) >= MaxTokens \/ late)
    <3>1. U!Closure(t, late) = 0
      BY <1>5, <2>1 DEF U!Closure
    <3>2. StaysOpen(t)
      BY <1>1, <1>5, <2>1, UnitBounds DEF StaysOpen
    <3> QED BY <1>1, <3>1, <3>2
  <2>2. CASE ~(t = <<>> \/ ~(Len(t) >= MaxTokens \/ late)) /\ U!ClauseEnds(t, CapClauseMin) # {}
    <3>1. U!Closure(t, late) = U!Max(U!ClauseEnds(t, CapClauseMin))
      BY <1>5, <2>2 DEF U!Closure
    <3>2. U!Max(U!ClauseEnds(t, CapClauseMin)) \in 1..Len(t)
      <4> DEFINE T == U!ClauseEnds(t, CapClauseMin)
      <4>1. T \in SUBSET (0..Len(t)) /\ T # {} /\ T \subseteq 1..Len(t)
        BY <1>1, <2>2
      <4> HIDE DEF T
      <4>2. U!Max(T) \in T
        BY <1>1, <4>1, MostIs
      <4> QED BY <4>1, <4>2 DEF T
    <3> QED BY <1>1, <3>1, <3>2
  <2>3. CASE ~(t = <<>> \/ ~(Len(t) >= MaxTokens \/ late)) /\ U!ClauseEnds(t, CapClauseMin) = {}
    <3>1. U!Closure(t, late) = Len(t) /\ Len(t) # 0
      BY <1>2, <1>5, <2>3 DEF U!Closure
    <3> QED BY <1>1, <3>1
  <2> QED BY <2>1, <2>2, <2>3
<1> QED BY <1>3, <1>4, <1>5

\* What closes of the text behind its first k tokens.
CutAt(t, late, k) == U!Closure(U!Rest(t, k), late /\ k = 0)
LEMMA CutAtIs ==
  ASSUME NEW t \in U!Text, NEW late \in BOOLEAN, NEW k \in 0..Len(t)
  PROVE  CutAt(t, late, k) \in 0..(Len(t) - k) /\ (CutAt(t, late, k) = 0 => StaysOpen(U!Rest(t, k)))
<1> DEFINE r == U!Rest(t, k)  l == (late /\ k = 0)
<1>1. r \in U!Text /\ Len(r) = Len(t) - k
  BY TextIs, RestIs
<1>2. l \in BOOLEAN
  BY Zenon
<1> HIDE DEF r, l
<1>3. U!Closure(r, l) \in 0..Len(r) /\ (U!Closure(r, l) = 0 => StaysOpen(r))
  BY <1>1, <1>2, ClosureIs
<1> QED BY <1>1, <1>3 DEF r, l, CutAt

----------------------------------------------------------------------------
(* The ends of the units of a text.                                        *)

\* cs are the ends behind the first k tokens of t, the rest stays open.
CutsFrom(cs, t, k) ==
  /\ cs \in Seq((k + 1)..Len(t))
  /\ \A i, j \in 1..Len(cs) : i < j => cs[i] < cs[j]
  /\ StaysOpen(U!Rest(t, IF cs = <<>> THEN k ELSE cs[Len(cs)]))

LEMMA NoCut ==
  ASSUME NEW t \in U!Text, NEW k \in 0..Len(t), StaysOpen(U!Rest(t, k))
  PROVE  CutsFrom(<<>>, t, k)
<1>1. <<>> \in Seq((k + 1)..Len(t)) /\ Len(<<>>) = 0
  BY EmptySeq
<1> QED BY <1>1 DEF CutsFrom

LEMMA OneMoreCut ==
  ASSUME NEW t \in U!Text, NEW k \in 0..Len(t), NEW c \in (k + 1)..Len(t), NEW cs, CutsFrom(cs, t, c)
  PROVE  CutsFrom(<<c>> \o cs, t, k)
<1> DEFINE S == (k + 1)..Len(t)  L == (c + 1)..Len(t)  d == <<c>>  e == d \o cs
<1>1. Len(t) \in Nat /\ c \in Nat /\ k \in Nat
  BY PositionsAre
<1>2. cs \in Seq(L) /\ L \subseteq S /\ c \in S /\ \A x \in L : c < x
  BY <1>1 DEF CutsFrom
<1> HIDE DEF S, L
<1>3. cs \in Seq(S) /\ d \in Seq(S) /\ Len(d) = 1 /\ d[1] = c /\ Len(cs) \in Nat /\ \A i \in 1..Len(cs) : cs[i] \in L
  <2>1. \A i \in 1..Len(cs) : cs[i] \in L
    BY <1>2, ElementOfSeq
  <2>2. Len(cs) \in Nat
    BY <1>2, LenProperties
  <2>3. cs \in Seq(S)
    BY <1>2, SeqMonotonic
  <2> QED BY <1>2, <2>1, <2>2, <2>3
<1>4. e \in Seq(S) /\ Len(e) = 1 + Len(cs) /\ \A i \in 1..(1 + Len(cs)) : e[i] = IF i <= 1 THEN d[i] ELSE cs[i - 1]
  <2> HIDE DEF d
  <2>1. d \o cs \in Seq(S) /\ Len(d \o cs) = Len(d) + Len(cs)
        /\ \A i \in 1..(Len(d) + Len(cs)) : (d \o cs)[i] = IF i <= Len(d) THEN d[i] ELSE cs[i - Len(d)]
    BY <1>3, Joined
  <2> QED BY <1>3, <2>1
<1> HIDE DEF e, d
<1>5. e[1] = c /\ \A i \in 1..Len(e) : i # 1 => i - 1 \in 1..Len(cs) /\ e[i] = cs[i - 1]
  <2> SUFFICES ASSUME NEW i \in 1..Len(e) PROVE (i = 1 => e[i] = c) /\ (i # 1 => i - 1 \in 1..Len(cs) /\ e[i] = cs[i - 1])
    BY <1>3, <1>4
  <2>1. i = 1 => e[i] = d[1]
    BY <1>3, <1>4
  <2>2. i # 1 => i - 1 \in 1..Len(cs) /\ ~(i <= 1)
    BY <1>3, <1>4
  <2> QED BY <2>1, <2>2, <1>3, <1>4
<1>6. ASSUME NEW i \in 1..Len(e), NEW j \in 1..Len(e), i < j PROVE e[i] < e[j]
  <2>1. j # 1 /\ j - 1 \in 1..Len(cs) /\ e[j] = cs[j - 1]
    BY <1>3, <1>4, <1>5, <1>6
  <2>2. CASE i = 1
    BY <1>2, <1>3, <1>5, <2>1, <2>2
  <2>3. CASE i # 1
    <3>1. i - 1 \in 1..Len(cs) /\ e[i] = cs[i - 1] /\ i - 1 < j - 1
      BY <1>4, <1>5, <1>6, <2>3
    <3>2. \A x, y \in 1..Len(cs) : x < y => cs[x] < cs[y]
      BY DEF CutsFrom
    <3> QED BY <2>1, <3>1, <3>2
  <2> QED BY <2>2, <2>3
<1>7. e # <<>> /\ e[Len(e)] = IF cs = <<>> THEN c ELSE cs[Len(cs)]
  <2>1. e # <<>>
    BY <1>3, <1>4
  <2>2. cs = <<>> <=> Len(cs) = 0
    BY <1>3, EmptySeq
  <2>3. CASE cs = <<>>
    BY <1>4, <1>5, <2>1, <2>2, <2>3
  <2>4. CASE cs # <<>>
    <3>1. Len(e) # 1 /\ Len(e) - 1 = Len(cs) /\ Len(e) \in 1..Len(e)
      BY <1>3, <1>4, <2>2, <2>4
    <3>2. e[Len(e)] = cs[Len(e) - 1]
      BY <1>5, <3>1
    <3> QED BY <2>1, <2>4, <3>1, <3>2
  <2> QED BY <2>3, <2>4
<1>8. StaysOpen(U!Rest(t, IF cs = <<>> THEN c ELSE cs[Len(cs)]))
  BY DEF CutsFrom
<1>9. StaysOpen(U!Rest(t, IF e = <<>> THEN k ELSE e[Len(e)]))
  BY <1>7, <1>8
<1> QED BY <1>4, <1>6, <1>9 DEF CutsFrom, S, e, d

\* What _close_ready finds.
CutsStep(t, late, k, f) ==
  IF CutAt(t, late, k) = 0 THEN <<>> ELSE <<k + CutAt(t, late, k)>> \o f[k + CutAt(t, late, k)]

LEMMA CutsStepIs ==
  ASSUME NEW t \in U!Text, NEW late \in BOOLEAN, NEW k \in 0..Len(t), NEW f,
         \A j \in (k + 1)..Len(t) : CutsFrom(f[j], t, j)
  PROVE  CutsFrom(CutsStep(t, late, k, f), t, k)
<1> DEFINE c == CutAt(t, late, k)
<1>1. Len(t) \in Nat /\ k \in Nat
  BY PositionsAre
<1>2. c \in 0..(Len(t) - k) /\ (c = 0 => StaysOpen(U!Rest(t, k)))
  BY CutAtIs
<1>3. CASE c = 0
  <2>1. CutsStep(t, late, k, f) = <<>>
    BY <1>3 DEF CutsStep
  <2> QED BY <1>2, <1>3, <2>1, NoCut
<1>4. CASE c # 0
  <2> DEFINE d == k + c  cs == f[d]
  <2>1. d \in (k + 1)..Len(t)
    BY <1>1, <1>2, <1>4
  <2>2. CutsFrom(cs, t, d)
    BY <2>1
  <2>3. CutsStep(t, late, k, f) = <<d>> \o cs
    BY <1>4 DEF CutsStep
  <2> HIDE DEF d, cs
  <2> QED BY <2>1, <2>2, <2>3, OneMoreCut
<1> QED BY <1>3, <1>4

LEMMA CutsAre ==
  ASSUME NEW t \in U!Text, NEW late \in BOOLEAN
  PROVE  CutsFrom(U!Cuts(t, late), t, 0)
<1> DEFINE n == Len(t)
           Has(f, b) == \A k \in b..n : f[k] = CutsStep(t, late, k, f)
           T == {m \in 0..n : \E f : Has(f, n - m)}
           h == CHOOSE f : f = [k \in 0..n |-> CutsStep(t, late, k, f)]
<1>1. n \in Nat
  BY PositionsAre
<1>2. \A k \in 0..n : CutAt(t, late, k) \in 0..(n - k)
  BY CutAtIs
<1>3. U!Cuts(t, late) = h[0]
  BY DEF U!Cuts, CutsStep, CutAt
<1> HIDE DEF n, h
<1>4. ASSUME NEW b \in 0..n, NEW f, NEW g, \A j \in (b + 1)..n : g[j] = f[j], NEW k \in b..n
      PROVE  CutsStep(t, late, k, g) = CutsStep(t, late, k, f)
  <2>1. CutAt(t, late, k) \in 0..(n - k)
    BY <1>1, <1>2
  <2>2. CutAt(t, late, k) # 0 => k + CutAt(t, late, k) \in (b + 1)..n
    BY <1>1, <2>1
  <2> QED BY <1>4, <2>2 DEF CutsStep
<1>5. 0 \in T
  <2> DEFINE f == [k \in 0..n |-> CutsStep(t, late, k, [j \in {} |-> <<>>])]
  <2>1. CutAt(t, late, n) = 0
    BY <1>1, <1>2
  <2>2. f[n] = CutsStep(t, late, n, f)
    BY <1>1, <2>1 DEF CutsStep
  <2> HIDE DEF f
  <2>3. Has(f, n - 0)
    BY <1>1, <2>2
  <2> QED BY <1>1, <2>3
<1>6. ASSUME NEW m \in 0..(n - 1), m \in T PROVE m + 1 \in T
  <2> DEFINE b == n - (m + 1)
  <2>1. PICK f : Has(f, n - m)
    BY <1>6
  <2>2. b \in 0..n /\ n - m = b + 1 /\ m + 1 \in 0..n
    BY <1>1
  <2> HIDE DEF b
  <2> DEFINE g == [k \in 0..n |-> IF k = b THEN CutsStep(t, late, k, f) ELSE f[k]]
  <2>3. \A j \in (b + 1)..n : g[j] = f[j]
    BY <1>1, <2>2
  <2>4. g[b] = CutsStep(t, late, b, f)
    BY <2>2
  <2>5. \A j \in (b + 1)..n : f[j] = CutsStep(t, late, j, f)
    BY <2>1, <2>2
  <2> HIDE DEF g
  <2>6. \A k \in b..n : CutsStep(t, late, k, g) = CutsStep(t, late, k, f)
    BY <1>4, <2>2, <2>3
  <2>7. ASSUME NEW k \in b..n PROVE g[k] = CutsStep(t, late, k, g)
    <3>1. CASE k = b
      BY <2>2, <2>4, <2>6, <3>1
    <3>2. CASE k # b
      <4>1. k \in (b + 1)..n
        BY <1>1, <2>2, <3>2
      <4> QED BY <2>3, <2>5, <2>6, <4>1
    <3> QED BY <3>1, <3>2
  <2>8. Has(g, b)
    BY <2>7
  <2> QED BY <2>2, <2>8 DEF b
<1> HIDE DEF T
<1>7. \A m \in 0..n : m \in T
  <2>1. \A m \in 0..(n - 1) : m \in T => m + 1 \in T
    BY <1>6
  <2> QED BY <1>1, <1>5, <2>1, Induction
<1>8. PICK f : \A k \in 0..n : f[k] = CutsStep(t, late, k, f)
  <2>1. n \in T /\ n - n = 0
    BY <1>1, <1>7
  <2> QED BY <2>1 DEF T
<1> DEFINE e == [k \in 0..n |-> f[k]]
<1>9. \A j \in 0..n : e[j] = f[j]
  OBVIOUS
<1>10. e = [k \in 0..n |-> CutsStep(t, late, k, e)]
  <2>1. 0 \in 0..n /\ \A j \in (0 + 1)..n : e[j] = f[j]
    BY <1>1, <1>9
  <2> HIDE DEF e
  <2>2. \A k \in 0..n : CutsStep(t, late, k, e) = CutsStep(t, late, k, f)
    BY <1>4, <2>1
  <2>3. \A k \in 0..n : f[k] = CutsStep(t, late, k, e)
    BY <1>8, <2>2
  <2> QED BY <2>3 DEF e
<1> HIDE DEF e
<1>11. h = [k \in 0..n |-> CutsStep(t, late, k, h)]
  BY <1>10 DEF h
<1> DEFINE V == {m \in 0..n : \A k \in (n - m)..n : CutsFrom(h[k], t, k)}
<1>12. \A k \in 0..n : h[k] = CutsStep(t, late, k, h)
  BY <1>11
<1>13. ASSUME NEW k \in 0..n, \A j \in (k + 1)..n : CutsFrom(h[j], t, j) PROVE CutsFrom(h[k], t, k)
  <2>1. CutsFrom(CutsStep(t, late, k, h), t, k)
    BY <1>13, CutsStepIs DEF n
  <2> QED BY <1>12, <2>1
<1>14. 0 \in V
  <2>1. CutsFrom(h[n], t, n)
    BY <1>1, <1>13
  <2> QED BY <1>1, <2>1
<1>15. ASSUME NEW m \in 0..(n - 1), m \in V PROVE m + 1 \in V
  <2> DEFINE b == n - (m + 1)
  <2>1. b \in 0..n /\ n - m = b + 1 /\ m + 1 \in 0..n
    BY <1>1
  <2>2. \A j \in (b + 1)..n : CutsFrom(h[j], t, j)
    BY <1>15, <2>1
  <2> HIDE DEF b
  <2>3. CutsFrom(h[b], t, b)
    BY <1>13, <2>1, <2>2
  <2>4. \A j \in b..n : CutsFrom(h[j], t, j)
    BY <1>1, <2>1, <2>2, <2>3
  <2> QED BY <2>1, <2>4 DEF b
<1> HIDE DEF V
<1>16. \A m \in 0..n : m \in V
  <2>1. \A m \in 0..(n - 1) : m \in V => m + 1 \in V
    BY <1>15
  <2> QED BY <1>1, <1>14, <2>1, Induction
<1>17. n \in V /\ n - n = 0 /\ 0 \in 0..n
  BY <1>1, <1>16
<1>18. CutsFrom(h[0], t, 0)
  BY <1>17 DEF V
<1> QED BY <1>3, <1>18

----------------------------------------------------------------------------
(* The segmenter.                                                          *)

LEMMA FirstIs ==
  ASSUME NEW S, NEW t \in Seq(S), NEW b \in 0..Len(t)
  PROVE  /\ SubSeq(t, 1, b) \in Seq(S) /\ Len(SubSeq(t, 1, b)) = b
         /\ \A i \in 1..b : SubSeq(t, 1, b)[i] = t[i]
<1>1. /\ SubSeq(t, 0 + 1, b) \in Seq(S) /\ Len(SubSeq(t, 0 + 1, b)) = b - 0
      /\ \A i \in 1..(b - 0) : SubSeq(t, 0 + 1, b)[i] = t[0 + i]
  <2>1. 0 \in 0..Len(t) /\ b \in 0..Len(t)
    BY LenProperties
  <2> QED BY <2>1, PieceIs
<1>2. b \in Nat /\ b - 0 = b /\ 0 + 1 = 1
  BY LenProperties
<1>3. \A i \in 1..b : 0 + i = i
  OBVIOUS
<1>4. SubSeq(t, 1, b) \in Seq(S) /\ Len(SubSeq(t, 1, b)) = b
  BY <1>1, <1>2
<1>5. \A i \in 1..b : SubSeq(t, 1, b)[i] = t[0 + i]
  BY <1>1, <1>2
<1> QED BY <1>3, <1>4, <1>5

\* A text is its first b elements and the rest.
LEMMA Parted ==
  ASSUME NEW S, NEW t \in Seq(S), NEW b \in 0..Len(t)
  PROVE  SubSeq(t, 1, b) \o U!Rest(t, b) = t
<1> DEFINE f == SubSeq(t, 1, b)  r == U!Rest(t, b)
<1>1. f \in Seq(S) /\ Len(f) = b /\ \A i \in 1..b : f[i] = t[i]
  BY FirstIs
<1>2. r \in Seq(S) /\ Len(r) = Len(t) - b /\ Len(t) \in Nat /\ \A i \in 1..(Len(t) - b) : r[i] = t[b + i]
  BY RestIs
<1> HIDE DEF f, r
<1>3. f \o r \in Seq(S) /\ Len(f \o r) = Len(t) /\ \A i \in 1..Len(t) : (f \o r)[i] = IF i <= b THEN f[i] ELSE r[i - b]
  <2>1. f \o r \in Seq(S) /\ Len(f \o r) = Len(f) + Len(r)
        /\ \A i \in 1..(Len(f) + Len(r)) : (f \o r)[i] = IF i <= Len(f) THEN f[i] ELSE r[i - Len(f)]
    BY <1>1, <1>2, Joined
  <2>2. Len(f) + Len(r) = Len(t)
    BY <1>1, <1>2
  <2> QED BY <1>1, <2>1, <2>2
<1>4. ASSUME NEW i \in 1..Len(t) PROVE (f \o r)[i] = t[i]
  <2>1. CASE i <= b
    <3>1. i \in 1..b
      BY <1>2, <2>1
    <3> QED BY <1>1, <1>3, <2>1, <3>1
  <2>2. CASE ~(i <= b)
    <3>1. i - b \in 1..(Len(t) - b) /\ b + (i - b) = i
      BY <1>2, <2>2
    <3> QED BY <1>2, <1>3, <2>2, <3>1
  <2> QED BY <2>1, <2>2
<1>5. f \o r = t
  BY <1>3, <1>4, SeqEqual
<1> QED BY <1>5 DEF f, r

\* The first a elements and those up to b are the first b.
LEMMA Pieced ==
  ASSUME NEW S, NEW t \in Seq(S), NEW a \in 0..Len(t), NEW b \in a..Len(t)
  PROVE  SubSeq(t, 1, a) \o SubSeq(t, a + 1, b) = SubSeq(t, 1, b)
<1> DEFINE f == SubSeq(t, 1, a)  r == SubSeq(t, a + 1, b)  g == SubSeq(t, 1, b)
<1>0. Len(t) \in Nat /\ a \in Nat /\ b \in Nat /\ a <= b /\ b \in 0..Len(t)
  BY LenProperties
<1>1. f \in Seq(S) /\ Len(f) = a /\ \A i \in 1..a : f[i] = t[i]
  BY FirstIs
<1>2. g \in Seq(S) /\ Len(g) = b /\ \A i \in 1..b : g[i] = t[i]
  BY <1>0, FirstIs
<1>3. r \in Seq(S) /\ Len(r) = b - a /\ \A i \in 1..(b - a) : r[i] = t[a + i]
  BY PieceIs
<1> HIDE DEF f, r, g
<1>4. f \o r \in Seq(S) /\ Len(f \o r) = b /\ \A i \in 1..b : (f \o r)[i] = IF i <= a THEN f[i] ELSE r[i - a]
  <2>1. f \o r \in Seq(S) /\ Len(f \o r) = Len(f) + Len(r)
        /\ \A i \in 1..(Len(f) + Len(r)) : (f \o r)[i] = IF i <= Len(f) THEN f[i] ELSE r[i - Len(f)]
    BY <1>1, <1>3, Joined
  <2>2. Len(f) + Len(r) = b
    BY <1>0, <1>1, <1>3
  <2> QED BY <1>1, <2>1, <2>2
<1>5. ASSUME NEW i \in 1..b PROVE (f \o r)[i] = g[i]
  <2>1. CASE i <= a
    <3>1. i \in 1..a
      BY <1>0, <2>1
    <3> QED BY <1>1, <1>2, <1>4, <2>1, <3>1
  <2>2. CASE ~(i <= a)
    <3>1. i - a \in 1..(b - a) /\ a + (i - a) = i
      BY <1>0, <2>2
    <3> QED BY <1>2, <1>3, <1>4, <2>2, <3>1
  <2> QED BY <2>1, <2>2
<1>6. f \o r = g
  BY <1>2, <1>4, <1>5, SeqEqual
<1> QED BY <1>6 DEF f, r, g

\* One more element of a sequence put behind another.
LEMMA OneMore ==
  ASSUME NEW S, NEW a \in Seq(S), NEW b \in Seq(S), NEW k \in 0..(Len(b) - 1)
  PROVE  a \o SubSeq(b, 1, k + 1) = Append(a \o SubSeq(b, 1, k), b[k + 1])
<1> DEFINE j == k + 1
<1>0. Len(b) \in Nat /\ k \in 0..Len(b) /\ j \in 0..Len(b) /\ j \in 1..Len(b) /\ j = k + 1 /\ Len(a) \in Nat /\ b[j] \in S
  <2>1. Len(b) \in Nat /\ Len(a) \in Nat
    BY LenProperties
  <2>2. j \in 1..Len(b)
    BY <2>1
  <2> QED BY <2>1, <2>2, ElementOfSeq
<1> HIDE DEF j
<1> DEFINE f == SubSeq(b, 1, k)  g == SubSeq(b, 1, j)
<1>1. f \in Seq(S) /\ Len(f) = k /\ \A i \in 1..k : f[i] = b[i]
  BY <1>0, FirstIs
<1>2. g \in Seq(S) /\ Len(g) = j /\ \A i \in 1..j : g[i] = b[i]
  BY <1>0, FirstIs
<1> HIDE DEF f, g
<1> DEFINE x == a \o f  y == a \o g  e == b[j]  z == Append(x, e)
<1>3. x \in Seq(S) /\ Len(x) = Len(a) + k /\ \A i \in 1..(Len(a) + k) : x[i] = IF i <= Len(a) THEN a[i] ELSE f[i - Len(a)]
  <2>1. a \o f \in Seq(S) /\ Len(a \o f) = Len(a) + Len(f)
        /\ \A i \in 1..(Len(a) + Len(f)) : (a \o f)[i] = IF i <= Len(a) THEN a[i] ELSE f[i - Len(a)]
    BY <1>1, Joined
  <2> QED BY <1>1, <2>1
<1>4. y \in Seq(S) /\ Len(y) = Len(a) + j /\ \A i \in 1..(Len(a) + j) : y[i] = IF i <= Len(a) THEN a[i] ELSE g[i - Len(a)]
  <2>1. a \o g \in Seq(S) /\ Len(a \o g) = Len(a) + Len(g)
        /\ \A i \in 1..(Len(a) + Len(g)) : (a \o g)[i] = IF i <= Len(a) THEN a[i] ELSE g[i - Len(a)]
    BY <1>2, Joined
  <2> QED BY <1>2, <2>1
<1> HIDE DEF x, y
<1>5. /\ z \in Seq(S) /\ Len(z) = Len(x) + 1 /\ z[Len(x) + 1] = e
      /\ \A i \in 1..Len(x) : z[i] = x[i]
  <2>1. x \in Seq(S) /\ e \in S
    BY <1>0, <1>3
  <2> HIDE DEF e
  <2> QED BY <2>1, AppendProperties
<1> HIDE DEF z
<1>6. Len(z) = Len(y) /\ Len(x) + 1 = Len(a) + j /\ Len(y) \in Nat
  BY <1>0, <1>3, <1>4, <1>5
<1>7. ASSUME NEW i \in 1..Len(y) PROVE y[i] = z[i]
  <2>1. CASE i <= Len(a)
    <3>1. i \in 1..Len(x) /\ i \in 1..(Len(a) + k) /\ i \in 1..(Len(a) + j)
      BY <1>0, <1>3, <1>4, <2>1
    <3> QED BY <1>3, <1>4, <1>5, <2>1, <3>1
  <2>2. CASE ~(i <= Len(a)) /\ i <= Len(x)
    <3>1. i - Len(a) \in 1..k /\ i - Len(a) \in 1..j /\ i \in 1..Len(x) /\ i \in 1..(Len(a) + k) /\ i \in 1..(Len(a) + j)
      BY <1>0, <1>3, <1>4, <2>2
    <3> QED BY <1>1, <1>2, <1>3, <1>4, <1>5, <2>2, <3>1
  <2>3. CASE ~(i <= Len(x))
    <3>0. Len(x) = Len(a) + k /\ Len(y) = Len(a) + j /\ j = k + 1 /\ Len(a) \in Nat /\ k \in Nat
      BY <1>0, <1>3, <1>4
    <3>1. i = Len(x) + 1 /\ i - Len(a) = j /\ i \in 1..(Len(a) + j) /\ ~(i <= Len(a)) /\ j \in 1..j
      BY <2>3, <3>0
    <3> QED BY <1>2, <1>4, <1>5, <3>1
  <2> QED BY <1>0, <1>3, <2>1, <2>2, <2>3
<1>8. y = z
  BY <1>4, <1>5, <1>6, <1>7, SeqEqual
<1> QED BY <1>8 DEF x, y, z, f, g, j

TidyUnit(t) == t \in U!Text /\ \A i \in 1..(Len(t) - 1) : t[i][2] # "artefact"

\* _close changes marks only.
LEMMA TidyIs ==
  ASSUME NEW t \in U!Text
  PROVE  TidyUnit(U!Tidy(t)) /\ U!Positions(U!Tidy(t)) = U!Positions(t)
<1> DEFINE u == U!Tidy(t)
<1>1. t \in Seq(Token) /\ Len(t) \in Nat /\ DOMAIN t = 1..Len(t) /\ \A i \in 1..Len(t) : t[i] \in Token
  BY TextIs, LenProperties, ElementOfSeq
<1>2. \A i \in 1..Len(t) : t[i][1] \in 1..MaxWords /\ <<t[i][1], "none">> \in Token
  BY <1>1, TokenParts DEF U!Marks
<1>3. u = [i \in 1..Len(t) |-> IF i < Len(t) /\ t[i][2] = "artefact" THEN <<t[i][1], "none">> ELSE t[i]]
  BY <1>1 DEF U!Tidy
<1> HIDE DEF u
<1>4. u \in [1..Len(t) -> Token]
  BY <1>1, <1>2, <1>3
<1>5. u \in Seq(Token) /\ Len(u) = Len(t)
  BY <1>1, <1>4
<1>6. \A i \in 1..Len(t) : u[i][1] = t[i][1]
  BY <1>3
<1>7. \A i \in 1..(Len(t) - 1) : u[i][2] # "artefact"
  <2> SUFFICES ASSUME NEW i \in 1..(Len(t) - 1) PROVE u[i][2] # "artefact"
    OBVIOUS
  <2>1. i \in 1..Len(t) /\ i < Len(t)
    BY <1>1
  <2> QED BY <1>3, <2>1
<1>8. u \in U!Text
  BY <1>5, TextIs
<1>9. U!Positions(u) = U!Positions(t)
  BY <1>5, <1>6, <1>8, PositionsEqual
<1> QED BY <1>5, <1>7, <1>8, <1>9 DEF u, TidyUnit

\* The units a text is cut into hold its words up to the last end.
StartOf(cs, i) == IF i = 1 THEN 0 ELSE cs[i - 1]
LEMMA ReleasedAre ==
  ASSUME NEW t \in U!Text, NEW cs, CutsFrom(cs, t, 0)
  PROVE  /\ U!Released(t, cs) \in Seq(U!Text) /\ Len(U!Released(t, cs)) = Len(cs) /\ Len(cs) \in Nat
         /\ \A i \in 1..Len(cs) :
              /\ StartOf(cs, i) \in 0..Len(t) /\ cs[i] \in StartOf(cs, i)..Len(t)
              /\ TidyUnit(U!Released(t, cs)[i])
              /\ U!Positions(U!Released(t, cs)[i]) = U!Positions(SubSeq(t, StartOf(cs, i) + 1, cs[i]))
<1> DEFINE r == U!Released(t, cs)  S == (0 + 1)..Len(t)
<1>1. cs \in Seq(S) /\ \A i, j \in 1..Len(cs) : i < j => cs[i] < cs[j]
  BY DEF CutsFrom
<1>2. Len(cs) \in Nat /\ DOMAIN cs = 1..Len(cs) /\ \A i \in 1..Len(cs) : cs[i] \in S
  <2> HIDE DEF S
  <2>1. Len(cs) \in Nat /\ DOMAIN cs = 1..Len(cs)
    BY <1>1, LenProperties
  <2>2. \A i \in 1..Len(cs) : cs[i] \in S
    BY <1>1, ElementOfSeq
  <2> QED BY <2>1, <2>2
<1>3. Len(t) \in Nat /\ t \in Seq(Token)
  BY PositionsAre, TextIs
<1>4. ASSUME NEW i \in 1..Len(cs)
      PROVE  StartOf(cs, i) \in 0..Len(t) /\ cs[i] \in StartOf(cs, i)..Len(t)
  <2>1. CASE i = 1
    BY <1>2, <1>3, <2>1 DEF StartOf
  <2>2. CASE i # 1
    <3>1. i - 1 \in 1..Len(cs) /\ i - 1 < i
      BY <1>2, <2>2
    <3>2. cs[i - 1] < cs[i] /\ cs[i - 1] \in S /\ cs[i] \in S
      BY <1>1, <1>2, <3>1
    <3> QED BY <1>3, <2>2, <3>2 DEF StartOf
  <2> QED BY <2>1, <2>2
<1>5. r = [i \in 1..Len(cs) |-> U!Tidy(SubSeq(t, StartOf(cs, i) + 1, cs[i]))]
  BY <1>2 DEF U!Released, StartOf
<1> HIDE DEF r
<1>6. ASSUME NEW i \in 1..Len(cs)
      PROVE  TidyUnit(r[i]) /\ U!Positions(r[i]) = U!Positions(SubSeq(t, StartOf(cs, i) + 1, cs[i]))
  <2> DEFINE p == SubSeq(t, StartOf(cs, i) + 1, cs[i])  a == StartOf(cs, i)  b == cs[i]
  <2>1. a \in 0..Len(t) /\ b \in a..Len(t)
    BY <1>4
  <2>2. r[i] = U!Tidy(p)
    BY <1>5
  <2> HIDE DEF a, b
  <2>3. SubSeq(t, a + 1, b) \in Seq(Token)
    BY <1>3, <2>1, PieceIs
  <2>4. p \in U!Text
    BY <2>3, TextIs DEF a, b
  <2> HIDE DEF p
  <2>5. TidyUnit(U!Tidy(p)) /\ U!Positions(U!Tidy(p)) = U!Positions(p)
    BY <2>4, TidyIs
  <2> QED BY <2>2, <2>5 DEF p
<1>7. r \in Seq(U!Text) /\ Len(r) = Len(cs)
  <2>1. \A i \in 1..Len(cs) : r[i] \in U!Text
    BY <1>6 DEF TidyUnit
  <2>2. r \in [1..Len(cs) -> U!Text]
    BY <1>5, <2>1
  <2> QED BY <1>2, <2>2
<1> QED BY <1>2, <1>4, <1>6, <1>7 DEF r

\* The flattened units before and the released ones, by position.
LEMMA ReleasedFlat ==
  ASSUME NEW t \in U!Text, NEW cs, CutsFrom(cs, t, 0), cs # <<>>, NEW us \in Seq(U!Text)
  PROVE  /\ cs[Len(cs)] \in 0..Len(t) /\ us \o U!Released(t, cs) \in Seq(U!Text)
         /\ U!Positions(U!FlattenSeq(us \o U!Released(t, cs)))
              = U!Positions(U!FlattenSeq(us)) \o U!Positions(SubSeq(t, 1, cs[Len(cs)]))
<1> DEFINE r == U!Released(t, cs)  n == Len(cs)  Captions == U!Text  N == 1..MaxWords
           E(m) == IF m = 0 THEN 0 ELSE cs[m]
           P == U!Positions(U!FlattenSeq(us))
           B(m) == us \o SubSeq(r, 1, m)
           T == {m \in 0..n : U!Positions(U!FlattenSeq(B(m))) = P \o U!Positions(SubSeq(t, 1, E(m)))}
<1>1. /\ r \in Seq(Captions) /\ Len(r) = n /\ n \in Nat
      /\ \A i \in 1..n : /\ StartOf(cs, i) \in 0..Len(t) /\ cs[i] \in StartOf(cs, i)..Len(t)
                         /\ TidyUnit(r[i])
                         /\ U!Positions(r[i]) = U!Positions(SubSeq(t, StartOf(cs, i) + 1, cs[i]))
  BY ReleasedAre
<1>2. n # 0
  <2>1. cs \in Seq((0 + 1)..Len(t))
    BY DEF CutsFrom
  <2> QED BY <2>1, EmptySeq
<1>3. t \in Seq(Token) /\ Len(t) \in Nat
  BY TextIs, PositionsAre
<1> HIDE DEF r, n
<1>4. \A m \in 0..n : E(m) \in 0..Len(t)
  <2> SUFFICES ASSUME NEW m \in 0..n PROVE E(m) \in 0..Len(t)
    OBVIOUS
  <2>1. CASE m = 0
    BY <1>3, <2>1
  <2>2. CASE m # 0
    <3>1. m \in 1..n
      BY <1>1, <2>2
    <3>2. StartOf(cs, m) \in 0..Len(t) /\ cs[m] \in StartOf(cs, m)..Len(t)
      BY <1>1, <3>1
    <3> QED BY <1>3, <2>2, <3>2
  <2> QED BY <2>1, <2>2
<1>5. ASSUME NEW m \in 0..n PROVE B(m) \in Seq(Captions)
  <2>1. SubSeq(r, 1, m) \in Seq(Captions)
    BY <1>1, FirstIs
  <2> DEFINE f == SubSeq(r, 1, m)
  <2> HIDE DEF f
  <2>2. us \o f \in Seq(Captions)
    BY <2>1, Joined DEF f
  <2> QED BY <2>2 DEF f
<1>6. P \in Seq(N) /\ U!FlattenSeq(us) \in U!Text
  <2>1. U!FlattenSeq(us) \in U!Text
    <3>1. <<>> \in U!Text
      BY TextIs
    <3> DEFINE e == <<>>
    <3>2. e \in U!Text
      BY <3>1
    <3> HIDE DEF e
    <3> QED BY <3>2, FlatAppend
  <2> QED BY <2>1, PositionsAre
<1>7. 0 \in T
  <2>1. SubSeq(r, 1, 0) = <<>> /\ SubSeq(t, 1, 0) = <<>>
    OBVIOUS
  <2>2. us \o <<>> = us /\ P \o <<>> = P
    BY <1>6
  <2>3. U!Positions(<<>>) = <<>>
    BY DEF U!Positions
  <2>4. E(0) = 0
    OBVIOUS
  <2>5. B(0) = us
    BY <2>1, <2>2
  <2>6. U!Positions(SubSeq(t, 1, E(0))) = <<>>
    BY <2>1, <2>3, <2>4
  <2> HIDE DEF P, B, E
  <2>7. U!Positions(U!FlattenSeq(B(0))) = P \o U!Positions(SubSeq(t, 1, E(0)))
    BY <2>2, <2>5, <2>6 DEF P
  <2>8. 0 \in 0..n
    BY <1>1
  <2> QED BY <2>7, <2>8
<1>8. ASSUME NEW m \in 0..(n - 1), m \in T PROVE m + 1 \in T
  <2> DEFINE k == m + 1
  <2>1. k \in 1..n /\ k = m + 1 /\ m \in 0..n /\ k \in 0..n /\ m \in Nat
    BY <1>1
  <2>2. m \in 0..(Len(r) - 1)
    BY <1>1
  <2>3. B(m + 1) = Append(B(m), r[m + 1])
    BY <1>1, <2>2, OneMore
  <2> HIDE DEF k
  <2>4. B(k) = Append(B(m), r[k])
    BY <2>1, <2>3
  <2>5. StartOf(cs, k) = E(m) /\ E(k) = cs[k]
    <3>1. k # 0 /\ (k = 1 <=> m = 0) /\ k - 1 = m
      BY <2>1
    <3> QED BY <3>1 DEF StartOf
  <2>6. r[k] \in Captions /\ E(k) \in E(m)..Len(t) /\ U!Positions(r[k]) = U!Positions(SubSeq(t, E(m) + 1, E(k)))
    <3>1. /\ cs[k] \in StartOf(cs, k)..Len(t) /\ TidyUnit(r[k])
          /\ U!Positions(r[k]) = U!Positions(SubSeq(t, StartOf(cs, k) + 1, cs[k]))
      BY <1>1, <2>1
    <3> QED BY <2>5, <3>1 DEF TidyUnit
  <2>7. B(m) \in Seq(Captions) /\ E(m) \in 0..Len(t)
    BY <1>4, <1>5, <2>1
  <2> DEFINE a == E(m)  b == E(k)  c == B(m)  u == r[k]  f == SubSeq(t, 1, a)  g == SubSeq(t, a + 1, b)  h == SubSeq(t, 1, b)
  <2>8. a \in 0..Len(t) /\ b \in a..Len(t) /\ b \in 0..Len(t)
    BY <1>3, <2>6, <2>7
  <2>9. c \in Seq(Captions) /\ u \in Captions /\ B(k) = Append(c, u) /\ U!Positions(u) = U!Positions(g)
    BY <2>4, <2>6, <2>7
  <2>10. U!Positions(U!FlattenSeq(c)) = P \o U!Positions(f)
    BY <1>8
  <2> HIDE DEF a, b, c, u, E, B
  <2>11. f \in Captions /\ g \in Captions /\ h \in Captions
    <3>1. f \in Seq(Token)
      BY <1>3, <2>8, FirstIs
    <3>2. h \in Seq(Token)
      BY <1>3, <2>8, FirstIs
    <3>3. g \in Seq(Token)
      BY <1>3, <2>8, PieceIs
    <3> QED BY <3>1, <3>2, <3>3, TextIs
  <2>12. f \o g = h
    BY <1>3, <2>8, Pieced
  <2> HIDE DEF f, g, h
  <2>13. U!FlattenSeq(Append(c, u)) = U!FlattenSeq(c) \o u /\ U!FlattenSeq(c) \in Captions
    BY <2>9, FlatAppend
  <2>14. U!Positions(U!FlattenSeq(c) \o u) = U!Positions(U!FlattenSeq(c)) \o U!Positions(u)
    BY <2>9, <2>13, PositionsJoin
  <2>15. U!Positions(h) = U!Positions(f) \o U!Positions(g)
    BY <2>11, <2>12, PositionsJoin
  <2>16. U!Positions(f) \in Seq(N) /\ U!Positions(g) \in Seq(N)
    BY <2>11, PositionsAre
  <2> DEFINE x == U!Positions(f)  y == U!Positions(g)
  <2> HIDE DEF x, y, P, N
  <2>17. (P \o x) \o y = P \o (x \o y)
    BY <1>6, <2>16, ConcatAssociative DEF x, y
  <2>18. U!Positions(U!FlattenSeq(B(k))) = P \o U!Positions(h)
    BY <2>9, <2>10, <2>13, <2>14, <2>15, <2>17 DEF x, y
  <2> QED BY <2>1, <2>18 DEF h, b
<1> HIDE DEF T
<1>9. \A m \in 0..n : m \in T
  <2>1. \A m \in 0..(n - 1) : m \in T => m + 1 \in T
    BY <1>8
  <2> QED BY <1>1, <1>7, <2>1, Induction
<1>10. n \in T /\ n \in 0..n
  BY <1>1, <1>9
<1>11. U!Positions(U!FlattenSeq(B(n))) = P \o U!Positions(SubSeq(t, 1, E(n)))
  BY <1>10 DEF T
<1>12. SubSeq(r, 1, n) = r
  <2>1. SubSeq(r, 1, n) \in Seq(Captions) /\ Len(SubSeq(r, 1, n)) = n /\ \A i \in 1..n : SubSeq(r, 1, n)[i] = r[i]
    <3>1. n \in 0..Len(r)
      BY <1>1
    <3> QED BY <1>1, <3>1, FirstIs
  <2> QED BY <1>1, <2>1, SeqEqual
<1>13. B(n) = us \o r /\ E(n) = cs[n]
  BY <1>2, <1>12
<1>14. B(n) \in Seq(Captions) /\ E(n) \in 0..Len(t)
  BY <1>4, <1>5, <1>10
<1> QED BY <1>11, <1>13, <1>14 DEF r, n

----------------------------------------------------------------------------
(* The state the mapper and the segmenter keep.                            *)

MapperType == [open : U!Text, held : BOOLEAN, seen : BOOLEAN, buffer : U!Hypothesis, previous : U!Hypothesis,
               promoted : U!Hypothesis, lines : Seq(1..MaxWords), units : Seq(U!Text)]

\* Units are tidy, a period is held back at the end of the open one only, and that one is short.
TidyUnits(us) == \A i \in 1..Len(us) : TidyUnit(us[i])
InOrder(s) ==
  /\ TidyUnits(s.units) /\ StaysOpen(s.open)
  /\ s.held <=> (s.open # <<>> /\ U!HeldBack(s.open))
Good(s) == s \in MapperType /\ InOrder(s)

\* The words shown, by position.
Words(s) == U!Positions(U!FlattenSeq(s.units)) \o U!Positions(s.open)

\* z shows what s does and w behind it; the hypotheses are the same.
Adds(z, s, w) ==
  /\ Good(z) /\ Words(z) = Words(s) \o w
  /\ z.buffer = s.buffer /\ z.previous = s.previous /\ z.promoted = s.promoted /\ z.lines = s.lines

LEMMA MapperParts ==
  ASSUME NEW s \in MapperType
  PROVE  /\ s.open \in U!Text /\ s.held \in BOOLEAN /\ s.seen \in BOOLEAN /\ s.buffer \in U!Hypothesis
         /\ s.previous \in U!Hypothesis /\ s.promoted \in U!Hypothesis /\ s.lines \in Seq(1..MaxWords)
         /\ s.units \in Seq(U!Text)
BY DEF MapperType

LEMMA EmptyText == <<>> \in U!Text /\ U!Positions(<<>>) = <<>> /\ <<>> \in U!Hypothesis /\ StaysOpen(<<>>)
BY TextIs DEF U!Positions, StaysOpen

LEMMA FlatType ==
  ASSUME NEW us \in Seq(U!Text)
  PROVE  U!FlattenSeq(us) \in U!Text
<1> DEFINE e == <<>>
<1>1. e \in U!Text
  BY EmptyText
<1> HIDE DEF e
<1> QED BY <1>1, FlatAppend

LEMMA WordsAre ==
  ASSUME NEW s \in MapperType
  PROVE  Words(s) \in Seq(1..MaxWords)
<1> DEFINE N == 1..MaxWords  a == U!Positions(U!FlattenSeq(s.units))  b == U!Positions(s.open)
<1>1. U!FlattenSeq(s.units) \in U!Text /\ s.open \in U!Text
  BY MapperParts, FlatType
<1>2. a \in Seq(N) /\ b \in Seq(N)
  BY <1>1, PositionsAre
<1> HIDE DEF a, b, N
<1>3. a \o b \in Seq(N)
  BY <1>2, Joined
<1> QED BY <1>3 DEF Words, a, b, N

LEMMA AddsNothing ==
  ASSUME NEW s, Good(s)
  PROVE  Adds(s, s, <<>>)
<1>1. Words(s) \in Seq(1..MaxWords)
  BY WordsAre DEF Good
<1> QED BY <1>1 DEF Adds

LEMMA AddsMore ==
  ASSUME NEW s, NEW y, NEW z, NEW v \in Seq(1..MaxWords), NEW w \in Seq(1..MaxWords), Good(s), Adds(y, s, v), Adds(z, y, w)
  PROVE  Adds(z, s, v \o w)
<1> DEFINE N == 1..MaxWords
<1>1. Words(s) \in Seq(N) /\ v \in Seq(N) /\ w \in Seq(N)
  BY WordsAre DEF Good
<1> HIDE DEF N
<1>2. (Words(s) \o v) \o w = Words(s) \o (v \o w)
  BY <1>1, ConcatAssociative
<1> QED BY <1>2 DEF Adds

\* A period that turns out to be an artefact goes.
LEMMA WithoutPeriodIs ==
  ASSUME NEW t \in U!Text
  PROVE  U!WithoutPeriod(t) \in U!Text /\ U!Positions(U!WithoutPeriod(t)) = U!Positions(t)
<1> DEFINE u == U!WithoutPeriod(t)  n == Len(t)
<1>1. t \in Seq(Token) /\ n \in Nat /\ DOMAIN t = 1..n /\ \A i \in 1..n : t[i] \in Token
  BY TextIs, LenProperties, ElementOfSeq
<1>2. \A i \in 1..n : t[i][1] \in 1..MaxWords /\ <<t[i][1], "none">> \in Token
  BY <1>1, TokenParts DEF U!Marks
<1>3. u = [i \in 1..n |-> IF i = n THEN <<t[n][1], "none">> ELSE t[i]]
  BY <1>1 DEF U!WithoutPeriod
<1> HIDE DEF u, n
<1>4. u \in [1..n -> Token]
  BY <1>1, <1>2, <1>3
<1>5. u \in Seq(Token) /\ Len(u) = n
  BY <1>1, <1>4
<1>6. \A i \in 1..n : u[i][1] = t[i][1]
  BY <1>3
<1>7. u \in U!Text
  BY <1>5, TextIs
<1>8. U!Positions(u) = U!Positions(t)
  BY <1>5, <1>6, <1>7, PositionsEqual DEF n
<1> QED BY <1>7, <1>8 DEF u

\* append: the text is shown behind what was there.
OpenText(s) == IF s.held THEN U!WithoutPeriod(s.open) ELSE s.open
LEMMA OpenedIs ==
  ASSUME NEW s \in MapperType, NEW t \in U!Text
  PROVE  /\ U!Opened(s, t) \in MapperType /\ U!Opened(s, t).open = t /\ U!Opened(s, t).units = s.units
         /\ U!Opened(s, t).held = U!HeldBack(t) /\ U!Opened(s, t).lines = s.lines
         /\ U!Opened(s, t).buffer = s.buffer /\ U!Opened(s, t).previous = s.previous /\ U!Opened(s, t).promoted = s.promoted
<1> DEFINE h == U!HeldBack(t)
<1>1. h \in BOOLEAN
  BY DEF U!HeldBack
<1>2. U!Opened(s, t) = [s EXCEPT !.open = t, !.held = h, !.seen = FALSE]
  BY DEF U!Opened
<1> HIDE DEF h
<1>3. [s EXCEPT !.open = t, !.held = h, !.seen = FALSE] \in MapperType
  BY <1>1 DEF MapperType
<1> QED BY <1>2, <1>3 DEF h, MapperType

LEMMA HeldHasText ==
  ASSUME NEW t \in U!Text, U!HeldBack(t)
  PROVE  t # <<>>
BY UnitBounds, EmptyText DEF U!HeldBack

\* More units, an open one and nothing else changed.
NewUnits(s, us, t) == [U!Opened(s, t) EXCEPT !.units = us]
LEMMA AddsUnits ==
  ASSUME NEW s, Good(s), NEW us \in Seq(U!Text), TidyUnits(us), NEW t \in U!Text, StaysOpen(t), NEW w,
         NEW z, z = NewUnits(s, us, t),
         U!Positions(U!FlattenSeq(us)) \o U!Positions(t) = Words(s) \o w
  PROVE  Adds(z, s, w)
<1> DEFINE o == U!Opened(s, t)
<1>1. s \in MapperType
  BY DEF Good
<1>2. /\ o \in MapperType /\ o.open = t /\ o.held = U!HeldBack(t) /\ o.lines = s.lines
      /\ o.buffer = s.buffer /\ o.previous = s.previous /\ o.promoted = s.promoted
  BY <1>1, OpenedIs
<1> HIDE DEF o
<1>3. z \in MapperType /\ z.units = us /\ z.open = t /\ z.held = U!HeldBack(t) /\ z.lines = s.lines
      /\ z.buffer = s.buffer /\ z.previous = s.previous /\ z.promoted = s.promoted
  <2>1. z = [o EXCEPT !.units = us]
    BY DEF o, NewUnits
  <2> QED BY <1>2, <2>1 DEF MapperType
<1>4. z.held <=> (t # <<>> /\ U!HeldBack(t))
  BY <1>3, HeldHasText
<1>5. InOrder(z)
  BY <1>3, <1>4 DEF InOrder
<1> QED BY <1>3, <1>5 DEF Adds, Good, Words

LEMMA TidyUnitsJoin ==
  ASSUME NEW a \in Seq(U!Text), NEW b \in Seq(U!Text), TidyUnits(a), TidyUnits(b)
  PROVE  a \o b \in Seq(U!Text) /\ TidyUnits(a \o b)
<1> DEFINE c == a \o b
<1>1. /\ c \in Seq(U!Text) /\ Len(c) = Len(a) + Len(b) /\ Len(a) \in Nat /\ Len(b) \in Nat
      /\ \A i \in 1..(Len(a) + Len(b)) : c[i] = IF i <= Len(a) THEN a[i] ELSE b[i - Len(a)]
  BY Joined
<1> HIDE DEF c
<1>2. ASSUME NEW i \in 1..Len(c) PROVE TidyUnit(c[i])
  <2>1. CASE i <= Len(a)
    <3>1. i \in 1..Len(a) /\ c[i] = a[i]
      BY <1>1, <2>1
    <3> QED BY <3>1 DEF TidyUnits
  <2>2. CASE ~(i <= Len(a))
    <3>1. i - Len(a) \in 1..Len(b) /\ c[i] = b[i - Len(a)]
      BY <1>1, <2>2
    <3> QED BY <3>1 DEF TidyUnits
  <2> QED BY <2>1, <2>2
<1> QED BY <1>1, <1>2 DEF TidyUnits, c

LEMMA OpenTextIs ==
  ASSUME NEW s, Good(s), NEW delta \in U!Text
  PROVE  /\ OpenText(s) \o delta \in U!Text
         /\ U!Positions(OpenText(s) \o delta) = U!Positions(s.open) \o U!Positions(delta)
<1> DEFINE o == OpenText(s)
<1>1. s \in MapperType /\ s.open \in U!Text
  BY MapperParts DEF Good
<1>2. U!WithoutPeriod(s.open) \in U!Text /\ U!Positions(U!WithoutPeriod(s.open)) = U!Positions(s.open)
  BY <1>1, WithoutPeriodIs
<1>3. o \in U!Text /\ U!Positions(o) = U!Positions(s.open)
  BY <1>1, <1>2 DEF OpenText
<1> HIDE DEF o
<1>4. o \o delta \in U!Text /\ U!Positions(o \o delta) = U!Positions(o) \o U!Positions(delta)
  BY <1>3, PositionsJoin
<1> QED BY <1>3, <1>4 DEF o

LEMMA AppendTextIs ==
  ASSUME NEW s, Good(s), NEW delta \in U!Text, NEW late \in BOOLEAN
  PROVE  Adds(U!AppendText(s, delta, late), s, U!Positions(delta))
<1> DEFINE t == OpenText(s) \o delta  cs == U!Cuts(t, late)  z == U!AppendText(s, delta, late)
           N == 1..MaxWords  w == U!Positions(delta)  p == U!Positions(s.open)  f == U!Positions(U!FlattenSeq(s.units))
<1>1. s \in MapperType /\ s.open \in U!Text /\ s.units \in Seq(U!Text) /\ InOrder(s) /\ TidyUnits(s.units)
  BY MapperParts DEF Good, InOrder
<1>2. t \in U!Text /\ U!Positions(t) = p \o w
  BY OpenTextIs
<1>3. z = IF delta = <<>> THEN s
          ELSE IF cs = <<>> THEN U!Opened(s, t)
          ELSE [U!Opened(s, U!Rest(t, cs[Len(cs)])) EXCEPT !.units = s.units \o U!Released(t, cs)]
  <2>1. \A x \in U!Text : U!Opened(s, x).units = s.units
    BY <1>1, OpenedIs
  <2> QED BY DEF U!AppendText, OpenText, U!Last, U!Opened
<1> HIDE DEF t
<1>4. CutsFrom(cs, t, 0)
  BY <1>2, CutsAre
<1>5. w \in Seq(N) /\ p \in Seq(N) /\ f \in Seq(N)
  <2>1. U!FlattenSeq(s.units) \in U!Text
    BY <1>1, FlatType
  <2> QED BY <1>1, <2>1, PositionsAre
<1>6. f \o (p \o w) = Words(s) \o w
  <2> HIDE DEF f, p, w, N
  <2>1. (f \o p) \o w = f \o (p \o w)
    BY <1>5, ConcatAssociative
  <2> QED BY <2>1 DEF Words, f, p
<1> HIDE DEF cs, z
<1>7. CASE delta = <<>>
  <2>1. z = s /\ w = <<>>
    BY <1>3, <1>7, EmptyText
  <2> QED BY <2>1, AddsNothing DEF z
<1>8. CASE delta # <<>> /\ cs = <<>>
  <2> DEFINE o == U!Opened(s, t)
  <2>1. z = o /\ o \in MapperType /\ o.units = s.units
    BY <1>1, <1>2, <1>3, <1>8, OpenedIs
  <2>2. o = [o EXCEPT !.units = s.units]
    <3> HIDE DEF o
    <3> QED BY <2>1 DEF MapperType
  <2>3. StaysOpen(t)
    <3>1. StaysOpen(U!Rest(t, 0))
      BY <1>4, <1>8 DEF CutsFrom
    <3>2. U!Rest(t, 0) = t
      <4>1. t \in Seq(Token) /\ Len(t) \in Nat
        BY <1>2, TextIs, PositionsAre
      <4>2. 0 \in 0..Len(t)
        BY <4>1
      <4>3. /\ U!Rest(t, 0) \in Seq(Token) /\ Len(U!Rest(t, 0)) = Len(t) - 0
            /\ \A i \in 1..(Len(t) - 0) : U!Rest(t, 0)[i] = t[0 + i]
        BY <4>1, <4>2, RestIs
      <4>4. Len(U!Rest(t, 0)) = Len(t) /\ \A i \in 1..Len(t) : U!Rest(t, 0)[i] = t[i]
        BY <4>1, <4>3
      <4> QED BY <4>1, <4>3, <4>4, SeqEqual
    <3> QED BY <3>1, <3>2
  <2>4. f \o U!Positions(t) = Words(s) \o w
    BY <1>2, <1>6
  <2>5. z = NewUnits(s, s.units, t)
    BY <2>1, <2>2 DEF NewUnits
  <2> HIDE DEF w
  <2>6. Adds(z, s, w)
    BY <1>1, <1>2, <2>3, <2>4, <2>5, AddsUnits
  <2> QED BY <2>6 DEF z, w
<1>9. CASE delta # <<>> /\ cs # <<>>
  <2> DEFINE k == cs[Len(cs)]  us == s.units \o U!Released(t, cs)  r == U!Rest(t, k)  b == SubSeq(t, 1, k)
  <2>1. k \in 0..Len(t) /\ us \in Seq(U!Text) /\ U!Positions(U!FlattenSeq(us)) = f \o U!Positions(b)
    BY <1>1, <1>2, <1>4, <1>9, ReleasedFlat
  <2>2. TidyUnits(us)
    <3> DEFINE rs == U!Released(t, cs)
    <3>1. rs \in Seq(U!Text) /\ TidyUnits(rs)
      BY <1>2, <1>4, ReleasedAre DEF TidyUnits
    <3> HIDE DEF rs
    <3>2. TidyUnits(s.units \o rs)
      BY <1>1, <3>1, TidyUnitsJoin
    <3> QED BY <3>2 DEF rs
  <2>3. StaysOpen(r)
    BY <1>4, <1>9 DEF CutsFrom
  <2>4. z = NewUnits(s, us, r)
    BY <1>3, <1>9 DEF NewUnits
  <2> HIDE DEF k, us
  <2>5. r \in U!Text /\ b \in U!Text /\ b \o r = t
    <3>1. t \in Seq(Token)
      BY <1>2, TextIs
    <3>2. r \in Seq(Token)
      BY <2>1, <3>1, RestIs
    <3>3. b \in Seq(Token)
      BY <2>1, <3>1, FirstIs
    <3>4. b \o r = t
      BY <2>1, <3>1, Parted
    <3> QED BY <3>2, <3>3, <3>4, TextIs
  <2> HIDE DEF r, b
  <2>6. U!Positions(b) \o U!Positions(r) = p \o w /\ U!Positions(b) \in Seq(N) /\ U!Positions(r) \in Seq(N)
    BY <1>2, <2>5, PositionsJoin, PositionsAre
  <2> DEFINE x == U!Positions(b)  y == U!Positions(r)
  <2>7. x \in Seq(N) /\ y \in Seq(N) /\ x \o y = p \o w /\ U!Positions(U!FlattenSeq(us)) = f \o x
    BY <2>1, <2>6
  <2>8. U!Positions(U!FlattenSeq(us)) \o y = Words(s) \o w
    <3> HIDE DEF x, y, f, N, p, w
    <3>0. f \in Seq(N) /\ x \in Seq(N) /\ y \in Seq(N)
      BY <1>5, <2>7
    <3>1. (f \o x) \o y = f \o (x \o y)
      BY <3>0, ConcatAssociative
    <3> QED BY <1>6, <2>7, <3>1
  <2> HIDE DEF w
  <2>9. Adds(z, s, w)
    BY <2>1, <2>2, <2>3, <2>4, <2>5, <2>8, AddsUnits
  <2> QED BY <2>9 DEF z, w
<1> QED BY <1>7, <1>8, <1>9

\* flush: the open unit is closed.
LEMMA FlushIs ==
  ASSUME NEW s, Good(s)
  PROVE  Adds(U!Flush(s), s, <<>>) /\ U!Flush(s).open = <<>>
<1> DEFINE e == <<>>
<1>1. s \in MapperType /\ s.open \in U!Text /\ s.units \in Seq(U!Text) /\ TidyUnits(s.units)
  BY MapperParts DEF Good, InOrder
<1>2. Words(s) \in Seq(1..MaxWords) /\ Words(s) \o e = Words(s)
  <2>1. Words(s) \in Seq(1..MaxWords)
    BY <1>1, WordsAre
  <2> QED BY <2>1
<1>3. CASE s.open = <<>>
  <2> DEFINE z == [s EXCEPT !.held = FALSE]
  <2>1. U!Flush(s) = z
    BY <1>3 DEF U!Flush
  <2>2. /\ z \in MapperType /\ z.open = s.open /\ z.units = s.units /\ z.held = FALSE /\ z.lines = s.lines
        /\ z.buffer = s.buffer /\ z.previous = s.previous /\ z.promoted = s.promoted
    BY <1>1 DEF MapperType
  <2> HIDE DEF z
  <2>3. InOrder(z)
    BY <1>3, <2>2 DEF Good, InOrder
  <2>4. Words(z) = Words(s)
    BY <2>2 DEF Words
  <2>5. Adds(z, s, e)
    BY <1>2, <2>2, <2>3, <2>4 DEF Adds, Good
  <2> QED BY <1>3, <2>1, <2>2, <2>5
<1>4. CASE s.open # <<>>
  <2> DEFINE u == U!Tidy(s.open)  us == Append(s.units, u)
  <2>1. TidyUnit(u) /\ U!Positions(u) = U!Positions(s.open) /\ u \in U!Text
    BY <1>1, TidyIs DEF TidyUnit
  <2>2. U!Opened(s, e).units = s.units
    BY <1>1, EmptyText, OpenedIs
  <2>3. U!Flush(s) = [U!Opened(s, e) EXCEPT !.units = us]
    BY <1>4, <2>2 DEF U!Flush
  <2> HIDE DEF u
  <2>4. us \in Seq(U!Text) /\ TidyUnits(us)
    <3>1. us \in Seq(U!Text) /\ Len(us) = Len(s.units) + 1 /\ us[Len(s.units) + 1] = u
          /\ Len(s.units) \in Nat /\ \A i \in 1..Len(s.units) : us[i] = s.units[i]
      BY <1>1, <2>1, AppendProperties, LenProperties
    <3> HIDE DEF us
    <3>2. ASSUME NEW i \in 1..Len(us) PROVE TidyUnit(us[i])
      <4>1. i \in 1..Len(s.units) \/ i = Len(s.units) + 1
        BY <3>1
      <4> QED BY <1>1, <2>1, <3>1, <4>1 DEF TidyUnits
    <3> QED BY <3>1, <3>2 DEF TidyUnits
  <2>5. U!FlattenSeq(us) = U!FlattenSeq(s.units) \o u /\ U!FlattenSeq(s.units) \in U!Text
    BY <1>1, <2>1, FlatAppend
  <2>6. U!Positions(U!FlattenSeq(us)) = Words(s)
    <3>1. U!Positions(U!FlattenSeq(s.units) \o u) = U!Positions(U!FlattenSeq(s.units)) \o U!Positions(u)
      BY <2>1, <2>5, PositionsJoin
    <3> QED BY <2>1, <2>5, <3>1 DEF Words
  <2>7. U!Positions(U!FlattenSeq(us)) \o U!Positions(e) = Words(s) \o e
    BY <2>6, EmptyText
  <2>8. e \in U!Text /\ StaysOpen(e)
    BY EmptyText
  <2> DEFINE z == U!Flush(s)
  <2>9. z = NewUnits(s, us, e)
    BY <2>3 DEF NewUnits
  <2> HIDE DEF us, e, z
  <2>10. Adds(z, s, e)
    BY <2>4, <2>7, <2>8, <2>9, AddsUnits
  <2>11. z.open = e
    <3>1. U!Opened(s, e) \in MapperType /\ U!Opened(s, e).open = e
      BY <1>1, <2>8, OpenedIs
    <3> QED BY <2>4, <2>9, <3>1 DEF NewUnits, MapperType
  <2> QED BY <2>10, <2>11 DEF e, z
<1> QED BY <1>3, <1>4

\* expire.
LEMMA ExpireIs ==
  ASSUME NEW s, Good(s), NEW elapsed \in BOOLEAN
  PROVE  Adds(U!Expire(s, elapsed), s, <<>>)
<1>1. CASE ~s.held
  <2>1. U!Expire(s, elapsed) = s
    BY <1>1 DEF U!Expire
  <2> QED BY <2>1, AddsNothing
<1>2. CASE s.held /\ ~s.seen
  <2> DEFINE z == [s EXCEPT !.seen = TRUE]
  <2>1. U!Expire(s, elapsed) = z
    BY <1>2 DEF U!Expire
  <2>2. s \in MapperType
    BY DEF Good
  <2>3. /\ z \in MapperType /\ z.open = s.open /\ z.units = s.units /\ z.held = s.held /\ z.lines = s.lines
        /\ z.buffer = s.buffer /\ z.previous = s.previous /\ z.promoted = s.promoted
    BY <2>2 DEF MapperType
  <2> HIDE DEF z
  <2>4. InOrder(z) /\ Words(z) = Words(s)
    BY <2>3 DEF Good, InOrder, Words
  <2>5. Words(s) = Words(s) \o <<>>
    BY AddsNothing DEF Adds
  <2> QED BY <2>1, <2>3, <2>4, <2>5 DEF Adds, Good
<1>3. CASE s.held /\ s.seen
  <2>1. U!Expire(s, elapsed) = U!Flush(s) \/ U!Expire(s, elapsed) = s
    BY <1>3 DEF U!Expire
  <2> QED BY <2>1, AddsNothing, FlushIs
<1> QED BY <1>1, <1>2, <1>3

----------------------------------------------------------------------------
(* What is spoken.                                                         *)

Position == 1..MaxWords
Spoken(k) == U!SpokenUpTo[k]

LEMMA SpokenAre ==
  /\ \A k \in 0..MaxWords : Spoken(k) \in Seq(Position)
  /\ Spoken(0) = <<>>
  /\ \A k \in 1..MaxWords : Spoken(k) = IF k \in Noise THEN Spoken(k - 1) ELSE Append(Spoken(k - 1), k)
<1> DEFINE n == MaxWords  D == Seq(Position)  E == <<>>
           G == [p \in (1..n) \X D |-> IF p[1] \in Noise THEN p[2] ELSE Append(p[2], p[1])]
           h == CHOOSE f : f = [k \in 0..n |-> IF k = 0 THEN E ELSE IF k \in Noise THEN f[k - 1] ELSE Append(f[k - 1], k)]
<1>1. n \in Nat /\ E \in D /\ Position = 1..n
  BY UnitBounds DEF Position
<1>2. ASSUME NEW x \in D, NEW k \in 1..n PROVE Append(x, k) \in D
  BY <1>1, <1>2, AppendProperties
<1>3. IsStep(G, n, D)
  <2>1. \A p \in (1..n) \X D : p[1] \in 1..n /\ p[2] \in D
    OBVIOUS
  <2>2. \A p \in (1..n) \X D : (IF p[1] \in Noise THEN p[2] ELSE Append(p[2], p[1])) \in D
    BY <1>2, <2>1
  <2> QED BY <2>2 DEF IsStep
<1>4. \A k \in 1..n : \A x \in D : G[<<k, x>>] = IF k \in Noise THEN x ELSE Append(x, k)
  OBVIOUS
<1>5. U!SpokenUpTo = h
  BY DEF U!SpokenUpTo
<1> HIDE DEF G, D, E, h, n
<1>6. PICK f : Follows(f, G, n, D, E)
  BY <1>1, <1>3, Recursion
<1>7. f \in [0..n -> D] /\ f[0] = E /\ \A k \in 1..n : f[k] = G[<<k, f[k - 1]>>]
  BY <1>6 DEF Follows
<1>8. \A k \in 0..n : f[k] = IF k = 0 THEN E ELSE IF k \in Noise THEN f[k - 1] ELSE Append(f[k - 1], k)
  <2> SUFFICES ASSUME NEW k \in 0..n, k # 0 PROVE f[k] = IF k \in Noise THEN f[k - 1] ELSE Append(f[k - 1], k)
    BY <1>7
  <2>1. k \in 1..n /\ k - 1 \in 0..n
    BY <1>1
  <2>2. f[k - 1] \in D /\ f[k] = G[<<k, f[k - 1]>>]
    BY <1>7, <2>1
  <2> QED BY <1>4, <2>1, <2>2
<1>9. f = [k \in 0..n |-> IF k = 0 THEN E ELSE IF k \in Noise THEN f[k - 1] ELSE Append(f[k - 1], k)]
  BY <1>7, <1>8
<1>10. h = [k \in 0..n |-> IF k = 0 THEN E ELSE IF k \in Noise THEN h[k - 1] ELSE Append(h[k - 1], k)]
  BY <1>9 DEF h
<1>11. h[0] = E /\ \A k \in 1..n : h[k] = IF k \in Noise THEN h[k - 1] ELSE Append(h[k - 1], k)
  <2>1. \A k \in 0..n : h[k] = IF k = 0 THEN E ELSE IF k \in Noise THEN h[k - 1] ELSE Append(h[k - 1], k)
    BY <1>10
  <2>2. 0 \in 0..n /\ \A k \in 1..n : k \in 0..n /\ k # 0
    BY <1>1
  <2> QED BY <2>1, <2>2
<1> DEFINE T == {k \in 0..n : h[k] \in D}
<1>12. 0 \in T
  BY <1>1, <1>11
<1>13. ASSUME NEW k \in 0..(n - 1), k \in T PROVE k + 1 \in T
  <2> DEFINE j == k + 1
  <2>1. j \in 1..n /\ j \in 0..n /\ j - 1 = k /\ h[k] \in D
    BY <1>1, <1>13
  <2> HIDE DEF j
  <2>2. h[j] = IF j \in Noise THEN h[k] ELSE Append(h[k], j)
    BY <1>11, <2>1
  <2>3. h[j] \in D
    BY <1>2, <2>1, <2>2
  <2> QED BY <2>1, <2>3 DEF j
<1> HIDE DEF T
<1>14. \A k \in 0..n : k \in T
  <2>1. \A k \in 0..(n - 1) : k \in T => k + 1 \in T
    BY <1>13
  <2> QED BY <1>1, <1>12, <2>1, Induction
<1>15. \A k \in 0..n : h[k] \in D
  BY <1>14 DEF T
<1> QED BY <1>5, <1>11, <1>15 DEF Spoken, D, E, n

\* A hypothesis of the words behind the r-th.
After(t, r) ==
  /\ t \in U!Hypothesis /\ r \in Nat /\ r + Len(t) <= MaxWords
  /\ \A i \in 1..Len(t) : t[i][1] = r + i

LEMMA AfterParts ==
  ASSUME NEW t, NEW r, After(t, r)
  PROVE  /\ t \in Seq(HeardToken) /\ Len(t) \in Nat /\ r \in Nat /\ r + Len(t) \in 0..MaxWords
         /\ \A i \in 1..Len(t) : t[i][1] = r + i /\ r + i \in Position /\ t[i] \in HeardToken
<1>1. t \in Seq(HeardToken) /\ r \in Nat /\ r + Len(t) <= MaxWords /\ MaxWords \in Nat
      /\ \A i \in 1..Len(t) : t[i][1] = r + i
  BY TextIs, UnitBounds DEF After
<1>2. Len(t) \in Nat /\ \A i \in 1..Len(t) : t[i] \in HeardToken
  BY <1>1, ElementOfSeq, LenProperties
<1> QED BY <1>1, <1>2 DEF Position

LEMMA AfterRest ==
  ASSUME NEW t, NEW r, After(t, r), NEW k \in 0..Len(t)
  PROVE  After(U!Rest(t, k), r + k) /\ (r + k) + Len(U!Rest(t, k)) = r + Len(t)
<1>1. t \in Seq(HeardToken) /\ Len(t) \in Nat /\ r \in Nat /\ r + Len(t) \in 0..MaxWords /\ MaxWords \in Nat
      /\ \A i \in 1..Len(t) : t[i][1] = r + i
  BY AfterParts, UnitBounds
<1> DEFINE z == U!Rest(t, k)
<1>2. z \in Seq(HeardToken) /\ Len(z) = Len(t) - k /\ \A i \in 1..(Len(t) - k) : z[i] = t[k + i]
  BY <1>1, RestIs
<1> HIDE DEF z
<1>3. ASSUME NEW i \in 1..Len(z) PROVE z[i][1] = (r + k) + i
  <2>1. z[i] = t[k + i] /\ k + i \in 1..Len(t)
    BY <1>1, <1>2
  <2>2. t[k + i][1] = r + (k + i) /\ r + (k + i) = (r + k) + i
    BY <1>1, <2>1
  <2> QED BY <2>1, <2>2
<1>4. (r + k) + Len(z) = r + Len(t) /\ r + k \in Nat /\ (r + k) + Len(z) <= MaxWords
  BY <1>1, <1>2
<1> QED BY <1>2, <1>3, <1>4, TextIs DEF After, z

LEMMA AfterPiece ==
  ASSUME NEW t, NEW r, After(t, r), NEW a \in 0..Len(t), NEW b \in a..Len(t)
  PROVE  After(SubSeq(t, a + 1, b), r + a) /\ (r + a) + Len(SubSeq(t, a + 1, b)) = r + b
<1>1. t \in Seq(HeardToken) /\ Len(t) \in Nat /\ r \in Nat /\ r + Len(t) \in 0..MaxWords /\ MaxWords \in Nat
      /\ \A i \in 1..Len(t) : t[i][1] = r + i
  BY AfterParts, UnitBounds
<1> DEFINE z == SubSeq(t, a + 1, b)
<1>2. z \in Seq(HeardToken) /\ Len(z) = b - a /\ \A i \in 1..(b - a) : z[i] = t[a + i]
  BY <1>1, PieceIs
<1> HIDE DEF z
<1>3. ASSUME NEW i \in 1..Len(z) PROVE z[i][1] = (r + a) + i
  <2>1. z[i] = t[a + i] /\ a + i \in 1..Len(t)
    BY <1>1, <1>2
  <2>2. t[a + i][1] = r + (a + i) /\ r + (a + i) = (r + a) + i
    BY <1>1, <2>1
  <2> QED BY <2>1, <2>2
<1>4. (r + a) + Len(z) = r + b /\ r + a \in Nat /\ (r + a) + Len(z) <= MaxWords
  <2>1. a \in Nat /\ b \in Nat /\ b <= Len(t) /\ Len(t) \in Nat /\ r \in Nat /\ r + Len(t) <= MaxWords /\ Len(z) = b - a
    BY <1>1, <1>2
  <2> QED BY <1>1, <2>1
<1> QED BY <1>2, <1>3, <1>4, TextIs DEF After, z

\* sanitize_committed_text keeps the words that are no noise.
SanitizedAfter(x, t, r, k) ==
  /\ x \in U!Text /\ Spoken(r) \o U!Positions(x) = Spoken(r + k)
  /\ U!ToSet(U!Positions(x)) = ((r + 1)..(r + k)) \ Noise

\* One more word of it.
LEMMA SanitizedStep ==
  ASSUME NEW t, NEW r, After(t, r), NEW k \in 0..(Len(t) - 1), NEW x, SanitizedAfter(x, t, r, k), NEW y,
         y = IF t[k + 1][1] \in Noise THEN x ELSE Append(x, <<t[k + 1][1], t[k + 1][3]>>)
  PROVE  SanitizedAfter(y, t, r, k + 1)
<1> DEFINE j == k + 1  n == r + j  N == Position  u == <<t[j][1], t[j][3]>>
<1>1. /\ Len(t) \in Nat /\ r \in Nat /\ r + Len(t) \in 0..MaxWords /\ MaxWords \in Nat
      /\ \A i \in 1..Len(t) : t[i][1] = r + i /\ r + i \in Position /\ t[i] \in HeardToken
  BY AfterParts, UnitBounds
<1>2. j \in 1..Len(t) /\ k \in Nat /\ j = k + 1
  BY <1>1
<1>3. n \in 1..MaxWords /\ n - 1 = r + k /\ t[j][1] = n /\ r \in 0..MaxWords /\ r + k \in 0..MaxWords /\ n = (r + k) + 1
  BY <1>1, <1>2
<1>4. t[j] \in HeardToken /\ t[j][3] \in U!Marks /\ n \in N
  <2>1. t[j] \in HeardToken /\ n \in N
    BY <1>1, <1>2
  <2> HIDE DEF j, n
  <2> QED BY <2>1, HeardParts
<1>5. u \in Token /\ u[1] = n /\ u = <<n, t[j][3]>>
  <2> HIDE DEF j, n
  <2> QED BY <1>3, <1>4, TokenParts
<1>6. y = IF n \in Noise THEN x ELSE Append(x, u)
  BY <1>3
<1>7. x \in U!Text /\ Spoken(r) \o U!Positions(x) = Spoken(r + k) /\ U!ToSet(U!Positions(x)) = ((r + 1)..(r + k)) \ Noise
  BY DEF SanitizedAfter
<1>8. Spoken(n) = IF n \in Noise THEN Spoken(n - 1) ELSE Append(Spoken(n - 1), n)
  BY <1>3, SpokenAre
<1>9. Spoken(r) \in Seq(N) /\ Spoken(r + k) \in Seq(N) /\ U!Positions(x) \in Seq(N)
  <2>1. U!Positions(x) \in Seq(1..MaxWords)
    BY <1>7, PositionsAre
  <2> QED BY <1>3, <2>1, SpokenAre DEF Position
<1>10. (r + 1)..(r + j) = ((r + 1)..(r + k)) \cup {n}
  <2>1. r \in Nat /\ k \in Nat /\ r + j = (r + k) + 1 /\ n = (r + k) + 1
    BY <1>1, <1>2, <1>3
  <2> HIDE DEF j, n
  <2> QED BY <2>1
<1> HIDE DEF j, u
<1>11. CASE n \in Noise
  <2>1. y = x /\ Spoken(r + j) = Spoken(r + k)
    BY <1>3, <1>6, <1>8, <1>11
  <2>2. ((r + 1)..(r + j)) \ Noise = ((r + 1)..(r + k)) \ Noise
    BY <1>10, <1>11
  <2>3. SanitizedAfter(y, t, r, j)
    BY <1>7, <2>1, <2>2 DEF SanitizedAfter
  <2> QED BY <2>3 DEF j
<1>12. CASE n \notin Noise
  <2> DEFINE p == U!Positions(x)  q == U!Positions(y)  s == Spoken(r)
  <2>1. y = Append(x, u) /\ Spoken(r + j) = Append(Spoken(r + k), n)
    BY <1>3, <1>6, <1>8, <1>12
  <2>2. /\ y \in Seq(Token) /\ Len(y) = Len(x) + 1 /\ y[Len(x) + 1] = u /\ Len(x) \in Nat
        /\ \A i \in 1..Len(x) : y[i] = x[i]
    <3>1. x \in Seq(Token)
      BY <1>7, TextIs
    <3> QED BY <1>5, <2>1, <3>1, AppendProperties, LenProperties
  <2>3. y \in U!Text
    BY <2>2, TextIs
  <2>4. p \in Seq(N) /\ Len(p) = Len(x) /\ \A i \in 1..Len(x) : p[i] = x[i][1]
    BY <1>7, PositionsAre DEF Position
  <2>5. q \in Seq(N) /\ Len(q) = Len(y) /\ \A i \in 1..Len(y) : q[i] = y[i][1]
    BY <2>3, PositionsAre DEF Position
  <2> HIDE DEF p, q, s, n, N
  <2>6. Append(p, n) \in Seq(N) /\ Len(Append(p, n)) = Len(p) + 1 /\ Append(p, n)[Len(p) + 1] = n
        /\ \A i \in 1..Len(p) : Append(p, n)[i] = p[i]
    BY <1>4, <2>4, AppendProperties
  <2>7. q = Append(p, n)
    <3>1. ASSUME NEW i \in 1..Len(q) PROVE q[i] = Append(p, n)[i]
      <4>1. i \in 1..Len(y) /\ q[i] = y[i][1]
        BY <2>5
      <4>4. i \in 1..Len(x) \/ i = Len(x) + 1
        BY <2>2, <4>1
      <4>2. CASE i \in 1..Len(x)
        BY <2>2, <2>4, <2>6, <4>1, <4>2
      <4>3. CASE i = Len(x) + 1
        BY <1>5, <2>2, <2>4, <2>6, <4>1, <4>3
      <4> QED BY <4>2, <4>3, <4>4
    <3>2. Len(q) = Len(Append(p, n))
      BY <2>2, <2>4, <2>5, <2>6
    <3> QED BY <2>5, <2>6, <3>1, <3>2, SeqEqual
  <2>8. s \o q = Spoken(r + j)
    <3>0. s \in Seq(N) /\ p \in Seq(N) /\ n \in N /\ s \o p = Spoken(r + k)
      BY <1>4, <1>7, <1>9, <2>4 DEF s, p
    <3> DEFINE e == <<n>>
    <3>1. e \in Seq(N) /\ Append(p, n) = p \o e
      BY <3>0, AppendIsConcat
    <3>2. s \o p \in Seq(N)
      BY <3>0, Joined
    <3> DEFINE sp == s \o p
    <3>3. Append(sp, n) = sp \o e
      <4> HIDE DEF sp
      <4> QED BY <3>0, <3>2, AppendIsConcat DEF sp
    <3> HIDE DEF e
    <3>5. s \in Seq(N) /\ p \in Seq(N) /\ e \in Seq(N)
      BY <3>0, <3>1
    <3>4. (s \o p) \o e = s \o (p \o e)
      BY <3>5, ConcatAssociative
    <3> QED BY <2>1, <2>7, <3>0, <3>1, <3>3, <3>4
  <2>9. U!ToSet(q) = U!ToSet(p) \cup {n}
    <3>1. DOMAIN q = 1..(Len(p) + 1) /\ DOMAIN p = 1..Len(p) /\ Len(p) \in Nat
      BY <2>2, <2>4, <2>5, LenProperties
    <3>2. \A i \in 1..Len(p) : q[i] = p[i]
      BY <2>6, <2>7
    <3>3. q[Len(p) + 1] = n
      BY <2>6, <2>7
    <3>4. 1..(Len(p) + 1) = (1..Len(p)) \cup {Len(p) + 1}
      BY <3>1
    <3> QED BY <3>1, <3>2, <3>3, <3>4 DEF U!ToSet
  <2>10. U!ToSet(q) = ((r + 1)..(r + j)) \ Noise
    BY <1>7, <1>10, <1>12, <2>9 DEF p
  <2>11. SanitizedAfter(y, t, r, j)
    BY <2>3, <2>8, <2>10 DEF SanitizedAfter, s, q
  <2> QED BY <2>11 DEF j
<1> QED BY <1>11, <1>12

SanitizeStep(t, i, x) == IF t[i][1] \in Noise THEN x ELSE Append(x, <<t[i][1], t[i][3]>>)
LEMMA SanitizedIs ==
  ASSUME NEW t, NEW r, After(t, r)
  PROVE  SanitizedAfter(U!Sanitized(t), t, r, Len(t))
<1> DEFINE n == Len(t)  D == U!Text  E == <<>>
           G == [p \in (1..n) \X D |-> SanitizeStep(t, p[1], p[2])]
           h == CHOOSE f : f = [i \in 0..n |-> IF i = 0 THEN E ELSE SanitizeStep(t, i, f[i - 1])]
<1>1. /\ n \in Nat /\ r \in Nat /\ r + n \in 0..MaxWords /\ MaxWords \in Nat
      /\ \A i \in 1..n : t[i] \in HeardToken
  BY AfterParts, UnitBounds
<1>2. E \in D
  BY EmptyText
<1>3. ASSUME NEW x \in D, NEW i \in 1..n PROVE SanitizeStep(t, i, x) \in D
  <2> DEFINE u == <<t[i][1], t[i][3]>>
  <2>1. u \in Token
    <3>1. t[i][1] \in 1..MaxWords /\ t[i][3] \in U!Marks
      BY <1>1, HeardParts
    <3> QED BY <3>1, TokenParts
  <2> HIDE DEF u
  <2>2. x \in Seq(Token)
    BY TextIs
  <2>3. Append(x, u) \in Seq(Token)
    BY <2>1, <2>2, AppendProperties
  <2> QED BY <2>3, TextIs DEF SanitizeStep, u
<1>4. IsStep(G, n, D)
  <2>1. \A p \in (1..n) \X D : p[1] \in 1..n /\ p[2] \in D
    OBVIOUS
  <2>2. \A p \in (1..n) \X D : SanitizeStep(t, p[1], p[2]) \in D
    BY <1>3, <2>1
  <2> QED BY <2>2 DEF IsStep
<1>5. \A i \in 1..n : \A x \in D : G[<<i, x>>] = SanitizeStep(t, i, x)
  OBVIOUS
<1>6. U!Sanitized(t) = h[n]
  BY DEF U!Sanitized, SanitizeStep
<1> HIDE DEF G, D, E, h, n
<1>7. PICK f : Follows(f, G, n, D, E)
  BY <1>1, <1>2, <1>4, Recursion
<1>8. f \in [0..n -> D] /\ f[0] = E /\ \A i \in 1..n : f[i] = G[<<i, f[i - 1]>>]
  BY <1>7 DEF Follows
<1>9. \A i \in 0..n : f[i] = IF i = 0 THEN E ELSE SanitizeStep(t, i, f[i - 1])
  <2> SUFFICES ASSUME NEW i \in 0..n, i # 0 PROVE f[i] = SanitizeStep(t, i, f[i - 1])
    BY <1>8
  <2>1. i \in 1..n /\ i - 1 \in 0..n
    BY <1>1
  <2>2. f[i - 1] \in D /\ f[i] = G[<<i, f[i - 1]>>]
    BY <1>8, <2>1
  <2> QED BY <1>5, <2>1, <2>2
<1>10. f = [i \in 0..n |-> IF i = 0 THEN E ELSE SanitizeStep(t, i, f[i - 1])]
  BY <1>8, <1>9
<1>11. h = [i \in 0..n |-> IF i = 0 THEN E ELSE SanitizeStep(t, i, h[i - 1])]
  BY <1>10 DEF h
<1>12. \A i \in 0..n : h[i] = IF i = 0 THEN E ELSE SanitizeStep(t, i, h[i - 1])
  BY <1>11
<1> DEFINE T == {i \in 0..n : SanitizedAfter(h[i], t, r, i)}
<1>13. 0 \in T
  <2>1. h[0] = E /\ 0 \in 0..n
    BY <1>1, <1>12
  <2>2. Spoken(r) \in Seq(Position)
    <3>1. r \in 0..MaxWords
      BY <1>1
    <3> QED BY <3>1, SpokenAre
  <2>3. Spoken(r) \o <<>> = Spoken(r)
    BY <2>2
  <2>4. r + 0 = r /\ (r + 1)..r = {}
    BY <1>1
  <2>5. U!ToSet(<<>>) = {}
    BY DEF U!ToSet
  <2>6. E \in U!Text /\ U!Positions(E) = <<>>
    BY EmptyText DEF E
  <2>7. SanitizedAfter(E, t, r, 0)
    BY <2>3, <2>4, <2>5, <2>6 DEF SanitizedAfter
  <2> QED BY <2>1, <2>7
<1>14. ASSUME NEW i \in 0..(n - 1), i \in T PROVE i + 1 \in T
  <2> DEFINE j == i + 1  x == h[i]  y == h[j]
  <2>1. j \in 0..n /\ j # 0 /\ j - 1 = i /\ i \in 0..(Len(t) - 1)
    BY <1>1 DEF n
  <2>2. y = SanitizeStep(t, j, x)
    BY <1>12, <2>1
  <2>3. SanitizedAfter(x, t, r, i)
    BY <1>14
  <2> HIDE DEF x, y
  <2>4. y = IF t[i + 1][1] \in Noise THEN x ELSE Append(x, <<t[i + 1][1], t[i + 1][3]>>)
    BY <2>2 DEF SanitizeStep
  <2>5. SanitizedAfter(y, t, r, i + 1)
    BY <2>1, <2>3, <2>4, SanitizedStep
  <2> QED BY <2>1, <2>5 DEF y
<1> HIDE DEF T
<1>15. \A i \in 0..n : i \in T
  <2>1. \A i \in 0..(n - 1) : i \in T => i + 1 \in T
    BY <1>14
  <2> QED BY <1>1, <1>13, <2>1, Induction
<1>16. n \in T
  BY <1>1, <1>15
<1> QED BY <1>6, <1>16 DEF T, n

\* The words a text adds behind what is shown.
LEMMA SpeaksOn ==
  ASSUME NEW s, Good(s), NEW t, NEW r, After(t, r), NEW late \in BOOLEAN
  PROVE  LET z == U!AppendText(s, U!Sanitized(t), late)
             w == U!Positions(U!Sanitized(t))
         IN /\ Adds(z, s, w) /\ w \in Seq(Position)
            /\ U!ToSet(w) = ((r + 1)..(r + Len(t))) \ Noise
            /\ Words(s) = Spoken(r) => Words(z) = Spoken(r + Len(t))
<1> DEFINE d == U!Sanitized(t)  w == U!Positions(d)  z == U!AppendText(s, d, late)
<1>1. d \in U!Text /\ Spoken(r) \o w = Spoken(r + Len(t)) /\ U!ToSet(w) = ((r + 1)..(r + Len(t))) \ Noise
  BY SanitizedIs DEF SanitizedAfter
<1> HIDE DEF d
<1>2. Adds(z, s, w)
  BY <1>1, AppendTextIs
<1>3. w \in Seq(Position)
  BY <1>1, PositionsAre DEF Position
<1>4. Words(z) = Words(s) \o w
  BY <1>2 DEF Adds
<1> QED BY <1>1, <1>2, <1>3, <1>4 DEF d

\* What upstream says.
LEMMA HeardIs ==
  ASSUME NEW r \in 0..MaxWords, NEW to \in r..MaxWords, NEW misheard
  PROVE  After(U!Heard(r + 1, to, misheard), r) /\ Len(U!Heard(r + 1, to, misheard)) = to - r
<1> DEFINE n == to - r  h == U!Heard(r + 1, to, misheard)
           mark(i) == CASE (r + 1) + i - 1 \in Stops -> "stop" [] (r + 1) + i - 1 \in Clauses -> "clause"
                        [] (r + 1) + i - 1 \in Dangling /\ (r + 1) + i - 1 = to -> "artefact" [] OTHER -> "none"
           miss(i) == IF (r + 1) + i - 1 = misheard THEN 1 ELSE 0
<1>1. n \in Nat /\ r \in Nat /\ MaxWords \in Nat /\ r + n = to /\ to <= MaxWords /\ to + 1 - (r + 1) = n
  BY UnitBounds
<1>2. h = [i \in 1..n |-> <<(r + 1) + i - 1, miss(i), mark(i)>>]
  BY <1>1 DEF U!Heard
<1>3. \A i \in 1..n : (r + 1) + i - 1 = r + i /\ r + i \in 1..MaxWords
  BY <1>1
<1>4. \A i \in 1..n : mark(i) \in U!Marks /\ miss(i) \in {0, 1}
  BY DEF U!Marks
<1> HIDE DEF mark, miss, h, n
<1>5. \A i \in 1..n : <<(r + 1) + i - 1, miss(i), mark(i)>> \in HeardToken
  BY <1>3, <1>4 DEF HeardToken
<1>6. h \in [1..n -> HeardToken]
  BY <1>2, <1>5
<1>7. h \in Seq(HeardToken) /\ Len(h) = n
  BY <1>1, <1>6
<1>8. \A i \in 1..n : h[i][1] = r + i
  BY <1>2, <1>3
<1>9. After(h, r)
  BY <1>1, <1>7, <1>8, TextIs DEF After
<1> QED BY <1>7, <1>9 DEF h, n

----------------------------------------------------------------------------
(* The mapper.                                                             *)

\* z shows what s shows and maybe more behind it.
Grows(z, s) == Good(z) /\ \E w \in Seq(Position) : Words(z) = Words(s) \o w
LinesUpTo(ls, n) == \A i \in 1..Len(ls) : ls[i] <= n

LEMMA GrowsMore ==
  ASSUME NEW s, NEW y, NEW z, Good(s), Grows(y, s), Grows(z, y)
  PROVE  Grows(z, s)
<1>1. PICK v \in Seq(Position) : Words(y) = Words(s) \o v
  BY DEF Grows
<1>2. PICK w \in Seq(Position) : Words(z) = Words(y) \o w
  BY DEF Grows
<1>3. Words(s) \in Seq(Position)
  BY WordsAre DEF Good, Position
<1>4. (Words(s) \o v) \o w = Words(s) \o (v \o w) /\ v \o w \in Seq(Position)
  BY <1>3, ConcatAssociative, ConcatProperties
<1>5. Words(z) = Words(s) \o (v \o w)
  BY <1>1, <1>2, <1>4
<1> QED BY <1>4, <1>5 DEF Grows

LEMMA AddsGrows ==
  ASSUME NEW s, NEW z, NEW w \in Seq(Position), Adds(z, s, w)
  PROVE  Grows(z, s)
BY DEF Adds, Grows

\* What the viewer does not see may change.
LEMMA Unseen ==
  ASSUME NEW s, Good(s), NEW z \in MapperType, z.open = s.open, z.held = s.held, z.units = s.units
  PROVE  Grows(z, s) /\ Words(z) = Words(s)
<1>1. Good(z) /\ Words(z) = Words(s)
  BY DEF Good, InOrder, Words
<1>2. Words(s) = Words(s) \o <<>>
  BY AddsNothing DEF Adds
<1>3. <<>> \in Seq(Position)
  OBVIOUS
<1> QED BY <1>1, <1>2, <1>3 DEF Grows

LEMMA GrowsSame ==
  ASSUME NEW s, Good(s)
  PROVE  Grows(s, s)
BY Unseen DEF Good

LEMMA RestBeyond ==
  ASSUME NEW t, NEW r, After(t, r), NEW k \in Nat, ~(k <= Len(t))
  PROVE  U!Rest(t, k) = <<>> /\ After(<<>>, r)
<1>1. t \in Seq(HeardToken) /\ Len(t) \in Nat /\ r \in Nat /\ r + Len(t) \in 0..MaxWords /\ MaxWords \in Nat
  BY AfterParts, UnitBounds
<1> DEFINE p == k + 1  n == Len(t)
<1>2. p > n /\ p \in Int /\ n \in Int
  BY <1>1
<1>3. U!Rest(t, k) = SubSeq(t, p, n)
  BY DEF U!Rest
<1> HIDE DEF p, n
<1>4. SubSeq(t, p, n) = <<>>
  BY <1>2
<1>5. <<>> \in U!Hypothesis /\ Len(<<>>) = 0
  BY EmptyText
<1> QED BY <1>1, <1>3, <1>4, <1>5 DEF After

\* A line grew: its length stays within what was committed.
LEMMA GrownIs ==
  ASSUME NEW ls \in Seq(1..MaxWords), NEW r \in Nat, LinesUpTo(ls, r), NEW n \in Nat \ {0}, r + n <= MaxWords, NEW new \in BOOLEAN
  PROVE  U!Grown(ls, n, new) \in Seq(1..MaxWords) /\ LinesUpTo(U!Grown(ls, n, new), r + n)
<1> DEFINE g == U!Grown(ls, n, new)  S == 1..MaxWords  m == Len(ls)
<1>1. m \in Nat /\ DOMAIN ls = 1..m /\ \A i \in 1..m : ls[i] \in S /\ ls[i] <= r
  BY LenProperties, ElementOfSeq DEF LinesUpTo
<1>2. MaxWords \in Nat /\ n \in S
  BY UnitBounds
<1>3. CASE new \/ ls = <<>>
  <2>1. g = Append(ls, n)
    BY <1>3 DEF U!Grown
  <2> HIDE DEF g, S, m
  <2>2. g \in Seq(S) /\ Len(g) = m + 1 /\ g[m + 1] = n /\ \A i \in 1..m : g[i] = ls[i]
    <3>1. ls \in Seq(S)
      BY DEF S
    <3> QED BY <1>2, <2>1, <3>1, AppendProperties DEF m
  <2>3. ASSUME NEW i \in 1..Len(g) PROVE g[i] <= r + n
    <3>1. i \in 1..m \/ i = m + 1
      BY <1>1, <2>2
    <3>2. CASE i \in 1..m
      BY <1>1, <2>2, <3>2 DEF S
    <3>3. CASE i = m + 1
      BY <2>2, <3>3
    <3> QED BY <3>1, <3>2, <3>3
  <2> QED BY <2>2, <2>3 DEF LinesUpTo, g, S
<1>4. CASE ~(new \/ ls = <<>>)
  <2>1. g = [ls EXCEPT ![m] = ls[m] + n]
    BY <1>4 DEF U!Grown
  <2>2. m \in 1..m
    BY <1>1, <1>4, EmptySeq
  <2>3. g = [i \in 1..m |-> IF i = m THEN ls[m] + n ELSE ls[i]]
    BY <1>1, <2>1, <2>2
  <2> HIDE DEF g, m
  <2>4. \A i \in 1..m : g[i] \in S /\ g[i] <= r + n
    <3> SUFFICES ASSUME NEW i \in 1..m PROVE g[i] \in S /\ g[i] <= r + n
      OBVIOUS
    <3>1. ls[i] \in S /\ ls[i] <= r /\ ls[m] \in S /\ ls[m] <= r
      BY <1>1, <2>2
    <3>2. g[i] = IF i = m THEN ls[m] + n ELSE ls[i]
      BY <2>3
    <3> QED BY <1>2, <3>1, <3>2
  <2>5. g \in [1..m -> S]
    <3>1. g = [i \in 1..m |-> g[i]]
      BY <2>3
    <3> QED BY <2>4, <3>1
  <2>6. g \in Seq(S) /\ Len(g) = m
    <3> HIDE DEF S
    <3>1. m \in Nat
      BY <1>1
    <3> QED BY <2>5, <3>1
  <2> QED BY <2>4, <2>6 DEF LinesUpTo, g, S
<1> QED BY <1>3, <1>4

LEMMA PromotedLength ==
  ASSUME NEW s, Good(s)
  PROVE  Len(s.promoted) \in Nat
<1>1. s.promoted \in Seq(HeardToken)
  BY MapperParts, TextIs DEF Good
<1> QED BY <1>1, LenProperties

\* map_message for a line that grew by delta: what is new of it is added.
LEMMA TakeLineIs ==
  ASSUME NEW s, Good(s), NEW delta, NEW r, After(delta, r), LinesUpTo(s.lines, r), r + Len(s.promoted) <= MaxWords,
         NEW new \in BOOLEAN, NEW late \in BOOLEAN
  PROVE  LET z == U!TakeLine(s, delta, new, late)
         IN /\ Grows(z, s) /\ LinesUpTo(z.lines, r + Len(delta))
            /\ (r + Len(delta)) + Len(z.promoted) <= MaxWords
            /\ Words(s) = Spoken(r + Len(s.promoted)) /\ (Len(delta) = 0 \/ Len(s.promoted) <= Len(delta))
                 => Words(z) = Spoken((r + Len(delta)) + Len(z.promoted))
<1> DEFINE z == U!TakeLine(s, delta, new, late)
           o == IF new /\ s.lines # <<>> /\ s.promoted = <<>> THEN U!Flush(s) ELSE s
           d == U!Reconciled(s, delta)
           y == U!AppendText(o, U!Sanitized(d), late)
           k == Len(s.promoted)
<1>1. /\ delta \in Seq(HeardToken) /\ Len(delta) \in Nat /\ r \in Nat /\ r + Len(delta) \in 0..MaxWords
      /\ MaxWords \in Nat /\ k \in Nat
  BY AfterParts, UnitBounds, PromotedLength
<1>2. delta = <<>> <=> Len(delta) = 0
  BY <1>1, EmptySeq
<1>3. CASE delta = <<>>
  <2>1. z = s
    BY <1>3 DEF U!TakeLine
  <2>2. r + Len(delta) = r
    BY <1>1, <1>2, <1>3
  <2> QED BY <2>1, <2>2, GrowsSame
<1>4. CASE delta # <<>>
  <2>0. z = IF delta = <<>> THEN s ELSE [y EXCEPT !.promoted = <<>>, !.previous = <<>>, !.lines = U!Grown(@, Len(delta), new)]
    BY DEF U!TakeLine
  <2>1. z = [y EXCEPT !.promoted = <<>>, !.previous = <<>>, !.lines = U!Grown(y.lines, Len(delta), new)]
    <3> HIDE DEF z, y
    <3> QED BY <1>4, <2>0
  <2>2. Adds(o, s, <<>>)
    BY AddsNothing, FlushIs
  <2>3. Good(o) /\ o.promoted = s.promoted /\ o.lines = s.lines /\ Words(o) = Words(s)
    <3>1. Words(s) = Words(s) \o <<>>
      BY AddsNothing DEF Adds
    <3> QED BY <2>2, <3>1 DEF Adds
  <2>4. d = U!Rest(delta, k)
    BY DEF U!Reconciled
  <2> DEFINE q == IF k <= Len(delta) THEN r + k ELSE r
  <2>5. After(d, q)
    <3>1. CASE k <= Len(delta)
      <4>1. k \in 0..Len(delta)
        BY <1>1, <3>1
      <4> QED BY <2>4, <3>1, <4>1, AfterRest
    <3>2. CASE ~(k <= Len(delta))
      BY <1>1, <2>4, <3>2, RestBeyond
    <3> QED BY <3>1, <3>2
  <2>6. k <= Len(delta) => q = r + k /\ q + Len(d) = r + Len(delta)
    <3> SUFFICES ASSUME k <= Len(delta) PROVE q = r + k /\ q + Len(d) = r + Len(delta)
      OBVIOUS
    <3>1. k \in 0..Len(delta)
      BY <1>1
    <3> QED BY <2>4, <3>1, AfterRest
  <2> HIDE DEF o, d, q
  <2> DEFINE w == U!Positions(U!Sanitized(d))
  <2>7. Adds(y, o, w) /\ w \in Seq(Position) /\ (Words(o) = Spoken(q) => Words(y) = Spoken(q + Len(d)))
    BY <2>3, <2>5, SpeaksOn
  <2> HIDE DEF w, y
  <2>8. y \in MapperType /\ Good(y) /\ y.lines = s.lines /\ y.lines \in Seq(1..MaxWords)
    BY <2>3, <2>7, MapperParts DEF Adds, Good
  <2> DEFINE g == U!Grown(y.lines, Len(delta), new)  n == r + Len(delta)
  <2>9. g \in Seq(1..MaxWords) /\ LinesUpTo(g, n)
    <3> DEFINE m == Len(delta)
    <3>1. m \in Nat \ {0} /\ r + m <= MaxWords /\ r \in Nat
      BY <1>1, <1>2, <1>4
    <3> HIDE DEF m
    <3>2. U!Grown(y.lines, m, new) \in Seq(1..MaxWords) /\ LinesUpTo(U!Grown(y.lines, m, new), r + m)
      BY <2>8, <3>1, GrownIs
    <3> QED BY <3>2 DEF m
  <2>10. z = [y EXCEPT !.promoted = <<>>, !.previous = <<>>, !.lines = g]
    BY <2>1
  <2> HIDE DEF g, z
  <2>11. z \in MapperType /\ z.open = y.open /\ z.held = y.held /\ z.units = y.units /\ z.promoted = <<>> /\ z.lines = g
    BY <2>8, <2>9, <2>10, EmptyText DEF MapperType
  <2>12. Grows(z, y) /\ Words(z) = Words(y)
    BY <2>8, <2>11, Unseen
  <2>13. Grows(y, o)
    BY <2>7, AddsGrows
  <2>14. Grows(o, s)
    <3>1. <<>> \in Seq(Position)
      OBVIOUS
    <3> QED BY <2>2, <3>1, AddsGrows
  <2>15. Grows(z, s)
    BY <2>3, <2>12, <2>13, <2>14, GrowsMore
  <2>16. Len(z.promoted) = 0 /\ n + 0 = n /\ n <= MaxWords
    BY <1>1, <2>11
  <2>17. Words(s) = Spoken(r + k) /\ (Len(delta) = 0 \/ k <= Len(delta)) => Words(z) = Spoken(n)
    BY <1>2, <1>4, <2>3, <2>6, <2>7, <2>12
  <2>18. n + Len(z.promoted) = n
    BY <2>16
  <2> HIDE DEF n
  <2> QED BY <2>9, <2>11, <2>15, <2>16, <2>17, <2>18 DEF z, n
<1> QED BY <1>3, <1>4

LEMMA LesserIs ==
  ASSUME NEW a \in Int, NEW b \in Int
  PROVE  U!Min({a, b}) \in {a, b} /\ U!Min({a, b}) <= a /\ U!Min({a, b}) <= b
<1>1. \E x \in {a, b} : \A y \in {a, b} : x <= y
  <2>1. CASE a <= b
    BY <2>1
  <2>2. CASE ~(a <= b)
    BY <2>2
  <2> QED BY <2>1, <2>2
<1>2. U!Min({a, b}) \in {a, b} /\ \A y \in {a, b} : U!Min({a, b}) <= y
  BY <1>1 DEF U!Min
<1> QED BY <1>2

LEMMA CommonIs ==
  ASSUME NEW a \in U!Hypothesis, NEW b \in U!Hypothesis
  PROVE  U!Common(a, b) \in Nat /\ U!Common(a, b) <= Len(a) /\ U!Common(a, b) <= Len(b)
<1> DEFINE m == U!Min({Len(a), Len(b)})  T == {k \in 0..m : SubSeq(a, 1, k) = SubSeq(b, 1, k)}
<1>1. Len(a) \in Nat /\ Len(b) \in Nat
  BY TextIs, LenProperties
<1>2. m \in Nat /\ m <= Len(a) /\ m <= Len(b)
  <2> DEFINE x == Len(a)  y == Len(b)
  <2>1. x \in Int /\ y \in Int /\ x \in Nat /\ y \in Nat
    BY <1>1
  <2> HIDE DEF x, y
  <2>2. U!Min({x, y}) \in {x, y} /\ U!Min({x, y}) <= x /\ U!Min({x, y}) <= y
    BY <2>1, LesserIs
  <2>3. U!Min({x, y}) \in Nat
    BY <2>1, <2>2
  <2> QED BY <2>2, <2>3 DEF x, y
<1>3. U!Common(a, b) = U!Max(T)
  BY DEF U!Common
<1> HIDE DEF m
<1>4. 0 \in T
  <2>1. SubSeq(a, 1, 0) = <<>> /\ SubSeq(b, 1, 0) = <<>>
    OBVIOUS
  <2> QED BY <1>2, <2>1
<1>5. T \in SUBSET (0..m) /\ T # {}
  BY <1>4
<1> HIDE DEF T
<1>6. U!Max(T) \in T
  BY <1>2, <1>5, MostIs
<1>7. U!Max(T) \in 0..m
  BY <1>5, <1>6
<1> QED BY <1>1, <1>2, <1>3, <1>7

LEMMA SentenceEndIs ==
  ASSUME NEW t \in U!Hypothesis, NEW limit \in Int
  PROVE  U!LastSentenceEnd(t, limit) \in 0..Len(t)
<1> DEFINE m == U!Min({limit, Len(t) - 1})  T == {0} \cup {i \in 1..m : t[i][3] = "stop"}
<1>1. Len(t) \in Nat
  BY TextIs, LenProperties
<1>2. m \in Int /\ m <= Len(t) - 1
  <2> DEFINE n == Len(t) - 1
  <2>1. n \in Int
    BY <1>1
  <2> HIDE DEF n
  <2>2. U!Min({limit, n}) \in Int /\ U!Min({limit, n}) <= n
    BY <2>1, LesserIs
  <2> QED BY <2>2 DEF n
<1>3. U!LastSentenceEnd(t, limit) = U!Max(T)
  BY DEF U!LastSentenceEnd
<1> HIDE DEF m
<1>4. T \in SUBSET (0..Len(t)) /\ T # {}
  BY <1>1, <1>2
<1> HIDE DEF T
<1>5. U!Max(T) \in T
  BY <1>1, <1>4, MostIs
<1> QED BY <1>3, <1>4, <1>5

\* A state that remembers other hypotheses.
Remembering(s, buffer, previous, promoted) ==
  [s EXCEPT !.buffer = buffer, !.previous = previous, !.promoted = promoted]
LEMMA Remembers ==
  ASSUME NEW s, Good(s), NEW buffer \in U!Hypothesis, NEW previous \in U!Hypothesis, NEW promoted \in U!Hypothesis, NEW z,
         z = Remembering(s, buffer, previous, promoted)
  PROVE  /\ Grows(z, s) /\ Words(z) = Words(s) /\ z.lines = s.lines
         /\ z.buffer = buffer /\ z.previous = previous /\ z.promoted = promoted
<1>1. s \in MapperType
  BY DEF Good
<1>2. /\ z \in MapperType /\ z.open = s.open /\ z.held = s.held /\ z.units = s.units /\ z.lines = s.lines
      /\ z.buffer = buffer /\ z.previous = previous /\ z.promoted = promoted
  BY <1>1 DEF MapperType, Remembering
<1>3. Grows(z, s) /\ Words(z) = Words(s)
  BY <1>2, Unseen
<1> QED BY <1>2, <1>3

\* _promote_agreed_prefix: the promoted words are shown.
PromoteEnd(s, buffer) ==
  LET agreed == U!Common(s.previous, buffer)
  IN IF agreed <= CharacterHoldBack THEN 0 ELSE U!LastSentenceEnd(buffer, agreed - CharacterHoldBack)

LEMMA PromoteIs ==
  ASSUME NEW s, Good(s), NEW buffer, NEW r, After(buffer, r), r + Len(s.promoted) <= MaxWords, NEW late \in BOOLEAN
  PROVE  LET z == U!Promote(s, buffer, late)
         IN /\ Grows(z, s) /\ z.lines = s.lines /\ z.buffer = s.buffer
            /\ r + Len(z.promoted) <= MaxWords
            /\ Words(s) = Spoken(r + Len(s.promoted)) => Words(z) = Spoken(r + Len(z.promoted))
<1> DEFINE z == U!Promote(s, buffer, late)
           upto == PromoteEnd(s, buffer)  k == Len(s.promoted)
           now == [s EXCEPT !.previous = buffer]
           first == SubSeq(buffer, 1, upto)
           ahead == [now EXCEPT !.promoted = first]
           d == SubSeq(buffer, k + 1, upto)
<1>1. /\ buffer \in Seq(HeardToken) /\ Len(buffer) \in Nat /\ r \in Nat /\ r + Len(buffer) \in 0..MaxWords /\ MaxWords \in Nat
      /\ k \in Nat /\ buffer \in U!Hypothesis
  BY AfterParts, UnitBounds, PromotedLength, TextIs
<1>2. s \in MapperType /\ s.previous \in U!Hypothesis /\ s.promoted \in U!Hypothesis /\ s.buffer \in U!Hypothesis
  BY MapperParts DEF Good
<1>3. upto \in 0..Len(buffer)
  <2> DEFINE agreed == U!Common(s.previous, buffer)  limit == agreed - CharacterHoldBack
  <2>1. agreed \in Nat /\ CharacterHoldBack \in Nat
    BY <1>1, <1>2, CommonIs, UnitBounds
  <2>2. upto = IF agreed <= CharacterHoldBack THEN 0 ELSE U!LastSentenceEnd(buffer, limit)
    BY DEF PromoteEnd
  <2>3. limit \in Int
    BY <2>1
  <2> HIDE DEF limit, upto
  <2>4. U!LastSentenceEnd(buffer, limit) \in 0..Len(buffer)
    BY <1>1, <2>3, SentenceEndIs
  <2> QED BY <1>1, <2>2, <2>4
<1>4. z = IF CharacterHoldBack = 0 THEN s
          ELSE IF upto <= k THEN now
          ELSE U!AppendText(ahead, U!Sanitized(d), late)
  BY DEF U!Promote, PromoteEnd
<1> HIDE DEF upto
<1>5. CASE CharacterHoldBack = 0
  BY <1>4, <1>5, GrowsSame
<1>6. CASE CharacterHoldBack # 0 /\ upto <= k
  <2>1. z = now
    BY <1>4, <1>6
  <2>2. now = Remembering(s, s.buffer, buffer, s.promoted)
    BY <1>2 DEF MapperType, Remembering
  <2> HIDE DEF now, z
  <2>3. /\ Grows(now, s) /\ Words(now) = Words(s) /\ now.lines = s.lines
        /\ now.buffer = s.buffer /\ now.promoted = s.promoted
    BY <1>1, <1>2, <2>2, Remembers
  <2> QED BY <2>1, <2>3 DEF z
<1>7. CASE CharacterHoldBack # 0 /\ ~(upto <= k)
  <2>1. z = U!AppendText(ahead, U!Sanitized(d), late)
    BY <1>4, <1>7
  <2>2. first \in U!Hypothesis /\ Len(first) = upto
    BY <1>1, <1>3, FirstIs, TextIs
  <2>3. ahead = Remembering(s, s.buffer, buffer, first)
    <3> HIDE DEF first
    <3> QED BY <1>2 DEF MapperType, Remembering
  <2> HIDE DEF ahead, first
  <2>4. /\ Grows(ahead, s) /\ Words(ahead) = Words(s) /\ ahead.lines = s.lines
        /\ ahead.buffer = s.buffer /\ ahead.promoted = first
    BY <1>1, <1>2, <2>2, <2>3, Remembers
  <2> DEFINE q == r + k
  <2>5. After(d, q) /\ q + Len(d) = r + upto
    <3>1. k \in 0..Len(buffer) /\ upto \in k..Len(buffer)
      BY <1>1, <1>3, <1>7
    <3> HIDE DEF k
    <3> QED BY <3>1, AfterPiece
  <2>6. Good(ahead)
    BY <2>4 DEF Grows
  <2> HIDE DEF q, d
  <2> DEFINE w == U!Positions(U!Sanitized(d))  y == U!AppendText(ahead, U!Sanitized(d), late)
  <2>7. Adds(y, ahead, w) /\ w \in Seq(Position) /\ (Words(ahead) = Spoken(q) => Words(y) = Spoken(q + Len(d)))
    BY <2>5, <2>6, SpeaksOn
  <2> HIDE DEF w, y, z
  <2>8. Grows(y, s)
    BY <2>4, <2>7, AddsGrows, GrowsMore
  <2>9. z = y
    BY <2>1 DEF y
  <2>10. y.lines = s.lines /\ y.buffer = s.buffer /\ y.promoted = first
    BY <2>4, <2>7 DEF Adds
  <2>11. r + upto <= MaxWords
    BY <1>1, <1>3
  <2>12. Words(s) = Spoken(r + k) => Words(y) = Spoken(r + upto)
    BY <2>4, <2>5, <2>7 DEF q
  <2> QED BY <2>2, <2>8, <2>9, <2>10, <2>11, <2>12 DEF z
<1> QED BY <1>5, <1>6, <1>7

LEMMA TakeBufferIs ==
  ASSUME NEW s, Good(s), NEW buffer, NEW r, After(buffer, r), r + Len(s.promoted) <= MaxWords, NEW late \in BOOLEAN
  PROVE  LET z == U!TakeBuffer(s, buffer, late)
         IN /\ Grows(z, s) /\ z.lines = s.lines /\ z.buffer = buffer
            /\ r + Len(z.promoted) <= MaxWords
            /\ Words(s) = Spoken(r + Len(s.promoted)) => Words(z) = Spoken(r + Len(z.promoted))
<1> DEFINE y == [s EXCEPT !.buffer = buffer]  z == U!TakeBuffer(s, buffer, late)
<1>1. s \in MapperType /\ s.previous \in U!Hypothesis /\ s.promoted \in U!Hypothesis /\ buffer \in U!Hypothesis
  BY MapperParts, TextIs, AfterParts DEF Good
<1>2. CASE buffer = s.buffer
  <2>1. z = s
    BY <1>2 DEF U!TakeBuffer
  <2> QED BY <1>2, <2>1, GrowsSame
<1>3. CASE buffer # s.buffer
  <2>1. z = U!Promote(y, buffer, late)
    BY <1>3 DEF U!TakeBuffer
  <2>2. y = Remembering(s, buffer, s.previous, s.promoted)
    BY <1>1 DEF MapperType, Remembering
  <2> HIDE DEF y, z
  <2>3. Grows(y, s) /\ Words(y) = Words(s) /\ y.lines = s.lines /\ y.buffer = buffer /\ y.promoted = s.promoted
    BY <1>1, <2>2, Remembers
  <2>4. Good(y) /\ r + Len(y.promoted) <= MaxWords
    BY <2>3 DEF Grows
  <2> DEFINE x == U!Promote(y, buffer, late)
  <2>5. /\ Grows(x, y) /\ x.lines = y.lines /\ x.buffer = y.buffer
        /\ r + Len(x.promoted) <= MaxWords
        /\ Words(y) = Spoken(r + Len(y.promoted)) => Words(x) = Spoken(r + Len(x.promoted))
    BY <2>4, PromoteIs
  <2> HIDE DEF x
  <2>6. Grows(x, s)
    BY <2>3, <2>5, GrowsMore
  <2>7. z = x
    BY <2>1 DEF x
  <2> QED BY <2>3, <2>5, <2>6, <2>7 DEF z
<1> QED BY <1>2, <1>3

----------------------------------------------------------------------------
(* The captions of a session.                                              *)

\* What the mapper keeps fits what upstream has committed.
UnitInv ==
  /\ rolled \in 0..MaxWords /\ session \in {"open", "finishing", "ended", "closed"}
  /\ Good(U!Mapper) /\ LinesUpTo(lines, rolled)
  /\ rolled + Len(promotion.promoted) <= MaxWords /\ After(promotion.buffer, rolled)

\* What is shown are the words upstream committed and those promoted before.
ShownInv ==
  session \in {"open", "finishing"} => Words(U!Mapper) = Spoken(rolled + Len(promotion.promoted))

\* A step adds to what is shown, and the end of a session closes all of it.
AddsToShown ==
  \E w \in Seq(Position) : Words(U!Mapper)' = Words(U!Mapper) \o w
EndsWhole ==
  session' = "ended" /\ session # "ended" =>
    /\ segmenter'.open = <<>>
    /\ U!ToSet(Words(U!Mapper)')
         = U!ToSet(Spoken(U!Max({rolled + Len(promotion.promoted), rolled + Len(promotion.buffer)})))

LEMMA MapperIs ==
  /\ U!Mapper.open = segmenter.open /\ U!Mapper.held = segmenter.held /\ U!Mapper.seen = segmenter.seen
  /\ U!Mapper.buffer = promotion.buffer /\ U!Mapper.previous = promotion.previous
  /\ U!Mapper.promoted = promotion.promoted /\ U!Mapper.lines = lines /\ U!Mapper.units = committed
BY DEF U!Mapper

LEMMA MapperBecomes ==
  ASSUME NEW z, z \in MapperType, U!Becomes(z)
  PROVE  /\ U!Mapper' = z /\ lines' = z.lines /\ promotion'.promoted = z.promoted /\ promotion'.buffer = z.buffer
         /\ segmenter'.open = z.open
<1>1. /\ segmenter' = [open |-> z.open, held |-> z.held, seen |-> z.seen]
      /\ promotion' = [buffer |-> z.buffer, previous |-> z.previous, promoted |-> z.promoted]
      /\ lines' = z.lines /\ committed' = z.units
  BY DEF U!Becomes
<1>2. U!Mapper' = [open |-> z.open, held |-> z.held, seen |-> z.seen, buffer |-> z.buffer, previous |-> z.previous,
                   promoted |-> z.promoted, lines |-> z.lines, units |-> z.units]
  BY <1>1 DEF U!Mapper
<1>3. z = [open |-> z.open, held |-> z.held, seen |-> z.seen, buffer |-> z.buffer, previous |-> z.previous,
           promoted |-> z.promoted, lines |-> z.lines, units |-> z.units]
  BY DEF MapperType
<1> QED BY <1>1, <1>2, <1>3

LEMMA ShownFrom ==
  ASSUME NEW units \in Seq(U!Text), NEW open \in U!Text
  PROVE  U!Positions(U!FlattenSeq(units) \o open) = U!Positions(U!FlattenSeq(units)) \o U!Positions(open)
<1>1. U!FlattenSeq(units) \in U!Text
  BY FlatType
<1> QED BY <1>1, PositionsJoin

LEMMA ShownIs ==
  /\ Good(U!Mapper) => U!Positions(U!Shown) = Words(U!Mapper)
  /\ Good(U!Mapper)' => U!Positions(U!Shown)' = Words(U!Mapper)'
<1>1. ASSUME Good(U!Mapper) PROVE U!Positions(U!Shown) = Words(U!Mapper)
  <2>1. segmenter.open \in U!Text /\ committed \in Seq(U!Text)
    BY <1>1, MapperParts, MapperIs DEF Good
  <2>2. U!Positions(U!FlattenSeq(committed) \o segmenter.open) = U!Positions(U!FlattenSeq(committed)) \o U!Positions(segmenter.open)
    BY <2>1, ShownFrom
  <2> QED BY <2>2, MapperIs DEF Words, U!Shown
<1>2. ASSUME Good(U!Mapper)' PROVE U!Positions(U!Shown)' = Words(U!Mapper)'
  <2>0. U!Mapper'.open = segmenter'.open /\ U!Mapper'.units = committed'
    BY DEF U!Mapper
  <2>1. U!Mapper' \in MapperType
    BY <1>2 DEF Good
  <2>2. segmenter'.open \in U!Text /\ committed' \in Seq(U!Text)
    BY <2>0, <2>1, MapperParts
  <2>3. U!Positions(U!FlattenSeq(committed') \o segmenter'.open) = U!Positions(U!FlattenSeq(committed')) \o U!Positions(segmenter'.open)
    BY <2>2, ShownFrom
  <2> QED BY <2>0, <2>3 DEF Words, U!Shown
<1> QED BY <1>1, <1>2

LEMMA UnitsInit == ASSUME U!Init PROVE UnitInv /\ ShownInv
<1>1. rolled = 0 /\ lines = <<>> /\ committed = <<>> /\ session = "open"
      /\ segmenter = [open |-> <<>>, held |-> FALSE, seen |-> FALSE]
      /\ promotion = [buffer |-> <<>>, previous |-> <<>>, promoted |-> <<>>]
  BY DEF U!Init
<1> DEFINE s == U!Mapper
<1>2. /\ s.open = <<>> /\ s.held = FALSE /\ s.seen = FALSE /\ s.buffer = <<>> /\ s.previous = <<>> /\ s.promoted = <<>>
      /\ s.lines = <<>> /\ s.units = <<>>
  BY <1>1, MapperIs
<1>3. s \in MapperType
  <2>1. <<>> \in U!Text /\ <<>> \in U!Hypothesis /\ <<>> \in Seq(1..MaxWords) /\ <<>> \in Seq(U!Text)
    BY EmptyText
  <2> QED BY <1>1, <2>1 DEF U!Mapper, MapperType
<1> HIDE DEF s
<1>4. InOrder(s)
  <2>1. Len(<<>>) = 0 /\ StaysOpen(<<>>)
    BY EmptyText
  <2>2. TidyUnits(s.units)
    BY <1>2, <2>1 DEF TidyUnits
  <2> QED BY <1>2, <2>1, <2>2 DEF InOrder
<1>5. Words(s) = Spoken(0)
  <2>1. U!Positions(U!FlattenSeq(<<>>)) \o U!Positions(<<>>) = <<>>
    BY FlatEmpty, EmptyText
  <2> QED BY <1>2, <2>1, SpokenAre DEF Words
<1>6. Len(promotion.promoted) = 0 /\ rolled + Len(promotion.promoted) = 0 /\ promotion.buffer = <<>>
  BY <1>1
<1>7. MaxWords \in Nat /\ Len(<<>>) = 0 /\ <<>> \in U!Hypothesis
  BY UnitBounds, EmptyText
<1>8. After(<<>>, 0)
  BY <1>7 DEF After
<1>9. LinesUpTo(lines, rolled)
  BY <1>1, <1>7 DEF LinesUpTo
<1>10. Good(s)
  BY <1>3, <1>4 DEF Good
<1> QED BY <1>1, <1>5, <1>6, <1>7, <1>8, <1>9, <1>10 DEF UnitInv, ShownInv, s

\* _map_and_queue: the line, the held-back period, the hypothesis.
Message(upto, until, misheard, new, late, elapsed) ==
  U!TakeBuffer(U!Expire(U!TakeLine(U!Mapper, U!Heard(rolled + 1, upto, misheard), new, late), elapsed),
               U!Heard(upto + 1, until, misheard), late)
Mapped(z, upto) ==
  /\ Grows(z, U!Mapper) /\ LinesUpTo(z.lines, upto)
  /\ upto + Len(z.promoted) <= MaxWords /\ After(z.buffer, upto)
  /\ RollsCoverPromotion /\ Words(U!Mapper) = Spoken(rolled + Len(promotion.promoted))
       => Words(z) = Spoken(upto + Len(z.promoted))

LEMMA MessageMaps ==
  ASSUME UnitInv, NEW upto \in rolled..MaxWords, NEW until \in upto..MaxWords, NEW misheard,
         NEW new \in BOOLEAN, NEW late \in BOOLEAN, NEW elapsed \in BOOLEAN, U!RollAllowed(upto)
  PROVE  Mapped(Message(upto, until, misheard, new, late, elapsed), upto)
<1> DEFINE s == U!Mapper  delta == U!Heard(rolled + 1, upto, misheard)  buffer == U!Heard(upto + 1, until, misheard)
           x == U!TakeLine(s, delta, new, late)  k == Len(promotion.promoted)
           y == U!Expire(x, elapsed)  z == U!TakeBuffer(y, buffer, late)
<1>1. /\ rolled \in 0..MaxWords /\ upto \in 0..MaxWords /\ MaxWords \in Nat /\ Good(s) /\ LinesUpTo(s.lines, rolled)
      /\ s.promoted = promotion.promoted /\ rolled + k <= MaxWords /\ k \in Nat /\ rolled <= upto
  <2>1. rolled \in 0..MaxWords /\ MaxWords \in Nat /\ Good(s) /\ LinesUpTo(s.lines, rolled) /\ s.promoted = promotion.promoted
        /\ rolled + k <= MaxWords
    BY UnitBounds, MapperIs DEF UnitInv
  <2>2. k \in Nat
    BY <2>1, PromotedLength
  <2> QED BY <2>1, <2>2
<1>2. After(delta, rolled) /\ Len(delta) = upto - rolled
  BY <1>1, HeardIs
<1>3. After(buffer, upto)
  BY <1>1, HeardIs
<1> HIDE DEF delta, buffer
<1>4. rolled + Len(delta) = upto /\ (Len(delta) = 0 <=> upto = rolled)
  BY <1>1, <1>2
<1>5. /\ Grows(x, s) /\ LinesUpTo(x.lines, rolled + Len(delta))
      /\ (rolled + Len(delta)) + Len(x.promoted) <= MaxWords
      /\ Words(s) = Spoken(rolled + Len(s.promoted)) /\ (Len(delta) = 0 \/ Len(s.promoted) <= Len(delta))
           => Words(x) = Spoken((rolled + Len(delta)) + Len(x.promoted))
  <2> HIDE DEF s
  <2>1. rolled + Len(s.promoted) <= MaxWords
    BY <1>1
  <2> QED BY <1>1, <1>2, <2>1, TakeLineIs
<1>6. y = U!Expire(x, elapsed) /\ z = U!TakeBuffer(y, buffer, late)
  OBVIOUS
<1>0. Message(upto, until, misheard, new, late, elapsed) = z
  BY DEF Message, delta, buffer
<1> HIDE DEF x, y
<1>7. Good(x)
  BY <1>5 DEF Grows
<1>8. Adds(y, x, <<>>)
  BY <1>6, <1>7, ExpireIs
<1>9. Grows(y, x) /\ y.lines = x.lines /\ y.promoted = x.promoted /\ Good(y) /\ Words(y) = Words(x)
  <2>1. <<>> \in Seq(Position)
    OBVIOUS
  <2>2. Words(x) = Words(x) \o <<>>
    BY <1>7, AddsNothing DEF Adds
  <2> QED BY <1>8, <2>1, <2>2, AddsGrows DEF Adds
<1>10. upto + Len(y.promoted) <= MaxWords
  BY <1>4, <1>5, <1>9
<1>12. /\ Grows(z, y) /\ z.lines = y.lines /\ z.buffer = buffer
       /\ upto + Len(z.promoted) <= MaxWords
       /\ Words(y) = Spoken(upto + Len(y.promoted)) => Words(z) = Spoken(upto + Len(z.promoted))
  <2>1. Good(y)
    BY <1>9
  <2> QED BY <1>3, <1>10, <2>1, TakeBufferIs
<1> HIDE DEF z
<1>13. Grows(z, s)
  BY <1>1, <1>5, <1>9, <1>12, GrowsMore
<1>14. LinesUpTo(z.lines, upto)
  BY <1>4, <1>5, <1>9, <1>12
<1>15. ASSUME RollsCoverPromotion, Words(s) = Spoken(rolled + k)
       PROVE  Words(z) = Spoken(upto + Len(z.promoted))
  <2>1. upto = rolled \/ upto >= rolled + k
    BY <1>15 DEF U!RollAllowed
  <2>2. Len(delta) = 0 \/ k <= Len(delta)
    BY <1>1, <1>2, <2>1
  <2>3. Words(x) = Spoken(upto + Len(x.promoted))
    BY <1>1, <1>4, <1>5, <1>15, <2>2
  <2> QED BY <1>9, <1>12, <2>3
<1> QED BY <1>0, <1>3, <1>12, <1>13, <1>14, <1>15 DEF Mapped, s, k

LEMMA GreaterIs ==
  ASSUME NEW a \in Nat, NEW b \in Nat
  PROVE  U!Max({a, b}) = IF a <= b THEN b ELSE a
<1>1. \E x \in {a, b} : \A y \in {a, b} : x >= y
  <2>1. CASE a <= b
    BY <2>1
  <2>2. CASE ~(a <= b)
    BY <2>2
  <2> QED BY <2>1, <2>2
<1>2. U!Max({a, b}) \in {a, b} /\ \A y \in {a, b} : U!Max({a, b}) >= y
  BY <1>1 DEF U!Max
<1> QED BY <1>2

LEMMA SetJoins ==
  ASSUME NEW a \in Seq(Position), NEW b \in Seq(Position)
  PROVE  U!ToSet(a \o b) = U!ToSet(a) \cup U!ToSet(b)
<1>1. /\ Len(a) \in Nat /\ Len(b) \in Nat /\ DOMAIN a = 1..Len(a) /\ DOMAIN b = 1..Len(b)
      /\ DOMAIN (a \o b) = 1..(Len(a) + Len(b))
      /\ \A i \in 1..(Len(a) + Len(b)) : (a \o b)[i] = IF i <= Len(a) THEN a[i] ELSE b[i - Len(a)]
  <2> DEFINE c == a \o b
  <2>1. c \in Seq(Position) /\ Len(c) = Len(a) + Len(b) /\ Len(a) \in Nat /\ Len(b) \in Nat
        /\ \A i \in 1..(Len(a) + Len(b)) : c[i] = IF i <= Len(a) THEN a[i] ELSE b[i - Len(a)]
    BY Joined
  <2> HIDE DEF c
  <2>2. DOMAIN c = 1..Len(c) /\ DOMAIN a = 1..Len(a) /\ DOMAIN b = 1..Len(b)
    BY <2>1, LenProperties
  <2> QED BY <2>1, <2>2 DEF c
<1> DEFINE c == a \o b  m == Len(a)  n == Len(b)
<1>2. /\ m \in Nat /\ n \in Nat /\ DOMAIN a = 1..m /\ DOMAIN b = 1..n /\ DOMAIN c = 1..(m + n)
      /\ \A i \in 1..(m + n) : c[i] = IF i <= m THEN a[i] ELSE b[i - m]
  BY <1>1
<1> HIDE DEF c, m, n
<1>3. ASSUME NEW x \in U!ToSet(c) PROVE x \in U!ToSet(a) \cup U!ToSet(b)
  <2>1. PICK i \in 1..(m + n) : x = c[i]
    BY <1>2 DEF U!ToSet
  <2>2. CASE i <= m
    <3>1. i \in 1..m /\ x = a[i]
      BY <1>2, <2>1, <2>2
    <3> QED BY <1>2, <3>1 DEF U!ToSet
  <2>3. CASE ~(i <= m)
    <3>1. i - m \in 1..n /\ x = b[i - m]
      BY <1>2, <2>1, <2>3
    <3> QED BY <1>2, <3>1 DEF U!ToSet
  <2> QED BY <2>2, <2>3
<1>4. ASSUME NEW x \in U!ToSet(a) PROVE x \in U!ToSet(c)
  <2>1. PICK i \in 1..m : x = a[i]
    BY <1>2 DEF U!ToSet
  <2>2. i \in 1..(m + n) /\ i <= m
    BY <1>2
  <2>3. x = c[i]
    BY <1>2, <2>1, <2>2
  <2> QED BY <1>2, <2>2, <2>3 DEF U!ToSet
<1>5. ASSUME NEW x \in U!ToSet(b) PROVE x \in U!ToSet(c)
  <2>1. PICK i \in 1..n : x = b[i]
    BY <1>2 DEF U!ToSet
  <2> DEFINE j == m + i
  <2>2. j \in 1..(m + n) /\ ~(j <= m) /\ j - m = i
    BY <1>2
  <2> HIDE DEF j
  <2>3. x = c[j]
    BY <1>2, <2>1, <2>2
  <2> QED BY <1>2, <2>2, <2>3 DEF U!ToSet
<1> QED BY <1>3, <1>4, <1>5 DEF c

LEMMA SpokenSet ==
  ASSUME NEW n \in 0..MaxWords
  PROVE  U!ToSet(Spoken(n)) = (1..n) \ Noise
<1> DEFINE r == 0  t == U!Heard(r + 1, n, 0)  x == U!Sanitized(t)
<1>1. r \in 0..MaxWords /\ n \in r..MaxWords /\ n \in Nat
  BY UnitBounds
<1>2. After(t, r) /\ Len(t) = n - r
  <2> HIDE DEF r
  <2> QED BY <1>1, HeardIs
<1> HIDE DEF t
<1>3. SanitizedAfter(x, t, r, Len(t))
  <2> HIDE DEF r
  <2> QED BY <1>2, SanitizedIs
<1>4. Len(t) = n /\ r + Len(t) = n
  BY <1>1, <1>2
<1> DEFINE p == U!Positions(x)
<1>5. x \in U!Text /\ Spoken(0) \o p = Spoken(n) /\ U!ToSet(p) = ((r + 1)..n) \ Noise
  BY <1>3, <1>4 DEF SanitizedAfter
<1>6. p \in Seq(Position)
  BY <1>5, PositionsAre DEF Position
<1> HIDE DEF p
<1>7. <<>> \o p = p
  BY <1>6
<1>8. Spoken(0) \o p = p
  BY <1>7, SpokenAre
<1>9. r + 1 = 1
  OBVIOUS
<1> QED BY <1>5, <1>8, <1>9

\* flush_events: what of the last hypothesis was not promoted.
LEMMA RemainderIs ==
  ASSUME NEW s, Good(s), NEW r, After(s.buffer, r), r + Len(s.promoted) <= MaxWords
  PROVE  \E j \in 0..Len(s.promoted) :
           /\ After(U!Remainder(s), r + j) /\ (r + j) + Len(U!Remainder(s)) = r + Len(s.buffer)
<1>1. s.promoted \in U!Hypothesis /\ s.buffer \in U!Hypothesis
  BY MapperParts DEF Good
<1>2. Len(s.promoted) \in Nat /\ Len(s.buffer) \in Nat
  BY <1>1, TextIs, LenProperties
<1> DEFINE j == IF U!IsPrefix(s.promoted, s.buffer) THEN Len(s.promoted) ELSE U!Common(s.promoted, s.buffer)
<1>3. j \in 0..Len(s.promoted) /\ j \in 0..Len(s.buffer)
  <2>1. CASE U!IsPrefix(s.promoted, s.buffer)
    BY <1>2, <2>1 DEF U!IsPrefix
  <2>2. CASE ~U!IsPrefix(s.promoted, s.buffer)
    BY <1>1, <1>2, <2>2, CommonIs
  <2> QED BY <2>1, <2>2
<1>4. U!Remainder(s) = U!Rest(s.buffer, j)
  BY DEF U!Remainder
<1> HIDE DEF j
<1>5. After(U!Rest(s.buffer, j), r + j) /\ (r + j) + Len(U!Rest(s.buffer, j)) = r + Len(s.buffer)
  BY <1>3, AfterRest
<1> QED BY <1>3, <1>4, <1>5

LEMMA FlushEventsIs ==
  ASSUME NEW s, Good(s), NEW r, After(s.buffer, r), r + Len(s.promoted) <= MaxWords
  PROVE  LET z == U!FlushEvents(s)
             k == Len(s.promoted)
         IN /\ Grows(z, s) /\ z.open = <<>> /\ z.lines = s.lines /\ z.buffer = <<>> /\ z.promoted = <<>>
            /\ Words(s) = Spoken(r + k)
                 => U!ToSet(Words(z)) = U!ToSet(Spoken(U!Max({r + k, r + Len(s.buffer)})))
<1> DEFINE E == <<>>  f == FALSE  d == U!Remainder(s)  c == Remembering(s, E, E, E)
           y == U!AppendText(c, U!Sanitized(d), f)  z == U!Flush(y)  k == Len(s.promoted)  n == Len(s.buffer)
<1>1. U!FlushEvents(s) = z
  BY DEF U!FlushEvents, Remembering
<1>2. E \in U!Hypothesis /\ E \in Seq(Position)
  BY EmptyText
<1>3. f \in BOOLEAN
  BY Zenon
<1>4. n \in Nat /\ k \in Nat /\ r \in Nat /\ r + n \in 0..MaxWords /\ r + k \in 0..MaxWords /\ MaxWords \in Nat
  <2>1. n \in Nat /\ r \in Nat /\ r + n \in 0..MaxWords /\ MaxWords \in Nat /\ k \in Nat
    BY AfterParts, UnitBounds, PromotedLength
  <2> QED BY <2>1
<1>5. PICK j \in 0..k : After(d, r + j) /\ (r + j) + Len(d) = r + n
  BY RemainderIs
<1> HIDE DEF E, f, d, k, n
<1>6. Grows(c, s) /\ Words(c) = Words(s) /\ c.lines = s.lines /\ c.buffer = E /\ c.promoted = E
  BY <1>2, Remembers
<1>7. Good(c)
  BY <1>6 DEF Grows
<1> HIDE DEF c
<1> DEFINE q == r + j  w == U!Positions(U!Sanitized(d))
<1>8. After(d, q) /\ q + Len(d) = r + n
  BY <1>5
<1> HIDE DEF q
<1>9. Adds(y, c, w) /\ w \in Seq(Position) /\ U!ToSet(w) = ((q + 1)..(q + Len(d))) \ Noise
  BY <1>3, <1>7, <1>8, SpeaksOn
<1> HIDE DEF y, w
<1>10. Good(y)
  BY <1>9 DEF Adds
<1>11. Adds(z, y, E) /\ z.open = <<>>
  BY <1>10, FlushIs DEF E
<1> HIDE DEF z
<1>12. Grows(z, s)
  BY <1>2, <1>6, <1>9, <1>11, AddsGrows, GrowsMore
<1>13. z.lines = s.lines /\ z.buffer = E /\ z.promoted = E
  BY <1>6, <1>9, <1>11 DEF Adds
<1>14. Words(z) = Words(s) \o w
  <2>1. Words(y) = Words(s) \o w
    BY <1>6, <1>9 DEF Adds
  <2>2. Words(y) = Words(y) \o E
    BY <1>10, AddsNothing DEF Adds, E
  <2> QED BY <1>11, <2>1, <2>2 DEF Adds
<1>15. ASSUME Words(s) = Spoken(r + k)
       PROVE  U!ToSet(Words(z)) = U!ToSet(Spoken(U!Max({r + k, r + n})))
  <2> DEFINE a == r + k  b == r + n
  <2>1. a \in 0..MaxWords /\ b \in 0..MaxWords /\ a \in Nat /\ b \in Nat
    BY <1>4
  <2>2. j \in Nat /\ q = r + j /\ q <= a /\ q \in Nat /\ q + Len(d) = b
    BY <1>4, <1>5, <1>8 DEF q
  <2> HIDE DEF a, b
  <2>3. Words(s) = Spoken(a) /\ Spoken(a) \in Seq(Position)
    BY <1>15, <2>1, SpokenAre DEF a
  <2>4. U!ToSet(Words(z)) = ((1..a) \ Noise) \cup (((q + 1)..b) \ Noise)
    <3>1. U!ToSet(Spoken(a)) = (1..a) \ Noise
      BY <2>1, SpokenSet
    <3>2. U!ToSet(w) = ((q + 1)..b) \ Noise
      BY <1>9, <2>2
    <3>3. Words(z) = Spoken(a) \o w
      BY <1>14, <2>3
    <3>4. U!ToSet(Spoken(a) \o w) = U!ToSet(Spoken(a)) \cup U!ToSet(w)
      BY <1>9, <2>3, SetJoins
    <3> QED BY <3>1, <3>2, <3>3, <3>4
  <2> DEFINE m == U!Max({a, b})
  <2>5. m = IF a <= b THEN b ELSE a
    BY <2>1, GreaterIs
  <2> HIDE DEF m
  <2>6. m \in 0..MaxWords
    BY <2>1, <2>5
  <2>7. (1..a) \cup ((q + 1)..b) = 1..m
    <3>1. \A i : i \in (1..a) \cup ((q + 1)..b) <=> i \in 1..m
      BY <2>1, <2>2, <2>5
    <3> QED BY <3>1
  <2>8. U!ToSet(Spoken(m)) = (1..m) \ Noise
    BY <2>6, SpokenSet
  <2> QED BY <2>4, <2>7, <2>8 DEF m, a, b
<1> QED BY <1>1, <1>11, <1>12, <1>13, <1>15 DEF E, k, n

LEMMA MapMessageStep ==
  ASSUME UnitInv, U!MapMessage
  PROVE  /\ UnitInv' /\ AddsToShown /\ session' = session
         /\ RollsCoverPromotion /\ ShownInv => ShownInv'
<1> DEFINE Until(upto) == upto..U!Min({MaxWords, upto + MaxHypothesis})
           s == U!Mapper
<1>1. session \in {"open", "finishing"} /\ session' = session
  BY DEF U!MapMessage
<1>2. PICK upto \in rolled..MaxWords, new \in BOOLEAN, late \in BOOLEAN, elapsed \in BOOLEAN :
        \E until \in Until(upto) : \E misheard \in U!Misheard(upto + 1, until) :
          /\ U!RollAllowed(upto) /\ rolled' = upto
          /\ U!Becomes(Message(upto, until, misheard, new, late, elapsed))
  BY DEF U!MapMessage, Message
<1>3. PICK until \in Until(upto) : \E misheard \in U!Misheard(upto + 1, until) :
          /\ U!RollAllowed(upto) /\ rolled' = upto
          /\ U!Becomes(Message(upto, until, misheard, new, late, elapsed))
  BY <1>2
<1>4. PICK misheard \in U!Misheard(upto + 1, until) :
          /\ U!RollAllowed(upto) /\ rolled' = upto
          /\ U!Becomes(Message(upto, until, misheard, new, late, elapsed))
  BY <1>3
<1>5. rolled \in 0..MaxWords /\ MaxWords \in Nat /\ MaxHypothesis \in Nat /\ upto \in 0..MaxWords
  BY UnitBounds DEF UnitInv
<1>6. until \in upto..MaxWords
  <2> DEFINE a == MaxWords  b == upto + MaxHypothesis
  <2>1. a \in Int /\ b \in Int
    BY <1>5
  <2>2. until \in upto..U!Min({a, b})
    OBVIOUS
  <2> HIDE DEF a, b
  <2>3. U!Min({a, b}) <= a /\ U!Min({a, b}) \in Int
    BY <2>1, LesserIs
  <2> QED BY <1>5, <2>1, <2>2, <2>3 DEF a
<1> DEFINE z == Message(upto, until, misheard, new, late, elapsed)
<1>7. U!Becomes(z) /\ U!RollAllowed(upto)
  BY <1>4
<1> HIDE DEF Until
<1>9. Mapped(z, upto)
  BY <1>6, <1>7, MessageMaps
<1> HIDE DEF z
<1>10. /\ Grows(z, U!Mapper) /\ LinesUpTo(z.lines, upto)
       /\ upto + Len(z.promoted) <= MaxWords /\ After(z.buffer, upto)
       /\ RollsCoverPromotion /\ Words(U!Mapper) = Spoken(rolled + Len(promotion.promoted))
            => Words(z) = Spoken(upto + Len(z.promoted))
  BY <1>9 DEF Mapped
<1>11. Good(z) /\ z \in MapperType
  BY <1>10 DEF Grows, Good
<1>12. /\ U!Mapper' = z /\ lines' = z.lines /\ promotion'.promoted = z.promoted /\ promotion'.buffer = z.buffer
  BY <1>7, <1>11, MapperBecomes
<1>13. rolled' = upto
  BY <1>4
<1>14. UnitInv'
  BY <1>1, <1>5, <1>10, <1>11, <1>12, <1>13 DEF UnitInv
<1>15. Words(U!Mapper)' = Words(z)
  BY <1>12
<1>16. AddsToShown
  BY <1>10, <1>15 DEF AddsToShown, Grows
<1>17. RollsCoverPromotion /\ ShownInv => ShownInv'
  BY <1>1, <1>10, <1>12, <1>13, <1>15 DEF ShownInv
<1> QED BY <1>1, <1>14, <1>16, <1>17

LEMMA FlushSessionStep ==
  ASSUME UnitInv, U!FlushSession
  PROVE  /\ UnitInv' /\ AddsToShown /\ ShownInv'
         /\ ShownInv => EndsWhole
<1> DEFINE s == U!Mapper  z == U!FlushEvents(s)  k == Len(promotion.promoted)  n == Len(promotion.buffer)
<1>1. session = "finishing" /\ session' = "ended" /\ rolled' = rolled /\ U!Becomes(z)
  BY DEF U!FlushSession
<1>2. /\ rolled \in 0..MaxWords /\ Good(s) /\ LinesUpTo(lines, rolled) /\ MaxWords \in Nat
      /\ rolled + Len(s.promoted) <= MaxWords /\ After(s.buffer, rolled)
      /\ s.promoted = promotion.promoted /\ s.buffer = promotion.buffer /\ s.lines = lines
  BY UnitBounds, MapperIs DEF UnitInv
<1> HIDE DEF s, z
<1>3. /\ Grows(z, s) /\ z.open = <<>> /\ z.lines = s.lines /\ z.buffer = <<>> /\ z.promoted = <<>>
      /\ Words(s) = Spoken(rolled + k) => U!ToSet(Words(z)) = U!ToSet(Spoken(U!Max({rolled + k, rolled + n})))
  BY <1>2, FlushEventsIs DEF z
<1>4. Good(z) /\ z \in MapperType
  BY <1>3 DEF Grows, Good
<1>5. /\ U!Mapper' = z /\ lines' = z.lines /\ promotion'.promoted = z.promoted /\ promotion'.buffer = z.buffer
      /\ segmenter'.open = z.open
  BY <1>1, <1>4, MapperBecomes
<1>6. rolled + Len(<<>>) <= MaxWords /\ After(<<>>, rolled)
  <2>1. Len(<<>>) = 0 /\ <<>> \in U!Hypothesis
    BY EmptyText
  <2> QED BY <1>2, <2>1 DEF After
<1>7. UnitInv'
  BY <1>1, <1>2, <1>3, <1>4, <1>5, <1>6 DEF UnitInv
<1>8. Words(U!Mapper)' = Words(z)
  BY <1>5
<1>9. AddsToShown
  BY <1>3, <1>8 DEF AddsToShown, Grows, s
<1>10. ShownInv'
  BY <1>1 DEF ShownInv
<1>11. ShownInv => EndsWhole
  BY <1>1, <1>3, <1>5, <1>8 DEF ShownInv, EndsWhole, s
<1> QED BY <1>7, <1>9, <1>10, <1>11

\* Nothing of the captions changes but how the session stands.
LEMMA UnitsSame ==
  ASSUME UnitInv, UNCHANGED <<rolled, lines, segmenter, promotion, committed>>,
         session' \in {"finishing", "closed"} \/ session' = session
  PROVE  /\ UnitInv' /\ AddsToShown /\ EndsWhole
         /\ ShownInv /\ (session' = "finishing" => session \in {"open", "finishing"}) => ShownInv'
<1>1. U!Mapper' = U!Mapper
  BY DEF U!Mapper
<1>2. UnitInv'
  BY <1>1 DEF UnitInv
<1>3. Words(U!Mapper)' = Words(U!Mapper)
  BY <1>1
<1>4. AddsToShown
  <2>1. Words(U!Mapper) = Words(U!Mapper) \o <<>>
    BY AddsNothing DEF Adds, UnitInv
  <2>2. <<>> \in Seq(Position)
    OBVIOUS
  <2> QED BY <1>3, <2>1, <2>2 DEF AddsToShown
<1>5. EndsWhole
  BY DEF EndsWhole
<1>6. ShownInv /\ (session' = "finishing" => session \in {"open", "finishing"}) => ShownInv'
  BY <1>3 DEF ShownInv
<1> QED BY <1>2, <1>4, <1>5, <1>6

LEMMA UnitsStep ==
  ASSUME UnitInv, U!Next \/ UNCHANGED unitsVars
  PROVE  /\ UnitInv' /\ AddsToShown
         /\ RollsCoverPromotion /\ ShownInv => ShownInv' /\ EndsWhole
<1>1. CASE U!MapMessage
  <2>1. session' = session
    BY <1>1, MapMessageStep
  <2>2. EndsWhole
    BY <2>1 DEF EndsWhole
  <2> QED BY <1>1, <2>2, MapMessageStep
<1>2. CASE U!FlushSession
  BY <1>2, FlushSessionStep
<1>3. CASE U!DropMessage
  <2>1. UNCHANGED <<rolled, lines, segmenter, promotion, committed>> /\ session' = session
    BY <1>3 DEF U!DropMessage, U!vars
  <2> QED BY <2>1, UnitsSame DEF ShownInv
<1>4. CASE U!FinishSession
  <2>1. UNCHANGED <<rolled, lines, segmenter, promotion, committed>> /\ session = "open" /\ session' = "finishing"
    BY <1>4 DEF U!FinishSession
  <2> QED BY <2>1, UnitsSame
<1>5. CASE U!Close
  <2>1. UNCHANGED <<rolled, lines, segmenter, promotion, committed>> /\ session' = "closed"
    BY <1>5 DEF U!Close
  <2> QED BY <2>1, UnitsSame
<1>6. CASE UNCHANGED unitsVars
  <2>1. UNCHANGED <<rolled, lines, segmenter, promotion, committed>> /\ session' = session
    BY <1>6 DEF unitsVars
  <2> QED BY <2>1, UnitsSame DEF ShownInv
<1> QED BY <1>1, <1>2, <1>3, <1>4, <1>5, <1>6 DEF U!Next

LEMMA TakenIs == ASSUME UnitInv PROVE U!Taken = rolled + Len(promotion.promoted)
<1>1. CASE promotion.promoted = <<>>
  <2>1. rolled + Len(promotion.promoted) = rolled
    BY <1>1 DEF UnitInv
  <2> QED BY <1>1, <2>1 DEF U!Taken
<1>2. CASE promotion.promoted # <<>>
  BY <1>2 DEF U!Taken
<1> QED BY <1>1, <1>2

LEMMA PrefixOf ==
  ASSUME NEW a \in Seq(Position), NEW w \in Seq(Position)
  PROVE  U!IsPrefix(a, a \o w)
<1> DEFINE b == a \o w  n == Len(a)
<1>1. /\ b \in Seq(Position) /\ Len(b) = n + Len(w) /\ n \in Nat /\ Len(w) \in Nat
      /\ \A i \in 1..(n + Len(w)) : b[i] = IF i <= n THEN a[i] ELSE w[i - n]
  BY Joined
<1> HIDE DEF b
<1>2. n \in 0..Len(b) /\ n \in 0..n /\ n <= Len(b)
  BY <1>1
<1>3. SubSeq(b, 1, n) \in Seq(Position) /\ Len(SubSeq(b, 1, n)) = n /\ \A i \in 1..n : SubSeq(b, 1, n)[i] = b[i]
  BY <1>1, <1>2, FirstIs
<1>4. SubSeq(a, 1, n) \in Seq(Position) /\ Len(SubSeq(a, 1, n)) = n /\ \A i \in 1..n : SubSeq(a, 1, n)[i] = a[i]
  BY <1>2, FirstIs
<1>5. \A i \in 1..n : b[i] = a[i]
  BY <1>1
<1>6. SubSeq(a, 1, n) = SubSeq(b, 1, n)
  BY <1>3, <1>4, <1>5, SeqEqual
<1> QED BY <1>2, <1>6 DEF U!IsPrefix, b

LEMMA UnitsFollow ==
  ASSUME UnitInv
  PROVE  UnitsAreWellFormed /\ (ShownInv => WordsOnce)
<1>1. Good(U!Mapper) /\ U!Mapper \in MapperType /\ InOrder(U!Mapper)
  BY DEF UnitInv, Good
<1>2. /\ segmenter.open \in U!Text /\ {segmenter.held, segmenter.seen} \subseteq BOOLEAN
      /\ {promotion.buffer, promotion.previous, promotion.promoted} \subseteq U!Hypothesis
      /\ lines \in Seq(1..MaxWords) /\ committed \in Seq(U!Text)
  BY <1>1, MapperParts, MapperIs
<1>3. U!TypeOK
  BY <1>2 DEF UnitInv, U!TypeOK
<1>4. DOMAIN committed = 1..Len(committed)
  BY <1>2, LenProperties
<1>5. U!ArtefactsAtEdges
  <2>1. TidyUnits(committed)
    BY <1>1, MapperIs DEF InOrder
  <2>2. \A u \in DOMAIN committed : \A i \in 1..(Len(committed[u]) - 1) : committed[u][i][2] # "artefact"
    BY <1>4, <2>1 DEF TidyUnits, TidyUnit
  <2>3. segmenter.held <=> (segmenter.open # <<>> /\ U!HeldBack(segmenter.open))
    BY <1>1, MapperIs DEF InOrder
  <2> QED BY <2>2, <2>3 DEF U!ArtefactsAtEdges
<1>6. U!OpenUnitIsShort
  BY <1>1, MapperIs DEF InOrder, StaysOpen, U!OpenUnitIsShort
<1>7. ASSUME ShownInv PROVE WordsOnce
  <2>1. U!Taken = rolled + Len(promotion.promoted)
    BY TakenIs
  <2>2. U!Positions(U!Shown) = Words(U!Mapper)
    BY <1>1, ShownIs
  <2> QED BY <1>7, <2>1, <2>2 DEF ShownInv, WordsOnce, U!WordsOnce, Spoken
<1> QED BY <1>3, <1>5, <1>6, <1>7 DEF UnitsAreWellFormed

OnlyAdds == U!IsPrefix(U!Positions(U!Shown), U!Positions(U!Shown'))
EndTakesAll ==
  session' = "ended" /\ session # "ended" =>
    /\ segmenter'.open = <<>>
    /\ U!ToSet(U!Positions(U!Shown')) = U!ToSet(U!SpokenUpTo[U!Max({U!Taken, rolled + Len(promotion.buffer)})])

LEMMA UnitsKeep ==
  ASSUME UnitInv, U!Next \/ UNCHANGED unitsVars, RollsCoverPromotion, ShownInv
  PROVE  OnlyAdds /\ EndTakesAll
<1>1. UnitInv' /\ AddsToShown /\ EndsWhole
  BY UnitsStep
<1>2. U!Positions(U!Shown) = Words(U!Mapper)
  BY ShownIs DEF UnitInv
<1>3. U!Positions(U!Shown') = Words(U!Mapper)'
  <2>1. U!Positions(U!Shown)' = Words(U!Mapper)'
    BY <1>1, ShownIs DEF UnitInv
  <2>2. U!Positions(U!Shown)' = U!Positions(U!Shown')
    BY DEF U!Positions
  <2> QED BY <2>1, <2>2
<1>4. U!Taken = rolled + Len(promotion.promoted)
  BY TakenIs
<1>5. OnlyAdds
  <2> DEFINE a == Words(U!Mapper)
  <2>1. PICK w \in Seq(Position) : Words(U!Mapper)' = a \o w
    BY <1>1 DEF AddsToShown
  <2>2. a \in Seq(Position)
    BY WordsAre DEF UnitInv, Good, Position
  <2> HIDE DEF a
  <2>3. U!IsPrefix(a, a \o w)
    BY <2>2, PrefixOf
  <2> QED BY <1>2, <1>3, <2>1, <2>3 DEF OnlyAdds, a
<1>6. EndTakesAll
  BY <1>1, <1>3, <1>4 DEF EndsWhole, EndTakesAll, Spoken
<1> QED BY <1>5, <1>6

----------------------------------------------------------------------------
(* The parts side by side: a step of one leaves the others as they are.    *)

LEMMA PolicyInit == F!Init => PolicyInv
BY DEF F!Init, PolicyInv, Policies

LEMMA PartsInit ==
  ASSUME Init
  PROVE  AlignInv /\ WatchInv /\ FrontInv /\ LabelInv /\ PolicyInv /\ StreamerInv /\ UnitInv /\ ShownInv
BY AlignInit, WatchInit, FrontInit, LabelInit, PolicyInit, StreamInit, UnitsInit DEF Init

LEMMA WatchSame == ASSUME WatchInv, UNCHANGED watchVars PROVE WatchInv'
BY DEF watchVars, WatchInv, W!TypeOK, W!WrapperReapsChild, W!OwnerKeepsWorkers, WatchIsRight

LEMMA AlignUnchanged == ASSUME AlignInv, UNCHANGED alignVars PROVE AlignInv'
<1>1. crashed' \subseteq {"young", "old"} /\ UNCHANGED <<file, align, samples, stable, final, updates, files>>
  BY DEF alignVars, AlignInv, AlignTypes
<1> QED BY <1>1, AlignSame

LEMMA PartsStep ==
  ASSUME [Next]_<<part, streamerVars, frontendVars, unitsVars, alignVars, watchVars>>
  PROVE  /\ AlignInv => AlignInv'
         /\ WatchInv => WatchInv'
         /\ FrontInv /\ LabelInv => FrontInv' /\ LabelInv'
         /\ PolicyInv => PolicyInv' /\ (KeepsSpeech \/ UNCHANGED F!vars)
         /\ StreamerInv => StreamerInv' /\ ((KeepsPrompt /\ KeepsWords) \/ UNCHANGED Q!vars)
         /\ UnitInv => UnitInv'
         /\ UnitInv /\ ShownInv /\ RollsCoverPromotion => ShownInv' /\ OnlyAdds /\ EndTakesAll
<1>1. A!Next \/ UNCHANGED alignVars
  BY DEF Next
<1>2. W!Next \/ UNCHANGED watchVars
  BY DEF Next
<1>3. F!Next \/ UNCHANGED frontendVars
  BY DEF Next
<1>4. AlignInv => AlignInv'
  BY <1>1, AlignStep, AlignUnchanged
<1>5. WatchInv => WatchInv'
  BY <1>2, WatchStep, WatchSame
<1>6. FrontInv /\ LabelInv => FrontInv' /\ LabelInv'
  BY <1>3, FrontStep, FrontSame, LabelStep, LabelSame
<1>7. PolicyInv => PolicyInv' /\ (KeepsSpeech \/ UNCHANGED F!vars)
  BY <1>3, PolicyStep
<1>8. Q!Next \/ UNCHANGED streamerVars
  BY DEF Next
<1>9. StreamerInv => StreamerInv' /\ ((KeepsPrompt /\ KeepsWords) \/ UNCHANGED Q!vars)
  BY <1>8, StreamStep, StreamSame, StreamKeeps
<1>10. U!Next \/ UNCHANGED unitsVars
  BY DEF Next
<1>11. UnitInv => UnitInv'
  BY <1>10, UnitsStep
<1>12. UnitInv /\ ShownInv /\ RollsCoverPromotion => ShownInv' /\ OnlyAdds /\ EndTakesAll
  BY <1>10, UnitsStep, UnitsKeep
<1> QED BY <1>4, <1>5, <1>6, <1>7, <1>9, <1>11, <1>12

(* The recording of a session is gone once its alignment ended, however it *)
(* ended; every text is aligned once and within its own range, or has no   *)
(* audio (SessionAlignmentCapture); the wrapper reaps its child, and no    *)
(* worker ends while its owner lives, whatever the probes say (monitor).   *)
THEOREM NothingIsLeftBehind == Spec => []NothingStaysBehind
<1>1. AlignInv /\ WatchInv => NothingStaysBehind
  BY AlignFollows, AlignKeeps DEF NothingStaysBehind, WatchInv
<1> QED BY <1>1, PartsInit, PartsStep, PTL DEF Spec

(* A finished session has pushed exactly the samples it captured, at the   *)
(* recognizer's rate and rounded as _finalize rounds; until then what it   *)
(* holds back is bounded; the labels of the chunks follow the capture, two *)
(* frames behind at most (push_frame, InputRateAdapter, WebRtcProcessor).  *)
THEOREM AudioIsWhole == Spec => []AudioIsComplete
<1>1. FrontInv /\ LabelInv => AudioIsComplete
  BY FrontLags, LabelsFollow DEF AudioIsComplete
<1> QED BY <1>1, PartsInit, PartsStep, PTL DEF Spec

(* A segment is decoded under the context only when the decoder holds      *)
(* enough speech (prompt_template_token_ids); digital silence says nothing *)
(* and keeps no segment long; no segment is longer than the cap; a mark    *)
(* that ends what rolled was confirmed by a pause or a silence             *)
(* (PauseRollTracker, update_from_hypothesis).                             *)
THEOREM SpeechIsGuarded == Spec => []SegmentsAreGuarded
<1>1. StreamerInv => SegmentsAreGuarded
  BY StreamGuards DEF SegmentsAreGuarded
<1> QED BY <1>1, PartsInit, PartsStep, PTL DEF Spec

(* No step changes the prompt behind committed words, takes back a word    *)
(* that was shown as committed, or decides on a noise or a short pause     *)
(* that somebody speaks or has stopped (LectureSpeechPolicy.observe).      *)
THEOREM DecisionsLast == Spec => DecisionsAreKept
<1>1. (KeepsPrompt /\ KeepsWords) \/ UNCHANGED Q!vars => [KeepsPrompt]_(Q!vars) /\ [KeepsWords]_(Q!vars)
  OBVIOUS
<1>2. KeepsSpeech \/ UNCHANGED F!vars => [KeepsSpeech]_(F!vars)
  OBVIOUS
<1>3. Spec => [][KeepsPrompt]_(Q!vars) /\ [][KeepsWords]_(Q!vars) /\ [][KeepsSpeech]_(F!vars)
  BY <1>1, <1>2, PartsInit, PartsStep, PTL DEF Spec
<1> QED BY <1>3 DEF DecisionsAreKept, Q!PromptIsKept, Q!CommittedOnlyGrows, F!SpeechIsHeld,
                    KeepsPrompt, KeepsWords, KeepsSpeech

(* No caption keeps, inside it, the period the recognizer put after a      *)
(* function word; one that is held back is the last thing said; and after  *)
(* each message the open caption has no finished sentence and is not       *)
(* longer than the cap (SentenceUnitSegmenter.append, flush, expire).      *)
THEOREM UnitsWellFormed == Spec => []UnitsAreWellFormed
<1>1. UnitInv => UnitsAreWellFormed
  BY UnitsFollow
<1> QED BY <1>1, PartsInit, PartsStep, PTL DEF Spec

(* While the session is open the captions say every word that was          *)
(* committed or promoted, once and in the order it was spoken, however the *)
(* hypotheses around it changed, if what is promoted is committed in one   *)
(* piece (map_message, _promote_agreed_prefix, _reconcile_promoted).       *)
THEOREM EachWordOnce == RollsCoverPromotion => (Spec => []WordsOnce)
<1> SUFFICES ASSUME RollsCoverPromotion PROVE Spec => []WordsOnce
  OBVIOUS
<1>1. Init => UnitInv /\ ShownInv
  BY PartsInit
<1>2. UnitInv /\ ShownInv /\ [Next]_<<part, streamerVars, frontendVars, unitsVars, alignVars, watchVars>>
        => UnitInv' /\ ShownInv'
  BY PartsStep
<1>3. UnitInv /\ ShownInv => WordsOnce
  BY UnitsFollow
<1> QED BY <1>1, <1>2, <1>3, PTL DEF Spec

(* What a caption has shown is never taken back, only added to; and the    *)
(* step that finishes a session leaves nothing open and takes every word   *)
(* that was committed, promoted or in the last hypothesis (flush_events).  *)
THEOREM TextLasts == RollsCoverPromotion => (Spec => TextIsKept)
<1> SUFFICES ASSUME RollsCoverPromotion PROVE Spec => TextIsKept
  OBVIOUS
<1>1. Init => UnitInv /\ ShownInv
  BY PartsInit
<1>2. UnitInv /\ ShownInv /\ [Next]_<<part, streamerVars, frontendVars, unitsVars, alignVars, watchVars>>
        => UnitInv' /\ ShownInv' /\ OnlyAdds /\ EndTakesAll
  BY PartsStep
<1>3. OnlyAdds /\ EndTakesAll => [OnlyAdds]_(U!vars) /\ [EndTakesAll]_(U!vars)
  OBVIOUS
<1>4. Spec => [][OnlyAdds]_(U!vars) /\ [][EndTakesAll]_(U!vars)
  BY <1>1, <1>2, <1>3, PTL DEF Spec
<1> QED BY <1>4 DEF TextIsKept, U!ShownOnlyGrows, U!FinalTakesEverything, OnlyAdds, EndTakesAll
=============================================================================
