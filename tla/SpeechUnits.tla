---------------------------- MODULE SpeechUnits ----------------------------
(***************************************************************************)
(* streaming.py and backends/asr/local_qwen.py: how the full-state         *)
(* messages of the local recognizer become caption units.  Upstream sends  *)
(* its committed lines and an unstable buffer; the mapper takes what the   *)
(* lines grew by, promotes sentences two hypotheses agree on before they   *)
(* are committed, and the segmenter groups it all into units.              *)
(*                                                                         *)
(* Text is a sequence of tokens <<word, mark>>: the position of the word   *)
(* in the speech and what follows it.  A hypothesis also says how a word   *)
(* was heard, <<word, variant, mark>>, 1 being a rewrite.  Lengths count   *)
(* tokens where the code counts characters.                                *)
(***************************************************************************)
EXTENDS Naturals, Sequences, SequencesExt, FiniteSetsExt

CONSTANTS
  MaxWords,               \* bound: words spoken
  MaxHypothesis,          \* bound: words of the unstable buffer
  SentenceMin, ClauseMin, CapClauseMin, MaxTokens,  \* UnitClosureRules
  HoldBack,               \* character_hold_back
  Stops, Clauses,         \* words followed by a sentence or a clause mark
  Dangling,               \* function words: a period after one is an artefact
  Noise,                  \* words heard as a hallucination sanitize_committed_text drops
  RollsCoverPromotion,    \* upstream commits a promoted sentence in one piece
  Rewrites                \* a hypothesis may rewrite a word

VARIABLES
  rolled,     \* upstream: words committed
  lines,      \* _line_texts: how many words each line has
  segmenter,  \* the open unit, whether its last period is held back and since when
  promotion,  \* _buffer, _previous_buffer, _buffer_promoted
  committed,  \* committed_text, as the list of its units
  session     \* "open", "finishing", "ended" by finish_session, or "closed" without it

vars == <<rolled, lines, segmenter, promotion, committed, session>>

Marks == {"none", "stop", "clause", "artefact"}
Text  == Seq((1..MaxWords) \X Marks)
Hypothesis == Seq((1..MaxWords) \X {0, 1} \X Marks)

TypeOK ==
  /\ rolled \in 0..MaxWords /\ lines \in Seq(1..MaxWords)
  /\ segmenter.open \in Text /\ {segmenter.held, segmenter.seen} \subseteq BOOLEAN
  /\ {promotion.buffer, promotion.previous, promotion.promoted} \subseteq Hypothesis
  /\ committed \in Seq(Text) /\ session \in {"open", "finishing", "ended", "closed"}

----------------------------------------------------------------------------
(* SentenceUnitSegmenter.                                                  *)

Rest(t, k) == SubSeq(t, k + 1, Len(t))
LastMark(t) == t[Len(t)][2]
ClauseEnds(t, minimum) == {i \in minimum..Len(t) : t[i][2] = "clause"}
SentenceEnds(t) == {i \in SentenceMin..Len(t) : t[i][2] = "stop"}

\* A period after a function word at the end of the text holds the unit open.
HeldBack(t) == Len(t) >= SentenceMin /\ LastMark(t) = "artefact" /\ SentenceEnds(t) = {}

\* _closure_index: where the text closes, 0 when it stays open.  late: the unit is
\* longer than max_duration_ms.
Closure(t, late) ==
  IF SentenceEnds(t) # {} THEN Min(SentenceEnds(t))
  ELSE IF Len(t) >= ClauseMin /\ LastMark(t) = "clause" THEN Len(t)
  ELSE IF t = <<>> \/ ~(Len(t) >= MaxTokens \/ late) THEN 0
  ELSE IF ClauseEnds(t, CapClauseMin) # {} THEN Max(ClauseEnds(t, CapClauseMin))
  ELSE Len(t)

\* Mutant: artefact periods stay inside units.
TidyNothing(unit) == unit

\* _close: an artefact period inside the unit goes.
Tidy(unit) ==
  [i \in DOMAIN unit |-> IF i < Len(unit) /\ unit[i][2] = "artefact"
                         THEN <<unit[i][1], "none">> ELSE unit[i]]

\* _close_ready: the ends of the units, in order.
Cuts(t, late) ==
  LET cuts[k \in 0..Len(t)] ==
        LET closure == Closure(Rest(t, k), late /\ k = 0)
        IN IF closure = 0 THEN <<>> ELSE <<k + closure>> \o cuts[k + closure]
  IN cuts[0]

Released(t, cuts) ==
  [i \in DOMAIN cuts |-> Tidy(SubSeq(t, (IF i = 1 THEN 0 ELSE cuts[i - 1]) + 1, cuts[i]))]

\* The handlers pass a state s of the mapper along.
Opened(s, open) == [s EXCEPT !.open = open, !.held = HeldBack(open), !.seen = FALSE]

WithoutPeriod(t) == [t EXCEPT ![Len(t)] = <<@[1], "none">>]

\* append: more speech after a held-back period means it was an artefact.
AppendText(s, delta, late) ==
  LET text == (IF s.held THEN WithoutPeriod(s.open) ELSE s.open) \o delta
      cuts == Cuts(text, late)
  IN IF delta = <<>> THEN s
     ELSE IF cuts = <<>> THEN Opened(s, text)
     ELSE [Opened(s, Rest(text, Last(cuts))) EXCEPT !.units = @ \o Released(text, cuts)]

Flush(s) ==
  IF s.open = <<>> THEN [s EXCEPT !.held = FALSE]
  ELSE [Opened(s, <<>>) EXCEPT !.units = Append(@, Tidy(s.open))]

\* expire: the audio moved on past a held-back period.
Expire(s, elapsed) ==
  IF ~s.held THEN s
  ELSE IF ~s.seen THEN [s EXCEPT !.seen = TRUE]
  ELSE IF elapsed THEN Flush(s) ELSE s

----------------------------------------------------------------------------
(* WlkEventMapper.                                                         *)

\* sanitize_committed_text, and the hypothesis becomes text.
Sanitized(t) ==
  LET kept[i \in 0..Len(t)] ==
        IF i = 0 THEN <<>>
        ELSE IF t[i][1] \in Noise THEN kept[i - 1]
        ELSE Append(kept[i - 1], <<t[i][1], t[i][3]>>)
  IN kept[Len(t)]

\* Mutant: a rewritten promotion counts as new text.
ReconcileWhenEqual(s, delta) ==
  IF IsPrefix(s.promoted, delta) THEN Rest(delta, Len(s.promoted)) ELSE delta

\* _reconcile_promoted: what a commit adds to the text promoted before it.
Reconciled(s, delta) == Rest(delta, Len(s.promoted))

Grown(ls, n, new) ==
  IF new \/ ls = <<>> THEN Append(ls, n) ELSE [ls EXCEPT ![Len(ls)] = @ + n]

\* The body of map_message's loop for a line that grew by delta.
TakeLine(s, delta, new, late) ==
  LET opened == IF new /\ s.lines # <<>> /\ s.promoted = <<>> THEN Flush(s) ELSE s
      taken == AppendText(opened, Sanitized(Reconciled(s, delta)), late)
  IN IF delta = <<>> THEN s
     ELSE [taken EXCEPT !.promoted = <<>>, !.previous = <<>>,
             !.lines = Grown(@, Len(delta), new)]

Common(a, b) == Max({k \in 0..Min({Len(a), Len(b)}) : SubSeq(a, 1, k) = SubSeq(b, 1, k)})

\* _last_sentence_end: at or before limit, with text after it.
LastSentenceEnd(t, limit) ==
  Max({0} \cup {i \in 1..Min({limit, Len(t) - 1}) : t[i][3] = "stop"})

\* _promote_agreed_prefix.
Promote(s, buffer, late) ==
  LET agreed == Common(s.previous, buffer)
      upto == IF agreed <= HoldBack THEN 0 ELSE LastSentenceEnd(buffer, agreed - HoldBack)
      now == [s EXCEPT !.previous = buffer]
  IN IF HoldBack = 0 THEN s
     ELSE IF upto <= Len(s.promoted) THEN now
     ELSE AppendText([now EXCEPT !.promoted = SubSeq(buffer, 1, upto)],
                     Sanitized(SubSeq(buffer, Len(s.promoted) + 1, upto)), late)

TakeBuffer(s, buffer, late) ==
  IF buffer = s.buffer THEN s ELSE Promote([s EXCEPT !.buffer = buffer], buffer, late)

\* flush_events: the rest of the buffer is committed and the open unit closed.
Remainder(s) ==
  IF IsPrefix(s.promoted, s.buffer) THEN Rest(s.buffer, Len(s.promoted))
  ELSE Rest(s.buffer, Common(s.promoted, s.buffer))

\* Mutant: the rest of the buffer is forgotten.
FlushOpenOnly(s) == Flush([s EXCEPT !.buffer = <<>>, !.promoted = <<>>, !.previous = <<>>])

FlushEvents(s) ==
  Flush(AppendText([s EXCEPT !.buffer = <<>>, !.promoted = <<>>, !.previous = <<>>],
                   Sanitized(Remainder(s)), FALSE))

Mapper == [open |-> segmenter.open, held |-> segmenter.held, seen |-> segmenter.seen,
           buffer |-> promotion.buffer, previous |-> promotion.previous,
           promoted |-> promotion.promoted, lines |-> lines, units |-> committed]

Becomes(s) ==
  /\ segmenter' = [open |-> s.open, held |-> s.held, seen |-> s.seen]
  /\ promotion' = [buffer |-> s.buffer, previous |-> s.previous, promoted |-> s.promoted]
  /\ lines' = s.lines /\ committed' = s.units

----------------------------------------------------------------------------
(* The recognizer: words from..to, one of them possibly misheard, and an   *)
(* artefact period after the last one when that is a function word.        *)

Heard(from, to, misheard) ==
  [i \in 1..(to + 1 - from) |->
     LET n == from + i - 1
     IN <<n, IF n = misheard THEN 1 ELSE 0,
          CASE n \in Stops -> "stop" [] n \in Clauses -> "clause"
            [] n \in Dangling /\ n = to -> "artefact" [] OTHER -> "none">>]

Misheard(from, to) == {0} \cup (IF Rewrites THEN from..to ELSE {})

RollAllowed(upto) ==
  \/ upto = rolled \/ ~RollsCoverPromotion
  \/ upto >= rolled + Len(promotion.promoted)

Init ==
  /\ rolled = 0 /\ lines = <<>> /\ committed = <<>> /\ session = "open"
  /\ segmenter = [open |-> <<>>, held |-> FALSE, seen |-> FALSE]
  /\ promotion = [buffer |-> <<>>, previous |-> <<>>, promoted |-> <<>>]

\* _map_and_queue of a message: the last line grew to upto, or a new one starts there;
\* the hypothesis goes to until.
MapMessage ==
  /\ session \in {"open", "finishing"}
  /\ \E upto \in rolled..MaxWords, new, late, elapsed \in BOOLEAN :
     \E until \in upto..Min({MaxWords, upto + MaxHypothesis}) : \E misheard \in Misheard(upto + 1, until) :
       /\ RollAllowed(upto) /\ rolled' = upto
       /\ Becomes(TakeBuffer(Expire(TakeLine(Mapper, Heard(rolled + 1, upto, misheard), new, late), elapsed),
                             Heard(upto + 1, until, misheard), late))
  /\ UNCHANGED session

\* A message after the end of the session's queue is dropped.
DropMessage == session \in {"ended", "closed"} /\ UNCHANGED vars

FinishSession ==
  /\ session = "open" /\ session' = "finishing"
  /\ UNCHANGED <<rolled, lines, segmenter, promotion, committed>>

\* ready_to_stop arrived, the connection ended or the wait timed out.
FlushSession ==
  /\ session = "finishing" /\ session' = "ended"
  /\ Becomes(FlushEvents(Mapper))
  /\ UNCHANGED rolled

\* close without finish.
Close ==
  /\ session \in {"open", "finishing"} /\ session' = "closed"
  /\ UNCHANGED <<rolled, lines, segmenter, promotion, committed>>

Next == MapMessage \/ DropMessage \/ FinishSession \/ FlushSession \/ Close

Spec == Init /\ [][Next]_vars
----------------------------------------------------------------------------
Shown == FlattenSeq(committed) \o segmenter.open
Positions(t) == [i \in DOMAIN t |-> t[i][1]]
Taken == IF promotion.promoted = <<>> THEN rolled ELSE rolled + Len(promotion.promoted)
SpokenUpTo[k \in 0..MaxWords] ==
  IF k = 0 THEN <<>> ELSE IF k \in Noise THEN SpokenUpTo[k - 1] ELSE Append(SpokenUpTo[k - 1], k)

(* While the session is open, the units and the open one hold every word   *)
(* upstream committed or the mapper promoted, once and in spoken order,    *)
(* whatever was promoted early, rewritten or held back.                    *)
WordsOnce == session \in {"open", "finishing"} => Positions(Shown) = SpokenUpTo[Taken]

(* The same of the final text, which also takes the rest of the buffer.    *)
FinalWordsOnce ==
  session = "ended" => \A i, j \in DOMAIN Shown : i < j => Shown[i][1] < Shown[j][1]

(* No unit keeps an artefact period inside it, and a period that is held   *)
(* back is the last thing in the open unit.                                *)
ArtefactsAtEdges ==
  /\ \A u \in DOMAIN committed : \A i \in 1..(Len(committed[u]) - 1) : committed[u][i][2] # "artefact"
  /\ segmenter.held <=> (segmenter.open # <<>> /\ HeldBack(segmenter.open))

(* After a message no finished sentence and no over-long text stays open:  *)
(* a caption waits only for its own end.                                   *)
OpenUnitIsShort ==
  LET open == segmenter.open
  IN open # <<>> => SentenceEnds(open) = {} /\ Len(open) < MaxTokens

(* Solid text never changes and is never taken back: what was shown in     *)
(* units and in the open unit stays, and text is only added after it.      *)
ShownOnlyGrows == [][IsPrefix(Positions(Shown), Positions(Shown'))]_vars

(* A session that finishes leaves nothing open and nothing unsaid: every   *)
(* word upstream committed, promoted or in the last hypothesis is in a     *)
(* unit.                                                                   *)
FinalTakesEverything ==
  [][session' = "ended" /\ session # "ended" =>
       /\ segmenter'.open = <<>>
       /\ ToSet(Positions(Shown')) = ToSet(SpokenUpTo[Max({Taken, rolled + Len(promotion.buffer)})])]_vars
=============================================================================
