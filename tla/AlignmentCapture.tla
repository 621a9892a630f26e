-------------------------- MODULE AlignmentCapture --------------------------
(***************************************************************************)
(* SessionAlignmentCapture (service/alignment.py): the temporary recording *)
(* of a session, the ranges of its stable texts, and their alignment after *)
(* the session, which may fail, be cancelled or die with the process.      *)
(* Times are counted in samples.                                           *)
(***************************************************************************)
EXTENDS Integers, Sequences, SequencesExt, FiniteSets, FiniteSetsExt

CONSTANTS MaxSamples, MaxTexts, MaxFiles   \* bounds

VARIABLES
  file,      \* the spool file: "none", "open", "closed" or "gone"
  crashed,   \* files that crashes left: "young", or "old" after 24 hours
  files,     \* how many were created
  samples,   \* _samples_written
  stable,    \* _stable, the ranges as they were observed
  final,     \* there is a _final event
  align,     \* the alignment: its stage, the next source, and how it ended
  updates    \* the alignment_update events

vars == <<file, crashed, files, samples, stable, final, align, updates>>

NoTime == -1
Waiting == [stage |-> "waiting", next |-> 1, ok |-> FALSE]

TypeOK ==
  /\ file \in {"none", "open", "closed", "gone"} /\ crashed \subseteq {"young", "old"}
  /\ files \in 0..MaxFiles /\ samples \in 0..MaxSamples /\ final \in BOOLEAN
  /\ \A i \in DOMAIN stable : 0 <= stable[i].start /\ stable[i].start <= stable[i].end
  /\ align.stage \in {"waiting", "aligning", "ended"} /\ align.next \in 1..(MaxTexts + 1)

Init ==
  /\ file = "none" /\ crashed = {} /\ files = 0 /\ samples = 0 /\ stable = <<>> /\ final = FALSE
  /\ align = Waiting /\ updates = <<>>

\* prepare_alignment_spool_directory and a new file.
Create ==
  /\ file \in {"none", "gone"} /\ files < MaxFiles
  /\ crashed' = crashed \ {"old"} /\ file' = "open" /\ files' = files + 1
  /\ samples' = 0 /\ stable' = <<>> /\ final' = FALSE /\ align' = Waiting /\ updates' = <<>>

DayPasses ==
  /\ "young" \in crashed /\ crashed' = (crashed \ {"young"}) \cup {"old"}
  /\ UNCHANGED <<file, files, samples, stable, final, align, updates>>

WriteAudio(n) ==
  /\ file = "open" /\ samples + n <= MaxSamples /\ samples' = samples + n
  /\ UNCHANGED <<file, crashed, files, stable, final, align, updates>>

LastEnd == IF stable = <<>> THEN 0 ELSE IF Last(stable).end > 0 THEN Last(stable).end ELSE Last(stable).last
EndOf(end, cursor) == IF end # NoTime THEN end ELSE IF cursor > 0 THEN cursor ELSE samples

\* A range starts where the last one ended, unless the event says otherwise.
Ranged(start, end, cursor) ==
  LET from == IF start = NoTime THEN LastEnd ELSE start
  IN [start |-> from, end |-> Max({from, EndOf(end, cursor)}), last |-> LastEnd,
      said |-> start # NoTime]

\* observe_transcript of a STABLE event: the times the recognizers give, or none.
Observe(start, end, cursor) ==
  /\ file \in {"open", "closed"} /\ align.stage = "waiting" /\ Len(stable) < MaxTexts
  /\ stable' = Append(stable, Ranged(start, end, cursor))
  /\ UNCHANGED <<file, crashed, files, samples, final, align, updates>>

ObserveFinal ==
  /\ file \in {"open", "closed"} /\ align.stage = "waiting" /\ ~final /\ final' = TRUE
  /\ UNCHANGED <<file, crashed, files, samples, stable, align, updates>>

CloseAudio ==
  /\ file = "open" /\ file' = "closed"
  /\ UNCHANGED <<crashed, files, samples, stable, final, align, updates>>
----------------------------------------------------------------------------
(* align, after the session.                                               *)

Whole == [start |-> 0, end |-> 0]
Sources == IF stable # <<>> THEN stable ELSE IF final THEN <<Whole>> ELSE <<>>
Source == Sources[align.next]

\* _segment_audio: a text without a range is aligned with the whole recording.
HasRange(source) == source.end > source.start
Segment(source) ==
  IF HasRange(source) THEN [from |-> source.start, to |-> Min({samples, source.end})]
  ELSE [from |-> 0, to |-> samples]
IsEmpty(segment) == segment.to <= segment.from

Discard == file' = "gone"

\* The service is only called for a source with audio.
Calls == align.stage = "aligning" /\ align.next <= Len(Sources) /\ ~IsEmpty(Segment(Source))

Update == [of |-> align.next, segment |-> Segment(Source)]

StartAlign ==
  /\ file \in {"open", "closed"} /\ align.stage = "waiting"
  /\ file' = "closed" /\ align' = [align EXCEPT !.stage = "aligning"]
  /\ UNCHANGED <<crashed, files, samples, stable, final, updates>>

\* A source without audio is skipped.
AlignNext ==
  /\ align.stage = "aligning" /\ align.next <= Len(Sources)
  /\ align' = [align EXCEPT !.next = @ + 1]
  /\ updates' = IF Calls THEN Append(updates, Update) ELSE updates
  /\ UNCHANGED <<file, crashed, files, samples, stable, final>>

AlignEnds ==
  /\ align.stage = "aligning" /\ align.next > Len(Sources)
  /\ align' = [align EXCEPT !.stage = "ended", !.ok = TRUE] /\ Discard
  /\ UNCHANGED <<crashed, files, samples, stable, final, updates>>

\* Mutant: a failed alignment keeps the file.
AlignFailsKeeping ==
  /\ Calls /\ align' = [align EXCEPT !.stage = "ended"]
  /\ UNCHANGED <<file, crashed, files, samples, stable, final, updates>>

\* The model is missing or refuses the text, or the connection cancels the task.
AlignFails ==
  /\ Calls /\ align' = [align EXCEPT !.stage = "ended"] /\ Discard
  /\ UNCHANGED <<crashed, files, samples, stable, final, updates>>

\* The connection closes the session that was not finished.
CloseSession ==
  /\ file \in {"open", "closed"} /\ align.stage = "waiting"
  /\ align' = [align EXCEPT !.stage = "ended"] /\ Discard
  /\ UNCHANGED <<crashed, files, samples, stable, final, updates>>

Crash ==
  /\ file \in {"open", "closed"} /\ file' = "none" /\ crashed' = crashed \cup {"young"}
  /\ samples' = 0 /\ stable' = <<>> /\ final' = FALSE /\ align' = Waiting /\ updates' = <<>>
  /\ UNCHANGED files

\* A cursor may be ahead of the recording, which lacks what no frame carried.
Cursors == 0..(samples + 1)

Next ==
  \/ Create \/ DayPasses \/ ObserveFinal \/ CloseAudio \/ CloseSession \/ Crash
  \/ \E n \in 1..MaxSamples : WriteAudio(n)
  \/ \E start \in {NoTime} \cup Cursors, end \in {NoTime} \cup Cursors, cursor \in Cursors :
       (end # NoTime => cursor = 0) /\ Observe(start, end, cursor)
  \/ StartAlign \/ AlignNext \/ AlignEnds \/ AlignFails

Spec == Init /\ [][Next]_vars
----------------------------------------------------------------------------
(* The recording does not stay: however the alignment ended, its file is   *)
(* gone, and what a crash left does not last beyond the next session but   *)
(* for its day ("expire crash leftovers after 24 hours").                  *)
SpoolIsDiscarded == align.stage = "ended" => file \in {"gone", "none"}

(* Every text is aligned once, in order and within its own range, unless   *)
(* it has none; a text is left out only when the recording has nothing of  *)
(* it; and inferred ranges do not overlap.                                 *)
UpdatesFollowTheTexts ==
  /\ \A i, j \in DOMAIN updates : i < j => updates[i].of < updates[j].of
  /\ \A i \in DOMAIN updates :
       LET s == Sources[updates[i].of]  segment == updates[i].segment
       IN segment.from < segment.to /\ segment.to <= samples
          /\ (HasRange(s) => s.start <= segment.from /\ segment.to <= s.end)
  /\ align.ok => \A n \in DOMAIN Sources :
       n \in {updates[i].of : i \in DOMAIN updates} \/ samples <= Sources[n].start

(* The texts that say no start of their own share no audio.                *)
InferredRangesAreApart ==
  \A i, j \in DOMAIN stable : i + 1 = j /\ ~stable[j].said => stable[i].end <= stable[j].start
=============================================================================
