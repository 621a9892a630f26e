---------------------------- MODULE AsrDialects ----------------------------
(***************************************************************************)
(* The adapters of the cloud recognizers (backends/asr/cloud_qwen.py,      *)
(* deepgram.py, assemblyai.py, gladia.py, openai_realtime.py): how each    *)
(* turns its provider's messages into deltas, and what the base class      *)
(* makes of these.  One session on one connection.  Utterance u consists   *)
(* of the words <<u, 1>> .. <<u, Pieces>>.                                 *)
(***************************************************************************)
EXTENDS TranscriptReconciler, FiniteSets

CONSTANTS
  MaxUtterance, Pieces,   \* bounds: utterances and their words
  Providers,              \* the providers checked
  FirstComeFirst          \* a provider starts its segments' texts in their order

ASSUME DialectAssumption ==
  /\ MaxUtterance \in Nat \ {0} /\ Pieces \in Nat \ {0} /\ FirstComeFirst \in BOOLEAN
  /\ Providers \subseteq {"qwen", "deepgram", "assemblyai", "gladia", "openai"}

VARIABLES
  provider,
  speaking, spoken,  \* the utterance under way and how many of its words were confirmed
  finishing, acked,  \* _finishing, _session_finished
  committed,         \* committed text
  tail,              \* the unstable tail of the last event
  finalAt,           \* the words committed at the last FINAL
  seen,              \* _seen_chunk_ids
  open,              \* deepgram: _utterance_open
  lastTurn,          \* assemblyai: _last_final_turn_order
  segments, active,  \* openai: _segments in creation order, _active_item
  item               \* openai: what the provider did with each segment

textVars    == <<committed, tail, finalAt, seen>>
adapterVars == <<open, lastTurn, segments, active>>
speechVars  == <<speaking, spoken, item>>
vars == <<provider, speechVars, finishing, acked, textVars, adapterVars>>

Utterances == 1..MaxUtterance
NoItem == 0
Words(u, from, to) == [i \in 1..(to - from + 1) |-> <<u, from + i - 1>>]
Word == Utterances \X (1..Pieces)

TypeOK ==
  /\ provider \in Providers
  /\ speaking \in 1..(MaxUtterance + 1) /\ spoken \in 0..Pieces
  /\ {finishing, acked, open} \subseteq BOOLEAN
  /\ {committed, tail} \subseteq Seq(Word) /\ finalAt \in 0..Len(committed)
  /\ seen \subseteq Utterances \X (0..Pieces)
  /\ lastTurn \in 0..MaxUtterance /\ active \in 0..MaxUtterance
  /\ item \in [Utterances -> [state : {"none", "open", "done", "failed"}, sent : 0..Pieces]]
  /\ segments \in Seq([id : Utterances, sent : 0..Pieces, completed : BOOLEAN])

----------------------------------------------------------------------------
(* What _apply_delta does with a list of deltas, in order.                 *)

NoId == <<0, 0>>
Text(words)        == [kind |-> "text", words |-> words, id |-> NoId, keep |-> TRUE, tail |-> <<>>]
Partial(t)         == [kind |-> "text", words |-> <<>>, id |-> NoId, keep |-> FALSE, tail |-> t]
Piece(words, id)   == [kind |-> "text", words |-> words, id |-> id, keep |-> FALSE, tail |-> <<>>]
Final(words, id)   == [kind |-> "final", words |-> words, id |-> id, keep |-> FALSE, tail |-> <<>>]
Close              == Final(<<>>, NoId)
Finished           == [kind |-> "finished", words |-> <<>>, id |-> NoId, keep |-> TRUE, tail |-> <<>>]

\* Mutant: text without an id is appended, not merged.
CommitById(b, d) ==
  IF d.id = NoId THEN [b EXCEPT !.committed = @ \o d.words]
  ELSE [b EXCEPT !.committed = @ \o d.words, !.seen = @ \cup {d.id}]

\* _commit_confirmed: by id once, without an id by merging.
Commit(b, d) ==
  IF d.id = NoId THEN [b EXCEPT !.committed = MergeConfirmed(@, d.words)]
  ELSE IF d.id \in b.seen THEN b
  ELSE [b EXCEPT !.committed = @ \o d.words, !.seen = @ \cup {d.id}]

Apply(b, d) ==
  LET c == Commit(b, d)
  IN CASE d.kind = "finished" -> [b EXCEPT !.acked = TRUE]
       [] d.kind = "text"  -> [c EXCEPT !.tail = IF d.keep THEN @ ELSE d.tail]
       [] d.kind = "final" ->
            [c EXCEPT !.tail = <<>>, !.finalAt = Len(c.committed),
                      !.acked = @ \/ (provider = "openai" /\ finishing)]

\* One delta after the other.
Applied(before, deltas) ==
  LET after[n \in 0..Len(deltas)] == IF n = 0 THEN before ELSE Apply(after[n - 1], deltas[n])
  IN after[Len(deltas)]

Now == [committed |-> committed, tail |-> tail, finalAt |-> finalAt, seen |-> seen, acked |-> acked]

Receive(deltas) ==
  LET after == Applied(Now, deltas)
  IN /\ committed' = after.committed /\ tail' = after.tail /\ finalAt' = after.finalAt
     /\ seen' = after.seen /\ acked' = after.acked

Listening(p) == provider = p /\ ~acked
Speaking(p)  == Listening(p) /\ speaking <= MaxUtterance
NextUtterance == speaking' = speaking + 1 /\ spoken' = 0
\* The provider owes nothing of the utterance under way.
Quiet == spoken = 0 /\ (provider = "qwen" => tail = <<>>)

----------------------------------------------------------------------------
(* cloud_qwen: cumulative text with a stash, then the completed utterance. *)

QwenText ==
  /\ Speaking("qwen")
  /\ \E k \in spoken..Pieces, n \in 0..1 :
       /\ k + n \in 1..Pieces /\ spoken' = k
       /\ Receive(<<Text(Words(speaking, 1, k)), Partial(Words(speaking, k + 1, k + n))>>)
  /\ UNCHANGED <<provider, speaking, item, finishing, adapterVars>>

QwenCompleted ==
  /\ Speaking("qwen")
  /\ Receive(<<Final(Words(speaking, 1, Pieces), NoId)>>) /\ NextUtterance
  /\ UNCHANGED <<provider, item, finishing, adapterVars>>

----------------------------------------------------------------------------
(* deepgram: interim results, final pieces identified by their span, and   *)
(* three ways an utterance ends.                                           *)

DeepgramInterim ==
  /\ Speaking("deepgram") /\ spoken < Pieces
  /\ open' = TRUE /\ Receive(<<Partial(Words(speaking, spoken + 1, spoken + 1))>>)
  /\ UNCHANGED <<provider, speechVars, finishing, lastTurn, segments, active>>

DeepgramPiece ==
  /\ Speaking("deepgram") /\ spoken < Pieces
  /\ open' = TRUE /\ spoken' = spoken + 1
  /\ Receive(<<Piece(Words(speaking, spoken + 1, spoken + 1), <<speaking, spoken + 1>>)>>)
  /\ UNCHANGED <<provider, speaking, item, finishing, lastTurn, segments, active>>

\* Mutant: the text of the closing message is dropped.
SpeechFinalWithoutText ==
  /\ Speaking("deepgram") /\ spoken + 1 = Pieces
  /\ open' = FALSE /\ NextUtterance /\ Receive(<<Close>>)
  /\ UNCHANGED <<provider, item, finishing, lastTurn, segments, active>>

\* A final piece with speech_final closes the utterance.
DeepgramSpeechFinal ==
  /\ Speaking("deepgram") /\ spoken + 1 = Pieces
  /\ open' = FALSE /\ NextUtterance
  /\ Receive(<<Final(Words(speaking, spoken + 1, Pieces), <<speaking, Pieces>>)>>)
  /\ UNCHANGED <<provider, item, finishing, lastTurn, segments, active>>

\* An empty speech_final, or UtteranceEnd: they close an open utterance, and say nothing
\* after one that is closed.
DeepgramEnd ==
  /\ Listening("deepgram") /\ (Quiet \/ spoken = Pieces)
  /\ open' = FALSE /\ Receive(IF open THEN <<Close>> ELSE <<>>)
  /\ IF spoken = Pieces THEN NextUtterance ELSE UNCHANGED <<speaking, spoken>>
  /\ UNCHANGED <<provider, item, finishing, lastTurn, segments, active>>

\* Metadata answers CloseStream; an utterance still open is closed first.
DeepgramMetadata ==
  /\ Listening("deepgram") /\ finishing /\ (Quiet \/ spoken = Pieces)
  /\ open' = FALSE
  /\ Receive(IF open THEN <<Close, Finished>> ELSE <<Finished>>)
  /\ UNCHANGED <<provider, speechVars, finishing, lastTurn, segments, active>>

----------------------------------------------------------------------------
(* assemblyai: cumulative turns; the formatted end of turn is the final.   *)

AssemblyTurn ==
  /\ Speaking("assemblyai")
  /\ \E k \in 1..Pieces : Receive(<<Partial(Words(speaking, 1, k))>>) /\ spoken' = k
  /\ UNCHANGED <<provider, speaking, item, finishing, adapterVars>>

AssemblyTurnEnds ==
  /\ Speaking("assemblyai")
  /\ lastTurn' = speaking /\ NextUtterance
  /\ Receive(<<Final(Words(speaking, 1, Pieces), <<speaking, 0>>)>>)
  /\ UNCHANGED <<provider, item, finishing, open, segments, active>>

\* A late update or a repeat of a turn that is closed is dropped.
AssemblyStaleTurn ==
  /\ Listening("assemblyai")
  /\ \E turn \in 1..(speaking - 1) :
       Receive(IF turn <= lastTurn THEN <<>> ELSE <<Partial(Words(turn, 1, Pieces))>>)
  /\ UNCHANGED <<provider, speechVars, finishing, adapterVars>>

----------------------------------------------------------------------------
(* gladia: partial transcripts, and finals identified by the transcript.   *)

GladiaPartial ==
  /\ Speaking("gladia")
  /\ \E k \in 1..Pieces : Receive(<<Partial(Words(speaking, 1, k))>>) /\ spoken' = k
  /\ UNCHANGED <<provider, speaking, item, finishing, adapterVars>>

GladiaFinal ==
  /\ Listening("gladia")
  /\ \E u \in 1..speaking :   \* the current one, or one repeated
       /\ u <= MaxUtterance /\ (u < speaking => Quiet)
       /\ Receive(<<Final(Words(u, 1, Pieces), <<u, 0>>)>>)
       /\ IF u = speaking THEN NextUtterance ELSE UNCHANGED <<speaking, spoken>>
  /\ UNCHANGED <<provider, item, finishing, adapterVars>>

\* session.finished, Termination, post_final_transcript: after the texts.
ProviderFinished ==
  /\ provider \in {"qwen", "assemblyai", "gladia"} /\ finishing /\ ~acked /\ Quiet
  /\ Receive(<<Finished>>)
  /\ UNCHANGED <<provider, speechVars, finishing, adapterVars>>

----------------------------------------------------------------------------
(* openai_realtime: segments whose texts and completions may interleave.   *)
(* The active one is forwarded, the others are buffered.                   *)

Position(segs, id) == CHOOSE i \in 0..Len(segs) :
  IF i = 0 THEN \A j \in DOMAIN segs : segs[j].id # id ELSE segs[i].id = id

\* dict.setdefault(item_id, _Segment()), then the change.
Updated(id, sent, completed) ==
  LET new == [id |-> id, sent |-> sent, completed |-> completed]
  IN IF Position(segments, id) = 0 THEN Append(segments, new)
     ELSE [segments EXCEPT ![Position(segments, id)] = new]

\* dict.pop(item_id, None).
Without(segs, id) == IF Position(segs, id) = 0 THEN segs ELSE RemoveAt(segs, Position(segs, id))

\* _promote_next: completed segments at the head close, the first open one becomes active.
Completed(segs) == IF \E i \in DOMAIN segs : ~segs[i].completed
                   THEN (CHOOSE i \in DOMAIN segs : ~segs[i].completed
                           /\ \A j \in 1..(i - 1) : segs[j].completed) - 1
                   ELSE Len(segs)
\* Mutant: completed segments stay at the head.
PromotedFirst(segs) == segs
Promoted(segs) == SubSeq(segs, Completed(segs) + 1, Len(segs))
PromotedDeltas(segs) ==
  [i \in 1..Completed(segs) |-> Final(Words(segs[i].id, 1, segs[i].sent), NoId)]
  \o (IF Promoted(segs) # <<>> /\ Head(Promoted(segs)).sent > 0
      THEN <<Text(Words(Head(Promoted(segs)).id, 1, Head(Promoted(segs)).sent))>> ELSE <<>>)
ActiveOf(segs) == IF segs = <<>> THEN NoItem ELSE Head(segs).id

\* The server commits a segment; after the finish the last one, if there is speech left.
OpenAiCommitted ==
  /\ Listening("openai") /\ speaking <= MaxUtterance
  /\ item' = [item EXCEPT ![speaking].state = "open"]
  /\ segments' = Updated(speaking, 0, FALSE)
  /\ speaking' = speaking + 1
  /\ UNCHANGED <<provider, spoken, finishing, acked, textVars, open, lastTurn, active>>

Starts(id) ==
  /\ item[id].state = "open"
  /\ FirstComeFirst =>
       \A j \in 1..(id - 1) : item[j].sent > 0 \/ item[j].state \in {"done", "failed"}

OpenAiDelta(id) ==
  /\ Listening("openai") /\ Starts(id) /\ item[id].sent < Pieces
  /\ item' = [item EXCEPT ![id].sent = @ + 1]
  /\ segments' = Updated(id, item'[id].sent, FALSE)
  /\ active' = IF active = NoItem THEN id ELSE active
  /\ Receive(IF active' = id THEN <<Text(Words(id, 1, item'[id].sent))>> ELSE <<>>)
  /\ UNCHANGED <<provider, speaking, spoken, finishing, open, lastTurn>>

OpenAiCompleted(id) ==
  /\ Listening("openai") /\ Starts(id)
  /\ item' = [item EXCEPT ![id] = [state |-> "done", sent |-> Pieces]]
  /\ LET now == Updated(id, Pieces, TRUE)
         rest == Without(now, id)
     IN IF active \in {NoItem, id}
        THEN /\ segments' = Promoted(rest) /\ active' = ActiveOf(Promoted(rest))
             /\ Receive(<<Final(Words(id, 1, Pieces), NoId)>> \o PromotedDeltas(rest))
        ELSE segments' = now /\ UNCHANGED <<active, acked, textVars>>
  /\ UNCHANGED <<provider, speaking, spoken, finishing, open, lastTurn>>

\* The segment is dropped; if it was the last one of a finish, nothing else will come.
OpenAiFailed(id) ==
  /\ Listening("openai") /\ item[id].state = "open"
  /\ item' = [item EXCEPT ![id].state = "failed"]
  /\ LET rest == Without(segments, id)
         left == IF active = id THEN Promoted(rest) ELSE rest
         deltas == IF active = id THEN PromotedDeltas(rest) ELSE <<>>
     IN /\ segments' = left /\ active' = IF active = id THEN ActiveOf(left) ELSE active
        /\ Receive(deltas \o (IF finishing /\ left = <<>> THEN <<Finished>> ELSE <<>>))
  /\ UNCHANGED <<provider, speaking, spoken, finishing, open, lastTurn>>

\* The commit of the finish found no audio.
OpenAiCommitEmpty ==
  /\ Listening("openai") /\ finishing
  /\ Receive(IF segments # <<>> THEN <<>> ELSE <<Finished>>)
  /\ UNCHANGED <<provider, speechVars, finishing, adapterVars>>

----------------------------------------------------------------------------
Init ==
  /\ provider \in Providers
  /\ speaking = 1 /\ spoken = 0 /\ finishing = FALSE /\ acked = FALSE
  /\ committed = <<>> /\ tail = <<>> /\ finalAt = 0 /\ seen = {}
  /\ open = FALSE /\ lastTurn = 0 /\ segments = <<>> /\ active = NoItem
  /\ item = [u \in Utterances |-> [state |-> "none", sent |-> 0]]

FinishMessage ==
  /\ ~finishing /\ finishing' = TRUE
  /\ UNCHANGED <<provider, speechVars, acked, textVars, adapterVars>>

Next ==
  \/ FinishMessage \/ ProviderFinished
  \/ QwenText \/ QwenCompleted
  \/ DeepgramInterim \/ DeepgramPiece \/ DeepgramSpeechFinal \/ DeepgramEnd \/ DeepgramMetadata
  \/ AssemblyTurn \/ AssemblyTurnEnds \/ AssemblyStaleTurn
  \/ GladiaPartial \/ GladiaFinal
  \/ OpenAiCommitted \/ OpenAiCommitEmpty
  \/ \E id \in Utterances : OpenAiDelta(id) \/ OpenAiCompleted(id) \/ OpenAiFailed(id)

Spec == Init /\ [][Next]_vars
----------------------------------------------------------------------------
(* Text is committed in the order it was spoken, no word of it twice, and  *)
(* utterances never interleave ("so rows never interleave").               *)
SpokenOrder ==
  \A i, j \in DOMAIN committed : i < j =>
    \/ committed[i][1] < committed[j][1]
    \/ committed[i][1] = committed[j][1] /\ committed[i][2] < committed[j][2]

(* "close the utterance so nothing stays in the unstable tail": when the   *)
(* provider has acknowledged the end, every committed word was closed by a *)
(* FINAL and no unstable text is left.  (openai_realtime acknowledges with *)
(* a FINAL, see RemainderResolvesFinish.)                                  *)
NothingStaysUnstable ==
  acked /\ provider # "openai" => tail = <<>> /\ finalAt = Len(committed)

(* The words of an utterance its provider finished are all committed.      *)
UtterancesAreComplete ==
  provider # "openai" /\ acked =>
    \A u \in 1..(speaking - 1), k \in 1..Pieces : <<u, k>> \in ToSet(committed)

(* A buffered segment is released as soon as the earlier ones closed: what *)
(* waits, waits for one that is still open, and the active one is open.    *)
BufferedWaitsForOpen ==
  /\ active # NoItem => \E i \in DOMAIN segments : segments[i].id = active /\ ~segments[i].completed
  /\ (\E i \in DOMAIN segments : segments[i].completed) => active # NoItem

(* The types, and the buffered segments as one consistent structure.       *)
SegmentsAreTracked == TypeOK /\ BufferedWaitsForOpen

(* At the end of a session all that was spoken is committed and closed.    *)
SessionsAreComplete == NothingStaysUnstable /\ UtterancesAreComplete
=============================================================================
