------------------------- MODULE CloudStreamingAsr -------------------------
(***************************************************************************)
(* A cloud recognizer session (backends/asr/cloud_streaming.py): the       *)
(* feeder (push_audio, then finish_session and close), the receive loop    *)
(* with its reconnect and replay, the keepalive, and a provider that hears *)
(* what a live socket carries.  An action is the code between two awaits.  *)
(* Chunk c covers the time from c - 1 to c, and its text is the word c.    *)
(***************************************************************************)
EXTENDS TranscriptReconciler

CONSTANTS
  MaxChunk,       \* bound: chunks pushed
  Batch,          \* chunks that fill a batch (send_batch_samples)
  Capacity,       \* chunks the ring holds
  Overlap,        \* replay_overlap_ms
  ReplayBatch,    \* chunks of one replay message
  ReplayMerges,   \* chunks merged by overlap after a reconnect
  MaxBreak,       \* bound: connections that break
  MaxDial,        \* attempts the retry budget allows
  ChunkStyle,     \* the provider confirms pieces with an id, not cumulative text
  FinishOnFinal   \* a FINAL acknowledges the finish (openai_realtime)

ASSUME CloudAssumption ==
  /\ {MaxChunk, Batch, Capacity, ReplayBatch, MaxDial} \subseteq Nat \ {0}
  /\ {Overlap, MaxBreak, ReplayMerges} \subseteq Nat
  /\ {ChunkStyle, FinishOnFinal} \subseteq BOOLEAN
  /\ Batch <= Overlap + 2     \* send_batch_ms is 100, replay_overlap_ms is 500

VARIABLES
  pushed,     \* chunks the feeder pushed
  ring,       \* AudioRingBuffer._chunks
  pending,    \* the batch being filled
  connected,  \* the _connected event
  feeder,     \* "feed", "finish", "await", "end" or "closed"
  finishing, closing, acked,   \* _finishing, _closing, _session_finished
  receiver,   \* "recv", "backoff", "replay" or "done"
  replay,     \* what the replay has not sent yet
  dials,      \* attempts of this reconnect
  epoch,      \* _epoch
  mergeLeft,  \* _replay_merge_chunks
  seen,       \* _seen_chunk_ids; ids carry the epoch, older ones never match again
  speechEnd,  \* _last_speech_end_ms
  committed,  \* the reconciler's committed words
  told,       \* an ERROR event was emitted
  up,         \* the current socket reaches the provider
  breaks,
  heard,      \* what the provider received on this connection
  finAt,      \* how many chunks it had heard at the finish message, or Never
  utterance,  \* where its open utterance starts in heard
  said        \* how many chunks of heard it has confirmed

feederVars   == <<pushed, feeder, finishing, closing>>
audioVars    == <<ring, pending>>
linkVars     == <<connected, up, breaks>>
receiverVars == <<receiver, replay, dials, epoch>>
textVars     == <<mergeLeft, seen, committed, speechEnd>>
providerVars == <<heard, finAt, utterance, said>>
vars == <<feederVars, audioVars, linkVars, receiverVars, textVars, providerVars, acked, told>>

Chunks == 1..MaxChunk
Never  == MaxChunk * (MaxBreak + MaxDial + 2)
Minus(a, b) == IF a > b THEN a - b ELSE 0

TypeOK ==
  /\ pushed \in 0..MaxChunk /\ dials \in 0..MaxDial /\ epoch \in Nat /\ breaks \in 0..MaxBreak
  /\ {ring, pending, replay, heard, committed} \subseteq Seq(Chunks) /\ Len(ring) <= Capacity
  /\ {connected, finishing, closing, acked, told, up} \subseteq BOOLEAN
  /\ feeder \in {"feed", "finish", "await", "end", "closed"}
  /\ receiver \in {"recv", "backoff", "replay", "done"}
  /\ mergeLeft \in 0..ReplayMerges /\ speechEnd \in 0..MaxChunk
  /\ seen \subseteq Nat \X Nat
  /\ said \in 0..Len(heard)
  /\ utterance \in 1..(Len(heard) + 1) /\ finAt \in 0..Never

----------------------------------------------------------------------------
(* The ring, and committing text.                                          *)

LatestEnd == IF ring = <<>> THEN 0 ELSE Last(ring)
\* Mutant: the ring grows past its capacity.
RingAppendUntrimmed(c) == Append(ring, c)
RingAppend(c) == LET r == Append(ring, c) IN IF Len(r) > Capacity THEN Tail(r) ELSE r
\* How many of them end by t: the ring is in order.
Ended(r, t) == CHOOSE n \in 0..Len(r) : (\A i \in 1..n : r[i] <= t) /\ (n < Len(r) => r[n + 1] > t)
After(r, t) == SubSeq(r, Ended(r, t) + 1, Len(r))
Anchor == IF speechEnd = 0 THEN LatestEnd ELSE speechEnd
ReplayStart == Minus(Anchor, Overlap)

\* Mutant: a repeated id is committed again.
CommitUnseen(text, id) ==
  /\ committed' = IF ChunkStyle /\ mergeLeft = 0 THEN committed \o text
                  ELSE MergeConfirmed(committed, text)
  /\ seen' = seen \cup {id} /\ mergeLeft' = Minus(mergeLeft, 1)

\* _commit_confirmed with _merge_chunk: id identifies a chunk of a chunk-style provider.
Commit(text, id) ==
  IF ChunkStyle
  THEN /\ seen' = seen \cup {id}
       /\ mergeLeft' = IF id \in seen THEN mergeLeft ELSE Minus(mergeLeft, 1)
       /\ committed' = IF id \in seen THEN committed
                       ELSE IF mergeLeft > 0 THEN MergeConfirmed(committed, text)
                       ELSE committed \o text
  ELSE /\ committed' = MergeConfirmed(committed, text)
       /\ UNCHANGED <<seen, mergeLeft>>

----------------------------------------------------------------------------
(* A send on a live socket reaches the provider; on a broken one it raises *)
(* or disappears in the buffers of the system.                             *)

Delivers(batch) == up /\ heard' = heard \o batch
Disappears      == ~up /\ UNCHANGED heard

\* Sending under "except Exception: self._connected.clear()".
SendOrClear(batch) ==
  \/ (batch = <<>> \/ ~connected) /\ UNCHANGED <<heard, connected>>
  \/ /\ batch # <<>> /\ connected
     /\ \/ (Delivers(batch) \/ Disappears) /\ UNCHANGED connected
        \/ Disappears /\ connected' = FALSE

Init ==
  /\ pushed = 0 /\ ring = <<>> /\ pending = <<>>
  /\ connected = TRUE /\ up = TRUE /\ breaks = 0
  /\ feeder = "feed" /\ finishing = FALSE /\ closing = FALSE /\ acked = FALSE
  /\ receiver = "recv" /\ replay = <<>> /\ dials = 0 /\ epoch = 0
  /\ mergeLeft = 0 /\ seen = {} /\ committed = <<>> /\ speechEnd = 0
  /\ told = FALSE
  /\ heard = <<>> /\ finAt = Never /\ utterance = 1 /\ said = 0

PushAudio ==
  /\ feeder = "feed" /\ pushed < MaxChunk
  /\ pushed' = pushed + 1
  /\ ring' = RingAppend(pushed')
  /\ LET batch == Append(pending, pushed') IN
       IF Len(batch) < Batch
       THEN pending' = batch /\ UNCHANGED <<heard, connected>>
       ELSE pending' = <<>> /\ SendOrClear(batch)
  /\ UNCHANGED <<feeder, finishing, closing, up, breaks, receiverVars, textVars,
                 finAt, utterance, said, acked, told>>

\* The keepalive finds the socket dead.
KeepaliveFails ==
  /\ connected /\ ~up /\ ~finishing /\ ~closing
  /\ connected' = FALSE
  /\ UNCHANGED <<feederVars, audioVars, up, breaks, receiverVars, textVars, providerVars,
                 acked, told>>

----------------------------------------------------------------------------
(* finish_session and close.                                               *)

End == closing' = TRUE /\ feeder' = "end"

FinishFlush ==
  /\ feeder = "feed"
  /\ SendOrClear(pending)
  /\ pending' = <<>> /\ finishing' = TRUE
  /\ \/ connected' /\ feeder' = "finish" /\ UNCHANGED closing
     \/ ~connected' /\ End
  /\ UNCHANGED <<pushed, ring, up, breaks, receiverVars, textVars, finAt, utterance, said,
                 acked, told>>

SendFinish ==
  /\ feeder = "finish"
  /\ \/ up /\ finAt' = Len(heard) /\ feeder' = "await" /\ UNCHANGED <<closing, told>>
     \/ ~up /\ feeder' = "await" /\ UNCHANGED <<finAt, closing, told>>
     \/ ~up /\ told' = TRUE /\ End /\ UNCHANGED finAt
  /\ UNCHANGED <<pushed, finishing, audioVars, linkVars, receiverVars, textVars,
                 heard, utterance, said, acked>>

FinishWait ==
  /\ feeder = "await" /\ acked /\ End
  /\ UNCHANGED <<pushed, finishing, audioVars, linkVars, receiverVars, textVars,
                 providerVars, acked, told>>

\* Mutant: the finish waits for the acknowledgement only.
FinishWithoutTimeout == feeder = "await" /\ acked /\ FinishWait

FinishTimeout ==
  /\ feeder = "await" /\ told' = TRUE /\ End
  /\ UNCHANGED <<pushed, finishing, audioVars, linkVars, receiverVars, textVars,
                 providerVars, acked>>

\* close() after the finish, or of a session given up: the receive loop is cancelled.
Close ==
  /\ feeder \in {"feed", "end"}
  /\ feeder' = "closed" /\ closing' = TRUE /\ receiver' = "done" /\ up' = FALSE
  /\ replay' = <<>> /\ dials' = 0
  /\ UNCHANGED <<pushed, finishing, audioVars, connected, breaks, epoch, textVars,
                 providerVars, acked, told>>

----------------------------------------------------------------------------
(* The receive loop while messages arrive.                                 *)

Receiving == receiver = "recv" /\ up /\ ~closing

RecvText ==
  /\ Receiving
  /\ \E k \in (said + 1)..Len(heard) :
       /\ Commit(SubSeq(heard, IF ChunkStyle THEN said + 1 ELSE utterance, k),
                 <<said, k>>)
       /\ said' = k
  /\ UNCHANGED <<feederVars, audioVars, linkVars, receiverVars, speechEnd, heard, finAt,
                 utterance, acked, told>>

\* A provider repeats a piece it confirmed before.
RecvRepeated ==
  /\ Receiving /\ ChunkStyle
  /\ \E id \in seen : Commit(SubSeq(heard, id[1] + 1, id[2]), id)
  /\ UNCHANGED <<feederVars, audioVars, linkVars, receiverVars, speechEnd, providerVars,
                 acked, told>>

\* Ends of speech do not go back on a connection; the replay of a new one may report
\* an earlier end again.
Follows(t) == t # 0 /\ (t >= speechEnd \/ (epoch > 0 /\ utterance = 1))

\* An end of speech with the provider's time, or without one at the latest the ring knows.
RecvSpeechStopped ==
  /\ Receiving
  /\ \E t \in ToSet(heard) \cup {LatestEnd} : Follows(t) /\ speechEnd' = t
  /\ UNCHANGED <<feederVars, audioVars, linkVars, receiverVars, mergeLeft, seen, committed,
                 providerVars, acked, told>>

\* Mutant: audio is dropped up to the newest chunk, not to the last end of speech.
CutoffAtLatest == Minus(LatestEnd, Overlap)
Cutoff == Minus(speechEnd', Overlap)

FinalAcknowledges == FinishOnFinal /\ finishing

\* FINAL: the utterance closes with its text, the audio before the last speech end goes.
\* Providers report an end of speech before their first FINAL or with it.
RecvFinal ==
  /\ Receiving
  /\ \E k \in said..Len(heard) :
       /\ k >= utterance
       /\ IF ChunkStyle /\ k = said
          THEN UNCHANGED <<committed, seen, mergeLeft>>
          ELSE Commit(SubSeq(heard, IF ChunkStyle THEN said + 1 ELSE utterance, k),
                      <<said, k>>)
       /\ \E t \in {speechEnd, heard[k]} : Follows(t) /\ speechEnd' = t
       /\ said' = k /\ utterance' = k + 1
  /\ ring' = After(ring, Cutoff)
  /\ acked' = (acked \/ FinalAcknowledges)
  /\ UNCHANGED <<feederVars, pending, linkVars, receiverVars, heard, finAt, told>>

\* The provider acknowledges the end: it has closed every utterance it heard.
RecvFinished ==
  /\ Receiving
  /\ finAt # Never /\ utterance > Len(heard)
  /\ acked' = TRUE
  /\ UNCHANGED <<feederVars, audioVars, linkVars, receiverVars, textVars, providerVars, told>>

RecvError ==
  /\ Receiving /\ told' = TRUE
  /\ UNCHANGED <<feederVars, audioVars, linkVars, receiverVars, textVars, providerVars, acked>>

----------------------------------------------------------------------------
(* Outages.                                                                *)

Break ==
  /\ up /\ breaks < MaxBreak
  /\ up' = FALSE /\ breaks' = breaks + 1
  /\ UNCHANGED <<feederVars, audioVars, connected, receiverVars, textVars, providerVars,
                 acked, told>>

\* recv raises: _reconnect, which gives up when the session is finishing.
ConnectionLost ==
  /\ receiver = "recv" /\ ~up /\ ~closing
  /\ connected' = FALSE
  /\ IF finishing
     THEN /\ receiver' = "done"
          /\ acked' = (acked \/ FinishOnFinal)
          /\ told' \in {told, told \/ FinishOnFinal}
          /\ UNCHANGED dials
     ELSE receiver' = "backoff" /\ dials' = 0 /\ UNCHANGED <<acked, told>>
  /\ UNCHANGED <<feederVars, audioVars, up, breaks, replay, epoch, textVars, providerVars>>

\* The loop sees closing and ends.
ReceiverStops ==
  /\ receiver = "recv" /\ closing
  /\ receiver' = "done"
  /\ UNCHANGED <<feederVars, audioVars, linkVars, replay, dials, epoch, textVars,
                 providerVars, acked, told>>

\* A connection opens: a new epoch, a provider that heard nothing, and the replay.
DialSucceeds ==
  /\ receiver = "backoff" /\ dials < MaxDial
  /\ epoch' = epoch + 1
  /\ connected' = TRUE /\ up' = TRUE
  /\ mergeLeft' = ReplayMerges /\ seen' = {}
  /\ heard' = <<>> /\ finAt' = Never /\ utterance' = 1 /\ said' = 0
  /\ replay' = After(ring, ReplayStart)
  /\ IF replay' = <<>>
     THEN receiver' = "recv" /\ pending' = <<>> /\ dials' = 0
     ELSE receiver' = "replay" /\ dials' = dials + 1 /\ UNCHANGED pending
  /\ UNCHANGED <<feederVars, ring, breaks, committed, speechEnd, acked, told>>

DialFails ==
  /\ receiver = "backoff" /\ dials < MaxDial
  /\ dials' = dials + 1
  /\ UNCHANGED <<feederVars, audioVars, linkVars, receiver, replay, epoch, textVars,
                 providerVars, acked, told>>

\* The budget is spent, or the provider refused the key.
GiveUp ==
  /\ receiver = "backoff"
  /\ receiver' = "done" /\ told' = TRUE /\ dials' = 0
  /\ UNCHANGED <<feederVars, audioVars, linkVars, replay, epoch, textVars,
                 providerVars, acked>>

ReplaySend ==
  /\ receiver = "replay" /\ replay # <<>>
  /\ LET n == IF Len(replay) < ReplayBatch THEN Len(replay) ELSE ReplayBatch IN
       \/ /\ Delivers(SubSeq(replay, 1, n)) \/ Disappears
          /\ replay' = SubSeq(replay, n + 1, Len(replay))
          /\ UNCHANGED receiver
       \/ Disappears /\ receiver' = "backoff" /\ replay' = <<>>
  /\ UNCHANGED <<feederVars, audioVars, linkVars, dials, epoch, textVars, finAt, utterance,
                 said, acked, told>>

ReplayDone ==
  /\ receiver = "replay" /\ replay = <<>>
  /\ receiver' = "recv" /\ pending' = <<>> /\ dials' = 0
  /\ UNCHANGED <<feederVars, ring, linkVars, replay, epoch, textVars, providerVars,
                 acked, told>>

Reconnect == DialSucceeds \/ DialFails \/ GiveUp \/ ReplaySend \/ ReplayDone
Receive == RecvText \/ RecvRepeated \/ RecvSpeechStopped \/ RecvFinal \/ RecvFinished \/ RecvError
Finish == FinishFlush \/ SendFinish \/ FinishWait \/ FinishTimeout

Next == \/ PushAudio \/ KeepaliveFails \/ Finish \/ Close
        \/ Receive \/ Break \/ ConnectionLost \/ ReceiverStops \/ Reconnect

Spec == Init /\ [][Next]_vars

(* finish_session runs on, its wait has a timeout; the retry policy has a  *)
(* budget.  Nothing is assumed of the provider or the network.             *)
Fairness ==
  /\ WF_vars(SendFinish) /\ WF_vars(FinishWait) /\ WF_vars(FinishTimeout)
  /\ WF_vars(Reconnect)

FairSpec == Spec /\ Fairness
----------------------------------------------------------------------------
(* Until a connection breaks the provider hears every chunk once and in    *)
(* order, and all that was pushed before the finish message.               *)
FirstConnectionIsGapless ==
  epoch = 0 =>
    /\ \A i \in DOMAIN heard : heard[i] = i
    /\ finAt # Never => Len(heard) = pushed

(* Text of one connection is committed once, whatever the provider repeats *)
(* and however it cuts its pieces.                                         *)
WordsOnceWithoutReconnect ==
  epoch = 0 => \A i \in DOMAIN committed : committed[i] = i

(* Audio after the last reported end of speech stays in the ring until a   *)
(* reconnect may need it, unless the ring overflowed.                      *)
RingKeepsOpenSpeech ==
  speechEnd > 0 => \A c \in (speechEnd + 1)..pushed : c > Minus(pushed, Capacity) => c \in ToSet(ring)

(* An acknowledged finish loses nothing: what the provider heard before    *)
(* the finish message is committed text when finish_session returns.       *)
AckedFinishIsComplete ==
  feeder = "end" /\ acked /\ ~told /\ finAt # Never
    => \A i \in 1..finAt : heard[i] \in ToSet(committed)

(* finish_session returns, whatever the provider does.                     *)
FinishReturns == (feeder \in {"finish", "await"}) ~> (feeder = "end")

(* An outage ends: in a session that hears again or in a reported error.   *)
OutageEnds == (receiver \in {"backoff", "replay"}) ~> (receiver \in {"recv", "done"})

(* While a connection lasts its provider hears all of the audio, and what  *)
(* a reconnect may need is kept for it.                                    *)
AudioReachesProvider == FirstConnectionIsGapless /\ RingKeepsOpenSpeech

(* What a provider heard becomes committed text once, and stays it.        *)
TextIsComplete == WordsOnceWithoutReconnect /\ AckedFinishIsComplete

(* Neither the finish nor an outage waits for a provider for ever.         *)
RecognizerReturns == FinishReturns /\ OutageEnds
=============================================================================
