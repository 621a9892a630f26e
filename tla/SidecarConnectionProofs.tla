----------------------- MODULE SidecarConnectionProofs -----------------------
(***************************************************************************)
(* Proofs about SidecarConnection, for any number of sessions and events.  *)
(*                                                                         *)
(* Invariants on top of the types.  ControlInv ties the loop to the        *)
(* session it works on: what runs belongs to self.session, and what has    *)
(* its alignment started is over.  QueueInv follows the session events     *)
(* through the queue: where session_finished stands, that session's        *)
(* alignment was started, so nothing of it can be produced any more.       *)
(* ReleaseInv follows what a session holds: backends and a spool belong to *)
(* the session in use or under construction, to a start that failed, or to *)
(* an alignment under way.                                                 *)
(***************************************************************************)
EXTENDS SidecarConnection, FiniteSetTheorems, SequenceTheorems, TLAPS

USE SidecarAssumption DEF SidecarAssumption, Sessions, NoSession, Started

Object ==
  [consumer : {"none", "running", "ended"}, translator : {"none", "running", "ended"},
   backends : SUBSET {"asr", "translation"}, spool : {"none", "open", "closed", "gone"},
   failed : BOOLEAN, transcripts : 0..MaxEmits, translations : 0..MaxEmits]
SessionEvent == [kind : SessionKinds, of : Sessions]

ObjectsOK == sessions \in Seq(Object) /\ Len(sessions) <= MaxSessions
LoopOK == socket \in {"open", "broken"} /\ loop \in Loops /\ current \in 0..Len(sessions)
AlignOK == align \in [Sessions -> {"none", "running", "ended"}]
QueueOK == events \in Seq(SessionEvent) /\ finished \subseteq Sessions

LEMMA TypeParts == TypeOK <=> ObjectsOK /\ LoopOK /\ AlignOK /\ QueueOK
BY DEF TypeOK, ObjectsOK, LoopOK, AlignOK, QueueOK, Object, SessionEvent

\* A session's record changes and stays one; the number of sessions stays.
LEMMA ObjectChanges ==
  ASSUME ObjectsOK, NEW s \in Started, NEW object \in Object,
         sessions' = [sessions EXCEPT ![s] = object]
  PROVE  ObjectsOK' /\ Len(sessions') = Len(sessions) /\ s \in Sessions
BY DEF ObjectsOK

\* A session event is appended, or the head is sent.
LEMMA EventAppended ==
  ASSUME QueueOK, NEW s \in Sessions, NEW kind \in SessionKinds, Emits(s, kind), finished' = finished
  PROVE  QueueOK'
BY DEF QueueOK, Emits, Event, SessionEvent

LEMMA InitType == Init => TypeOK
<1> SUFFICES ASSUME Init PROVE TypeOK
  OBVIOUS
<1>1. ObjectsOK /\ LoopOK
  BY DEF Init, ObjectsOK, LoopOK, Loops
<1>2. AlignOK
  BY DEF Init, AlignOK
<1>3. QueueOK
  BY DEF Init, QueueOK
<1> QED BY <1>1, <1>2, <1>3, TypeParts

\* The steps that only move the loop or the socket.
LoopSteps ==
  Hello \/ Invalid \/ PlanOrProbe \/ PauseOrResume \/ Audio \/ FinishSession \/ FinishAsr
  \/ FinishConsumer \/ SocketBreaks \/ LoopEnds \/ TeardownDone
LEMMA LoopStep ==
  ASSUME TypeOK, LoopSteps
  PROVE  /\ UNCHANGED <<current, sessions, align, events, finished>>
         /\ socket' \in {"open", "broken"} /\ loop' \in Loops
         /\ loop' \in {"building", "translation", "asr"} => loop' = loop
         /\ loop' \in {"finishing", "consumer", "draining"} =>
              loop \in {"finishing", "consumer", "draining"} \/ current # NoSession
BY DEF LoopSteps, Hello, Invalid, PlanOrProbe, PauseOrResume, Audio, FinishSession, FinishAsr, FinishConsumer,
       SocketBreaks, LoopEnds, TeardownDone, Fails, Idle, connVars, TypeOK, Loops

LEMMA TypePartsNext ==
  ASSUME ObjectsOK', LoopOK', AlignOK', QueueOK'
  PROVE  TypeOK'
BY DEF TypeOK, ObjectsOK, LoopOK, AlignOK, QueueOK, Object, SessionEvent

\* The session being built exists and self.session is not set yet; a finish has a session.
CreatingLoop == {"building", "translation", "asr"}
FinishLoop == {"finishing", "consumer", "draining"}
LoopFits ==
  /\ loop \in CreatingLoop => Len(sessions) > 0 /\ current = NoSession
  /\ loop \in FinishLoop => current # NoSession
TypeInv == TypeOK /\ LoopFits

LEMMA LoopStepType == ASSUME TypeInv, LoopSteps PROVE TypeInv'
<1>1. ObjectsOK /\ LoopOK /\ AlignOK /\ QueueOK
  BY TypeParts DEF TypeInv
<1>2. /\ UNCHANGED <<current, sessions, align, events, finished>>
      /\ socket' \in {"open", "broken"} /\ loop' \in Loops
  BY LoopStep DEF TypeInv
<1>3. TypeOK'
  BY <1>1, <1>2, TypePartsNext DEF ObjectsOK, LoopOK, AlignOK, QueueOK
<1>4. LoopFits'
  BY <1>2, LoopStep DEF TypeInv, LoopFits, CreatingLoop, FinishLoop
<1> QED BY <1>3, <1>4 DEF TypeInv

LEMMA StartSessionType == ASSUME TypeInv, StartSession PROVE TypeInv'
<1> DEFINE object == [consumer |-> "none", translator |-> "none", backends |-> {}, spool |-> "none",
                      failed |-> FALSE, transcripts |-> 0, translations |-> 0]
<1>0. ObjectsOK /\ LoopOK /\ AlignOK /\ QueueOK
  BY TypeParts DEF TypeInv
<1>1. object \in Object
  BY DEF Object
<1>2. UNCHANGED <<socket, current, align, events, finished>>
  BY DEF StartSession
<1>3. CASE current # NoSession
  <2>1. loop' = "ending" /\ sessions' = sessions
    BY <1>3 DEF StartSession, Fails
  <2>2. TypeOK'
    BY <1>0, <1>2, <2>1, TypePartsNext DEF ObjectsOK, LoopOK, AlignOK, QueueOK, Loops
  <2> QED BY <2>1, <2>2 DEF TypeInv, LoopFits, CreatingLoop, FinishLoop
<1>4. CASE current = NoSession
  <2>1. loop' = "building" /\ sessions' = Append(sessions, object) /\ Len(sessions) < MaxSessions
    BY <1>4 DEF StartSession
  <2> HIDE DEF object
  <2>2. ObjectsOK' /\ Len(sessions') = Len(sessions) + 1 /\ Len(sessions) \in Nat
    BY <1>0, <1>1, <2>1 DEF ObjectsOK
  <2>3. TypeOK'
    BY <1>0, <1>2, <1>4, <2>1, <2>2, TypePartsNext DEF LoopOK, AlignOK, QueueOK, Loops
  <2> QED BY <1>2, <1>4, <2>1, <2>2, <2>3 DEF TypeInv, LoopFits, CreatingLoop, FinishLoop
<1> QED BY <1>3, <1>4

\* A step that changes the record of one session.
LEMMA ObjectStep ==
  ASSUME TypeInv, NEW s \in Started, NEW object \in Object, sessions' = [sessions EXCEPT ![s] = object],
         AlignOK', socket' = socket, QueueOK', loop' \in Loops, current' \in 0..Len(sessions),
         loop' \in CreatingLoop => current' = NoSession, loop' \in FinishLoop => current' # NoSession
  PROVE  TypeInv'
<1>0. ObjectsOK /\ LoopOK
  BY TypeParts DEF TypeInv
<1>1. ObjectsOK' /\ Len(sessions') = Len(sessions) /\ Len(sessions) > 0
  BY <1>0, ObjectChanges DEF ObjectsOK
<1>2. LoopOK'
  BY <1>0, <1>1 DEF LoopOK
<1> QED BY <1>1, <1>2, TypePartsNext DEF TypeInv, LoopFits

LEMMA CreatingType == ASSUME TypeInv, Creating PROVE TypeInv'
<1>0. ObjectsOK /\ LoopOK /\ AlignOK /\ QueueOK
  BY TypeParts DEF TypeInv
<1>1. loop \in CreatingLoop
  BY DEF Creating, CreateFails, CreateBuilds, StartTranslation, StartAsr, CreatingLoop
<1>2. New \in Started /\ sessions[New] \in Object /\ current = NoSession /\ New \in Nat
  BY <1>0, <1>1 DEF New, ObjectsOK, TypeInv, LoopFits
<1>3. CASE CreateFails
  <2> DEFINE object == [sessions[New] EXCEPT !.failed = TRUE]
  <2>1. object \in Object
    BY <1>2 DEF Object
  <2>2. sessions' = [sessions EXCEPT ![New] = object]
    BY <1>2, <1>3 DEF CreateFails
  <2>3. loop' = "ending" /\ UNCHANGED <<socket, current, align, events, finished>>
    BY <1>3 DEF CreateFails, Fails
  <2>4. QueueOK' /\ AlignOK'
    BY <1>0, <2>3 DEF QueueOK, AlignOK
  <2> HIDE DEF object
  <2> QED BY <1>0, <1>2, <2>1, <2>2, <2>3, <2>4, ObjectStep DEF LoopOK, Loops, CreatingLoop, FinishLoop
<1>4. CASE CreateBuilds
  <2>1. PICK spool \in {"none", "open"} : sessions' = [sessions EXCEPT ![New].spool = spool]
    BY <1>4 DEF CreateBuilds
  <2> DEFINE object == [sessions[New] EXCEPT !.spool = spool]
  <2>2. object \in Object
    BY <1>2 DEF Object
  <2>3. sessions' = [sessions EXCEPT ![New] = object]
    BY <1>2, <2>1
  <2>4. loop' = "translation" /\ UNCHANGED <<socket, current, align, events, finished>>
    BY <1>4 DEF CreateBuilds
  <2>5. QueueOK' /\ AlignOK'
    BY <1>0, <2>4 DEF QueueOK, AlignOK
  <2> HIDE DEF object
  <2> QED BY <1>0, <1>2, <2>2, <2>3, <2>4, <2>5, ObjectStep DEF LoopOK, Loops, CreatingLoop, FinishLoop
<1>5. CASE StartTranslation
  <2>1. PICK some \in BOOLEAN :
          sessions' = [sessions EXCEPT ![New].backends = IF some THEN {"translation"} ELSE {}]
    BY <1>5 DEF StartTranslation
  <2> DEFINE object == [sessions[New] EXCEPT !.backends = IF some THEN {"translation"} ELSE {}]
  <2>2. object \in Object
    BY <1>2 DEF Object
  <2>3. sessions' = [sessions EXCEPT ![New] = object]
    BY <1>2, <2>1
  <2>4. loop' = "asr" /\ UNCHANGED <<socket, current, align, events, finished>>
    BY <1>5 DEF StartTranslation
  <2>5. QueueOK' /\ AlignOK'
    BY <1>0, <2>4 DEF QueueOK, AlignOK
  <2> HIDE DEF object
  <2> QED BY <1>0, <1>2, <2>2, <2>3, <2>4, <2>5, ObjectStep DEF LoopOK, Loops, CreatingLoop, FinishLoop
<1>6. CASE StartAsr
  <2> DEFINE object ==
        [sessions[New] EXCEPT !.backends = @ \cup {"asr"}, !.consumer = "running",
           !.translator = IF "translation" \in sessions[New].backends THEN "running" ELSE "none"]
  <2>1. object \in Object
    BY <1>2 DEF Object
  <2>2. sessions' = [sessions EXCEPT ![New] = object]
    BY <1>2, <1>6 DEF StartAsr
  <2>3. loop' \in {"ending", "idle"} /\ current' = New /\ UNCHANGED <<socket, align, events, finished>>
    BY <1>6 DEF StartAsr
  <2>4. QueueOK' /\ AlignOK'
    BY <1>0, <2>3 DEF QueueOK, AlignOK
  <2>5. current' \in 0..Len(sessions)
    BY <1>2, <2>3 DEF New
  <2> HIDE DEF object
  <2> QED BY <1>2, <2>1, <2>2, <2>3, <2>4, <2>5, ObjectStep DEF Loops, CreatingLoop, FinishLoop
<1> QED BY <1>3, <1>4, <1>5, <1>6 DEF Creating

\* A session task writes an event of its session, or ends.
LEMMA SessionTaskType == ASSUME TypeInv, NEW s \in Started, SessionTasks(s) PROVE TypeInv'
<1>0. ObjectsOK /\ LoopOK /\ AlignOK /\ QueueOK
  BY TypeParts DEF TypeInv
<1>1. sessions[s] \in Object /\ s \in Sessions
  BY <1>0 DEF ObjectsOK
<1>2. UNCHANGED <<socket, loop, current, align, finished>>
  BY DEF SessionTasks, Transcript, Translation, ConsumerEnds, TranslatorEnds, connVars
<1>3. AlignOK' /\ loop' \in Loops /\ current' \in 0..Len(sessions)
      /\ (loop' \in CreatingLoop => current' = NoSession) /\ (loop' \in FinishLoop => current' # NoSession)
  BY <1>0, <1>2 DEF AlignOK, LoopOK, TypeInv, LoopFits
<1>4. CASE Transcript(s)
  <2> DEFINE object == [sessions[s] EXCEPT !.transcripts = @ + 1]
  <2>1. object \in Object
    BY <1>1, <1>4 DEF Transcript, Object
  <2>2. sessions' = [sessions EXCEPT ![s] = object]
    BY <1>4 DEF Transcript
  <2>3. QueueOK'
    <3>1. Emits(s, "transcript") /\ "transcript" \in SessionKinds
      BY <1>4 DEF Transcript, SessionKinds
    <3> QED BY <1>0, <1>1, <1>2, <3>1, EventAppended
  <2> HIDE DEF object
  <2> QED BY <1>2, <1>3, <2>1, <2>2, <2>3, ObjectStep
<1>5. CASE Translation(s)
  <2> DEFINE object == [sessions[s] EXCEPT !.translations = @ + 1]
  <2>1. object \in Object
    BY <1>1, <1>5 DEF Translation, Object
  <2>2. sessions' = [sessions EXCEPT ![s] = object]
    BY <1>5 DEF Translation
  <2>3. QueueOK'
    <3>1. Emits(s, "translation") /\ "translation" \in SessionKinds
      BY <1>5 DEF Translation, SessionKinds
    <3> QED BY <1>0, <1>1, <1>2, <3>1, EventAppended
  <2> HIDE DEF object
  <2> QED BY <1>2, <1>3, <2>1, <2>2, <2>3, ObjectStep
<1>6. CASE ConsumerEnds(s) \/ TranslatorEnds(s)
  <2>1. PICK object \in Object : sessions' = [sessions EXCEPT ![s] = object]
    <3>1. [sessions[s] EXCEPT !.consumer = "ended"] \in Object
      BY <1>1 DEF Object
    <3>2. [sessions[s] EXCEPT !.translator = "ended"] \in Object
      BY <1>1 DEF Object
    <3> QED BY <1>6, <3>1, <3>2 DEF ConsumerEnds, TranslatorEnds
  <2>2. QueueOK'
    BY <1>0, <1>6 DEF QueueOK, ConsumerEnds, TranslatorEnds
  <2> QED BY <1>2, <1>3, <2>1, <2>2, ObjectStep
<1> QED BY <1>4, <1>5, <1>6 DEF SessionTasks

\* What closing a session leaves of its record.
LEMMA ClosedIsObject ==
  ASSUME NEW object \in Object
  PROVE  /\ ClosedSession(object) \in Object /\ DiscardedSession(object) \in Object
         /\ ClosedSession(object).consumer # "running" /\ ClosedSession(object).translator # "running"
         /\ DiscardedSession(object).consumer # "running" /\ DiscardedSession(object).translator # "running"
<1>1. /\ ClosedSession(object) \in Object
      /\ ClosedSession(object).consumer # "running" /\ ClosedSession(object).translator # "running"
  BY DEF ClosedSession, Object
<1> DEFINE closed == ClosedSession(object)
<1> HIDE DEF closed
<1>2. closed \in Object /\ closed.consumer # "running" /\ closed.translator # "running"
  BY <1>1 DEF closed
<1>3. DiscardedSession(object) = [closed EXCEPT !.spool = IF @ = "none" THEN @ ELSE "gone"]
  BY DEF DiscardedSession, closed
<1>4. /\ DiscardedSession(object) \in Object
      /\ DiscardedSession(object).consumer = closed.consumer
      /\ DiscardedSession(object).translator = closed.translator
  BY <1>2, <1>3 DEF Object
<1> QED BY <1>1, <1>2, <1>4

LEMMA FinishStepType ==
  ASSUME TypeInv, DrainBudgetEnds \/ FinishCloses \/ FinishTimesOut
  PROVE  TypeInv'
<1>0. ObjectsOK /\ LoopOK /\ AlignOK /\ QueueOK
  BY TypeParts DEF TypeInv
<1>1. loop \in FinishLoop
  BY DEF DrainBudgetEnds, FinishCloses, FinishTimesOut, FinishLoop
<1>2. current \in Started /\ current \in Sessions /\ sessions[current] \in Object
  BY <1>0, <1>1 DEF LoopOK, ObjectsOK, TypeInv, LoopFits
<1>3. CASE DrainBudgetEnds
  <2> DEFINE object == [sessions[current] EXCEPT !.translator = "ended"]
  <2>1. object \in Object
    BY <1>2 DEF Object
  <2>2. sessions' = [sessions EXCEPT ![current] = object] /\ UNCHANGED <<socket, loop, current, align, events, finished>>
    BY <1>3 DEF DrainBudgetEnds, connVars
  <2>3. QueueOK' /\ AlignOK'
    BY <1>0, <2>2 DEF QueueOK, AlignOK
  <2> HIDE DEF object
  <2> QED BY <1>0, <1>2, <2>1, <2>2, <2>3, ObjectStep DEF LoopOK, TypeInv, LoopFits
<1>4. CASE FinishCloses
  <2>1. ClosedSession(sessions[current]) \in Object
    BY <1>2, ClosedIsObject
  <2>2. /\ sessions' = [sessions EXCEPT ![current] = ClosedSession(sessions[current])]
        /\ loop' = "idle" /\ current' = NoSession /\ socket' = socket
    BY <1>4 DEF FinishCloses
  <2>3. QueueOK'
    <3>1. Emits(current, "finished") /\ finished' = finished /\ "finished" \in SessionKinds
      BY <1>4 DEF FinishCloses, SessionKinds
    <3> QED BY <1>0, <1>2, <3>1, EventAppended
  <2>4. AlignOK'
    BY <1>0, <1>4 DEF FinishCloses, AlignOK
  <2>5. current' \in 0..Len(sessions)
    BY <1>0, <2>2 DEF LoopOK, ObjectsOK
  <2> QED BY <1>2, <2>1, <2>2, <2>3, <2>4, <2>5, ObjectStep DEF Loops, CreatingLoop, FinishLoop
<1>5. CASE FinishTimesOut
  <2> DEFINE object == [sessions[current] EXCEPT !.consumer = IF loop = "consumer" THEN "ended" ELSE @]
  <2>1. object \in Object
    BY <1>2 DEF Object
  <2>2. /\ sessions' = [sessions EXCEPT ![current] = object]
        /\ loop' = "ending" /\ UNCHANGED <<socket, current, align, events, finished>>
    BY <1>5 DEF FinishTimesOut, Fails
  <2>3. QueueOK' /\ AlignOK'
    BY <1>0, <2>2 DEF QueueOK, AlignOK
  <2> HIDE DEF object
  <2> QED BY <1>0, <1>2, <2>1, <2>2, <2>3, ObjectStep DEF LoopOK, Loops, CreatingLoop, FinishLoop
<1> QED BY <1>3, <1>4, <1>5

LEMMA AlignEndsType == ASSUME TypeInv, NEW s \in Started, AlignEnds(s) PROVE TypeInv'
<1>0. ObjectsOK /\ LoopOK /\ AlignOK /\ QueueOK
  BY TypeParts DEF TypeInv
<1> DEFINE object == [sessions[s] EXCEPT !.spool = IF @ = "none" THEN @ ELSE "gone"]
<1>1. object \in Object
  <2>1. sessions[s] \in Object
    BY <1>0 DEF ObjectsOK
  <2> QED BY <2>1 DEF Object
<1>2. sessions' = [sessions EXCEPT ![s] = object] /\ UNCHANGED <<socket, loop, current, events, finished>>
  BY DEF AlignEnds, connVars
<1>3. QueueOK' /\ AlignOK'
  BY <1>0, <1>2 DEF QueueOK, AlignOK, AlignEnds
<1> HIDE DEF object
<1> QED BY <1>0, <1>1, <1>2, <1>3, ObjectStep DEF LoopOK, TypeInv, LoopFits

LEMMA SendType == ASSUME TypeInv, Send PROVE TypeInv'
<1>0. ObjectsOK /\ LoopOK /\ AlignOK /\ QueueOK
  BY TypeParts DEF TypeInv
<1>1. Head(events) \in SessionEvent /\ Tail(events) \in Seq(SessionEvent)
  BY <1>0 DEF Send, QueueOK
<1>2. QueueOK'
  BY <1>0, <1>1 DEF Send, QueueOK, SessionEvent
<1>3. ObjectsOK' /\ LoopOK' /\ AlignOK' /\ LoopFits'
  BY <1>0 DEF Send, connVars, ObjectsOK, LoopOK, AlignOK, TypeInv, LoopFits
<1> QED BY <1>2, <1>3, TypePartsNext DEF TypeInv

LEMMA TeardownType == ASSUME TypeInv, TeardownSession PROVE TypeInv'
<1>0. ObjectsOK /\ LoopOK /\ AlignOK /\ QueueOK
  BY TypeParts DEF TypeInv
<1>1. \A s \in Started : sessions[s] \in Object /\ DiscardedSession(sessions[s]) \in Object
  BY <1>0, ClosedIsObject DEF ObjectsOK
<1>2. sessions' = [s \in 1..Len(sessions) |-> IF s = current THEN DiscardedSession(sessions[s]) ELSE sessions[s]]
  BY <1>0 DEF TeardownSession, ObjectsOK
<1>3. ObjectsOK' /\ Len(sessions') = Len(sessions)
  BY <1>0, <1>1, <1>2 DEF ObjectsOK
<1>4. loop' = "tasks" /\ UNCHANGED <<socket, current, align, events, finished>>
  BY DEF TeardownSession
<1>5. LoopOK' /\ AlignOK' /\ QueueOK' /\ LoopFits'
  BY <1>0, <1>3, <1>4 DEF LoopOK, Loops, AlignOK, QueueOK, LoopFits, CreatingLoop, FinishLoop
<1> QED BY <1>3, <1>5, TypePartsNext DEF TypeInv

\* Every step is one of the cases above.
LEMMA NextCases ==
  ASSUME [Next]_vars
  PROVE  \/ LoopSteps \/ StartSession \/ Creating
         \/ DrainBudgetEnds \/ FinishCloses \/ FinishTimesOut
         \/ Send \/ TeardownSession \/ UNCHANGED vars
         \/ \E s \in Started : SessionTasks(s) \/ AlignEnds(s)
BY DEF Next, Commands, Finishing, Teardown, LoopSteps

LEMMA NextType == ASSUME TypeInv, [Next]_vars PROVE TypeInv'
<1>1. CASE UNCHANGED vars
  BY <1>1, TypeParts, TypePartsNext
     DEF vars, connVars, TypeInv, ObjectsOK, LoopOK, AlignOK, QueueOK, LoopFits
<1> QED BY <1>1, NextCases, LoopStepType, StartSessionType, CreatingType, SessionTaskType, FinishStepType,
           AlignEndsType, SendType, TeardownType

LEMMA InitTypeInv == Init => TypeInv
BY InitType DEF Init, TypeInv, LoopFits, CreatingLoop, FinishLoop

(* The state of the sidecar's connection stays well formed, and its loop   *)
(* works on a session whenever it builds or finishes one.                  *)
THEOREM ConnectionTypes == Spec => []TypeInv
BY InitTypeInv, NextType, PTL DEF Spec

----------------------------------------------------------------------------
(* What runs is self.session; what has its alignment started is not.       *)

Runs(s) == sessions[s].consumer = "running" \/ sessions[s].translator = "running"
RunnersAreCurrent == \A s \in Started : Runs(s) => s = current
AlignedAreOver == \A s \in Sessions : align[s] # "none" => s \in Started /\ s # current
NewIsFresh == loop \in CreatingLoop => align[New] = "none"
ControlInv == RunnersAreCurrent /\ AlignedAreOver /\ NewIsFresh

\* Steps that start nothing: a session runs only if it ran.
LEMMA NothingStarts ==
  ASSUME TypeInv, ControlInv, UNCHANGED current, Len(sessions') = Len(sessions), sessions' \in Seq(Object),
         \A s \in Started : Runs(s)' => Runs(s),
         \A s \in Sessions : align'[s] # "none" => align[s] # "none",
         loop' \in CreatingLoop => loop \in CreatingLoop
  PROVE  ControlInv'
<1>0. ObjectsOK
  BY TypeParts DEF TypeInv
<1>1. DOMAIN sessions' = DOMAIN sessions /\ New' = New
  BY <1>0 DEF New, ObjectsOK
<1>2. RunnersAreCurrent'
  BY <1>1 DEF ControlInv, RunnersAreCurrent
<1>3. AlignedAreOver'
  BY <1>1 DEF ControlInv, AlignedAreOver
<1>4. NewIsFresh'
  BY <1>0, <1>1 DEF ControlInv, NewIsFresh, TypeInv, LoopFits, ObjectsOK, New
<1> QED BY <1>2, <1>3, <1>4 DEF ControlInv

\* One record changes, and nothing of it starts.
LEMMA OneChanges ==
  ASSUME ObjectsOK, NEW t \in Started, NEW object \in Object, sessions' = [sessions EXCEPT ![t] = object],
         object.consumer = "running" => sessions[t].consumer = "running",
         object.translator = "running" => sessions[t].translator = "running"
  PROVE  Len(sessions') = Len(sessions) /\ \A s \in Started : Runs(s)' => Runs(s)
<1>1. Len(sessions') = Len(sessions) /\ \A s \in Started : sessions'[s] = IF s = t THEN object ELSE sessions[s]
  BY DEF ObjectsOK
<1> QED BY <1>1 DEF Runs

\* The steps that change one record and start nothing.
LEMMA Changes ==
  ASSUME TypeInv, NEW t \in Started,
         \/ (CreateFails \/ CreateBuilds \/ StartTranslation) /\ t = New
         \/ (DrainBudgetEnds \/ FinishTimesOut) /\ t = current
         \/ SessionTasks(t) \/ AlignEnds(t)
  PROVE  Len(sessions') = Len(sessions) /\ \A s \in Started : Runs(s)' => Runs(s)
<1>0. ObjectsOK /\ sessions[t] \in Object
  BY TypeParts DEF TypeInv, ObjectsOK
<1>1. CASE CreateFails /\ t = New
  <2> DEFINE object == [sessions[t] EXCEPT !.failed = TRUE]
  <2>1. object \in Object /\ object.consumer = sessions[t].consumer /\ object.translator = sessions[t].translator
    BY <1>0 DEF Object
  <2>2. sessions' = [sessions EXCEPT ![t] = object]
    BY <1>1 DEF CreateFails
  <2> HIDE DEF object
  <2> QED BY <1>0, <2>1, <2>2, OneChanges
<1>2. CASE CreateBuilds /\ t = New
  <2>1. PICK spool \in {"none", "open"} : sessions' = [sessions EXCEPT ![t].spool = spool]
    BY <1>2 DEF CreateBuilds
  <2> DEFINE object == [sessions[t] EXCEPT !.spool = spool]
  <2>2. object \in Object /\ object.consumer = sessions[t].consumer /\ object.translator = sessions[t].translator
    BY <1>0 DEF Object
  <2>3. sessions' = [sessions EXCEPT ![t] = object]
    BY <2>1
  <2> HIDE DEF object
  <2> QED BY <1>0, <2>2, <2>3, OneChanges
<1>3. CASE StartTranslation /\ t = New
  <2>1. PICK some \in BOOLEAN : sessions' = [sessions EXCEPT ![t].backends = IF some THEN {"translation"} ELSE {}]
    BY <1>3 DEF StartTranslation
  <2> DEFINE object == [sessions[t] EXCEPT !.backends = IF some THEN {"translation"} ELSE {}]
  <2>2. object \in Object /\ object.consumer = sessions[t].consumer /\ object.translator = sessions[t].translator
    BY <1>0 DEF Object
  <2>3. sessions' = [sessions EXCEPT ![t] = object]
    BY <2>1
  <2> HIDE DEF object
  <2> QED BY <1>0, <2>2, <2>3, OneChanges
<1>4. CASE DrainBudgetEnds /\ t = current
  <2> DEFINE object == [sessions[t] EXCEPT !.translator = "ended"]
  <2>1. object \in Object /\ object.consumer = sessions[t].consumer /\ object.translator = "ended"
    BY <1>0 DEF Object
  <2>2. sessions' = [sessions EXCEPT ![t] = object]
    BY <1>4 DEF DrainBudgetEnds
  <2> HIDE DEF object
  <2> QED BY <1>0, <2>1, <2>2, OneChanges
<1>5. CASE FinishTimesOut /\ t = current
  <2> DEFINE object == [sessions[t] EXCEPT !.consumer = IF loop = "consumer" THEN "ended" ELSE @]
  <2>1. object \in Object /\ object.consumer \in {"ended", sessions[t].consumer}
        /\ object.translator = sessions[t].translator
    BY <1>0 DEF Object
  <2>2. sessions' = [sessions EXCEPT ![t] = object]
    BY <1>5 DEF FinishTimesOut
  <2> HIDE DEF object
  <2> QED BY <1>0, <2>1, <2>2, OneChanges
<1>6. CASE Transcript(t)
  <2> DEFINE object == [sessions[t] EXCEPT !.transcripts = @ + 1]
  <2>1. object \in Object /\ object.consumer = sessions[t].consumer /\ object.translator = sessions[t].translator
    BY <1>0, <1>6 DEF Transcript, Object
  <2>2. sessions' = [sessions EXCEPT ![t] = object]
    BY <1>6 DEF Transcript
  <2> HIDE DEF object
  <2> QED BY <1>0, <2>1, <2>2, OneChanges
<1>7. CASE Translation(t)
  <2> DEFINE object == [sessions[t] EXCEPT !.translations = @ + 1]
  <2>1. object \in Object /\ object.consumer = sessions[t].consumer /\ object.translator = sessions[t].translator
    BY <1>0, <1>7 DEF Translation, Object
  <2>2. sessions' = [sessions EXCEPT ![t] = object]
    BY <1>7 DEF Translation
  <2> HIDE DEF object
  <2> QED BY <1>0, <2>1, <2>2, OneChanges
<1>8. CASE ConsumerEnds(t)
  <2> DEFINE object == [sessions[t] EXCEPT !.consumer = "ended"]
  <2>1. object \in Object /\ object.consumer = "ended" /\ object.translator = sessions[t].translator
    BY <1>0 DEF Object
  <2>2. sessions' = [sessions EXCEPT ![t] = object]
    BY <1>8 DEF ConsumerEnds
  <2> HIDE DEF object
  <2> QED BY <1>0, <2>1, <2>2, OneChanges
<1>9. CASE TranslatorEnds(t)
  <2> DEFINE object == [sessions[t] EXCEPT !.translator = "ended"]
  <2>1. object \in Object /\ object.consumer = sessions[t].consumer /\ object.translator = "ended"
    BY <1>0 DEF Object
  <2>2. sessions' = [sessions EXCEPT ![t] = object]
    BY <1>9 DEF TranslatorEnds
  <2> HIDE DEF object
  <2> QED BY <1>0, <2>1, <2>2, OneChanges
<1>10. CASE AlignEnds(t)
  <2> DEFINE object == [sessions[t] EXCEPT !.spool = IF @ = "none" THEN @ ELSE "gone"]
  <2>1. object \in Object /\ object.consumer = sessions[t].consumer /\ object.translator = sessions[t].translator
    BY <1>0 DEF Object
  <2>2. sessions' = [sessions EXCEPT ![t] = object]
    BY <1>10 DEF AlignEnds
  <2> HIDE DEF object
  <2> QED BY <1>0, <2>1, <2>2, OneChanges
<1> QED BY <1>1, <1>2, <1>3, <1>4, <1>5, <1>6, <1>7, <1>8, <1>9, <1>10 DEF SessionTasks

LEMMA StartControl == ASSUME TypeInv, ControlInv, StartSession PROVE ControlInv'
<1>0. ObjectsOK
  BY TypeParts DEF TypeInv
<1>1. CASE current # NoSession
  <2>1. loop' = "ending" /\ UNCHANGED <<sessions, current, align>>
    BY <1>1 DEF StartSession, Fails
  <2> QED BY <1>0, <2>1, NothingStarts DEF ObjectsOK, CreatingLoop, Runs
<1>2. CASE current = NoSession
  <2> DEFINE object == [consumer |-> "none", translator |-> "none", backends |-> {}, spool |-> "none",
                        failed |-> FALSE, transcripts |-> 0, translations |-> 0]
  <2>1. /\ loop' = "building" /\ sessions' = Append(sessions, object) /\ Len(sessions) < MaxSessions
        /\ UNCHANGED <<current, align>>
    BY <1>2 DEF StartSession
  <2>2. object.consumer = "none" /\ object.translator = "none"
    OBVIOUS
  <2> HIDE DEF object
  <2>3. /\ Len(sessions) \in Nat /\ New' = Len(sessions) + 1 /\ DOMAIN sessions' = 1..Len(sessions) + 1
        /\ \A s \in Started : sessions'[s] = sessions[s]
        /\ sessions'[New'] = object
    BY <1>0, <2>1 DEF ObjectsOK, New
  <2>4. RunnersAreCurrent'
    BY <1>0, <2>1, <2>2, <2>3 DEF ControlInv, RunnersAreCurrent, Runs, ObjectsOK
  <2>5. AlignedAreOver'
    BY <1>0, <2>1, <2>3 DEF ControlInv, AlignedAreOver, ObjectsOK
  <2>6. align[New'] = "none"
    BY <1>0, <2>1, <2>3 DEF ControlInv, AlignedAreOver, ObjectsOK
  <2> QED BY <2>1, <2>4, <2>5, <2>6 DEF ControlInv, NewIsFresh
<1> QED BY <1>1, <1>2

LEMMA CreatingControl == ASSUME TypeInv, ControlInv, Creating, TypeInv' PROVE ControlInv'
<1>0. ObjectsOK /\ sessions' \in Seq(Object)
  BY TypeParts DEF TypeInv, TypeOK, Object
<1>1. loop \in CreatingLoop /\ New \in Started /\ current = NoSession /\ New \in Sessions
  <2>1. loop \in CreatingLoop
    BY DEF Creating, CreateFails, CreateBuilds, StartTranslation, StartAsr, CreatingLoop
  <2> QED BY <1>0, <2>1 DEF New, ObjectsOK, TypeInv, LoopFits
<1>2. \A s \in Started : sessions[s] \in Object
  BY <1>0 DEF ObjectsOK
<1>3. CASE CreateFails \/ CreateBuilds \/ StartTranslation
  <2>1. UNCHANGED <<current, align>>
    BY <1>3 DEF CreateFails, CreateBuilds, StartTranslation
  <2>2. Len(sessions') = Len(sessions) /\ \A s \in Started : Runs(s)' => Runs(s)
    BY <1>1, <1>3, Changes
  <2> QED BY <1>0, <1>1, <2>1, <2>2, NothingStarts
<1>4. CASE StartAsr
  <2>1. current' = New /\ align' = align /\ loop' \notin CreatingLoop /\ DOMAIN sessions' = DOMAIN sessions
    BY <1>0, <1>4 DEF StartAsr, CreatingLoop, ObjectsOK
  <2>2. \A s \in Started : s # New => sessions'[s] = sessions[s]
    BY <1>0, <1>4 DEF StartAsr, ObjectsOK
  <2>3. \A s \in Started : ~Runs(s)
    BY <1>0, <1>1 DEF ControlInv, RunnersAreCurrent, ObjectsOK
  <2>4. RunnersAreCurrent'
    BY <2>1, <2>2, <2>3 DEF RunnersAreCurrent, Runs
  <2>5. AlignedAreOver'
    BY <1>1, <2>1 DEF ControlInv, AlignedAreOver, NewIsFresh
  <2> QED BY <2>1, <2>4, <2>5 DEF ControlInv, NewIsFresh
<1> QED BY <1>3, <1>4 DEF Creating

LEMMA FinishClosesControl == ASSUME TypeInv, ControlInv, FinishCloses PROVE ControlInv'
<1>0. ObjectsOK /\ LoopOK /\ AlignOK
  BY TypeParts DEF TypeInv
<1>1. current \in Started /\ current \in Sessions /\ sessions[current] \in Object
  BY <1>0 DEF FinishCloses, LoopOK, ObjectsOK, TypeInv, LoopFits, FinishLoop
<1>2. /\ current' = NoSession /\ loop' = "idle" /\ align' = [align EXCEPT ![current] = "running"]
      /\ sessions' = [sessions EXCEPT ![current] = ClosedSession(sessions[current])]
  BY DEF FinishCloses
<1>3. /\ DOMAIN sessions' = DOMAIN sessions
      /\ sessions'[current] = ClosedSession(sessions[current])
      /\ \A s \in Started : s # current => sessions'[s] = sessions[s]
  BY <1>0, <1>1, <1>2 DEF ObjectsOK
<1>4. \A s \in Started : ~Runs(s)'
  BY <1>1, <1>3, ClosedIsObject DEF ControlInv, RunnersAreCurrent, Runs
<1>5. RunnersAreCurrent'
  BY <1>3, <1>4 DEF RunnersAreCurrent
<1>6. AlignedAreOver'
  BY <1>0, <1>1, <1>2, <1>3 DEF ControlInv, AlignedAreOver, AlignOK, ObjectsOK
<1> QED BY <1>2, <1>5, <1>6 DEF ControlInv, NewIsFresh, CreatingLoop

LEMMA NextControl == ASSUME TypeInv, ControlInv, [Next]_vars, TypeInv' PROVE ControlInv'
<1>0. ObjectsOK /\ LoopOK /\ AlignOK /\ sessions' \in Seq(Object)
  BY TypeParts DEF TypeInv, TypeOK, Object
<1>1. CASE LoopSteps
  BY <1>0, <1>1, LoopStep, NothingStarts DEF TypeInv, Runs, CreatingLoop
<1>2. CASE DrainBudgetEnds \/ FinishTimesOut
  <2>1. current \in Started
    BY <1>0, <1>2 DEF DrainBudgetEnds, FinishTimesOut, LoopOK, ObjectsOK, TypeInv, LoopFits, FinishLoop
  <2>2. UNCHANGED <<current, align>> /\ loop' \notin CreatingLoop
    BY <1>0, <1>2 DEF DrainBudgetEnds, FinishTimesOut, Fails, connVars, CreatingLoop
  <2>3. Len(sessions') = Len(sessions) /\ \A s \in Started : Runs(s)' => Runs(s)
    BY <1>2, <2>1, Changes
  <2> QED BY <1>0, <2>2, <2>3, NothingStarts
<1>3. ASSUME NEW t \in Started, SessionTasks(t) \/ AlignEnds(t) PROVE ControlInv'
  <2>1. UNCHANGED <<current, loop>> /\ \A s \in Sessions : align'[s] # "none" => align[s] # "none"
    BY <1>0, <1>3 DEF SessionTasks, Transcript, Translation, ConsumerEnds, TranslatorEnds, AlignEnds, connVars, AlignOK
  <2>2. Len(sessions') = Len(sessions) /\ \A s \in Started : Runs(s)' => Runs(s)
    BY <1>3, Changes
  <2> QED BY <1>0, <2>1, <2>2, NothingStarts
<1>4. CASE Send \/ UNCHANGED vars
  BY <1>0, <1>4, NothingStarts DEF Send, vars, connVars, Runs
<1>5. CASE TeardownSession
  <2>1. UNCHANGED <<current, align>> /\ loop' \notin CreatingLoop /\ Len(sessions') = Len(sessions)
    BY <1>0, <1>5 DEF TeardownSession, CreatingLoop, ObjectsOK
  <2>2. ASSUME NEW s \in Started, Runs(s)' PROVE Runs(s)
    <3>1. sessions[s] \in Object
      BY <1>0 DEF ObjectsOK
    <3> QED BY <1>5, <2>2, <3>1, ClosedIsObject DEF TeardownSession, Runs
  <2> QED BY <1>0, <2>1, <2>2, NothingStarts
<1> QED BY <1>1, <1>2, <1>3, <1>4, <1>5, NextCases, StartControl, CreatingControl, FinishClosesControl

LEMMA InitControl == Init => ControlInv
BY DEF Init, ControlInv, RunnersAreCurrent, AlignedAreOver, NewIsFresh, Runs, CreatingLoop

(* What runs belongs to self.session: a session is over before its         *)
(* alignment starts, and a new one finds nothing of the last.              *)
THEOREM ConnectionControl == Spec => []ControlInv
<1>1. TypeInv /\ ControlInv /\ [Next]_vars => TypeInv' /\ ControlInv'
  BY NextType, NextControl
<1> QED BY <1>1, InitTypeInv, InitControl, PTL DEF Spec

----------------------------------------------------------------------------
(* session_finished in the queue and after it.                             *)

Produced == {"transcript", "translation"}
EndIsQueuedOnce == \A i \in DOMAIN events : events[i].kind = "finished" => align[events[i].of] # "none"
EndIsSent == \A s \in finished : align[s] # "none"
EndIsLast ==
  \A i, j \in DOMAIN events : i < j /\ events[i].kind = "finished" /\ events[j].of = events[i].of
    => events[j].kind \notin Produced
NothingAfterEnd == \A s \in finished : \A i \in DOMAIN events : events[i].kind \in Produced => events[i].of # s
QueueInv == EndIsQueuedOnce /\ EndIsSent /\ EndIsLast /\ NothingAfterEnd

\* An alignment that was started stays started.
LEMMA AlignedStays == ASSUME TypeInv, [Next]_vars, NEW s \in Sessions, align[s] # "none" PROVE align'[s] # "none"
<1>0. AlignOK
  BY TypeParts DEF TypeInv
<1>1. CASE LoopSteps
  BY <1>1, LoopStep DEF TypeInv
<1>2. CASE StartSession \/ Creating \/ DrainBudgetEnds \/ FinishTimesOut \/ Send \/ TeardownSession \/ UNCHANGED vars
  BY <1>2 DEF StartSession, Creating, CreateFails, CreateBuilds, StartTranslation, StartAsr, DrainBudgetEnds,
              FinishTimesOut, Send, TeardownSession, vars
<1>3. CASE FinishCloses
  BY <1>0, <1>3 DEF FinishCloses, AlignOK
<1>4. CASE \E t \in Started : SessionTasks(t) \/ AlignEnds(t)
  BY <1>0, <1>4 DEF SessionTasks, Transcript, Translation, ConsumerEnds, TranslatorEnds, AlignEnds, AlignOK
<1> QED BY <1>1, <1>2, <1>3, <1>4, NextCases

\* A session that runs has had no end yet.
LEMMA RunnerIsUnended == ASSUME TypeInv, ControlInv, NEW s \in Started, Runs(s) PROVE s \in Sessions /\ align[s] = "none"
<1>1. s \in Sessions
  BY TypeParts DEF TypeInv, ObjectsOK
<1> QED BY <1>1 DEF ControlInv, RunnersAreCurrent, AlignedAreOver

\* The two ways an event joins the queue, and the way it leaves.
LEMMA Joins ==
  ASSUME QueueOK, QueueInv, NEW s \in Sessions, NEW kind \in SessionKinds, Emits(s, kind), finished' = finished,
         align[s] = "none", \A t \in Sessions : align[t] # "none" => align'[t] # "none",
         kind = "finished" => align'[s] # "none"
  PROVE  QueueInv'
<1> DEFINE n == Len(events) + 1
<1>1. Event(kind, s).kind = kind /\ Event(kind, s).of = s
  BY DEF Event
<1>2. /\ Len(events) \in Nat /\ DOMAIN events = 1..Len(events) /\ DOMAIN events' = 1..n
      /\ \A i \in DOMAIN events : events'[i] = events[i] /\ events[i].of \in Sessions
      /\ events'[n].kind = kind /\ events'[n].of = s
  <2>1. events' = Append(events, Event(kind, s)) /\ events \in Seq(SessionEvent) /\ Event(kind, s) \in SessionEvent
    BY DEF Emits, QueueOK, SessionEvent, Event
  <2>2. /\ Len(events) \in Nat /\ DOMAIN events = 1..Len(events) /\ DOMAIN events' = 1..n
        /\ \A i \in DOMAIN events : events'[i] = events[i] /\ events[i] \in SessionEvent
        /\ events'[n] = Event(kind, s)
    BY <2>1
  <2> QED BY <1>1, <2>2 DEF SessionEvent
<1>3. \A i \in DOMAIN events' : i \in DOMAIN events \/ i = n
  BY <1>2
<1>4. \A i \in DOMAIN events : events[i].kind = "finished" => events[i].of # s
  BY DEF QueueInv, EndIsQueuedOnce
<1> HIDE DEF n
<1>5. EndIsQueuedOnce'
  BY <1>2, <1>3 DEF QueueInv, EndIsQueuedOnce
<1>6. EndIsSent'
  BY DEF QueueInv, EndIsSent, QueueOK
<1>7. EndIsLast'
  <2> SUFFICES ASSUME NEW i \in DOMAIN events', NEW j \in DOMAIN events', i < j,
                      events'[i].kind = "finished", events'[j].of = events'[i].of
               PROVE  events'[j].kind \notin Produced
    BY DEF EndIsLast
  <2>1. i \in DOMAIN events
    BY <1>2, <1>3 DEF n
  <2>2. CASE j \in DOMAIN events
    BY <1>2, <2>1, <2>2 DEF QueueInv, EndIsLast
  <2>3. CASE j = n
    BY <1>2, <1>4, <2>1, <2>3
  <2> QED BY <1>3, <2>2, <2>3
<1>8. NothingAfterEnd'
  BY <1>2, <1>3 DEF QueueInv, NothingAfterEnd, EndIsSent
<1> QED BY <1>5, <1>6, <1>7, <1>8 DEF QueueInv

LEMMA Leaves == ASSUME QueueOK, QueueInv, Send PROVE QueueInv'
<1>1. /\ Len(events) \in Nat \ {0} /\ DOMAIN events = 1..Len(events) /\ DOMAIN events' = 1..Len(events) - 1
      /\ \A i \in DOMAIN events' : events'[i] = events[i + 1]
  BY DEF Send, QueueOK
<1>2. Head(events) = events[1]
  BY DEF Send, QueueOK
<1>3. \A i \in DOMAIN events' : i + 1 \in DOMAIN events /\ 1 \in DOMAIN events /\ 1 < i + 1
  BY <1>1
<1>4. /\ align' = align
      /\ finished' = finished \cup (IF events[1].kind = "finished" THEN {events[1].of} ELSE {})
  BY <1>2 DEF Send
<1>5. EndIsQueuedOnce'
  BY <1>1, <1>3, <1>4 DEF QueueInv, EndIsQueuedOnce
<1>6. EndIsSent'
  BY <1>1, <1>4 DEF QueueInv, EndIsSent, EndIsQueuedOnce
<1>7. EndIsLast'
  <2> SUFFICES ASSUME NEW i \in DOMAIN events', NEW j \in DOMAIN events', i < j,
                      events'[i].kind = "finished", events'[j].of = events'[i].of
               PROVE  events'[j].kind \notin Produced
    BY DEF EndIsLast
  <2>1. i + 1 < j + 1
    BY <1>1
  <2> QED BY <1>1, <1>3, <2>1 DEF QueueInv, EndIsLast
<1>8. NothingAfterEnd'
  <2> SUFFICES ASSUME NEW s \in finished', NEW i \in DOMAIN events', events'[i].kind \in Produced
               PROVE  events'[i].of # s
    BY DEF NothingAfterEnd
  <2>1. CASE s \in finished
    BY <1>1, <1>3, <2>1 DEF QueueInv, NothingAfterEnd
  <2>2. CASE events[1].kind = "finished" /\ s = events[1].of
    BY <1>1, <1>3, <2>2 DEF QueueInv, EndIsLast
  <2> QED BY <1>4, <2>1, <2>2
<1> QED BY <1>5, <1>6, <1>7, <1>8 DEF QueueInv

LEMMA NextQueue == ASSUME TypeInv, ControlInv, QueueInv, [Next]_vars PROVE QueueInv'
<1>0. QueueOK /\ LoopOK /\ ObjectsOK /\ AlignOK
  BY TypeParts DEF TypeInv
<1>1. \A s \in Sessions : align[s] # "none" => align'[s] # "none"
  BY AlignedStays
<1>2. CASE UNCHANGED <<events, finished>>
  <2>1. \A i \in DOMAIN events : events[i].of \in Sessions
    <3>1. \A i \in DOMAIN events : events[i] \in SessionEvent
      BY <1>0 DEF QueueOK
    <3> QED BY <3>1 DEF SessionEvent
  <2>2. EndIsQueuedOnce'
    BY <1>1, <1>2, <2>1 DEF QueueInv, EndIsQueuedOnce
  <2>3. EndIsSent'
    BY <1>0, <1>1, <1>2 DEF QueueInv, EndIsSent, QueueOK
  <2>4. EndIsLast' /\ NothingAfterEnd'
    BY <1>2 DEF QueueInv, EndIsLast, NothingAfterEnd
  <2> QED BY <2>2, <2>3, <2>4 DEF QueueInv
<1>3. CASE Send
  BY <1>0, <1>3, Leaves
<1>4. CASE FinishCloses
  <2>1. current \in Started /\ current \in Sessions
    BY <1>0, <1>4 DEF FinishCloses, LoopOK, ObjectsOK, TypeInv, LoopFits, FinishLoop
  <2>2. align[current] = "none" /\ align'[current] # "none"
    BY <1>0, <1>4, <2>1 DEF FinishCloses, AlignOK, ControlInv, AlignedAreOver
  <2>3. Emits(current, "finished") /\ finished' = finished /\ "finished" \in SessionKinds
    BY <1>4 DEF FinishCloses, SessionKinds
  <2> QED BY <1>0, <1>1, <2>1, <2>2, <2>3, Joins
<1>5. ASSUME NEW s \in Started, Transcript(s) \/ Translation(s) PROVE QueueInv'
  <2>1. s \in Sessions /\ align[s] = "none"
    BY <1>5, RunnerIsUnended DEF Transcript, Translation, Runs
  <2>2. PICK kind \in Produced : Emits(s, kind)
    BY <1>5 DEF Transcript, Translation, Produced
  <2>3. finished' = finished /\ kind \in SessionKinds /\ kind # "finished"
    BY <1>5 DEF Transcript, Translation, SessionKinds, Produced
  <2> QED BY <1>0, <1>1, <2>1, <2>2, <2>3, Joins
<1>6. CASE LoopSteps \/ StartSession \/ Creating \/ DrainBudgetEnds \/ FinishTimesOut \/ TeardownSession \/ UNCHANGED vars
  <2>1. UNCHANGED <<events, finished>>
    BY <1>6, LoopStep DEF TypeInv, StartSession, Creating, CreateFails, CreateBuilds, StartTranslation, StartAsr,
              DrainBudgetEnds, FinishTimesOut, TeardownSession, vars
  <2> QED BY <1>2, <2>1
<1>7. ASSUME NEW s \in Started, ConsumerEnds(s) \/ TranslatorEnds(s) \/ AlignEnds(s) PROVE QueueInv'
  BY <1>2, <1>7 DEF ConsumerEnds, TranslatorEnds, AlignEnds
<1> QED BY <1>3, <1>4, <1>5, <1>6, <1>7, NextCases DEF SessionTasks

\* At most one session runs, since what runs is self.session.
LEMMA OneRuns == ASSUME TypeInv, ControlInv PROVE OneSessionRuns
<1> DEFINE running == {s \in Started : sessions[s].consumer = "running" \/ sessions[s].translator = "running"}
<1>1. running \subseteq {current}
  BY DEF ControlInv, RunnersAreCurrent, Runs
<1>2. IsFiniteSet({current}) /\ Cardinality({current}) = 1
  BY FS_Singleton
<1>3. Cardinality(running) <= 1
  BY <1>1, <1>2, FS_Subset
<1> QED BY <1>3 DEF OneSessionRuns

LEMMA QueueOrdersEnds == ASSUME TypeInv, ControlInv, QueueInv PROVE FinishedIsLast
<1>1. \A s \in Started : s \in Sessions
  BY TypeParts DEF TypeInv, ObjectsOK
<1>2. \A s \in Started : align[s] # "none" => sessions[s].consumer # "running" /\ sessions[s].translator # "running"
  BY <1>1 DEF ControlInv, RunnersAreCurrent, AlignedAreOver, Runs
<1> QED BY <1>2 DEF FinishedIsLast, QueueInv, EndIsLast, NothingAfterEnd, Produced

(* Types; one session at a time; nothing of a session after its            *)
(* session_finished, whatever number of sessions and events.               *)
THEOREM SessionsOrdered == Spec => []SessionsAreOrderly
<1>1. Init => TypeInv /\ ControlInv /\ QueueInv
  BY InitTypeInv, InitControl DEF Init, QueueInv, EndIsQueuedOnce, EndIsSent, EndIsLast, NothingAfterEnd
<1>2. TypeInv /\ ControlInv /\ QueueInv /\ [Next]_vars => (TypeInv /\ ControlInv /\ QueueInv)'
  BY NextType, NextControl, NextQueue
<1>3. TypeInv /\ ControlInv /\ QueueInv => SessionsAreOrderly
  BY OneRuns, QueueOrdersEnds DEF SessionsAreOrderly, TypeInv
<1> QED BY <1>1, <1>2, <1>3, PTL DEF Spec

----------------------------------------------------------------------------
(* What a session holds while it is in use, and what is left of it after.  *)

EndLoop == {"tasks", "done"}
Released(s) == sessions[s].backends = {} /\ (sessions[s].spool \in {"none", "gone"} \/ align[s] = "running")
InUse(s) == (s = current /\ loop \notin EndLoop) \/ (s = New /\ loop \in CreatingLoop)
UnusedIsReleased == \A s \in Started : sessions[s].failed \/ InUse(s) \/ Released(s)
NothingRunsAtEnd == loop \in EndLoop => \A s \in Started : ~Runs(s)
NothingAlignsAfter == loop = "done" => \A s \in Sessions : align[s] # "running"
ReleaseInv == UnusedIsReleased /\ NothingRunsAtEnd /\ NothingAlignsAfter

LEMMA InitRelease == Init => ReleaseInv
BY DEF Init, ReleaseInv, UnusedIsReleased, NothingRunsAtEnd, NothingAlignsAfter, EndLoop

\* One record changes: it is given up, in use, or holds no more than before.
LEMMA OneReleases ==
  ASSUME TypeInv, ReleaseInv, NEW t \in Started, NEW object \in Object, sessions' = [sessions EXCEPT ![t] = object],
         current' = current, align' = align, loop' \in EndLoop => loop' = loop,
         object.consumer = "running" => sessions[t].consumer = "running",
         object.translator = "running" => sessions[t].translator = "running",
         sessions[t].failed => object.failed,
         \/ object.failed
         \/ InUse(t)'
         \/ ~InUse(t) /\ object.backends = sessions[t].backends /\ object.spool = sessions[t].spool,
         \A s \in Started : s # t /\ InUse(s) => InUse(s)'
  PROVE  ReleaseInv'
<1>0. ObjectsOK
  BY TypeParts DEF TypeInv
<1>1. DOMAIN sessions' = DOMAIN sessions /\ \A s \in Started : sessions'[s] = IF s = t THEN object ELSE sessions[s]
  BY <1>0 DEF ObjectsOK
<1>2. UnusedIsReleased'
  <2> SUFFICES ASSUME NEW s \in Started PROVE (sessions[s].failed \/ InUse(s) \/ Released(s))'
    BY <1>1 DEF UnusedIsReleased
  <2>1. sessions[s].failed \/ InUse(s) \/ Released(s)
    BY DEF ReleaseInv, UnusedIsReleased
  <2>2. CASE s = t
    BY <1>1, <2>1, <2>2 DEF Released
  <2>3. CASE s # t
    BY <1>1, <2>1, <2>3 DEF Released
  <2> QED BY <2>2, <2>3
<1>3. NothingRunsAtEnd'
  BY <1>1 DEF ReleaseInv, NothingRunsAtEnd, Runs
<1>4. NothingAlignsAfter'
  BY DEF ReleaseInv, NothingAlignsAfter, EndLoop
<1> QED BY <1>2, <1>3, <1>4 DEF ReleaseInv

\* A step that changes no session: the loop may leave a session it has not begun.
LEMMA LoopRelease == ASSUME TypeInv, ReleaseInv, LoopSteps \/ Send \/ UNCHANGED vars PROVE ReleaseInv'
<1>1. UNCHANGED <<current, sessions, align>>
  BY LoopStep DEF TypeInv, Send, vars
<1>2. /\ loop \in CreatingLoop \cup EndLoop => loop' = loop \/ TeardownDone
      /\ loop' \in CreatingLoop \cup EndLoop => loop' = loop \/ TeardownDone
  BY DEF LoopSteps, Hello, Invalid, PlanOrProbe, PauseOrResume, Audio, FinishSession, FinishAsr, FinishConsumer,
         SocketBreaks, LoopEnds, Fails, Idle, Send, vars, connVars, CreatingLoop, EndLoop
<1>3. TeardownDone => loop = "tasks" /\ loop' = "done" /\ \A s \in Sessions : align[s] # "running"
  BY DEF TeardownDone
<1>4. loop' \in EndLoop => loop \in EndLoop
  BY <1>2, <1>3 DEF EndLoop
<1>5. \A s : InUse(s) => InUse(s)'
  BY <1>1, <1>2, <1>3, <1>4 DEF InUse, New, CreatingLoop, EndLoop
<1>6. UnusedIsReleased'
  BY <1>1, <1>5 DEF ReleaseInv, UnusedIsReleased, Released
<1>7. NothingRunsAtEnd' /\ NothingAlignsAfter'
  BY <1>1, <1>2, <1>3, <1>4 DEF ReleaseInv, NothingRunsAtEnd, NothingAlignsAfter, Runs, EndLoop
<1> QED BY <1>6, <1>7 DEF ReleaseInv

\* A new session holds nothing yet.
LEMMA StartRelease == ASSUME TypeInv, ControlInv, ReleaseInv, StartSession PROVE ReleaseInv'
<1>0. ObjectsOK
  BY TypeParts DEF TypeInv
<1>1. CASE current # NoSession
  <2>1. loop = "idle" /\ loop' = "ending" /\ UNCHANGED <<sessions, current, align>>
    BY <1>1 DEF StartSession, Fails, Idle
  <2> QED BY <2>1 DEF ReleaseInv, UnusedIsReleased, NothingRunsAtEnd, NothingAlignsAfter, Released, InUse, New,
                      Runs, CreatingLoop, EndLoop
<1>2. CASE current = NoSession
  <2> DEFINE object == [consumer |-> "none", translator |-> "none", backends |-> {}, spool |-> "none",
                        failed |-> FALSE, transcripts |-> 0, translations |-> 0]
  <2>1. /\ loop = "idle" /\ loop' = "building" /\ sessions' = Append(sessions, object)
        /\ UNCHANGED <<current, align>>
    BY <1>2 DEF StartSession, Idle
  <2> HIDE DEF object
  <2>2. /\ DOMAIN sessions' = DOMAIN sessions \cup {New'} /\ New' \notin Started
        /\ \A s \in Started : sessions'[s] = sessions[s]
    BY <1>0, <2>1 DEF ObjectsOK, New
  <2>3. UnusedIsReleased'
    BY <1>2, <2>1, <2>2 DEF ReleaseInv, UnusedIsReleased, Released, InUse, CreatingLoop, EndLoop
  <2> QED BY <2>1, <2>3 DEF ReleaseInv, NothingRunsAtEnd, NothingAlignsAfter, EndLoop
<1> QED BY <1>1, <1>2

\* The steps of a creation work on the new session; the last puts it in use.
LEMMA CreatingRelease == ASSUME TypeInv, ControlInv, ReleaseInv, Creating PROVE ReleaseInv'
<1>0. ObjectsOK
  BY TypeParts DEF TypeInv
<1>1. loop \in CreatingLoop /\ loop \notin EndLoop /\ New \in Started /\ current = NoSession
  <2>1. loop \in CreatingLoop
    BY DEF Creating, CreateFails, CreateBuilds, StartTranslation, StartAsr, CreatingLoop
  <2> QED BY <1>0, <2>1 DEF New, ObjectsOK, TypeInv, LoopFits, CreatingLoop, EndLoop
<1>2. sessions[New] \in Object /\ \A s \in Started : s # New => ~InUse(s)
  BY <1>0, <1>1 DEF ObjectsOK, InUse
<1>3. CASE CreateFails
  <2> DEFINE object == [sessions[New] EXCEPT !.failed = TRUE]
  <2>1. /\ object \in Object /\ object.consumer = sessions[New].consumer
        /\ object.translator = sessions[New].translator /\ object.failed
    BY <1>2 DEF Object
  <2>2. sessions' = [sessions EXCEPT ![New] = object] /\ loop' = "ending" /\ UNCHANGED <<current, align>>
    BY <1>3 DEF CreateFails, Fails
  <2> HIDE DEF object
  <2> QED BY <1>1, <1>2, <2>1, <2>2, OneReleases DEF EndLoop
<1>4. CASE CreateBuilds
  <2>1. PICK spool \in {"none", "open"} : sessions' = [sessions EXCEPT ![New].spool = spool]
    BY <1>4 DEF CreateBuilds
  <2> DEFINE object == [sessions[New] EXCEPT !.spool = spool]
  <2>2. /\ object \in Object /\ object.consumer = sessions[New].consumer
        /\ object.translator = sessions[New].translator /\ object.failed = sessions[New].failed
    BY <1>2 DEF Object
  <2>3. sessions' = [sessions EXCEPT ![New] = object] /\ loop' = "translation" /\ UNCHANGED <<current, align>>
    BY <1>4, <2>1 DEF CreateBuilds
  <2> HIDE DEF object
  <2>4. InUse(New)'
    BY <1>0, <1>1, <2>3 DEF InUse, New, ObjectsOK, CreatingLoop
  <2>5. New' = New
    BY <1>0, <2>3 DEF New, ObjectsOK
  <2> QED BY <1>1, <1>2, <2>2, <2>3, <2>4, <2>5, OneReleases DEF EndLoop
<1>5. CASE StartTranslation
  <2>1. PICK some \in BOOLEAN : sessions' = [sessions EXCEPT ![New].backends = IF some THEN {"translation"} ELSE {}]
    BY <1>5 DEF StartTranslation
  <2> DEFINE object == [sessions[New] EXCEPT !.backends = IF some THEN {"translation"} ELSE {}]
  <2>2. /\ object \in Object /\ object.consumer = sessions[New].consumer
        /\ object.translator = sessions[New].translator /\ object.failed = sessions[New].failed
    BY <1>2 DEF Object
  <2>3. sessions' = [sessions EXCEPT ![New] = object] /\ loop' = "asr" /\ UNCHANGED <<current, align>>
    BY <1>5, <2>1 DEF StartTranslation
  <2> HIDE DEF object
  <2>4. InUse(New)'
    BY <1>0, <1>1, <2>3 DEF InUse, New, ObjectsOK, CreatingLoop
  <2>5. New' = New
    BY <1>0, <2>3 DEF New, ObjectsOK
  <2> QED BY <1>1, <1>2, <2>2, <2>3, <2>4, <2>5, OneReleases DEF EndLoop
<1>6. CASE StartAsr
  <2>1. /\ current' = New /\ loop' \in {"ending", "idle"} /\ align' = align /\ DOMAIN sessions' = DOMAIN sessions
        /\ \A s \in Started : s # New => sessions'[s] = sessions[s]
    BY <1>0, <1>6 DEF StartAsr, ObjectsOK
  <2>2. UnusedIsReleased'
    BY <1>2, <2>1 DEF ReleaseInv, UnusedIsReleased, Released, InUse, EndLoop
  <2> QED BY <2>1, <2>2 DEF ReleaseInv, NothingRunsAtEnd, NothingAlignsAfter, EndLoop
<1> QED BY <1>3, <1>4, <1>5, <1>6 DEF Creating

\* A session's own tasks take and give back nothing.
LEMMA TaskRelease == ASSUME TypeInv, ReleaseInv, NEW t \in Started, SessionTasks(t) PROVE ReleaseInv'
<1>0. ObjectsOK /\ sessions[t] \in Object
  BY TypeParts DEF TypeInv, ObjectsOK
<1>1. UNCHANGED <<loop, current, align>>
  BY DEF SessionTasks, Transcript, Translation, ConsumerEnds, TranslatorEnds, connVars
<1>2. PICK object \in Object :
        /\ sessions' = [sessions EXCEPT ![t] = object]
        /\ object.consumer \in {sessions[t].consumer, "ended"} /\ object.translator \in {sessions[t].translator, "ended"}
        /\ object.failed = sessions[t].failed /\ object.backends = sessions[t].backends /\ object.spool = sessions[t].spool
  <2>1. CASE Transcript(t)
    <3> DEFINE object == [sessions[t] EXCEPT !.transcripts = @ + 1]
    <3>1. sessions' = [sessions EXCEPT ![t] = object]
      BY <2>1 DEF Transcript
    <3>2. /\ object \in Object /\ object.consumer \in {sessions[t].consumer, "ended"}
          /\ object.translator \in {sessions[t].translator, "ended"} /\ object.failed = sessions[t].failed
          /\ object.backends = sessions[t].backends /\ object.spool = sessions[t].spool
      BY <1>0, <2>1 DEF Object, Transcript
    <3> HIDE DEF object
    <3> QED BY <3>1, <3>2
  <2>2. CASE Translation(t)
    <3> DEFINE object == [sessions[t] EXCEPT !.translations = @ + 1]
    <3>1. sessions' = [sessions EXCEPT ![t] = object]
      BY <2>2 DEF Translation
    <3>2. /\ object \in Object /\ object.consumer \in {sessions[t].consumer, "ended"}
          /\ object.translator \in {sessions[t].translator, "ended"} /\ object.failed = sessions[t].failed
          /\ object.backends = sessions[t].backends /\ object.spool = sessions[t].spool
      BY <1>0, <2>2 DEF Object, Translation
    <3> HIDE DEF object
    <3> QED BY <3>1, <3>2
  <2>3. CASE ConsumerEnds(t)
    <3> DEFINE object == [sessions[t] EXCEPT !.consumer = "ended"]
    <3>1. sessions' = [sessions EXCEPT ![t] = object]
      BY <2>3 DEF ConsumerEnds
    <3>2. /\ object \in Object /\ object.consumer \in {sessions[t].consumer, "ended"}
          /\ object.translator \in {sessions[t].translator, "ended"} /\ object.failed = sessions[t].failed
          /\ object.backends = sessions[t].backends /\ object.spool = sessions[t].spool
      BY <1>0 DEF Object
    <3> HIDE DEF object
    <3> QED BY <3>1, <3>2
  <2>4. CASE TranslatorEnds(t)
    <3> DEFINE object == [sessions[t] EXCEPT !.translator = "ended"]
    <3>1. sessions' = [sessions EXCEPT ![t] = object]
      BY <2>4 DEF TranslatorEnds
    <3>2. /\ object \in Object /\ object.consumer \in {sessions[t].consumer, "ended"}
          /\ object.translator \in {sessions[t].translator, "ended"} /\ object.failed = sessions[t].failed
          /\ object.backends = sessions[t].backends /\ object.spool = sessions[t].spool
      BY <1>0 DEF Object
    <3> HIDE DEF object
    <3> QED BY <3>1, <3>2
  <2> QED BY <2>1, <2>2, <2>3, <2>4 DEF SessionTasks
<1>3. New' = New
  BY <1>0, <1>2 DEF New, ObjectsOK
<1>4. \A s : InUse(s)' <=> InUse(s)
  BY <1>1, <1>3 DEF InUse
<1> QED BY <1>0, <1>1, <1>2, <1>4, OneReleases

\* A finish that waits or gives up keeps its session in use.
LEMMA FinishRelease ==
  ASSUME TypeInv, ReleaseInv, DrainBudgetEnds \/ FinishTimesOut
  PROVE  ReleaseInv'
<1>0. ObjectsOK /\ LoopOK
  BY TypeParts DEF TypeInv
<1>1. current \in Started /\ loop \notin CreatingLoop \cup EndLoop /\ sessions[current] \in Object
  BY <1>0 DEF DrainBudgetEnds, FinishTimesOut, LoopOK, ObjectsOK, TypeInv, LoopFits, FinishLoop, CreatingLoop, EndLoop
<1>2. PICK object \in Object :
        /\ sessions' = [sessions EXCEPT ![current] = object]
        /\ object.consumer \in {sessions[current].consumer, "ended"}
        /\ object.translator \in {sessions[current].translator, "ended"}
        /\ object.failed = sessions[current].failed
  <2>1. CASE DrainBudgetEnds
    <3> DEFINE object == [sessions[current] EXCEPT !.translator = "ended"]
    <3>1. sessions' = [sessions EXCEPT ![current] = object]
      BY <2>1 DEF DrainBudgetEnds
    <3>2. /\ object \in Object /\ object.consumer = sessions[current].consumer
          /\ object.translator = "ended" /\ object.failed = sessions[current].failed
      BY <1>1 DEF Object
    <3> HIDE DEF object
    <3> QED BY <3>1, <3>2
  <2>2. CASE FinishTimesOut
    <3> DEFINE object == [sessions[current] EXCEPT !.consumer = IF loop = "consumer" THEN "ended" ELSE @]
    <3>1. sessions' = [sessions EXCEPT ![current] = object]
      BY <2>2 DEF FinishTimesOut
    <3>2. /\ object \in Object /\ object.consumer \in {sessions[current].consumer, "ended"}
          /\ object.translator = sessions[current].translator /\ object.failed = sessions[current].failed
      BY <1>1 DEF Object
    <3> HIDE DEF object
    <3> QED BY <3>1, <3>2
  <2> QED BY <2>1, <2>2
<1>3. UNCHANGED <<current, align>> /\ (loop' = loop \/ loop' = "ending")
  BY DEF DrainBudgetEnds, FinishTimesOut, Fails, connVars
<1>4. InUse(current)' /\ \A s \in Started : s # current => ~InUse(s)
  BY <1>1, <1>3 DEF InUse, EndLoop
<1> QED BY <1>0, <1>1, <1>2, <1>3, <1>4, OneReleases DEF EndLoop

\* What a finish leaves: no backend, and the spool to the alignment.
LEMMA ClosedHoldsNothing ==
  ASSUME NEW object \in Object
  PROVE  /\ ClosedSession(object).backends = {} /\ ClosedSession(object).failed = object.failed
         /\ DiscardedSession(object).backends = {} /\ DiscardedSession(object).failed = object.failed
         /\ DiscardedSession(object).spool \in {"none", "gone"}
<1>1. ClosedSession(object).backends = {} /\ ClosedSession(object).failed = object.failed
  BY DEF ClosedSession, Object
<1> DEFINE closed == ClosedSession(object)
<1>2. closed \in Object
  BY ClosedIsObject
<1> HIDE DEF closed
<1>3. DiscardedSession(object) = [closed EXCEPT !.spool = IF @ = "none" THEN @ ELSE "gone"]
  BY DEF DiscardedSession, closed
<1>4. /\ DiscardedSession(object).backends = closed.backends /\ DiscardedSession(object).failed = closed.failed
      /\ DiscardedSession(object).spool \in {"none", "gone"}
  BY <1>2, <1>3 DEF Object
<1> QED BY <1>1, <1>4 DEF closed

LEMMA FinishClosesRelease == ASSUME TypeInv, ReleaseInv, FinishCloses PROVE ReleaseInv'
<1>0. ObjectsOK /\ LoopOK /\ AlignOK
  BY TypeParts DEF TypeInv
<1>1. current \in Started /\ current \in Sessions /\ sessions[current] \in Object /\ loop \notin CreatingLoop \cup EndLoop
  BY <1>0 DEF FinishCloses, LoopOK, ObjectsOK, TypeInv, LoopFits, FinishLoop, CreatingLoop, EndLoop
<1>2. /\ loop' = "idle" /\ align'[current] = "running" /\ \A s \in Sessions : s # current => align'[s] = align[s]
      /\ DOMAIN sessions' = DOMAIN sessions
      /\ sessions'[current] = ClosedSession(sessions[current])
      /\ \A s \in Started : s # current => sessions'[s] = sessions[s]
  BY <1>0, <1>1 DEF FinishCloses, AlignOK, ObjectsOK
<1>3. UnusedIsReleased'
  <2> SUFFICES ASSUME NEW s \in Started PROVE (sessions[s].failed \/ InUse(s) \/ Released(s))'
    BY <1>2 DEF UnusedIsReleased
  <2>1. CASE s = current
    <3>1. sessions'[current].backends = {}
      BY <1>1, <1>2, ClosedHoldsNothing
    <3> QED BY <1>2, <2>1, <3>1 DEF Released
  <2>2. CASE s # current
    BY <1>0, <1>1, <1>2, <2>2 DEF ReleaseInv, UnusedIsReleased, Released, InUse, ObjectsOK
  <2> QED BY <2>1, <2>2
<1> QED BY <1>2, <1>3 DEF ReleaseInv, NothingRunsAtEnd, NothingAlignsAfter, EndLoop

\* The alignment ends and discards the spool.
LEMMA AlignRelease == ASSUME TypeInv, ReleaseInv, NEW t \in Started, AlignEnds(t) PROVE ReleaseInv'
<1>0. ObjectsOK /\ AlignOK /\ sessions[t] \in Object /\ t \in Sessions
  BY TypeParts DEF TypeInv, ObjectsOK
<1> DEFINE object == [sessions[t] EXCEPT !.spool = IF @ = "none" THEN @ ELSE "gone"]
<1>1. /\ object.consumer = sessions[t].consumer /\ object.translator = sessions[t].translator
      /\ object.failed = sessions[t].failed /\ object.backends = sessions[t].backends
      /\ object.spool \in {"none", "gone"} /\ object \in Object
  BY <1>0 DEF Object
<1>2. /\ sessions' = [sessions EXCEPT ![t] = object] /\ UNCHANGED <<loop, current>>
      /\ align[t] = "running" /\ align' = [align EXCEPT ![t] = "ended"]
  BY DEF AlignEnds, connVars
<1> HIDE DEF object
<1>3. /\ DOMAIN sessions' = DOMAIN sessions /\ New' = New
      /\ \A s \in Started : sessions'[s] = IF s = t THEN object ELSE sessions[s]
      /\ \A s \in Sessions : align'[s] = IF s = t THEN "ended" ELSE align[s]
  BY <1>0, <1>2 DEF ObjectsOK, New, AlignOK
<1>4. UnusedIsReleased'
  <2> SUFFICES ASSUME NEW s \in Started PROVE (sessions[s].failed \/ InUse(s) \/ Released(s))'
    BY <1>3 DEF UnusedIsReleased
  <2>1. sessions[s].failed \/ InUse(s) \/ Released(s)
    BY DEF ReleaseInv, UnusedIsReleased
  <2>2. s \in Sessions
    BY <1>0 DEF ObjectsOK
  <2> QED BY <1>1, <1>2, <1>3, <2>1, <2>2 DEF Released, InUse
<1>5. NothingRunsAtEnd' /\ NothingAlignsAfter'
  BY <1>1, <1>2, <1>3 DEF ReleaseInv, NothingRunsAtEnd, NothingAlignsAfter, Runs
<1> QED BY <1>4, <1>5 DEF ReleaseInv

\* The end of run closes what is in use.
LEMMA TeardownRelease == ASSUME TypeInv, ControlInv, ReleaseInv, TeardownSession PROVE ReleaseInv'
<1>0. ObjectsOK
  BY TypeParts DEF TypeInv
<1>1. /\ loop = "ending" /\ loop' = "tasks" /\ UNCHANGED <<current, align>>
      /\ sessions' = [s \in Started |-> IF s = current THEN DiscardedSession(sessions[s]) ELSE sessions[s]]
  BY DEF TeardownSession
<1>2. DOMAIN sessions' = DOMAIN sessions
  BY <1>0, <1>1 DEF ObjectsOK
<1>3. ASSUME NEW s \in Started PROVE ~Runs(s)' /\ (sessions[s].failed \/ Released(s))'
  <2>1. sessions[s] \in Object
    BY <1>0 DEF ObjectsOK
  <2>2. CASE s = current
    BY <1>1, <2>1, <2>2, ClosedIsObject, ClosedHoldsNothing DEF Runs, Released
  <2>3. CASE s # current
    BY <1>1, <2>3 DEF ReleaseInv, UnusedIsReleased, ControlInv, RunnersAreCurrent, Runs, Released, InUse, CreatingLoop
  <2> QED BY <2>2, <2>3
<1>4. UnusedIsReleased' /\ NothingRunsAtEnd' /\ NothingAlignsAfter'
  BY <1>1, <1>2, <1>3 DEF UnusedIsReleased, NothingRunsAtEnd, NothingAlignsAfter
<1> QED BY <1>4 DEF ReleaseInv

LEMMA NextRelease == ASSUME TypeInv, ControlInv, ReleaseInv, [Next]_vars PROVE ReleaseInv'
BY NextCases, LoopRelease, StartRelease, CreatingRelease, TaskRelease, FinishRelease, FinishClosesRelease,
   AlignRelease, TeardownRelease

LEMMA ReleasedAtEnd == ASSUME TypeInv, ReleaseInv PROVE NothingOutlivesConnection
<1>1. \A s \in Started : s \in Sessions
  BY TypeParts DEF TypeInv, ObjectsOK
<1> QED BY <1>1 DEF ReleaseInv, UnusedIsReleased, NothingRunsAtEnd, NothingAlignsAfter, NothingOutlivesConnection,
                   Released, InUse, Runs, EndLoop, CreatingLoop

(* When run has returned no task, backend or spool of a session is left,   *)
(* whichever way and at whichever step the connection ended.               *)
THEOREM ConnectionIsReleased == Spec => []NothingOutlivesConnection
<1>1. Init => TypeInv /\ ControlInv /\ ReleaseInv
  BY InitTypeInv, InitControl, InitRelease
<1>2. TypeInv /\ ControlInv /\ ReleaseInv /\ [Next]_vars => (TypeInv /\ ControlInv /\ ReleaseInv)'
  BY NextType, NextControl, NextRelease
<1>3. TypeInv /\ ReleaseInv => NothingOutlivesConnection
  BY ReleasedAtEnd
<1> QED BY <1>1, <1>2, <1>3, PTL DEF Spec

----------------------------------------------------------------------------
(* What a finish that succeeds found.                                      *)

DrainingIsOver == loop = "draining" => sessions[current].consumer = "ended"

\* While the loop waits for the translations of a session, its recognizer stays ended.
LEMMA NextDraining == ASSUME TypeInv, ControlInv, DrainingIsOver, [Next]_vars PROVE DrainingIsOver'
<1>0. ObjectsOK /\ LoopOK
  BY TypeParts DEF TypeInv
<1>1. CASE LoopSteps \/ Send \/ UNCHANGED vars
  <2>1. UNCHANGED <<current, sessions>>
    BY <1>1, LoopStep DEF TypeInv, Send, vars
  <2>2. loop' = "draining" => loop = "draining" \/ FinishConsumer
    BY <1>1 DEF LoopSteps, Hello, Invalid, PlanOrProbe, PauseOrResume, Audio, FinishSession, FinishAsr, SocketBreaks,
                LoopEnds, TeardownDone, Fails, Idle, Send, vars, connVars
  <2> QED BY <2>1, <2>2 DEF DrainingIsOver, FinishConsumer
<1>2. CASE StartSession \/ Creating \/ FinishCloses \/ FinishTimesOut \/ TeardownSession
  <2>1. loop' # "draining"
    BY <1>2 DEF StartSession, Idle, Fails, Creating, CreateFails, CreateBuilds, StartTranslation, StartAsr, FinishCloses,
                FinishTimesOut, TeardownSession
  <2> QED BY <2>1 DEF DrainingIsOver
<1>3. CASE DrainBudgetEnds
  <2>1. current \in Started /\ sessions[current] \in Object
    BY <1>0, <1>3 DEF DrainBudgetEnds, LoopOK, ObjectsOK, TypeInv, LoopFits, FinishLoop
  <2>2. sessions'[current].consumer = sessions[current].consumer
    BY <1>0, <1>3, <2>1 DEF DrainBudgetEnds, ObjectsOK, Object
  <2>3. UNCHANGED <<loop, current>>
    BY <1>3 DEF DrainBudgetEnds, connVars
  <2> QED BY <2>2, <2>3 DEF DrainingIsOver
<1>4. ASSUME NEW t \in Started, SessionTasks(t) \/ AlignEnds(t) PROVE DrainingIsOver'
  <2> SUFFICES ASSUME loop' = "draining" PROVE sessions'[current'].consumer = "ended"
    BY DEF DrainingIsOver
  <2>1. UNCHANGED <<loop, current>>
    BY <1>4 DEF SessionTasks, Transcript, Translation, ConsumerEnds, TranslatorEnds, AlignEnds, connVars
  <2>2. current \in Started /\ sessions[current] \in Object /\ sessions[current].consumer = "ended"
    BY <1>0, <2>1 DEF LoopOK, ObjectsOK, TypeInv, LoopFits, FinishLoop, DrainingIsOver
  <2>3. sessions'[current].consumer \in {sessions[current].consumer, "ended"}
    BY <1>0, <1>4, <2>2 DEF SessionTasks, Transcript, Translation, ConsumerEnds, TranslatorEnds, AlignEnds, ObjectsOK, Object
  <2> QED BY <2>1, <2>2, <2>3
<1> QED BY <1>1, <1>2, <1>3, <1>4, NextCases

\* An alignment starts where the finish closes the session.
LEMMA AlignmentStarts ==
  ASSUME TypeInv, ControlInv, DrainingIsOver, [Next]_vars, NEW s \in Started, align[s] = "none", align'[s] = "running"
  PROVE  sessions[s].consumer = "ended" /\ sessions[s].translator # "running"
<1>0. AlignOK /\ s \in Sessions
  BY TypeParts DEF TypeInv, ObjectsOK
<1>1. CASE FinishCloses
  BY <1>0, <1>1 DEF FinishCloses, AlignOK, DrainingIsOver
<1>2. CASE LoopSteps \/ StartSession \/ Creating \/ DrainBudgetEnds \/ FinishTimesOut \/ Send \/ TeardownSession
           \/ UNCHANGED vars
  BY <1>2, LoopStep DEF TypeInv, StartSession, Creating, CreateFails, CreateBuilds, StartTranslation, StartAsr,
     DrainBudgetEnds, FinishTimesOut, Send, TeardownSession, vars
<1>3. CASE \E t \in Started : SessionTasks(t) \/ AlignEnds(t)
  BY <1>0, <1>3 DEF SessionTasks, Transcript, Translation, ConsumerEnds, TranslatorEnds, AlignEnds, AlignOK
<1> QED BY <1>1, <1>2, <1>3, NextCases

(* A session is reported finished, and its alignment started, only after   *)
(* its recognizer ended its events and its translations were drained or    *)
(* cancelled.                                                              *)
THEOREM FinishDrainsSession == Spec => FinishedWasDrained
<1> DEFINE Drained == \A s \in Started : align[s] = "none" /\ align'[s] = "running"
                        => sessions[s].consumer = "ended" /\ sessions[s].translator # "running"
<1>1. Init => TypeInv /\ ControlInv /\ DrainingIsOver
  BY InitTypeInv, InitControl DEF Init, DrainingIsOver
<1>2. TypeInv /\ ControlInv /\ DrainingIsOver /\ [Next]_vars => (TypeInv /\ ControlInv /\ DrainingIsOver)'
  BY NextType, NextControl, NextDraining
<1>3. TypeInv /\ ControlInv /\ DrainingIsOver /\ [Next]_vars => [Drained]_vars
  BY AlignmentStarts
<1> QED BY <1>1, <1>2, <1>3, PTL DEF Spec, FinishedWasDrained
=============================================================================
