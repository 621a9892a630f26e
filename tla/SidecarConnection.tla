-------------------------- MODULE SidecarConnection --------------------------
(***************************************************************************)
(* One connection of the desktop shell to the inference sidecar            *)
(* (service/server.py), the sessions it runs (service/session.py and       *)
(* pipeline.py) and the alignment that outlives them                       *)
(* (service/alignment.py); assistant requests are in AssistantTasks.  The  *)
(* command loop handles one command at a time; the consumers of a session, *)
(* the alignment of a finished one and the sender run beside it.           *)
(***************************************************************************)
EXTENDS Naturals, Sequences, SequencesExt, FiniteSets

CONSTANTS
  MaxSessions, MaxEmits  \* bounds: sessions, and events of a kind per session

ASSUME SidecarAssumption == {MaxSessions, MaxEmits} \subseteq Nat \ {0}

VARIABLES
  socket,     \* "open" or "broken"
  loop,       \* what the command loop does
  current,    \* self.session, 0 for None
  sessions,   \* every DesktopInferenceSession, in order of creation
  align,      \* _run_alignment of each session
  events,     \* the session events in the queue to the sender
  finished    \* sessions whose session_finished was sent

connVars == <<socket, loop>>
vars == <<connVars, current, sessions, align, events, finished>>

Sessions == 1..MaxSessions
NoSession == 0
Started == DOMAIN sessions
Loops == {"hello", "idle", "building", "translation", "asr", "finishing", "consumer",
          "draining", "ending", "tasks", "done"}

Event(kind, s) == [kind |-> kind, of |-> s]
SessionKinds == {"transcript", "translation", "finished"}

TypeOK ==
  /\ socket \in {"open", "broken"} /\ loop \in Loops
  /\ current \in 0..Len(sessions)
  /\ sessions \in Seq([consumer : {"none", "running", "ended"}, translator : {"none", "running", "ended"},
                       backends : SUBSET {"asr", "translation"}, spool : {"none", "open", "closed", "gone"},
                       failed : BOOLEAN, transcripts : 0..MaxEmits, translations : 0..MaxEmits])
  /\ Len(sessions) <= MaxSessions
  /\ align \in [Sessions -> {"none", "running", "ended"}]
  /\ events \in Seq([kind : SessionKinds, of : Sessions])
  /\ finished \subseteq Sessions

----------------------------------------------------------------------------
\* An exception leaves the command loop: the error is sent and run cleans up.
Fails == loop' = "ending"
Idle  == loop = "idle"

Init ==
  /\ socket = "open" /\ loop = "hello" /\ current = NoSession
  /\ sessions = <<>> /\ align = [s \in Sessions |-> "none"]
  /\ events = <<>> /\ finished = {}

\* The first command authenticates or ends the connection.
Hello ==
  /\ loop = "hello" /\ loop' \in {"idle", "ending"}
  /\ UNCHANGED <<socket, current, sessions, align, events, finished>>

\* An unknown command, malformed JSON, audio before hello.
Invalid ==
  /\ loop \in {"hello", "idle"} /\ Fails
  /\ UNCHANGED <<socket, current, sessions, align, events, finished>>

\* plan_session and probe_cloud: only without a session.
PlanOrProbe ==
  /\ Idle /\ (IF current # NoSession THEN Fails ELSE loop' \in {"idle", "ending"})
  /\ UNCHANGED <<socket, current, sessions, align, events, finished>>

PauseOrResume ==
  /\ Idle /\ (IF current = NoSession THEN Fails ELSE loop' = loop)
  /\ UNCHANGED <<socket, current, sessions, align, events, finished>>

\* A packet for no session, one that does not decode, or a backend that refuses the frame.
Audio ==
  /\ Idle
  /\ loop' \in (IF current = NoSession THEN {"ending"} ELSE {"idle", "ending"})
  /\ UNCHANGED <<socket, current, sessions, align, events, finished>>

----------------------------------------------------------------------------
(* start_session: create builds the pipeline and starts the backends.      *)

\* Mutant: a session starts beside another.
StartBeside ==
  /\ Idle /\ Len(sessions) < MaxSessions /\ loop' = "building"
  /\ sessions' = Append(sessions,
       [consumer |-> "none", translator |-> "none", backends |-> {}, spool |-> "none",
        failed |-> FALSE, transcripts |-> 0, translations |-> 0])
  /\ UNCHANGED <<socket, current, align, events, finished>>

StartSession ==
  /\ Idle
  /\ IF current # NoSession THEN Fails /\ UNCHANGED sessions
     ELSE /\ Len(sessions) < MaxSessions /\ loop' = "building"
          /\ sessions' = Append(sessions,
               [consumer |-> "none", translator |-> "none", backends |-> {}, spool |-> "none",
                failed |-> FALSE, transcripts |-> 0, translations |-> 0])
  /\ UNCHANGED <<socket, current, align, events, finished>>

New == Len(sessions)

CreateFails ==
  /\ loop \in {"building", "translation", "asr"} /\ Fails
  /\ sessions' = [sessions EXCEPT ![New].failed = TRUE]
  /\ UNCHANGED <<socket, current, align, events, finished>>

\* The route is chosen; with alignment the spool file is created.
CreateBuilds ==
  /\ loop = "building" /\ loop' = "translation"
  /\ \E spool \in {"none", "open"} : sessions' = [sessions EXCEPT ![New].spool = spool]
  /\ UNCHANGED <<socket, current, align, events, finished>>

\* pipeline.start: the translation backend first, when there is one.
StartTranslation ==
  /\ loop = "translation" /\ loop' = "asr"
  /\ \E some \in BOOLEAN :
       sessions' = [sessions EXCEPT ![New].backends = IF some THEN {"translation"} ELSE {}]
  /\ UNCHANGED <<socket, current, align, events, finished>>

\* Then the recognizer and the consumers; ready is sent.  A broken socket ends the loop
\* with the session already in place.
StartAsr ==
  /\ loop = "asr" /\ current' = New
  /\ sessions' = [sessions EXCEPT ![New].backends = @ \cup {"asr"}, ![New].consumer = "running",
                    ![New].translator = IF "translation" \in sessions[New].backends THEN "running" ELSE "none"]
  /\ loop' = IF socket = "broken" THEN "ending" ELSE "idle"
  /\ UNCHANGED <<socket, align, events, finished>>

----------------------------------------------------------------------------
(* The session's own tasks.                                                *)

Emits(s, kind) == events' = Append(events, Event(kind, s))

\* _consume_events writes a transcript event and submits it.
Transcript(s) ==
  /\ sessions[s].consumer = "running" /\ sessions[s].transcripts < MaxEmits
  /\ sessions' = [sessions EXCEPT ![s].transcripts = @ + 1] /\ Emits(s, "transcript")
  /\ UNCHANGED <<connVars, current, align, finished>>

Translation(s) ==
  /\ sessions[s].translator = "running" /\ sessions[s].translations < sessions[s].transcripts
  /\ sessions' = [sessions EXCEPT ![s].translations = @ + 1] /\ Emits(s, "translation")
  /\ UNCHANGED <<connVars, current, align, finished>>

\* The recognizer's events end, after finish_session or because it gave up.
ConsumerEnds(s) ==
  /\ sessions[s].consumer = "running"
  /\ sessions' = [sessions EXCEPT ![s].consumer = "ended"]
  /\ UNCHANGED <<connVars, current, align, events, finished>>

TranslatorEnds(s) ==
  /\ sessions[s].translator = "running" /\ sessions[s].consumer = "ended"
  /\ sessions' = [sessions EXCEPT ![s].translator = "ended"]
  /\ UNCHANGED <<connVars, current, align, events, finished>>

----------------------------------------------------------------------------
(* finish_session, within ten seconds.                                     *)

FinishSession ==
  /\ Idle /\ loop' = IF current = NoSession THEN "ending" ELSE "finishing"
  /\ UNCHANGED <<socket, current, sessions, align, events, finished>>

\* close: tasks cancelled and gathered, backends and the sink closed.
ClosedSession(object) ==
  [object EXCEPT !.consumer = IF @ = "running" THEN "ended" ELSE @,
                 !.translator = IF @ = "running" THEN "ended" ELSE @,
                 !.backends = {}, !.spool = IF @ = "open" THEN "closed" ELSE @]

\* Session.close also discards the spool.
DiscardedSession(object) ==
  [ClosedSession(object) EXCEPT !.spool = IF @ = "none" THEN @ ELSE "gone"]

\* asr.finish_session returned; or the tail or the finish was refused.
FinishAsr ==
  /\ loop = "finishing" /\ loop' \in {"consumer", "ending"}
  /\ UNCHANGED <<socket, current, sessions, align, events, finished>>

FinishConsumer ==
  /\ loop = "consumer" /\ sessions[current].consumer = "ended" /\ loop' = "draining"
  /\ UNCHANGED <<socket, current, sessions, align, events, finished>>

\* The budget of _await_translation_consumer ends: the task is cancelled and awaited.
DrainBudgetEnds ==
  /\ loop = "draining" /\ sessions[current].translator = "running"
  /\ sessions' = [sessions EXCEPT ![current].translator = "ended"]
  /\ UNCHANGED <<connVars, current, align, events, finished>>

\* session_finished goes through the queue; the alignment runs in the background.
FinishCloses ==
  /\ loop = "draining" /\ sessions[current].translator # "running" /\ loop' = "idle"
  /\ sessions' = [sessions EXCEPT ![current] = ClosedSession(@)]
  /\ Emits(current, "finished") /\ current' = NoSession
  /\ align' = [align EXCEPT ![current] = "running"]
  /\ UNCHANGED <<socket, finished>>

FinishTimesOut ==
  /\ loop \in {"finishing", "consumer", "draining"} /\ Fails
  \* The await of the consumer passes the cancellation on to it.
  /\ sessions' = [sessions EXCEPT ![current].consumer = IF loop = "consumer" THEN "ended" ELSE @]
  /\ UNCHANGED <<socket, current, align, events, finished>>

----------------------------------------------------------------------------
(* The alignment of a finished session.                                    *)

\* Mutant: the spool is not discarded.
AlignForgetsSpool(s) ==
  /\ align[s] = "running" /\ align' = [align EXCEPT ![s] = "ended"]
  /\ UNCHANGED <<connVars, current, sessions, events, finished>>

\* Done or failed, the spool is discarded; a failure is reported.
AlignEnds(s) ==
  /\ align[s] = "running" /\ align' = [align EXCEPT ![s] = "ended"]
  /\ sessions' = [sessions EXCEPT ![s].spool = IF @ = "none" THEN @ ELSE "gone"]
  /\ UNCHANGED <<connVars, current, events, finished>>

----------------------------------------------------------------------------
(* The socket, the sender and the end of run.                              *)

SocketBreaks ==
  /\ socket = "open" /\ socket' = "broken"
  /\ UNCHANGED <<loop, current, sessions, align, events, finished>>

\* shutdown closes the socket, too.
LoopEnds ==
  /\ socket = "broken" /\ loop \in {"hello", "idle"} /\ loop' = "ending"
  /\ UNCHANGED <<socket, current, sessions, align, events, finished>>

Send ==
  /\ events # <<>> /\ socket = "open" /\ loop # "done"
  /\ events' = Tail(events)
  /\ finished' = finished \cup (IF Head(events).kind = "finished" THEN {Head(events).of} ELSE {})
  /\ UNCHANGED <<connVars, current, sessions, align>>

\* finally: close the session and cancel the background tasks,
TeardownSession ==
  /\ loop = "ending" /\ loop' = "tasks"
  /\ sessions' = [s \in Started |-> IF s = current THEN DiscardedSession(sessions[s])
                                    ELSE sessions[s]]
  /\ UNCHANGED <<socket, current, align, events, finished>>

\* Mutant: run waits for an empty queue.
TeardownFlushes ==
  /\ loop = "tasks" /\ loop' = "done" /\ events = <<>>
  /\ \A s \in Sessions : align[s] # "running"
  /\ UNCHANGED <<socket, current, sessions, align, events, finished>>

\* wait for them and cancel the sender.
TeardownDone ==
  /\ loop = "tasks" /\ loop' = "done"
  /\ \A s \in Sessions : align[s] # "running"
  /\ UNCHANGED <<socket, current, sessions, align, events, finished>>

----------------------------------------------------------------------------
Finishing == FinishAsr \/ FinishConsumer \/ DrainBudgetEnds \/ FinishCloses \/ FinishTimesOut
Creating  == CreateFails \/ CreateBuilds \/ StartTranslation \/ StartAsr
Teardown  == TeardownSession \/ TeardownDone

Commands == Hello \/ Invalid \/ PlanOrProbe \/ PauseOrResume \/ Audio \/ StartSession \/ FinishSession
SessionTasks(s) == Transcript(s) \/ Translation(s) \/ ConsumerEnds(s) \/ TranslatorEnds(s)

Next ==
  \/ Commands \/ Creating \/ Finishing \/ Teardown \/ SocketBreaks \/ LoopEnds \/ Send
  \/ \E s \in Started : SessionTasks(s) \/ AlignEnds(s)

\* Nothing is assumed of the shell or of the recognizer.  A build ends or fails, the
\* timeouts of the finish and of the backends' closes expire, tasks run when they can.
Fairness ==
  /\ WF_vars(Creating) /\ WF_vars(FinishTimesOut) /\ WF_vars(Teardown) /\ WF_vars(LoopEnds)
  /\ \A s \in Sessions : WF_vars(s \in Started /\ AlignEnds(s))

Spec == Init /\ [][Next]_vars
FairSpec == Spec /\ Fairness
----------------------------------------------------------------------------
(* "Through the ordered event queue, so it follows the last transcript and *)
(* translation events that finish() enqueued": once session_finished is    *)
(* queued or sent, no transcript or translation of that session follows,   *)
(* and none can still be produced.                                         *)
FinishedIsLast ==
  /\ \A i, j \in DOMAIN events : i < j /\ events[i].kind = "finished" /\ events[j].of = events[i].of
       => events[j].kind \notin {"transcript", "translation"}
  /\ \A s \in finished : \A i \in DOMAIN events :
       events[i].kind \in {"transcript", "translation"} => events[i].of # s
  /\ \A s \in Started : align[s] # "none" => sessions[s].consumer # "running" /\ sessions[s].translator # "running"

(* A finished session has handed over everything: its recognizer ended its *)
(* events before the session was reported finished.                        *)
FinishedWasDrained ==
  [][\A s \in Started : align[s] = "none" /\ align'[s] = "running"
       => sessions[s].consumer = "ended" /\ sessions[s].translator # "running"]_vars

(* When run has returned, nothing of the connection is left: no task, no   *)
(* open backend and no spool file, whatever ended it, except for what a    *)
(* start that failed had already opened (see the README).                  *)
NothingOutlivesConnection ==
  loop = "done" => \A s \in Started :
    /\ sessions[s].consumer # "running" /\ sessions[s].translator # "running" /\ align[s] # "running"
    /\ ~sessions[s].failed => sessions[s].backends = {} /\ sessions[s].spool \in {"none", "gone"}

(* Two sessions never run at once on a connection, although the alignment  *)
(* of the last one may still be running.                                   *)
OneSessionRuns ==
  Cardinality({s \in Started : sessions[s].consumer = "running" \/ sessions[s].translator = "running"}) <= 1

(* A connection that breaks or is refused ends, whatever the loop waits    *)
(* for: a build, a finish that does not return or an alignment.            *)
ConnectionEnds == (socket = "broken" \/ loop = "ending") ~> (loop = "done")

(* A finish ends, with the session over or the connection given up.        *)
FinishEnds == (loop \in {"finishing", "consumer", "draining"}) ~> (loop \in {"idle", "ending"})

(* The types; one session at a time, and nothing of it after its end.      *)
SessionsAreOrderly == TypeOK /\ OneSessionRuns /\ FinishedIsLast

(* A finish that succeeds drained its session, and every finish and every  *)
(* connection ends.                                                        *)
FinishesProperly == FinishedWasDrained /\ FinishEnds /\ ConnectionEnds
=============================================================================
