-------------------------- MODULE SessionLifecycle --------------------------
(***************************************************************************)
(* One live session from Start to Stop as the desktop shell runs it: the   *)
(* core's phase and revision, the Tauri commands start, pause, resume and  *)
(* stop, the audio slot with its pump, the connection to the inference     *)
(* sidecar and the sidecar's command loop, the transcript store's row.     *)
(*                                                                         *)
(* The commands are asynchronous: each of their steps ends where the code  *)
(* awaits.  The window runs one command at a time (its action-pending      *)
(* flag), on the snapshot it last saw; beside it run the closing of the    *)
(* main window, the audio source's events, settings changes, and a sidecar *)
(* that may fail at any time.  A session is its number.                    *)
(***************************************************************************)
EXTENDS Integers, Sequences

CONSTANTS
  MaxSession,   \* bound: sessions started
  MaxToggle,    \* bound: pauses and resumes
  MaxFault,     \* bound: device losses, sidecar deaths and launches, settings
  WindowCloses  \* whether the main window may be closed

ASSUME ConstantsAssumption ==
  /\ MaxSession \in Nat \ {0}
  /\ MaxToggle \in Nat
  /\ MaxFault \in Nat
  /\ WindowCloses \in BOOLEAN

VARIABLES
  phase, session, rev, degraded,  \* the core's snapshot
  started,    \* sessions started so far
  seen,       \* the snapshot the window shows
  job,        \* the commands in progress: the window's, and the closing
  heard,      \* what each of them has received from the sidecar
  planned,    \* answer to the route plan request
  mic,        \* the audio slot
  pumping,    \* the capture's pump forwards frames
  leftover,   \* frames of a stopped capture are still to be forwarded
  removal,    \* a device loss its event task has not handled yet
  link,       \* the sidecar connection
  serving,    \* session the sidecar serves, 0 for none
  held,       \* the sidecar drops the audio it receives
  pending,    \* commands and audio on their way to the sidecar
  stale,      \* the sidecar runs with outdated settings
  notice,     \* a disconnect the event forwarder has not handled yet
  refused,    \* what the sidecar refused before any connection was lost
  disrupted,  \* a connection was lost
  failure,    \* why the last start failed
  store,      \* status of each session's row
  toggles, faults

coreVars    == <<phase, session, rev, degraded>>
windowVars  == <<started, seen, toggles>>
jobVars     == <<job, heard, planned>>
audioVars   == <<mic, pumping, leftover, removal>>
sidecarVars == <<link, serving, held, pending, stale, notice, refused,
                 disrupted>>
recordVars  == <<failure, store>>
vars == <<coreVars, windowVars, jobVars, audioVars, sidecarVars, recordVars,
          faults>>

Sessions == 1..MaxSession
Workers  == {"window", "close"}
NoJob    == [op |-> "none", at |-> "none", session |-> 0, expected |-> 0]
NoMic    == [state |-> "none", owner |-> 0]

Init ==
  /\ phase = "idle" /\ session = 0 /\ rev = 0 /\ degraded = FALSE
  /\ started = 0 /\ seen = [phase |-> "idle", rev |-> 0] /\ toggles = 0
  /\ job = [w \in Workers |-> NoJob]
  /\ heard = [w \in Workers |-> "none"] /\ planned = "none"
  /\ mic = NoMic /\ pumping = FALSE /\ leftover = FALSE /\ removal = FALSE
  /\ link = "down" /\ serving = 0 /\ held = FALSE /\ pending = <<>>
  /\ stale = FALSE /\ notice = FALSE /\ refused = "none" /\ disrupted = FALSE
  /\ failure = "none" /\ store = [s \in Sessions |-> "none"]
  /\ faults = 0

-----------------------------------------------------------------------------
\* Helpers

At(w, op, at) == job[w].op = op /\ job[w].at = at
Goto(w, at)   == job' = [job EXCEPT ![w].at = at]
Return(w)     == job' = [job EXCEPT ![w] = NoJob]
Running(w)    == job[w].op # "none"

\* The core's transitions, each of which makes a new revision of the snapshot.
Enter(p) == phase' = p /\ rev' = rev + 1

\* A command that succeeds returns the snapshot to the window.
Show == seen' = [phase |-> phase', rev |-> rev']

\* Mutant of Send: a broken connection keeps what it is given.
SendAnyway(op, s) == pending' = Append(pending, [op |-> op, session |-> s])

\* Sending fails only when the supervisor knows the connection is gone; what
\* is sent into a connection that just broke is lost.
Reachable == link # "down"
Send(op, s) ==
  pending' = IF link = "up"
             THEN Append(pending, [op |-> op, session |-> s]) ELSE pending

\* Stop and release the audio source; its pump still forwards what it holds.
ReleaseAudio ==
  /\ mic' = NoMic
  /\ pumping' = FALSE
  /\ leftover' = (leftover \/ (pumping /\ mic.state \in {"running", "paused"}))
  /\ UNCHANGED removal

\* An error event, whoever caused it, reaches a start that waits for the
\* sidecar; the wait for the plan listens later than the wait for Ready.
Report(cause) ==
  /\ heard' = [w \in Workers |->
                 IF job[w].op = "start" /\ heard[w] = "none"
                 THEN cause ELSE heard[w]]
  /\ planned' = IF At("window", "start", "planning") /\ planned = "none"
                THEN "error" ELSE planned

-----------------------------------------------------------------------------
\* start_session

UiStart ==
  /\ ~Running("window") /\ ~Running("close")
  /\ started < MaxSession
  /\ seen.phase \in {"idle", "completed"}
  /\ seen.rev = rev
  /\ phase \in {"idle", "completed"}
  /\ started' = started + 1
  /\ session' = started'
  /\ Enter("starting")
  /\ degraded' = FALSE
  /\ job' = [job EXCEPT !["window"] =
               [op |-> "start", at |-> "launching", session |-> started',
                expected |-> rev']]
  /\ heard' = [heard EXCEPT !["window"] = "none"]
  /\ planned' = "none"
  /\ failure' = "none"
  /\ UNCHANGED <<seen, toggles, audioVars, sidecarVars, store, faults>>

StartFails(why) ==
  /\ Goto("window", "failing")
  /\ failure' = why

\* ensure_sidecar launches a sidecar if there is none, and the plan request
\* follows.  A running one is used as it is: an outdated one too, while an
\* assistant job uses it.
Launch ==
  /\ At("window", "start", "launching")
  /\ \/ /\ link' = IF link = "down" THEN "up" ELSE link
        /\ stale' = (stale /\ link # "down")
        /\ pending' = IF link' = "up"
                      THEN Append(pending, [op |-> "plan", session |-> session])
                      ELSE pending
        /\ Goto("window", "planning")
        /\ UNCHANGED failure
     \/ /\ link = "down"
        /\ StartFails("launch")
        /\ stale' = FALSE
        /\ UNCHANGED <<link, pending>>
  /\ UNCHANGED <<coreVars, windowVars, heard, planned, audioVars, serving, held,
                 notice, refused, disrupted, store, faults>>

\* An outdated sidecar is restarted.  Its old connection reports the loss
\* unless the new one is already being made.
Relaunch ==
  /\ At("window", "start", "launching")
  /\ stale /\ link # "down"
  /\ \E reported \in BOOLEAN :
       /\ heard' = IF reported
                   THEN [heard EXCEPT !["window"] = "restart"] ELSE heard
       /\ notice' = (notice \/ reported)
  /\ stale' = FALSE
  /\ serving' = 0 /\ held' = FALSE
  /\ \/ /\ link' = "up"
        /\ pending' = <<[op |-> "plan", session |-> session]>>
        /\ Goto("window", "planning")
        /\ UNCHANGED failure
     \/ /\ link' = "down"
        /\ pending' = <<>>
        /\ StartFails("launch")
  /\ UNCHANGED <<coreVars, windowVars, planned, audioVars, refused, disrupted,
                 store, faults>>

\* The plan arrives and the services it needs run, or the start fails: on an
\* error, after 20 seconds, or because a service does not start.
Planned ==
  /\ At("window", "start", "planning")
  /\ \/ /\ planned = "plan" /\ Reachable
        /\ Send("start", job["window"].session)
        /\ Goto("window", "readying")
        /\ UNCHANGED failure
     \/ /\ StartFails(CASE planned = "none"  -> "timeout"
                        [] planned = "error" -> "plan"
                        [] planned = "plan"  -> "services")
        /\ UNCHANGED pending
  /\ UNCHANGED <<coreVars, windowVars, heard, planned, audioVars, link, serving,
                 held, stale, notice, refused, disrupted, store, faults>>

\* The first of Ready and an error decides, or the 20 seconds run out.
Answered ==
  /\ At("window", "start", "readying")
  /\ IF heard["window"] = "ready"
     THEN Goto("window", "opening") /\ UNCHANGED failure
     ELSE StartFails(IF heard["window"] = "none" THEN "timeout"
                                                 ELSE heard["window"])
  /\ UNCHANGED <<coreVars, windowVars, heard, planned, audioVars, sidecarVars,
                 store, faults>>

\* start_audio_capture: the source starts, and takes the slot if it is free.
OpenSucceeds(s) ==
  /\ mic.state = "none"
  /\ mic' = [state |-> "running", owner |-> s]
  /\ pumping' = TRUE
  /\ UNCHANGED <<leftover, removal>>

Opened ==
  /\ At("window", "start", "opening")
  /\ \/ /\ OpenSucceeds(job["window"].session)
        /\ Goto("window", "marking")
        /\ UNCHANGED failure
     \/ /\ StartFails("audio")
        /\ UNCHANGED audioVars
  /\ UNCHANGED <<coreVars, windowVars, heard, planned, sidecarVars, store,
                 faults>>

\* mark_listening checks the phase only; its error leaves everything as it is.
MarkListening ==
  /\ At("window", "start", "marking")
  /\ IF phase = "starting"
     THEN /\ Enter("listening")
          /\ job' = [job EXCEPT !["window"].at = "storing",
                               !["window"].expected = rev']
     ELSE Return("window") /\ UNCHANGED <<phase, rev>>
  /\ UNCHANGED <<session, degraded, windowVars, heard, planned, audioVars,
                 sidecarVars, recordVars, faults>>

\* create_session; a storage error is returned while the session goes on.  The
\* window takes the returned snapshot unless it has a newer one of that phase.
CreateRow ==
  /\ At("window", "start", "storing")
  /\ LET listening == [phase |-> "listening", rev |-> job["window"].expected] IN
       \/ /\ store' = [store EXCEPT ![job["window"].session] = "active"]
          /\ seen' = IF seen.phase = "listening" /\ seen.rev >= listening.rev
                     THEN seen ELSE listening
       \/ UNCHANGED <<store, seen>>
  /\ Return("window")
  /\ UNCHANGED <<coreVars, started, toggles, heard, planned, audioVars,
                 sidecarVars, failure, faults>>

\* The error path: stop_audio_capture, then fail_start.
FailStart ==
  /\ At("window", "start", "failing")
  /\ ReleaseAudio
  /\ IF phase = "starting"
     THEN /\ Enter("idle")
          /\ session' = 0
          /\ Show
     ELSE UNCHANGED <<phase, rev, session, seen>>
  /\ Return("window")
  /\ UNCHANGED <<degraded, started, toggles, heard, planned, sidecarVars,
                 recordVars, faults>>

-----------------------------------------------------------------------------
\* pause_session and resume_session: the source and the sidecar first, the
\* core's check of the window's revision last.

UiToggle(op, from, first) ==
  /\ ~Running("window") /\ ~Running("close")
  /\ toggles < MaxToggle
  /\ seen.phase = from
  /\ toggles' = toggles + 1
  /\ job' = [job EXCEPT !["window"] =
               [op |-> op, at |-> first, session |-> 0, expected |-> seen.rev]]
  /\ UNCHANGED <<coreVars, started, seen, heard, planned, audioVars,
                 sidecarVars, recordVars, faults>>

UiPause  == UiToggle("pause", "listening", "muting")
UiResume == UiToggle("resume", "paused", "replacing")

\* A source that cannot be paused ends the command in an error.
Mute ==
  /\ At("window", "pause", "muting")
  /\ \/ /\ mic' = IF mic.state = "running"
                   THEN [mic EXCEPT !.state = "paused"] ELSE mic
        /\ Goto("window", "sending")
     \/ mic.state = "running" /\ Return("window") /\ UNCHANGED mic
  /\ UNCHANGED <<coreVars, windowVars, heard, planned, pumping, leftover, removal,
                 sidecarVars, recordVars, faults>>

\* restart_failed_audio_capture: only a source that is there and has failed is
\* replaced; when none can be opened, the slot stays empty.
Replace ==
  /\ At("window", "resume", "replacing")
  /\ IF mic.state = "failed"
     THEN ReleaseAudio /\ Goto("window", "reopening")
     ELSE Goto("window", "sending") /\ UNCHANGED audioVars
  /\ UNCHANGED <<coreVars, windowVars, heard, planned, sidecarVars, recordVars,
                 faults>>

Reopened ==
  /\ At("window", "resume", "reopening")
  /\ \/ OpenSucceeds(session) /\ Goto("window", "sending")
     \/ Return("window") /\ UNCHANGED audioVars
  /\ UNCHANGED <<coreVars, windowVars, heard, planned, sidecarVars, recordVars,
                 faults>>

SendToggle ==
  /\ job["window"].at = "sending"
  /\ IF Reachable /\ session # 0
     THEN /\ Send(job["window"].op, session)
          /\ Goto("window", IF job["window"].op = "pause" THEN "checking"
                                                         ELSE "unmuting")
     ELSE Return("window") /\ UNCHANGED pending
  /\ UNCHANGED <<coreVars, windowVars, heard, planned, audioVars, link, serving,
                 held, stale, notice, refused, disrupted, recordVars, faults>>

\* A source that failed meanwhile, or does not play, ends it in an error too.
Unmute ==
  /\ At("window", "resume", "unmuting")
  /\ \/ /\ mic.state # "failed"
        /\ mic' = IF mic.state = "paused"
                  THEN [mic EXCEPT !.state = "running"] ELSE mic
        /\ Goto("window", "checking")
     \/ mic.state \in {"paused", "failed"} /\ Return("window") /\ UNCHANGED mic
  /\ UNCHANGED <<coreVars, windowVars, heard, planned, pumping, leftover, removal,
                 sidecarVars, recordVars, faults>>

CheckToggle ==
  /\ job["window"].at = "checking"
  /\ LET pausing == job["window"].op = "pause" IN
       IF rev = job["window"].expected
          /\ phase = IF pausing THEN "listening" ELSE "paused"
       THEN /\ Enter(IF pausing THEN "paused" ELSE "listening")
            /\ degraded' = (degraded /\ pausing)
            /\ Show
       ELSE UNCHANGED <<phase, rev, degraded, seen>>
  /\ Return("window")
  /\ UNCHANGED <<session, started, toggles, heard, planned, audioVars,
                 sidecarVars, recordVars, faults>>

-----------------------------------------------------------------------------
\* stop_session, and shutdown_application when the main window closes

Stoppable == phase \in {"starting", "listening", "paused"}

\* begin_stop, then the steps both share.
BeginStop(w) ==
  /\ Enter("stopping")
  /\ job' = [job EXCEPT ![w] = [op |-> "stop", at |-> "silencing",
                                session |-> session, expected |-> 0]]
  /\ heard' = [heard EXCEPT ![w] = "none"]
  /\ UNCHANGED <<session, degraded>>

UiStop ==
  /\ ~Running("window") /\ ~Running("close")
  /\ seen.phase \in {"starting", "listening", "paused"}
  /\ seen.rev = rev /\ Stoppable
  /\ BeginStop("window")
  /\ UNCHANGED <<windowVars, planned, audioVars, sidecarVars, recordVars, faults>>

Close ==
  /\ WindowCloses
  /\ ~Running("close")
  /\ IF Stoppable
     THEN BeginStop("close") /\ UNCHANGED audioVars
     ELSE /\ ReleaseAudio
          /\ job' = [job EXCEPT !["close"] =
                       [NoJob EXCEPT !.op = "stop", !.at = "leaving"]]
          /\ UNCHANGED <<coreVars, heard>>
  /\ UNCHANGED <<windowVars, planned, sidecarVars, recordVars, faults>>

Silence(w) ==
  /\ At(w, "stop", "silencing")
  /\ ReleaseAudio
  /\ Goto(w, "finishing")
  /\ UNCHANGED <<coreVars, windowVars, heard, planned, sidecarVars, recordVars,
                 faults>>

\* Mutant of SendFinish: the sidecar is not told.
FinishUnsent(w) ==
  /\ At(w, "stop", "finishing")
  /\ Goto(w, "completing")
  /\ UNCHANGED <<coreVars, windowVars, heard, planned, audioVars, sidecarVars,
                 recordVars, faults>>

SendFinish(w) ==
  /\ At(w, "stop", "finishing")
  /\ IF Reachable
     THEN Send("finish", job[w].session) /\ Goto(w, "acking")
     ELSE Goto(w, "completing") /\ UNCHANGED pending
  /\ UNCHANGED <<coreVars, windowVars, heard, planned, audioVars, link, serving,
                 held, stale, notice, refused, disrupted, recordVars, faults>>

\* Mutant of Acknowledged: Stop waits as long as it takes.
AcknowledgedOnly(w) ==
  /\ At(w, "stop", "acking")
  /\ heard[w] = "finished"
  /\ Goto(w, "completing")
  /\ UNCHANGED <<coreVars, windowVars, heard, planned, audioVars, sidecarVars,
                 recordVars, faults>>

\* The acknowledgement, or the end of the time Stop waits for it.
Acknowledged(w) ==
  /\ At(w, "stop", "acking")
  /\ Goto(w, "completing")
  /\ UNCHANGED <<coreVars, windowVars, heard, planned, audioVars, sidecarVars,
                 recordVars, faults>>

Complete(w) ==
  /\ At(w, "stop", "completing")
  /\ Enter("completed")
  /\ Goto(w, "recording")
  /\ UNCHANGED <<session, degraded, windowVars, heard, planned, audioVars,
                 sidecarVars, recordVars, faults>>

\* complete_session updates the row if there is one.
Record(w) ==
  /\ At(w, "stop", "recording")
  /\ LET s == job[w].session IN
       store' = IF store[s] = "none" THEN store
                ELSE [store EXCEPT ![s] = IF heard[w] = "finished"
                                          THEN "completed" ELSE "warned"]
  /\ UNCHANGED coreVars
  /\ IF w = "close" THEN Goto(w, "leaving") /\ UNCHANGED seen
                    ELSE Return(w) /\ Show
  /\ UNCHANGED <<started, toggles, heard, planned, audioVars,
                 sidecarVars, failure, faults>>

\* The end of shutdown_application: the sidecar is shut down for good.
Leave ==
  /\ At("close", "stop", "leaving")
  /\ link' = "down" /\ serving' = 0 /\ held' = FALSE /\ pending' = <<>>
  /\ notice' = (notice \/ link # "down")
  /\ Report("lost")
  /\ Goto("close", "gone")
  /\ UNCHANGED <<coreVars, windowVars, audioVars, stale, refused, disrupted,
                 recordVars, faults>>

-----------------------------------------------------------------------------
\* Audio

\* At most one packet waits at a time.  A pump ends at its first failed send.
SendAudio ==
  /\ pumping /\ mic.state = "running"
  /\ IF Reachable
     THEN /\ \A i \in DOMAIN pending : pending[i].op # "audio"
          /\ Send("audio", 0)
          /\ UNCHANGED pumping
     ELSE pumping' = FALSE /\ UNCHANGED pending
  /\ UNCHANGED <<coreVars, windowVars, jobVars, mic, leftover, removal, link,
                 serving, held, stale, notice, refused, disrupted, recordVars,
                 faults>>

\* The pump of a released capture forwards a last frame, or has none.
DrainAudio ==
  /\ leftover
  /\ leftover' = FALSE
  /\ Send("audio", 0) \/ UNCHANGED pending
  /\ UNCHANGED <<coreVars, windowVars, jobVars, mic, pumping, removal, link,
                 serving, held, stale, notice, refused, disrupted, recordVars,
                 faults>>

DeviceFails ==
  /\ faults < MaxFault
  /\ faults' = faults + 1
  /\ mic.state \in {"running", "paused"}
  /\ mic' = [mic EXCEPT !.state = "failed"]
  /\ removal' = TRUE
  /\ UNCHANGED <<coreVars, windowVars, jobVars, pumping, leftover, sidecarVars,
                 recordVars>>

\* Mutants of HandleRemoval: the sidecar is paused in any phase, or never.
RemovalPausesAnyPhase ==
  /\ removal
  /\ removal' = FALSE
  /\ IF phase = "listening" THEN Enter("paused") ELSE UNCHANGED <<phase, rev>>
  /\ Send("pause", session)
  /\ UNCHANGED <<session, degraded, windowVars, jobVars, mic, pumping, leftover,
                 link, serving, held, stale, notice, refused, disrupted,
                 recordVars, faults>>
\* Mutant: only the core pauses.
RemovalPausesCoreOnly ==
  /\ removal
  /\ removal' = FALSE
  /\ phase = "listening" /\ Enter("paused")
  /\ UNCHANGED <<session, degraded, windowVars, jobVars, mic, pumping, leftover,
                 sidecarVars, recordVars, faults>>

\* forward_audio_events: a device loss pauses a session that listens.
HandleRemoval ==
  /\ removal
  /\ removal' = FALSE
  /\ IF phase = "listening"
     THEN Enter("paused") /\ Send("pause", session)
     ELSE UNCHANGED <<phase, rev, pending>>
  /\ UNCHANGED <<session, degraded, windowVars, jobVars, mic, pumping, leftover,
                 link, serving, held, stale, notice, refused, disrupted,
                 recordVars, faults>>

-----------------------------------------------------------------------------
\* The sidecar

\* What the command loop accepts: a plan or a start while it serves nothing,
\* everything else while it serves a session.
Accepts(op) == IF op \in {"plan", "start"} THEN serving = 0 ELSE serving # 0

\* An error ends the connection, and with it the session it serves.
EndConnection ==
  /\ link' = "broken"
  /\ disrupted' = TRUE
  /\ serving' = 0 /\ held' = FALSE /\ pending' = <<>>
  /\ UNCHANGED <<stale, notice>>

Serve ==
  /\ link = "up" /\ pending # <<>>
  /\ LET command == Head(pending) IN
       /\ Accepts(command.op)
       /\ pending' = Tail(pending)
       /\ serving' = CASE command.op = "start"  -> command.session
                       [] command.op = "finish" -> 0
                       [] OTHER                 -> serving
       /\ held' = (command.op = "pause"
                   \/ (held /\ command.op \notin {"resume", "start", "finish"}))
       /\ planned' = IF command.op = "plan" /\ planned = "none"
                        /\ At("window", "start", "planning")
                        /\ job["window"].session = command.session
                     THEN "plan" ELSE planned
       /\ heard' = [w \in Workers |->
            IF job[w].session # command.session \/ heard[w] # "none" THEN heard[w]
            ELSE IF job[w].op = "start" /\ command.op = "start" THEN "ready"
            ELSE IF job[w].op = "stop" /\ command.op = "finish" THEN "finished"
            ELSE heard[w]]
  /\ UNCHANGED <<coreVars, windowVars, job, audioVars, link, stale, notice,
                 refused, disrupted, recordVars, faults>>

\* A command it does not accept, a session that cannot be created and a finish
\* that takes too long end the connection after an error event.
Refuse ==
  /\ link = "up" /\ pending # <<>>
  /\ LET command == Head(pending) IN
       \/ /\ ~Accepts(command.op)
          /\ refused' = IF disrupted THEN refused ELSE command.op
       \/ /\ Accepts(command.op)
          /\ command.op \in {"start", "finish"}
          /\ UNCHANGED refused
  /\ EndConnection
  /\ Report("refused")
  /\ UNCHANGED <<coreVars, windowVars, job, audioVars, recordVars, faults>>

Crash ==
  /\ faults < MaxFault
  /\ faults' = faults + 1
  /\ link = "up"
  /\ EndConnection
  /\ UNCHANGED <<coreVars, windowVars, jobVars, audioVars, refused, recordVars>>

\* The supervisor notices that the connection has ended.
Disconnected ==
  /\ link = "broken"
  /\ link' = "down"
  /\ Report("lost")
  /\ notice' = TRUE
  /\ UNCHANGED <<coreVars, windowVars, job, audioVars, serving, held, pending,
                 stale, refused, disrupted, recordVars, faults>>

\* forward_sidecar_events: a session that listens is shown as reconnecting.
ForwardDisconnect ==
  /\ notice
  /\ notice' = FALSE
  /\ IF phase = "listening"
     THEN degraded' = TRUE /\ rev' = rev + 1
     ELSE UNCHANGED <<degraded, rev>>
  /\ UNCHANGED <<phase, session, windowVars, jobVars, audioVars, link, serving,
                 held, pending, stale, refused, disrupted, recordVars, faults>>

\* A credential probe or an assistant job launches a sidecar when none runs.
BackgroundLaunch ==
  /\ faults < MaxFault
  /\ faults' = faults + 1
  /\ link = "down" /\ job["close"].at # "gone"
  /\ ~At("window", "start", "launching")
  /\ link' = "up" /\ stale' = FALSE
  /\ UNCHANGED <<coreVars, windowVars, jobVars, audioVars, serving, held,
                 pending, notice, refused, disrupted, recordVars>>

\* Saved settings restart an idle sidecar at once; beside a session they wait.
SettingsChange ==
  /\ faults < MaxFault
  /\ faults' = faults + 1
  /\ link # "down"
  /\ IF phase \in {"idle", "completed"}
     THEN /\ link' = "down" /\ stale' = FALSE
          /\ serving' = 0 /\ held' = FALSE /\ pending' = <<>>
          /\ notice' = TRUE
          /\ Report("lost")
     ELSE /\ stale' = TRUE
          /\ UNCHANGED <<link, serving, held, pending, notice, heard, planned>>
  /\ UNCHANGED <<coreVars, windowVars, job, audioVars, refused, disrupted,
                 recordVars>>

-----------------------------------------------------------------------------
\* The window shows the core's latest snapshot, sooner or later.
Refresh ==
  /\ seen # [phase |-> phase, rev |-> rev]
  /\ seen' = [phase |-> phase, rev |-> rev]
  /\ UNCHANGED <<coreVars, started, toggles, jobVars, audioVars, sidecarVars,
                 recordVars, faults>>

-----------------------------------------------------------------------------
User == UiStart \/ UiPause \/ UiResume \/ UiStop \/ Close

Start == Launch \/ Relaunch \/ Planned \/ Answered \/ Opened \/ MarkListening
         \/ CreateRow \/ FailStart

Toggle == Mute \/ Replace \/ Reopened \/ SendToggle \/ Unmute \/ CheckToggle

Stop(w) == Silence(w) \/ SendFinish(w) \/ Acknowledged(w) \/ Complete(w)
           \/ Record(w)

Audio == SendAudio \/ DrainAudio \/ HandleRemoval

Sidecar == Serve \/ Refuse \/ Disconnected

Next ==
  \/ User
  \/ Start \/ Toggle \/ (\E w \in Workers : Stop(w)) \/ Leave
  \/ Audio \/ Sidecar \/ ForwardDisconnect
  \/ DeviceFails \/ Crash \/ BackgroundLaunch \/ SettingsChange
  \/ Refresh

\* Commands run on: every wait of theirs has a timeout.  Event tasks and the
\* sidecar's loop run.  Nothing is assumed of the user, of faults, or of other
\* users of the sidecar.
Fairness ==
  /\ WF_vars(Start) /\ WF_vars(Toggle)
  /\ \A w \in Workers : WF_vars(Stop(w))
  /\ WF_vars(Leave)
  /\ WF_vars(DrainAudio) /\ WF_vars(HandleRemoval)
  /\ WF_vars(Sidecar) /\ WF_vars(ForwardDisconnect)

Spec == Init /\ [][Next]_vars
FairSpec == Spec /\ Fairness

-----------------------------------------------------------------------------
\* Type invariant

Phases == {"idle", "starting", "listening", "paused", "stopping", "completed"}
Steps == {"none", "launching", "planning", "readying", "opening", "marking",
          "storing", "failing", "muting", "replacing", "reopening", "sending",
          "unmuting", "checking", "silencing", "finishing", "acking",
          "completing", "recording", "leaving", "gone"}
Job == [op : {"none", "start", "pause", "resume", "stop"}, at : Steps,
        session : 0..MaxSession, expected : Nat]
Message == [op : {"plan", "start", "pause", "resume", "finish", "audio"},
            session : 0..MaxSession]
Causes == {"restart", "refused", "lost"}

TypeOK ==
  /\ phase \in Phases /\ session \in 0..started /\ rev \in Nat
  /\ degraded \in BOOLEAN
  /\ started \in 0..MaxSession /\ toggles \in 0..MaxToggle
  /\ seen \in [phase : Phases, rev : 0..rev]
  /\ job \in [Workers -> Job]
  /\ heard \in [Workers -> Causes \cup {"none", "ready", "finished"}]
  /\ planned \in {"none", "plan", "error"}
  /\ mic \in [state : {"none", "running", "paused", "failed"},
              owner : 0..started]
  /\ pumping \in BOOLEAN /\ leftover \in BOOLEAN /\ removal \in BOOLEAN
  /\ link \in {"down", "up", "broken"} /\ serving \in 0..started
  /\ held \in BOOLEAN /\ pending \in Seq(Message)
  /\ (pumping => mic.state # "none")
  /\ (link # "up" => pending = <<>> /\ serving = 0)
  /\ stale \in BOOLEAN /\ notice \in BOOLEAN /\ disrupted \in BOOLEAN
  /\ refused \in {"none", "plan", "start", "pause", "resume", "finish", "audio"}
  /\ failure \in Causes \cup {"none", "timeout", "plan", "services", "launch",
                              "audio"}
  /\ store \in [Sessions -> {"none", "active", "completed", "warned"}]
  /\ faults \in 0..MaxFault

-----------------------------------------------------------------------------
\* Safety

\* A capture in the slot is the current session's, and none is left when there
\* is no session: the microphone is off while nothing runs.  (Closing the
\* window races a start that waits for its source; see the README.)
NoOrphanCapture ==
  (mic.state # "none" /\ ~Running("close")) =>
     mic.owner = session /\ phase \notin {"idle", "completed"}

\* A row is active only while its session runs: every session that was stored
\* ends with its outcome, whatever failed on the way.
RowsFollowSessions ==
  ~Running("close") =>
    \A s \in Sessions : store[s] = "active" =>
      /\ s = session
      /\ \/ phase \in {"listening", "paused", "stopping"}
         \/ At("window", "stop", "recording")

\* Stop takes the session off the sidecar too: once its commands are served, a
\* completed session is served no more, so that the next one can be planned.
StopReleasesSidecar ==
  (phase = "completed" /\ pending = <<>> /\ ~Running("close")) => serving = 0

\* No part of a session outlives it: neither its capture nor its row nor the
\* session of the sidecar.
NothingOutlivesSession == NoOrphanCapture /\ RowsFollowSessions /\ StopReleasesSidecar

\* While the connection holds, the shell sends no session command the sidecar
\* refuses: not after a failed start, not after a late answer, not after Stop.
CommandsAreExpected ==
  refused \in {"start", "pause", "resume", "finish"} => Running("close")

\* What is said while the session is paused is not transcribed, once the
\* sidecar has served what was sent to it: the source is muted, or the sidecar
\* drops its audio.
PausedIsQuiet ==
  (phase = "paused" /\ pending = <<>> /\ ~Running("window")) =>
     ~(mic.state = "running" /\ serving = session /\ ~held)

-----------------------------------------------------------------------------
\* Liveness

\* Stop ends: no failure and no silence of the sidecar keeps a session from
\* being completed.
StopCompletes == phase = "stopping" ~> phase = "completed"

\* Every command of the window ends, so that its buttons come back.
CommandsEnd == Running("window") ~> ~Running("window")

\* Neither the session that is stopped nor a command of the window hangs.
CommandsAndStopEnd == StopCompletes /\ CommandsEnd

=============================================================================
