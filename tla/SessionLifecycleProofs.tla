----------------------- MODULE SessionLifecycleProofs -----------------------
(***************************************************************************)
(* Proofs about SessionLifecycle, for any number of sessions, toggles and  *)
(* faults.                                                                 *)
(***************************************************************************)
EXTENDS SessionLifecycle, SequenceTheorems, TLAPS

USE ConstantsAssumption DEF ConstantsAssumption, Sessions, Workers

----------------------------------------------------------------------------
(* Types                                                                   *)

\* A job is of a session that was started and expects a revision there was; a
\* command on its way to the sidecar is of such a session.  A start has one.
JobsOfStarted ==
  \A w \in Workers : /\ job[w].session <= started /\ job[w].expected <= rev
                     /\ job[w].op = "start" => job[w].session # 0
\* Where a command can stand.
Placed(op, at) ==
  \/ op = "none" /\ at = "none"
  \/ op = "start" /\ at \in {"launching", "planning", "readying", "opening", "marking", "storing", "failing"}
  \/ op = "pause" /\ at \in {"muting", "sending", "checking"}
  \/ op = "resume" /\ at \in {"replacing", "reopening", "sending", "unmuting", "checking"}
  \/ op = "stop" /\ at \in {"silencing", "finishing", "acking", "completing", "recording", "leaving", "gone"}
PlacedFor(w, op, at) ==
  /\ Placed(op, at)
  /\ w = "close" => op \in {"none", "stop"}
  /\ w = "window" => at \notin {"leaving", "gone"}
JobsPlaced == \A w \in Workers : PlacedFor(w, job[w].op, job[w].at)
\* The answer to a finish is not an answer to a start.
StartHears == \A w \in Workers : job[w].op = "start" => heard[w] # "finished"
MessagesOfStarted ==
  \A i \in DOMAIN pending : /\ pending[i].session <= started
                            /\ pending[i].op = "start" => pending[i].session # 0

CoreOK ==
  /\ phase \in Phases /\ session \in 0..started /\ rev \in Nat /\ degraded \in BOOLEAN
  /\ started \in 0..MaxSession /\ toggles \in 0..MaxToggle /\ faults \in 0..MaxFault
  /\ seen \in [phase : Phases, rev : 0..rev]
JobOK ==
  /\ job \in [Workers -> Job] /\ JobsOfStarted /\ JobsPlaced /\ StartHears
  /\ heard \in [Workers -> Causes \cup {"none", "ready", "finished"}]
  /\ planned \in {"none", "plan", "error"}
AudioOK ==
  /\ mic \in [state : {"none", "running", "paused", "failed"}, owner : 0..started]
  /\ pumping \in BOOLEAN /\ leftover \in BOOLEAN /\ removal \in BOOLEAN
  /\ pumping => mic.state # "none"
SidecarOK ==
  /\ link \in {"down", "up", "broken"} /\ serving \in 0..started /\ held \in BOOLEAN
  /\ pending \in Seq(Message) /\ MessagesOfStarted
  /\ link # "up" => pending = <<>> /\ serving = 0
  /\ stale \in BOOLEAN /\ notice \in BOOLEAN /\ disrupted \in BOOLEAN
  /\ refused \in {"none", "plan", "start", "pause", "resume", "finish", "audio"}
RecordOK ==
  /\ failure \in Causes \cup {"none", "timeout", "plan", "services", "launch", "audio"}
  /\ store \in [Sessions -> {"none", "active", "completed", "warned"}]

TypeInv == CoreOK /\ JobOK /\ AudioOK /\ SidecarOK /\ RecordOK

\* The parts imply the type invariant of the module.
LEMMA TypeInvImplies == TypeInv => TypeOK
BY DEF TypeInv, CoreOK, JobOK, AudioOK, SidecarOK, RecordOK, TypeOK

----------------------------------------------------------------------------
(* What the helpers do to a job and to the queue                           *)

\* A record of a job with one field changed is a job with that field changed.
LEMMA RecordAt ==
  ASSUME NEW j \in Job, NEW at \in Steps
  PROVE  /\ [j EXCEPT !.at = at] \in Job
         /\ [j EXCEPT !.at = at].op = j.op /\ [j EXCEPT !.at = at].at = at
         /\ [j EXCEPT !.at = at].session = j.session /\ [j EXCEPT !.at = at].expected = j.expected
BY DEF Job

LEMMA RecordOf ==
  ASSUME NEW j \in Job
  PROVE  j = [op |-> j.op, at |-> j.at, session |-> j.session, expected |-> j.expected]
BY DEF Job
LEMMA RecordExpected ==
  ASSUME NEW j \in Job, NEW n \in Nat
  PROVE  /\ [j EXCEPT !.expected = n] \in Job
         /\ [j EXCEPT !.expected = n].op = j.op /\ [j EXCEPT !.expected = n].at = j.at
         /\ [j EXCEPT !.expected = n].session = j.session /\ [j EXCEPT !.expected = n].expected = n
BY DEF Job
LEMMA RecordOp ==
  ASSUME NEW j \in Job, NEW op \in {"none", "start", "pause", "resume", "stop"}
  PROVE  /\ [j EXCEPT !.op = op] \in Job
         /\ [j EXCEPT !.op = op].op = op /\ [j EXCEPT !.op = op].at = j.at
         /\ [j EXCEPT !.op = op].session = j.session /\ [j EXCEPT !.op = op].expected = j.expected
BY DEF Job

\* A command moves on: its place changes and nothing else of any job.
Moves(w, at) ==
  /\ job' \in [Workers -> Job]
  /\ job'[w].op = job[w].op /\ job'[w].at = at
  /\ job'[w].session = job[w].session /\ job'[w].expected = job[w].expected
  /\ \A v \in Workers : v # w => job'[v] = job[v]

\* Goto moves a command on, and Return ends it.
LEMMA GotoMoves ==
  ASSUME job \in [Workers -> Job], NEW w \in Workers, NEW at \in Steps, Goto(w, at)
  PROVE  Moves(w, at)
<1>1. job[w] \in Job /\ job' = [job EXCEPT ![w] = [job[w] EXCEPT !.at = at]]
  BY DEF Goto
<1> DEFINE j == [job[w] EXCEPT !.at = at]
<1>2. j \in Job /\ j.op = job[w].op /\ j.at = at /\ j.session = job[w].session /\ j.expected = job[w].expected
  BY <1>1, RecordAt
<1>3. job' = [job EXCEPT ![w] = j]
  BY <1>1
<1> HIDE DEF j
<1> QED BY <1>2, <1>3 DEF Moves

\* A command ends.
Ends(w) == /\ job' \in [Workers -> Job] /\ job'[w] = NoJob
           /\ \A v \in Workers : v # w => job'[v] = job[v]
LEMMA ReturnEnds ==
  ASSUME job \in [Workers -> Job], NEW w \in Workers, Return(w)
  PROVE  Ends(w)
BY DEF Return, Ends, NoJob, Job, Steps

\* The queue to the sidecar after something was sent: longer, or as it was.
Ops == {"plan", "start", "pause", "resume", "finish", "audio"}
QueueOK ==
  /\ pending \in Seq(Message) /\ MessagesOfStarted
  /\ link # "up" => pending = <<>> /\ serving = 0

\* Whatever is sent, cut or handled, the queue stays one of messages of sessions
\* that were started.
LEMMA Appended ==
  ASSUME SidecarOK, started \in 0..MaxSession, NEW op \in Ops, NEW s \in 0..started,
         op = "start" => s # 0, link = "up",
         pending' = Append(pending, [op |-> op, session |-> s]),
         link' = link, serving' = serving, started' = started
  PROVE  QueueOK'
<1> DEFINE message == [op |-> op, session |-> s]
<1>1. message \in Message /\ message.session <= started /\ (message.op = "start" => message.session # 0)
  BY DEF Message, Ops
<1>2. pending \in Seq(Message) /\ pending' = Append(pending, message)
  BY DEF SidecarOK
<1>3. pending' \in Seq(Message) /\ Len(pending') = Len(pending) + 1
  BY <1>1, <1>2
<1>4. \A i \in DOMAIN pending' : (i \in DOMAIN pending /\ pending'[i] = pending[i]) \/ pending'[i] = message
  BY <1>1, <1>2, <1>3
<1>5. MessagesOfStarted'
  BY <1>1, <1>4 DEF SidecarOK, MessagesOfStarted
<1> QED BY <1>3, <1>5 DEF QueueOK
LEMMA Sent ==
  ASSUME SidecarOK, started \in 0..MaxSession, NEW op \in Ops, NEW s \in 0..started,
         op = "start" => s # 0, Send(op, s),
         link' = link, serving' = serving, started' = started
  PROVE  QueueOK'
<1>1. CASE link = "up"
  BY <1>1, Appended DEF Send
<1>2. CASE link # "up"
  BY <1>2 DEF Send, SidecarOK, QueueOK, MessagesOfStarted
<1> QED BY <1>1, <1>2

LEMMA Kept ==
  ASSUME SidecarOK, started \in 0..MaxSession, UNCHANGED <<pending, serving>>,
         link' = link \/ (link = "down" /\ link' = "up") \/ (link = "broken" /\ link' = "down"),
         started' \in Nat, started' >= started
  PROVE  QueueOK'
<1>1. pending \in Seq(Message) /\ pending' = pending
  BY DEF SidecarOK
<1>2. \A i \in DOMAIN pending : pending[i] \in Message
  BY <1>1
<1>3. \A i \in DOMAIN pending : pending[i].session <= started'
  BY <1>2 DEF SidecarOK, MessagesOfStarted, Message
<1>4. MessagesOfStarted'
  BY <1>1, <1>3 DEF SidecarOK, MessagesOfStarted
<1> QED BY <1>1, <1>4 DEF SidecarOK, QueueOK

LEMMA Cleared ==
  ASSUME pending' = <<>>, serving' = 0
  PROVE  QueueOK'
BY DEF QueueOK, MessagesOfStarted

LEMMA SingleMessage ==
  ASSUME started \in 0..MaxSession, NEW op \in Ops, NEW s \in 0..started, op = "start" => s # 0,
         link' = "up", pending' = <<[op |-> op, session |-> s]>>, started' = started
  PROVE  QueueOK'
<1> DEFINE message == [op |-> op, session |-> s]
<1>1. message \in Message /\ message.session <= started /\ (message.op = "start" => message.session # 0)
  BY DEF Message, Ops
<1>2. pending' = <<message>>
  OBVIOUS
<1> HIDE DEF message
<1>3. pending' \in Seq(Message) /\ \A i \in DOMAIN pending' : pending'[i] = message
  BY <1>1, <1>2
<1> QED BY <1>1, <1>3 DEF QueueOK, MessagesOfStarted

LEMMA Served ==
  ASSUME SidecarOK, pending # <<>>, pending' = Tail(pending), link' = link, link = "up", started' = started
  PROVE  QueueOK' /\ Head(pending) = pending[1] /\ 1 \in DOMAIN pending
<1>1. pending \in Seq(Message) /\ Len(pending) > 0
  BY DEF SidecarOK
<1>2. pending' \in Seq(Message) /\ Len(pending') = Len(pending) - 1
      /\ \A i \in 1..Len(pending') : pending'[i] = pending[i + 1]
  BY <1>1
<1>3. MessagesOfStarted'
  BY <1>1, <1>2 DEF SidecarOK, MessagesOfStarted
<1> QED BY <1>1, <1>2, <1>3 DEF QueueOK

----------------------------------------------------------------------------
(* Types, part by part                                                     *)

\* Steps that leave snapshot, window and faults alone, or only count.
CoreQuiet ==
  \/ Launch \/ Relaunch \/ Planned \/ Answered \/ Opened \/ UiPause \/ UiResume
  \/ Mute \/ Replace \/ Reopened \/ SendToggle \/ Unmute
  \/ (\E w \in Workers : Silence(w) \/ SendFinish(w) \/ Acknowledged(w))
  \/ Leave \/ SendAudio \/ DrainAudio \/ Serve \/ Refuse \/ Crash \/ Disconnected
  \/ DeviceFails \/ BackgroundLaunch \/ SettingsChange

\* Such steps keep snapshot, window and counts well formed.
LEMMA CoreQuietLeaves ==
  ASSUME CoreQuiet
  PROVE  /\ UNCHANGED <<coreVars, started, seen>>
         /\ UNCHANGED toggles \/ (toggles < MaxToggle /\ toggles' = toggles + 1)
         /\ UNCHANGED faults \/ (faults < MaxFault /\ faults' = faults + 1)
BY DEF CoreQuiet, Launch, Relaunch, Planned, Answered, Opened, UiPause, UiResume, UiToggle,
       Mute, Replace, Reopened, SendToggle, Unmute, Silence, SendFinish, Acknowledged, Leave,
       SendAudio, DrainAudio, Serve, Refuse, Crash, Disconnected, DeviceFails, BackgroundLaunch,
       SettingsChange, coreVars, windowVars

\* Seen snapshots stay in the past while the revision grows.
LEMMA Grows ==
  ASSUME CoreOK, rev' = rev \/ rev' = rev + 1, seen' = seen \/ seen' = [phase |-> phase', rev |-> rev'], phase' \in Phases
  PROVE  rev' \in Nat /\ seen' \in [phase : Phases, rev : 0..rev']
<1>1. rev' \in Nat /\ rev' >= rev /\ rev' \in 0..rev'
  BY DEF CoreOK
<1>2. \A r \in 0..rev : r \in 0..rev'
  BY <1>1 DEF CoreOK
<1>3. seen \in [phase : Phases, rev : 0..rev']
  BY <1>2 DEF CoreOK
<1> QED BY <1>1, <1>3

\* The snapshot, the window and the counts stay well formed.
LEMMA CoreStep == ASSUME TypeInv, Next PROVE CoreOK'
<1> USE DEF Phases
<1>0. CoreOK /\ JobOK
  BY DEF TypeInv
<1>1. CASE CoreQuiet
  BY <1>0, <1>1, CoreQuietLeaves DEF CoreOK, coreVars
<1>2. CASE UiStart
  <2>1. started' \in 0..MaxSession /\ session' \in 0..started' /\ phase' \in Phases
    BY <1>0, <1>2 DEF CoreOK, UiStart, Enter
  <2> QED BY <1>0, <1>2, <2>1, Grows DEF CoreOK, UiStart, Enter
<1>3. CASE MarkListening
  <2>1. phase' \in Phases /\ (rev' = rev \/ rev' = rev + 1) /\ seen' = seen
    BY <1>0, <1>3 DEF CoreOK, MarkListening, Enter, windowVars
  <2> QED BY <1>0, <1>3, <2>1, Grows DEF CoreOK, MarkListening, windowVars
<1>4. CASE CreateRow
  <2>1. job["window"].expected \in 0..rev
    BY <1>0 DEF CoreOK, JobOK, JobsOfStarted, Job
  <2>2. seen' \in [phase : Phases, rev : 0..rev]
    BY <1>0, <1>4, <2>1 DEF CoreOK, CreateRow
  <2> QED BY <1>0, <1>4, <2>2 DEF CoreOK, CreateRow, coreVars
<1>5. CASE FailStart
  <2>1. phase' \in Phases /\ session' \in 0..started /\ started' = started
    BY <1>0, <1>5 DEF CoreOK, FailStart, Enter
  <2>2. (rev' = rev \/ rev' = rev + 1) /\ (seen' = seen \/ seen' = [phase |-> phase', rev |-> rev'])
    BY <1>5 DEF FailStart, Enter, Show
  <2> QED BY <1>0, <1>5, <2>1, <2>2, Grows DEF CoreOK, FailStart
<1>6. CASE CheckToggle
  <2>1. phase' \in Phases /\ (rev' = rev \/ rev' = rev + 1) /\ (seen' = seen \/ seen' = [phase |-> phase', rev |-> rev'])
        /\ degraded' \in BOOLEAN
    BY <1>0, <1>6 DEF CoreOK, CheckToggle, Enter, Show
  <2> QED BY <1>0, <1>6, <2>1, Grows DEF CoreOK, CheckToggle
<1>7. CASE UiStop
  <2>1. phase' \in Phases /\ rev' = rev + 1 /\ seen' = seen
    BY <1>7 DEF UiStop, BeginStop, Enter, windowVars
  <2> QED BY <1>0, <1>7, <2>1, Grows DEF CoreOK, UiStop, BeginStop, windowVars
<1>8. CASE Close
  <2>1. phase' \in Phases /\ (rev' = rev \/ rev' = rev + 1) /\ seen' = seen
    BY <1>0, <1>8 DEF CoreOK, Close, BeginStop, Enter, windowVars, coreVars
  <2> QED BY <1>0, <1>8, <2>1, Grows DEF CoreOK, Close, BeginStop, windowVars, coreVars
<1>9. ASSUME NEW w \in Workers, Complete(w) PROVE CoreOK'
  <2>1. phase' \in Phases /\ rev' = rev + 1 /\ seen' = seen
    BY <1>9 DEF Complete, Enter, windowVars
  <2> QED BY <1>0, <1>9, <2>1, Grows DEF CoreOK, Complete, windowVars
<1>10. ASSUME NEW w \in Workers, Record(w) PROVE CoreOK'
  <2>1. phase' \in Phases /\ rev' = rev /\ (seen' = seen \/ seen' = [phase |-> phase', rev |-> rev'])
    BY <1>0, <1>10 DEF CoreOK, Record, Show, coreVars
  <2> QED BY <1>0, <1>10, <2>1, Grows DEF CoreOK, Record, coreVars
<1>11. CASE HandleRemoval
  <2>1. phase' \in Phases /\ (rev' = rev \/ rev' = rev + 1) /\ seen' = seen
    BY <1>0, <1>11 DEF CoreOK, HandleRemoval, Enter, windowVars
  <2> QED BY <1>0, <1>11, <2>1, Grows DEF CoreOK, HandleRemoval, windowVars
<1>12. CASE ForwardDisconnect
  <2>1. phase' \in Phases /\ (rev' = rev \/ rev' = rev + 1) /\ seen' = seen /\ degraded' \in BOOLEAN
    BY <1>0, <1>12 DEF CoreOK, ForwardDisconnect, windowVars
  <2> QED BY <1>0, <1>12, <2>1, Grows DEF CoreOK, ForwardDisconnect, windowVars
<1>13. CASE Refresh
  <2>1. phase' = phase /\ rev' = rev /\ seen' = [phase |-> phase', rev |-> rev']
    BY <1>13 DEF Refresh, coreVars
  <2> QED BY <1>0, <1>13, <2>1, Grows DEF CoreOK, Refresh, coreVars
<1> QED BY <1>1, <1>2, <1>3, <1>4, <1>5, <1>6, <1>7, <1>8, <1>9, <1>10, <1>11, <1>12, <1>13
        DEF Next, User, Start, Toggle, Stop, Audio, Sidecar, CoreQuiet

\* Revisions and sessions are only added.
LEMMA Monotone ==
  ASSUME TypeInv, Next
  PROVE  rev' \in Nat /\ rev' >= rev /\ started' \in Nat /\ started' >= started
<1>1. CoreOK' /\ CoreOK
  BY CoreStep DEF TypeInv
<1>2. rev' = rev \/ rev' = rev + 1
  BY DEF Next, User, Start, Toggle, Stop, Audio, Sidecar,
    UiStart, Launch, Relaunch, Planned, Answered, Opened, MarkListening, CreateRow, FailStart, UiPause, UiResume,
    UiToggle, Mute, Replace, Reopened, SendToggle, Unmute, CheckToggle, UiStop, Close, BeginStop, Leave, SendAudio,
    DrainAudio, HandleRemoval, Serve, Refuse, Crash, Disconnected, ForwardDisconnect, BackgroundLaunch, SettingsChange,
    Refresh, DeviceFails, Silence, SendFinish, Acknowledged, Complete, Record, Enter, coreVars
<1>3. started' = started \/ started' = started + 1
  BY DEF Next, User, Start, Toggle, Stop, Audio, Sidecar,
    UiStart, Launch, Relaunch, Planned, Answered, Opened, MarkListening, CreateRow, FailStart, UiPause, UiResume,
    UiToggle, Mute, Replace, Reopened, SendToggle, Unmute, CheckToggle, UiStop, Close, BeginStop, Leave, SendAudio,
    DrainAudio, HandleRemoval, Serve, Refuse, Crash, Disconnected, ForwardDisconnect, BackgroundLaunch, SettingsChange,
    Refresh, DeviceFails, Silence, SendFinish, Acknowledged, Complete, Record, Enter, windowVars
<1> QED BY <1>1, <1>2, <1>3 DEF CoreOK

\* Steps of a command, which moves on or ends.
CommandSteps ==
  \/ Launch \/ Relaunch \/ Planned \/ Answered \/ Opened \/ CreateRow \/ FailStart
  \/ Toggle \/ (\E w \in Workers : Stop(w)) \/ Leave

\* The steps of a command move its job.
LEMMA CommandMoves ==
  ASSUME JobOK, CommandSteps
  PROVE  \E w \in Workers : Ends(w) \/ \E at \in Steps : Moves(w, at) /\ PlacedFor(w, job[w].op, at)
<1>1. \E w \in Workers : Return(w) \/ \E at \in Steps : Goto(w, at) /\ PlacedFor(w, job[w].op, at)
  BY DEF JobOK, JobsPlaced, PlacedFor, Placed, At, CommandSteps, Launch, Relaunch, Planned, Answered, Opened, CreateRow, FailStart, StartFails,
    Toggle, Mute, Replace, Reopened, SendToggle, Unmute, CheckToggle,
    Stop, Silence, SendFinish, Acknowledged, Complete, Record, Leave, Steps
<1> QED BY <1>1, GotoMoves, ReturnEnds DEF JobOK

\* Steps in which no command moves.
JobsWait == Audio \/ Sidecar \/ Crash \/ ForwardDisconnect \/ BackgroundLaunch \/ SettingsChange \/ Refresh \/ DeviceFails

\* All other actors leave the jobs alone.
LEMMA JobsWaitLeaves == ASSUME JobsWait PROVE job' = job
BY DEF JobsWait, Audio, SendAudio, DrainAudio, HandleRemoval, Sidecar, Serve, Refuse, Disconnected, Crash,
       ForwardDisconnect, BackgroundLaunch, SettingsChange, Refresh, DeviceFails, jobVars

\* A command begins, or a start goes on behind its source with a new revision.
Begins(w, op, at, s, expected) ==
  /\ job' \in [Workers -> Job]
  /\ job'[w] = [op |-> op, at |-> at, session |-> s, expected |-> expected]
  /\ \A v \in Workers : v # w => job'[v] = job[v]

\* What a command's first step makes of its job.
LEMMA NewJob ==
  ASSUME job \in [Workers -> Job], NEW w \in Workers, NEW j \in Job, job' = [job EXCEPT ![w] = j]
  PROVE  /\ job' \in [Workers -> Job] /\ job'[w] = j
         /\ \A v \in Workers : v # w => job'[v] = job[v]
OBVIOUS
LEMMA UiStartBegins ==
  ASSUME TypeInv, UiStart
  PROVE  Begins("window", "start", "launching", started', rev')
<1> DEFINE j == [op |-> "start", at |-> "launching", session |-> started', expected |-> rev']
<1>1. started' \in 0..MaxSession /\ rev' \in Nat
  BY DEF TypeInv, CoreOK, UiStart, Enter
<1>2. j \in Job /\ job \in [Workers -> Job] /\ job' = [job EXCEPT !["window"] = j]
  BY <1>1 DEF TypeInv, JobOK, UiStart, Job, Steps
<1> HIDE DEF j
<1>3. /\ job' \in [Workers -> Job] /\ job'["window"] = j
      /\ \A v \in Workers : v # "window" => job'[v] = job[v]
  BY <1>2, NewJob
<1> QED BY <1>3 DEF Begins, j
LEMMA UiToggleBegins ==
  ASSUME TypeInv, UiPause \/ UiResume
  PROVE  \/ UiPause /\ Begins("window", "pause", "muting", 0, seen.rev)
         \/ UiResume /\ Begins("window", "resume", "replacing", 0, seen.rev)
<1>1. job \in [Workers -> Job] /\ seen.rev \in Nat
  BY DEF TypeInv, JobOK, CoreOK
<1>2. CASE UiPause
  <2> DEFINE j == [op |-> "pause", at |-> "muting", session |-> 0, expected |-> seen.rev]
  <2>1. j \in Job /\ job' = [job EXCEPT !["window"] = j]
    BY <1>1, <1>2 DEF UiPause, UiToggle, Job, Steps
  <2> HIDE DEF j
  <2>2. /\ job' \in [Workers -> Job] /\ job'["window"] = j
        /\ \A v \in Workers : v # "window" => job'[v] = job[v]
    BY <1>1, <2>1, NewJob
  <2> QED BY <1>2, <2>2 DEF Begins, j
<1>3. CASE UiResume
  <2> DEFINE j == [op |-> "resume", at |-> "replacing", session |-> 0, expected |-> seen.rev]
  <2>1. j \in Job /\ job' = [job EXCEPT !["window"] = j]
    BY <1>1, <1>3 DEF UiResume, UiToggle, Job, Steps
  <2> HIDE DEF j
  <2>2. /\ job' \in [Workers -> Job] /\ job'["window"] = j
        /\ \A v \in Workers : v # "window" => job'[v] = job[v]
    BY <1>1, <2>1, NewJob
  <2> QED BY <1>3, <2>2 DEF Begins, j
<1> QED BY <1>2, <1>3
LEMMA BeginStopBegins ==
  ASSUME TypeInv, NEW w \in Workers, BeginStop(w)
  PROVE  Begins(w, "stop", "silencing", session, 0)
<1> DEFINE j == [op |-> "stop", at |-> "silencing", session |-> session, expected |-> 0]
<1>1. j \in Job /\ job \in [Workers -> Job] /\ job' = [job EXCEPT ![w] = j]
  BY DEF TypeInv, JobOK, CoreOK, BeginStop, Job, Steps
<1> HIDE DEF j
<1>2. /\ job' \in [Workers -> Job] /\ job'[w] = j /\ \A v \in Workers : v # w => job'[v] = job[v]
  BY <1>1, NewJob
<1> QED BY <1>2 DEF Begins, j
LEMMA MarkListeningBegins ==
  ASSUME TypeInv, MarkListening
  PROVE  \/ phase = "starting" /\ Begins("window", "start", "storing", job["window"].session, rev')
         \/ phase # "starting" /\ Ends("window")
<1>1. job \in [Workers -> Job] /\ job["window"] \in Job /\ rev + 1 \in Nat
  BY DEF TypeInv, JobOK, CoreOK
<1>2. CASE phase = "starting"
  <2> DEFINE j == [op |-> "start", at |-> "storing", session |-> job["window"].session, expected |-> rev']
             k == [[job["window"] EXCEPT !.at = "storing"] EXCEPT !.expected = rev']
  <2>1. rev' = rev + 1 /\ job["window"].op = "start"
    BY <1>2 DEF MarkListening, Enter, At
  <2>2. k = j /\ j \in Job
    <3> DEFINE at == [job["window"] EXCEPT !.at = "storing"]
    <3>1. /\ at \in Job /\ at.op = "start" /\ at.at = "storing"
          /\ at.session = job["window"].session /\ at.expected = job["window"].expected
      <4>1. "storing" \in Steps /\ job["window"] \in Job
        BY <1>1 DEF Steps
      <4> QED BY <2>1, <4>1, RecordAt
    <3>2. rev' \in Nat /\ k = [at EXCEPT !.expected = rev']
      BY <1>1, <2>1
    <3> HIDE DEF at
    <3> HIDE DEF k
    <3>3. k \in Job /\ k.op = "start" /\ k.at = "storing" /\ k.session = job["window"].session /\ k.expected = rev'
      BY <3>1, <3>2, RecordExpected
    <3> QED BY <3>3, RecordOf
  <2>3. job' = [job EXCEPT !["window"] = k]
    BY <1>1, <1>2 DEF MarkListening
  <2> HIDE DEF j, k
  <2>4. /\ job' \in [Workers -> Job] /\ job'["window"] = j
        /\ \A v \in Workers : v # "window" => job'[v] = job[v]
    BY <1>1, <2>2, <2>3, NewJob
  <2> QED BY <1>2, <2>4 DEF Begins, j
<1>3. CASE phase # "starting"
  BY <1>1, <1>3, ReturnEnds DEF MarkListening
<1> QED BY <1>2, <1>3
LEMMA CloseBegins ==
  ASSUME TypeInv, Close
  PROVE  \/ Stoppable /\ Begins("close", "stop", "silencing", session, 0)
         \/ ~Stoppable /\ Begins("close", "stop", "leaving", 0, 0)
<1>1. CASE Stoppable
  BY <1>1, BeginStopBegins DEF Close
<1>2. CASE ~Stoppable
  <2> DEFINE j == [op |-> "stop", at |-> "leaving", session |-> 0, expected |-> 0]
             k == [[NoJob EXCEPT !.op = "stop"] EXCEPT !.at = "leaving"]
  <2>1. k = j /\ j \in Job
    <3> DEFINE stop == [NoJob EXCEPT !.op = "stop"]
    <3>1. NoJob \in Job /\ NoJob.at = "none" /\ NoJob.session = 0 /\ NoJob.expected = 0
      BY DEF NoJob, Job, Steps
    <3>2. stop \in Job /\ stop.op = "stop" /\ stop.session = 0 /\ stop.expected = 0
      BY <3>1, RecordOp
    <3>3. k = [stop EXCEPT !.at = "leaving"] /\ "leaving" \in Steps
      BY DEF Steps
    <3> HIDE DEF stop, k
    <3>4. k \in Job /\ k.op = "stop" /\ k.at = "leaving" /\ k.session = 0 /\ k.expected = 0
      BY <3>2, <3>3, RecordAt
    <3> QED BY <3>4, RecordOf
  <2>2. job \in [Workers -> Job] /\ job' = [job EXCEPT !["close"] = k]
    BY <1>2 DEF Close, TypeInv, JobOK
  <2> HIDE DEF j, k
  <2>3. /\ job' \in [Workers -> Job] /\ job'["close"] = j
        /\ \A v \in Workers : v # "close" => job'[v] = job[v]
    BY <2>1, <2>2, NewJob
  <2> QED BY <1>2, <2>3 DEF Begins, j
<1> QED BY <1>1, <1>2

\* A command that begins or ends leaves every job placed where its code can be.
LEMMA BeganJobs ==
  ASSUME CoreOK, JobOK, rev' \in Nat, rev' >= rev, started' \in Nat, started' >= started,
         NEW w \in Workers, NEW op, NEW at, NEW s \in Nat, NEW n \in Nat, s <= started', n <= rev',
         op = "start" => s # 0, PlacedFor(w, op, at), Begins(w, op, at, s, n)
  PROVE  job' \in [Workers -> Job] /\ JobsOfStarted' /\ JobsPlaced'
<1>1. \A v \in Workers : job[v] \in Job
  BY DEF JobOK
<1>2. \A v \in Workers : job[v].session \in Nat /\ job[v].expected \in Nat
  BY <1>1 DEF Job
<1>3. \A v \in Workers : /\ job'[v].session <= started' /\ job'[v].expected <= rev'
                         /\ job'[v].op = "start" => job'[v].session # 0
  BY <1>2 DEF Begins, JobOK, JobsOfStarted, CoreOK
<1>4. JobsPlaced'
  BY DEF Begins, JobOK, JobsPlaced
<1> QED BY <1>3, <1>4 DEF Begins, JobsOfStarted
LEMMA EndedJobs ==
  ASSUME CoreOK, JobOK, rev' \in Nat, rev' >= rev, started' \in Nat, started' >= started,
         NEW w \in Workers, Ends(w)
  PROVE  job' \in [Workers -> Job] /\ JobsOfStarted' /\ JobsPlaced'
<1>1. Begins(w, "none", "none", 0, 0) /\ PlacedFor(w, "none", "none")
  BY DEF Ends, Begins, NoJob, PlacedFor, Placed
<1> QED BY <1>1, BeganJobs

\* Steps that bring no command an answer.
HearsNothing ==
  \/ Launch \/ Planned \/ Answered \/ Opened \/ MarkListening \/ CreateRow \/ FailStart \/ Toggle
  \/ (\E w \in Workers : Stop(w)) \/ Audio \/ Crash \/ ForwardDisconnect \/ BackgroundLaunch
  \/ Refresh \/ DeviceFails

\* They leave what the commands have heard.
LEMMA HearsNothingLeaves == ASSUME HearsNothing PROVE heard' = heard /\ planned' = planned
BY DEF HearsNothing, Launch, Planned, Answered, Opened, MarkListening, CreateRow, FailStart, Toggle, Mute, Replace,
       Reopened, SendToggle, Unmute, CheckToggle, Stop, Silence, SendFinish, Acknowledged, Complete, Record,
       Audio, SendAudio, DrainAudio, HandleRemoval, Crash, ForwardDisconnect, BackgroundLaunch, Refresh, DeviceFails,
       jobVars

\* So do the jobs: each stands where its code can be, for a session that was
\* started.
LEMMA JobStep == ASSUME TypeInv, Next PROVE JobOK'
<1>0. CoreOK /\ JobOK /\ CoreOK' /\ rev' \in Nat /\ rev' >= rev /\ started' \in Nat /\ started' >= started
  BY Monotone, CoreStep DEF TypeInv
<1>1. job' \in [Workers -> Job] /\ JobsOfStarted' /\ JobsPlaced'
  <2>1. CASE JobsWait
    <3>1. job' = job /\ \A w \in Workers : job[w] \in Job
      BY <2>1, <1>0, JobsWaitLeaves DEF JobOK
    <3> QED BY <1>0, <3>1 DEF JobOK, JobsOfStarted, JobsPlaced, CoreOK, Job
  <2>2. CASE CommandSteps
    <3>1. PICK w \in Workers : Ends(w) \/ \E at \in Steps : Moves(w, at) /\ PlacedFor(w, job[w].op, at)
      BY <1>0, <2>2, CommandMoves
    <3>2. \A v \in Workers : job[v] \in Job
      BY <1>0 DEF JobOK
    <3>3. job' \in [Workers -> Job]
      BY <3>1 DEF Ends, Moves
    <3>4. \A v \in Workers : \/ job'[v].session = job[v].session /\ job'[v].expected = job[v].expected
                                /\ job'[v].op = job[v].op
                             \/ job'[v].session = 0 /\ job'[v].expected = 0 /\ job'[v].op = "none"
      BY <3>1 DEF Ends, Moves, NoJob
    <3>5. JobsOfStarted'
      BY <1>0, <3>2, <3>4 DEF JobOK, JobsOfStarted, CoreOK, Job
    <3>6. JobsPlaced'
      BY <1>0, <3>1 DEF JobOK, JobsPlaced, PlacedFor, Placed, Ends, Moves, NoJob
    <3> QED BY <3>3, <3>5, <3>6
  <2>3. CASE User \/ MarkListening
    <3>1. /\ session \in Nat /\ session <= started /\ seen.rev \in Nat /\ seen.rev <= rev
          /\ job["window"].session \in Nat /\ job["window"].session <= started /\ rev \in Nat /\ started \in Nat
      BY <1>0 DEF CoreOK, JobOK, JobsOfStarted, Job
    <3>2. CASE UiStart
      <4>1. started' = started + 1
        BY <3>2 DEF UiStart
      <4> QED BY <1>0, <3>1, <3>2, <4>1, UiStartBegins, BeganJobs DEF PlacedFor, Placed
    <3>3. CASE UiPause \/ UiResume
      BY <1>0, <3>1, <3>3, UiToggleBegins, BeganJobs DEF PlacedFor, Placed
    <3>4. CASE UiStop
      BY <1>0, <3>1, <3>4, BeginStopBegins, BeganJobs DEF UiStop, PlacedFor, Placed
    <3>5. CASE Close
      BY <1>0, <3>1, <3>5, CloseBegins, BeganJobs DEF PlacedFor, Placed
    <3>6. CASE MarkListening
      <4>1. job["window"].session # 0
        BY <1>0, <3>6 DEF JobOK, JobsOfStarted, MarkListening, At
      <4> QED BY <1>0, <3>1, <3>6, <4>1, MarkListeningBegins, BeganJobs, EndedJobs DEF PlacedFor, Placed
    <3> QED BY <2>3, <3>2, <3>3, <3>4, <3>5, <3>6 DEF User
  <2> QED BY <2>1, <2>2, <2>3 DEF Next, JobsWait, CommandSteps, Start
<1>2. heard' \in [Workers -> Causes \cup {"none", "ready", "finished"}] /\ planned' \in {"none", "plan", "error"}
  <2>1. CASE Leave \/ Refuse \/ Disconnected \/ SettingsChange
    BY <1>0, <2>1 DEF JobOK, Leave, Refuse, Disconnected, SettingsChange, Report, Causes
  <2>2. CASE Serve
    BY <1>0, <2>2 DEF JobOK, Serve
  <2>3. CASE User \/ Relaunch
    BY <1>0, <2>3 DEF JobOK, User, UiStart, UiPause, UiResume, UiToggle, UiStop, Close, BeginStop, Relaunch, Causes
  <2>4. CASE HearsNothing
    BY <1>0, <2>4, HearsNothingLeaves DEF JobOK
  <2> QED BY <2>1, <2>2, <2>3, <2>4 DEF Next, Start, Sidecar, HearsNothing
<1>3. StartHears'
  <2>1. \A w \in Workers : heard'[w] = "finished" => heard[w] = "finished" \/ job[w].op = "stop"
    <3>1. CASE Leave \/ Refuse \/ Disconnected \/ SettingsChange
      BY <1>0, <3>1 DEF JobOK, Leave, Refuse, Disconnected, SettingsChange, Report
    <3>2. CASE Serve
      BY <1>0, <3>2 DEF JobOK, Serve
    <3>3. CASE User \/ Relaunch
      BY <1>0, <3>3 DEF JobOK, User, UiStart, UiPause, UiResume, UiToggle, UiStop, Close, BeginStop, Relaunch
    <3>4. CASE HearsNothing
      BY <3>4, HearsNothingLeaves
    <3> QED BY <3>1, <3>2, <3>3, <3>4 DEF Next, Start, Sidecar, HearsNothing
  <2>2. \A w \in Workers : job'[w].op = "start" => job[w].op = "start" \/ (UiStart /\ w = "window")
    <3>1. CASE JobsWait
      BY <3>1, JobsWaitLeaves
    <3>2. CASE CommandSteps
      BY <1>0, <3>2, CommandMoves DEF Ends, Moves, NoJob
    <3>3. CASE User \/ MarkListening
      BY <3>3, UiStartBegins, UiToggleBegins, BeginStopBegins, CloseBegins, MarkListeningBegins
         DEF User, UiStop, Begins, Ends, NoJob, MarkListening, At
    <3> QED BY <3>1, <3>2, <3>3 DEF Next, JobsWait, CommandSteps, Start
  <2>3. UiStart => heard'["window"] = "none"
    BY <1>0 DEF JobOK, UiStart
  <2> QED BY <1>0, <2>1, <2>2, <2>3 DEF JobOK, StartHears
<1> QED BY <1>1, <1>2, <1>3 DEF JobOK

\* The slot is empty, or the source changes its state.
LEMMA AudioStep == ASSUME TypeInv, Next PROVE AudioOK'
<1>0. CoreOK /\ JobOK /\ AudioOK /\ started' \in Nat /\ started' >= started /\ started \in Nat
  BY Monotone DEF TypeInv, CoreOK
<1>1. CASE ReleaseAudio
  <2>1. mic' \in [state : {"none", "running", "paused", "failed"}, owner : 0..started'] /\ removal' \in BOOLEAN
    BY <1>0, <1>1 DEF ReleaseAudio, AudioOK, NoMic
  <2>2. pumping' = FALSE /\ leftover' \in BOOLEAN
    BY <1>1, Zenon DEF ReleaseAudio
  <2> QED BY <2>1, <2>2 DEF AudioOK
<1>2. CASE /\ mic' \in [state : {"running", "paused", "failed"}, owner : 0..started]
           /\ pumping' \in BOOLEAN /\ leftover' \in BOOLEAN /\ removal' \in BOOLEAN
  <2>1. mic' \in [state : {"none", "running", "paused", "failed"}, owner : 0..started']
    BY <1>0, <1>2
  <2> QED BY <1>2, <2>1 DEF AudioOK
<1>3. CASE mic' = mic /\ pumping' \in {pumping, FALSE} /\ leftover' \in BOOLEAN /\ removal' \in BOOLEAN
  <2>1. mic' \in [state : {"none", "running", "paused", "failed"}, owner : 0..started']
    BY <1>0, <1>3 DEF AudioOK
  <2>2. pumping' \in BOOLEAN
    BY <1>0, <1>3 DEF AudioOK
  <2>3. pumping' => mic'.state # "none"
    BY <1>0, <1>3, Zenon DEF AudioOK
  <2> QED BY <1>3, <2>1, <2>2, <2>3 DEF AudioOK
<1>4. ASSUME NEW s \in 0..started, OpenSucceeds(s) PROVE AudioOK'
  BY <1>0, <1>4, <1>2 DEF OpenSucceeds, AudioOK
<1>5. job["window"].session \in 0..started /\ session \in 0..started
  BY <1>0 DEF JobOK, JobsOfStarted, CoreOK, Job
<1>6. CASE UNCHANGED audioVars
  BY <1>0, <1>3, <1>6 DEF audioVars, AudioOK
<1>7. CASE Opened \/ Reopened
  BY <1>4, <1>5, <1>6, <1>7 DEF Opened, Reopened
<1>8. CASE FailStart \/ Replace \/ Close \/ (\E w \in Workers : Silence(w))
  BY <1>1, <1>6, <1>8 DEF FailStart, Replace, Close, Silence
<1>9. CASE Mute \/ Unmute \/ DeviceFails
  <2>1. CASE mic' = mic
    BY <1>0, <1>3, <1>9, <2>1 DEF Mute, Unmute, DeviceFails, AudioOK
  <2>2. CASE mic' # mic
    BY <1>0, <1>2, <1>9, <2>2 DEF Mute, Unmute, DeviceFails, AudioOK
  <2> QED BY <2>1, <2>2
<1>10. CASE SendAudio \/ DrainAudio \/ HandleRemoval
  BY <1>0, <1>3, <1>10 DEF SendAudio, DrainAudio, HandleRemoval, AudioOK
<1>11. CASE \/ UiStart \/ UiPause \/ UiResume \/ UiStop \/ Launch \/ Relaunch \/ Planned \/ Answered \/ MarkListening
            \/ CreateRow \/ SendToggle \/ CheckToggle \/ Leave \/ Sidecar \/ Crash \/ ForwardDisconnect
            \/ BackgroundLaunch \/ SettingsChange \/ Refresh
            \/ (\E w \in Workers : SendFinish(w) \/ Acknowledged(w) \/ Complete(w) \/ Record(w))
  <2>1. UNCHANGED audioVars
    BY <1>11 DEF UiStart, UiPause, UiResume, UiToggle, UiStop, Launch, Relaunch, Planned, Answered, MarkListening,
      CreateRow, SendToggle, CheckToggle, Leave, Sidecar, Serve, Refuse, Disconnected, Crash, ForwardDisconnect,
      BackgroundLaunch, SettingsChange, Refresh, SendFinish, Acknowledged, Complete, Record
  <2> QED BY <1>6, <2>1
<1> QED BY <1>7, <1>8, <1>9, <1>10, <1>11 DEF Next, User, Start, Toggle, Stop, Audio

\* What the steps leave of the sidecar's own flags.
LEMMA FlagsStep ==
  ASSUME TypeInv, Next
  PROVE  /\ link' \in {"down", "up", "broken"} /\ held' \in BOOLEAN
         /\ stale' \in BOOLEAN /\ notice' \in BOOLEAN /\ disrupted' \in BOOLEAN
         /\ refused' \in {"none", "plan", "start", "pause", "resume", "finish", "audio"}
<1>0. SidecarOK
  BY DEF TypeInv
<1>1. CASE Launch
  BY <1>0, <1>1 DEF SidecarOK, Launch, StartFails
<1>2. CASE Relaunch
  BY <1>0, <1>2 DEF SidecarOK, Relaunch
<1>3. CASE Leave
  BY <1>0, <1>3 DEF SidecarOK, Leave
<1>4. CASE Serve
  BY <1>0, <1>4 DEF SidecarOK, Serve
<1>5. CASE Refuse
  <2>1. pending # <<>> /\ Head(pending) \in Message
    BY <1>0, <1>5 DEF SidecarOK, Refuse
  <2> QED BY <1>0, <1>5, <2>1 DEF SidecarOK, Refuse, EndConnection, Message
<1>6. CASE Crash
  BY <1>0, <1>6 DEF SidecarOK, Crash, EndConnection
<1>7. CASE Disconnected \/ ForwardDisconnect \/ BackgroundLaunch \/ SettingsChange
  BY <1>0, <1>7 DEF SidecarOK, Disconnected, ForwardDisconnect, BackgroundLaunch, SettingsChange
<1>8. CASE \/ User \/ Planned \/ Answered \/ Opened \/ MarkListening \/ CreateRow \/ FailStart \/ Toggle
           \/ (\E w \in Workers : Stop(w)) \/ Audio \/ DeviceFails \/ Refresh
  <2>1. UNCHANGED <<link, held, stale, notice, disrupted, refused>>
    BY <1>8 DEF User, UiStart, UiPause, UiResume, UiToggle, UiStop, Close, Planned, Answered, Opened,
      MarkListening, CreateRow, FailStart, Toggle, Mute, Replace, Reopened, SendToggle, Unmute, CheckToggle,
      Stop, Silence, SendFinish, Acknowledged, Complete, Record, Audio, SendAudio, DrainAudio, HandleRemoval,
      DeviceFails, Refresh, sidecarVars
  <2> QED BY <1>0, <2>1 DEF SidecarOK
<1> QED BY <1>1, <1>2, <1>3, <1>4, <1>5, <1>6, <1>7, <1>8 DEF Next, Start, Sidecar

\* The queue holds messages of started sessions, and only while the link is up.
LEMMA QueueStep == ASSUME TypeInv, Next PROVE QueueOK' /\ serving' \in 0..started'
<1>0. /\ CoreOK /\ JobOK /\ SidecarOK /\ started \in 0..MaxSession /\ serving \in 0..started
      /\ started' \in Nat /\ started' >= started
  BY Monotone DEF TypeInv, CoreOK, SidecarOK
<1>1. job["window"].session \in 0..started /\ session \in 0..started
  BY <1>0 DEF JobOK, JobsOfStarted, CoreOK, Job
<1>2. CASE Launch
  <2>1. UNCHANGED <<serving, started>>
    BY <1>2 DEF Launch, windowVars
  <2>2. CASE link' = "up" /\ pending' = Append(pending, [op |-> "plan", session |-> session])
    <3>1. CASE link = "up"
      BY <1>0, <1>1, <2>1, <2>2, <3>1, Appended DEF Ops
    <3>2. CASE link # "up"
      <4>1. pending' = <<[op |-> "plan", session |-> session]>>
        BY <1>0, <2>2, <3>2 DEF SidecarOK
      <4> QED BY <1>0, <1>1, <2>1, <2>2, <4>1, SingleMessage DEF Ops
    <3> QED BY <3>1, <3>2
  <2>3. CASE UNCHANGED pending /\ (link' = link \/ (link = "down" /\ link' = "up"))
    BY <1>0, <2>1, <2>3, Kept
  <2> QED BY <1>0, <1>2, <2>1, <2>2, <2>3 DEF Launch
<1>3. CASE Relaunch
  <2>1. started' = started /\ serving' = 0
    BY <1>3 DEF Relaunch, windowVars
  <2>2. CASE link' = "up" /\ pending' = <<[op |-> "plan", session |-> session]>>
    BY <1>0, <1>1, <2>1, <2>2, SingleMessage DEF Ops
  <2>3. CASE pending' = <<>>
    BY <1>0, <2>1, <2>3, Cleared
  <2> QED BY <1>0, <1>3, <2>1, <2>2, <2>3 DEF Relaunch
<1>4. CASE Planned
  <2>1. UNCHANGED <<serving, link, started>>
    BY <1>4 DEF Planned, windowVars
  <2>2. CASE Send("start", job["window"].session)
    <3>1. job["window"].session # 0
      BY <1>0, <1>4 DEF JobOK, JobsOfStarted, Planned, At
    <3> QED BY <1>0, <1>1, <2>1, <2>2, <3>1, Sent DEF Ops
  <2>3. CASE UNCHANGED pending
    BY <1>0, <2>1, <2>3, Kept
  <2> QED BY <1>0, <1>4, <2>1, <2>2, <2>3 DEF Planned
<1>5. CASE SendToggle
  <2>1. UNCHANGED <<serving, link, started>>
    BY <1>5 DEF SendToggle, windowVars
  <2>2. CASE Send(job["window"].op, session) /\ pending' # pending
    <3>1. job["window"].op \in {"pause", "resume"}
      BY <1>0, <1>5, <2>2 DEF SendToggle, JobOK, JobsPlaced, PlacedFor, Placed
    <3> QED BY <1>0, <1>1, <2>1, <2>2, <3>1, Sent DEF Ops
  <2>3. CASE UNCHANGED pending
    BY <1>0, <2>1, <2>3, Kept
  <2> QED BY <1>0, <1>5, <2>1, <2>2, <2>3 DEF SendToggle
<1>6. ASSUME NEW w \in Workers, SendFinish(w) PROVE QueueOK' /\ serving' \in 0..started'
  <2>1. UNCHANGED <<serving, link, started>> /\ job[w].session \in 0..started
    BY <1>0, <1>6 DEF SendFinish, windowVars, JobOK, JobsOfStarted, CoreOK, Job
  <2>2. CASE Send("finish", job[w].session)
    BY <1>0, <2>1, <2>2, Sent DEF Ops
  <2>3. CASE UNCHANGED pending
    BY <1>0, <2>1, <2>3, Kept
  <2> QED BY <1>0, <1>6, <2>1, <2>2, <2>3 DEF SendFinish
<1>7. CASE SendAudio \/ DrainAudio \/ HandleRemoval
  <2>1. UNCHANGED <<serving, link, started>>
    BY <1>7 DEF SendAudio, DrainAudio, HandleRemoval, windowVars
  <2>2. CASE Send("audio", 0)
    BY <1>0, <2>1, <2>2, Sent DEF Ops
  <2>3. CASE Send("pause", session)
    BY <1>0, <1>1, <2>1, <2>3, Sent DEF Ops
  <2>4. CASE UNCHANGED pending
    BY <1>0, <2>1, <2>4, Kept
  <2> QED BY <1>0, <1>7, <2>1, <2>2, <2>3, <2>4 DEF SendAudio, DrainAudio, HandleRemoval
<1>8. CASE Serve
  <2>1. UNCHANGED <<link, started>> /\ link = "up" /\ pending # <<>> /\ pending' = Tail(pending)
    BY <1>8 DEF Serve, windowVars
  <2>2. QueueOK' /\ Head(pending) = pending[1] /\ 1 \in DOMAIN pending
    BY <1>0, <2>1, Served
  <2>3. Head(pending) \in Message /\ Head(pending).session <= started
    BY <1>0, <2>1, <2>2 DEF SidecarOK, MessagesOfStarted
  <2>4. serving' \in {Head(pending).session, 0, serving}
    BY <1>8 DEF Serve
  <2> QED BY <1>0, <2>1, <2>2, <2>3, <2>4 DEF Message
<1>9. CASE Leave \/ Refuse \/ Crash
  <2>1. pending' = <<>> /\ serving' = 0
    BY <1>9 DEF Leave, Refuse, Crash, EndConnection
  <2> QED BY <1>0, <2>1, Cleared
<1>10. CASE SettingsChange
  <2>1. CASE pending' = <<>> /\ serving' = 0
    BY <1>0, <2>1, Cleared
  <2>2. CASE UNCHANGED <<link, serving, pending>>
    BY <1>0, <2>2, Kept
  <2> QED BY <1>10, <2>1, <2>2 DEF SettingsChange
<1>11. CASE UNCHANGED <<pending, serving>> /\ link' \in {"up", "down", link} /\ (link' = "up" => link # "broken")
            /\ (link' = "down" => link # "up")
  BY <1>0, <1>11, Kept DEF SidecarOK
<1>12. CASE \/ User \/ Answered \/ Opened \/ MarkListening \/ CreateRow \/ FailStart
            \/ Mute \/ Replace \/ Reopened \/ Unmute \/ CheckToggle
            \/ (\E w \in Workers : Silence(w) \/ Acknowledged(w) \/ Complete(w) \/ Record(w))
            \/ DeviceFails \/ Refresh \/ Disconnected \/ ForwardDisconnect \/ BackgroundLaunch
  <2>1. UNCHANGED <<pending, serving>> /\ (link' = link \/ (link = "down" /\ link' = "up") \/ (link = "broken" /\ link' = "down"))
    BY <1>12 DEF User, UiStart, UiPause, UiResume, UiToggle, UiStop, Close, Answered, Opened, MarkListening, CreateRow,
      FailStart, Mute, Replace, Reopened, Unmute, CheckToggle, Silence, Acknowledged, Complete, Record, DeviceFails,
      Refresh, Disconnected, ForwardDisconnect, BackgroundLaunch, sidecarVars
  <2> QED BY <1>0, <2>1, Kept
<1> QED BY <1>2, <1>3, <1>4, <1>5, <1>6, <1>7, <1>8, <1>9, <1>10, <1>12
        DEF Next, Start, Toggle, Stop, Audio, Sidecar

\* Failures and rows stay of their kinds.
LEMMA RecordStep == ASSUME TypeInv, Next PROVE RecordOK'
<1>0. RecordOK
  BY DEF TypeInv
<1>1. CASE Answered
  <2>1. heard["window"] \in Causes \cup {"none", "ready", "finished"}
    BY DEF TypeInv, JobOK
  <2>2. heard["window"] # "finished"
    BY <1>1 DEF TypeInv, JobOK, StartHears, Answered, At
  <2> QED BY <1>0, <1>1, <2>1, <2>2 DEF RecordOK, Answered, StartFails, recordVars, Causes
<1>2. CASE Launch \/ Relaunch \/ Planned \/ Opened
  <2>1. planned \in {"none", "plan", "error"}
    BY DEF TypeInv, JobOK
  <2>2. store' = store /\ (failure' = failure \/ failure' \in {"launch", "audio", "timeout", "plan", "services"})
    BY <1>2, <2>1 DEF Launch, Relaunch, Planned, Opened, StartFails
  <2> QED BY <1>0, <2>2 DEF RecordOK
<1>3. CASE UiStart
  BY <1>0, <1>3 DEF RecordOK, UiStart
<1>4. CASE CreateRow \/ (\E w \in Workers : Record(w))
  BY <1>0, <1>4 DEF RecordOK, CreateRow, Record
<1>5. CASE \/ UiPause \/ UiResume \/ UiStop \/ Close \/ MarkListening \/ FailStart \/ Toggle
           \/ (\E w \in Workers : Silence(w) \/ SendFinish(w) \/ Acknowledged(w) \/ Complete(w)) \/ Leave \/ Audio
           \/ Sidecar \/ Crash \/ ForwardDisconnect \/ BackgroundLaunch \/ SettingsChange \/ DeviceFails \/ Refresh
  <2>1. UNCHANGED recordVars
    BY <1>5 DEF UiPause, UiResume, UiToggle, UiStop, Close, MarkListening, FailStart, Toggle, Mute, Replace, Reopened,
      SendToggle, Unmute, CheckToggle, Silence, SendFinish, Acknowledged, Complete, Leave, Audio, SendAudio, DrainAudio,
      HandleRemoval, Sidecar, Serve, Refuse, Disconnected, Crash, ForwardDisconnect, BackgroundLaunch, SettingsChange,
      DeviceFails, Refresh
  <2> QED BY <1>0, <2>1 DEF RecordOK, recordVars
<1> QED BY <1>1, <1>2, <1>3, <1>4, <1>5 DEF Next, User, Start, Stop

\* The state parts hold at first, and every step keeps them.
LEMMA InitType == Init => TypeInv
<1> SUFFICES ASSUME Init PROVE TypeInv
  OBVIOUS
<1>1. CoreOK
  <2>1. 0 \in 0..0 /\ 0 \in 0..MaxSession /\ 0 \in 0..MaxToggle /\ 0 \in 0..MaxFault
    OBVIOUS
  <2>2. seen \in [phase : Phases, rev : 0..0]
    BY <2>1 DEF Init, Phases
  <2> QED BY <2>1, <2>2 DEF Init, CoreOK, Phases
<1>2. RecordOK
  BY DEF Init, RecordOK
<1>3. JobOK
  BY DEF Init, JobOK, JobsOfStarted, JobsPlaced, PlacedFor, Placed, StartHears, NoJob, Job, Steps
<1>4. AudioOK
  <2>1. mic = [state |-> "none", owner |-> 0] /\ 0 \in 0..started
    BY DEF Init, NoMic
  <2>2. mic \in [state : {"none", "running", "paused", "failed"}, owner : 0..started]
    BY <2>1
  <2> QED BY <2>2 DEF Init, AudioOK
<1>5. SidecarOK
  <2>1. pending \in Seq(Message) /\ DOMAIN pending = {}
    BY DEF Init
  <2>2. MessagesOfStarted /\ serving \in 0..started
    BY <2>1 DEF Init, MessagesOfStarted
  <2> QED BY <2>1, <2>2 DEF Init, SidecarOK
<1> QED BY <1>1, <1>2, <1>3, <1>4, <1>5 DEF TypeInv

LEMMA TypeStep == TypeInv /\ [Next]_vars => TypeInv'
<1> SUFFICES ASSUME TypeInv, [Next]_vars PROVE TypeInv'
  OBVIOUS
<1>1. CASE Next
  <2>1. SidecarOK'
    BY <1>1, FlagsStep, QueueStep DEF SidecarOK, QueueOK
  <2> QED BY <1>1, <2>1, CoreStep, JobStep, AudioStep, RecordStep DEF TypeInv
<1>2. CASE UNCHANGED vars
  BY <1>2 DEF vars, coreVars, windowVars, jobVars, audioVars, sidecarVars, recordVars,
    TypeInv, CoreOK, JobOK, AudioOK, SidecarOK, RecordOK, JobsOfStarted, JobsPlaced, StartHears,
    MessagesOfStarted
<1> QED BY <1>1, <1>2

(* The state of shell, window, audio slot, connection and store stays well *)
(* formed, whatever fails.                                                 *)
THEOREM SessionTypes == Spec => []TypeOK
<1>1. Init => TypeInv
  BY InitType
<1>2. TypeInv /\ [Next]_vars => TypeInv'
  BY TypeStep
<1>3. TypeInv => TypeOK
  BY TypeInvImplies
<1> QED BY <1>1, <1>2, <1>3, PTL DEF Spec

----------------------------------------------------------------------------
(* The inductive invariants.  The closing of the window may interrupt a    *)
(* start, so that all but ClosingInv speak of the time before it.          *)

WindowOpen == job["close"].op = "none"
ClosingInv == ~WindowOpen => phase \notin {"starting", "listening", "paused"}

\* The window's command and the phase fit together.
PhaseInv ==
  /\ phase = "starting" <=> (job["window"].op = "start" /\ job["window"].at # "storing")
  /\ At("window", "start", "storing") => phase \in {"listening", "paused"}
  /\ job["window"].op = "pause" => phase \in {"listening", "paused"}
  /\ job["window"].op = "resume" => phase = "paused" /\ job["window"].expected = rev
  /\ phase = "stopping" <=> (job["window"].op = "stop" /\ job["window"].at # "recording")
  /\ At("window", "stop", "recording") => phase = "completed"
  /\ job["window"].op \in {"start", "stop"} => job["window"].session = session
  /\ phase # "idle" => session # 0
\* The snapshot the window shows may be old; an old pause is still the pause it was.
SeenInv ==
  /\ job["window"].op = "none" /\ seen.phase \in {"listening", "paused"} => phase \in {"listening", "paused"}
  /\ seen.phase = "paused" => phase \in {"paused", "stopping", "completed"}
  /\ seen.phase = "paused" /\ phase = "paused" => seen.rev = rev
ControlInv == ClosingInv /\ (WindowOpen => PhaseInv /\ SeenInv)

\* What Stop released stays released until the next start.
CaptureInv ==
  WindowOpen =>
    /\ mic.state # "none" => mic.owner = session /\ phase \notin {"idle", "completed"}
    /\ job["window"].op = "stop" /\ job["window"].at # "silencing" => mic.state = "none"
    /\ At("window", "pause", "sending") \/ At("window", "pause", "checking") => mic.state # "running"
RowInv ==
  WindowOpen => \A s \in Sessions : store[s] = "active" =>
    s = session /\ (phase \in {"listening", "paused", "stopping"} \/ At("window", "stop", "recording"))

\* Whether the sidecar serves a session once it has handled the commands before i, ..
ServingAt(i) ==
  \/ serving # 0 /\ \A k \in 1..(i - 1) : pending[k].op # "finish"
  \/ \E k \in 1..(i - 1) : pending[k].op = "start" /\ \A n \in (k + 1)..(i - 1) : pending[n].op # "finish"
ServesLast == ServingAt(Len(pending) + 1)
\* .. and whether it drops audio once it has handled all of them.
HeldLast ==
  \/ held /\ \A k \in DOMAIN pending : pending[k].op \notin {"resume", "start", "finish"}
  \/ \E k \in DOMAIN pending :
       pending[k].op = "pause" /\ \A n \in (k + 1)..Len(pending) : pending[n].op \notin {"resume", "start", "finish"}
NotServed == serving = 0 /\ \A k \in DOMAIN pending : pending[k].op # "start"

ReleaseInv ==
  /\ WindowOpen
  /\ phase = "completed" \/ (job["window"].op = "stop" /\ job["window"].at \in {"acking", "completing"})
  => ~ServesLast

\* Until a connection is lost each command finds the sidecar as it expects it.
Only(ops) == \A k \in DOMAIN pending : pending[k].op \in ops
Expected ==
  \A i \in DOMAIN pending : /\ pending[i].op \in {"pause", "resume", "finish"} => ServingAt(i)
                            /\ pending[i].op = "start" => ~ServingAt(i)
\* A start is not answered before it is sent, nor is a plan.
NotYetSent ==
  /\ job["window"].op = "start" /\ job["window"].at \in {"launching", "planning"} =>
       /\ heard["window"] # "ready"
       /\ \A i \in DOMAIN pending : pending[i].op = "start" => pending[i].session # session
  /\ At("window", "start", "launching") =>
       /\ planned # "plan"
       /\ \A i \in DOMAIN pending : pending[i].op = "plan" => pending[i].session # session
\* Its plan is the last command before the start, and finds nothing served.
PlanIsLast ==
  At("window", "start", "planning") =>
    /\ \A i \in DOMAIN pending : pending[i].op = "plan" /\ pending[i].session = session =>
         \A n \in DOMAIN pending : n > i => pending[n].op = "audio"
    /\ planned = "plan" => serving = 0 /\ Only({"audio"})
StartIsLast ==
  At("window", "start", "readying") => Only({"audio", "start"}) /\ (heard["window"] = "ready" => serving # 0)
Serving ==
  \/ phase \in {"listening", "paused"}
  \/ job["window"].op = "start" /\ job["window"].at \in {"opening", "marking"}
  \/ job["window"].op = "stop" /\ job["window"].at \in {"silencing", "finishing"}
CommandParts == Expected /\ NotYetSent /\ PlanIsLast /\ StartIsLast /\ (Serving => ServesLast)
CommandInv == WindowOpen /\ ~disrupted => link # "broken" /\ CommandParts
QuietInv ==
  WindowOpen /\ phase = "paused" /\ mic.state = "running" =>
    \/ NotServed \/ HeldLast
    \/ job["window"].op = "resume" /\ job["window"].at \in {"sending", "unmuting", "checking"}
ExpectInv == refused \in {"start", "pause", "resume", "finish"} => ~WindowOpen

\* The places a step names are places of commands.
LEMMA StepNames ==
  /\ "planning" \in Steps /\ "readying" \in Steps /\ "opening" \in Steps /\ "marking" \in Steps /\ "failing" \in Steps
  /\ "sending" \in Steps /\ "reopening" \in Steps /\ "unmuting" \in Steps /\ "checking" \in Steps
  /\ "finishing" \in Steps /\ "acking" \in Steps /\ "completing" \in Steps /\ "recording" \in Steps
  /\ "leaving" \in Steps /\ "gone" \in Steps
BY DEF Steps

\* Goto and Return, for every place and worker.
LEMMA Gotos ==
  ASSUME JobOK
  PROVE  /\ \A w \in Workers : \A at \in Steps : Goto(w, at) => Moves(w, at)
         /\ \A w \in Workers : Return(w) => Ends(w)
BY GotoMoves, ReturnEnds DEF JobOK

\* Phase, window and the window's command stay in step.
LEMMA ControlStep == ASSUME TypeInv, ControlInv, Next PROVE ControlInv'
<1>0. CoreOK /\ JobOK
  BY DEF TypeInv
<1> USE StepNames, Gotos DEF WindowOpen, ControlInv, ClosingInv, PhaseInv, SeenInv,
      CoreOK, JobOK, JobsPlaced, PlacedFor, Placed, JobsOfStarted, At, Running, Moves, Ends, Begins, NoJob
<1>1. CASE UiStart
  BY <1>0, <1>1, UiStartBegins DEF UiStart, Enter
<1>2. CASE UiPause \/ UiResume
  BY <1>0, <1>2, UiToggleBegins DEF UiPause, UiResume, UiToggle, coreVars
<1>3. CASE UiStop
  BY <1>0, <1>3, BeginStopBegins DEF UiStop, BeginStop, Enter, windowVars, Stoppable
<1>4. CASE Close
  BY <1>0, <1>4, CloseBegins DEF Close, BeginStop, Enter, windowVars, coreVars, Stoppable
<1>5. CASE Launch \/ Relaunch \/ Planned \/ Answered \/ Opened
  BY <1>0, <1>5 DEF Launch, Relaunch, Planned, Answered, Opened, StartFails, coreVars, windowVars
<1>6. CASE MarkListening
  BY <1>0, <1>6, MarkListeningBegins DEF MarkListening, Enter, windowVars
<1>7. CASE CreateRow
  BY <1>0, <1>7 DEF CreateRow, coreVars
<1>8. CASE FailStart
  BY <1>0, <1>8 DEF FailStart, Enter, Show
<1>9. CASE Mute \/ Replace \/ Reopened \/ SendToggle \/ Unmute
  BY <1>0, <1>9 DEF Mute, Replace, Reopened, SendToggle, Unmute, coreVars, windowVars
<1>10. CASE CheckToggle
  BY <1>0, <1>10 DEF CheckToggle, Enter, Show
<1>11. CASE \E w \in Workers : Silence(w) \/ SendFinish(w) \/ Acknowledged(w)
  BY <1>0, <1>11 DEF Silence, SendFinish, Acknowledged, coreVars, windowVars
<1>12. CASE \E w \in Workers : Complete(w)
  BY <1>0, <1>12 DEF Complete, Enter, windowVars
<1>13. CASE \E w \in Workers : Record(w)
  BY <1>0, <1>13 DEF Record, Show, coreVars
<1>14. CASE Leave
  BY <1>0, <1>14 DEF Leave, coreVars, windowVars
<1>15. CASE HandleRemoval \/ ForwardDisconnect
  BY <1>0, <1>15 DEF HandleRemoval, ForwardDisconnect, Enter, windowVars, jobVars
<1>16. CASE SendAudio \/ DrainAudio \/ Sidecar \/ Crash \/ BackgroundLaunch \/ SettingsChange \/ DeviceFails \/ Refresh
  BY <1>0, <1>16 DEF SendAudio, DrainAudio, Sidecar, Serve, Refuse, Disconnected, Crash, BackgroundLaunch,
    SettingsChange, DeviceFails, Refresh, coreVars, windowVars, jobVars
<1> QED BY <1>1, <1>2, <1>3, <1>4, <1>5, <1>6, <1>7, <1>8, <1>9, <1>10, <1>11, <1>12, <1>13, <1>14, <1>15, <1>16
    DEF Next, User, Start, Toggle, Stop, Audio

\* A source changes its state: the slot keeps its owner.
LEMMA MicState ==
  ASSUME AudioOK, NEW m \in {"running", "paused", "failed"}, mic' = [mic EXCEPT !.state = m]
  PROVE  mic'.state = m /\ mic'.owner = mic.owner
BY DEF AudioOK

\* No step leaves a capture without its session.
LEMMA CaptureStep == ASSUME TypeInv, ControlInv, CaptureInv, Next PROVE CaptureInv'
<1>0. CoreOK /\ JobOK /\ AudioOK
  BY DEF TypeInv
<1> USE StepNames, Gotos DEF WindowOpen, ControlInv, ClosingInv, PhaseInv, CaptureInv,
      CoreOK, JobOK, JobsPlaced, PlacedFor, Placed, At, Running, Moves, Ends, Begins, NoJob
<1>1. CASE UiStart
  BY <1>0, <1>1, UiStartBegins DEF UiStart, Enter, audioVars
<1>2. CASE UiPause \/ UiResume
  BY <1>0, <1>2, UiToggleBegins DEF UiPause, UiResume, UiToggle, coreVars, audioVars
<1>3. CASE UiStop
  BY <1>0, <1>3, BeginStopBegins DEF UiStop, BeginStop, Enter, Stoppable, audioVars
<1>4. CASE Close
  BY <1>0, <1>4, CloseBegins
<1>5. CASE Launch \/ Relaunch \/ Planned \/ Answered
  BY <1>0, <1>5 DEF Launch, Relaunch, Planned, Answered, StartFails, coreVars, audioVars
<1>6. CASE Opened \/ Reopened
  BY <1>0, <1>6 DEF Opened, Reopened, OpenSucceeds, StartFails, coreVars, audioVars
<1>7. CASE MarkListening
  BY <1>0, <1>7, MarkListeningBegins DEF MarkListening, Enter, audioVars
<1>8. CASE CreateRow \/ CheckToggle
  BY <1>0, <1>8 DEF CreateRow, CheckToggle, Enter, coreVars, audioVars
<1>9. CASE FailStart \/ Replace \/ (\E w \in Workers : Silence(w))
  BY <1>0, <1>9 DEF FailStart, Replace, Silence, ReleaseAudio, Enter, NoMic, coreVars, audioVars
<1>10. CASE Mute \/ Unmute
  <2>1. UNCHANGED coreVars /\ job["window"].op \in {"pause", "resume"} /\ job["window"].at \in {"muting", "unmuting"}
    BY <1>10 DEF Mute, Unmute
  <2>2. \/ mic' = mic
        \/ mic.state # "none" /\ mic'.state \in {"running", "paused"} /\ mic'.owner = mic.owner
    BY <1>0, <1>10, MicState DEF Mute, Unmute
  <2>3. job'["close"] = job["close"] /\ (job["window"].op = "pause" => mic'.state # "running" \/ Ends("window"))
    <3>1. CASE Mute
      <4>1. CASE Goto("window", "sending")
        BY <1>0, <3>1, <4>1, MicState DEF Mute
      <4>2. CASE Return("window")
        BY <1>0, <4>2
      <4> QED BY <3>1, <4>1, <4>2 DEF Mute
    <3>2. CASE Unmute
      BY <1>0, <3>2 DEF Unmute
    <3> QED BY <1>10, <3>1, <3>2
  <2>4. job'["window"].op # "stop" /\ (job'["window"].op = "pause" => job["window"].op = "pause" /\ ~Ends("window"))
    BY <1>0, <1>10 DEF Mute, Unmute
  <2> QED BY <2>1, <2>2, <2>3, <2>4 DEF coreVars
<1>11. CASE SendToggle
  <2>1. job["window"].op = "pause" => At("window", "pause", "sending")
    BY <1>11 DEF SendToggle
  <2> QED BY <1>0, <1>11, <2>1 DEF SendToggle, coreVars, audioVars
<1>12. CASE \E w \in Workers : SendFinish(w) \/ Acknowledged(w) \/ Complete(w) \/ Record(w)
  BY <1>0, <1>12 DEF SendFinish, Acknowledged, Complete, Record, Enter, coreVars, audioVars
<1>13. CASE Leave
  BY <1>0, <1>13 DEF Leave
<1>14. CASE DeviceFails
  BY <1>0, <1>14, MicState DEF DeviceFails, coreVars, jobVars
<1>15. CASE HandleRemoval \/ ForwardDisconnect
  BY <1>0, <1>15 DEF HandleRemoval, ForwardDisconnect, Enter, audioVars, jobVars
<1>16. CASE SendAudio \/ DrainAudio \/ Sidecar \/ Crash \/ BackgroundLaunch \/ SettingsChange \/ Refresh
  BY <1>16 DEF SendAudio, DrainAudio, Sidecar, Serve, Refuse, Disconnected, Crash, BackgroundLaunch, SettingsChange,
     Refresh, coreVars, jobVars, audioVars
<1> QED BY <1>1, <1>2, <1>3, <1>4, <1>5, <1>6, <1>7, <1>8, <1>9, <1>10, <1>11, <1>12, <1>13, <1>14, <1>15, <1>16
        DEF Next, User, Start, Toggle, Stop, Audio

\* No step leaves a row active without its session.
LEMMA RowStep == ASSUME TypeInv, ControlInv, RowInv, Next PROVE RowInv'
<1>0. CoreOK /\ JobOK /\ RecordOK
  BY DEF TypeInv
<1> USE StepNames, Gotos DEF WindowOpen, ControlInv, ClosingInv, PhaseInv, RowInv,
      CoreOK, JobOK, JobsPlaced, PlacedFor, Placed, At, Running, Moves, Ends, Begins, NoJob
<1>1. CASE UiStart
  BY <1>0, <1>1, UiStartBegins DEF UiStart, Enter
<1>2. CASE UiPause \/ UiResume
  BY <1>0, <1>2, UiToggleBegins DEF UiPause, UiResume, UiToggle, coreVars, recordVars
<1>3. CASE UiStop
  BY <1>0, <1>3, BeginStopBegins DEF UiStop, BeginStop, Enter, Stoppable, recordVars
<1>4. CASE Close
  BY <1>0, <1>4, CloseBegins
<1>5. CASE Launch \/ Relaunch \/ Planned \/ Answered \/ Opened
  BY <1>0, <1>5 DEF Launch, Relaunch, Planned, Answered, Opened, StartFails, coreVars
<1>6. CASE MarkListening
  BY <1>0, <1>6, MarkListeningBegins DEF MarkListening, Enter, recordVars
<1>7. CASE CreateRow
  <2>1. UNCHANGED <<phase, session>> /\ job'["window"] = NoJob /\ job'["close"] = job["close"]
    BY <1>0, <1>7 DEF CreateRow, coreVars
  <2>2. \A s \in Sessions : store'[s] = "active" => store[s] = "active" \/ s = job["window"].session
    BY <1>0, <1>7 DEF CreateRow, RecordOK
  <2>3. WindowOpen => job["window"].session = session /\ phase \in {"listening", "paused"}
    BY <1>7 DEF CreateRow
  <2> QED BY <1>7, <2>1, <2>2, <2>3 DEF CreateRow
<1>8. CASE FailStart
  BY <1>0, <1>8 DEF FailStart, Enter, recordVars
<1>9. CASE Mute \/ Replace \/ Reopened \/ SendToggle \/ Unmute \/ CheckToggle
  BY <1>0, <1>9 DEF Mute, Replace, Reopened, SendToggle, Unmute, CheckToggle, Enter, coreVars, recordVars
<1>10. CASE \E w \in Workers : Silence(w) \/ SendFinish(w) \/ Acknowledged(w) \/ Complete(w)
  BY <1>0, <1>10 DEF Silence, SendFinish, Acknowledged, Complete, Enter, coreVars, recordVars
<1>11. ASSUME NEW w \in Workers, Record(w) PROVE RowInv'
  <2>1. CASE w = "close"
    BY <1>0, <1>11, <2>1 DEF Record
  <2>2. CASE w = "window"
    <3>1. UNCHANGED <<phase, session>> /\ job'["window"] = NoJob /\ job'["close"] = job["close"]
      BY <1>0, <1>11, <2>2 DEF Record, coreVars
    <3>2. \A s \in Sessions : store'[s] = "active" => store[s] = "active" /\ s # job["window"].session
      BY <1>0, <1>11, <2>2 DEF Record, RecordOK
    <3>3. WindowOpen => job["window"].session = session
      BY <1>11, <2>2 DEF Record
    <3> QED BY <3>1, <3>2, <3>3
  <2> QED BY <2>1, <2>2
<1>12. CASE Leave
  BY <1>0, <1>12 DEF Leave
<1>13. CASE Audio \/ ForwardDisconnect
  BY <1>0, <1>13 DEF Audio, SendAudio, DrainAudio, HandleRemoval, ForwardDisconnect, Enter, coreVars, recordVars, jobVars
<1>14. CASE Sidecar \/ Crash \/ BackgroundLaunch \/ SettingsChange \/ DeviceFails \/ Refresh
  BY <1>14 DEF Sidecar, Serve, Refuse, Disconnected, Crash, BackgroundLaunch, SettingsChange, DeviceFails, Refresh,
     coreVars, jobVars, recordVars
<1> QED BY <1>1, <1>2, <1>3, <1>4, <1>5, <1>6, <1>7, <1>8, <1>9, <1>10, <1>11, <1>12, <1>13, <1>14
        DEF Next, User, Start, Toggle, Stop, Audio

----------------------------------------------------------------------------
(* The queue                                                               *)

\* What a command that is sent means for the end of the queue.
LEMMA Longer ==
  ASSUME pending \in Seq(Message), NEW m \in Message, pending' = Append(pending, m), UNCHANGED <<serving, held>>
  PROVE  /\ Len(pending') = Len(pending) + 1 /\ pending'[Len(pending) + 1] = m
         /\ \A i \in DOMAIN pending : i \in DOMAIN pending' /\ pending'[i] = pending[i]
         /\ \A i \in DOMAIN pending' : i \in DOMAIN pending \/ i = Len(pending) + 1
         /\ \A i \in 1..(Len(pending) + 1) : ServingAt(i)' <=> ServingAt(i)
         /\ ServesLast' <=> m.op = "start" \/ (m.op # "finish" /\ ServesLast)
         /\ HeldLast' <=> m.op = "pause" \/ (m.op \notin {"resume", "start", "finish"} /\ HeldLast)
<1>1. /\ Len(pending) \in Nat /\ Len(pending') = Len(pending) + 1 /\ pending'[Len(pending) + 1] = m
      /\ \A i \in DOMAIN pending : i \in DOMAIN pending' /\ pending'[i] = pending[i]
      /\ \A i \in DOMAIN pending' : i \in DOMAIN pending \/ i = Len(pending) + 1
      /\ DOMAIN pending = 1..Len(pending) /\ DOMAIN pending' = 1..(Len(pending) + 1)
  OBVIOUS
<1>2. ASSUME NEW i \in 1..(Len(pending) + 1) PROVE ServingAt(i)' <=> ServingAt(i)
  BY <1>1 DEF ServingAt
<1>3. ServesLast' <=> m.op = "start" \/ (m.op # "finish" /\ ServesLast)
  BY <1>1 DEF ServesLast, ServingAt
<1>4. HeldLast' <=> m.op = "pause" \/ (m.op \notin {"resume", "start", "finish"} /\ HeldLast)
  BY <1>1 DEF HeldLast
<1> QED BY <1>1, <1>2, <1>3, <1>4

\* A command that is handled leaves the rest of the queue as it finds it.
LEMMA Shorter ==
  ASSUME SidecarOK, Serve
  PROVE  /\ Len(pending') = Len(pending) - 1 /\ Len(pending) > 0
         /\ \A i \in DOMAIN pending' : i + 1 \in DOMAIN pending /\ pending'[i] = pending[i + 1]
         /\ \A i \in DOMAIN pending' : ServingAt(i)' <=> ServingAt(i + 1)
         /\ ServesLast' <=> ServesLast
         /\ HeldLast' <=> HeldLast
         /\ NotServed => NotServed'
<1>1. /\ pending \in Seq(Message) /\ Len(pending) > 0 /\ Len(pending) \in Nat
      /\ pending' \in Seq(Message) /\ Len(pending') = Len(pending) - 1
      /\ \A i \in DOMAIN pending' : i + 1 \in DOMAIN pending /\ pending'[i] = pending[i + 1]
      /\ DOMAIN pending = 1..Len(pending) /\ DOMAIN pending' = 1..Len(pending')
      /\ Head(pending) = pending[1]
  BY DEF SidecarOK, Serve
<1>2. /\ Accepts(pending[1].op)
      /\ serving' = CASE pending[1].op = "start"  -> pending[1].session
                      [] pending[1].op = "finish" -> 0
                      [] OTHER                    -> serving
      /\ held' = (pending[1].op = "pause" \/ (held /\ pending[1].op \notin {"resume", "start", "finish"}))
      /\ pending[1].op = "start" => pending[1].session # 0
  BY <1>1 DEF SidecarOK, MessagesOfStarted, Serve
<1>3. /\ pending[1].op = "start" => serving = 0 /\ serving' # 0
      /\ pending[1].op = "finish" => serving' = 0
      /\ pending[1].op \notin {"start", "finish"} => serving' = serving
  BY <1>2 DEF Accepts
<1>4. /\ pending[1].op = "pause" => held'
      /\ pending[1].op \in {"resume", "start", "finish"} => ~held'
      /\ pending[1].op \notin {"pause", "resume", "start", "finish"} => (held' <=> held)
  BY <1>2
<1>5. ASSUME NEW i \in 1..(Len(pending') + 1) PROVE ServingAt(i)' <=> ServingAt(i + 1)
  <2>1. i \in Nat /\ i >= 1 /\ i <= Len(pending)
    BY <1>1
  <2>2. ASSUME ServingAt(i)' PROVE ServingAt(i + 1)
    <3>1. CASE serving' # 0 /\ \A k \in 1..(i - 1) : pending'[k].op # "finish"
      <4>1. \A n \in 2..i : pending[n].op # "finish"
        <5> TAKE n \in 2..i
        <5>1. n - 1 \in 1..(i - 1) /\ n - 1 \in DOMAIN pending' /\ pending'[n - 1] = pending[n]
          BY <1>1, <2>1
        <5> QED BY <3>1, <5>1
      <4>2. CASE pending[1].op = "start"
        BY <2>1, <4>1, <4>2 DEF ServingAt
      <4>3. CASE pending[1].op # "start"
        BY <1>3, <2>1, <3>1, <4>1, <4>3 DEF ServingAt
      <4> QED BY <4>2, <4>3
    <3>2. CASE \E k \in 1..(i - 1) : pending'[k].op = "start" /\ \A n \in (k + 1)..(i - 1) : pending'[n].op # "finish"
      <4>1. PICK k \in 1..(i - 1) : pending'[k].op = "start" /\ \A n \in (k + 1)..(i - 1) : pending'[n].op # "finish"
        BY <3>2
      <4>2. k + 1 \in 1..i /\ pending[k + 1].op = "start"
        BY <1>1, <2>1, <4>1
      <4>3. \A n \in (k + 2)..i : pending[n].op # "finish"
        <5> TAKE n \in (k + 2)..i
        <5>1. n - 1 \in (k + 1)..(i - 1) /\ n - 1 \in DOMAIN pending' /\ pending'[n - 1] = pending[n]
          BY <1>1, <2>1, <4>1
        <5> QED BY <4>1, <5>1
      <4> QED BY <2>1, <4>2, <4>3 DEF ServingAt
    <3> QED BY <2>2, <3>1, <3>2 DEF ServingAt
  <2>3. ASSUME ServingAt(i + 1) PROVE ServingAt(i)'
    <3>1. CASE serving # 0 /\ \A k \in 1..i : pending[k].op # "finish"
      <4>1. serving' # 0
        BY <1>3, <2>1, <3>1
      <4>2. \A k \in 1..(i - 1) : pending'[k].op # "finish"
        BY <1>1, <2>1, <3>1
      <4> QED BY <4>1, <4>2 DEF ServingAt
    <3>2. CASE \E k \in 1..i : pending[k].op = "start" /\ \A n \in (k + 1)..i : pending[n].op # "finish"
      <4>1. PICK k \in 1..i : pending[k].op = "start" /\ \A n \in (k + 1)..i : pending[n].op # "finish"
        BY <3>2
      <4>2. \A n \in k..(i - 1) : pending'[n].op # "finish"
        BY <1>1, <2>1, <4>1
      <4>3. CASE k = 1
        BY <1>3, <2>1, <4>1, <4>2, <4>3 DEF ServingAt
      <4>4. CASE k # 1
        <5>1. k - 1 \in 1..(i - 1) /\ k - 1 \in DOMAIN pending' /\ pending'[k - 1].op = "start" /\ (k - 1) + 1 = k
          BY <1>1, <2>1, <4>1, <4>4
        <5> QED BY <4>2, <5>1 DEF ServingAt
      <4> QED BY <4>3, <4>4
    <3>3. (i + 1) - 1 = i
      BY <2>1
    <3> QED BY <2>3, <3>1, <3>2, <3>3 DEF ServingAt
  <2> QED BY <2>2, <2>3
<1>6. ServesLast' <=> ServesLast
  <2>1. Len(pending') + 1 \in 1..(Len(pending') + 1) /\ Len(pending') + 1 = Len(pending)
    BY <1>1
  <2> QED BY <1>5, <2>1 DEF ServesLast
<1>7. HeldLast' <=> HeldLast
  <2>1. ASSUME HeldLast' PROVE HeldLast
    <3>1. CASE held' /\ \A k \in DOMAIN pending' : pending'[k].op \notin {"resume", "start", "finish"}
      <4>1. \A n \in 2..Len(pending) : pending[n].op \notin {"resume", "start", "finish"}
        <5> TAKE n \in 2..Len(pending)
        <5>1. n - 1 \in DOMAIN pending' /\ pending'[n - 1] = pending[n]
          BY <1>1
        <5> QED BY <3>1, <5>1
      <4>2. CASE pending[1].op = "pause"
        BY <1>1, <4>1, <4>2 DEF HeldLast
      <4>3. CASE pending[1].op # "pause"
        <5>1. held /\ pending[1].op \notin {"resume", "start", "finish"}
          BY <1>4, <3>1, <4>3
        <5>2. \A n \in DOMAIN pending : n = 1 \/ n \in 2..Len(pending)
          BY <1>1
        <5> QED BY <4>1, <5>1, <5>2 DEF HeldLast
      <4> QED BY <4>2, <4>3
    <3>2. CASE \E k \in DOMAIN pending' :
                 pending'[k].op = "pause" /\ \A n \in (k + 1)..Len(pending') : pending'[n].op \notin {"resume", "start", "finish"}
      <4>1. PICK k \in DOMAIN pending' :
                 pending'[k].op = "pause" /\ \A n \in (k + 1)..Len(pending') : pending'[n].op \notin {"resume", "start", "finish"}
        BY <3>2
      <4>2. k + 1 \in DOMAIN pending /\ pending[k + 1].op = "pause"
        BY <1>1, <4>1
      <4>3. \A n \in (k + 2)..Len(pending) : pending[n].op \notin {"resume", "start", "finish"}
        <5> TAKE n \in (k + 2)..Len(pending)
        <5>1. n - 1 \in (k + 1)..Len(pending') /\ n - 1 \in DOMAIN pending' /\ pending'[n - 1] = pending[n]
          BY <1>1, <4>1
        <5> QED BY <4>1, <5>1
      <4>4. (k + 1) + 1 = k + 2
        BY <1>1, <4>1
      <4> QED BY <4>2, <4>3, <4>4 DEF HeldLast
    <3> QED BY <2>1, <3>1, <3>2 DEF HeldLast
  <2>2. ASSUME HeldLast PROVE HeldLast'
    <3>1. CASE held /\ \A k \in DOMAIN pending : pending[k].op \notin {"resume", "start", "finish"}
      <4>1. held'
        BY <1>1, <1>4, <3>1
      <4>2. \A k \in DOMAIN pending' : pending'[k].op \notin {"resume", "start", "finish"}
        BY <1>1, <3>1
      <4> QED BY <4>1, <4>2 DEF HeldLast
    <3>2. CASE \E k \in DOMAIN pending :
                 pending[k].op = "pause" /\ \A n \in (k + 1)..Len(pending) : pending[n].op \notin {"resume", "start", "finish"}
      <4>1. PICK k \in DOMAIN pending :
                 pending[k].op = "pause" /\ \A n \in (k + 1)..Len(pending) : pending[n].op \notin {"resume", "start", "finish"}
        BY <3>2
      <4>2. \A n \in k..Len(pending') : pending'[n].op \notin {"resume", "start", "finish"}
        BY <1>1, <4>1
      <4>3. CASE k = 1
        <5>1. held' /\ \A n \in DOMAIN pending' : n \in k..Len(pending')
          BY <1>1, <1>4, <4>1, <4>3
        <5> QED BY <4>2, <5>1 DEF HeldLast
      <4>4. CASE k # 1
        <5>1. k - 1 \in DOMAIN pending' /\ pending'[k - 1].op = "pause" /\ (k - 1) + 1 = k
          BY <1>1, <4>1, <4>4
        <5> QED BY <4>2, <5>1 DEF HeldLast
      <4> QED BY <4>3, <4>4
    <3> QED BY <2>2, <3>1, <3>2 DEF HeldLast
  <2> QED BY <2>1, <2>2
<1>8. NotServed => NotServed'
  BY <1>1, <1>3 DEF NotServed
<1> QED BY <1>1, <1>5, <1>6, <1>7, <1>8

\* A connection that is cut, or gone, serves nothing and will serve nothing.
LEMMA Emptied ==
  ASSUME pending' = <<>>, serving' = 0
  PROVE  ~ServesLast' /\ NotServed' /\ DOMAIN pending' = {} /\ Len(pending') = 0
BY DEF ServesLast, ServingAt, NotServed
LEMMA LinkDown ==
  ASSUME SidecarOK, link # "up"
  PROVE  ~ServesLast /\ NotServed /\ pending = <<>> /\ serving = 0
BY DEF SidecarOK, ServesLast, ServingAt, NotServed

\* Readings of the queue depend on the queue and the served session only.
LEMMA SameQueue ==
  ASSUME UNCHANGED <<pending, serving, held>>
  PROVE  /\ ServesLast' <=> ServesLast
         /\ HeldLast' <=> HeldLast
         /\ NotServed' <=> NotServed
         /\ \A i \in DOMAIN pending : ServingAt(i)' <=> ServingAt(i)
<1>1. ServesLast' <=> ServesLast
  BY DEF ServesLast, ServingAt
<1>2. HeldLast' <=> HeldLast
  BY DEF HeldLast
<1>3. NotServed' <=> NotServed
  BY DEF NotServed
<1>4. \A i \in DOMAIN pending : ServingAt(i)' <=> ServingAt(i)
  BY DEF ServingAt
<1> QED BY <1>1, <1>2, <1>3, <1>4

\* What something sent means for the end of the queue, whatever the link.
LEMMA Posted ==
  ASSUME SidecarOK, NEW op \in Ops, NEW s \in 0..MaxSession, Send(op, s), UNCHANGED <<serving, held>>
  PROVE  /\ ServesLast' <=> (op = "start" /\ link = "up") \/ (op # "finish" /\ ServesLast)
         /\ link = "up" => (HeldLast' <=> op = "pause" \/ (op \notin {"resume", "start", "finish"} /\ HeldLast))
         /\ link # "up" => NotServed'
         /\ op # "start" /\ NotServed => NotServed'
         /\ op = "audio" /\ HeldLast => HeldLast'
<1> DEFINE m == [op |-> op, session |-> s]
<1>1. m \in Message /\ m.op = op /\ pending \in Seq(Message)
  BY DEF Message, Ops, SidecarOK
<1>2. CASE link = "up"
  <2>1. pending' = Append(pending, m)
    BY <1>2 DEF Send
  <2> HIDE DEF m
  <2>2. /\ ServesLast' <=> op = "start" \/ (op # "finish" /\ ServesLast)
        /\ HeldLast' <=> op = "pause" \/ (op \notin {"resume", "start", "finish"} /\ HeldLast)
    BY <1>1, <2>1, Longer
  <2>3. op # "start" /\ NotServed => NotServed'
    BY <1>1, <2>1, Longer DEF NotServed
  <2> QED BY <1>2, <2>2, <2>3
<1>3. CASE link # "up"
  <2>1. pending' = pending
    BY <1>3 DEF Send
  <2> QED BY <1>3, <2>1, LinkDown, SameQueue
<1> QED BY <1>2, <1>3

----------------------------------------------------------------------------
(* Stop takes the session off the sidecar                                  *)

\* Steps that leave the queue and what the sidecar serves alone.
QueueIdle ==
  \/ User \/ Answered \/ Opened \/ MarkListening \/ CreateRow \/ FailStart
  \/ Mute \/ Replace \/ Reopened \/ Unmute \/ CheckToggle
  \/ (\E w \in Workers : Silence(w) \/ Acknowledged(w) \/ Complete(w) \/ Record(w))
  \/ DeviceFails \/ Refresh \/ Disconnected \/ ForwardDisconnect \/ BackgroundLaunch

\* They leave all three variables as they are.
LEMMA QueueIdleLeaves == ASSUME QueueIdle PROVE UNCHANGED <<pending, serving, held>>
BY DEF QueueIdle, User, UiStart, UiPause, UiResume, UiToggle, UiStop, Close, Answered, Opened, MarkListening, CreateRow,
   FailStart, Mute, Replace, Reopened, Unmute, CheckToggle, Silence, Acknowledged, Complete, Record, DeviceFails,
   Refresh, Disconnected, ForwardDisconnect, BackgroundLaunch, sidecarVars

\* A completed session is not served at the end of the queue.
LEMMA ReleaseStep == ASSUME TypeInv, ControlInv, ReleaseInv, Next PROVE ReleaseInv'
<1>0. CoreOK /\ JobOK /\ SidecarOK
  BY DEF TypeInv
<1> DEFINE Released == phase = "completed" \/ (job["window"].op = "stop" /\ job["window"].at \in {"acking", "completing"})
<1>a. ASSUME WindowOpen' /\ Released' => WindowOpen /\ Released, ServesLast' => ServesLast PROVE ReleaseInv'
  BY <1>a DEF ReleaseInv
<1>1. CASE QueueIdle
  <2>1. ServesLast' => ServesLast
    BY <1>1, QueueIdleLeaves, SameQueue
  <2>2. WindowOpen' /\ Released' => WindowOpen /\ Released
    <3> USE StepNames, Gotos DEF WindowOpen, ControlInv, PhaseInv,
          CoreOK, JobOK, JobsPlaced, PlacedFor, Placed, At, Running, Moves, Ends, Begins, NoJob
    <3>1. CASE User
      BY <1>0, <3>1, UiStartBegins, UiToggleBegins, BeginStopBegins, CloseBegins
         DEF User, UiStart, UiPause, UiResume, UiToggle, UiStop, BeginStop, Enter, coreVars
    <3>2. CASE Answered \/ Opened \/ CreateRow \/ FailStart
      BY <1>0, <3>2 DEF Answered, Opened, CreateRow, FailStart, StartFails, Enter, coreVars
    <3>3. CASE MarkListening
      BY <1>0, <3>3, MarkListeningBegins DEF MarkListening, Enter
    <3>4. CASE Mute \/ Replace \/ Reopened \/ Unmute \/ CheckToggle
      BY <1>0, <3>4 DEF Mute, Replace, Reopened, Unmute, CheckToggle, Enter, coreVars
    <3>5. CASE \E w \in Workers : Silence(w) \/ Acknowledged(w) \/ Complete(w) \/ Record(w)
      BY <1>0, <3>5 DEF Silence, Acknowledged, Complete, Record, Enter, coreVars
    <3>6. CASE DeviceFails \/ Refresh \/ Disconnected \/ ForwardDisconnect \/ BackgroundLaunch
      BY <1>0, <3>6 DEF DeviceFails, Refresh, Disconnected, ForwardDisconnect, BackgroundLaunch, coreVars, jobVars
    <3> QED BY <1>1, <3>1, <3>2, <3>3, <3>4, <3>5, <3>6 DEF QueueIdle
  <2> QED BY <2>1, <2>2, <1>a
<1>2. CASE Launch \/ Planned \/ Relaunch
  <2>1. job["window"].op = "start" /\ phase' = phase /\ job'["close"] = job["close"] /\ job'["window"].op = "start"
    BY <1>0, <1>2, StepNames, Gotos DEF Launch, Planned, Relaunch, StartFails, At, coreVars, Moves, JobOK
  <2>2. WindowOpen' => phase' = "starting" \/ ~Released'
    BY <2>1 DEF WindowOpen, ControlInv, PhaseInv, At
  <2>3. ~(WindowOpen' /\ Released')
    BY <2>1, <2>2
  <2> QED BY <2>3 DEF ReleaseInv
<1>3. CASE SendToggle
  <2>1. job["window"].op \in {"pause", "resume"}
    BY <1>0, <1>3 DEF SendToggle, JobOK, JobsPlaced, PlacedFor, Placed
  <2>2. ServesLast' => ServesLast
    <3>1. CASE Send(job["window"].op, session)
      BY <1>0, <1>3, <2>1, <3>1, Posted DEF SendToggle, CoreOK, Ops
    <3>2. CASE UNCHANGED pending
      BY <1>3, <3>2, SameQueue DEF SendToggle
    <3> QED BY <1>3, <3>1, <3>2 DEF SendToggle
  <2>3. WindowOpen' /\ Released' => WindowOpen /\ Released
    BY <1>0, <1>3, <2>1, StepNames, Gotos DEF SendToggle, coreVars, WindowOpen, JobOK, Moves, Ends, NoJob
  <2> QED BY <2>2, <2>3, <1>a
<1>4. ASSUME NEW w \in Workers, SendFinish(w) PROVE ReleaseInv'
  <2>1. job[w].session \in 0..MaxSession
    BY <1>0 DEF JobOK, Job
  <2>2. CASE Send("finish", job[w].session)
    <3>1. ~ServesLast'
      BY <1>0, <1>4, <2>1, <2>2, Posted DEF SendFinish, Ops
    <3> QED BY <3>1 DEF ReleaseInv
  <2>3. CASE ~Reachable /\ UNCHANGED pending
    <3>1. ~ServesLast'
      BY <1>0, <1>4, <2>3, SameQueue, LinkDown DEF SendFinish, Reachable
    <3> QED BY <3>1 DEF ReleaseInv
  <2> QED BY <1>4, <2>2, <2>3 DEF SendFinish
<1>5. CASE Audio
  <2>1. jobVars' = jobVars /\ (phase' # phase => phase' = "paused")
    BY <1>5 DEF Audio, SendAudio, DrainAudio, HandleRemoval, coreVars, Enter
  <2>2. ServesLast' => ServesLast
    <3>1. UNCHANGED <<serving, held>>
      BY <1>5 DEF Audio, SendAudio, DrainAudio, HandleRemoval
    <3>2. CASE Send("audio", 0)
      BY <1>0, <3>1, <3>2, Posted DEF Ops
    <3>3. CASE Send("pause", session)
      BY <1>0, <3>1, <3>3, Posted DEF Ops, CoreOK
    <3>4. CASE UNCHANGED pending
      BY <3>1, <3>4, SameQueue
    <3> QED BY <1>5, <3>2, <3>3, <3>4 DEF Audio, SendAudio, DrainAudio, HandleRemoval
  <2> QED BY <2>1, <2>2, <1>a DEF jobVars, WindowOpen
<1>6. CASE Serve
  BY <1>0, <1>6, Shorter, <1>a DEF Serve, coreVars, WindowOpen
<1>7. CASE Leave \/ Refuse \/ Crash
  <2>1. ~ServesLast'
    BY <1>7, Emptied DEF Leave, Refuse, Crash, EndConnection
  <2> QED BY <2>1 DEF ReleaseInv
<1>8. CASE SettingsChange
  <2>1. CASE pending' = <<>> /\ serving' = 0
    BY <2>1, Emptied DEF ReleaseInv
  <2>2. CASE UNCHANGED <<serving, held, pending>>
    BY <1>8, <2>2, SameQueue, <1>a DEF SettingsChange, coreVars, WindowOpen
  <2> QED BY <1>8, <2>1, <2>2 DEF SettingsChange
<1> QED BY <1>1, <1>2, <1>3, <1>4, <1>5, <1>6, <1>7, <1>8 DEF Next, Start, Toggle, Stop, Sidecar, QueueIdle

----------------------------------------------------------------------------
(* Each command finds the sidecar as it expects it                         *)

\* What is never taken back.
LEMMA Forward ==
  ASSUME TypeInv, Next
  PROVE  (WindowOpen' => WindowOpen) /\ (~disrupted' => ~disrupted) /\ (refused' # refused => Refuse)
<1>0. CoreOK /\ JobOK
  BY DEF TypeInv
<1> USE StepNames, Gotos DEF WindowOpen, CoreOK, JobOK, JobsPlaced, PlacedFor, Placed, At, Running, Moves, Ends, Begins, NoJob
<1>1. CASE User
  BY <1>0, <1>1, UiStartBegins, UiToggleBegins, BeginStopBegins, CloseBegins
     DEF User, UiStart, UiPause, UiResume, UiToggle, UiStop, Close, sidecarVars
<1>2. CASE Start
  BY <1>0, <1>2, MarkListeningBegins DEF Start, Launch, Relaunch, Planned, Answered, Opened, MarkListening, CreateRow,
     FailStart, StartFails, sidecarVars
<1>3. CASE Toggle
  BY <1>0, <1>3 DEF Toggle, Mute, Replace, Reopened, SendToggle, Unmute, CheckToggle, sidecarVars
<1>4. CASE \E w \in Workers : Stop(w)
  BY <1>0, <1>4 DEF Stop, Silence, SendFinish, Acknowledged, Complete, Record, sidecarVars
<1>5. CASE Leave
  BY <1>0, <1>5 DEF Leave
<1>6. CASE JobsWait
  BY <1>6 DEF JobsWait, Audio, SendAudio, DrainAudio, HandleRemoval, Sidecar, Serve, Refuse, Disconnected, Crash,
     ForwardDisconnect, BackgroundLaunch, SettingsChange, Refresh, DeviceFails, EndConnection, jobVars, sidecarVars
<1> QED BY <1>1, <1>2, <1>3, <1>4, <1>5, <1>6 DEF Next, JobsWait

\* A queue in which each command finds what it expects stays such a queue.
LEMMA ExpectedSame == ASSUME Expected, UNCHANGED <<pending, serving, held>> PROVE Expected'
BY SameQueue DEF Expected

\* A command may be sent when the queue's end suits it.
LEMMA ExpectedPosted ==
  ASSUME SidecarOK, Expected, NEW op \in Ops, NEW s \in 0..MaxSession, Send(op, s), UNCHANGED <<serving, held>>,
         op \in {"pause", "resume", "finish"} => ServesLast, op = "start" => ~ServesLast
  PROVE  Expected'
<1> DEFINE m == [op |-> op, session |-> s]
<1>1. m \in Message /\ m.op = op /\ pending \in Seq(Message)
  BY DEF Message, Ops, SidecarOK
<1>2. CASE link = "up"
  <2>1. pending' = Append(pending, m)
    BY <1>2 DEF Send
  <2> HIDE DEF m
  <2>2. /\ \A i \in DOMAIN pending : i \in DOMAIN pending' /\ pending'[i] = pending[i]
        /\ \A i \in DOMAIN pending' : i \in DOMAIN pending \/ i = Len(pending) + 1
        /\ \A i \in 1..(Len(pending) + 1) : ServingAt(i)' <=> ServingAt(i)
        /\ pending'[Len(pending) + 1] = m
    BY <1>1, <2>1, Longer
  <2>3. Len(pending) \in Nat /\ DOMAIN pending = 1..Len(pending)
    BY <1>1
  <2>4. \A i \in DOMAIN pending' : ServingAt(i)' <=> ServingAt(i)
    BY <2>2, <2>3
  <2> QED BY <1>1, <2>2, <2>4 DEF Expected, ServesLast
<1>3. CASE link # "up"
  BY <1>3, ExpectedSame DEF Send
<1> QED BY <1>2, <1>3

\* The command that is served leaves the others the state they expect.
LEMMA ExpectedServed == ASSUME SidecarOK, Expected, Serve PROVE Expected'
BY Shorter DEF Expected
\* A message more at the end of the queue, or the same queue.
LEMMA PostedDomain ==
  ASSUME SidecarOK, NEW op \in Ops, NEW s \in 0..MaxSession, Send(op, s)
  PROVE  /\ \A i \in DOMAIN pending : i \in DOMAIN pending' /\ pending'[i] = pending[i]
         /\ \A i \in DOMAIN pending' : \/ i \in DOMAIN pending /\ pending'[i] = pending[i]
                                       \/ pending'[i].op = op /\ pending'[i].session = s
BY DEF SidecarOK, Send, Message, Ops

\* Steps that leave the queue alone: the window's command moves to where the
\* queue already fits it.
LEMMA CommandIdle ==
  ASSUME TypeInv, PhaseInv, CommandParts, link # "broken", WindowOpen', QueueIdle
  PROVE  link' # "broken" /\ CommandParts'
<1>0. CoreOK /\ JobOK /\ SidecarOK
  BY DEF TypeInv
<1>1. UNCHANGED <<pending, serving, held>>
  BY QueueIdleLeaves
<1>2. Expected' /\ (ServesLast' <=> ServesLast)
  BY <1>1, ExpectedSame, SameQueue DEF CommandParts
<1>3. link' # "broken"
  BY DEF QueueIdle, User, UiStart, UiPause, UiResume, UiToggle, UiStop, Close, Answered, Opened, MarkListening,
     CreateRow, FailStart, Mute, Replace, Reopened, Unmute, CheckToggle, Silence, Acknowledged, Complete, Record,
     DeviceFails, Refresh, Disconnected, ForwardDisconnect, BackgroundLaunch, sidecarVars
<1> SUFFICES NotYetSent' /\ PlanIsLast' /\ StartIsLast' /\ (Serving' => ServesLast)
  BY <1>2, <1>3 DEF CommandParts
<1>4. NotYetSent /\ PlanIsLast /\ StartIsLast /\ (Serving => ServesLast)
  BY DEF CommandParts
<1> USE StepNames, Gotos DEF WindowOpen, PhaseInv, NotYetSent, PlanIsLast, StartIsLast, Serving, Only,
      CoreOK, JobOK, JobsPlaced, PlacedFor, Placed, At, Running, Moves, Ends, Begins, NoJob
<1>5. CASE UiStart
  <2>1. Begins("window", "start", "launching", started', rev') /\ session' = started + 1 /\ phase' = "starting"
        /\ heard' = [heard EXCEPT !["window"] = "none"] /\ planned' = "none"
    BY <1>5, UiStartBegins DEF TypeInv, UiStart, Enter
  <2>2. \A i \in DOMAIN pending : pending[i].session <= started /\ pending[i].session \in Nat
    <3>1. \A i \in DOMAIN pending : pending[i] \in Message
      BY <1>0 DEF SidecarOK
    <3> QED BY <1>0, <3>1 DEF SidecarOK, MessagesOfStarted, Message
  <2>3. \A i \in DOMAIN pending : pending[i].session # session'
    BY <1>0, <2>1, <2>2
  <2> QED BY <1>0, <1>1, <2>1, <2>3
<1>6. CASE UiPause \/ UiResume
  <2>1. job'["window"].op \in {"pause", "resume"} /\ phase' = phase
    BY <1>6, UiToggleBegins DEF TypeInv, UiPause, UiResume, UiToggle, coreVars
  <2> QED BY <1>4, <2>1
<1>7. CASE UiStop
  <2>1. phase \in {"listening", "paused"} /\ job'["window"].op = "stop"
    BY <1>0, <1>7, BeginStopBegins DEF UiStop, Stoppable
  <2> QED BY <1>4, <2>1
<1>8. CASE Close
  BY <1>0, <1>8, CloseBegins
<1>9. CASE Answered
  <2>1. CASE heard["window"] = "ready"
    <3>1. Moves("window", "opening") /\ phase' = phase
      BY <1>0, <1>9, <2>1 DEF Answered, coreVars
    <3>2. serving # 0 /\ \A k \in DOMAIN pending : pending[k].op # "finish"
      BY <1>4, <1>9, <2>1 DEF Answered
    <3>3. DOMAIN pending = 1..((Len(pending) + 1) - 1)
      BY <1>0 DEF SidecarOK
    <3>4. ServesLast
      BY <3>2, <3>3 DEF ServesLast, ServingAt
    <3> QED BY <1>9, <3>1, <3>4 DEF Answered
  <2>2. CASE Moves("window", "failing") /\ phase' = phase
    BY <1>4, <1>9, <2>2 DEF Answered
  <2> QED BY <1>0, <1>9, <2>1, <2>2 DEF Answered, StartFails, coreVars
<1>10. CASE Opened \/ FailStart \/ CreateRow
  BY <1>0, <1>1, <1>4, <1>10 DEF Opened, FailStart, CreateRow, StartFails, Enter, coreVars
<1>11. CASE MarkListening
  BY <1>0, <1>1, <1>4, <1>11, MarkListeningBegins DEF MarkListening, Enter
<1>12. CASE Mute \/ Replace \/ Reopened \/ Unmute \/ CheckToggle
  BY <1>0, <1>1, <1>4, <1>12 DEF Mute, Replace, Reopened, Unmute, CheckToggle, Enter, coreVars
<1>13. CASE \E w \in Workers : Silence(w) \/ Acknowledged(w) \/ Complete(w) \/ Record(w)
  BY <1>0, <1>1, <1>4, <1>13 DEF Silence, Acknowledged, Complete, Record, Enter, coreVars
<1>14. CASE DeviceFails \/ Refresh \/ ForwardDisconnect \/ BackgroundLaunch
  BY <1>0, <1>1, <1>4, <1>14 DEF DeviceFails, Refresh, ForwardDisconnect, BackgroundLaunch, coreVars, jobVars
<1>15. CASE Disconnected
  BY <1>15, <1>3 DEF Disconnected
<1> QED BY <1>5, <1>6, <1>7, <1>8, <1>9, <1>10, <1>11, <1>12, <1>13, <1>14, <1>15 DEF QueueIdle, User

\* A plan request goes to a new connection or to the end of the old one's queue.
LEMMA CommandLaunch ==
  ASSUME TypeInv, PhaseInv, CommandParts, link # "broken", Launch \/ Relaunch
  PROVE  link' # "broken" /\ CommandParts'
<1>0. CoreOK /\ JobOK /\ SidecarOK /\ At("window", "start", "launching") /\ UNCHANGED <<phase, session, planned>>
  BY DEF TypeInv, Launch, Relaunch, coreVars
<1> DEFINE m == [op |-> "plan", session |-> session]
<1>1. m \in Message /\ m.op = "plan" /\ m.session = session /\ pending \in Seq(Message)
  BY <1>0 DEF Message, SidecarOK, CoreOK
<1>2. /\ heard["window"] # "ready" /\ planned # "plan"
      /\ \A i \in DOMAIN pending : pending[i].op \in {"plan", "start"} => pending[i].session # session
      /\ Expected
  BY <1>0 DEF CommandParts, NotYetSent, At
<1>3. heard'["window"] # "ready" /\ link' # "broken"
  BY <1>0, <1>2 DEF Launch, Relaunch, JobOK
<1>4. phase = "starting"
  BY <1>0 DEF PhaseInv, At
<1>5. CASE Moves("window", "planning") /\ Launch /\ pending' = Append(pending, m) /\ UNCHANGED <<serving, held>>
  <2> HIDE DEF m
  <2>1. /\ \A i \in DOMAIN pending : i \in DOMAIN pending' /\ pending'[i] = pending[i]
        /\ \A i \in DOMAIN pending' : i \in DOMAIN pending \/ i = Len(pending) + 1
        /\ \A i \in 1..(Len(pending) + 1) : ServingAt(i)' <=> ServingAt(i)
        /\ pending'[Len(pending) + 1] = m
    BY <1>1, <1>5, Longer
  <2>2. Len(pending) \in Nat /\ DOMAIN pending = 1..Len(pending)
    BY <1>1
  <2>3. Expected'
    BY <1>1, <1>2, <2>1, <2>2 DEF Expected
  <2>4. \A i \in DOMAIN pending' : pending'[i].op = "plan" /\ pending'[i].session = session => i = Len(pending) + 1
    BY <1>2, <2>1
  <2>5. \A i \in DOMAIN pending' : pending'[i].op = "start" => pending'[i].session # session
    BY <1>1, <1>2, <2>1
  <2>6. \A i \in DOMAIN pending' : i \in Nat /\ i <= Len(pending) + 1
    BY <2>1, <2>2
  <2>7. PlanIsLast'
    BY <1>0, <1>2, <2>2, <2>4, <2>6 DEF PlanIsLast
  <2> QED BY <1>0, <1>2, <1>3, <1>4, <1>5, <2>3, <2>5, <2>7 DEF CommandParts, NotYetSent, StartIsLast, Serving, At, Moves
<1>6. CASE Moves("window", "planning") /\ Relaunch /\ pending' = <<m>>
  <2> HIDE DEF m
  <2>1. pending'[1] = m /\ DOMAIN pending' = {1}
    BY <1>6
  <2> QED BY <1>0, <1>1, <1>2, <1>3, <1>4, <1>6, <2>1 DEF CommandParts, Expected, NotYetSent, PlanIsLast, StartIsLast,
        Serving, At, Moves
<1>7. CASE Moves("window", "failing") /\ Launch /\ UNCHANGED <<pending, serving, held>>
  BY <1>0, <1>2, <1>3, <1>4, <1>7, ExpectedSame DEF CommandParts, NotYetSent, PlanIsLast, StartIsLast, Serving, At, Moves
<1>8. CASE Moves("window", "failing") /\ Relaunch /\ pending' = <<>>
  BY <1>0, <1>2, <1>3, <1>4, <1>8
     DEF CommandParts, Expected, NotYetSent, PlanIsLast, StartIsLast, Serving, At, Moves
<1>9. CASE Launch
  <2>1. UNCHANGED <<serving, held>>
    BY <1>9 DEF Launch
  <2>2. CASE Goto("window", "planning") /\ pending' = Append(pending, m)
    BY <1>0, <1>5, <1>9, <2>1, <2>2, Gotos, StepNames
  <2>3. CASE Goto("window", "failing") /\ UNCHANGED pending
    BY <1>0, <1>7, <1>9, <2>1, <2>3, Gotos, StepNames
  <2> QED BY <1>0, <1>9, <2>2, <2>3 DEF Launch, StartFails, SidecarOK
<1>10. CASE Relaunch
  BY <1>0, <1>6, <1>8, <1>10, Gotos, StepNames DEF Relaunch, StartFails
<1> QED BY <1>9, <1>10

\* What is sent later finds the queue as CommandParts describes it.
LEMMA CommandSend ==
  ASSUME TypeInv, PhaseInv, CommandParts, link # "broken", WindowOpen,
         Planned \/ SendToggle \/ (\E w \in Workers : SendFinish(w)) \/ Audio
  PROVE  link' # "broken" /\ CommandParts'
<1>0. CoreOK /\ JobOK /\ SidecarOK /\ UNCHANGED <<session, planned, heard, link, serving, held>>
  BY DEF TypeInv, Planned, SendToggle, SendFinish, Audio, SendAudio, DrainAudio, HandleRemoval, coreVars, jobVars
<1>1. Expected /\ NotYetSent /\ PlanIsLast /\ StartIsLast /\ (Serving => ServesLast)
  BY DEF CommandParts
<1> USE StepNames, Gotos DEF CommandParts, NotYetSent, PlanIsLast, StartIsLast, Serving, Only, At, Moves, Ends, NoJob
<1>2. CASE Planned
  <2>1. CASE planned = "plan" /\ Send("start", job["window"].session) /\ Goto("window", "readying")
    <3>1. serving = 0 /\ (\A k \in DOMAIN pending : pending[k].op = "audio") /\ heard["window"] # "ready"
      BY <1>1, <1>2, <2>1 DEF Planned
    <3>2. ~ServesLast
      BY <1>0, <3>1 DEF ServesLast, ServingAt, SidecarOK
    <3>3. job["window"].session \in 0..MaxSession
      BY <1>0 DEF JobOK, Job
    <3>4. Expected' /\ \A i \in DOMAIN pending' : pending'[i].op \in {"audio", "start"}
      BY <1>0, <1>1, <2>1, <3>1, <3>2, <3>3, ExpectedPosted, PostedDomain DEF Ops
    <3>5. Moves("window", "readying") /\ phase' = "starting"
      BY <1>0, <1>2, <2>1 DEF Planned, PhaseInv, coreVars
    <3> QED BY <1>0, <3>1, <3>4, <3>5
  <2>2. CASE UNCHANGED pending /\ Goto("window", "failing")
    <3>1. Moves("window", "failing") /\ phase' = "starting" /\ Expected'
      BY <1>0, <1>1, <1>2, <2>2, ExpectedSame DEF Planned, PhaseInv, coreVars
    <3> QED BY <1>0, <3>1
  <2> QED BY <1>2, <2>1, <2>2 DEF Planned, StartFails
<1>3. CASE SendToggle
  <2>1. job["window"].op \in {"pause", "resume"} /\ phase \in {"listening", "paused"} /\ phase' = phase
    BY <1>0, <1>3 DEF SendToggle, JobOK, JobsPlaced, PlacedFor, Placed, PhaseInv, coreVars
  <2>2. ServesLast /\ job'["window"].op \in {"pause", "resume", "none"}
    BY <1>0, <1>1, <1>3, <2>1 DEF SendToggle
  <2>3. CASE Send(job["window"].op, session)
    <3>1. Expected' /\ ServesLast'
      BY <1>0, <1>1, <2>1, <2>2, <2>3, ExpectedPosted, Posted DEF Ops, CoreOK
    <3> QED BY <1>0, <2>2, <3>1
  <2>4. CASE UNCHANGED pending
    BY <1>0, <1>1, <2>2, <2>4, ExpectedSame, SameQueue
  <2> QED BY <1>3, <2>3, <2>4 DEF SendToggle
<1>4. CASE \E w \in Workers : SendFinish(w)
  <2>1. SendFinish("window") /\ phase = "stopping"
    BY <1>4 DEF SendFinish, WindowOpen, PhaseInv
  <2>2. ServesLast /\ phase' = phase /\ job["window"].session \in 0..MaxSession
    BY <1>0, <1>1, <2>1 DEF SendFinish, coreVars, JobOK, Job
  <2>3. job'["window"].op = "stop" /\ job'["window"].at \in {"acking", "completing"}
    BY <1>0, <2>1 DEF SendFinish
  <2>4. Expected'
    BY <1>0, <1>1, <2>1, <2>2, ExpectedPosted, ExpectedSame DEF SendFinish, Ops
  <2> QED BY <1>0, <2>1, <2>2, <2>3, <2>4
<1>5. CASE Audio
  <2>1. job' = job
    BY <1>5 DEF Audio, SendAudio, DrainAudio, HandleRemoval, jobVars
  <2>2. CASE Send("audio", 0) /\ phase' = phase
    <3>1. Expected' /\ (ServesLast' <=> ServesLast)
      BY <1>0, <1>1, <2>2, ExpectedPosted, Posted DEF Ops
    <3>2. \A i \in DOMAIN pending' : (i \in DOMAIN pending /\ pending'[i] = pending[i]) \/ pending'[i].op = "audio"
      BY <1>0, <2>2, PostedDomain DEF Ops
    <3>3. PlanIsLast' /\ NotYetSent' /\ StartIsLast'
      BY <1>0, <1>1, <2>1, <3>2
    <3> QED BY <1>0, <1>1, <2>1, <2>2, <3>1, <3>3
  <2>3. CASE Send("pause", session) /\ phase = "listening" /\ phase' = "paused"
    <3>1. ServesLast
      BY <1>1, <2>3
    <3>2. Expected' /\ ServesLast'
      BY <1>0, <1>1, <2>3, <3>1, ExpectedPosted, Posted DEF Ops, CoreOK
    <3>3. ~(job["window"].op = "start" /\ job["window"].at # "storing")
      BY <2>3 DEF PhaseInv
    <3> QED BY <1>0, <2>1, <2>3, <3>2, <3>3
  <2>4. CASE UNCHANGED <<pending, phase>>
    BY <1>0, <1>1, <2>1, <2>4, ExpectedSame, SameQueue
  <2> QED BY <1>5, <2>2, <2>3, <2>4 DEF Audio, SendAudio, DrainAudio, HandleRemoval, Enter, coreVars
<1> QED BY <1>2, <1>3, <1>4, <1>5

\* The sidecar handles the first command.
LEMMA CommandServe ==
  ASSUME TypeInv, PhaseInv, CommandParts, link # "broken", Serve
  PROVE  link' # "broken" /\ CommandParts'
<1>0. CoreOK /\ JobOK /\ SidecarOK /\ UNCHANGED <<phase, session, job, link>> /\ pending # <<>>
  BY DEF TypeInv, Serve, coreVars
<1>1. Expected /\ NotYetSent /\ PlanIsLast /\ StartIsLast /\ (Serving => ServesLast)
  BY DEF CommandParts
<1>2. /\ 1 \in DOMAIN pending /\ Head(pending) = pending[1] /\ pending[1] \in Message
      /\ \A i \in DOMAIN pending' : i \in Nat /\ i >= 1 /\ i + 1 \in DOMAIN pending /\ pending'[i] = pending[i + 1]
  <2>1. 1 \in DOMAIN pending /\ Head(pending) = pending[1] /\ pending[1] \in Message
        /\ \A i \in DOMAIN pending' : i \in Nat /\ i >= 1
    BY <1>0 DEF SidecarOK, Serve
  <2> QED BY <1>0, <2>1, Shorter
<1>3. Expected' /\ (ServesLast' <=> ServesLast)
  BY <1>0, <1>1, Shorter, ExpectedServed
<1> DEFINE c == pending[1]
<1>4. /\ Accepts(c.op)
      /\ serving' = CASE c.op = "start" -> c.session [] c.op = "finish" -> 0 [] OTHER -> serving
      /\ planned' # planned => c.op = "plan" /\ planned' = "plan" /\ job["window"].session = c.session
      /\ heard'["window"] # heard["window"] /\ heard'["window"] = "ready" =>
           c.op = "start" /\ job["window"].session = c.session
  <2>1. heard'["window"] # heard["window"] /\ heard'["window"] = "ready" =>
           c.op = "start" /\ job["window"].session = c.session
    BY <1>0, <1>2 DEF Serve
  <2>2. Accepts(c.op) /\ serving' = CASE c.op = "start" -> c.session [] c.op = "finish" -> 0 [] OTHER -> serving
    BY <1>0, <1>2 DEF Serve
  <2>3. planned' # planned => c.op = "plan" /\ planned' = "plan" /\ job["window"].session = c.session
    BY <1>0, <1>2 DEF Serve
  <2> QED BY <2>1, <2>2, <2>3
<1>5. c.op = "start" => c.session # 0
  BY <1>0, <1>2 DEF SidecarOK, MessagesOfStarted
<1> HIDE DEF c
<1>6. NotYetSent'
  <2>1. CASE job["window"].op = "start" /\ job["window"].at \in {"launching", "planning"}
    <3>1. job["window"].session = session
      BY <2>1 DEF PhaseInv
    <3>2. heard'["window"] # "ready"
      BY <1>1, <1>2, <1>4, <2>1, <3>1 DEF NotYetSent, c
    <3>3. \A i \in DOMAIN pending' : pending'[i].op = "start" => pending'[i].session # session
      BY <1>1, <1>2, <2>1 DEF NotYetSent
    <3>4. CASE At("window", "start", "launching")
      <4>1. planned' # "plan" /\ \A i \in DOMAIN pending' : pending'[i].op = "plan" => pending'[i].session # session
        BY <1>1, <1>2, <1>4, <3>1, <3>4 DEF NotYetSent, c
      <4> QED BY <1>0, <3>2, <3>3, <4>1 DEF NotYetSent
    <3> QED BY <1>0, <3>2, <3>3, <3>4 DEF NotYetSent, At
  <2> QED BY <1>0, <2>1 DEF NotYetSent, At
<1>7. PlanIsLast'
  <2>1. CASE At("window", "start", "planning")
    <3>0. job["window"].session = session
      BY <2>1 DEF PhaseInv, At
    <3>1. \A i \in DOMAIN pending : pending[i].op = "plan" /\ pending[i].session = session =>
            \A n \in DOMAIN pending : n > i => pending[n].op = "audio"
      BY <1>1, <2>1 DEF PlanIsLast
    <3>2. ASSUME NEW i \in DOMAIN pending', pending'[i].op = "plan" /\ pending'[i].session = session,
                 NEW n \in DOMAIN pending', n > i
          PROVE  pending'[n].op = "audio"
      <4>1. n + 1 > i + 1
        BY <1>2, <3>2
      <4> QED BY <1>2, <3>1, <3>2, <4>1
    <3>3. planned # "plan"
      BY <1>1, <1>2, <1>4, <2>1 DEF PlanIsLast, Only, Accepts, c
    <3>4. ASSUME planned' = "plan" PROVE serving' = 0 /\ \A k \in DOMAIN pending' : pending'[k].op = "audio"
      <4>1. c.op = "plan" /\ c.session = session /\ serving' = 0
        BY <1>4, <3>0, <3>3, <3>4 DEF Accepts
      <4>2. \A k \in DOMAIN pending' : k + 1 > 1
        BY <1>2
      <4> QED BY <1>2, <3>1, <4>1, <4>2 DEF c
    <3> QED BY <1>0, <3>2, <3>4 DEF PlanIsLast, Only
  <2> QED BY <1>0, <2>1 DEF PlanIsLast, At
<1>8. StartIsLast'
  <2>1. CASE At("window", "start", "readying")
    <3>1. \A k \in DOMAIN pending : pending[k].op \in {"audio", "start"}
      BY <1>1, <2>1 DEF StartIsLast, Only
    <3>2. \A k \in DOMAIN pending' : pending'[k].op \in {"audio", "start"}
      BY <1>2, <3>1
    <3>3. c.op \in {"audio", "start"}
      BY <1>2, <3>1 DEF c
    <3>4. serving' # 0
      BY <1>4, <1>5, <3>3 DEF Accepts
    <3> QED BY <1>0, <3>2, <3>4 DEF StartIsLast, Only
  <2> QED BY <1>0, <2>1 DEF StartIsLast, At
<1>9. Serving' => ServesLast'
  BY <1>0, <1>1, <1>3 DEF Serving
<1> QED BY <1>0, <1>3, <1>6, <1>7, <1>8, <1>9 DEF CommandParts

\* All steps together.  A lost connection ends what CommandInv claims.
LEMMA CommandStep == ASSUME TypeInv, ControlInv, CommandInv, Next PROVE CommandInv'
<1> SUFFICES ASSUME WindowOpen', ~disrupted' PROVE link' # "broken" /\ CommandParts'
  BY DEF CommandInv
<1>1. WindowOpen /\ ~disrupted /\ PhaseInv /\ link # "broken" /\ CommandParts
  BY Forward DEF CommandInv, ControlInv
<1>2. CASE QueueIdle
  BY <1>1, <1>2, CommandIdle
<1>3. CASE Launch \/ Relaunch
  BY <1>1, <1>3, CommandLaunch
<1>4. CASE Planned \/ SendToggle \/ (\E w \in Workers : SendFinish(w)) \/ Audio
  BY <1>1, <1>4, CommandSend
<1>5. CASE Serve
  BY <1>1, <1>5, CommandServe
<1>6. CASE Refuse \/ Crash
  BY <1>6 DEF Refuse, Crash, EndConnection
<1>7. CASE Leave
  BY <1>1, <1>7 DEF Leave, At, WindowOpen
<1>8. CASE SettingsChange
  <2>0. CoreOK /\ JobOK /\ UNCHANGED <<phase, session, job>>
    BY <1>8 DEF TypeInv, SettingsChange, coreVars
  <2>1. CASE phase \in {"idle", "completed"}
    <3>1. link' = "down" /\ pending' = <<>> /\ serving' = 0
      BY <1>8, <2>1 DEF SettingsChange
    <3>2. ~Serving' /\ ~(job["window"].op = "start")
      BY <1>1, <2>0, <2>1 DEF PhaseInv, Serving, At
    <3> QED BY <2>0, <3>1, <3>2 DEF CommandParts, Expected, NotYetSent, PlanIsLast, StartIsLast, At
  <2>2. CASE phase \notin {"idle", "completed"}
    <3>1. UNCHANGED <<link, pending, serving, held, heard, planned>>
      BY <1>8, <2>2 DEF SettingsChange
    <3>2. Expected' /\ (ServesLast' <=> ServesLast)
      BY <1>1, <3>1, ExpectedSame, SameQueue DEF CommandParts
    <3> QED BY <1>1, <2>0, <3>1, <3>2 DEF CommandParts, NotYetSent, PlanIsLast, StartIsLast, Serving, Only, At
  <2> QED BY <2>1, <2>2
<1> QED BY <1>2, <1>3, <1>4, <1>5, <1>6, <1>7, <1>8 DEF Next, Start, Toggle, Stop, Sidecar, QueueIdle

\* The sidecar refuses only what it does not expect, and CommandInv leaves no
\* session command of that kind at the head of the queue.
LEMMA ExpectStep == ASSUME TypeInv, CommandInv, ExpectInv, Next PROVE ExpectInv'
<1>0. SidecarOK
  BY DEF TypeInv
<1>1. CASE refused' = refused
  BY <1>1, Forward DEF ExpectInv
<1>2. CASE Refuse
  <2>1. CASE refused' = refused
    BY <2>1, Forward DEF ExpectInv
  <2>2. CASE refused' # refused
    <3>1. ~disrupted /\ ~Accepts(Head(pending).op) /\ refused' = Head(pending).op /\ job' = job /\ pending # <<>>
      BY <1>2, <2>2 DEF Refuse
    <3>2. Head(pending) = pending[1] /\ 1 \in DOMAIN pending
      BY <1>0, <3>1 DEF SidecarOK
    <3>3. ServingAt(1) <=> serving # 0
      BY DEF ServingAt
    <3>4. WindowOpen => refused' \notin {"start", "pause", "resume", "finish"}
      BY <3>1, <3>2, <3>3 DEF CommandInv, CommandParts, Expected, Accepts
    <3> QED BY <3>1, <3>4 DEF ExpectInv, WindowOpen
  <2> QED BY <2>1, <2>2
<1> QED BY <1>1, <1>2, Forward

----------------------------------------------------------------------------
(* A paused session is quiet                                               *)

\* A pause has reached the end of the queue, or nothing is served.
LEMMA QuietStep == ASSUME TypeInv, ControlInv, CaptureInv, QuietInv, Next PROVE QuietInv'
<1> DEFINE Hushed == NotServed \/ HeldLast
           Resuming == job["window"].op = "resume" /\ job["window"].at \in {"sending", "unmuting", "checking"}
<1> SUFFICES ASSUME WindowOpen', phase' = "paused", mic'.state = "running" PROVE Hushed' \/ Resuming'
  BY DEF QuietInv
<1>0. /\ CoreOK /\ JobOK /\ SidecarOK /\ AudioOK /\ WindowOpen /\ PhaseInv
      /\ phase = "paused" /\ mic.state = "running" => Hushed \/ Resuming
  BY Forward DEF TypeInv, QuietInv, ControlInv
<1>1. ASSUME UNCHANGED <<pending, serving, held>> PROVE Hushed => Hushed'
  BY <1>1, SameQueue
<1> HIDE DEF Hushed
<1>2. CASE QueueIdle
  <2>1. Hushed => Hushed'
    BY <1>1, <1>2, QueueIdleLeaves
  <2>2. phase = "paused" /\ mic.state = "running" => Hushed' \/ Resuming
    BY <1>0, <2>1
  <2> USE StepNames, Gotos DEF PhaseInv, CoreOK, JobOK, JobsPlaced, PlacedFor, Placed, At, Running, Moves, Ends, Begins,
            NoJob, WindowOpen
  <2>3. CASE User
    BY <1>0, <2>2, <2>3, UiStartBegins, UiToggleBegins, BeginStopBegins, CloseBegins
       DEF TypeInv, User, UiStart, UiPause, UiResume, UiToggle, UiStop, BeginStop, Enter, coreVars, audioVars
  <2>4. CASE Answered \/ Opened \/ FailStart \/ CreateRow
    BY <1>0, <2>2, <2>4 DEF Answered, Opened, FailStart, CreateRow, Enter, coreVars, audioVars
  <2>5. CASE MarkListening
    BY <1>0, <2>5 DEF MarkListening, Enter
  <2>6. CASE Mute
    <3>1. phase = "paused" /\ job["window"].op = "pause"
      BY <2>6 DEF Mute, coreVars
    <3>2. mic.state = "running"
      BY <1>0, <2>6 DEF Mute, AudioOK
    <3> QED BY <2>2, <3>1, <3>2
  <2>7. CASE Replace \/ Reopened
    BY <1>0, <2>2, <2>7 DEF Replace, Reopened, ReleaseAudio, NoMic, coreVars, audioVars
  <2>8. CASE Unmute
    BY <1>0, <2>8 DEF Unmute
  <2>9. CASE CheckToggle
    <3>1. CASE job["window"].op = "resume"
      BY <1>0, <2>9, <3>1 DEF CheckToggle, Enter
    <3>2. CASE job["window"].op = "pause"
      BY <1>0, <2>9, <3>2 DEF CheckToggle, CaptureInv, audioVars
    <3> QED BY <1>0, <2>9, <3>1, <3>2 DEF CheckToggle
  <2>10. CASE \E w \in Workers : Silence(w) \/ Acknowledged(w) \/ Complete(w) \/ Record(w)
    BY <1>0, <2>10 DEF Silence, Acknowledged, Complete, Record, Enter, coreVars
  <2>11. CASE DeviceFails
    BY <1>0, <2>11, MicState DEF DeviceFails
  <2>12. CASE Refresh \/ Disconnected \/ ForwardDisconnect \/ BackgroundLaunch
    BY <2>2, <2>12 DEF Refresh, Disconnected, ForwardDisconnect, BackgroundLaunch, coreVars, audioVars, jobVars
  <2> QED BY <1>2, <2>3, <2>4, <2>5, <2>6, <2>7, <2>8, <2>9, <2>10, <2>11, <2>12 DEF QueueIdle
<1>3. CASE Launch \/ Relaunch \/ Planned \/ (\E w \in Workers : SendFinish(w))
  BY <1>0, <1>3 DEF Launch, Relaunch, Planned, SendFinish, PhaseInv, WindowOpen, At, coreVars
<1>4. CASE SendToggle
  <2>1. /\ job["window"].op \in {"pause", "resume"} /\ phase = "paused" /\ mic.state = "running"
        /\ UNCHANGED <<link, serving, held>> /\ session \in 0..MaxSession
    BY <1>0, <1>4 DEF SendToggle, JobOK, JobsPlaced, PlacedFor, Placed, coreVars, audioVars, CoreOK
  <2>2. CASE job["window"].op = "resume" /\ Goto("window", "unmuting")
    BY <1>0, <2>2, Gotos, StepNames DEF Moves
  <2>3. CASE job["window"].op = "pause" /\ Send("pause", session)
    <3>1. Hushed'
      BY <1>0, <2>1, <2>3, Posted DEF Hushed, Ops
    <3> QED BY <3>1
  <2>4. CASE ~Reachable /\ UNCHANGED pending
    <3>1. Hushed'
      BY <1>0, <1>1, <2>1, <2>4, LinkDown DEF Hushed, Reachable
    <3> QED BY <3>1
  <2> QED BY <1>0, <1>4, <2>1, <2>2, <2>3, <2>4 DEF SendToggle, PhaseInv
<1>5. CASE SendAudio \/ DrainAudio
  <2>1. phase = "paused" /\ mic.state = "running" /\ job' = job /\ UNCHANGED <<serving, held>>
    BY <1>5 DEF SendAudio, DrainAudio, coreVars, jobVars
  <2>2. Hushed => Hushed'
    <3>1. CASE Send("audio", 0)
      BY <1>0, <2>1, <3>1, Posted DEF Hushed, Ops
    <3>2. CASE UNCHANGED pending
      BY <1>1, <2>1, <3>2
    <3> QED BY <1>5, <3>1, <3>2 DEF SendAudio, DrainAudio
  <2> QED BY <1>0, <2>1, <2>2
<1>6. CASE HandleRemoval
  <2>1. CASE phase = "listening"
    <3>1. Hushed'
      BY <1>0, <1>6, <2>1, Posted DEF Hushed, Ops, HandleRemoval, CoreOK
    <3> QED BY <3>1
  <2>2. CASE phase # "listening"
    BY <1>0, <1>1, <1>6, <2>2 DEF HandleRemoval, jobVars
  <2> QED BY <2>1, <2>2
<1>7. CASE Serve
  <2>1. Hushed => Hushed'
    BY <1>0, <1>7, Shorter DEF Hushed
  <2> QED BY <1>0, <1>7, <2>1 DEF Serve, coreVars, audioVars
<1>8. CASE Leave \/ Refuse \/ Crash
  BY <1>8, Emptied DEF Leave, Refuse, Crash, EndConnection, Hushed
<1>9. CASE SettingsChange
  <2>1. CASE pending' = <<>> /\ serving' = 0
    BY <2>1, Emptied DEF Hushed
  <2>2. CASE UNCHANGED <<serving, held, pending>>
    BY <1>0, <1>1, <1>9, <2>2 DEF SettingsChange, coreVars, audioVars
  <2> QED BY <1>9, <2>1, <2>2 DEF SettingsChange
<1> QED BY <1>2, <1>3, <1>4, <1>5, <1>6, <1>7, <1>8, <1>9 DEF Next, Start, Toggle, Stop, Audio, Sidecar, QueueIdle

----------------------------------------------------------------------------
(* The invariant and the theorems                                          *)

SessionInv ==
  TypeInv /\ ControlInv /\ CaptureInv /\ RowInv /\ ReleaseInv /\ CommandInv /\ QuietInv /\ ExpectInv

\* The whole invariant holds at first, is kept by every step, and so holds always.
LEMMA InitSession == Init => SessionInv
<1> SUFFICES ASSUME Init PROVE SessionInv
  OBVIOUS
<1>1. /\ job = [w \in {"window", "close"} |-> NoJob] /\ phase = "idle" /\ session = 0 /\ rev = 0
      /\ seen = [phase |-> "idle", rev |-> 0] /\ heard = [w \in {"window", "close"} |-> "none"] /\ planned = "none"
      /\ mic = NoMic /\ pending = <<>> /\ serving = 0 /\ link = "down" /\ refused = "none"
      /\ store = [s \in 1..MaxSession |-> "none"]
  BY DEF Init
<1>2. job["window"] = NoJob /\ job["close"] = NoJob /\ NoJob.op = "none" /\ NoJob.at = "none" /\ NoMic.state = "none"
  BY <1>1 DEF NoJob, NoMic
<1>3. ControlInv /\ CaptureInv
  BY <1>1, <1>2 DEF ControlInv, ClosingInv, PhaseInv, SeenInv, CaptureInv, At
<1>4. RowInv /\ ReleaseInv /\ QuietInv /\ ExpectInv
  BY <1>1, <1>2 DEF RowInv, ReleaseInv, QuietInv, ExpectInv
<1>5. CommandInv
  BY <1>1, <1>2 DEF CommandInv, CommandParts, Expected, NotYetSent, PlanIsLast, StartIsLast, Serving, At
<1> QED BY InitType, <1>3, <1>4, <1>5 DEF SessionInv

LEMMA SessionStep == SessionInv /\ [Next]_vars => SessionInv'
<1> SUFFICES ASSUME SessionInv, [Next]_vars PROVE SessionInv'
  OBVIOUS
<1>1. CASE Next
  BY <1>1, TypeStep, ControlStep, CaptureStep, RowStep, ReleaseStep, CommandStep, QuietStep, ExpectStep DEF SessionInv
<1>2. CASE UNCHANGED vars
  <2>1. TypeInv'
    BY <1>2, TypeStep DEF SessionInv
  <2>2. UNCHANGED <<phase, session, rev, seen, job, heard, planned, mic, link, pending, serving, held, refused, disrupted, store>>
    BY <1>2 DEF vars, coreVars, windowVars, jobVars, audioVars, sidecarVars, recordVars
  <2>3. (ServesLast' <=> ServesLast) /\ (HeldLast' <=> HeldLast) /\ (NotServed' <=> NotServed) /\ (Expected => Expected')
    BY <2>2, SameQueue, ExpectedSame
  <2>4. ControlInv' /\ CaptureInv' /\ RowInv'
    BY <2>2 DEF SessionInv, ControlInv, WindowOpen, ClosingInv, PhaseInv, SeenInv, CaptureInv, RowInv, At
  <2>5. ReleaseInv' /\ QuietInv' /\ ExpectInv'
    BY <2>2, <2>3 DEF SessionInv, WindowOpen, ReleaseInv, QuietInv, ExpectInv
  <2>6. CommandInv'
    BY <2>2, <2>3 DEF SessionInv, WindowOpen, CommandInv, CommandParts, NotYetSent, PlanIsLast, StartIsLast, Serving, Only, At
  <2> QED BY <2>1, <2>4, <2>5, <2>6 DEF SessionInv
<1> QED BY <1>1, <1>2

LEMMA SessionInvariant == Spec => []SessionInv
BY InitSession, SessionStep, PTL DEF Spec

\* Until the window closes, nothing of a session is left when it is over: no
\* capture holds the microphone, no row of the store stays active, and a Stop
\* has taken the session off the sidecar once it has served its commands.
THEOREM NothingOutlives == Spec => []NothingOutlivesSession
<1>1. SessionInv => NothingOutlivesSession
  <2> SUFFICES ASSUME SessionInv PROVE NothingOutlivesSession
    OBVIOUS
  <2>1. ~Running("close") => WindowOpen
    BY DEF Running, WindowOpen
  <2>2. NoOrphanCapture /\ RowsFollowSessions
    BY <2>1 DEF SessionInv, CaptureInv, RowInv, NoOrphanCapture, RowsFollowSessions
  <2>3. pending = <<>> /\ ~ServesLast => serving = 0
    BY DEF ServesLast, ServingAt
  <2>4. StopReleasesSidecar
    BY <2>1, <2>3 DEF SessionInv, ReleaseInv, StopReleasesSidecar
  <2> QED BY <2>2, <2>4 DEF NothingOutlivesSession
<1> QED BY <1>1, SessionInvariant, PTL

\* Until a connection is lost or the window closes, the sidecar refuses no
\* session command: each finds the sidecar serving, or not, as it expects,
\* whatever timeouts, failed starts and lost devices came before it.
THEOREM CommandsExpected == Spec => []CommandsAreExpected
<1>1. SessionInv => CommandsAreExpected
  BY DEF SessionInv, ExpectInv, CommandsAreExpected, Running, WindowOpen
<1> QED BY <1>1, SessionInvariant, PTL

\* While a session is paused and no command runs, and the sidecar has served
\* what was sent to it, a source that plays is not transcribed.
THEOREM PausedQuiet == Spec => []PausedIsQuiet
<1>1. SessionInv => PausedIsQuiet
  <2> SUFFICES ASSUME SessionInv, phase = "paused", pending = <<>>, ~Running("window"),
                      mic.state = "running", serving = session, ~held
               PROVE  FALSE
    BY DEF PausedIsQuiet
  <2>1. WindowOpen /\ session # 0
    BY DEF SessionInv, ControlInv, ClosingInv, PhaseInv
  <2>2. NotServed \/ HeldLast
    BY <2>1 DEF SessionInv, QuietInv, Running
  <2> QED BY <2>1, <2>2 DEF NotServed, HeldLast
<1> QED BY <1>1, SessionInvariant, PTL

=============================================================================
