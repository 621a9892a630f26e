--------------------------- MODULE AssistantTasks ---------------------------
(***************************************************************************)
(* The assistant requests of a sidecar connection: the tasks and their     *)
(* callbacks (service/server.py), and the title, the notes, the imported   *)
(* context and the probe each task makes with calls of a language model    *)
(* (assistant/service.py).  What one call does is in ChatCalls.            *)
(***************************************************************************)
EXTENDS Naturals, Sequences, SequencesExt, FiniteSets

CONSTANTS
  Requests,           \* request ids
  Kinds,              \* the tasks asked for, out of AllKinds
  MaxRuns,            \* bound: accepted requests
  MaxConcurrent,      \* MAX_CONCURRENT_TASKS
  Windows, MaxPieces  \* plan_windows of a long transcript; bound: pieces of a part

AllKinds == {"title", "notes", "windowed", "context", "local_context", "probe", "invalid"}

ASSUME TasksAssumption ==
  /\ {MaxRuns, MaxConcurrent, Windows, MaxPieces} \subseteq Nat \ {0}
  /\ Kinds \subseteq AllKinds

VARIABLES
  conn,      \* the command loop of the connection: "open", "closing" or "closed"
  tasks,     \* the request of each id
  runs,      \* requests accepted
  running    \* AssistantService.running

vars == <<conn, tasks, runs, running>>

States == {"idle", "created", "running", "ended"}
Steps == {"start", "extracting", "probing", "title", "retry", "writing", "finishing", "terms"}
\* What is no piece of a part.
Blank == <<0, 0>>
Header == <<0, 1>>
Closing == <<0, 2>>
Pieces == (1..Windows) \X (1..MaxPieces)
Parts == Pieces \cup {Blank, Header, Closing}

NoTask == [state |-> "idle", asked |-> FALSE, kind |-> "probe", consent |-> FALSE,
           cancelled |-> FALSE, at |-> "start", part |-> 1, doc |-> <<>>, buffer |-> <<>>, shown |-> <<>>,
           uploads |-> FALSE, results |-> 0, ok |-> FALSE, result |-> <<>>]

TypeOK ==
  /\ conn \in {"open", "closing", "closed"}
  /\ tasks \in [Requests ->
       [state : States, asked : BOOLEAN, kind : AllKinds, consent : BOOLEAN,
        cancelled : BOOLEAN, at : Steps, part : 1..Windows, doc : Seq(Parts), buffer : Seq(Parts), shown : Seq(Parts),
        uploads : BOOLEAN, results : 0..1, ok : BOOLEAN, result : Seq(Parts)]]
  /\ runs \in 0..MaxRuns /\ running \in 0..MaxConcurrent

Init == conn = "open" /\ tasks = [r \in Requests |-> NoTask] /\ runs = 0 /\ running = 0
----------------------------------------------------------------------------
(* TaskEvents: deltas are coalesced; one result ends the request.          *)

\* flush at once, or keep the text until 80 ms or 1 KiB are reached.
Deltas(task, texts) ==
  {[task EXCEPT !.buffer = @ \o texts],
   [task EXCEPT !.shown = @ \o task.buffer \o texts, !.buffer = <<>>]}

Flushed(task) == [task EXCEPT !.shown = @ \o task.buffer, !.buffer = <<>>]

Succeeds(task, text) ==
  [Flushed(task) EXCEPT !.state = "ended", !.results = @ + 1, !.ok = TRUE, !.result = text]
Fails(task) == [task EXCEPT !.buffer = <<>>, !.state = "ended", !.results = @ + 1]

\* The step of a task that ends it gives its slot back (finally of handle).
Becomes(r, task) ==
  /\ tasks' = [tasks EXCEPT ![r] = task]
  /\ running' = IF task.state = "ended" THEN running - 1 ELSE running

EndsInSlot(r, task) == tasks' = [tasks EXCEPT ![r] = task] /\ UNCHANGED running
----------------------------------------------------------------------------
(* The command loop.                                                       *)

RequestAgain(r) ==
  /\ conn = "open" /\ runs < MaxRuns /\ runs' = runs + 1 /\ UNCHANGED <<conn, running>>
  /\ tasks' = [tasks EXCEPT ![r] = [NoTask EXCEPT !.state = "created", !.asked = TRUE, !.kind = "title",
                                                 !.consent = TRUE]]

\* A request with the id of one under way is ignored.
AssistantRequest(r) ==
  /\ conn = "open" /\ UNCHANGED <<conn, running>>
  /\ IF tasks[r].state # "idle" THEN UNCHANGED <<tasks, runs>>
     ELSE /\ runs < MaxRuns /\ runs' = runs + 1
          /\ \E kind \in Kinds, consent \in BOOLEAN :
               tasks' = [tasks EXCEPT ![r] = [NoTask EXCEPT !.state = "created", !.asked = TRUE,
                                          !.kind = kind, !.consent = consent]]

UnderWay(r) == tasks[r].state \in {"created", "running"}

AssistantCancel(r) ==
  /\ conn = "open" /\ UnderWay(r)
  /\ tasks' = [tasks EXCEPT ![r].cancelled = TRUE] /\ UNCHANGED <<conn, runs, running>>

\* run's finally cancels every task and waits for them.
ConnectionBreaks ==
  /\ conn = "open" /\ conn' = "closing"
  /\ tasks' = [r \in Requests |-> [tasks[r] EXCEPT !.cancelled = @ \/ UnderWay(r)]]
  /\ UNCHANGED <<runs, running>>

ConnectionGone ==
  /\ conn = "closing" /\ \A r \in Requests : tasks[r].state = "idle"
  /\ conn' = "closed" /\ UNCHANGED <<tasks, runs, running>>

\* Mutant: a task cancelled before it ran is not answered.
ForgetOnly(r) ==
  /\ tasks[r].state = "ended"
  /\ tasks' = [tasks EXCEPT ![r] = [NoTask EXCEPT !.asked = TRUE, !.results = tasks[r].results]]
  /\ UNCHANGED <<conn, runs, running>>

\* The callbacks: a task cancelled before it ran is answered here; the id is free again.
Settle(r) ==
  /\ tasks[r].state = "ended"
  /\ tasks' = [tasks EXCEPT ![r] = [NoTask EXCEPT !.asked = TRUE,
                  !.results = IF tasks[r].results = 0 THEN 1 ELSE tasks[r].results]]
  /\ UNCHANGED <<conn, runs, running>>

Local(kind) == kind \in {"probe", "local_context"}

\* Nothing but the import that asks for the model needs consent.
PermittedImport(task) == task.kind = "context" => task.consent

\* The consent is the user's, for transcripts and attachments.
Permitted(task) == task.kind = "probe" \/ task.kind = "local_context" \/ task.consent

\* Parsed, permitted, with a client: a call is under way, or files are read first.
Begins(task) ==
  CASE task.kind = "title" -> {[task EXCEPT !.at = "title", !.uploads = TRUE]}
    [] task.kind = "probe" -> {[task EXCEPT !.at = "probing"]}
    [] task.kind \in {"notes", "windowed"} ->
         {[task EXCEPT !.at = "extracting"], [task EXCEPT !.at = "writing", !.uploads = TRUE]}
    [] OTHER -> {[task EXCEPT !.at = "extracting"]}

\* Never run, when it was cancelled before; over at once, when it is refused.
TaskRuns(r) ==
  LET task == tasks[r] IN
  /\ task.state = "created" /\ UNCHANGED <<conn, runs>>
  /\ IF task.cancelled THEN EndsInSlot(r, [task EXCEPT !.state = "ended"])
     ELSE IF running >= MaxConcurrent \/ task.kind = "invalid" \/ ~Permitted(task)
     THEN EndsInSlot(r, Fails(task))
     ELSE \/ \E begun \in Begins(task) :
               /\ tasks' = [tasks EXCEPT ![r] = [begun EXCEPT !.state = "running"]]
               /\ running' = running + 1
          \* No transcript, no key, an attachment that is not one.
          \/ EndsInSlot(r, Fails(task))

----------------------------------------------------------------------------
(* The task's steps, each of them after an await.                          *)

Resumes(r, step) ==
  /\ tasks[r].state = "running" /\ tasks[r].at = step /\ ~tasks[r].cancelled
  /\ UNCHANGED <<conn, runs>>

CancelledKeepsSlot(r) ==
  /\ tasks[r].state = "running" /\ tasks[r].cancelled
  /\ EndsInSlot(r, Fails(tasks[r])) /\ UNCHANGED <<conn, runs>>

\* A pending await ends with the cancellation: one result, and the task is over.
Cancelled(r) ==
  /\ tasks[r].state = "running" /\ tasks[r].cancelled
  /\ Becomes(r, Fails(tasks[r])) /\ UNCHANGED <<conn, runs>>

\* The files are read; the context needs the model only when asked for and with some text.
Extracted(r) ==
  LET task == tasks[r] IN
  /\ Resumes(r, "extracting")
  /\ \/ task.kind \in {"notes", "windowed"}
        /\ Becomes(r, [task EXCEPT !.at = "writing", !.uploads = TRUE])
     \/ task.kind = "context" /\ Becomes(r, [task EXCEPT !.at = "terms", !.uploads = TRUE])
     \/ task.kind \in {"context", "local_context"} /\ Becomes(r, Succeeds(task, <<>>))
     \/ Becomes(r, Fails(task))

\* A model's terms, or a warning in their place.
TermsAnswer(r) ==
  Resumes(r, "terms") /\ Becomes(r, Succeeds(tasks[r], <<>>))

ProbeAnswers(r) ==
  /\ Resumes(r, "probing")
  /\ Becomes(r, Succeeds(tasks[r], <<>>)) \/ Becomes(r, Fails(tasks[r]))

\* A title; nothing but reasoning, once; nothing, or an error.
TitleAnswers(r) ==
  LET task == tasks[r] IN
  /\ Resumes(r, "title")
  /\ \/ Becomes(r, Succeeds(task, <<>>))
     \/ Becomes(r, [task EXCEPT !.at = "retry"])
     \/ Becomes(r, Fails(task))

\* The retry ends with the deadline of the task.
RetryAnswers(r) ==
  /\ Resumes(r, "retry")
  /\ Becomes(r, Succeeds(tasks[r], <<>>)) \/ Becomes(r, Fails(tasks[r]))

----------------------------------------------------------------------------
(* Notes, in one part or a part for each window.                           *)

LastPart(task) == task.kind = "notes" \/ task.part = Windows
Begun(task) == \E i \in DOMAIN task.doc : task.doc[i] \in {<<task.part, 1>>}
Written(task) == Cardinality({i \in DOMAIN task.doc : task.doc[i] \in {task.part} \X (1..MaxPieces)})

\* What keeps a blank line between parts.
Separator(doc) == IF doc = <<>> THEN <<>> ELSE <<Blank>>

\* _PartJoiner: a separator before the first text of a part.
Joined(task) ==
  LET text == <<<<task.part, Written(task) + 1>>>>
  IN IF Begun(task) THEN text ELSE Separator(task.doc) \o text

Piece(r) ==
  LET task == tasks[r] IN
  /\ Resumes(r, "writing") /\ Written(task) < MaxPieces
  /\ \E next \in Deltas(task, Joined(task)) :
       Becomes(r, [next EXCEPT !.doc = @ \o Joined(task)])

\* The stream of a part ended.
PartEnds(r) ==
  LET task == tasks[r] IN
  /\ Resumes(r, "writing")
  /\ CASE ~LastPart(task) -> Becomes(r, [task EXCEPT !.part = @ + 1])
       [] LastPart(task) /\ task.doc = <<>> -> Becomes(r, Fails(task))
       [] OTHER -> IF task.kind = "notes" THEN Becomes(r, Succeeds(task, task.doc))
                   ELSE Becomes(r, [Flushed(task) EXCEPT !.at = "finishing"])

PartFails(r) == Resumes(r, "writing") /\ Becomes(r, Fails(tasks[r]))

\* The title and overview go before the sections, what is new of the rest behind them.
FinishingAnswers(r) ==
  LET task == tasks[r] IN
  /\ Resumes(r, "finishing")
  /\ \E head \in {<<>>, <<Header>>}, closing \in {<<>>, <<Blank, Closing>>} :
       Becomes(r, Succeeds([task EXCEPT !.buffer = @ \o closing, !.doc = @ \o closing],
                           head \o task.doc \o closing))

\* Mutant: a failed summary fails the notes.
FinishingFailsAll(r) == Resumes(r, "finishing") /\ Becomes(r, Fails(tasks[r]))

\* The sections stand without a title.
FinishingFails(r) ==
  Resumes(r, "finishing") /\ Becomes(r, Succeeds(tasks[r], tasks[r].doc))
----------------------------------------------------------------------------
Answers(r) ==
  \/ Extracted(r) \/ TermsAnswer(r) \/ ProbeAnswers(r) \/ TitleAnswers(r) \/ RetryAnswers(r)
  \/ PartEnds(r) \/ PartFails(r) \/ FinishingAnswers(r) \/ FinishingFails(r)

Next ==
  \/ ConnectionBreaks \/ ConnectionGone
  \/ \E r \in Requests : \/ AssistantRequest(r) \/ AssistantCancel(r) \/ Settle(r) \/ TaskRuns(r)
                         \/ Cancelled(r) \/ Piece(r) \/ Answers(r)

\* Tasks and callbacks run when they can.  A call ends: the client's timeouts end one the
\* provider leaves alone, and the token limit one it does not.  Commands are the shell's.
Fairness ==
  /\ WF_vars(ConnectionGone)
  /\ \A r \in Requests : /\ WF_vars(Settle(r)) /\ WF_vars(TaskRuns(r)) /\ WF_vars(Cancelled(r))
                         /\ WF_vars(Answers(r))

Spec == Init /\ [][Next]_vars /\ Fairness
----------------------------------------------------------------------------
(* "the request still ends in exactly one result": one that is over was    *)
(* answered once, whether it ran, was refused or was cancelled before it   *)
(* first ran; none under way was answered; and the slots in use are those  *)
(* of the tasks that run.                                                  *)
AnsweredOnce ==
  /\ \A r \in Requests :
       /\ tasks[r].state = "idle" => tasks[r].results = (IF tasks[r].asked THEN 1 ELSE 0)
       /\ UnderWay(r) => tasks[r].results = 0
  /\ running = Cardinality({r \in Requests : tasks[r].state = "running"})

(* "Deltas are append-only: the header reaches the shell only through the  *)
(* result": what the window showed of notes that succeeded is what they    *)
(* are, but for the header in front.                                       *)
DeltasAreTheNotes ==
  \A r \in Requests : tasks[r].ok =>
    \E head \in {<<>>, <<Header>>} : tasks[r].result = head \o tasks[r].shown

(* The parts of long notes stand in order, each once, with one blank line  *)
(* between two that have text and none at an end.                          *)
PartsInOrder ==
  \A r \in Requests : LET doc == tasks[r].doc IN
    /\ doc # <<>> => Head(doc) # Blank /\ Last(doc) # Blank
    /\ \A i \in 1..Len(doc) - 1 :
         IF doc[i] = Blank THEN doc[i + 1] # Blank
         ELSE doc[i + 1] = Blank \/ (doc[i][1] = doc[i + 1][1] /\ doc[i + 1][2] = doc[i][2] + 1)
    /\ \A i, j \in DOMAIN doc : i < j /\ doc[i] \in Pieces /\ doc[j] \in Pieces => doc[i] # doc[j]

(* "Every section is already written; a failed summary call must not throw *)
(* them away": from then on only a cancellation loses the notes.           *)
SectionsSurvive ==
  [][\A r \in Requests :
       tasks[r].at = "finishing" /\ tasks[r].state = "running" /\ tasks'[r].state = "ended"
         => tasks'[r].ok \/ tasks[r].cancelled]_vars

(* Nothing of a transcript or a file leaves the machine unless the request *)
(* carries the user's consent.                                             *)
UploadsNeedConsent == \A r \in Requests : tasks[r].uploads => tasks[r].consent

(* The types; an accepted request ends in one result and gives its slot    *)
(* back, its parts in order and its result what was streamed.              *)
RequestsAreConsistent == TypeOK /\ AnsweredOnce /\ DeltasAreTheNotes /\ PartsInOrder

(* Every accepted request ends, and its id and its slot are free again.    *)
RequestEnds == \A r \in Requests : (tasks[r].state # "idle") ~> (tasks[r].state = "idle")

(* Every accepted request ends, and a failed summary loses no section.     *)
RequestsEnd == RequestEnds /\ SectionsSurvive
=============================================================================
