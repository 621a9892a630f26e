------------------------ MODULE TranslationScheduler ------------------------
(***************************************************************************)
(* The translation side of one live session: the latest-wins scheduler,    *)
(* the policy that decides what deserves a request, the coordinator that   *)
(* runs one provider request, and the target commit policy.                *)
(*                                                                         *)
(* Four actors share the state on one event loop: the transcript consumer  *)
(* (submit, end_of_input), the scheduler's single consumer (run), the task *)
(* of the request in flight, and whoever closes the session.  An action is *)
(* the code between two awaits of one of them.                             *)
(*                                                                         *)
(* A transcript revision is its number.  A committed revision carries the  *)
(* number of source units its committed text holds, so "extends the        *)
(* committed source" is a comparison.  Provisional translations are named  *)
(* by the revision they translate, 0 when there is none.                   *)
(***************************************************************************)
EXTENDS Integers, Sequences, FiniteSets

CONSTANTS
  MaxRevision,         \* bound: transcript revisions published in the session
  Texts,               \* the texts the unstable tail can show
  NoText,              \* the empty text
  ProvisionalEnabled,  \* FALSE for request/response translators
  ContextSegments      \* capacity of the context window

ASSUME ConstantsAssumption ==
  /\ MaxRevision \in Nat \ {0}
  /\ NoText \notin Texts
  /\ ProvisionalEnabled \in BOOLEAN
  /\ ContextSegments \in Nat \ {0}

VARIABLES
  rev,              \* revision of the newest transcript event
  units,            \* source units closed by the recognizer so far
  ended,            \* end_of_input was called
  stable,           \* queue of STABLE and FINAL events
  partial,          \* the one pending PARTIAL event
  wakeup,           \* the consumer's event flag
  pc,               \* where the consumer is
  decision,         \* what the request in flight translates
  attempt,          \* which attempt of that decision is running
  task,             \* state of the request's task
  cancelRequested,  \* task.cancel() was called
  timedOut,         \* the drain deadline cancelled the task
  drain,            \* the drain deadline: none, open or expired
  lastStable,       \* policy: newest STABLE revision decided
  committedSource,  \* policy: units in the committed source text
  lastRequested,    \* policy: text of the last provisional request
  latency,          \* policy: the latency budget since the last request
  committedText,    \* target: revisions whose translation is committed
  editable,         \* target: revision the editable tail translates
  context,          \* the context window
  outcome,          \* what became of each committed revision
  row,              \* kind of the last event emitted for each of them
  tail              \* revision of the last provisional event emitted

inputVars  == <<rev, units, ended>>
queueVars  == <<stable, partial, wakeup>>
taskVars   == <<decision, attempt, task, cancelRequested, timedOut>>
policyVars == <<lastStable, committedSource, lastRequested, latency>>
targetVars == <<committedText, editable, context>>
shownVars  == <<outcome, row, tail>>
vars == <<inputVars, queueVars, pc, taskVars, drain, policyVars, targetVars,
          shownVars>>

Revisions  == 1..MaxRevision
NoPartial  == [rev |-> 0, text |-> NoText]
NoDecision == [rev |-> 0, committed |-> FALSE, text |-> NoText]

Settled == {"committed", "abandoned", "empty", "skipped"}
Answers == {"good", "truncated", "empty", "echo", "foreign", "unreadable"}

-----------------------------------------------------------------------------
\* Helpers

TaskLive == task \in {"created", "running"}
TaskDone == task \in {"ok", "failed", "cancelled"}

LastCommitted ==
  IF committedText = <<>> THEN 0 ELSE committedText[Len(committedText)]

\* The bounded context window forgets its oldest segment.
AddContext(r) ==
  context' = IF Len(context) < ContextSegments
             THEN Append(context, r) ELSE Append(Tail(context), r)

\* Mutants of CancelProvisional: nothing, or any request, is superseded.
CancelNothing(superseded) == UNCHANGED cancelRequested
\* Mutant: a committed request is cancelled, too.
CancelAny(superseded) ==
  cancelRequested' = (cancelRequested \/ (superseded /\ TaskLive))

\* Cancel the request in flight unless it translates committed source.
CancelProvisional(superseded) ==
  cancelRequested' =
    (cancelRequested \/ (superseded /\ TaskLive /\ ~decision.committed))

\* The session still feeds transcript events to the scheduler.
Accepting == ~ended /\ pc \notin {"closing", "cancelled"}

\* Mutant of Enqueued: the newest event is taken first.
EnqueuedFirst(event) == <<event>> \o stable
Enqueued(event) == Append(stable, event)

\* What the policy would translate.
Translatable(event) ==
  IF event.kind = "stable" THEN event.rev > lastStable
                           ELSE event.upto > committedSource
Requestable(text) == ProvisionalEnabled /\ text \notin {NoText, lastRequested}

Init ==
  /\ rev = 0 /\ units = 0 /\ ended = FALSE
  /\ stable = <<>> /\ partial = NoPartial /\ wakeup = FALSE
  /\ pc = "ready"
  /\ decision = NoDecision /\ attempt = 0 /\ task = "none"
  /\ cancelRequested = FALSE /\ timedOut = FALSE
  /\ drain = "none"
  /\ lastStable = 0 /\ committedSource = 0
  /\ lastRequested = NoText /\ latency = "unset"
  /\ committedText = <<>> /\ editable = 0 /\ context = <<>>
  /\ outcome = [r \in Revisions |-> "none"]
  /\ row = [r \in Revisions |-> "none"]
  /\ tail = 0

-----------------------------------------------------------------------------
\* Producer side

\* submit of a STABLE (which always closes a new unit) or a FINAL (which may
\* only repeat what the units already said).
SubmitCommitted(kind, fresh) ==
  /\ Accepting
  /\ rev < MaxRevision
  /\ kind = "stable" => fresh
  /\ rev' = rev + 1
  /\ units' = IF fresh THEN units + 1 ELSE units
  /\ stable' = Enqueued([kind |-> kind, rev |-> rev', upto |-> units'])
  /\ partial' = IF partial.rev < rev' THEN NoPartial ELSE partial
  /\ CancelProvisional(TRUE)
  /\ wakeup' = TRUE
  /\ outcome' = [outcome EXCEPT ![rev'] = "pending"]
  /\ UNCHANGED <<ended, pc, decision, attempt, task, timedOut, drain,
                 policyVars, targetVars, row, tail>>

\* submit of a PARTIAL.  Whether it supersedes a provisional request in flight
\* depends on the request's age and on the shared prefix of the two texts.
SubmitPartial(text, superseded) ==
  /\ Accepting
  /\ rev < MaxRevision
  /\ rev' = rev + 1
  /\ partial' = [rev |-> rev', text |-> text]
  /\ CancelProvisional(superseded)
  /\ wakeup' = TRUE
  /\ UNCHANGED <<units, ended, stable, pc, decision, attempt, task, timedOut,
                 drain, policyVars, targetVars, shownVars>>

EndOfInput ==
  /\ ~ended
  /\ ended' = TRUE
  /\ partial' = NoPartial
  /\ drain' = "open"
  /\ CancelProvisional(TRUE)
  /\ wakeup' = TRUE
  /\ UNCHANGED <<rev, units, stable, pc, decision, attempt, task, timedOut,
                 policyVars, targetVars, shownVars>>

-----------------------------------------------------------------------------
\* Consumer side

\* A decision that is given up: an error event for its span, and no stale tail.
Abandon(d) ==
  IF d.committed
  THEN /\ outcome' = [outcome EXCEPT ![d.rev] = "abandoned"]
       /\ row' = [row EXCEPT ![d.rev] = "error"]
       /\ UNCHANGED editable
  ELSE /\ editable' = 0
       /\ UNCHANGED <<outcome, row>>

\* Mutant of Attempt: the attempts are counted on from the last decision's.
AttemptCountsOn(d, n) ==
  /\ drain # "expired"
  /\ pc' = "executing"
  /\ decision' = d
  /\ attempt' = attempt + n
  /\ task' = "created"
  /\ cancelRequested' = FALSE /\ timedOut' = FALSE
  /\ UNCHANGED <<editable, outcome, row>>

\* An attempt at decision d, made only while the drain budget lasts.
Attempt(d, n) ==
  /\ drain # "expired"
  /\ pc' = "executing"
  /\ decision' = d
  /\ attempt' = n
  /\ task' = "created"
  /\ cancelRequested' = FALSE
  /\ timedOut' = FALSE
  /\ UNCHANGED <<editable, outcome, row>>

Execute(d) ==
  \/ Attempt(d, 1)
  \/ /\ drain = "expired"
     /\ Abandon(d)
     /\ UNCHANGED <<pc, taskVars>>

TranslateUnit ==
  /\ pc = "ready"
  /\ stable # <<>>
  /\ LET event == Head(stable) IN
       /\ Translatable(event)
       /\ stable' = Tail(stable)
       /\ lastStable' = IF event.kind = "stable" THEN event.rev ELSE lastStable
       /\ committedSource' = IF event.upto >= committedSource
                             THEN event.upto ELSE committedSource
       /\ lastRequested' = NoText
       /\ latency' = "running"
       /\ Execute([rev |-> event.rev, committed |-> TRUE, text |-> NoText])
  /\ UNCHANGED <<inputVars, partial, wakeup, drain, committedText, context,
                 tail>>

SkipUnit ==
  /\ pc = "ready"
  /\ stable # <<>>
  /\ ~Translatable(Head(stable))
  /\ stable' = Tail(stable)
  /\ outcome' = [outcome EXCEPT ![Head(stable).rev] = "skipped"]
  /\ UNCHANGED <<inputVars, partial, wakeup, pc, taskVars, drain, policyVars,
                 targetVars, row, tail>>

\* A pending partial is requested at a semantic boundary, after its text has
\* settled, or at the latest once the latency budget has elapsed.
TranslatePartial ==
  /\ pc = "ready"
  /\ stable = <<>>
  /\ partial # NoPartial
  /\ Requestable(partial.text)
  /\ partial' = NoPartial
  /\ lastRequested' = partial.text
  /\ latency' = "running"
  /\ Execute([rev |-> partial.rev, committed |-> FALSE, text |-> partial.text])
  /\ UNCHANGED <<inputVars, stable, wakeup, drain, lastStable, committedSource,
                 committedText, context, tail>>

\* _wait returns at once when something arrived while the loop was busy.
Sleep(where) ==
  IF wakeup THEN wakeup' = FALSE /\ UNCHANGED pc
            ELSE pc' = where /\ UNCHANGED wakeup

\* Mutant of RetryAfter: a kept partial waits for the next event.
NoRetryTimer == "waiting"

\* retry_after_ms gives a kept partial a timer if it can ever be requested.
RetryAfter == IF Requestable(partial.text) THEN "timed" ELSE "waiting"

\* A partial not yet worth a request goes back to its slot.
KeepPartial ==
  /\ pc = "ready"
  /\ stable = <<>>
  /\ partial # NoPartial
  /\ Requestable(partial.text) => latency # "elapsed"
  /\ latency' = IF ProvisionalEnabled /\ latency = "unset"
                THEN "running" ELSE latency
  /\ Sleep(RetryAfter)
  /\ UNCHANGED <<inputVars, stable, partial, taskVars, drain, lastStable,
                 committedSource, lastRequested, targetVars, shownVars>>

Idle ==
  /\ pc = "ready"
  /\ stable = <<>> /\ partial = NoPartial /\ ~ended
  /\ Sleep("waiting")
  /\ UNCHANGED <<inputVars, stable, partial, taskVars, drain, policyVars,
                 targetVars, shownVars>>

Return ==
  /\ pc = "ready"
  /\ stable = <<>> /\ partial = NoPartial /\ ended
  /\ pc' = "done"
  /\ UNCHANGED <<inputVars, queueVars, taskVars, drain, policyVars, targetVars,
                 shownVars>>

\* The wait ends with the event, or with the partial's retry timer.
Awaken ==
  /\ \/ pc = "waiting" /\ wakeup
     \/ pc = "timed"
  /\ pc' = "ready"
  /\ wakeup' = FALSE
  /\ UNCHANGED <<inputVars, stable, partial, taskVars, drain, policyVars,
                 targetVars, shownVars>>

\* Mutant of DrainCancel: committed requests are never cancelled, not even here.
DrainCancelProvisional ==
  /\ pc = "executing"
  /\ TaskLive /\ drain = "expired" /\ ~timedOut /\ ~decision.committed
  /\ cancelRequested' = TRUE
  /\ timedOut' = TRUE
  /\ UNCHANGED <<inputVars, queueVars, pc, decision, attempt, task, drain,
                 policyVars, targetVars, shownVars>>

\* The polling loop notices that the drain budget is used up.
DrainCancel ==
  /\ pc = "executing"
  /\ TaskLive /\ drain = "expired" /\ ~timedOut
  /\ cancelRequested' = TRUE
  /\ timedOut' = TRUE
  /\ UNCHANGED <<inputVars, queueVars, pc, decision, attempt, task, drain,
                 policyVars, targetVars, shownVars>>

Release ==
  /\ decision' = NoDecision
  /\ attempt' = 0
  /\ task' = "none"
  /\ cancelRequested' = FALSE
  /\ timedOut' = FALSE

\* The request succeeded, or was superseded: the loop goes on.
Finish ==
  /\ pc = "executing"
  /\ task = "ok" \/ (task = "cancelled" /\ ~timedOut)
  /\ pc' = "ready"
  /\ Release
  /\ UNCHANGED <<inputVars, queueVars, drain, policyVars, targetVars, shownVars>>

\* Only committed source is retried, and only once.
CanRetry == task = "failed" /\ decision.committed /\ attempt = 1

Retry ==
  /\ pc = "executing"
  /\ CanRetry
  /\ Attempt(decision, 2)
  /\ UNCHANGED <<inputVars, queueVars, drain, policyVars, committedText,
                 context, tail>>

GiveUp ==
  /\ pc = "executing"
  /\ \/ task = "failed" /\ (CanRetry => drain = "expired")
     \/ task = "cancelled" /\ timedOut
  /\ Abandon(decision)
  /\ pc' = "ready"
  /\ Release
  /\ UNCHANGED <<inputVars, queueVars, drain, policyVars, committedText,
                 context, tail>>

\* Mutant of Close: the consumer does not wait for its request.
CloseAtOnce ==
  /\ pc \notin {"done", "closing", "cancelled"}
  /\ pc' = "cancelled"
  /\ cancelRequested' = (cancelRequested \/ TaskLive)
  /\ UNCHANGED <<inputVars, queueVars, decision, attempt, task, timedOut,
                 drain, policyVars, targetVars, shownVars>>

\* The session is closed: the consumer's task is cancelled, and it waits for
\* the request in flight before it ends.
Close ==
  /\ pc \notin {"done", "closing", "cancelled"}
  /\ pc' = IF pc = "executing" THEN "closing" ELSE "cancelled"
  /\ cancelRequested' = (cancelRequested \/ TaskLive)
  /\ UNCHANGED <<inputVars, queueVars, decision, attempt, task, timedOut,
                 drain, policyVars, targetVars, shownVars>>

Closed ==
  /\ pc = "closing"
  /\ TaskDone
  /\ pc' = "cancelled"
  /\ Release
  /\ UNCHANGED <<inputVars, queueVars, drain, policyVars, targetVars, shownVars>>

-----------------------------------------------------------------------------
\* The task of the request in flight

Begin ==
  /\ task = "created" /\ ~cancelRequested
  /\ task' = "running"
  /\ UNCHANGED <<inputVars, queueVars, pc, decision, attempt, cancelRequested,
                 timedOut, drain, policyVars, targetVars, shownVars>>

Progressing == task = "running" /\ ~cancelRequested

\* Text of the provisional tail is shown; of a committed span, only its row.
Show(kind) ==
  IF decision.committed
  THEN row' = [row EXCEPT ![decision.rev] = kind] /\ UNCHANGED <<editable, tail>>
  ELSE editable' = decision.rev /\ tail' = decision.rev /\ UNCHANGED row

Delta ==
  /\ Progressing
  /\ Show("partial")
  /\ UNCHANGED <<inputVars, queueVars, pc, taskVars, drain, policyVars,
                 committedText, context, outcome>>

\* Mutant of Commit: the provisional tail outlives the commit.
CommitBesideTail(answer) ==
  /\ committedText' = Append(committedText, decision.rev)
  /\ row' = [row EXCEPT ![decision.rev] = "final"]
  /\ outcome' = [outcome EXCEPT ![decision.rev] = "committed"]
  /\ IF answer = "truncated" THEN UNCHANGED context ELSE AddContext(decision.rev)
  /\ UNCHANGED <<editable, tail>>

\* The provider's final answer is committed; a truncated one never becomes
\* context for later requests.
Commit(answer) ==
  /\ committedText' = Append(committedText, decision.rev)
  /\ editable' = 0
  /\ row' = [row EXCEPT ![decision.rev] = "final"]
  /\ outcome' = [outcome EXCEPT ![decision.rev] = "committed"]
  /\ IF answer = "truncated" THEN UNCHANGED context ELSE AddContext(decision.rev)
  /\ UNCHANGED tail

\* A final answer without text, or for a span already committed: the stream
\* ends well but its event is only a STABLE.
NothingToCommit ==
  /\ row' = [row EXCEPT ![decision.rev] = "stable"]
  /\ outcome' = [outcome EXCEPT ![decision.rev] = "empty"]
  /\ UNCHANGED <<committedText, editable, context, tail>>

\* Echoes and wrong-script answers are refused; the second wrong-script answer
\* is repaired unless nothing of it is readable.
Refused(answer) ==
  \/ answer \in {"echo", "unreadable"}
  \/ answer = "foreign" /\ attempt < 2

FinalAnswer(answer) ==
  /\ Progressing
  /\ ~(decision.committed /\ Refused(answer))
  /\ task' = "ok"
  /\ IF decision.committed
     THEN IF answer # "empty" /\ decision.rev > LastCommitted
          THEN Commit(answer) ELSE NothingToCommit
     ELSE /\ editable' = IF answer = "empty" THEN 0 ELSE decision.rev
          /\ tail' = decision.rev
          /\ UNCHANGED <<committedText, context, outcome, row>>
  /\ UNCHANGED <<inputVars, queueVars, pc, decision, attempt, cancelRequested,
                 timedOut, drain, policyVars>>

\* A committed request's answer is refused, or the provider fails: with an
\* ERROR event, which is passed on, or with an exception.
Fail(reported) ==
  /\ Progressing
  /\ task' = "failed"
  /\ row' = IF reported /\ decision.committed
            THEN [row EXCEPT ![decision.rev] = "error"] ELSE row
  /\ editable' = IF decision.committed THEN editable ELSE 0
  /\ UNCHANGED <<inputVars, queueVars, pc, decision, attempt, cancelRequested,
                 timedOut, drain, policyVars, committedText, context, outcome,
                 tail>>

\* CancelledError reaches the task.  Before its first step no handler of the
\* coroutine runs, so nothing is discarded.
Cancelled ==
  /\ TaskLive /\ cancelRequested
  /\ task' = "cancelled"
  /\ editable' = IF task = "running" /\ ~decision.committed THEN 0 ELSE editable
  /\ UNCHANGED <<inputVars, queueVars, pc, decision, attempt, cancelRequested,
                 timedOut, drain, policyVars, committedText, context, shownVars>>

-----------------------------------------------------------------------------
\* Time

DrainDeadline ==
  /\ drain = "open"
  /\ drain' = "expired"
  /\ UNCHANGED <<inputVars, queueVars, pc, taskVars, policyVars, targetVars,
                 shownVars>>

LatencyBudgetElapses ==
  /\ latency = "running"
  /\ latency' = "elapsed"
  /\ UNCHANGED <<inputVars, queueVars, pc, taskVars, drain, lastStable,
                 committedSource, lastRequested, targetVars, shownVars>>

-----------------------------------------------------------------------------
Produce ==
  \/ \E kind \in {"stable", "final"}, fresh \in BOOLEAN :
       SubmitCommitted(kind, fresh)
  \/ \E text \in Texts \cup {NoText}, superseded \in BOOLEAN :
       SubmitPartial(text, superseded)
  \/ EndOfInput

Consume ==
  \/ TranslateUnit \/ SkipUnit \/ TranslatePartial \/ KeepPartial
  \/ Idle \/ Return \/ Awaken
  \/ DrainCancel \/ Finish \/ Retry \/ GiveUp \/ Closed

Stream ==
  \/ Delta
  \/ \E answer \in Answers : FinalAnswer(answer)
  \/ \E reported \in BOOLEAN : Fail(reported)

Next ==
  \/ Produce
  \/ Consume
  \/ Begin \/ Stream \/ Cancelled
  \/ Close
  \/ DrainDeadline \/ LatencyBudgetElapses

\* The event loop runs whatever is ready and its timers fire.  Nothing is
\* assumed of the recognizer, of the provider, or of Close.
LoopFairness ==
  /\ WF_vars(Consume)
  /\ WF_vars(Begin)
  /\ WF_vars(Cancelled)
  /\ WF_vars(DrainDeadline)
  /\ WF_vars(LatencyBudgetElapses)

\* Every adapter bounds its request with a timeout, so an answer or a failure
\* comes in the end.
ProviderAnswers ==
  WF_vars(\/ \E answer \in Answers : FinalAnswer(answer)
          \/ \E reported \in BOOLEAN : Fail(reported))

Spec == Init /\ [][Next]_vars
LoopSpec == Spec /\ LoopFairness

-----------------------------------------------------------------------------
\* Type invariant

Event    == [kind : {"stable", "final"}, rev : Revisions, upto : 0..MaxRevision]
Partial  == [rev : 0..MaxRevision, text : Texts \cup {NoText}]
Decision == [rev : 0..MaxRevision, committed : BOOLEAN,
             text : Texts \cup {NoText}]

InputTypeOK ==
  rev \in 0..MaxRevision /\ units \in 0..rev /\ ended \in BOOLEAN
QueueTypeOK ==
  stable \in Seq(Event) /\ partial \in Partial /\ wakeup \in BOOLEAN
TaskTypeOK ==
  /\ pc \in {"ready", "waiting", "timed", "executing", "closing", "done",
             "cancelled"}
  /\ decision \in Decision
  /\ decision.committed => decision.rev \in Revisions
  /\ attempt \in 0..2
  /\ task \in {"none", "created", "running", "ok", "failed", "cancelled"}
  /\ cancelRequested \in BOOLEAN /\ timedOut \in BOOLEAN
  /\ drain \in {"none", "open", "expired"}
PolicyTypeOK ==
  /\ lastStable \in 0..MaxRevision /\ committedSource \in 0..MaxRevision
  /\ lastRequested \in Texts \cup {NoText}
  /\ latency \in {"unset", "running", "elapsed"}
TargetTypeOK ==
  /\ committedText \in Seq(Revisions) /\ context \in Seq(Revisions)
  /\ editable \in 0..MaxRevision
ShownTypeOK ==
  /\ outcome \in [Revisions -> Settled \cup {"none", "pending"}]
  /\ row \in [Revisions -> {"none", "partial", "stable", "final", "error"}]
  /\ tail \in 0..MaxRevision

TypeOK ==
  /\ InputTypeOK /\ QueueTypeOK /\ TaskTypeOK
  /\ PolicyTypeOK /\ TargetTypeOK /\ ShownTypeOK

-----------------------------------------------------------------------------
\* Safety

\* Spans leave in the order they were accepted: nothing older is still pending
\* when a span settles (retries, drain and cancellations included).
SettledInOrder ==
  \A r, s \in Revisions :
    (r < s /\ outcome[s] \in Settled) => outcome[r] # "pending"

\* The committed target text holds exactly the translated spans, each once and
\* in source order; it never holds provisional text.
TargetMatchesOutcomes ==
  /\ \A i, j \in DOMAIN committedText :
       i < j => committedText[i] < committedText[j]
  /\ \A r \in Revisions :
       outcome[r] = "committed" <=> \E i \in DOMAIN committedText :
                                      committedText[i] = r

\* The last event emitted for a span tells what became of it: a reader of the
\* event stream can trust it even after a failed first attempt.
RowTellsOutcome ==
  \A r \in Revisions :
    /\ outcome[r] = "committed" <=> row[r] = "final"
    /\ outcome[r] = "abandoned" => row[r] = "error"
    /\ outcome[r] = "empty" => row[r] = "stable"
    /\ outcome[r] \in {"none", "skipped"} => row[r] = "none"

\* A committed request is never cancelled because something newer arrived:
\* only the drain deadline or the end of the session stops it.
CommittedIsNotSuperseded ==
  (decision.committed /\ cancelRequested) => (timedOut \/ pc = "closing")

\* The editable tail never shows a translation of source whose span already
\* has its committed translation.
EditableIsAhead == editable # 0 => editable > LastCommitted

\* When the consumer returns, every accepted span has settled and all of the
\* committed source went to the translator; no request is left running.
DrainedAtReturn ==
  pc = "done" => /\ \A r \in Revisions : outcome[r] # "pending"
                 /\ committedSource = units
                 /\ task = "none"

\* A cancelled consumer leaves no request running behind it.
NoOrphanRequest == pc = "cancelled" => task = "none"

\* Context handed to later requests is committed translation, in order.
ContextIsCommitted ==
  \A i \in DOMAIN context :
    /\ outcome[context[i]] = "committed"
    /\ \A j \in DOMAIN context : i < j => context[i] < context[j]

\* The target text, the rows, the editable tail and the context of the next
\* requests tell the same outcome of every span, in whatever order it was reached.
OutcomesAgree ==
  TargetMatchesOutcomes /\ RowTellsOutcome /\ EditableIsAhead /\ ContextIsCommitted

\* However the consumer ends, no request and no accepted span is left behind it.
NothingBehindConsumer == DrainedAtReturn /\ NoOrphanRequest

\* Once a span is settled nothing re-opens it: no later event for its row.
SettledIsFinal ==
  [][\A r \in Revisions : outcome[r] \in Settled =>
       outcome'[r] = outcome[r] /\ row'[r] = row[r]]_vars

\* A provisional translation shown is newer than every committed revision the
\* scheduler has accepted: the superseded request says nothing any more.
NoProvisionalBehindUnit ==
  [][tail' # tail => \A r \in Revisions : outcome[r] # "none" => r < tail']_vars

\* What is shown is never older than what was shown or accepted before it.
ShownIsNeverStale == SettledIsFinal /\ NoProvisionalBehindUnit

\* The scheduler implements the ledger: the span in flight and the queue are
\* the ledger's waiting spans.
InFlight ==
  IF decision.committed /\ outcome[decision.rev] = "pending"
  THEN <<decision.rev>> ELSE <<>>
Ledger == INSTANCE TranslationLedger WITH
  waiting <- InFlight \o [i \in 1..Len(stable) |-> stable[i].rev],
  target  <- committedText
ImplementsLedger == Ledger!Spec

-----------------------------------------------------------------------------
\* Liveness

\* Stop is bounded: after the end of input the consumer ends, whatever the
\* provider does.
DrainEnds == ended ~> pc \in {"done", "cancelled"}

\* Every accepted span settles unless the session is closed under it, if the
\* provider answers or fails in the end.
SpansSettle ==
  ProviderAnswers =>
    \A r \in Revisions :
      outcome[r] = "pending" ~> (outcome[r] # "pending" \/ pc = "cancelled")

\* The newest partial is not forgotten in its slot: it is requested, replaced
\* or dropped, unless it has no text the translator has not seen.
PartialIsServed ==
  ProviderAnswers =>
    \A r \in Revisions :
      (partial.rev = r /\ Requestable(partial.text))
        ~> (partial.rev # r \/ ~Requestable(partial.text) \/ pc = "cancelled")

\* Whatever the recognizer hands over is served: units settle, the partial moves on.
RequestsAreServed == SpansSettle /\ PartialIsServed

=============================================================================
