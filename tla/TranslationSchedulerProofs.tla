--------------------- MODULE TranslationSchedulerProofs ---------------------
(***************************************************************************)
(* Theorems about the translation scheduler, for any number of revisions.  *)
(*                                                                         *)
(* First three inductive invariants, each on top of the ones before it:    *)
(* the types, one lemma per action; ControlInv, which ties the consumer to *)
(* the request it waits for; and OrderInv, which says that the span in     *)
(* flight and the queue are exactly the pending spans, oldest first.       *)
(*                                                                         *)
(* Then what became of each committed span, for any number of revisions:   *)
(* the target text, the rows, the editable tail and the context agree on   *)
(* it (OutcomesAgree), nothing reopens it (ShownIsNeverStale), nothing is  *)
(* left behind the consumer (NothingBehindConsumer), and the scheduler     *)
(* implements the ledger of accepted spans (ImplementsLedger).  All of it  *)
(* rests on OrderInv.  A step has one of five effects on the spans, Effect *)
(* below; the invariants about spans are proved from the effects, not from *)
(* the actions.                                                            *)
(***************************************************************************)
EXTENDS TranslationScheduler, SequenceTheorems, TLAPS

USE ConstantsAssumption DEF ConstantsAssumption, Settled

\* The starting values have their types.
LEMMA InitType == Init => TypeOK
<1> SUFFICES ASSUME Init PROVE TypeOK
  OBVIOUS
<1>1. 0 \in 0..MaxRevision /\ 0 \in 0..0 /\ 0 \in 0..2
  OBVIOUS
<1>2. InputTypeOK
  BY <1>1 DEF Init, InputTypeOK
<1>3. QueueTypeOK
  <2>1. stable \in Seq(Event)
    BY DEF Init
  <2>2. partial \in Partial /\ wakeup \in BOOLEAN
    BY <1>1 DEF Init, NoPartial, Partial
  <2> QED BY <2>1, <2>2 DEF QueueTypeOK
<1>4. TaskTypeOK
  <2>1. decision \in Decision /\ ~decision.committed
    BY <1>1 DEF Init, NoDecision, Decision
  <2> QED BY <1>1, <2>1 DEF Init, TaskTypeOK
<1>5. PolicyTypeOK
  BY <1>1 DEF Init, PolicyTypeOK
<1>6. TargetTypeOK
  BY <1>1 DEF Init, TargetTypeOK
<1>7. ShownTypeOK
  BY <1>1 DEF Init, ShownTypeOK
<1> QED BY <1>2, <1>3, <1>4, <1>5, <1>6, <1>7 DEF TypeOK

\* The queue of committed events stays one when it loses its head.
LEMMA StableTail ==
  ASSUME QueueTypeOK, stable # <<>>
  PROVE  Tail(stable) \in Seq(Event) /\ Head(stable) \in Event
BY DEF QueueTypeOK

LEMMA SubmitCommittedType ==
  ASSUME TypeOK, NEW kind \in {"stable", "final"}, NEW fresh \in BOOLEAN,
         SubmitCommitted(kind, fresh)
  PROVE  TypeOK'
<1>1. rev' \in Revisions /\ units' \in 0..rev'
  BY DEF SubmitCommitted, TypeOK, InputTypeOK, Revisions
<1>2. [kind |-> kind, rev |-> rev', upto |-> units'] \in Event
  BY <1>1 DEF Event, Revisions
<1>3. InputTypeOK'
  BY <1>1 DEF SubmitCommitted, TypeOK, InputTypeOK, Revisions
<1>4. QueueTypeOK'
  BY <1>2 DEF SubmitCommitted, Enqueued, TypeOK, QueueTypeOK, Partial, NoPartial
<1>5. TaskTypeOK'
  BY DEF SubmitCommitted, CancelProvisional, TypeOK, TaskTypeOK
<1>6. PolicyTypeOK' /\ TargetTypeOK'
  BY DEF SubmitCommitted, TypeOK, PolicyTypeOK, TargetTypeOK, policyVars,
         targetVars
<1>7. ShownTypeOK'
  BY <1>1 DEF SubmitCommitted, TypeOK, ShownTypeOK
<1> QED BY <1>3, <1>4, <1>5, <1>6, <1>7 DEF TypeOK

LEMMA SubmitPartialType ==
  ASSUME TypeOK, NEW text \in Texts \cup {NoText}, NEW superseded \in BOOLEAN,
         SubmitPartial(text, superseded)
  PROVE  TypeOK'
<1>1. rev' \in 0..MaxRevision /\ units' \in 0..rev' /\ ended' \in BOOLEAN
  BY DEF SubmitPartial, TypeOK, InputTypeOK
<1>2. InputTypeOK'
  BY <1>1 DEF InputTypeOK
<1>3. QueueTypeOK'
  BY <1>1 DEF SubmitPartial, TypeOK, QueueTypeOK, Partial
<1>4. TaskTypeOK'
  BY DEF SubmitPartial, CancelProvisional, TypeOK, TaskTypeOK
<1>5. PolicyTypeOK' /\ TargetTypeOK' /\ ShownTypeOK'
  BY DEF SubmitPartial, TypeOK, PolicyTypeOK, TargetTypeOK, ShownTypeOK,
         policyVars, targetVars, shownVars
<1> QED BY <1>2, <1>3, <1>4, <1>5 DEF TypeOK

LEMMA EndOfInputType == TypeOK /\ EndOfInput => TypeOK'
<1> SUFFICES ASSUME TypeOK, EndOfInput PROVE TypeOK'
  OBVIOUS
<1>1. InputTypeOK' /\ QueueTypeOK'
  BY DEF EndOfInput, TypeOK, InputTypeOK, QueueTypeOK, Partial, NoPartial
<1>2. TaskTypeOK'
  BY DEF EndOfInput, CancelProvisional, TypeOK, TaskTypeOK
<1>3. PolicyTypeOK' /\ TargetTypeOK' /\ ShownTypeOK'
  BY DEF EndOfInput, TypeOK, PolicyTypeOK, TargetTypeOK, ShownTypeOK,
         policyVars, targetVars, shownVars
<1> QED BY <1>1, <1>2, <1>3 DEF TypeOK

\* What running an attempt, or giving the decision up, leaves behind.
LEMMA AttemptType ==
  ASSUME TypeOK, NEW d \in Decision, d.committed => d.rev \in Revisions,
         NEW n \in 0..2, Attempt(d, n), UNCHANGED drain
  PROVE  /\ TaskTypeOK'
         /\ editable' = editable /\ outcome' = outcome /\ row' = row
BY DEF Attempt, TypeOK, TaskTypeOK

LEMMA AbandonType ==
  ASSUME TypeOK, NEW d \in Decision, d.committed => d.rev \in Revisions,
         Abandon(d)
  PROVE  /\ editable' \in 0..MaxRevision
         /\ outcome' \in [Revisions -> Settled \cup {"none", "pending"}]
         /\ row' \in [Revisions -> {"none", "partial", "stable", "final", "error"}]
<1>1. outcome' \in [Revisions -> Settled \cup {"none", "pending"}]
  BY DEF Abandon, TypeOK, ShownTypeOK
<1>2. row' \in [Revisions -> {"none", "partial", "stable", "final", "error"}]
  BY DEF Abandon, TypeOK, ShownTypeOK
<1>3. editable' \in 0..MaxRevision
  BY DEF Abandon, TypeOK, TargetTypeOK
<1> QED BY <1>1, <1>2, <1>3

LEMMA ExecuteType ==
  ASSUME TypeOK, NEW d \in Decision, d.committed => d.rev \in Revisions,
         Execute(d), UNCHANGED <<drain, committedText, context, tail>>
  PROVE  TaskTypeOK' /\ TargetTypeOK' /\ ShownTypeOK'
<1>1. CASE Attempt(d, 1)
  BY <1>1, AttemptType DEF TypeOK, TargetTypeOK, ShownTypeOK
<1>2. CASE Abandon(d) /\ UNCHANGED <<pc, taskVars>>
  <2>1. TaskTypeOK'
    BY <1>2 DEF TypeOK, TaskTypeOK, taskVars
  <2>2. TargetTypeOK' /\ ShownTypeOK'
    BY <1>2, AbandonType DEF TypeOK, TargetTypeOK, ShownTypeOK
  <2> QED BY <2>1, <2>2
<1> QED BY <1>1, <1>2 DEF Execute

LEMMA TranslateUnitType == TypeOK /\ TranslateUnit => TypeOK'
<1> SUFFICES ASSUME TypeOK, TranslateUnit PROVE TypeOK'
  OBVIOUS
<1> DEFINE event == Head(stable)
           d == [rev |-> event.rev, committed |-> TRUE, text |-> NoText]
<1>1. event \in Event /\ Tail(stable) \in Seq(Event)
  BY StableTail DEF TranslateUnit, TypeOK
<1>2. d \in Decision /\ (d.committed => d.rev \in Revisions)
  BY <1>1 DEF Event, Decision, Revisions
<1>3. Execute(d)
  BY DEF TranslateUnit
<1>4. InputTypeOK' /\ QueueTypeOK'
  BY <1>1 DEF TranslateUnit, TypeOK, InputTypeOK, QueueTypeOK, inputVars
<1>5. PolicyTypeOK'
  <2>1. lastStable' \in 0..MaxRevision /\ committedSource' \in 0..MaxRevision
    BY <1>1 DEF TranslateUnit, TypeOK, PolicyTypeOK, Event, Revisions
  <2> QED BY <2>1 DEF TranslateUnit, PolicyTypeOK
<1>6. TaskTypeOK' /\ TargetTypeOK' /\ ShownTypeOK'
  <2>1. UNCHANGED <<drain, committedText, context, tail>>
    BY DEF TranslateUnit
  <2> HIDE DEF d
  <2> QED BY <1>2, <1>3, <2>1, ExecuteType
<1> QED BY <1>4, <1>5, <1>6 DEF TypeOK

LEMMA SkipUnitType == TypeOK /\ SkipUnit => TypeOK'
<1> SUFFICES ASSUME TypeOK, SkipUnit PROVE TypeOK'
  OBVIOUS
<1>1. Head(stable) \in Event /\ Tail(stable) \in Seq(Event)
  BY StableTail DEF SkipUnit, TypeOK
<1>2. InputTypeOK' /\ QueueTypeOK'
  BY <1>1 DEF SkipUnit, TypeOK, InputTypeOK, QueueTypeOK, inputVars
<1>3. TaskTypeOK'
  BY DEF SkipUnit, TypeOK, TaskTypeOK, taskVars
<1>4. PolicyTypeOK' /\ TargetTypeOK'
  BY DEF SkipUnit, TypeOK, PolicyTypeOK, TargetTypeOK, policyVars, targetVars
<1>5. ShownTypeOK'
  BY DEF SkipUnit, TypeOK, ShownTypeOK
<1> QED BY <1>2, <1>3, <1>4, <1>5 DEF TypeOK

LEMMA TranslatePartialType == TypeOK /\ TranslatePartial => TypeOK'
<1> SUFFICES ASSUME TypeOK, TranslatePartial PROVE TypeOK'
  OBVIOUS
<1> DEFINE d == [rev |-> partial.rev, committed |-> FALSE, text |-> partial.text]
<1>1. d \in Decision /\ ~d.committed
  BY DEF TypeOK, QueueTypeOK, Partial, Decision
<1>2. Execute(d)
  BY DEF TranslatePartial
<1>3. InputTypeOK' /\ QueueTypeOK'
  BY DEF TranslatePartial, TypeOK, InputTypeOK, QueueTypeOK, inputVars, Partial,
         NoPartial
<1>4. PolicyTypeOK'
  BY DEF TranslatePartial, TypeOK, PolicyTypeOK, QueueTypeOK, Partial
<1>5. TaskTypeOK' /\ TargetTypeOK' /\ ShownTypeOK'
  <2>1. UNCHANGED <<drain, committedText, context, tail>>
    BY DEF TranslatePartial
  <2> HIDE DEF d
  <2> QED BY <1>1, <1>2, <2>1, ExecuteType
<1> QED BY <1>3, <1>4, <1>5 DEF TypeOK

\* A released consumer holds no decision.
LEMMA ReleasedType ==
  ASSUME TaskTypeOK, Release, pc' \in {"ready", "cancelled"}, UNCHANGED drain
  PROVE  TaskTypeOK'
<1>1. NoDecision \in Decision /\ ~NoDecision.committed
  BY DEF NoDecision, Decision
<1>2. decision' \in Decision /\ ~decision'.committed
  BY <1>1 DEF Release
<1>3. attempt' \in 0..2
  BY DEF Release
<1>4. cancelRequested' \in BOOLEAN /\ timedOut' \in BOOLEAN
  BY DEF Release
<1>5. drain' \in {"none", "open", "expired"}
  BY DEF TaskTypeOK
<1>6. /\ pc' \in {"ready", "waiting", "timed", "executing", "closing", "done",
                  "cancelled"}
      /\ task' \in {"none", "created", "running", "ok", "failed", "cancelled"}
  BY DEF Release
<1> QED BY <1>2, <1>3, <1>4, <1>5, <1>6 DEF TaskTypeOK

\* The consumer's steps that neither start nor give up a decision.
LEMMA WaitType ==
  TypeOK /\ (KeepPartial \/ Idle \/ Return \/ Awaken) => TypeOK'
<1> SUFFICES ASSUME TypeOK, KeepPartial \/ Idle \/ Return \/ Awaken
             PROVE  TypeOK'
  OBVIOUS
<1> USE DEF KeepPartial, Idle, Return, Awaken, Sleep, RetryAfter
<1>1. InputTypeOK'
  BY DEF TypeOK, InputTypeOK, inputVars
<1>2. QueueTypeOK'
  BY DEF TypeOK, QueueTypeOK, queueVars
<1>3. TaskTypeOK'
  BY DEF TypeOK, TaskTypeOK, taskVars
<1>4. PolicyTypeOK'
  BY DEF TypeOK, PolicyTypeOK, policyVars
<1>5. TargetTypeOK' /\ ShownTypeOK'
  BY DEF TypeOK, TargetTypeOK, ShownTypeOK, targetVars, shownVars
<1> QED BY <1>1, <1>2, <1>3, <1>4, <1>5 DEF TypeOK

\* The steps that end, cancel or release a request without touching its text.
LEMMA ReleaseType ==
  TypeOK /\ (DrainCancel \/ Finish \/ Close \/ Closed \/ Begin) => TypeOK'
<1> SUFFICES ASSUME TypeOK, DrainCancel \/ Finish \/ Close \/ Closed \/ Begin
             PROVE  TypeOK'
  OBVIOUS
<1> USE DEF DrainCancel, Finish, Close, Closed, Begin
<1>1. InputTypeOK' /\ QueueTypeOK'
  BY DEF TypeOK, InputTypeOK, QueueTypeOK, inputVars, queueVars
<1>2. TaskTypeOK'
  <2>1. CASE Finish \/ Closed
    BY <2>1, ReleasedType DEF TypeOK
  <2>2. CASE DrainCancel \/ Begin
    BY <2>2 DEF TypeOK, TaskTypeOK
  <2>3. CASE Close
    <3>1. cancelRequested' \in BOOLEAN
      BY <2>3 DEF TypeOK, TaskTypeOK, TaskLive
    <3>2. /\ pc' \in {"closing", "cancelled"}
          /\ UNCHANGED <<decision, attempt, task, timedOut, drain>>
      BY <2>3
    <3> QED BY <3>1, <3>2 DEF TypeOK, TaskTypeOK
  <2> QED BY <2>1, <2>2, <2>3
<1>3. PolicyTypeOK'
  BY DEF TypeOK, PolicyTypeOK, policyVars
<1>4. TargetTypeOK' /\ ShownTypeOK'
  BY DEF TypeOK, TargetTypeOK, ShownTypeOK, targetVars, shownVars
<1> QED BY <1>1, <1>2, <1>3, <1>4 DEF TypeOK

LEMMA RetryType == TypeOK /\ Retry => TypeOK'
<1> SUFFICES ASSUME TypeOK, Retry PROVE TypeOK'
  OBVIOUS
<1>1. TaskTypeOK' /\ UNCHANGED <<editable, outcome, row>>
  BY AttemptType DEF Retry, TypeOK, TaskTypeOK
<1>2. InputTypeOK' /\ QueueTypeOK' /\ PolicyTypeOK'
  BY DEF Retry, TypeOK, InputTypeOK, QueueTypeOK, PolicyTypeOK, inputVars,
         queueVars, policyVars
<1>3. TargetTypeOK' /\ ShownTypeOK'
  BY <1>1 DEF Retry, TypeOK, TargetTypeOK, ShownTypeOK
<1> QED BY <1>1, <1>2, <1>3 DEF TypeOK

LEMMA GiveUpType == TypeOK /\ GiveUp => TypeOK'
<1> SUFFICES ASSUME TypeOK, GiveUp PROVE TypeOK'
  OBVIOUS
<1>1. InputTypeOK' /\ QueueTypeOK' /\ PolicyTypeOK'
  BY DEF GiveUp, TypeOK, InputTypeOK, QueueTypeOK, PolicyTypeOK, inputVars,
         queueVars, policyVars
<1>2. TaskTypeOK'
  BY ReleasedType DEF GiveUp, TypeOK
<1>3. TargetTypeOK' /\ ShownTypeOK'
  <2>1. Abandon(decision) /\ decision \in Decision
        /\ (decision.committed => decision.rev \in Revisions)
    BY DEF GiveUp, TypeOK, TaskTypeOK
  <2> QED BY <2>1, AbandonType DEF GiveUp, TypeOK, TargetTypeOK, ShownTypeOK
<1> QED BY <1>1, <1>2, <1>3 DEF TypeOK

\* Nothing a request does changes the scheduler's own state.
LEMMA StreamType ==
  ASSUME TypeOK, UNCHANGED <<inputVars, queueVars, pc, decision, attempt,
                             cancelRequested, timedOut, drain, policyVars>>,
         task' \in {"running", "ok", "failed", "cancelled"} \/ task' = task
  PROVE  InputTypeOK' /\ QueueTypeOK' /\ TaskTypeOK' /\ PolicyTypeOK'
<1>1. InputTypeOK' /\ QueueTypeOK'
  BY DEF TypeOK, InputTypeOK, QueueTypeOK, inputVars, queueVars
<1>2. TaskTypeOK'
  BY DEF TypeOK, TaskTypeOK
<1>3. PolicyTypeOK'
  BY DEF TypeOK, PolicyTypeOK, policyVars
<1> QED BY <1>1, <1>2, <1>3

LEMMA DeltaType == TypeOK /\ Delta => TypeOK'
<1> SUFFICES ASSUME TypeOK, Delta PROVE TypeOK'
  OBVIOUS
<1>1. InputTypeOK' /\ QueueTypeOK' /\ TaskTypeOK' /\ PolicyTypeOK'
  BY StreamType DEF Delta, taskVars
<1>2. TargetTypeOK' /\ ShownTypeOK'
  BY DEF Delta, Show, TypeOK, TaskTypeOK, TargetTypeOK, ShownTypeOK, Decision
<1> QED BY <1>1, <1>2 DEF TypeOK

\* The context window stays a sequence of revisions when it slides.
LEMMA AddContextType ==
  ASSUME context \in Seq(Revisions), NEW r \in Revisions, AddContext(r)
  PROVE  context' \in Seq(Revisions)
<1>1. Append(context, r) \in Seq(Revisions)
  OBVIOUS
<1>2. CASE Len(context) < ContextSegments
  BY <1>1, <1>2 DEF AddContext
<1>3. CASE ~(Len(context) < ContextSegments)
  <2>1. context # <<>>
    BY <1>3
  <2>2. Append(Tail(context), r) \in Seq(Revisions)
    BY <2>1
  <2> QED BY <1>3, <2>2 DEF AddContext
<1> QED BY <1>2, <1>3

LEMMA FinalAnswerType ==
  ASSUME TypeOK, NEW answer \in Answers, FinalAnswer(answer)
  PROVE  TypeOK'
<1>1. InputTypeOK' /\ QueueTypeOK' /\ TaskTypeOK' /\ PolicyTypeOK'
  BY StreamType DEF FinalAnswer
<1>2. TargetTypeOK' /\ ShownTypeOK'
  <2> decision \in Decision /\ (decision.committed => decision.rev \in Revisions)
    BY DEF TypeOK, TaskTypeOK
  <2>1. CASE decision.committed /\ Commit(answer)
    <3>1. context' \in Seq(Revisions)
      <4> decision.rev \in Revisions
        BY <2>1
      <4> QED BY <2>1, AddContextType DEF Commit, TypeOK, TargetTypeOK
    <3>2. committedText' \in Seq(Revisions) /\ editable' \in 0..MaxRevision
      BY <2>1 DEF Commit, TypeOK, TargetTypeOK
    <3>3. ShownTypeOK'
      BY <2>1 DEF Commit, TypeOK, ShownTypeOK
    <3> QED BY <3>1, <3>2, <3>3 DEF TargetTypeOK
  <2>2. CASE decision.committed /\ NothingToCommit
    BY <2>2 DEF NothingToCommit, TypeOK, TargetTypeOK, ShownTypeOK
  <2>3. CASE ~decision.committed
    BY <2>3 DEF FinalAnswer, TypeOK, TargetTypeOK, ShownTypeOK, Decision
  <2> QED BY <2>1, <2>2, <2>3 DEF FinalAnswer
<1> QED BY <1>1, <1>2 DEF TypeOK

LEMMA FailType ==
  ASSUME TypeOK, NEW reported \in BOOLEAN, Fail(reported)
  PROVE  TypeOK'
<1>1. InputTypeOK' /\ QueueTypeOK' /\ TaskTypeOK' /\ PolicyTypeOK'
  BY StreamType DEF Fail
<1>2. TargetTypeOK' /\ ShownTypeOK'
  BY DEF Fail, TypeOK, TaskTypeOK, TargetTypeOK, ShownTypeOK, Decision
<1> QED BY <1>1, <1>2 DEF TypeOK

LEMMA CancelledType == TypeOK /\ Cancelled => TypeOK'
<1> SUFFICES ASSUME TypeOK, Cancelled PROVE TypeOK'
  OBVIOUS
<1>1. InputTypeOK' /\ QueueTypeOK' /\ TaskTypeOK' /\ PolicyTypeOK'
  BY StreamType DEF Cancelled
<1>2. TargetTypeOK' /\ ShownTypeOK'
  BY DEF Cancelled, TypeOK, TargetTypeOK, ShownTypeOK, shownVars
<1> QED BY <1>1, <1>2 DEF TypeOK

LEMMA TimeType ==
  TypeOK /\ (DrainDeadline \/ LatencyBudgetElapses \/ UNCHANGED vars) => TypeOK'
<1> SUFFICES ASSUME TypeOK,
                    DrainDeadline \/ LatencyBudgetElapses \/ UNCHANGED vars
             PROVE  TypeOK'
  OBVIOUS
<1> USE DEF DrainDeadline, LatencyBudgetElapses, vars
<1>1. InputTypeOK' /\ QueueTypeOK'
  BY DEF TypeOK, InputTypeOK, QueueTypeOK, inputVars, queueVars
<1>2. TaskTypeOK'
  BY DEF TypeOK, TaskTypeOK, taskVars
<1>3. PolicyTypeOK'
  BY DEF TypeOK, PolicyTypeOK, policyVars
<1>4. TargetTypeOK' /\ ShownTypeOK'
  BY DEF TypeOK, TargetTypeOK, ShownTypeOK, targetVars, shownVars
<1> QED BY <1>1, <1>2, <1>3, <1>4 DEF TypeOK

\* Every variable keeps its type, for any bound on the revisions, any set of
\* texts, with and without provisional requests (the scheduler's own state,
\* policy state and target state).
THEOREM TypeCorrect == Spec => []TypeOK
<1>1. Init => TypeOK
  BY InitType
<1>2. TypeOK /\ [Next]_vars => TypeOK'
  <2> SUFFICES ASSUME TypeOK, [Next]_vars PROVE TypeOK'
    OBVIOUS
  <2>1. CASE Produce
    BY <2>1, SubmitCommittedType, SubmitPartialType, EndOfInputType DEF Produce
  <2>2. CASE Consume
    BY <2>2, TranslateUnitType, SkipUnitType, TranslatePartialType, WaitType,
       ReleaseType, RetryType, GiveUpType DEF Consume
  <2>3. CASE Stream
    BY <2>3, DeltaType, FinalAnswerType, FailType DEF Stream
  <2>4. CASE Begin \/ Cancelled \/ Close
    BY <2>4, ReleaseType, CancelledType
  <2>5. CASE DrainDeadline \/ LatencyBudgetElapses \/ UNCHANGED vars
    BY <2>5, TimeType
  <2> QED BY <2>1, <2>2, <2>3, <2>4, <2>5 DEF Next
<1> QED BY <1>1, <1>2, PTL DEF Spec

-----------------------------------------------------------------------------
\* A request exists exactly while the consumer waits for it, a consumer
\* without one holds no decision and no cancellation, and only a cancelled
\* request ends cancelled.
ControlInv ==
  /\ pc \in {"executing", "closing"} <=> task # "none"
  /\ task = "none" => /\ decision = NoDecision
                      /\ ~cancelRequested /\ ~timedOut
  /\ task = "cancelled" => cancelRequested
  /\ CommittedIsNotSuperseded

LEMMA InitControl == Init => ControlInv
BY DEF Init, ControlInv, CommittedIsNotSuperseded, NoDecision

LEMMA ProduceControl == TypeOK /\ ControlInv /\ Produce => ControlInv'
<1> SUFFICES ASSUME TypeOK, ControlInv, Produce PROVE ControlInv'
  OBVIOUS
<1>1. /\ UNCHANGED <<pc, decision, task, timedOut>>
      /\ \E superseded \in BOOLEAN : CancelProvisional(superseded)
  BY DEF Produce, SubmitCommitted, SubmitPartial, EndOfInput
<1> QED BY <1>1 DEF ControlInv, CommittedIsNotSuperseded, CancelProvisional,
                    TaskLive

LEMMA ExecuteControl ==
  ASSUME ControlInv, pc = "ready", NEW d, Execute(d)
  PROVE  ControlInv'
<1>1. CASE Attempt(d, 1)
  BY <1>1 DEF Attempt, ControlInv, CommittedIsNotSuperseded
<1>2. CASE UNCHANGED <<pc, taskVars>>
  BY <1>2 DEF ControlInv, CommittedIsNotSuperseded, taskVars, NoDecision
<1> QED BY <1>1, <1>2 DEF Execute

LEMMA ReleaseControl ==
  ASSUME Release, pc' \in {"ready", "cancelled"}
  PROVE  ControlInv'
BY DEF Release, ControlInv, CommittedIsNotSuperseded, NoDecision

LEMMA ConsumeControl == TypeOK /\ ControlInv /\ Consume => ControlInv'
<1> SUFFICES ASSUME TypeOK, ControlInv, Consume PROVE ControlInv'
  OBVIOUS
<1>1. CASE TranslateUnit \/ TranslatePartial
  BY <1>1, ExecuteControl DEF TranslateUnit, TranslatePartial
<1>2. CASE SkipUnit
  BY <1>2 DEF SkipUnit, ControlInv, CommittedIsNotSuperseded, taskVars
<1>3. CASE KeepPartial \/ Idle \/ Return \/ Awaken
  BY <1>3 DEF KeepPartial, Idle, Return, Awaken, Sleep, RetryAfter, ControlInv,
              CommittedIsNotSuperseded, taskVars
<1>4. CASE DrainCancel
  BY <1>4 DEF DrainCancel, ControlInv, CommittedIsNotSuperseded, TaskLive
<1>5. CASE Retry
  BY <1>5 DEF Retry, Attempt, ControlInv, CommittedIsNotSuperseded
<1>6. CASE Finish \/ GiveUp \/ Closed
  BY <1>6, ReleaseControl DEF Finish, GiveUp, Closed
<1> QED BY <1>1, <1>2, <1>3, <1>4, <1>5, <1>6 DEF Consume

LEMMA OtherControl ==
  ASSUME TypeOK, ControlInv,
         \/ Begin \/ Stream \/ Cancelled \/ Close
         \/ DrainDeadline \/ LatencyBudgetElapses \/ UNCHANGED vars
  PROVE  ControlInv'
<1>1. CASE Begin \/ Stream \/ Cancelled
  <2>1. /\ UNCHANGED <<pc, decision, cancelRequested, timedOut>>
        /\ task # "none" /\ task' # "none"
        /\ task' = "cancelled" => cancelRequested
    BY <1>1 DEF Begin, Stream, Delta, FinalAnswer, Fail, Cancelled, TaskLive,
                Progressing, taskVars
  <2> QED BY <2>1 DEF ControlInv, CommittedIsNotSuperseded
<1>2. CASE Close
  BY <1>2 DEF Close, ControlInv, CommittedIsNotSuperseded, TaskLive, NoDecision
<1>3. CASE DrainDeadline \/ LatencyBudgetElapses \/ UNCHANGED vars
  BY <1>3 DEF DrainDeadline, LatencyBudgetElapses, vars, taskVars, ControlInv,
              CommittedIsNotSuperseded
<1> QED BY <1>1, <1>2, <1>3

LEMMA ControlStep == TypeOK /\ ControlInv /\ [Next]_vars => ControlInv'
BY ProduceControl, ConsumeControl, OtherControl DEF Next

\* The control invariant holds in every reachable state; with it, a committed
\* request is cancelled only by the drain deadline or by the end of the session
\* (the scheduler's cancel paths).
THEOREM ControlCorrect == Spec => []ControlInv
<1>1. Init => ControlInv
  BY InitControl
<1>2. TypeOK /\ ControlInv /\ [Next]_vars => ControlInv'
  BY ControlStep
<1> QED BY <1>1, <1>2, TypeCorrect, PTL DEF Spec

\* A newer transcript event never cancels the translation of a committed span.
THEOREM CommittedRequestsSurvive == Spec => []CommittedIsNotSuperseded
<1>1. ControlInv => CommittedIsNotSuperseded
  BY DEF ControlInv
<1> QED BY <1>1, ControlCorrect, PTL

-----------------------------------------------------------------------------
\* The queue holds accepted spans in order, all of them newer than the span in
\* flight, and every accepted span that has not settled is in one of the two.
QueueInv ==
  /\ \A i, j \in DOMAIN stable : i < j => stable[i].rev < stable[j].rev
  /\ \A i \in DOMAIN stable : outcome[stable[i].rev] = "pending"
  /\ decision.committed =>
       /\ \A i \in DOMAIN stable : decision.rev < stable[i].rev
       /\ IF task = "ok" THEN outcome[decision.rev] \in Settled
                         ELSE outcome[decision.rev] = "pending"
  /\ \A r \in Revisions : r > rev => outcome[r] = "none"
  /\ \A r \in Revisions : outcome[r] = "pending" =>
       \/ pc = "cancelled"
       \/ decision.committed /\ decision.rev = r
       \/ \E i \in DOMAIN stable : stable[i].rev = r

OrderInv == QueueInv /\ SettledInOrder

\* Steps that leave the queue, the decision and the outcomes alone.
LEMMA OrderStutter ==
  ASSUME OrderInv, UNCHANGED <<stable, decision, rev, outcome>>,
         pc' = pc \/ pc' = "cancelled" \/ pc # "cancelled",
         (task = "ok") = (task' = "ok")
  PROVE  OrderInv'
BY DEF OrderInv, QueueInv, SettledInOrder, Settled

LEMMA InitOrder == Init => OrderInv
BY DEF Init, OrderInv, QueueInv, SettledInOrder, NoDecision

LEMMA QueuedRevisions ==
  ASSUME TypeOK
  PROVE  \A i \in DOMAIN stable : stable[i].rev \in Revisions
<1>1. \A i \in DOMAIN stable : stable[i] \in Event
  BY DEF TypeOK, QueueTypeOK
<1> QED BY <1>1 DEF Event

LEMMA SubmitCommittedOrder ==
  ASSUME TypeOK, OrderInv, NEW kind \in {"stable", "final"},
         NEW fresh \in BOOLEAN, SubmitCommitted(kind, fresh)
  PROVE  OrderInv'
<1> DEFINE event == [kind |-> kind, rev |-> rev', upto |-> units']
<1>1. /\ stable \in Seq(Event) /\ outcome \in [Revisions -> Settled \cup {"none", "pending"}]
      /\ rev \in 0..MaxRevision /\ rev' = rev + 1 /\ rev' \in Revisions
      /\ decision.committed => decision.rev \in Revisions
  BY DEF TypeOK, QueueTypeOK, ShownTypeOK, InputTypeOK, TaskTypeOK,
         SubmitCommitted, Revisions
<1>2. /\ stable' = Append(stable, event) /\ event.rev = rev'
      /\ outcome' = [outcome EXCEPT ![rev'] = "pending"]
      /\ UNCHANGED <<pc, decision, task>>
  BY DEF SubmitCommitted, Enqueued
<1>3. \A i \in DOMAIN stable : stable[i].rev \in Revisions /\ stable[i].rev <= rev
  <2>1. \A i \in DOMAIN stable : stable[i].rev \in Revisions
    BY QueuedRevisions
  <2>2. \A i \in DOMAIN stable : ~(stable[i].rev > rev)
    BY <2>1 DEF OrderInv, QueueInv
  <2> QED BY <1>1, <2>1, <2>2 DEF Revisions
<1>4. decision.committed => decision.rev <= rev
  BY <1>1 DEF OrderInv, QueueInv, Revisions, Settled
<1>5. /\ DOMAIN stable' = 1..(Len(stable) + 1) /\ DOMAIN stable = 1..Len(stable)
      /\ Len(stable) \in Nat
      /\ \A i \in DOMAIN stable : stable'[i] = stable[i]
      /\ stable'[Len(stable) + 1] = event
  <2> HIDE DEF event
  <2> QED BY <1>1, <1>2
<1> HIDE DEF event
<1>6. \A i \in DOMAIN stable' : i \in DOMAIN stable \/ i = Len(stable) + 1
  BY <1>5
<1>7. \A r \in Revisions : outcome'[r] = IF r = rev' THEN "pending" ELSE outcome[r]
  BY <1>1, <1>2
<1>8. \A i, j \in DOMAIN stable' : i < j => stable'[i].rev < stable'[j].rev
  BY <1>1, <1>2, <1>3, <1>5, <1>6 DEF OrderInv, QueueInv, Revisions
<1>9. \A i \in DOMAIN stable' : outcome'[stable'[i].rev] = "pending"
  BY <1>1, <1>2, <1>3, <1>5, <1>6, <1>7 DEF OrderInv, QueueInv
<1>10. decision'.committed =>
         /\ \A i \in DOMAIN stable' : decision'.rev < stable'[i].rev
         /\ IF task' = "ok" THEN outcome'[decision'.rev] \in Settled
                            ELSE outcome'[decision'.rev] = "pending"
  BY <1>1, <1>2, <1>4, <1>5, <1>6, <1>7 DEF OrderInv, QueueInv, Revisions
<1>11. \A r \in Revisions : r > rev' => outcome'[r] = "none"
  BY <1>1, <1>7 DEF OrderInv, QueueInv, Revisions
<1>12. \A r \in Revisions : outcome'[r] = "pending" =>
         \/ pc' = "cancelled"
         \/ decision'.committed /\ decision'.rev = r
         \/ \E i \in DOMAIN stable' : stable'[i].rev = r
  BY <1>2, <1>5, <1>7 DEF OrderInv, QueueInv
<1>13. SettledInOrder'
  BY <1>1, <1>7 DEF OrderInv, QueueInv, SettledInOrder, Settled, Revisions
<1> QED BY <1>8, <1>9, <1>10, <1>11, <1>12, <1>13 DEF OrderInv, QueueInv

\* What removing the head of the queue leaves.
LEMMA QueueTail ==
  ASSUME TypeOK, OrderInv, stable # <<>>
  PROVE  /\ Head(stable).rev \in Revisions
         /\ outcome[Head(stable).rev] = "pending"
         /\ \A i \in DOMAIN Tail(stable) : /\ Tail(stable)[i].rev \in Revisions
                                 /\ outcome[Tail(stable)[i].rev] = "pending"
                                 /\ Head(stable).rev < Tail(stable)[i].rev
         /\ \A i, j \in DOMAIN Tail(stable) : i < j => Tail(stable)[i].rev < Tail(stable)[j].rev
         /\ \A i \in DOMAIN stable :
              \/ stable[i].rev = Head(stable).rev
              \/ \E j \in DOMAIN Tail(stable) : Tail(stable)[j].rev = stable[i].rev
<1> DEFINE tl == Tail(stable)
<1>1. stable \in Seq(Event)
  BY DEF TypeOK, QueueTypeOK
<1>2. /\ Len(stable) \in Nat \ {0} /\ DOMAIN stable = 1..Len(stable)
      /\ Head(stable) = stable[1] /\ Len(tl) = Len(stable) - 1
      /\ DOMAIN tl = 1..(Len(stable) - 1)
      /\ \A i \in 1..(Len(stable) - 1) : tl[i] = stable[i + 1]
  BY <1>1
<1>3. \A i \in DOMAIN stable : stable[i].rev \in Revisions
  BY QueuedRevisions
<1>4. \A i \in DOMAIN stable : i = 1 \/ (i - 1 \in DOMAIN tl /\ (i - 1) + 1 = i)
  BY <1>2
<1>5. \A i \in DOMAIN stable :
        \/ stable[i].rev = Head(stable).rev
        \/ \E j \in DOMAIN tl : tl[j].rev = stable[i].rev
  BY <1>2, <1>4
<1>6. \A i \in DOMAIN tl : 1 \in DOMAIN stable /\ i + 1 \in DOMAIN stable /\ 1 < i + 1
  BY <1>2
<1>7. \A i \in DOMAIN tl : /\ tl[i].rev = stable[i + 1].rev
                           /\ 1 \in DOMAIN stable /\ i + 1 \in DOMAIN stable
  BY <1>2, <1>6
<1>8. \A i \in DOMAIN tl : /\ tl[i].rev \in Revisions
                           /\ outcome[tl[i].rev] = "pending"
                           /\ Head(stable).rev < tl[i].rev
  BY <1>2, <1>3, <1>6, <1>7 DEF OrderInv, QueueInv
<1>9. \A i, j \in DOMAIN tl : i < j => tl[i].rev < tl[j].rev
  <2>1. \A i, j \in DOMAIN tl : i < j => i + 1 < j + 1
    BY <1>2
  <2> QED BY <1>7, <2>1 DEF OrderInv, QueueInv
<1>10. Head(stable).rev \in Revisions /\ outcome[Head(stable).rev] = "pending"
  BY <1>2, <1>3 DEF OrderInv, QueueInv
<1> QED BY <1>5, <1>8, <1>9, <1>10

\* A span leaves the queue's head for a new decision, or settles at once.
LEMMA HeadOrder ==
  ASSUME TypeOK, ControlInv, OrderInv, pc = "ready", stable # <<>>,
         stable' = Tail(stable), UNCHANGED rev,
         \/ /\ pc' = "executing" /\ decision'.committed /\ task' = "created"
            /\ decision'.rev = Head(stable).rev /\ UNCHANGED outcome
         \/ /\ UNCHANGED <<pc, taskVars>>
            /\ \E o \in Settled : outcome' = [outcome EXCEPT ![Head(stable).rev] = o]
  PROVE  OrderInv'
<1> DEFINE h == Head(stable).rev
<1> DEFINE tl == Tail(stable)
<1>1. ~decision.committed /\ pc # "cancelled"
  BY DEF ControlInv, NoDecision
<1>2. /\ h \in Revisions /\ outcome[h] = "pending"
      /\ \A i \in DOMAIN tl : /\ tl[i].rev \in Revisions
                              /\ outcome[tl[i].rev] = "pending" /\ h < tl[i].rev
      /\ \A i, j \in DOMAIN tl : i < j => tl[i].rev < tl[j].rev
      /\ \A i \in DOMAIN stable :
           stable[i].rev = h \/ \E j \in DOMAIN tl : tl[j].rev = stable[i].rev
  BY QueueTail
<1>3. outcome \in [Revisions -> Settled \cup {"none", "pending"}]
  BY DEF TypeOK, ShownTypeOK
<1>4. \A r \in Revisions : outcome[r] = "pending" =>
        r = h \/ \E j \in DOMAIN tl : tl[j].rev = r
  BY <1>1, <1>2 DEF OrderInv, QueueInv
<1>5. \A r \in Revisions : r > rev => outcome[r] = "none"
  BY DEF OrderInv, QueueInv
<1> HIDE DEF h, tl
<1>6. CASE /\ pc' = "executing" /\ decision'.committed /\ task' = "created"
           /\ decision'.rev = h /\ UNCHANGED outcome
  BY <1>2, <1>4, <1>5, <1>6 DEF OrderInv, QueueInv, SettledInOrder, tl
<1>7. ASSUME NEW o \in Settled, outcome' = [outcome EXCEPT ![h] = o],
             UNCHANGED <<pc, taskVars>>
      PROVE  OrderInv'
  <2>1. \A r \in Revisions : outcome'[r] = IF r = h THEN o ELSE outcome[r]
    BY <1>3, <1>7
  <2>2. ~decision'.committed
    BY <1>1, <1>7 DEF taskVars
  <2>3. \A i \in DOMAIN tl : outcome'[tl[i].rev] = "pending"
    BY <1>2, <2>1 DEF Revisions
  <2>4. \A r \in Revisions : r > rev' => outcome'[r] = "none"
    BY <1>2, <1>5, <2>1
  <2>5. \A r \in Revisions : outcome'[r] = "pending" =>
          \E j \in DOMAIN tl : tl[j].rev = r
    BY <1>4, <2>1, <1>2
  <2>6. SettledInOrder'
    <3> SUFFICES ASSUME NEW r \in Revisions, NEW s \in Revisions, r < s,
                        outcome'[s] \in Settled, outcome'[r] = "pending"
                 PROVE  FALSE
      BY DEF SettledInOrder
    <3>1. PICK j \in DOMAIN tl : tl[j].rev = r
      BY <2>5
    <3>2. h < r /\ r # h /\ s # h
      BY <1>2, <3>1 DEF Revisions
    <3> QED BY <2>1, <3>2 DEF OrderInv, SettledInOrder
  <2> QED BY <1>2, <2>2, <2>3, <2>4, <2>5, <2>6 DEF OrderInv, QueueInv, tl
<1> QED BY <1>6, <1>7 DEF h

\* The span in flight settles: everything still pending is queued behind it.
LEMMA SettleOrder ==
  ASSUME TypeOK, OrderInv, decision.committed, task # "ok", pc # "cancelled",
         UNCHANGED <<stable, rev>>,
         NEW o \in Settled, outcome' = [outcome EXCEPT ![decision.rev] = o],
         \/ UNCHANGED decision /\ task' = "ok"
         \/ decision' = NoDecision
  PROVE  OrderInv'
<1>1. /\ outcome \in [Revisions -> Settled \cup {"none", "pending"}]
      /\ decision.rev \in Revisions
  BY DEF TypeOK, ShownTypeOK, TaskTypeOK
<1>2. \A r \in Revisions :
        outcome'[r] = IF r = decision.rev THEN o ELSE outcome[r]
  BY <1>1
<1>3. outcome[decision.rev] = "pending" /\ o # "pending" /\ o # "none"
  BY DEF OrderInv, QueueInv, Settled
<1>4. \A i \in DOMAIN stable : /\ stable[i].rev \in Revisions
                               /\ decision.rev < stable[i].rev
  BY QueuedRevisions DEF OrderInv, QueueInv
<1>5. \A i \in DOMAIN stable : outcome'[stable[i].rev] = "pending"
  BY <1>1, <1>2, <1>4 DEF OrderInv, QueueInv, Revisions
<1>6. decision'.committed => decision' = decision /\ task' = "ok"
  BY DEF NoDecision
<1>7. \A r \in Revisions : r > rev' => outcome'[r] = "none"
  BY <1>2, <1>3 DEF OrderInv, QueueInv
<1>8. \A r \in Revisions : outcome'[r] = "pending" =>
        \E i \in DOMAIN stable : stable[i].rev = r
  BY <1>2, <1>3 DEF OrderInv, QueueInv
<1>9. SettledInOrder'
  <2> SUFFICES ASSUME NEW r \in Revisions, NEW s \in Revisions, r < s,
                      outcome'[s] \in Settled, outcome'[r] = "pending"
               PROVE  FALSE
    BY DEF SettledInOrder
  <2>1. PICK i \in DOMAIN stable : stable[i].rev = r
    BY <1>8
  <2>2. decision.rev < r /\ r # decision.rev /\ s # decision.rev
    BY <1>1, <1>4, <2>1 DEF Revisions
  <2> QED BY <1>2, <2>2 DEF OrderInv, SettledInOrder
<1>10. decision'.committed =>
         /\ \A i \in DOMAIN stable : decision'.rev < stable[i].rev
         /\ IF task' = "ok" THEN outcome'[decision'.rev] \in Settled
                            ELSE outcome'[decision'.rev] = "pending"
  BY <1>1, <1>2, <1>4, <1>6
<1> QED BY <1>5, <1>7, <1>8, <1>9, <1>10 DEF OrderInv, QueueInv

\* A decision that is not waiting for an answer any more is released.
LEMMA ReleaseOrder ==
  ASSUME OrderInv, Release, UNCHANGED <<stable, rev, outcome>>,
         pc' = "cancelled" \/ (decision.committed => task = "ok"),
         pc # "cancelled"
  PROVE  OrderInv'
<1>1. ~decision'.committed
  BY DEF Release, NoDecision
<1>2. \A r \in Revisions : outcome[r] = "pending" =>
        pc' = "cancelled" \/ \E i \in DOMAIN stable : stable[i].rev = r
  BY DEF OrderInv, QueueInv, Settled
<1> QED BY <1>1, <1>2 DEF OrderInv, QueueInv, SettledInOrder

LEMMA ProduceOrder == TypeOK /\ OrderInv /\ Produce => OrderInv'
<1> SUFFICES ASSUME TypeOK, OrderInv, Produce PROVE OrderInv'
  OBVIOUS
<1>1. CASE \E text \in Texts \cup {NoText}, superseded \in BOOLEAN :
             SubmitPartial(text, superseded)
  <2>1. /\ UNCHANGED <<stable, decision, outcome, pc, task>>
        /\ rev' = rev + 1 /\ rev \in 0..MaxRevision
    BY <1>1 DEF SubmitPartial, shownVars, TypeOK, InputTypeOK
  <2>2. \A r \in Revisions : r > rev' => r > rev
    BY <2>1 DEF Revisions
  <2> QED BY <2>1, <2>2 DEF OrderInv, QueueInv, SettledInOrder
<1>2. CASE EndOfInput
  BY <1>2, OrderStutter DEF EndOfInput, shownVars
<1>3. CASE \E kind \in {"stable", "final"}, fresh \in BOOLEAN :
             SubmitCommitted(kind, fresh)
  BY <1>3, SubmitCommittedOrder
<1> QED BY <1>1, <1>2, <1>3 DEF Produce

LEMMA TranslateUnitOrder ==
  TypeOK /\ ControlInv /\ OrderInv /\ TranslateUnit => OrderInv'
<1> SUFFICES ASSUME TypeOK, ControlInv, OrderInv, TranslateUnit PROVE OrderInv'
  OBVIOUS
<1> DEFINE d == [rev |-> Head(stable).rev, committed |-> TRUE, text |-> NoText]
<1>1. /\ pc = "ready" /\ stable # <<>> /\ stable' = Tail(stable)
      /\ UNCHANGED rev /\ Execute(d)
  BY DEF TranslateUnit, inputVars
<1>2. d.committed /\ d.rev = Head(stable).rev
  OBVIOUS
<1> HIDE DEF d
<1>3. CASE Attempt(d, 1)
  BY <1>1, <1>2, <1>3, HeadOrder DEF Attempt
<1>4. CASE Abandon(d) /\ UNCHANGED <<pc, taskVars>>
  <2>1. outcome' = [outcome EXCEPT ![Head(stable).rev] = "abandoned"]
    BY <1>2, <1>4 DEF Abandon
  <2>2. "abandoned" \in Settled
    OBVIOUS
  <2> QED BY <1>1, <1>4, <2>1, <2>2, HeadOrder
<1> QED BY <1>1, <1>3, <1>4 DEF Execute

LEMMA TranslatePartialOrder ==
  TypeOK /\ ControlInv /\ OrderInv /\ TranslatePartial => OrderInv'
<1> SUFFICES ASSUME TypeOK, ControlInv, OrderInv, TranslatePartial
             PROVE  OrderInv'
  OBVIOUS
<1> DEFINE d == [rev |-> partial.rev, committed |-> FALSE, text |-> partial.text]
<1>1. ~decision.committed /\ pc = "ready"
  BY DEF ControlInv, TranslatePartial, NoDecision
<1>2. Execute(d) /\ ~d.committed /\ UNCHANGED <<stable, rev>>
  BY DEF TranslatePartial, inputVars
<1> HIDE DEF d
<1>3. ~decision'.committed /\ UNCHANGED outcome /\ pc' # "cancelled"
  BY <1>1, <1>2 DEF Execute, Attempt, Abandon, taskVars
<1> QED BY <1>1, <1>2, <1>3 DEF OrderInv, QueueInv, SettledInOrder

LEMMA ConsumeOrder ==
  TypeOK /\ ControlInv /\ OrderInv /\ Consume => OrderInv'
<1> SUFFICES ASSUME TypeOK, ControlInv, OrderInv, Consume PROVE OrderInv'
  OBVIOUS
<1>1. CASE TranslateUnit
  BY <1>1, TranslateUnitOrder
<1>2. CASE SkipUnit
  <2>1. "skipped" \in Settled
    OBVIOUS
  <2> QED BY <1>2, <2>1, HeadOrder DEF SkipUnit, inputVars
<1>3. CASE TranslatePartial
  BY <1>3, TranslatePartialOrder
<1>4. CASE KeepPartial \/ Idle \/ Return \/ Awaken \/ DrainCancel
  <2>1. UNCHANGED <<stable, decision, rev, outcome, task>>
    BY <1>4 DEF KeepPartial, Idle, Return, Awaken, DrainCancel, inputVars,
                queueVars, taskVars, shownVars
  <2>2. pc # "cancelled"
    BY <1>4 DEF KeepPartial, Idle, Return, Awaken, DrainCancel
  <2> QED BY <2>1, <2>2, OrderStutter
<1>5. CASE Finish
  <2>1. decision.committed => task = "ok"
    BY <1>5 DEF Finish, ControlInv, CommittedIsNotSuperseded
  <2> QED BY <1>5, <2>1, ReleaseOrder DEF Finish, inputVars, queueVars, shownVars
<1>6. CASE Retry
  <2>1. /\ UNCHANGED <<stable, decision, rev, outcome>>
        /\ task # "ok" /\ task' # "ok" /\ pc # "cancelled"
    BY <1>6 DEF Retry, CanRetry, Attempt, inputVars, queueVars
  <2> QED BY <2>1, OrderStutter
<1>7. CASE GiveUp
  <2>1. /\ task # "ok" /\ pc # "cancelled" /\ UNCHANGED <<stable, rev>>
        /\ Abandon(decision) /\ Release
    BY <1>7 DEF GiveUp, inputVars, queueVars
  <2>2. CASE decision.committed
    <3>1. /\ outcome' = [outcome EXCEPT ![decision.rev] = "abandoned"]
          /\ "abandoned" \in Settled
      BY <2>1, <2>2 DEF Abandon
    <3> QED BY <2>1, <2>2, <3>1, SettleOrder DEF Release
  <2>3. CASE ~decision.committed
    BY <2>1, <2>3, ReleaseOrder DEF Abandon
  <2> QED BY <2>2, <2>3
<1>8. CASE Closed
  BY <1>8, ReleaseOrder DEF Closed, inputVars, queueVars, shownVars
<1> QED BY <1>1, <1>2, <1>3, <1>4, <1>5, <1>6, <1>7, <1>8 DEF Consume

LEMMA FinalAnswerOrder ==
  ASSUME TypeOK, ControlInv, OrderInv, NEW answer \in Answers,
         FinalAnswer(answer)
  PROVE  OrderInv'
<1>1. /\ task = "running" /\ task' = "ok" /\ pc # "cancelled"
      /\ UNCHANGED <<stable, rev, decision, pc>>
  BY DEF FinalAnswer, Progressing, ControlInv, inputVars, queueVars
<1>2. CASE decision.committed
  <2>1. PICK o \in Settled : outcome' = [outcome EXCEPT ![decision.rev] = o]
    BY <1>2 DEF FinalAnswer, Commit, NothingToCommit
  <2> QED BY <1>1, <1>2, <2>1, SettleOrder
<1>3. CASE ~decision.committed
  <2>1. UNCHANGED outcome
    BY <1>3 DEF FinalAnswer
  <2> QED BY <1>1, <1>3, <2>1 DEF OrderInv, QueueInv, SettledInOrder
<1> QED BY <1>2, <1>3

LEMMA OtherOrder ==
  ASSUME TypeOK, ControlInv, OrderInv,
         \/ Begin \/ Stream \/ Cancelled \/ Close
         \/ DrainDeadline \/ LatencyBudgetElapses \/ UNCHANGED vars
  PROVE  OrderInv'
<1>1. CASE Begin \/ Cancelled \/ Close \/ Delta
  <2>1. UNCHANGED <<stable, decision, rev, outcome>>
    BY <1>1 DEF Begin, Cancelled, Close, Delta, inputVars, queueVars, taskVars,
                shownVars
  <2>2. /\ pc' = pc \/ pc' = "cancelled" \/ pc # "cancelled"
        /\ (task = "ok") = (task' = "ok")
    BY <1>1 DEF Begin, Cancelled, Close, Delta, TaskLive, Progressing, taskVars
  <2> QED BY <2>1, <2>2, OrderStutter
<1>2. CASE \E answer \in Answers : FinalAnswer(answer)
  BY <1>2, FinalAnswerOrder
<1>3. CASE \E reported \in BOOLEAN : Fail(reported)
  BY <1>3, OrderStutter DEF Fail, Progressing, inputVars, queueVars
<1>4. CASE DrainDeadline \/ LatencyBudgetElapses \/ UNCHANGED vars
  BY <1>4, OrderStutter DEF DrainDeadline, LatencyBudgetElapses, vars, taskVars,
                            inputVars, queueVars, shownVars
<1> QED BY <1>1, <1>2, <1>3, <1>4 DEF Stream

\* The order invariant of the scheduler's queue and the span in flight.
THEOREM OrderCorrect == Spec => []OrderInv
<1>1. Init => OrderInv
  BY InitOrder
<1>2. TypeOK /\ ControlInv /\ OrderInv /\ [Next]_vars => OrderInv'
  BY ProduceOrder, ConsumeOrder, OtherOrder DEF Next
<1> QED BY <1>1, <1>2, TypeCorrect, ControlCorrect, PTL DEF Spec

\* Committed spans settle in the order in which they were accepted, whatever
\* fails, is retried, is cancelled or runs out of time.
THEOREM SpansSettleInOrder == Spec => []SettledInOrder
<1>1. OrderInv => SettledInOrder
  BY DEF OrderInv
<1> QED BY <1>1, OrderCorrect, PTL


----------------------------------------------------------------------------
(* The effects of a step.                                                  *)

\* The span in flight has not settled.
Unsettled == decision.committed /\ outcome[decision.rev] = "pending"

\* No span changes its state; the row of the one in flight may.
Quiet ==
  /\ UNCHANGED <<outcome, committedText, context>>
  /\ \/ row' = row
     \/ Unsettled /\ \E kind \in {"partial", "error"} : row' = [row EXCEPT ![decision.rev] = kind]
  /\ stable' = stable \/ (stable # <<>> /\ stable' = Tail(stable))

Accepts ==
  /\ \E event \in Event : /\ event.rev = rev + 1 /\ stable' = Append(stable, event)
                          /\ outcome' = [outcome EXCEPT ![event.rev] = "pending"]
  /\ UNCHANGED <<committedText, context, row>>

\* A span settles without a translation: the head of the queue, or the one in flight.
DropsHead ==
  /\ stable # <<>> /\ stable' = Tail(stable) /\ UNCHANGED <<committedText, context>>
  /\ \/ outcome' = [outcome EXCEPT ![Head(stable).rev] = "skipped"] /\ row' = row
     \/ /\ outcome' = [outcome EXCEPT ![Head(stable).rev] = "abandoned"]
        /\ row' = [row EXCEPT ![Head(stable).rev] = "error"]

DropsFlight ==
  /\ Unsettled /\ UNCHANGED <<stable, committedText, context>>
  /\ \E end \in {<<"abandoned", "error">>, <<"empty", "stable">>} :
       /\ outcome' = [outcome EXCEPT ![decision.rev] = end[1]]
       /\ row' = [row EXCEPT ![decision.rev] = end[2]]

Commits ==
  /\ Unsettled /\ UNCHANGED stable
  /\ outcome' = [outcome EXCEPT ![decision.rev] = "committed"]
  /\ row' = [row EXCEPT ![decision.rev] = "final"]
  /\ committedText' = Append(committedText, decision.rev)
  /\ UNCHANGED context \/ AddContext(decision.rev)

Effect == Quiet \/ Accepts \/ DropsHead \/ DropsFlight \/ Commits

\* What runs with committed source has not settled.
LEMMA RunningIsUnsettled ==
  ASSUME OrderInv, decision.committed, task # "ok"
  PROVE  Unsettled
BY DEF OrderInv, QueueInv, Unsettled

\* Accepting a committed event accepts its span; nothing else of the producer touches a span.
LEMMA ProduceEffect == ASSUME TypeOK, Produce PROVE Effect
<1>1. CASE \E kind \in {"stable", "final"}, fresh \in BOOLEAN : SubmitCommitted(kind, fresh)
  <2>1. PICK kind \in {"stable", "final"}, fresh \in BOOLEAN : SubmitCommitted(kind, fresh)
    BY <1>1
  <2> DEFINE event == [kind |-> kind, rev |-> rev', upto |-> units']
  <2>2. rev \in 0..MaxRevision /\ units \in 0..rev /\ rev' = rev + 1 /\ rev < MaxRevision
        /\ units' = IF fresh THEN units + 1 ELSE units
    BY <2>1 DEF TypeOK, InputTypeOK, SubmitCommitted
  <2>3. event \in Event /\ event.rev = rev + 1
    BY <2>2, ConstantsAssumption DEF Event, Revisions
  <2>4. stable' = Append(stable, event) /\ outcome' = [outcome EXCEPT ![rev'] = "pending"]
        /\ UNCHANGED <<committedText, context, row>>
    BY <2>1 DEF SubmitCommitted, Enqueued, targetVars
  <2> HIDE DEF event
  <2> QED BY <2>2, <2>3, <2>4 DEF Effect, Accepts
<1>2. CASE \E text \in Texts \cup {NoText}, superseded \in BOOLEAN : SubmitPartial(text, superseded)
  BY <1>2 DEF SubmitPartial, targetVars, shownVars, Effect, Quiet
<1>3. CASE EndOfInput
  BY <1>3 DEF EndOfInput, targetVars, shownVars, Effect, Quiet
<1> QED BY <1>1, <1>2, <1>3 DEF Produce

\* The consumer drops the head of the queue or the span in flight, or leaves all spans alone.
LEMMA ConsumeEffect == ASSUME TypeOK, ControlInv, OrderInv, Consume PROVE Effect
<1>1. CASE TranslateUnit
  <2> DEFINE d == [rev |-> Head(stable).rev, committed |-> TRUE, text |-> NoText]
  <2>1. /\ stable # <<>> /\ stable' = Tail(stable) /\ Execute(d)
        /\ UNCHANGED <<committedText, context>> /\ d.committed /\ d.rev = Head(stable).rev
    BY <1>1 DEF TranslateUnit
  <2> HIDE DEF d
  <2>2. CASE Attempt(d, 1)
    BY <2>1, <2>2 DEF Attempt, Effect, Quiet
  <2>3. CASE Abandon(d)
    BY <2>1, <2>3 DEF Abandon, Effect, DropsHead
  <2> QED BY <2>1, <2>2, <2>3 DEF Execute
<1>2. CASE SkipUnit
  BY <1>2 DEF SkipUnit, targetVars, Effect, DropsHead
<1>3. CASE TranslatePartial
  <2> DEFINE d == [rev |-> partial.rev, committed |-> FALSE, text |-> partial.text]
  <2>1. Execute(d) /\ ~d.committed /\ UNCHANGED <<stable, committedText, context>>
    BY <1>3 DEF TranslatePartial
  <2> HIDE DEF d
  <2> QED BY <2>1 DEF Execute, Attempt, Abandon, Effect, Quiet
<1>4. CASE KeepPartial \/ Idle \/ Return \/ Awaken \/ DrainCancel \/ Finish \/ Closed
  BY <1>4 DEF KeepPartial, Idle, Return, Awaken, DrainCancel, Finish, Closed, queueVars, targetVars, shownVars,
              Effect, Quiet
<1>5. CASE Retry
  BY <1>5 DEF Retry, Attempt, queueVars, Effect, Quiet
<1>6. CASE GiveUp
  <2>1. Abandon(decision) /\ UNCHANGED <<stable, committedText, context>> /\ task # "ok"
    BY <1>6 DEF GiveUp, queueVars
  <2>2. CASE decision.committed
    <3>1. /\ Unsettled /\ outcome' = [outcome EXCEPT ![decision.rev] = "abandoned"]
          /\ row' = [row EXCEPT ![decision.rev] = "error"]
      BY <2>1, <2>2, RunningIsUnsettled DEF Abandon
    <3> QED BY <2>1, <3>1 DEF Effect, DropsFlight
  <2>3. CASE ~decision.committed
    BY <2>1, <2>3 DEF Abandon, Effect, Quiet
  <2> QED BY <2>2, <2>3
<1> QED BY <1>1, <1>2, <1>3, <1>4, <1>5, <1>6 DEF Consume

\* An answer settles the span in flight; a delta or a failure leaves it pending.
LEMMA StreamEffect == ASSUME TypeOK, OrderInv, Stream PROVE Effect
<1>1. task = "running" /\ UNCHANGED stable
  BY DEF Stream, Delta, FinalAnswer, Fail, Progressing, queueVars
<1>2. decision.committed => Unsettled
  BY <1>1, RunningIsUnsettled
<1>3. CASE Delta
  BY <1>1, <1>2, <1>3 DEF Delta, Show, Effect, Quiet
<1>4. CASE \E reported \in BOOLEAN : Fail(reported)
  BY <1>1, <1>2, <1>4 DEF Fail, Effect, Quiet
<1>5. ASSUME NEW answer \in Answers, FinalAnswer(answer) PROVE Effect
  <2>1. CASE ~decision.committed
    BY <1>1, <1>5, <2>1 DEF FinalAnswer, Effect, Quiet
  <2>2. CASE decision.committed /\ Commit(answer)
    BY <1>1, <1>2, <2>2 DEF Commit, Effect, Commits
  <2>3. CASE decision.committed /\ NothingToCommit
    BY <1>1, <1>2, <2>3 DEF NothingToCommit, Effect, DropsFlight
  <2> QED BY <1>5, <2>1, <2>2, <2>3 DEF FinalAnswer
<1> QED BY <1>3, <1>4, <1>5 DEF Stream

\* Every step has one of the five effects.
LEMMA StepEffect == ASSUME TypeOK, ControlInv, OrderInv, [Next]_vars PROVE Effect
<1>1. CASE Begin \/ Cancelled \/ Close \/ DrainDeadline \/ LatencyBudgetElapses \/ UNCHANGED vars
  BY <1>1 DEF Begin, Cancelled, Close, DrainDeadline, LatencyBudgetElapses, vars, queueVars, targetVars, shownVars,
              Effect, Quiet
<1> QED BY <1>1, ProduceEffect, ConsumeEffect, StreamEffect DEF Next

----------------------------------------------------------------------------
(* What an effect does to the outcomes: one span at most changes its       *)
(* outcome, and it had not settled.                                        *)

Leaves(r, o) ==
  /\ r \in Revisions /\ outcome[r] \in {"none", "pending"}
  /\ outcome' = [outcome EXCEPT ![r] = o]
  /\ \A s \in Revisions : outcome'[s] = IF s = r THEN o ELSE outcome[s]

\* The unsettled span in flight is a pending revision.
LEMMA FlightIsPending == ASSUME TypeOK, Unsettled PROVE decision.rev \in Revisions /\ outcome[decision.rev] = "pending"
BY DEF TypeOK, TaskTypeOK, Unsettled

\* Which span leaves which state, for each effect.
LEMMA EffectLeaves ==
  ASSUME TypeOK, OrderInv
  PROVE  /\ Accepts => \E event \in Event : /\ event.rev = rev + 1 /\ stable' = Append(stable, event)
                                            /\ outcome[event.rev] = "none" /\ Leaves(event.rev, "pending")
         /\ DropsHead => /\ outcome[Head(stable).rev] = "pending"
                         /\ \E o \in {"skipped", "abandoned"} : Leaves(Head(stable).rev, o)
         /\ DropsFlight => /\ outcome[decision.rev] = "pending"
                           /\ \E o \in {"empty", "abandoned"} : Leaves(decision.rev, o)
         /\ Commits => outcome[decision.rev] = "pending" /\ Leaves(decision.rev, "committed")
<1>1. outcome \in [Revisions -> Settled \cup {"none", "pending"}]
  BY DEF TypeOK, ShownTypeOK
<1>2. \A r \in Revisions : \A o :
        outcome' = [outcome EXCEPT ![r] = o] /\ outcome[r] \in {"none", "pending"} => Leaves(r, o)
  <2> SUFFICES ASSUME NEW r \in Revisions, NEW o, outcome' = [outcome EXCEPT ![r] = o],
                      outcome[r] \in {"none", "pending"}
               PROVE  Leaves(r, o)
    OBVIOUS
  <2>1. \A s \in Revisions : outcome'[s] = IF s = r THEN o ELSE outcome[s]
    BY <1>1
  <2> QED BY <2>1 DEF Leaves
<1>3. ASSUME Accepts
      PROVE  \E event \in Event : /\ event.rev = rev + 1 /\ stable' = Append(stable, event)
                                  /\ outcome[event.rev] = "none" /\ Leaves(event.rev, "pending")
  <2>1. PICK event \in Event : /\ event.rev = rev + 1 /\ stable' = Append(stable, event)
                               /\ outcome' = [outcome EXCEPT ![event.rev] = "pending"]
    BY <1>3 DEF Accepts
  <2>2. event.rev \in Revisions /\ event.rev > rev
    BY <2>1 DEF Event, TypeOK, InputTypeOK
  <2>3. outcome[event.rev] = "none"
    BY <2>2 DEF OrderInv, QueueInv
  <2>4. Leaves(event.rev, "pending")
    BY <1>2, <2>1, <2>2, <2>3
  <2> QED BY <2>1, <2>3, <2>4
<1>4. ASSUME DropsHead
      PROVE  /\ outcome[Head(stable).rev] = "pending"
             /\ \E o \in {"skipped", "abandoned"} : Leaves(Head(stable).rev, o)
  <2>1. Head(stable).rev \in Revisions /\ outcome[Head(stable).rev] = "pending"
    BY <1>4, QueueTail DEF DropsHead
  <2>2. PICK o \in {"skipped", "abandoned"} : outcome' = [outcome EXCEPT ![Head(stable).rev] = o]
    BY <1>4 DEF DropsHead
  <2>3. Leaves(Head(stable).rev, o)
    BY <1>2, <2>1, <2>2
  <2> QED BY <2>1, <2>3
<1>5. ASSUME DropsFlight
      PROVE  /\ outcome[decision.rev] = "pending"
             /\ \E o \in {"empty", "abandoned"} : Leaves(decision.rev, o)
  <2>1. decision.rev \in Revisions /\ outcome[decision.rev] = "pending"
    BY <1>5, FlightIsPending DEF DropsFlight
  <2>2. PICK o \in {"empty", "abandoned"} : outcome' = [outcome EXCEPT ![decision.rev] = o]
    <3>1. \A end \in {<<"abandoned", "error">>, <<"empty", "stable">>} : end[1] \in {"empty", "abandoned"}
      OBVIOUS
    <3> QED BY <1>5, <3>1 DEF DropsFlight
  <2>3. Leaves(decision.rev, o)
    BY <1>2, <2>1, <2>2
  <2> QED BY <2>1, <2>3
<1>6. ASSUME Commits
      PROVE  outcome[decision.rev] = "pending" /\ Leaves(decision.rev, "committed")
  BY <1>2, <1>6, FlightIsPending DEF Commits
<1> QED BY <1>3, <1>4, <1>5, <1>6

\* Without a commit one span at most gets an outcome, and it had not settled.
LEMMA OneLeaves ==
  ASSUME TypeOK, OrderInv, Accepts \/ DropsHead \/ DropsFlight
  PROVE  \E r \in Revisions, o \in {"pending", "skipped", "abandoned", "empty"} : Leaves(r, o)
<1>1. CASE Accepts
  <2>1. PICK event \in Event : Leaves(event.rev, "pending")
    BY <1>1, EffectLeaves
  <2> QED BY <2>1 DEF Leaves
<1>2. CASE DropsHead
  <2>1. PICK o \in {"skipped", "abandoned"} : Leaves(Head(stable).rev, o)
    BY <1>2, EffectLeaves
  <2>2. Head(stable).rev \in Revisions /\ o \in {"pending", "skipped", "abandoned", "empty"}
    BY <2>1 DEF Leaves
  <2> QED BY <2>1, <2>2
<1>3. CASE DropsFlight
  <2>1. PICK o \in {"empty", "abandoned"} : Leaves(decision.rev, o)
    BY <1>3, EffectLeaves
  <2>2. decision.rev \in Revisions /\ o \in {"pending", "skipped", "abandoned", "empty"}
    BY <2>1 DEF Leaves
  <2> QED BY <2>1, <2>2
<1> QED BY <1>1, <1>2, <1>3

----------------------------------------------------------------------------
(* The target text.                                                        *)

\* What is committed is older than whatever is still pending.
LEMMA CommittedAreOlder ==
  ASSUME TypeOK, OrderInv, TargetMatchesOutcomes, NEW r \in Revisions, outcome[r] = "pending"
  PROVE  \A i \in DOMAIN committedText : committedText[i] \in Revisions /\ committedText[i] < r
<1> SUFFICES ASSUME NEW i \in DOMAIN committedText PROVE committedText[i] \in Revisions /\ committedText[i] < r
  OBVIOUS
<1>1. committedText[i] \in Revisions
  BY DEF TypeOK, TargetTypeOK
<1>2. outcome[committedText[i]] = "committed"
  BY <1>1 DEF TargetMatchesOutcomes
<1>3. ~(r < committedText[i]) /\ r # committedText[i]
  BY <1>1, <1>2 DEF OrderInv, SettledInOrder, Settled
<1> QED BY <1>1, <1>3 DEF Revisions

\* The target text follows the outcomes.
LEMMA TargetStep ==
  ASSUME TypeOK, OrderInv, TargetMatchesOutcomes, Effect
  PROVE  TargetMatchesOutcomes'
<1>1. CASE Quiet
  BY <1>1 DEF Quiet, TargetMatchesOutcomes
<1>2. ASSUME NEW r \in Revisions, NEW o, o # "committed", Leaves(r, o), UNCHANGED committedText
      PROVE  TargetMatchesOutcomes'
  BY <1>2 DEF Leaves, TargetMatchesOutcomes
<1>3. CASE Accepts \/ DropsHead \/ DropsFlight
  <2>1. PICK r \in Revisions, o \in {"pending", "skipped", "abandoned", "empty"} : Leaves(r, o)
    BY <1>3, OneLeaves
  <2>2. UNCHANGED committedText
    BY <1>3 DEF Accepts, DropsHead, DropsFlight
  <2> QED BY <1>2, <2>1, <2>2
<1>4. CASE Commits
  <2>1. /\ decision.rev \in Revisions /\ outcome[decision.rev] = "pending"
        /\ Leaves(decision.rev, "committed") /\ committedText' = Append(committedText, decision.rev)
    BY <1>4, EffectLeaves, FlightIsPending DEF Commits
  <2>2. committedText \in Seq(Revisions)
    BY DEF TypeOK, TargetTypeOK
  <2> DEFINE n == Len(committedText)
  <2>3. /\ n \in Nat /\ DOMAIN committedText = 1..n /\ DOMAIN committedText' = 1..(n + 1)
        /\ \A i \in 1..n : committedText'[i] = committedText[i]
        /\ committedText'[n + 1] = decision.rev
    BY <2>1, <2>2
  <2>4. \A i \in 1..n : committedText[i] < decision.rev
    BY <2>1, <2>3, CommittedAreOlder
  <2> HIDE DEF n
  <2>5. \A i, j \in 1..(n + 1) : i < j => committedText'[i] < committedText'[j]
    <3> SUFFICES ASSUME NEW i \in 1..(n + 1), NEW j \in 1..(n + 1), i < j
                 PROVE  committedText'[i] < committedText'[j]
      OBVIOUS
    <3>1. i \in 1..n /\ committedText'[i] = committedText[i]
      BY <2>3
    <3>2. CASE j = n + 1
      BY <2>3, <2>4, <3>1, <3>2
    <3>3. CASE j \in 1..n
      BY <2>3, <3>1, <3>3 DEF TargetMatchesOutcomes
    <3> QED BY <2>3, <3>2, <3>3
  <2>6. \A r \in Revisions : outcome'[r] = "committed" <=> \E i \in 1..(n + 1) : committedText'[i] = r
    <3> SUFFICES ASSUME NEW r \in Revisions
                 PROVE  outcome'[r] = "committed" <=> \E i \in 1..(n + 1) : committedText'[i] = r
      OBVIOUS
    <3>1. outcome[r] = "committed" <=> \E i \in 1..n : committedText[i] = r
      BY <2>3 DEF TargetMatchesOutcomes
    <3>2. (\E i \in 1..(n + 1) : committedText'[i] = r) <=> (r = decision.rev \/ \E i \in 1..n : committedText[i] = r)
      <4>1. n + 1 \in 1..(n + 1) /\ 1..n \subseteq 1..(n + 1) /\ \A i \in 1..(n + 1) : i \in 1..n \/ i = n + 1
        BY <2>3
      <4> QED BY <2>3, <4>1
    <3> QED BY <2>1, <3>1, <3>2 DEF Leaves
  <2> QED BY <2>3, <2>5, <2>6 DEF TargetMatchesOutcomes
<1> QED BY <1>1, <1>3, <1>4 DEF Effect

----------------------------------------------------------------------------
(* The rows.  A queued span has no row yet, so what skips it leaves none.  *)

QueuedRows == \A i \in DOMAIN stable : row[stable[i].rev] = "none"
RowInv == RowTellsOutcome /\ QueuedRows

\* The span in flight is not in the queue.
LEMMA FlightIsNotQueued ==
  ASSUME TypeOK, OrderInv, Unsettled
  PROVE  \A i \in DOMAIN stable : stable[i].rev \in Revisions /\ stable[i].rev # decision.rev
<1>1. \A i \in DOMAIN stable : stable[i].rev \in Revisions /\ decision.rev < stable[i].rev
  BY QueuedRevisions DEF Unsettled, OrderInv, QueueInv
<1> QED BY <1>1, FlightIsPending DEF Revisions

\* Rows change only outside the queue, so those of the queue and of its tail stay empty.
LEMMA QueuedRowsStep ==
  ASSUME TypeOK, OrderInv, QueuedRows, NEW r \in Revisions,
         row' = row \/ \E kind : row' = [row EXCEPT ![r] = kind],
         \/ stable' = stable /\ \A i \in DOMAIN stable : stable[i].rev # r
         \/ stable # <<>> /\ stable' = Tail(stable) /\ \A i \in DOMAIN Tail(stable) : Tail(stable)[i].rev # r
  PROVE  QueuedRows'
<1>1. row \in [Revisions -> {"none", "partial", "stable", "final", "error"}] /\ stable \in Seq(Event)
  BY DEF TypeOK, ShownTypeOK, QueueTypeOK
<1>2. \A s \in Revisions : s # r => row'[s] = row[s]
  BY <1>1
<1>3. \A i \in DOMAIN stable : stable[i].rev \in Revisions
  BY QueuedRevisions
<1>4. CASE stable' = stable /\ \A i \in DOMAIN stable : stable[i].rev # r
  BY <1>2, <1>3, <1>4 DEF QueuedRows
<1>5. CASE stable # <<>> /\ stable' = Tail(stable) /\ \A i \in DOMAIN Tail(stable) : Tail(stable)[i].rev # r
  <2>1. \A i \in DOMAIN Tail(stable) : i + 1 \in DOMAIN stable /\ Tail(stable)[i] = stable[i + 1]
    BY <1>1, <1>5
  <2> QED BY <1>2, <1>3, <1>5, <2>1 DEF QueuedRows
<1> QED BY <1>4, <1>5

\* The rows follow the outcomes.
LEMMA RowStep == ASSUME TypeOK, OrderInv, RowInv, Effect PROVE RowInv'
<1>1. row \in [Revisions -> {"none", "partial", "stable", "final", "error"}] /\ stable \in Seq(Event)
  BY DEF TypeOK, ShownTypeOK, QueueTypeOK
<1>2. \A i \in DOMAIN Tail(stable) : stable # <<>> => \E j \in DOMAIN stable : Tail(stable)[i] = stable[j]
  <2>1. stable # <<>> => \A i \in DOMAIN Tail(stable) : i + 1 \in DOMAIN stable /\ Tail(stable)[i] = stable[i + 1]
    BY <1>1
  <2> QED BY <2>1
<1>3. CASE Quiet
  <2>1. CASE row' = row
    <3>1. RowTellsOutcome'
      BY <1>3, <2>1 DEF Quiet, RowInv, RowTellsOutcome
    <3>2. QueuedRows'
      BY <1>2, <1>3, <2>1 DEF Quiet, RowInv, QueuedRows
    <3> QED BY <3>1, <3>2 DEF RowInv
  <2>2. CASE Unsettled /\ \E kind \in {"partial", "error"} : row' = [row EXCEPT ![decision.rev] = kind]
    <3>1. decision.rev \in Revisions /\ outcome[decision.rev] = "pending"
      BY <2>2, FlightIsPending
    <3>2. \A i \in DOMAIN stable : stable[i].rev # decision.rev
      BY <2>2, FlightIsNotQueued
    <3>3. stable # <<>> => \A i \in DOMAIN Tail(stable) : Tail(stable)[i].rev # decision.rev
      BY <1>2, <3>2
    <3>4. QueuedRows'
      BY <1>3, <2>2, <3>1, <3>2, <3>3, QueuedRowsStep DEF Quiet, RowInv
    <3>5. /\ UNCHANGED outcome /\ row'[decision.rev] \notin {"none", "final"}
          /\ \A s \in Revisions : s # decision.rev => row'[s] = row[s]
      BY <1>1, <1>3, <2>2, <3>1 DEF Quiet
    <3>6. RowTellsOutcome'
      BY <3>1, <3>5 DEF RowInv, RowTellsOutcome
    <3> QED BY <3>4, <3>6 DEF RowInv
  <2> QED BY <1>3, <2>1, <2>2 DEF Quiet
<1>4. CASE Accepts
  <2>1. PICK event \in Event : /\ event.rev = rev + 1 /\ stable' = Append(stable, event)
                               /\ outcome[event.rev] = "none" /\ Leaves(event.rev, "pending")
    BY <1>4, EffectLeaves
  <2>2. event.rev \in Revisions /\ row[event.rev] = "none" /\ row' = row
    BY <1>4, <2>1 DEF Accepts, Leaves, RowInv, RowTellsOutcome
  <2>3. QueuedRows'
    <3>1. \A i \in DOMAIN stable' : (i \in DOMAIN stable /\ stable'[i] = stable[i]) \/ stable'[i] = event
      BY <1>1, <2>1
    <3> QED BY <2>2, <3>1 DEF RowInv, QueuedRows
  <2>4. RowTellsOutcome'
    BY <2>1, <2>2 DEF Leaves, RowInv, RowTellsOutcome
  <2> QED BY <2>3, <2>4 DEF RowInv
<1>5. CASE DropsHead
  <2> DEFINE h == Head(stable).rev
  <2>1. /\ h \in Revisions /\ outcome[h] = "pending"
        /\ \A i \in DOMAIN Tail(stable) : Tail(stable)[i].rev \in Revisions /\ h < Tail(stable)[i].rev
    BY <1>5, QueueTail DEF DropsHead
  <2>2. row[h] = "none"
    BY <1>1, <1>5 DEF DropsHead, RowInv, QueuedRows
  <2>3. QueuedRows'
    <3>1. \A i \in DOMAIN Tail(stable) : Tail(stable)[i].rev # h
      BY <2>1 DEF Revisions
    <3> QED BY <1>5, <2>1, <3>1, QueuedRowsStep DEF DropsHead, RowInv
  <2>4. \/ Leaves(h, "skipped") /\ row' = row
        \/ Leaves(h, "abandoned") /\ row' = [row EXCEPT ![h] = "error"]
    BY <1>5, <2>1 DEF DropsHead, Leaves, TypeOK, ShownTypeOK
  <2> HIDE DEF h
  <2>5. RowTellsOutcome'
    BY <1>1, <2>1, <2>2, <2>4 DEF Leaves, RowInv, RowTellsOutcome
  <2> QED BY <2>3, <2>5 DEF RowInv
<1>6. CASE DropsFlight \/ Commits
  <2>1. decision.rev \in Revisions /\ outcome[decision.rev] = "pending" /\ Unsettled /\ UNCHANGED stable
    BY <1>6, FlightIsPending DEF DropsFlight, Commits
  <2>2. \E end \in {<<"abandoned", "error">>, <<"empty", "stable">>, <<"committed", "final">>} :
          Leaves(decision.rev, end[1]) /\ row' = [row EXCEPT ![decision.rev] = end[2]]
    BY <1>6, <2>1 DEF DropsFlight, Commits, Leaves, TypeOK, ShownTypeOK
  <2>3. QueuedRows'
    BY <2>1, <2>2, FlightIsNotQueued, QueuedRowsStep DEF RowInv
  <2>4. RowTellsOutcome'
    BY <1>1, <2>1, <2>2 DEF Leaves, RowInv, RowTellsOutcome
  <2> QED BY <2>3, <2>4 DEF RowInv
<1> QED BY <1>3, <1>4, <1>5, <1>6 DEF Effect

----------------------------------------------------------------------------
(* The context window.                                                     *)

\* The context window holds committed spans in order.
LEMMA ContextStep ==
  ASSUME TypeOK, OrderInv, TargetMatchesOutcomes, ContextIsCommitted, Effect
  PROVE  ContextIsCommitted'
<1>1. context \in Seq(Revisions)
  BY DEF TypeOK, TargetTypeOK
<1>2. \A i \in DOMAIN context : context[i] \in Revisions
  BY <1>1
<1>3. ASSUME UNCHANGED context, NEW r \in Revisions, NEW o, Leaves(r, o)
      PROVE  ContextIsCommitted'
  BY <1>2, <1>3 DEF Leaves, ContextIsCommitted
<1>4. CASE Quiet
  BY <1>4 DEF Quiet, ContextIsCommitted
<1>5. CASE Accepts \/ DropsHead \/ DropsFlight
  <2>1. PICK r \in Revisions, o \in {"pending", "skipped", "abandoned", "empty"} : Leaves(r, o)
    BY <1>5, OneLeaves
  <2>2. UNCHANGED context
    BY <1>5 DEF Accepts, DropsHead, DropsFlight
  <2> QED BY <1>3, <2>1, <2>2
<1>6. CASE Commits
  <2>1. /\ decision.rev \in Revisions /\ outcome[decision.rev] = "pending" /\ Leaves(decision.rev, "committed")
        /\ UNCHANGED context \/ AddContext(decision.rev)
    BY <1>6, EffectLeaves, FlightIsPending DEF Commits
  <2>2. CASE UNCHANGED context
    BY <1>3, <2>1, <2>2
  <2>3. CASE AddContext(decision.rev)
    <3> DEFINE new == Append(context, decision.rev)
    <3>1. /\ new \in Seq(Revisions) /\ Len(new) = Len(context) + 1
          /\ \A i \in DOMAIN new : \/ i \in DOMAIN context /\ new[i] = context[i]
                                   \/ i = Len(context) + 1 /\ new[i] = decision.rev
          /\ DOMAIN context = 1..Len(context) /\ DOMAIN new = 1..(Len(context) + 1)
      BY <1>1, <2>1
    <3>2. \A i \in DOMAIN context : context[i] < decision.rev
      <4>1. \A i \in DOMAIN context : outcome[context[i]] = "committed"
        BY DEF ContextIsCommitted
      <4> QED BY <1>2, <2>1, <4>1, CommittedAreOlder DEF TargetMatchesOutcomes
    <3>3. \A i \in DOMAIN new : outcome'[new[i]] = "committed"
      BY <1>2, <2>1, <3>1 DEF Leaves, ContextIsCommitted
    <3>4. \A i, j \in DOMAIN new : i < j => new[i] < new[j]
      BY <1>1, <3>1, <3>2 DEF ContextIsCommitted
    <3> HIDE DEF new
    <3>5. CASE context' = new
      BY <3>3, <3>4, <3>5 DEF ContextIsCommitted
    <3>6. CASE context' = Append(Tail(context), decision.rev) /\ context # <<>>
      <4>1. Len(context) \in Nat \ {0}
        BY <1>1, <3>6
      <4>2. /\ DOMAIN context' = 1..Len(context)
            /\ \A i \in 1..Len(context) : i + 1 \in DOMAIN new /\ context'[i] = new[i + 1]
        BY <1>1, <2>1, <3>6, <4>1 DEF new
      <4>3. \A i, j \in 1..Len(context) : i < j => i + 1 < j + 1
        BY <4>1
      <4> QED BY <3>3, <3>4, <4>2, <4>3 DEF ContextIsCommitted
    <3>7. context = <<>> => Len(context) < ContextSegments
      BY ConstantsAssumption
    <3> QED BY <2>3, <3>5, <3>6, <3>7 DEF AddContext, new
  <2> QED BY <2>1, <2>2, <2>3
<1> QED BY <1>4, <1>5, <1>6 DEF Effect

----------------------------------------------------------------------------
(* The editable tail.  A pending partial, and a provisional request that   *)
(* nothing has superseded, translate source newer than all that was        *)
(* accepted; a superseded request is still ahead of the committed text.    *)

AheadOf(r) == \A s \in Revisions : outcome[s] # "none" => s < r
PartialIsAhead == partial # NoPartial => partial.rev \in Revisions /\ partial.rev <= rev /\ AheadOf(partial.rev)
RequestIsAhead ==
  ~decision.committed /\ task # "none" =>
    /\ decision.rev \in Revisions /\ decision.rev > LastCommitted
    /\ TaskLive /\ ~cancelRequested => AheadOf(decision.rev)
AheadInv == PartialIsAhead /\ RequestIsAhead /\ EditableIsAhead

\* The newest committed revision, if any, is committed.
LEMMA LastCommittedType ==
  ASSUME TypeOK, TargetMatchesOutcomes
  PROVE  /\ LastCommitted \in 0..MaxRevision
         /\ LastCommitted # 0 => outcome[LastCommitted] = "committed"
<1>1. CASE committedText = <<>>
  BY <1>1, ConstantsAssumption DEF LastCommitted
<1>2. CASE committedText # <<>>
  <2>1. committedText \in Seq(Revisions)
    BY DEF TypeOK, TargetTypeOK
  <2>2. Len(committedText) \in DOMAIN committedText /\ committedText[Len(committedText)] \in Revisions
    BY <1>2, <2>1
  <2> QED BY <1>2, <2>2, ConstantsAssumption DEF LastCommitted, TargetMatchesOutcomes, Revisions
<1> QED BY <1>1, <1>2

\* What is ahead of all accepted source is ahead of the committed text.
LEMMA AheadOfCommitted ==
  ASSUME TypeOK, TargetMatchesOutcomes, NEW r \in Revisions, \A s \in Revisions : outcome[s] # "none" => s < r
  PROVE  r > LastCommitted
<1>1. CASE LastCommitted = 0
  BY <1>1 DEF Revisions
<1>2. CASE LastCommitted # 0
  BY <1>2, LastCommittedType DEF Revisions
<1> QED BY <1>1, <1>2

\* Steps that accept nothing and commit nothing, and start no request.
LEMMA AheadStutter ==
  ASSUME TypeOK, AheadInv, UNCHANGED <<committedText, decision>>, rev' = rev,
         \A s \in Revisions : outcome'[s] # "none" => outcome[s] # "none",
         partial' = partial \/ partial' = NoPartial,
         task' # "none" => task # "none", TaskLive' => TaskLive,
         cancelRequested => cancelRequested',
         \/ editable' \in {editable, 0}
         \/ editable' = decision.rev /\ ~decision.committed /\ task # "none"
  PROVE  AheadInv'
<1>1. LastCommitted' = LastCommitted
  BY DEF LastCommitted
<1>2. PartialIsAhead' /\ RequestIsAhead'
  BY <1>1 DEF AheadInv, PartialIsAhead, RequestIsAhead, AheadOf
<1>3. EditableIsAhead'
  BY <1>1 DEF AheadInv, EditableIsAhead, RequestIsAhead
<1> QED BY <1>2, <1>3 DEF AheadInv

\* A committed decision takes the place of the one before.
LEMMA AheadCommitted ==
  ASSUME TypeOK, AheadInv, UNCHANGED <<committedText, editable, partial>>, rev' = rev,
         \A s \in Revisions : outcome'[s] # "none" => outcome[s] # "none",
         decision'.committed \/ task' = "none"
  PROVE  AheadInv'
<1>1. LastCommitted' = LastCommitted
  BY DEF LastCommitted
<1> QED BY <1>1 DEF AheadInv, PartialIsAhead, RequestIsAhead, EditableIsAhead, AheadOf

\* New committed source supersedes what is provisional; a new partial is ahead of all of it.
LEMMA ProduceAhead ==
  ASSUME TypeOK, ControlInv, OrderInv, AheadInv, Produce PROVE AheadInv'
<1>1. CASE EndOfInput
  BY <1>1, AheadStutter DEF EndOfInput, CancelProvisional, targetVars, shownVars, TypeOK, TaskTypeOK, TaskLive
<1>2. ASSUME NEW text \in Texts \cup {NoText}, NEW superseded \in BOOLEAN, SubmitPartial(text, superseded)
      PROVE  AheadInv'
  <2>1. /\ rev \in 0..MaxRevision /\ rev' = rev + 1 /\ rev' \in Revisions /\ partial'.rev = rev'
        /\ UNCHANGED <<outcome, committedText, decision, task, editable>>
    BY <1>2, ConstantsAssumption DEF SubmitPartial, targetVars, shownVars, TypeOK, InputTypeOK, Revisions
  <2>2. \A s \in Revisions : outcome'[s] # "none" => s < rev'
    BY <2>1 DEF OrderInv, QueueInv, Revisions
  <2>3. PartialIsAhead'
    BY <2>1, <2>2 DEF PartialIsAhead, AheadOf, Revisions
  <2>4. LastCommitted' = LastCommitted
    BY <2>1 DEF LastCommitted
  <2>5. (TaskLive /\ ~cancelRequested)' => TaskLive /\ ~cancelRequested
    BY <1>2 DEF SubmitPartial, CancelProvisional, TaskLive
  <2>6. RequestIsAhead' /\ EditableIsAhead'
    BY <2>1, <2>4, <2>5 DEF AheadInv, RequestIsAhead, EditableIsAhead, AheadOf
  <2> QED BY <2>3, <2>6 DEF AheadInv
<1>3. ASSUME NEW kind \in {"stable", "final"}, NEW fresh \in BOOLEAN, SubmitCommitted(kind, fresh)
      PROVE  AheadInv'
  <2>1. /\ rev \in 0..MaxRevision /\ rev' = rev + 1 /\ partial \in Partial
        /\ UNCHANGED <<committedText, decision, task, editable>>
        /\ ~decision.committed /\ TaskLive => cancelRequested'
        /\ partial' = IF partial.rev < rev' THEN NoPartial ELSE partial
    BY <1>3 DEF SubmitCommitted, targetVars, TypeOK, InputTypeOK, QueueTypeOK, CancelProvisional
  <2>2. partial' = NoPartial
    BY <2>1, Z3 DEF AheadInv, PartialIsAhead, NoPartial, Revisions
  <2>3. RequestIsAhead' /\ EditableIsAhead'
    BY <2>1 DEF AheadInv, RequestIsAhead, EditableIsAhead, LastCommitted, TaskLive
  <2> QED BY <2>2, <2>3 DEF AheadInv, PartialIsAhead, NoPartial
<1> QED BY <1>1, <1>2, <1>3 DEF Produce

\* A request starts ahead of the committed text, or with committed source.
LEMMA ConsumeAhead ==
  ASSUME TypeOK, ControlInv, OrderInv, TargetMatchesOutcomes, AheadInv, Consume PROVE AheadInv'
<1>1. CASE TranslateUnit
  <2> DEFINE d == [rev |-> Head(stable).rev, committed |-> TRUE, text |-> NoText]
  <2>1. /\ Execute(d) /\ d.committed /\ UNCHANGED <<committedText, partial, rev>>
        /\ d.rev = Head(stable).rev /\ stable # <<>> /\ pc = "ready"
    BY <1>1 DEF TranslateUnit, inputVars
  <2> HIDE DEF d
  <2>2. CASE Attempt(d, 1)
    BY <2>1, <2>2, AheadCommitted DEF Attempt
  <2>3. CASE Abandon(d) /\ UNCHANGED <<pc, taskVars>>
    <3>1. d.rev \in Revisions /\ outcome[d.rev] = "pending"
      BY <2>1, QueueTail
    <3>2. \A s \in Revisions : outcome'[s] # "none" => outcome[s] # "none"
      BY <2>1, <2>3, <3>1 DEF Abandon, TypeOK, ShownTypeOK
    <3>3. task' = "none" /\ UNCHANGED editable
      BY <2>1, <2>3 DEF ControlInv, taskVars, Abandon
    <3> QED BY <2>1, <3>2, <3>3, AheadCommitted
  <2> QED BY <2>1, <2>2, <2>3 DEF Execute
<1>2. CASE SkipUnit
  <2>1. Head(stable).rev \in Revisions /\ outcome[Head(stable).rev] = "pending"
    BY <1>2, QueueTail DEF SkipUnit
  <2>2. \A s \in Revisions : outcome'[s] # "none" => outcome[s] # "none"
    BY <1>2, <2>1 DEF SkipUnit, TypeOK, ShownTypeOK
  <2> QED BY <1>2, <2>2, AheadStutter DEF SkipUnit, inputVars, taskVars, targetVars, TypeOK, TaskTypeOK, TaskLive
<1>3. CASE TranslatePartial
  <2> DEFINE d == [rev |-> partial.rev, committed |-> FALSE, text |-> partial.text]
  <2>1. /\ Execute(d) /\ ~d.committed /\ d.rev = partial.rev /\ pc = "ready"
        /\ UNCHANGED <<committedText, rev>> /\ partial # NoPartial /\ partial' = NoPartial
    BY <1>3 DEF TranslatePartial, inputVars
  <2> HIDE DEF d
  <2>2. CASE Attempt(d, 1)
    <3>1. d.rev \in Revisions /\ \A s \in Revisions : outcome[s] # "none" => s < d.rev
      BY <2>1 DEF AheadInv, PartialIsAhead, AheadOf
    <3>2. d.rev > LastCommitted
      BY <3>1, AheadOfCommitted
    <3>3. LastCommitted' = LastCommitted /\ UNCHANGED <<outcome, editable>> /\ decision' = d
      BY <2>1, <2>2 DEF LastCommitted, Attempt
    <3>4. RequestIsAhead'
      BY <3>1, <3>2, <3>3 DEF RequestIsAhead, AheadOf
    <3>5. EditableIsAhead'
      BY <3>3 DEF AheadInv, EditableIsAhead
    <3> QED BY <2>1, <3>4, <3>5 DEF AheadInv, PartialIsAhead
  <2>3. CASE Abandon(d) /\ UNCHANGED <<pc, taskVars>>
    BY <2>1, <2>3, AheadStutter DEF Abandon, taskVars, TaskLive, TypeOK, TaskTypeOK
  <2> QED BY <2>1, <2>2, <2>3 DEF Execute
<1>4. CASE KeepPartial \/ Idle \/ Return \/ Awaken \/ DrainCancel
  BY <1>4, AheadStutter DEF KeepPartial, Idle, Return, Awaken, DrainCancel, inputVars, queueVars, taskVars,
                            targetVars, shownVars, TaskLive, TypeOK, TaskTypeOK
<1>5. CASE Finish \/ Closed
  BY <1>5, AheadCommitted DEF Finish, Closed, Release, inputVars, queueVars, targetVars, shownVars
<1>6. CASE Retry
  BY <1>6, AheadCommitted DEF Retry, CanRetry, Attempt, inputVars, queueVars
<1>7. CASE GiveUp
  <2>1. /\ Abandon(decision) /\ task' = "none" /\ task # "ok"
        /\ UNCHANGED <<committedText, partial, rev>>
    BY <1>7 DEF GiveUp, Release, inputVars, queueVars
  <2>2. CASE decision.committed
    <3>1. decision.rev \in Revisions /\ outcome[decision.rev] = "pending"
      BY <2>1, <2>2, RunningIsUnsettled, FlightIsPending
    <3>2. \A s \in Revisions : outcome'[s] # "none" => outcome[s] # "none"
      BY <2>1, <2>2, <3>1 DEF Abandon, TypeOK, ShownTypeOK
    <3> QED BY <2>1, <2>2, <3>2, AheadCommitted DEF Abandon
  <2>3. CASE ~decision.committed
    <3>1. UNCHANGED outcome /\ editable' = 0 /\ LastCommitted' = LastCommitted
      BY <2>1, <2>3 DEF Abandon, LastCommitted
    <3> QED BY <2>1, <3>1 DEF AheadInv, PartialIsAhead, RequestIsAhead, EditableIsAhead, AheadOf
  <2> QED BY <2>2, <2>3
<1> QED BY <1>1, <1>2, <1>3, <1>4, <1>5, <1>6, <1>7 DEF Consume

\* Answers keep the editable tail ahead of the committed text, or clear it.
LEMMA StreamAhead ==
  ASSUME TypeOK, ControlInv, OrderInv, TargetMatchesOutcomes, AheadInv, Stream PROVE AheadInv'
<1>1. /\ task = "running" /\ UNCHANGED <<rev, partial, decision, cancelRequested>>
      /\ task' \in {"running", "ok", "failed"}
  BY DEF Stream, Delta, FinalAnswer, Fail, Progressing, inputVars, queueVars, taskVars
<1>2. CASE Delta
  BY <1>1, <1>2, AheadStutter DEF Delta, Show, TaskLive, taskVars
<1>3. CASE \E reported \in BOOLEAN : Fail(reported)
  BY <1>1, <1>3, AheadStutter DEF Fail, TaskLive
<1>4. ASSUME NEW answer \in Answers, FinalAnswer(answer) PROVE AheadInv'
  <2>1. CASE ~decision.committed
    BY <1>1, <1>4, <2>1, AheadStutter DEF FinalAnswer, TaskLive
  <2>2. CASE decision.committed
    <3>1. decision.rev \in Revisions /\ outcome[decision.rev] = "pending"
      BY <1>1, <2>2, RunningIsUnsettled, FlightIsPending
    <3>2. \A s \in Revisions : outcome'[s] # "none" => outcome[s] # "none"
      BY <1>4, <2>2, <3>1 DEF FinalAnswer, Commit, NothingToCommit, TypeOK, ShownTypeOK
    <3>3. CASE NothingToCommit
      BY <1>1, <2>2, <3>2, <3>3, AheadCommitted DEF NothingToCommit
    <3>4. CASE Commit(answer)
      BY <1>1, <2>2, <3>2, <3>4 DEF Commit, AheadInv, PartialIsAhead, RequestIsAhead, EditableIsAhead, AheadOf
    <3> QED BY <1>4, <2>2, <3>3, <3>4 DEF FinalAnswer
  <2> QED BY <2>1, <2>2
<1> QED BY <1>2, <1>3, <1>4 DEF Stream

\* Every step keeps what is provisional ahead.
LEMMA AheadStep ==
  ASSUME TypeOK, ControlInv, OrderInv, TargetMatchesOutcomes, AheadInv, [Next]_vars PROVE AheadInv'
<1>1. CASE Begin \/ Cancelled \/ Close \/ DrainDeadline \/ LatencyBudgetElapses \/ UNCHANGED vars
  BY <1>1, AheadStutter DEF Begin, Cancelled, Close, DrainDeadline, LatencyBudgetElapses, vars, inputVars, queueVars,
                            taskVars, targetVars, shownVars, TaskLive, TypeOK, TaskTypeOK
<1> QED BY <1>1, ProduceAhead, ConsumeAhead, StreamAhead DEF Next

----------------------------------------------------------------------------
(* The outcomes agree, and what is settled stays.                          *)

\* Nothing is accepted at first.
LEMMA InitOutcome == Init => TargetMatchesOutcomes /\ RowInv /\ ContextIsCommitted /\ AheadInv
BY DEF Init, TargetMatchesOutcomes, RowInv, RowTellsOutcome, QueuedRows, ContextIsCommitted,
       AheadInv, PartialIsAhead, RequestIsAhead, EditableIsAhead, NoDecision

\* The four invariants about the outcomes, in every reachable state.
THEOREM OutcomeInvariants == Spec => [](TargetMatchesOutcomes /\ RowInv /\ ContextIsCommitted /\ AheadInv)
<1>1. Init => TargetMatchesOutcomes /\ RowInv /\ ContextIsCommitted /\ AheadInv
  BY InitOutcome
<1>2. /\ TypeOK /\ ControlInv /\ OrderInv /\ [Next]_vars
      /\ TargetMatchesOutcomes /\ RowInv /\ ContextIsCommitted /\ AheadInv
      => (TargetMatchesOutcomes /\ RowInv /\ ContextIsCommitted /\ AheadInv)'
  BY StepEffect, TargetStep, RowStep, ContextStep, AheadStep
<1> QED BY <1>1, <1>2, TypeCorrect, ControlCorrect, OrderCorrect, PTL DEF Spec

\* The target text, the rows, the editable tail and the context of the next
\* requests tell the same outcome of every span, for any number of revisions
\* (commit.py, policy.py).
THEOREM OutcomesStayInAgreement == Spec => []OutcomesAgree
<1>1. TargetMatchesOutcomes /\ RowInv /\ ContextIsCommitted /\ AheadInv => OutcomesAgree
  BY DEF OutcomesAgree, RowInv, AheadInv
<1> QED BY <1>1, OutcomeInvariants, PTL

\* No effect touches a settled span.
LEMMA SettledStep ==
  ASSUME TypeOK, OrderInv, Effect, NEW r \in Revisions, outcome[r] \in Settled
  PROVE  outcome'[r] = outcome[r] /\ row'[r] = row[r]
<1>1. /\ outcome[r] \notin {"none", "pending"}
      /\ row \in [Revisions -> {"none", "partial", "stable", "final", "error"}]
  BY DEF Settled, TypeOK, ShownTypeOK
<1>2. CASE Quiet
  BY <1>1, <1>2, FlightIsPending DEF Quiet
<1>3. CASE Accepts
  BY <1>1, <1>3, EffectLeaves DEF Accepts, Leaves
<1>4. CASE DropsHead
  <2>1. outcome[Head(stable).rev] = "pending" /\ \E o \in {"skipped", "abandoned"} : Leaves(Head(stable).rev, o)
    BY <1>4, EffectLeaves
  <2> QED BY <1>1, <1>4, <2>1 DEF DropsHead, Leaves
<1>5. CASE DropsFlight \/ Commits
  <2>1. outcome[decision.rev] = "pending" /\ \E o \in Settled : Leaves(decision.rev, o)
    BY <1>5, EffectLeaves DEF Settled
  <2>2. \E kind : row' = [row EXCEPT ![decision.rev] = kind]
    BY <1>5 DEF DropsFlight, Commits
  <2> QED BY <1>1, <2>1, <2>2 DEF Leaves
<1> QED BY <1>2, <1>3, <1>4, <1>5 DEF Effect

\* Only a request that nothing superseded shows a provisional translation.
LEMMA TailStep ==
  ASSUME TypeOK, AheadInv, [Next]_vars, tail' # tail
  PROVE  \A r \in Revisions : outcome[r] # "none" => r < tail'
<1>1. Delta \/ \E answer \in Answers : FinalAnswer(answer)
  BY DEF Next, Produce, SubmitCommitted, SubmitPartial, EndOfInput, Consume, TranslateUnit, SkipUnit, TranslatePartial,
         KeepPartial, Idle, Return, Awaken, DrainCancel, Finish, Retry, GiveUp, Closed, Begin, Stream, Fail, Cancelled,
         Close, DrainDeadline, LatencyBudgetElapses, vars, shownVars
<1>2. task = "running" /\ ~cancelRequested /\ ~decision.committed /\ tail' = decision.rev
  BY <1>1 DEF Delta, Show, FinalAnswer, Commit, NothingToCommit, Progressing
<1> QED BY <1>2 DEF AheadInv, RequestIsAhead, TaskLive, AheadOf

\* Nothing re-opens a settled span, and a provisional translation shown is newer
\* than all committed source accepted before it (scheduler.py, policy.py).
THEOREM NothingStaleIsShown == Spec => ShownIsNeverStale
<1>1. TypeOK /\ ControlInv /\ OrderInv /\ [Next]_vars =>
        [\A r \in Revisions : outcome[r] \in Settled => outcome'[r] = outcome[r] /\ row'[r] = row[r]]_vars
  BY StepEffect, SettledStep
<1>2. TypeOK /\ AheadInv /\ [Next]_vars =>
        [tail' # tail => \A r \in Revisions : outcome[r] # "none" => r < tail']_vars
  BY TailStep
<1>3. Spec => SettledIsFinal
  BY <1>1, TypeCorrect, ControlCorrect, OrderCorrect, PTL DEF Spec, SettledIsFinal
<1>4. Spec => NoProvisionalBehindUnit
  BY <1>2, TypeCorrect, OutcomeInvariants, PTL DEF Spec, NoProvisionalBehindUnit
<1> QED BY <1>3, <1>4, PTL DEF ShownIsNeverStale

----------------------------------------------------------------------------
(* The end.  The last committed event holds all units closed so far, so    *)
(* whoever empties the queue has handed all of them to the translator.     *)

QueueIsNewer ==
  /\ committedSource <= units /\ lastStable <= rev
  /\ \A i \in DOMAIN stable : stable[i].upto <= units /\ lastStable < stable[i].rev
NothingSkipped ==
  IF stable = <<>> THEN committedSource = units ELSE stable[Len(stable)].upto = units
DrainInv == QueueIsNewer /\ NothingSkipped /\ (pc = "done" => ended /\ stable = <<>>)

\* Steps that leave the queue and the policy alone.
LEMMA DrainStutter ==
  ASSUME TypeOK, DrainInv, UNCHANGED <<stable, committedSource, units, lastStable>>, rev \in Int,
         rev' = rev \/ rev' = rev + 1, ended => ended', pc' = "done" => pc = "done" \/ (ended /\ stable = <<>>)
  PROVE  DrainInv'
<1>1. QueueIsNewer'
  <2>1. lastStable <= rev => lastStable <= rev'
    BY DEF TypeOK, PolicyTypeOK
  <2> QED BY <2>1 DEF DrainInv, QueueIsNewer
<1> QED BY <1>1 DEF DrainInv, NothingSkipped

\* The head of the queue leaves, with what the policy remembers of it.
LEMMA DrainHead ==
  ASSUME TypeOK, OrderInv, DrainInv, stable # <<>>, stable' = Tail(stable), UNCHANGED <<units, rev>>,
         committedSource' = IF Head(stable).upto >= committedSource THEN Head(stable).upto ELSE committedSource,
         lastStable' \in {lastStable, Head(stable).rev}, pc' # "done"
  PROVE  DrainInv'
<1>1. /\ stable \in Seq(Event) /\ Head(stable) = stable[1] /\ Head(stable) \in Event
      /\ rev \in Nat /\ units \in Nat /\ committedSource \in Nat /\ lastStable \in Nat
  BY DEF TypeOK, QueueTypeOK, InputTypeOK, PolicyTypeOK
<1>2. /\ Len(stable) \in Nat \ {0} /\ DOMAIN stable = 1..Len(stable)
      /\ Len(Tail(stable)) = Len(stable) - 1 /\ DOMAIN Tail(stable) = 1..(Len(stable) - 1)
      /\ \A i \in 1..(Len(stable) - 1) : i + 1 \in DOMAIN stable /\ Tail(stable)[i] = stable[i + 1]
  BY <1>1
<1>3. /\ Head(stable).rev \in Revisions /\ Head(stable).upto \in Nat /\ Head(stable).upto <= units
      /\ Head(stable).rev <= rev
  <2>1. Head(stable).rev \in Revisions /\ Head(stable).upto \in Nat
    BY <1>1, ConstantsAssumption DEF Event
  <2>2. 1 \in DOMAIN stable
    BY <1>2
  <2>3. Head(stable).rev <= rev
    BY <1>1, <2>1, QueueTail DEF OrderInv, QueueInv, Revisions
  <2> QED BY <1>1, <2>1, <2>2, <2>3 DEF DrainInv, QueueIsNewer
<1>4. \A i \in DOMAIN Tail(stable) : /\ Tail(stable)[i].upto <= units
                                     /\ lastStable < Tail(stable)[i].rev /\ Head(stable).rev < Tail(stable)[i].rev
  BY <1>2, QueueTail DEF DrainInv, QueueIsNewer
<1>5. QueueIsNewer'
  BY <1>1, <1>3, <1>4 DEF DrainInv, QueueIsNewer
<1>6. NothingSkipped'
  <2>1. CASE Tail(stable) = <<>>
    <3>1. Len(stable) = 1
      <4>1. Len(Tail(stable)) = 0
        BY <1>1, <2>1, EmptySeq
      <4>2. PICK n \in Nat : n = Len(stable)
        BY <1>2
      <4>3. n - 1 = 0
        BY <1>2, <4>1, <4>2
      <4>4. n = 1
        BY <4>3
      <4> QED BY <4>2, <4>4
    <3>2. Head(stable).upto = units
      BY <1>1, <3>1 DEF DrainInv, NothingSkipped
    <3> QED BY <1>1, <2>1, <3>2 DEF DrainInv, QueueIsNewer, NothingSkipped
  <2>2. CASE Tail(stable) # <<>>
    <3>1. Len(Tail(stable)) \in 1..(Len(stable) - 1) /\ Len(Tail(stable)) + 1 = Len(stable)
      BY <1>1, <1>2, <2>2
    <3>2. Tail(stable)[Len(Tail(stable))] = stable[Len(stable)]
      BY <1>2, <3>1
    <3> QED BY <2>2, <3>2 DEF DrainInv, NothingSkipped
  <2> QED BY <2>1, <2>2
<1> QED BY <1>5, <1>6 DEF DrainInv

\* A committed event carries all units closed so far.
LEMMA DrainAppend ==
  ASSUME TypeOK, ControlInv, DrainInv, NEW kind \in {"stable", "final"}, NEW fresh \in BOOLEAN,
         SubmitCommitted(kind, fresh)
  PROVE  DrainInv'
<1> DEFINE event == [kind |-> kind, rev |-> rev', upto |-> units']
<1>1. /\ rev \in Nat /\ rev' = rev + 1 /\ units \in Nat /\ units' \in {units, units + 1}
      /\ UNCHANGED <<committedSource, lastStable, pc, ended>> /\ ~ended
      /\ stable' = Append(stable, event) /\ stable \in Seq(Event) /\ committedSource \in Nat /\ lastStable \in Nat
  BY DEF SubmitCommitted, Accepting, Enqueued, policyVars, TypeOK, InputTypeOK, QueueTypeOK, PolicyTypeOK
<1>2. event.rev = rev' /\ event.upto = units'
  OBVIOUS
<1> HIDE DEF event
<1>3. /\ stable' # <<>> /\ stable'[Len(stable')] = event
      /\ \A i \in DOMAIN stable' : (i \in DOMAIN stable /\ stable'[i] = stable[i]) \/ stable'[i] = event
  <2>1. /\ Len(stable) \in Nat /\ DOMAIN stable = 1..Len(stable) /\ Len(stable') = Len(stable) + 1
        /\ DOMAIN stable' = 1..(Len(stable) + 1)
        /\ \A i \in 1..Len(stable) : stable'[i] = stable[i] /\ stable'[Len(stable) + 1] = event
    BY <1>1
  <2>2. stable'[Len(stable) + 1] = event /\ stable' # <<>>
    BY <1>1
  <2> QED BY <2>1, <2>2
<1>4. \A i \in DOMAIN stable : stable[i].upto \in Nat
  <2>1. \A i \in DOMAIN stable : stable[i] \in Event
    BY <1>1
  <2> QED BY <2>1, ConstantsAssumption DEF Event
<1>5. QueueIsNewer'
  BY <1>1, <1>2, <1>3, <1>4 DEF DrainInv, QueueIsNewer
<1> QED BY <1>1, <1>2, <1>3, <1>5 DEF DrainInv, NothingSkipped

\* Every step keeps the newest units at the end of the queue, or handed over.
LEMMA DrainStep ==
  ASSUME TypeOK, ControlInv, OrderInv, DrainInv, [Next]_vars PROVE DrainInv'
<1>0. rev \in Int
  BY DEF TypeOK, InputTypeOK
<1>1. CASE \E kind \in {"stable", "final"}, fresh \in BOOLEAN : SubmitCommitted(kind, fresh)
  BY <1>1, DrainAppend
<1>2. CASE \/ \E text \in Texts \cup {NoText}, superseded \in BOOLEAN : SubmitPartial(text, superseded)
           \/ EndOfInput
  BY <1>0, <1>2, DrainStutter DEF SubmitPartial, EndOfInput, policyVars, DrainInv
<1>3. CASE TranslateUnit
  <2>1. pc = "ready" /\ pc' # "done"
    BY <1>3 DEF TranslateUnit, Execute, Attempt
  <2> QED BY <1>3, <2>1, DrainHead DEF TranslateUnit, inputVars
<1>4. CASE SkipUnit
  <2>1. /\ Head(stable).upto <= committedSource /\ Head(stable).upto \in Nat /\ committedSource \in Nat
    <3>1. /\ stable \in Seq(Event) /\ stable # <<>> /\ Head(stable) = stable[1] /\ Head(stable) \in Event
          /\ 1 \in DOMAIN stable /\ committedSource \in Nat /\ lastStable \in Nat
      BY <1>4 DEF SkipUnit, TypeOK, QueueTypeOK, PolicyTypeOK
    <3>2. lastStable < Head(stable).rev /\ Head(stable).rev \in Nat /\ Head(stable).upto \in Nat
      BY <3>1, ConstantsAssumption DEF DrainInv, QueueIsNewer, Event, Revisions
    <3> QED BY <1>4, <3>1, <3>2 DEF SkipUnit, Translatable
  <2>2. committedSource = IF Head(stable).upto >= committedSource THEN Head(stable).upto ELSE committedSource
    BY <2>1
  <2> QED BY <1>4, <2>2, DrainHead DEF SkipUnit, policyVars, inputVars
<1>5. CASE TranslatePartial
  <2>1. pc = "ready" /\ pc' # "done"
    BY <1>5 DEF TranslatePartial, Execute, Attempt
  <2> QED BY <1>0, <1>5, <2>1, DrainStutter DEF TranslatePartial, inputVars
<1>6. CASE KeepPartial \/ Idle \/ Return \/ Awaken \/ DrainCancel \/ Finish \/ GiveUp \/ Closed
  BY <1>0, <1>6, DrainStutter DEF KeepPartial, Idle, Return, Awaken, DrainCancel, Finish, GiveUp, Closed, Sleep,
       RetryAfter, inputVars, queueVars, policyVars
<1>7. CASE Retry
  BY <1>0, <1>7, DrainStutter DEF Retry, Attempt, inputVars, queueVars, policyVars
<1>8. CASE Begin \/ Stream \/ Cancelled \/ Close \/ DrainDeadline \/ LatencyBudgetElapses \/ UNCHANGED vars
  BY <1>0, <1>8, DrainStutter DEF Begin, Stream, Delta, FinalAnswer, Fail, Cancelled, Close, DrainDeadline,
       LatencyBudgetElapses, vars, inputVars, queueVars, policyVars
<1> QED BY <1>1, <1>2, <1>3, <1>4, <1>5, <1>6, <1>7, <1>8 DEF Next, Produce, Consume

\* However the consumer ends, no accepted span and no request is left behind it:
\* when it returns, all of the committed source went to the translator (run, _wait).
THEOREM NothingIsLeftBehind == Spec => []NothingBehindConsumer
<1>1. Init => DrainInv
  BY DEF Init, DrainInv, QueueIsNewer, NothingSkipped
<1>2. TypeOK /\ ControlInv /\ OrderInv /\ DrainInv /\ [Next]_vars => DrainInv'
  BY DrainStep
<1>3. TypeOK /\ ControlInv /\ OrderInv /\ DrainInv => NothingBehindConsumer
  <2> SUFFICES ASSUME TypeOK, ControlInv, OrderInv, DrainInv PROVE NothingBehindConsumer
    OBVIOUS
  <2>1. pc \notin {"executing", "closing"} => task = "none" /\ ~decision.committed
    BY DEF ControlInv, NoDecision
  <2>2. pc = "done" => stable = <<>> /\ committedSource = units
    BY DEF DrainInv, NothingSkipped
  <2>3. pc = "done" => \A r \in Revisions : outcome[r] # "pending"
    BY <2>1, <2>2 DEF OrderInv, QueueInv
  <2> QED BY <2>1, <2>2, <2>3 DEF NothingBehindConsumer, DrainedAtReturn, NoOrphanRequest
<1> QED BY <1>1, <1>2, <1>3, TypeCorrect, ControlCorrect, OrderCorrect, PTL DEF Spec

----------------------------------------------------------------------------
(* The ledger.  Its waiting spans are the span in flight and then those of *)
(* the queue; taking the head of the queue for a request moves a span from *)
(* the one to the other and is no step of the ledger.                      *)

RevsOf(s) == [i \in 1..Len(s) |-> s[i].rev]
Waiting == InFlight \o RevsOf(stable)

\* The revisions of a queue.
LEMMA RevsAreRevisions == ASSUME NEW s \in Seq(Event) PROVE RevsOf(s) \in Seq(Revisions)
<1>1. \A i \in 1..Len(s) : s[i] \in Event
  OBVIOUS
<1>2. \A i \in 1..Len(s) : s[i].rev \in Revisions
  BY <1>1 DEF Event
<1>3. Len(s) \in Nat
  OBVIOUS
<1> QED BY <1>2, <1>3 DEF RevsOf

\* The sequences of revisions behind a queue that lost its head.
LEMMA RevsOfTail ==
  ASSUME NEW s \in Seq(Event), s # <<>>
  PROVE  /\ RevsOf(s) # <<>> /\ Head(RevsOf(s)) = Head(s).rev /\ Tail(RevsOf(s)) = RevsOf(Tail(s))
         /\ <<Head(s).rev>> \o RevsOf(Tail(s)) = RevsOf(s)
<1>1. /\ Tail(s) \in Seq(Event) /\ Len(Tail(s)) = Len(s) - 1 /\ Len(s) \in Nat \ {0} /\ Head(s) = s[1]
      /\ Head(s) \in Event /\ \A i \in 1..(Len(s) - 1) : Tail(s)[i] = s[i + 1]
  OBVIOUS
<1>2. Head(s).rev \in Revisions
  BY <1>1 DEF Event
<1>3. RevsOf(s) \in Seq(Revisions) /\ RevsOf(Tail(s)) \in Seq(Revisions)
  BY <1>1, RevsAreRevisions
<1>4. /\ Len(RevsOf(s)) = Len(s) /\ Len(RevsOf(Tail(s))) = Len(s) - 1
      /\ \A i \in 1..Len(s) : RevsOf(s)[i] = s[i].rev
      /\ \A i \in 1..(Len(s) - 1) : RevsOf(Tail(s))[i] = s[i + 1].rev
  BY <1>1 DEF RevsOf
<1>5. RevsOf(s) # <<>> /\ Head(RevsOf(s)) = Head(s).rev
  BY <1>1, <1>3, <1>4
<1>6. Tail(RevsOf(s)) = RevsOf(Tail(s))
  <2>1. /\ Tail(RevsOf(s)) \in Seq(Revisions) /\ Len(Tail(RevsOf(s))) = Len(s) - 1
        /\ \A i \in 1..(Len(s) - 1) : Tail(RevsOf(s))[i] = RevsOf(s)[i + 1]
    BY <1>3, <1>4, <1>5, HeadTailProperties
  <2>2. \A i \in 1..(Len(s) - 1) : i + 1 \in 1..Len(s)
    BY <1>1
  <2>3. \A i \in 1..(Len(s) - 1) : Tail(RevsOf(s))[i] = RevsOf(Tail(s))[i]
    BY <1>4, <2>1, <2>2
  <2> QED BY <1>3, <1>4, <2>1, <2>3, SeqEqual
<1>7. <<Head(s).rev>> \o RevsOf(Tail(s)) = RevsOf(s)
  <2> DEFINE joined == <<Head(s).rev>> \o RevsOf(Tail(s))
  <2>1. <<Head(s).rev>> \in Seq(Revisions) /\ Len(<<Head(s).rev>>) = 1
    BY <1>2
  <2>2. /\ joined \in Seq(Revisions) /\ Len(joined) = 1 + (Len(s) - 1)
        /\ \A i \in 1..(1 + (Len(s) - 1)) :
             joined[i] = IF i <= 1 THEN <<Head(s).rev>>[i] ELSE RevsOf(Tail(s))[i - 1]
    BY <1>3, <1>4, <2>1, ConcatProperties
  <2> HIDE DEF joined
  <2>3. Len(joined) = Len(s)
    BY <1>1, <2>2
  <2>4. \A i \in 1..Len(s) : joined[i] = RevsOf(s)[i]
    <3> SUFFICES ASSUME NEW i \in 1..Len(s) PROVE joined[i] = RevsOf(s)[i]
      OBVIOUS
    <3>1. i \in 1..(1 + (Len(s) - 1))
      BY <1>1
    <3>2. CASE i = 1
      BY <1>1, <1>4, <2>2, <3>1, <3>2
    <3>3. CASE i # 1
      <4>1. i - 1 \in 1..(Len(s) - 1) /\ (i - 1) + 1 = i /\ ~(i <= 1)
        BY <1>1, <3>3
      <4> QED BY <1>4, <2>2, <3>1, <4>1
    <3> QED BY <3>2, <3>3
  <2> QED BY <1>3, <1>4, <2>2, <2>3, <2>4, SeqEqual DEF joined
<1> QED BY <1>5, <1>6, <1>7

\* The revisions of a queue that gained an event.
LEMMA RevsOfAppend ==
  ASSUME NEW s \in Seq(Event), NEW e \in Event
  PROVE  RevsOf(Append(s, e)) = Append(RevsOf(s), e.rev)
<1>1. e.rev \in Revisions
  BY DEF Event
<1>2. /\ Append(s, e) \in Seq(Event) /\ Len(Append(s, e)) = Len(s) + 1 /\ Len(s) \in Nat
      /\ \A i \in 1..Len(s) : Append(s, e)[i] = s[i] /\ Append(s, e)[Len(s) + 1] = e
      /\ Append(s, e)[Len(s) + 1] = e
  BY AppendProperties
<1>3. RevsOf(s) \in Seq(Revisions) /\ RevsOf(Append(s, e)) \in Seq(Revisions)
  BY <1>2, RevsAreRevisions
<1>4. /\ Len(RevsOf(Append(s, e))) = Len(s) + 1 /\ Len(RevsOf(s)) = Len(s)
      /\ \A i \in 1..(Len(s) + 1) : RevsOf(Append(s, e))[i] = Append(s, e)[i].rev
      /\ \A i \in 1..Len(s) : RevsOf(s)[i] = s[i].rev
  BY <1>2 DEF RevsOf
<1>5. /\ Append(RevsOf(s), e.rev) \in Seq(Revisions) /\ Len(Append(RevsOf(s), e.rev)) = Len(s) + 1
      /\ \A i \in 1..Len(s) : Append(RevsOf(s), e.rev)[i] = RevsOf(s)[i]
      /\ Append(RevsOf(s), e.rev)[Len(s) + 1] = e.rev
  BY <1>1, <1>3, <1>4, AppendProperties
<1>6. \A i \in 1..(Len(s) + 1) : i \in 1..Len(s) \/ i = Len(s) + 1
  BY <1>2
<1>7. \A i \in 1..(Len(s) + 1) : RevsOf(Append(s, e))[i] = Append(RevsOf(s), e.rev)[i]
  BY <1>2, <1>4, <1>5, <1>6
<1> QED BY <1>3, <1>4, <1>5, <1>7, SeqEqual

\* A span in front of others is their head.
LEMMA FrontOf ==
  ASSUME NEW r \in Revisions, NEW u \in Seq(Revisions)
  PROVE  <<r>> \o u # <<>> /\ Head(<<r>> \o u) = r /\ Tail(<<r>> \o u) = u
<1>1. <<r>> \in Seq(Revisions) /\ Len(<<r>>) = 1 /\ <<r>>[1] = r
  OBVIOUS
<1>2. /\ <<r>> \o u \in Seq(Revisions) /\ Len(<<r>> \o u) = 1 + Len(u)
      /\ \A i \in 1..(1 + Len(u)) : (<<r>> \o u)[i] = IF i <= 1 THEN <<r>>[i] ELSE u[i - 1]
  BY <1>1, ConcatProperties
<1>3. Len(u) \in Nat
  OBVIOUS
<1> DEFINE w == <<r>> \o u
<1> HIDE DEF w
<1>4. w \in Seq(Revisions) /\ Len(w) = 1 + Len(u) /\ w[1] = r /\ \A i \in 1..Len(u) : w[i + 1] = u[i]
  <2>1. \A i \in 1..Len(u) : i + 1 \in 1..(1 + Len(u)) /\ ~(i + 1 <= 1) /\ (i + 1) - 1 = i
    BY <1>3
  <2>2. 1 \in 1..(1 + Len(u))
    BY <1>3
  <2> QED BY <1>1, <1>2, <2>1, <2>2 DEF w
<1>5. w # <<>> /\ Head(w) = r
  BY <1>3, <1>4
<1>6. Tail(w) = u
  <2>1. /\ Tail(w) \in Seq(Revisions) /\ Len(Tail(w)) = Len(u)
        /\ \A i \in 1..Len(u) : Tail(w)[i] = w[i + 1]
    BY <1>3, <1>4, <1>5, HeadTailProperties
  <2> QED BY <1>4, <2>1, SeqEqual
<1> QED BY <1>5, <1>6 DEF w

\* The spans waiting are revisions.
LEMMA WaitingType ==
  ASSUME TypeOK
  PROVE  RevsOf(stable) \in Seq(Revisions) /\ InFlight \in Seq(Revisions) /\ Waiting \in Seq(Revisions)
<1>1. RevsOf(stable) \in Seq(Revisions)
  BY RevsAreRevisions DEF TypeOK, QueueTypeOK
<1>2. InFlight \in Seq(Revisions)
  BY DEF InFlight, TypeOK, TaskTypeOK
<1> QED BY <1>1, <1>2, ConcatProperties DEF Waiting

\* Steps that leave the span in flight, the queue and the target text alone.
LEMMA LedgerStutter ==
  ASSUME UNCHANGED <<InFlight, stable, committedText>>
  PROVE  UNCHANGED <<Waiting, committedText>>
BY DEF Waiting, RevsOf

\* A committed event is accepted by the ledger: it is newer than all that waits or is in the target.
LEMMA AcceptStep ==
  ASSUME TypeOK, OrderInv, TargetMatchesOutcomes, NEW kind \in {"stable", "final"}, NEW fresh \in BOOLEAN,
         SubmitCommitted(kind, fresh)
  PROVE  \E r \in Revisions : /\ \A i \in DOMAIN Waiting : Waiting[i] < r
                              /\ \A i \in DOMAIN committedText : committedText[i] < r
                              /\ Waiting' = Append(Waiting, r) /\ UNCHANGED committedText
<1> DEFINE event == [kind |-> kind, rev |-> rev', upto |-> units']
<1>1. /\ rev \in 0..MaxRevision /\ rev' = rev + 1 /\ rev' \in Revisions /\ event \in Event /\ event.rev = rev'
      /\ stable' = Append(stable, event) /\ stable \in Seq(Event) /\ UNCHANGED <<committedText, decision>>
      /\ outcome' = [outcome EXCEPT ![rev'] = "pending"]
  <2>1. rev \in 0..MaxRevision /\ rev' = rev + 1 /\ rev < MaxRevision /\ units \in 0..rev /\ units' \in {units, units + 1}
    BY DEF TypeOK, InputTypeOK, SubmitCommitted
  <2>2. rev' \in Revisions /\ units' \in 0..MaxRevision
    BY <2>1, ConstantsAssumption DEF Revisions
  <2>3. event \in Event
    BY <2>2 DEF Event
  <2> QED BY <2>1, <2>2, <2>3 DEF SubmitCommitted, Enqueued, targetVars, TypeOK, QueueTypeOK
<1> HIDE DEF event
<1>2. \A r \in Revisions : outcome[r] # "none" => r < rev'
  BY <1>1 DEF OrderInv, QueueInv, Revisions
<1>3. InFlight' = InFlight
  <2>1. decision.committed => decision.rev \in Revisions
    BY DEF TypeOK, TaskTypeOK
  <2>2. decision.committed => decision.rev # rev'
    BY <1>1, <1>2, <2>1 DEF OrderInv, QueueInv, Settled, Revisions
  <2>3. decision.committed => outcome'[decision.rev] = outcome[decision.rev]
    BY <1>1, <2>1, <2>2 DEF TypeOK, ShownTypeOK
  <2> QED BY <1>1, <2>3 DEF InFlight
<1>4. Waiting' = Append(Waiting, rev')
  <2>1. RevsOf(stable') = Append(RevsOf(stable), rev')
    BY <1>1, RevsOfAppend
  <2>2. /\ RevsOf(stable) \in Seq(Revisions) /\ InFlight \in Seq(Revisions) /\ Waiting \in Seq(Revisions)
        /\ <<rev'>> \in Seq(Revisions)
    BY <1>1, WaitingType
  <2>3. InFlight \o Append(RevsOf(stable), rev') = InFlight \o (RevsOf(stable) \o <<rev'>>)
    BY <1>1, <2>2, AppendIsConcat
  <2>4. @ = (InFlight \o RevsOf(stable)) \o <<rev'>>
    BY <2>2, ConcatAssociative
  <2>5. @ = Append(Waiting, rev')
    BY <1>1, <2>2, AppendIsConcat DEF Waiting
  <2>6. Waiting' = InFlight' \o RevsOf(stable')
    BY DEF Waiting, RevsOf
  <2> QED BY <1>3, <2>1, <2>3, <2>4, <2>5, <2>6
<1>5. \A i \in DOMAIN Waiting : Waiting[i] < rev'
  <2>1. \A i \in DOMAIN RevsOf(stable) : RevsOf(stable)[i] \in Revisions /\ RevsOf(stable)[i] < rev'
    <3>1. \A i \in DOMAIN RevsOf(stable) : i \in DOMAIN stable /\ RevsOf(stable)[i] = stable[i].rev
      BY <1>1 DEF RevsOf
    <3> QED BY <1>2, <3>1, QueuedRevisions DEF OrderInv, QueueInv
  <2>2. \A i \in DOMAIN InFlight : InFlight[i] \in Revisions /\ InFlight[i] < rev'
    BY <1>2 DEF InFlight, TypeOK, TaskTypeOK
  <2>3. /\ Len(Waiting) = Len(InFlight) + Len(RevsOf(stable)) /\ Len(InFlight) \in Nat /\ Len(RevsOf(stable)) \in Nat
        /\ \A i \in 1..(Len(InFlight) + Len(RevsOf(stable))) :
             Waiting[i] = IF i <= Len(InFlight) THEN InFlight[i] ELSE RevsOf(stable)[i - Len(InFlight)]
    BY WaitingType, ConcatProperties DEF Waiting
  <2>4. /\ DOMAIN Waiting = 1..(Len(InFlight) + Len(RevsOf(stable))) /\ DOMAIN InFlight = 1..Len(InFlight)
        /\ DOMAIN RevsOf(stable) = 1..Len(RevsOf(stable))
    BY <2>3, WaitingType
  <2> DEFINE k == Len(InFlight)
             n == Len(RevsOf(stable))
  <2>5. k \in Nat /\ n \in Nat
    BY <2>3
  <2> SUFFICES ASSUME NEW i \in 1..(k + n) PROVE Waiting[i] < rev'
    BY <2>4
  <2> HIDE DEF k, n
  <2>6. IF i <= k THEN i \in 1..k ELSE i - k \in 1..n
    BY <2>5
  <2> QED BY <2>1, <2>2, <2>3, <2>4, <2>6 DEF k, n
<1>6. \A i \in DOMAIN committedText : committedText[i] < rev'
  <2>1. \A i \in DOMAIN committedText : committedText[i] \in Revisions
    BY DEF TypeOK, TargetTypeOK
  <2> QED BY <1>2, <2>1 DEF TargetMatchesOutcomes
<1> QED BY <1>1, <1>4, <1>5, <1>6

\* The span that leaves the ledger is its head: the one in flight settles ...
LEMMA FlightLeaves ==
  ASSUME TypeOK, Unsettled, UNCHANGED stable, InFlight' = <<>>
  PROVE  Waiting # <<>> /\ Head(Waiting) = decision.rev /\ Waiting' = Tail(Waiting)
<1>1. decision.rev \in Revisions /\ RevsOf(stable) \in Seq(Revisions) /\ InFlight = <<decision.rev>>
  BY FlightIsPending, WaitingType DEF Unsettled, InFlight
<1>2. Waiting # <<>> /\ Head(Waiting) = decision.rev /\ Tail(Waiting) = RevsOf(stable)
  BY <1>1, FrontOf DEF Waiting
<1>3. Waiting' = <<>> \o RevsOf(stable)
  BY DEF Waiting, RevsOf
<1> QED BY <1>1, <1>2, <1>3, ConcatEmptySeq

\* ... or the head of the queue, while nothing is in flight, leaves it at once, or for a request.
LEMMA HeadLeaves ==
  ASSUME TypeOK, OrderInv, InFlight = <<>>, stable # <<>>, stable' = Tail(stable)
  PROVE  /\ InFlight' = <<>> => Waiting # <<>> /\ Waiting' = Tail(Waiting)
         /\ InFlight' = <<Head(stable).rev>> => Waiting' = Waiting
<1>1. stable \in Seq(Event) /\ RevsOf(stable) \in Seq(Revisions) /\ RevsOf(Tail(stable)) \in Seq(Revisions)
  <2>1. stable \in Seq(Event) /\ Tail(stable) \in Seq(Event)
    BY DEF TypeOK, QueueTypeOK
  <2> QED BY <2>1, RevsAreRevisions
<1>2. Waiting = RevsOf(stable)
  BY <1>1, ConcatEmptySeq DEF Waiting
<1>3. Waiting' = InFlight' \o RevsOf(Tail(stable))
  BY DEF Waiting, RevsOf
<1>4. InFlight' = <<>> => Waiting' = RevsOf(Tail(stable))
  BY <1>1, <1>3, ConcatEmptySeq
<1> QED BY <1>1, <1>2, <1>3, <1>4, RevsOfTail

\* The consumer drops the oldest waiting span, or is no step of the ledger.
LEMMA ConsumeLedger ==
  ASSUME TypeOK, ControlInv, OrderInv, Consume
  PROVE  /\ UNCHANGED committedText
         /\ Waiting' = Waiting \/ (Waiting # <<>> /\ Waiting' = Tail(Waiting))
<1>1. CASE TranslateUnit
  <2> DEFINE d == [rev |-> Head(stable).rev, committed |-> TRUE, text |-> NoText]
  <2>1. /\ Execute(d) /\ d.committed /\ d.rev = Head(stable).rev /\ stable # <<>> /\ stable' = Tail(stable)
        /\ pc = "ready" /\ UNCHANGED committedText
    BY <1>1 DEF TranslateUnit
  <2> HIDE DEF d
  <2>2. InFlight = <<>>
    BY <2>1 DEF InFlight, ControlInv, NoDecision
  <2>3. CASE Attempt(d, 1)
    <3>1. outcome'[Head(stable).rev] = "pending" /\ decision' = d
      BY <2>1, <2>3, QueueTail DEF Attempt
    <3>2. InFlight' = <<Head(stable).rev>>
      BY <2>1, <3>1 DEF InFlight
    <3> QED BY <2>1, <2>2, <3>2, HeadLeaves
  <2>4. CASE Abandon(d) /\ UNCHANGED <<pc, taskVars>>
    <3>1. InFlight' = <<>>
      BY <2>1, <2>4 DEF InFlight, ControlInv, NoDecision, taskVars
    <3> QED BY <2>1, <2>2, <3>1, HeadLeaves
  <2> QED BY <2>1, <2>3, <2>4 DEF Execute
<1>2. CASE SkipUnit
  <2>1. InFlight = <<>> /\ InFlight' = <<>>
    BY <1>2 DEF SkipUnit, InFlight, ControlInv, NoDecision, taskVars
  <2> QED BY <1>2, <2>1, HeadLeaves DEF SkipUnit, targetVars
<1>3. CASE TranslatePartial
  <2> DEFINE d == [rev |-> partial.rev, committed |-> FALSE, text |-> partial.text]
  <2>1. Execute(d) /\ ~d.committed /\ pc = "ready" /\ UNCHANGED <<stable, committedText>>
    BY <1>3 DEF TranslatePartial
  <2> HIDE DEF d
  <2>2. ~decision.committed /\ ~decision'.committed
    BY <2>1 DEF ControlInv, NoDecision, Execute, Attempt, taskVars
  <2>3. InFlight = <<>> /\ InFlight' = <<>>
    BY <2>2 DEF InFlight
  <2> QED BY <2>1, <2>3, LedgerStutter
<1>4. CASE KeepPartial \/ Idle \/ Return \/ Awaken \/ DrainCancel \/ Retry
  <2>1. UNCHANGED <<decision, outcome, stable, committedText>>
    BY <1>4 DEF KeepPartial, Idle, Return, Awaken, DrainCancel, Retry, Attempt, queueVars, taskVars, targetVars, shownVars
  <2>2. InFlight' = InFlight
    BY <2>1 DEF InFlight
  <2> QED BY <2>1, <2>2, LedgerStutter
<1>5. CASE Finish \/ Closed \/ GiveUp
  <2>1. UNCHANGED <<stable, committedText>> /\ decision' = NoDecision
    BY <1>5 DEF Finish, Closed, GiveUp, Release, queueVars, targetVars
  <2>2. InFlight' = <<>>
    BY <2>1 DEF InFlight, NoDecision
  <2>3. CASE Unsettled
    BY <2>1, <2>2, <2>3, FlightLeaves
  <2>4. CASE ~Unsettled
    <3>1. InFlight = <<>>
      BY <2>4 DEF Unsettled, InFlight
    <3> QED BY <2>1, <2>2, <3>1, LedgerStutter
  <2> QED BY <2>3, <2>4
<1> QED BY <1>1, <1>2, <1>3, <1>4, <1>5 DEF Consume

\* An answer translates or drops the oldest waiting span, or is no step of the ledger.
LEMMA StreamLedger ==
  ASSUME TypeOK, ControlInv, OrderInv, Stream
  PROVE  \/ UNCHANGED <<Waiting, committedText>>
         \/ /\ Waiting # <<>> /\ Waiting' = Tail(Waiting)
            /\ committedText' = committedText \/ committedText' = Append(committedText, Head(Waiting))
<1>1. task = "running" /\ UNCHANGED <<stable, decision>>
  BY DEF Stream, Delta, FinalAnswer, Fail, Progressing, queueVars, taskVars
<1>2. CASE Delta \/ \E reported \in BOOLEAN : Fail(reported)
  <2>1. UNCHANGED <<outcome, committedText>>
    BY <1>2 DEF Delta, Fail
  <2>2. InFlight' = InFlight
    BY <1>1, <2>1 DEF InFlight
  <2> QED BY <1>1, <2>1, <2>2, LedgerStutter
<1>3. ASSUME NEW answer \in Answers, FinalAnswer(answer)
      PROVE  \/ UNCHANGED <<Waiting, committedText>>
             \/ /\ Waiting # <<>> /\ Waiting' = Tail(Waiting)
                /\ committedText' = committedText \/ committedText' = Append(committedText, Head(Waiting))
  <2>1. CASE ~decision.committed
    <3>1. UNCHANGED committedText /\ InFlight = <<>> /\ InFlight' = <<>>
      BY <1>1, <1>3, <2>1 DEF FinalAnswer, InFlight
    <3> QED BY <1>1, <3>1, LedgerStutter
  <2>2. CASE decision.committed
    <3>1. Unsettled /\ decision.rev \in Revisions
      BY <1>1, <2>2, RunningIsUnsettled, FlightIsPending
    <3>2. CASE Commit(answer)
      <4>1. outcome'[decision.rev] # "pending" /\ committedText' = Append(committedText, decision.rev)
        BY <3>1, <3>2 DEF Commit, TypeOK, ShownTypeOK
      <4>2. InFlight' = <<>>
        BY <1>1, <4>1 DEF InFlight
      <4> QED BY <1>1, <3>1, <4>1, <4>2, FlightLeaves
    <3>3. CASE NothingToCommit
      <4>1. outcome'[decision.rev] # "pending" /\ UNCHANGED committedText
        BY <3>1, <3>3 DEF NothingToCommit, TypeOK, ShownTypeOK
      <4>2. InFlight' = <<>>
        BY <1>1, <4>1 DEF InFlight
      <4> QED BY <1>1, <3>1, <4>1, <4>2, FlightLeaves
    <3> QED BY <1>3, <2>2, <3>2, <3>3 DEF FinalAnswer
  <2> QED BY <2>1, <2>2
<1> QED BY <1>2, <1>3 DEF Stream

\* Every step is a step of the ledger, or a stutter.
LEMMA LedgerStep ==
  ASSUME TypeOK, ControlInv, OrderInv, TargetMatchesOutcomes, [Next]_vars
  PROVE  \/ UNCHANGED <<Waiting, committedText>>
         \/ \E r \in Revisions : /\ \A i \in DOMAIN Waiting : Waiting[i] < r
                                 /\ \A i \in DOMAIN committedText : committedText[i] < r
                                 /\ Waiting' = Append(Waiting, r) /\ UNCHANGED committedText
         \/ /\ Waiting # <<>> /\ Waiting' = Tail(Waiting)
            /\ committedText' = committedText \/ committedText' = Append(committedText, Head(Waiting))
<1>1. CASE \E kind \in {"stable", "final"}, fresh \in BOOLEAN : SubmitCommitted(kind, fresh)
  BY <1>1, AcceptStep
<1>2. CASE \/ \E text \in Texts \cup {NoText}, superseded \in BOOLEAN : SubmitPartial(text, superseded)
           \/ EndOfInput \/ Begin \/ Cancelled \/ Close \/ DrainDeadline \/ LatencyBudgetElapses \/ UNCHANGED vars
  <2>1. UNCHANGED <<decision, outcome, stable, committedText>>
    BY <1>2 DEF SubmitPartial, EndOfInput, Begin, Cancelled, Close, DrainDeadline, LatencyBudgetElapses, vars,
                queueVars, taskVars, targetVars, shownVars
  <2>2. InFlight' = InFlight
    BY <2>1 DEF InFlight
  <2> QED BY <2>1, <2>2, LedgerStutter
<1>3. CASE Consume
  BY <1>3, ConsumeLedger
<1>4. CASE Stream
  BY <1>4, StreamLedger
<1> QED BY <1>1, <1>2, <1>3, <1>4 DEF Next, Produce

\* The scheduler implements the ledger of accepted spans: each is translated at
\* most once, in order, and nothing else changes the target (scheduler.py, run).
THEOREM SchedulerImplementsLedger == Spec => ImplementsLedger
<1>1. Init => Ledger!Init
  <2> SUFFICES ASSUME Init PROVE Ledger!Init
    OBVIOUS
  <2>1. Waiting = <<>>
    <3>1. RevsOf(stable) \in Seq(Revisions) /\ InFlight = <<>>
      BY InitType, WaitingType DEF Init, InFlight, NoDecision
    <3>2. RevsOf(stable) = <<>>
      BY DEF Init, RevsOf
    <3> QED BY <3>1, <3>2, ConcatEmptySeq DEF Waiting
  <2> QED BY <2>1 DEF Init, Ledger!Init, Waiting, RevsOf
<1>2. TypeOK /\ ControlInv /\ OrderInv /\ TargetMatchesOutcomes /\ [Next]_vars => [Ledger!Next]_Ledger!vars
  <2> SUFFICES ASSUME TypeOK, ControlInv, OrderInv, TargetMatchesOutcomes, [Next]_vars
               PROVE  [Ledger!Next]_Ledger!vars
    OBVIOUS
  <2> QED BY LedgerStep DEF Ledger!Next, Ledger!Accept, Ledger!Translate, Ledger!Drop, Ledger!vars, Waiting, RevsOf, Revisions
<1> QED BY <1>1, <1>2, TypeCorrect, ControlCorrect, OrderCorrect, OutcomeInvariants, PTL
        DEF Spec, ImplementsLedger, Ledger!Spec
=============================================================================
