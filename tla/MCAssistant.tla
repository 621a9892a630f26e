----------------------------- MODULE MCAssistant -----------------------------
(***************************************************************************)
(* The parts of the assistant, each in its own behaviours: the requests of *)
(* a connection, the calls of a client, the clean-up of an answer and the  *)
(* division of its inputs.                                                 *)
(***************************************************************************)
EXTENDS AssistantTasks

CONSTANTS
  r1, r2,
  MaxCalls, MaxChunk, TextLength, MaxAttempts, MaxContinuations, MinOverlap, OverlapWindow,
  MaxLines, Limit,
  TargetMs, MaxMs, MinMs, MaxChars, Budget, MinRoom, Gap

ASSUME AssistantAssumption ==
  /\ {MaxCalls, MaxChunk, TextLength, MaxAttempts, MaxLines, TargetMs, MaxMs, MaxChars, Budget} \subseteq Nat \ {0}
  /\ {MaxContinuations, OverlapWindow, Limit, MinMs, MinRoom, Gap} \subseteq Nat
  /\ MinOverlap \in 1..OverlapWindow

VARIABLES
  part,                          \* the part a behaviour is of
  client, call, calls,           \* ChatCalls
  answer, gate, out, ended,      \* NotesGate
  input, output                  \* NotesPlan

SeqsUpTo(S, n) == UNION {[1..k -> S] : k \in 0..n}

\* Lines at once, a moment or a pause after each other, long ones or short ones of no time.
Spaced(gaps, weights) ==
  LET starts[i \in 1..Len(gaps)] == IF i = 1 THEN gaps[1] ELSE starts[i - 1] + gaps[i]
  IN [i \in DOMAIN gaps |-> [start |-> starts[i], end |-> starts[i] + weights[i] \div 6, weight |-> weights[i]]]
Transcripts ==
  UNION {{Spaced(gaps, weights) : gaps \in [1..k -> {0, 2, 5}], weights \in [1..k -> {1, 6}]} : k \in 0..4}

MCRequests == {r1, r2}
MCKinds == AllKinds
C == INSTANCE ChatCalls
G == INSTANCE NotesGate
P == INSTANCE NotesPlan WITH
  Attachments <- UNION {[1..k -> SeqsUpTo({2, 5}, 2) \ {<<>>}] : k \in 1..3},
  Pages <- SeqsUpTo({1, 3, 7}, 4),
  RawAnswers <- SeqsUpTo({"open", "close", "word"}, 4)

callsVars == <<client, call, calls>>
gateVars == <<answer, gate, out, ended>>
planVars == <<input, output>>

PartsInit ==
  /\ part \in {"tasks", "calls", "gate", "plan"}
  /\ Init /\ C!Init /\ G!Init /\ P!Init

PartsNext ==
  /\ part' = part
  /\ \/ part = "tasks" /\ Next /\ UNCHANGED <<callsVars, gateVars, planVars>>
     \/ part = "calls" /\ C!Next /\ UNCHANGED <<vars, gateVars, planVars>>
     \/ part = "gate" /\ G!Next /\ UNCHANGED <<vars, callsVars, planVars>>
     \/ part = "plan" /\ P!Next /\ UNCHANGED <<vars, callsVars, gateVars>>

\* What is fair of the tasks is not enabled in the other parts, where they stay as they start.
PartsSpec == PartsInit /\ [][PartsNext]_<<part, vars, callsVars, gateVars, planVars>> /\ Fairness

(* A text is what the model wrote, each character once; what an endpoint   *)
(* refuses is never sent again and up to three refusals are worked around. *)
CallsAreFaithful == C!TypeOK /\ C!TextIsWhole /\ C!NeverSentAgain /\ C!RefusalsAreWorkedOut

(* Notes are the answer from its first heading on, unless there is none;   *)
(* fences stay balanced and the closing answer repeats no section.         *)
NotesAreFaithful ==
  G!TypeOK /\ G!NotesAreTheAnswer /\ G!NothingIsHeldBack /\ G!FencesStayBalanced /\ G!ClosingRepeatsNothing

(* Every line is in one window that fits the prompt, files and pages share *)
(* their budgets, and only reasoning is removed from an answer.            *)
InputsAreDivided ==
  /\ P!WindowsPartition /\ P!WindowsFitThePrompt /\ P!BudgetIsShared
  /\ P!PagesFitTheBudget /\ P!AnswerIsKept
=============================================================================
