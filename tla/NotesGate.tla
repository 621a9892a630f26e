------------------------------ MODULE NotesGate ------------------------------
(***************************************************************************)
(* The clean-up of notes while and after a model writes them               *)
(* (assistant/output.py): PreambleGate, which holds back what comes before *)
(* the first heading, and the merge of a closing answer into the sections. *)
(* An answer is a sequence of lines of a few kinds.                        *)
(***************************************************************************)
EXTENDS Naturals, Sequences, SequencesExt, FiniteSets

CONSTANTS
  MaxLines,  \* bound: lines of an answer
  Limit      \* lines held back without a heading (limit, in characters)

VARIABLES
  answer,    \* the lines that arrived
  gate,      \* PreambleGate
  out,       \* the lines released
  ended      \* finish was called

vars == <<answer, gate, out, ended>>

\* "fence" is ```, "open" is ```markdown; "one" and "two" are sections, "title" is # ..
Lines == {"text", "blank", "fence", "open", "title", "one", "two"}
Sections == {"one", "two"}
Fences == {"fence", "open"}

TypeOK ==
  /\ answer \in Seq(Lines) /\ Len(answer) <= MaxLines /\ out \in Seq(Lines) /\ ended \in BOOLEAN
  /\ gate \in [sectionsOnly : BOOLEAN, pending : Seq(Lines), fenced : BOOLEAN, held : Seq(Lines), open : BOOLEAN]

Starts(sectionsOnly) == IF sectionsOnly THEN Sections ELSE Sections \cup {"title"}

Init ==
  /\ answer = <<>> /\ out = <<>> /\ ended = FALSE
  /\ gate = [sectionsOnly |-> FALSE, pending |-> <<>>, fenced |-> FALSE, held |-> <<>>, open |-> FALSE]

\* The gate of a part of long notes starts at a section, the one of a document at its title.
ForPart ==
  /\ answer = <<>> /\ ~ended /\ ~gate.sectionsOnly
  /\ gate' = [gate EXCEPT !.sectionsOnly = TRUE] /\ UNCHANGED <<answer, out, ended>>
----------------------------------------------------------------------------
Count(lines, kinds) == Len(SelectSeq(lines, LAMBDA line : line \in kinds))
OpensFence(preamble) == Count(preamble, Fences) % 2 = 1

\* The first line a fence mark opens, behind blank lines.
WithoutBlank(lines) ==
  LET solid == {i \in DOMAIN lines : lines[i] # "blank"}
  IN IF solid = {} THEN <<>> ELSE SubSeq(lines, CHOOSE i \in solid : \A j \in solid : i <= j, Len(lines))
TrimEnd(lines) == Reverse(WithoutBlank(Reverse(lines)))
StripBlank(lines) == TrimEnd(WithoutBlank(lines))
Opened(lines) == WithoutBlank(lines) # <<>> /\ Head(WithoutBlank(lines)) \in Fences
Closed(lines) == StripBlank(lines) # <<>> /\ Last(StripBlank(lines)) = "fence"
WithoutClosing(lines) == Front(TrimEnd(lines))
\* The closing fence stands on a line of its own behind another line.
ClosedBehind(lines) == Closed(lines) /\ Len(TrimEnd(lines)) > 1

\* strip_code_fence and clean_markdown: a fence around the whole answer.
CleanMarkdown(lines) ==
  IF ~Opened(lines) THEN StripBlank(lines)
  ELSE LET body == Tail(WithoutBlank(lines))
       IN StripBlank(IF ClosedBehind(body) THEN WithoutClosing(body) ELSE body)

\* _pass: what may be the closing fence at the end is held back, while one is due.
Pass(next, lines) ==
  IF ~next.fenced THEN [gate |-> next, text |-> lines]
  ELSE LET buffer == next.held \o lines
           solid == {i \in DOMAIN buffer : buffer[i] \notin {"blank", "fence"}}
           keep == IF solid = {} THEN 0 ELSE CHOOSE i \in solid : \A j \in solid : j <= i
       IN [gate |-> [next EXCEPT !.held = SubSeq(buffer, keep + 1, Len(buffer))],
           text |-> SubSeq(buffer, 1, keep)]

\* _open_without_heading: everything, minus an opening fence and its closing one.
OpenWithoutHeading(lines) ==
  LET opened == [gate EXCEPT !.pending = <<>>, !.open = TRUE]
      body == Tail(WithoutBlank(lines))
  IN IF ~Opened(lines) THEN [gate |-> opened, text |-> WithoutBlank(lines)]
     ELSE IF ClosedBehind(body)
     THEN [gate |-> opened, text |-> WithoutBlank(WithoutClosing(body))]
     ELSE Pass([opened EXCEPT !.fenced = TRUE], WithoutBlank(body))

Releases(step) == gate' = step.gate /\ out' = out \o step.text

\* feed of one line.
Feed(line) ==
  /\ ~ended /\ Len(answer) < MaxLines /\ answer' = Append(answer, line) /\ UNCHANGED ended
  /\ LET pending == Append(gate.pending, line) IN
     IF gate.open THEN Releases(Pass(gate, <<line>>))
     ELSE IF line \in Starts(gate.sectionsOnly)
     THEN Releases(Pass([gate EXCEPT !.pending = <<>>, !.open = TRUE, !.fenced = OpensFence(gate.pending)], <<line>>))
     ELSE IF Len(pending) > Limit THEN Releases(OpenWithoutHeading(pending))
     ELSE gate' = [gate EXCEPT !.pending = pending] /\ UNCHANGED out

\* The last of what is held back, minus the closing fence that is due.
WithoutLastFence(lines) ==
  IF Closed(lines) THEN LET solid == Len(TrimEnd(lines))
                        IN SubSeq(lines, 1, solid - 1) \o SubSeq(lines, solid + 1, Len(lines))
  ELSE lines

\* Mutant: what is held back is lost.
FinishForgets ==
  /\ ~ended /\ ended' = TRUE /\ UNCHANGED <<answer, out, gate>>

Finish ==
  LET step == IF gate.open THEN [gate |-> gate, text |-> <<>>] ELSE OpenWithoutHeading(gate.pending)
      held == step.text \o step.gate.held
  IN /\ ~ended /\ ended' = TRUE /\ UNCHANGED answer
     /\ gate' = [step.gate EXCEPT !.held = <<>>]
     /\ out' = out \o (IF step.gate.fenced THEN WithoutLastFence(held) ELSE step.text)

----------------------------------------------------------------------------
(* The merge of the closing answer, which repeats no section.              *)

\* From the first title on, or everything; without a fence around it.
TrimPreamble(lines) ==
  LET titles == {i \in DOMAIN lines : lines[i] = "title"}
      at == CHOOSE i \in titles : \A j \in titles : i <= j
      body == StripBlank(SubSeq(lines, at, Len(lines)))
  IN IF titles = {} THEN CleanMarkdown(lines)
     ELSE IF OpensFence(SubSeq(lines, 1, at - 1)) /\ Closed(body) THEN StripBlank(WithoutClosing(body))
     ELSE body

HeadingsOf(lines) == {lines[i] : i \in DOMAIN lines} \cap Sections

\* split_header: what is before the first section, and the rest.
SplitHeader(lines) ==
  LET text == CleanMarkdown(lines)
      at == {i \in DOMAIN text : text[i] \in Sections}
      first == CHOOSE i \in at : \A j \in at : i <= j
  IN IF at = {} THEN [head |-> text, rest |-> <<>>]
     ELSE [head |-> StripBlank(SubSeq(text, 1, first - 1)), rest |-> StripBlank(SubSeq(text, first, Len(text)))]

\* drop_repeated_sections: a section goes with all its lines.
SectionAt(lines, i) ==
  LET before == {j \in 1..i : lines[j] \in Sections}
  IN IF before = {} THEN "none" ELSE lines[CHOOSE j \in before : \A k \in before : k <= j]

DropRepeated(lines, known) ==
  LET kept == [i \in DOMAIN lines |-> IF SectionAt(lines, i) \in known THEN "dropped" ELSE lines[i]]
  IN SelectSeq(kept, LAMBDA line : line # "dropped")

Closing(lines, known) ==
  LET split == SplitHeader(TrimPreamble(lines))
  IN [head |-> split.head, closing |-> DropRepeated(split.rest, known)]
----------------------------------------------------------------------------
Next == ForPart \/ Finish \/ \E line \in Lines : Feed(line)
Spec == Init /\ [][Next]_vars
----------------------------------------------------------------------------
HasHeading == \E i \in DOMAIN answer : answer[i] \in Starts(gate.sectionsOnly)
FirstHeading ==
  CHOOSE i \in DOMAIN answer : /\ answer[i] \in Starts(gate.sectionsOnly)
                               /\ \A j \in 1..i - 1 : answer[j] \notin Starts(gate.sectionsOnly)
Prose(lines) == SelectSeq(lines, LAMBDA line : line \notin {"blank"} \cup Fences)

(* "Drop chatter before the first heading": of an answer with a heading in *)
(* time the notes are what follows it, line for line, but for a fence that *)
(* closes one the chatter opened; nothing is lost, doubled or reordered.   *)
NotesAreTheAnswer ==
  ended /\ HasHeading /\ FirstHeading <= Limit + 1 =>
    LET body == SubSeq(answer, FirstHeading, Len(answer))
    IN out = body \/ (OpensFence(SubSeq(answer, 1, FirstHeading - 1)) /\ out = WithoutLastFence(body))

(* Without one everything is released but for fences around it.            *)
NothingIsHeldBack ==
  ended /\ ~HasHeading => Prose(out) = Prose(answer)

(* A fence the model wrapped its answer in is dropped at both ends: what   *)
(* follows in a long document is no code block.                            *)
FencesStayBalanced ==
  ended /\ Count(answer, Fences) = 2 /\ Closed(answer) /\ answer[1] \in Fences => Count(out, Fences) = 0

(* The closing answer adds no section twice and no line of a section that  *)
(* is dropped, and its header holds no section.                            *)
ClosingRepeatsNothing ==
  ended => \A known \in SUBSET Sections : LET merged == Closing(answer, known) IN
    /\ HeadingsOf(merged.closing) \cap known = {} /\ HeadingsOf(merged.head) = {}
    /\ \A i \in DOMAIN merged.closing : merged.closing[i] = "text" => i > 1
=============================================================================
