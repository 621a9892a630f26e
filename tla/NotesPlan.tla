------------------------------ MODULE NotesPlan ------------------------------
(***************************************************************************)
(* How the assistant divides its inputs (assistant/windows.py, llm.py):    *)
(* the windows of a long transcript, the share of each attachment in the   *)
(* prompt, the pages for a window, and the reasoning before an answer.     *)
(* A step takes an input and gives the result the code computes.           *)
(***************************************************************************)
EXTENDS Integers, Sequences, SequencesExt, FiniteSets, FiniteSetsExt, Functions

CONSTANTS
  Transcripts,                             \* sequences of [start, end, weight]
  Attachments,                             \* sequences of sequences of page lengths
  Pages,                                   \* pages in order of their score: lengths
  RawAnswers,                              \* answers: "open", "close" or "word"
  TargetMs, MaxMs, MinMs, MaxChars,        \* WINDOW_TARGET_MS, .._MAX_MS, .._MIN_MS, .._MAX_CHARS
  Budget, MinRoom, Gap                     \* a budget, the least room worth a part, a blank line

VARIABLES input, output
vars == <<input, output>>
Init == input = <<>> /\ output = <<>>
----------------------------------------------------------------------------
(* plan_windows                                                            *)

Weight(lines) == FoldFunction(+, 0, [i \in DOMAIN lines |-> lines[i].weight])
Start(lines) == lines[1].start
Span(lines) == Max({lines[i].end : i \in DOMAIN lines}) - Start(lines)
Timed(lines) == Span(lines) > 0 /\ Last(lines).start > Start(lines)

\* round(a / b): half to even.
RoundDiv(a, b) ==
  LET q == a \div b  rest == 2 * (a % b)
  IN IF rest > b \/ (rest = b /\ q % 2 = 1) THEN q + 1 ELSE q

\* The least count from n on for which total / count does not exceed the limit.
AtLeast(n, total, limit) == IF n * limit >= total THEN n ELSE (total + limit - 1) \div limit

WindowCount(lines) ==
  LET byTime == IF Timed(lines)
                THEN AtLeast(Max({1, RoundDiv(Span(lines), TargetMs)}), Span(lines), MaxMs) ELSE 1
  IN Min({AtLeast(byTime, Weight(lines), MaxChars), Len(lines)})

\* Where a line is, in time or in the text, and how much of that there is.
Position(lines, i) ==
  IF Timed(lines) THEN lines[i].start - Start(lines) ELSE Weight(SubSeq(lines, 1, i - 1))
Extent(lines) == IF Timed(lines) THEN Span(lines) ELSE Weight(lines)

Bucket(lines, count, i) == Min({count - 1, (Position(lines, i) * count) \div Extent(lines)}) + 1

Buckets(lines, count) ==
  [n \in 1..count |->
     LET places == {i \in DOMAIN lines : Bucket(lines, count, i) = n}
         at == SetToSortSeq(places, LAMBDA i, j : i < j)
     IN [k \in DOMAIN at |-> lines[at[k]]]]

TooHeavy(lines) == 4 * Weight(lines) > 5 * MaxChars

\* _split_by_chars cuts a heavy window where half of its text is reached.
Cut(lines) ==
  LET reached == {i \in DOMAIN lines : 2 * Weight(SubSeq(lines, 1, i)) >= Weight(lines)}
  IN Max({1, Min({Len(lines) - 1, Min(reached)})})

SplitByChars(lines) ==
  LET split[range \in (1..Len(lines)) \X (1..Len(lines))] ==
        LET part == SubSeq(lines, range[1], range[2])
            cut == range[1] + Cut(part) - 1
        IN IF Len(part) < 2 \/ ~TooHeavy(part) THEN <<part>>
           ELSE split[<<range[1], cut>>] \o split[<<cut + 1, range[2]>>]
  IN split[<<1, Len(lines)>>]

\* A last window that is short joins the one before, when that does not get heavy.
JoinShort(lines, windows) ==
  LET n == Len(windows)  last == Last(windows)
  IN IF Timed(lines) /\ n >= 2 /\ Last(last).end - Head(last).start < MinMs
          /\ ~TooHeavy(windows[n - 1] \o last)
     THEN SubSeq(windows, 1, n - 2) \o <<windows[n - 1] \o last>>
     ELSE windows

PlanWindows(lines) ==
  IF lines = <<>> THEN <<>>
  ELSE IF WindowCount(lines) <= 1 THEN <<lines>>
  ELSE LET buckets == SelectSeq(Buckets(lines, WindowCount(lines)), LAMBDA b : b # <<>>)
       IN JoinShort(lines, FlattenSeq([n \in DOMAIN buckets |-> SplitByChars(buckets[n])]))
----------------------------------------------------------------------------
(* budget_materials                                                        *)

Length(file) == FoldFunction(+, 0, file) + Gap * (Len(file) - 1)

\* Shares in order of length: what is left, divided among the files that are left.
Ordered(files) == SetToSortSeq(DOMAIN files, LAMBDA i, j :
  Length(files[i]) < Length(files[j]) \/ (Length(files[i]) = Length(files[j]) /\ i < j))

Shares(files) ==
  LET order == Ordered(files)
      left[n \in 0..Len(order)] ==
        IF n = 0 THEN Budget
        ELSE left[n - 1] - Min({Length(files[order[n]]), left[n - 1] \div (Len(order) - n + 1)})
  IN [i \in DOMAIN files |-> LET n == CHOOSE n \in DOMAIN order : order[n] = i IN left[n - 1] - left[n]]

\* _take_segments: whole pages, and a part of the next one when there is room for it.
Taken(file, share) ==
  LET upTo(n) == FoldFunction(+, 0, SubSeq(file, 1, n)) + Gap * (IF n = 0 THEN 0 ELSE n - 1)
      whole == Max({n \in 0..Len(file) : upTo(n) <= share})
      room == share - upTo(whole) - (IF whole = 0 THEN 0 ELSE Gap)
  IN IF whole < Len(file) /\ room >= MinRoom
     THEN upTo(whole) + (IF whole = 0 THEN 0 ELSE Gap) + room ELSE upTo(whole)

Materials(files) ==
  IF FoldFunction(+, 0, [i \in DOMAIN files |-> Length(files[i])]) <= Budget
  THEN [i \in DOMAIN files |-> Length(files[i])]
  ELSE LET shares == Shares(files) IN [i \in DOMAIN files |->
         IF shares[i] >= Length(files[i]) THEN Length(files[i]) ELSE Taken(files[i], shares[i])]

----------------------------------------------------------------------------
(* select_materials, from the scores on: the best pages that fit, and a    *)
(* part of one that does not.                                              *)

\* Mutant: a page is added while any budget is left.
ChosenWhole(pages) ==
  LET used[n \in 0..Len(pages)] ==
        IF n = 0 THEN 0 ELSE IF used[n - 1] >= Budget THEN used[n - 1] ELSE used[n - 1] + pages[n] + Gap
  IN [n \in DOMAIN pages |-> IF used[n] = used[n - 1] THEN 0 ELSE pages[n]]
----------------------------------------------------------------------------
(* strip_reasoning: leading blocks go, and what an unopened tag closes.    *)

Chosen(pages) ==
  LET used[n \in 0..Len(pages)] ==
        IF n = 0 THEN 0
        ELSE LET before == used[n - 1] IN
             IF before >= Budget THEN before
             ELSE IF before + pages[n] + Gap <= Budget THEN before + pages[n] + Gap
             ELSE IF Budget - before >= MinRoom THEN Budget ELSE before
  IN [n \in DOMAIN pages |-> IF used[n] = used[n - 1] THEN 0 ELSE used[n] - used[n - 1] - Gap]

First(answer, token) == SelectInSeq(answer, LAMBDA t : t = token)

StripReasoning(answer) ==
  LET opened == First(answer, "open")  closed == First(answer, "close")
      text == IF closed # 0 /\ (opened = 0 \/ closed < opened) THEN SubSeq(answer, closed + 1, Len(answer))
              ELSE answer
      strip[n \in 1..Len(text) + 1] ==
        LET rest == SubSeq(text, n, Len(text))  close == First(rest, "close")
        IN IF rest = <<>> \/ Head(rest) # "open" THEN rest
           ELSE IF close = 0 THEN <<>> ELSE strip[n + close]
  IN strip[1]
----------------------------------------------------------------------------
Takes(kind, in, out) == input = <<>> /\ input' = <<kind, in>> /\ output' = <<kind, out>>
Forgets == input # <<>> /\ input' = <<>> /\ output' = <<>>

Next ==
  \/ \E lines \in Transcripts : Takes("windows", lines, PlanWindows(lines))
  \/ \E files \in Attachments : Takes("materials", files, Materials(files))
  \/ \E pages \in Pages : Takes("pages", pages, Chosen(pages))
  \/ \E answer \in RawAnswers : Takes("reasoning", answer, StripReasoning(answer))
  \/ Forgets

Spec == Init /\ [][Next]_vars
----------------------------------------------------------------------------
Of(kind) == input # <<>> /\ input[1] = kind
In == input[2]
Out == output[2]

(* "Split lines into consecutive windows": every line of the transcript is *)
(* in one window, in order, and no window is empty.                        *)
WindowsPartition ==
  Of("windows") => FlattenSeq(Out) = In /\ \A n \in DOMAIN Out : Out[n] # <<>>

(* "never more than max_chars of formatted transcript": a window is heavy  *)
(* only when it is a single line, whatever was cut or joined.              *)
WindowsFitThePrompt ==
  Of("windows") /\ Len(Out) > 1 => \A n \in DOMAIN Out : Len(Out[n]) = 1 \/ ~TooHeavy(Out[n])

(* "sharing budget chars fairly": what is used fits the budget, a file is  *)
(* cut only when it is longer than any share that another file got beyond  *)
(* it, and a file shorter than an equal share is whole.                    *)
BudgetIsShared ==
  Of("materials") =>
    /\ FoldFunction(+, 0, Out) <= Budget
    /\ \A i, j \in DOMAIN In : Length(In[i]) <= Length(In[j]) /\ Out[i] < Length(In[i])
         => Shares(In)[j] <= Shares(In)[i] + 1
    /\ \A i \in DOMAIN In : Length(In[i]) <= Budget \div Len(In) => Out[i] = Length(In[i])
    /\ FoldFunction(+, 0, Shares(In)) >= Min({Budget, FoldFunction(+, 0, [i \in DOMAIN In |-> Length(In[i])])})

(* The pages of a window fit the budget, and the best one is among them.   *)
PagesFitTheBudget ==
  Of("pages") /\ In # <<>> =>
    /\ FoldFunction(+, 0, [n \in DOMAIN In |-> IF Out[n] = 0 THEN 0 ELSE Out[n] + Gap]) <= Budget
    /\ Out[1] > 0

(* "Only reasoning ahead of the answer is removed": what is left is the    *)
(* end of the answer, never opens with reasoning, and is everything when   *)
(* the answer opens with a word and no tag is closed before it is opened.  *)
AnswerIsKept ==
  Of("reasoning") =>
    /\ IsSuffix(Out, In) /\ (Out # <<>> => Head(Out) # "open")
    /\ In # <<>> /\ Head(In) = "word" /\ (First(In, "close") = 0 \/ First(In, "open") \in 1..First(In, "close"))
         => Out = In
=============================================================================
