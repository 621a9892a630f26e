---------------------------- MODULE SessionContext ----------------------------
(***************************************************************************)
(* The lecture context: what the assistant derives from course materials   *)
(* (assistant/terms.py), how the shell merges it into what the user typed  *)
(* (lib/context.ts), what a session reads from it (session_context.py) and *)
(* which terms a recognizer is given (backends/asr/_context.py).           *)
(*                                                                         *)
(* A phrase is [key, form, tokens, ends]: its words case-folded and as     *)
(* written, its tokens [script, size], and whether it holds the end of a   *)
(* sentence. A line is [label, separator, items], an item a phrase or a    *)
(* source and its target.                                                  *)
(***************************************************************************)
EXTENDS Naturals, Sequences, SequencesExt, FiniteSets, FiniteSetsExt

CONSTANTS
  Materials,       \* what may be imported: [titles, lines, answer]
  TypedLines,      \* what the user may type
  SpokenLanguages, \* the languages a session may have
  MaxEdits,        \* bound: changes of the text, lines and imports
  ContextChars, TopicChars, PromptChars, TermsLineChars, TermChars, UsableChars, SideChars,
  MaxTerms, MaxAnswers, MinOccurrences,
  Back,            \* how far a cut looks back for a space
  MaxKeyterms, KeytermChars, KeytermBytes   \* of a recognizer

VARIABLES
  material,   \* what was imported last
  offered,    \* the reply of the assistant, [context, terms, glossary]
  context,    \* the lines of the lecture's context
  standing,   \* the lines of the standing glossary
  language,   \* of the session
  parsed,     \* what the session reads
  phase,      \* "edit" or "live"
  skipped,    \* lines of an import that did not fit
  edits

vars == <<material, offered, context, standing, language, parsed, phase, skipped, edits>>

Total(s) == FoldLeft(LAMBDA n, x : n + x, 0, s)
Apply(s, Op(_)) == [i \in DOMAIN s |-> Op(s[i])]
Keys(phrases) == {phrases[i].key : i \in DOMAIN phrases}
Ceiling(n, d) == (n + d - 1) \div d

(***************************** characters **********************************)

Cjk == {"han", "kana", "hangul"}
\* Han counts as a word for two characters, kana as one for four.
WordCount(tokens) ==
  Total(Apply(tokens, LAMBDA t : CASE t.script = "han" -> Ceiling(t.size, 2) [] t.script = "kana" -> Ceiling(t.size, 4)
                                   [] OTHER -> 1))
Size(tokens) == Total(Apply(tokens, LAMBDA t : t.size)) + IF tokens = <<>> THEN 0 ELSE Len(tokens) - 1
\* Digits and marks have no script.
ScriptsOf(tokens) == {tokens[i].script : i \in DOMAIN tokens} \ {"mark"}
AllScripts == {"latin", "han", "kana", "hangul", "cyrillic"}
AsrScripts(l) ==
  CASE l = "auto" -> AllScripts
    [] l = "zh" -> {"han", "latin"}
    [] l = "ja" -> {"han", "kana", "latin"}
    [] l = "ko" -> {"hangul", "han", "latin"}
    [] l = "ru" -> {"cyrillic", "latin"}
    [] OTHER -> {"latin"}
FitsScripts(tokens, allowed) ==
  LET Letters(S) == Total(Apply(tokens, LAMBDA t : IF t.script \in S THEN t.size ELSE 0))
  IN 2 * Letters(allowed) >= Letters(AllScripts)

\* The text cut at the last space before the limit, if it is near and no CJK character follows the cut.
StartOf(tokens, i) == IF i = 1 THEN 0 ELSE Size(SubSeq(tokens, 1, i - 1)) + 1
\* The cut falls into token m, which starts at "start", or on the space after it; "whole" tokens end with a space.
CutAt(tokens, limit, m, start, whole) ==
  IF /\ whole > 0 /\ Size(SubSeq(tokens, 1, whole)) + Back >= limit
     /\ ~(start + tokens[m].size > limit /\ tokens[m].script \in Cjk)
    THEN SubSeq(tokens, 1, whole)
    ELSE Append(SubSeq(tokens, 1, m - 1), [tokens[m] EXCEPT !.size = Min({@, limit - start})])
CutIn(tokens, limit, m, start) ==
  CutAt(tokens, limit, m, start, IF start + tokens[m].size < limit THEN m ELSE m - 1)
CutAfter(tokens, limit, m) == CutIn(tokens, limit, m, StartOf(tokens, m))
ClipText(tokens, limit) ==
  CASE Size(tokens) <= limit -> tokens
    [] limit = 0 -> <<>>
    [] OTHER -> CutAfter(tokens, limit, Max({i \in DOMAIN tokens : StartOf(tokens, i) < limit}))

(****************************** the grammar ********************************)

EmptyContext == [topic |-> <<>>, hints |-> <<>>, pairs |-> <<>>]

AddHint(acc, p) ==
  IF Size(p.tokens) > TermChars \/ p.key \in Keys(acc.hints) \/ Len(acc.hints) >= MaxTerms THEN acc
  ELSE [acc EXCEPT !.hints = Append(@, p)]
AddPair(acc, source, target) ==
  LET hinted == AddHint(acc, source)
  IN IF source.key \in Keys(Apply(acc.pairs, LAMBDA x : x.source)) \/ Len(acc.pairs) >= MaxTerms THEN hinted
     ELSE [hinted EXCEPT !.pairs = Append(@, [source |-> source, target |-> target])]

\* Both sides short; around a colon also of different scripts and not a list.
IsPair(line, item) ==
  /\ Len(item) = 2 /\ ~item[1].ends /\ ~item[2].ends
  /\ Size(item[1].tokens) <= SideChars /\ Size(item[2].tokens) <= SideChars
  /\ WordCount(item[1].tokens) <= 6
  /\ ~(Size(item[1].tokens) = 1 /\ item[1].tokens[1].script = "latin")
  /\ WordCount(item[2].tokens) <= (IF line.separator = "colon" THEN 8 ELSE 12)
  /\ line.separator = "colon" =>
       /\ line.label # "topic" /\ ScriptsOf(item[1].tokens) # {} /\ ScriptsOf(item[2].tokens) # {}
       /\ ScriptsOf(item[1].tokens) # ScriptsOf(item[2].tokens)
Phrases(line) == FlattenSeq(line.items)
LabelSize == 7
TextOf(line) ==
  (IF line.label \in {"terms", "topic"} THEN << [script |-> "mark", size |-> LabelSize - 1] >> ELSE <<>>)
  \o FlattenSeq(Apply(Phrases(line), LAMBDA p : p.tokens))
Sentence(line) == \E i \in DOMAIN Phrases(line) : Phrases(line)[i].ends

\* An item of a list of terms that is no pair is a term, as it stands.
AddItem(acc, line, item) ==
  IF IsPair(line, item) THEN AddPair(acc, item[1], item[2])
  ELSE IF Len(item) = 1 THEN AddHint(acc, item[1])
  ELSE AddHint(acc, [key |-> item[1].key \o item[2].key, form |-> item[1].form \o item[2].form,
                     tokens |-> item[1].tokens \o item[2].tokens, ends |-> item[1].ends \/ item[2].ends])
IsShortList(line) ==
  /\ ~Sentence(line)
  /\ \A i \in DOMAIN line.items : /\ WordCount(line.items[i][1].tokens) <= 4
                                  /\ Size(line.items[i][1].tokens) <= TermChars
IsShort(line) == ~Sentence(line) /\ WordCount(TextOf(line)) <= 6 /\ Size(TextOf(line)) <= 64

ParseLine(acc, line) ==
  LET topic == [acc EXCEPT !.topic = Append(@, line)]
      items == line.items
  IN CASE line.label = "comment" -> acc
       [] line.label = "terms" -> FoldLeft(LAMBDA a, item : AddItem(a, line, item), acc, items)
       [] line.label = "topic" -> topic
       [] line.label = "" /\ Len(items) = 1 /\ Len(items[1]) = 2 ->
            IF IsPair(line, items[1]) THEN AddPair(acc, items[1][1], items[1][2]) ELSE topic
       [] line.label = "" /\ Len(items) > 1 ->
            IF IsShortList(line) THEN FoldLeft(LAMBDA a, item : AddHint(a, item[1]), acc, items) ELSE topic
       [] OTHER -> IF IsShort(line) THEN AddHint(acc, items[1][1]) ELSE topic

JoinTopic(lines) == FlattenSeq(Apply(lines, TextOf))

\* What is left of n characters.
Room(n, used) == IF n > used THEN n - used ELSE 0

\* The terms in their order until one does not fit.
PackTerms(terms, budget) ==
  LET Pack(p, term) ==
        LET cost == Size(term.tokens) + IF p.terms = <<>> THEN 0 ELSE 2
        IN IF p.full \/ p.used + cost > budget THEN [p EXCEPT !.full = TRUE]
           ELSE [p EXCEPT !.terms = Append(@, term), !.used = @ + cost]
  IN FoldLeft(Pack, [terms |-> <<>>, used |-> 0, full |-> FALSE], terms)
PromptOf(head, header, packed) ==
  [topic |-> head, terms |-> packed.terms,
   size |-> Size(head) + IF packed.terms = <<>> THEN 0 ELSE header + packed.used]
PromptWith(head, header, terms) ==
  PromptOf(head, header, PackTerms(terms, Room(PromptChars, Size(head) + header)))
PromptAfter(head, terms) == PromptWith(head, LabelSize + IF head = <<>> THEN 0 ELSE 1, terms)
BuildAsrPrompt(topic, terms) == PromptAfter(ClipText(topic, TopicChars), terms)

Accumulated(lines, glossary) == FoldLeft(ParseLine, EmptyContext, lines \o glossary)
\* A label is not counted as letters of its own script.
LineFits(line, allowed) == FitsScripts(FlattenSeq(Apply(Phrases(line), LAMBDA p : p.tokens)), allowed)
\* A term and the comma after it.
Listed(terms) ==
  FlattenSeq([i \in DOMAIN terms |->
    LET t == terms[i].tokens IN IF i = Len(terms) THEN t ELSE [t EXCEPT ![Len(t)].size = @ + 1]])

Moved(acc, allowed) ==
  LET sources == Keys(Apply(acc.pairs, LAMBDA x : x.source))
  IN JoinTopic(SelectSeq(acc.topic, LAMBDA x : ~LineFits(x, allowed)))
     \o Listed(SelectSeq(acc.hints, LAMBDA p : ~FitsScripts(p.tokens, allowed) /\ p.key \notin sources))
ContextOf(topic, hints, acc, allowed) ==
  [topic |-> topic, hints |-> hints, glossary |-> acc.pairs, prompt |-> BuildAsrPrompt(topic, hints),
   translationDomain |-> ClipText(Moved(acc, allowed), TopicChars)]
Allowed(acc, allowed) ==
  ContextOf(JoinTopic(SelectSeq(acc.topic, LAMBDA x : LineFits(x, allowed))),
            SelectSeq(acc.hints, LAMBDA p : FitsScripts(p.tokens, allowed)), acc, allowed)
ParseSessionContext(lines, glossary, l) == Allowed(Accumulated(lines, glossary), AsrScripts(l))

\* Mutant: the two parts are cut as one.
DomainCutAtEnd(p) == ClipText(p.topic \o p.translationDomain, TopicChars)
\* The topic of a translation's prompt: what was moved is never cut off.
Domain(p) ==
  LET moved == Size(p.translationDomain)
  IN IF p.translationDomain = <<>> THEN p.topic
     ELSE ClipText(p.topic, IF TopicChars > moved + 1 THEN TopicChars - moved - 1 ELSE 0) \o p.translationDomain

\* The terms a recognizer is given; one that does not fit is skipped.
Bytes(tokens) == Total(Apply(tokens, LAMBDA t : t.size * (CASE t.script \in Cjk -> 3 [] t.script = "cyrillic" -> 2 [] OTHER -> 1)))
                 + Len(tokens) - 1
HintTerms(terms) ==
  LET Take(h, p) == IF \/ Len(h.terms) >= MaxKeyterms \/ p.key \in Keys(h.terms)
                         \/ Size(p.tokens) > KeytermChars \/ h.bytes + Bytes(p.tokens) > KeytermBytes
                      THEN h ELSE [terms |-> Append(h.terms, p), bytes |-> h.bytes + Bytes(p.tokens)]
  IN FoldLeft(Take, [terms |-> <<>>, bytes |-> 0], terms).terms

(**************************** the materials ********************************)

\* A word of the materials is [key, form, kind, size].
Technical(w) == w.kind \in {"acronym", "camel"}
Capital(w) == w.kind \in {"name", "acronym", "camel"}
IsAllCapsLine(line) ==
  LET words == SelectSeq(line, LAMBDA w : w.kind # "break")
      letters == Total(Apply(words, LAMBDA w : w.size))
      capitals == Total(Apply(words, LAMBDA w : IF w.kind = "acronym" THEN w.size ELSE IF Capital(w) THEN 1 ELSE 0))
  IN Len(line) >= 3 /\ letters >= 8 /\ 10 * capitals > 6 * letters

Usable(term) == Total(Apply(term, LAMBDA w : w.size)) + Len(term) - 1 \in 2..UsableChars
\* The end of a run of capitalized words: a name of two to five, without connectors at its end.
Flush(s) ==
  LET ends == {i \in DOMAIN s.run : s.run[i].kind # "connector"}
      name == IF ends = {} THEN <<>> ELSE SubSeq(s.run, 1, Max(ends))
  IN [s EXCEPT !.run = <<>>, !.out = IF Len(name) \in 2..5 /\ Usable(name) THEN Append(@, name) ELSE @]
\* What a line remembers, in order: technical words, names inside a line and runs of capitalized words.
Remembered(line) ==
  LET caps == IsAllCapsLine(line)
      Step(s, w) ==
        LET t == IF ~caps /\ Technical(w) THEN [s EXCEPT !.out = Append(@, <<w>>)] ELSE s
            inside == ~s.first /\ w.kind \in {"name", "camel"}
            next == CASE Capital(w) /\ ~caps -> [t EXCEPT !.run = Append(@, w),
                                                          !.out = IF inside THEN Append(@, <<w>>) ELSE @]
                      [] w.kind = "connector" /\ t.run # <<>> -> [t EXCEPT !.run = Append(@, w)]
                      [] OTHER -> Flush(t)
        IN IF w.kind = "break" THEN Flush(s) ELSE [next EXCEPT !.first = FALSE]
  IN Flush(FoldLeft(Step, [run |-> <<>>, first |-> TRUE, out |-> <<>>], line)).out

Counted(lines) == FlattenSeq(Apply(lines, Remembered))
KeyOf(term) == Apply(term, LAMBDA w : w.key)
Holds(phrase, word) == \E i \in DOMAIN phrase : phrase[i].form = word.form
CountOf(seen, t) == Cardinality({i \in DOMAIN seen : seen[i] = t})
FirstOf(seen, t) == Min({i \in DOMAIN seen : seen[i] = t})
\* Before another in the ranking: more frequent, or as frequent and met earlier.
Outranks(seen, t, u) ==
  CountOf(seen, t) > CountOf(seen, u) \/ (CountOf(seen, t) = CountOf(seen, u) /\ FirstOf(seen, t) < FirstOf(seen, u))
Ordinary(words, w) ==
  w.kind = "name" /\ (w.size < 4 \/ \E i \in DOMAIN words : words[i].kind = "plain" /\ words[i].key = w.key)
Candidates(seen, words) ==
  {t \in Range(seen) : /\ CountOf(seen, t) >= MinOccurrences
                       /\ Len(t) = 1 => Usable(t) /\ ~Ordinary(words, t[1])}
WithoutParts(seen, candidates) ==
  {t \in candidates : ~(Len(t) = 1 /\ \E phrase \in candidates :
     Len(phrase) > 1 /\ Holds(phrase, t[1]) /\ CountOf(seen, t) <= CountOf(seen, phrase) + 1)}
OncePerKey(seen, terms) ==
  {t \in terms : ~\E u \in terms : u # t /\ KeyOf(u) = KeyOf(t) /\ Outranks(seen, u, t)}
\* The frequent ones, most frequent first: no ordinary word at the start of a sentence, and no part of a
\* longer name unless it also stands alone.
Ranked(seen, words) ==
  SetToSortSeq(OncePerKey(seen, WithoutParts(seen, Candidates(seen, words))), LAMBDA t, u : Outranks(seen, t, u))
DeriveTerms(lines) == Ranked(Counted(lines), FlattenSeq(lines))
Phrase(term) ==
  [key |-> KeyOf(term), form |-> Apply(term, LAMBDA w : w.form), ends |-> FALSE,
   tokens |-> Apply(term, LAMBDA w : [script |-> "latin", size |-> w.size])]

\* A title is [phrase, generic]; the first of its spelling is kept.
DeriveTitles(titles) ==
  LET Take(kept, t) == IF t.generic \/ t.phrase.key \in Keys(kept) THEN kept ELSE Append(kept, t.phrase)
  IN FoldLeft(Take, <<>>, titles)

\* The pairs a model answered.
ParseTermLines(answer) ==
  LET Take(pairs, pair) ==
        IF \/ Len(pairs) >= MaxAnswers \/ pair.source.key \in Keys(Apply(pairs, LAMBDA x : x.source))
           \/ Size(pair.source.tokens) > TermChars \/ Size(pair.target.tokens) > TermChars
          THEN pairs ELSE Append(pairs, pair)
  IN FoldLeft(Take, <<>>, answer)

\* The items that fit, with separators of two characters.
JoinLimited(phrases, limit) ==
  LET Take(j, p) ==
        LET cost == Size(p.tokens) + IF j.chosen = <<>> THEN 0 ELSE 2
        IN IF j.used + cost > limit THEN j ELSE [chosen |-> Append(j.chosen, p), used |-> j.used + cost]
  IN FoldLeft(Take, [chosen |-> <<>>, used |-> 0], phrases).chosen

Line(label, separator, items) == [label |-> label, separator |-> separator, items |-> items]
LineSize(line) ==
  (IF line.label = "" THEN 0 ELSE LabelSize)
  + Total(Apply(line.items, LAMBDA item : Size(item[1].tokens) + IF Len(item) = 2 THEN 3 + Size(item[2].tokens) ELSE 0))
  + IF Len(line.items) > 1 THEN 2 * (Len(line.items) - 1) ELSE 0

\* The pairs of the model come before the terms; the terms keep a third of their line at least.
ComposeContext(titles, terms, pairs) ==
  LET Labelled(label, phrases) == IF phrases = <<>> THEN <<>> ELSE <<Line(label, "", Apply(phrases, LAMBDA p : <<p>>))>>
      head == Labelled("topic", JoinLimited(titles, Room(TopicChars, LabelSize)))
      Used(lines) == Total(Apply(lines, LAMBDA x : LineSize(x) + 1))
      remaining == Room(ContextChars, Used(head))
      pairLines == Apply(pairs, LAMBDA x : Line("", "arrow", <<<<x.source, x.target>>>>))
      usable == SelectSeq(terms, LAMBDA p : p.key \notin Keys(Apply(pairs, LAMBDA x : x.source)))
      least == Max({TermsLineChars \div 3, Room(remaining, Used(pairLines) + LabelSize + 1)})
      budget == Min({TermsLineChars, Room(remaining, LabelSize + 1)} \cup (IF pairs = <<>> THEN {} ELSE {least}))
      listed == head \o Labelled("terms", JoinLimited(usable, budget))
      Add(lines, x) == IF Used(lines) + LineSize(x) + 1 > ContextChars THEN lines ELSE Append(lines, x)
  IN FoldLeft(Add, listed, pairLines)

(*************************** the shell's draft *****************************)

\* What a line mentions: what stands before its "="; the terms of a labelled line are not looked at.
Mentioned(line) == IF line.label = "" THEN line.items[1][1].key ELSE <<line.label>> \o FlattenSeq(Apply(Phrases(line), LAMBDA p : p.key))
SameText(x, y) ==
  /\ x.label = y.label /\ Len(x.items) = Len(y.items)
  /\ Apply(Phrases(x), LAMBDA p : p.key) = Apply(Phrases(y), LAMBDA p : p.key)
ImportedLines(result) ==
  LET Add(lines, x) == IF \E i \in DOMAIN lines : Mentioned(lines[i]) = Mentioned(x) THEN lines ELSE Append(lines, x)
      pairs == Apply(result.glossary, LAMBDA x : Line("", "arrow", <<<<x.source, x.target>>>>))
      terms == Apply(result.terms, LAMBDA p : Line("", "", <<<<p>>>>))
  IN FoldLeft(Add, result.context, pairs \o terms)
\* Appended to what is there already; a line that would pass the limit is left out.
MergeContext(current, result) ==
  LET Chars(lines) == Total(Apply(lines, LineSize)) + Len(lines)
      Add(m, x) ==
        IF \E i \in DOMAIN m.lines : SameText(m.lines[i], x) THEN m
        ELSE IF Chars(m.lines) + LineSize(x) > ContextChars THEN [m EXCEPT !.skipped = @ + 1]
        ELSE [m EXCEPT !.lines = Append(@, x)]
  IN FoldLeft(Add, [lines |-> current, skipped |-> 0], ImportedLines(result))

(****************************** the actions ********************************)

NoMaterial == [titles |-> <<>>, lines |-> <<>>, answer |-> <<>>]
NoOffer == [context |-> <<>>, terms |-> <<>>, glossary |-> <<>>]
NothingParsed == [topic |-> <<>>, hints |-> <<>>, glossary |-> <<>>,
                  prompt |-> [topic |-> <<>>, terms |-> <<>>, size |-> 0], translationDomain |-> <<>>]
Init ==
  /\ material = NoMaterial /\ offered = NoOffer /\ context = <<>> /\ standing = <<>> /\ language = "auto"
  /\ parsed = NothingParsed /\ phase = "edit" /\ skipped = 0 /\ edits = 0

Edit == phase = "edit" /\ edits < MaxEdits /\ edits' = edits + 1

OfferWith(composed, read) == [context |-> composed, terms |-> read.hints, glossary |-> read.glossary]
Offer(composed) == OfferWith(composed, ParseSessionContext(composed, <<>>, "auto"))
\* "Import…": the assistant's reply holds the context and what the session would read from it.
Import(m) ==
  /\ Edit /\ material = NoMaterial
  /\ offered' = Offer(ComposeContext(DeriveTitles(m.titles), Apply(DeriveTerms(m.lines), Phrase), ParseTermLines(m.answer)))
  /\ LET merged == MergeContext(context, offered')
     IN context' = merged.lines /\ skipped' = merged.skipped
  /\ material' = m
  /\ UNCHANGED <<standing, language, parsed, phase>>

TypeLine(line) ==
  /\ Edit
  /\ Total(Apply(context, LineSize)) + Len(context) + LineSize(line) <= ContextChars
  /\ context' = Append(context, line)
  /\ UNCHANGED <<material, offered, standing, language, parsed, phase, skipped>>

TypeStanding(line) ==
  /\ Edit
  /\ standing' = Append(standing, line)
  /\ UNCHANGED <<material, offered, context, language, parsed, phase, skipped>>

\* A session is created with the text as it is then.
Start(l) ==
  /\ phase = "edit"
  /\ language' = l /\ parsed' = ParseSessionContext(context, standing, l) /\ phase' = "live"
  /\ UNCHANGED <<material, offered, context, standing, skipped, edits>>

\* The text may be changed again before the next session.
End ==
  /\ phase = "live"
  /\ phase' = "edit" /\ language' = "auto" /\ parsed' = NothingParsed
  /\ UNCHANGED <<material, offered, context, standing, skipped, edits>>

Next ==
  \/ \E m \in Materials : Import(m)
  \/ \E line \in TypedLines : TypeLine(line) \/ TypeStanding(line)
  \/ \E l \in SpokenLanguages : Start(l)
  \/ End

Spec == Init /\ [][Next]_vars

(***************************** properties **********************************)

TypeOK ==
  /\ phase \in {"edit", "live"} /\ language \in SpokenLanguages \cup {"auto"}
  /\ edits <= MaxEdits /\ Len(standing) <= edits /\ skipped \in Nat
  /\ Total(Apply(context, LineSize)) + Len(context) <= ContextChars + 1

\* The prompts keep their budgets, and what only the translation may see is not cut off by the topic.
WithinBudgets ==
  /\ Len(parsed.hints) <= MaxTerms /\ Len(parsed.glossary) <= MaxTerms
  /\ Size(parsed.prompt.topic) <= TopicChars /\ parsed.prompt.size <= PromptChars
  /\ Size(parsed.translationDomain) <= TopicChars
  /\ parsed.translationDomain # <<>> => Size(Domain(parsed)) <= TopicChars /\ IsSuffix(parsed.translationDomain, Domain(parsed))
  /\ IsPrefix(parsed.prompt.terms, parsed.hints)

\* Each pair once, as the lecture's own context gives it first, and each of its sources a term.
Pairs(lines) == {x \in (1..Len(lines)) \X (1..4) :
                   LET line == lines[x[1]] IN
                   /\ x[2] \in DOMAIN line.items /\ IsPair(line, line.items[x[2]])
                   /\ line.label = "terms" \/ (line.label = "" /\ Len(line.items) = 1)}
LectureComesFirst ==
  phase = "live" =>
    LET lines == context \o standing
        Item(x) == lines[x[1]].items[x[2]]
        Before(x, y) == x[1] < y[1] \/ (x[1] = y[1] /\ x[2] < y[2])
    IN /\ \A i, j \in DOMAIN parsed.glossary :
            parsed.glossary[i].source.key = parsed.glossary[j].source.key => i = j
       /\ \A i \in DOMAIN parsed.glossary : \E x \in Pairs(lines) :
            /\ Item(x) = <<parsed.glossary[i].source, parsed.glossary[i].target>>
            /\ \A y \in Pairs(lines) : Item(y)[1].key = Item(x)[1].key => ~Before(y, x)
       /\ Len(parsed.glossary) < MaxTerms => Keys(Apply(parsed.glossary, LAMBDA x : x.source)) = {Item(x)[1].key : x \in Pairs(lines)}

\* The recognizer is not prompted in a script the language does not use, and what is kept from it reaches
\* the translation, as the topic's second part or as a pair.
Within(part, whole) == \E i \in 0..Len(whole) : i + Len(part) <= Len(whole) /\ SubSeq(whole, i + 1, i + Len(part)) = part
NothingIsLost ==
  phase = "live" =>
    LET acc == Accumulated(context, standing)
        uncut == Size(parsed.translationDomain) < TopicChars - Back
        InDomain(tokens) == uncut => Within(tokens, Apply(parsed.translationDomain, LAMBDA t : t))
    IN /\ \A i \in DOMAIN parsed.hints : FitsScripts(parsed.hints[i].tokens, AsrScripts(language))
       /\ \A i \in DOMAIN acc.topic : Within(TextOf(acc.topic[i]), parsed.topic) \/ InDomain(TextOf(acc.topic[i]))
       /\ \A i \in DOMAIN acc.hints :
            LET p == acc.hints[i]
            IN \/ p.key \in Keys(parsed.hints)
               \/ p.key \in Keys(Apply(parsed.glossary, LAMBDA x : x.source))
               \/ InDomain(p.tokens) \/ InDomain([p.tokens EXCEPT ![Len(p.tokens)].size = @ + 1])

\* What the assistant derives is read back by the session: the grammar it writes is the grammar that is parsed.
ImportIsRead ==
  material # NoMaterial =>
    LET written == FlattenSeq(Apply(offered.context, Phrases))
        terms == Range(written) \cap Range(Apply(DeriveTerms(material.lines), Phrase))
        pairs == ParseTermLines(material.answer)
        room == Cardinality(Keys(written)) <= MaxTerms
    IN /\ Total(Apply(offered.context, LineSize)) + Len(offered.context) <= ContextChars + 1
       /\ room => /\ \A t \in terms : t.key \in Keys(offered.terms)
                  /\ \A i \in DOMAIN pairs :
                       /\ \E j \in DOMAIN offered.context : offered.context[j].items = <<<<pairs[i].source, pairs[i].target>>>>
                       /\ WordCount(pairs[i].source.tokens) <= 6 /\ WordCount(pairs[i].target.tokens) <= 12
                       => pairs[i] \in Range(offered.glossary)

\* A derived term occurs often enough; a word in camel case counts twice inside a line.
Occurrences(term, lines) ==
  Total(Apply(lines, LAMBDA x : Cardinality({i \in 0..Len(x) : i + Len(term) <= Len(x) /\ SubSeq(x, i + 1, i + Len(term)) = term})))
TermsOccur ==
  material # NoMaterial =>
    \A t \in Range(DeriveTerms(material.lines)) :
      Occurrences(t, material.lines) >= IF Len(t) = 1 /\ t[1].kind = "camel" THEN 1 ELSE MinOccurrences

\* A recognizer's list is a selection of the terms within its limits, each once.
TermsFitRecognizer ==
  LET chosen == HintTerms(parsed.hints)
  IN /\ Len(chosen) <= MaxKeyterms /\ Cardinality(Keys(chosen)) = Len(chosen)
     /\ Total(Apply(chosen, LAMBDA p : Bytes(p.tokens))) <= KeytermBytes
     /\ chosen = SelectSeq(parsed.hints, LAMBDA p : p \in Range(chosen))
     /\ Len(chosen) < MaxKeyterms => \A p \in Range(parsed.hints) \ Range(chosen) :
          Size(p.tokens) <= KeytermChars =>
          Total(Apply(chosen, LAMBDA q : Bytes(q.tokens))) + Bytes(p.tokens) > KeytermBytes
=============================================================================
