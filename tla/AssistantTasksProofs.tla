------------------------ MODULE AssistantTasksProofs ------------------------
(***************************************************************************)
(* Proofs about the assistant, for any constants: AssistantTasks, and      *)
(* ChatCalls as MCAssistant runs it.                                       *)
(*                                                                         *)
(* A step changes the record of one request (the end of the connection     *)
(* marks them all), so the invariant is one of a record: TaskInv, in four  *)
(* parts that say when a request is answered, what it may upload, that     *)
(* what was streamed and what is still buffered are the document, and that *)
(* the document's parts stand in order.  SlotsOK counts the slots.         *)
(*                                                                         *)
(* ChatInv, of the calls: what was refused left the client (Forgets), each *)
(* attempt left out something else (Asks), and the text is a head of what  *)
(* the model says (Wrote), where what is held back of a continuation       *)
(* restates as much as trimming takes off again (Compares).                *)
(***************************************************************************)
EXTENDS MCAssistant, FiniteSetTheorems, SequenceTheorems, TLAPS

Task ==
  [state : States, asked : BOOLEAN, kind : AllKinds, consent : BOOLEAN,
   cancelled : BOOLEAN, at : Steps, part : 1..Windows, doc : Seq(Parts), buffer : Seq(Parts), shown : Seq(Parts),
   uploads : BOOLEAN, results : 0..1, ok : BOOLEAN, result : Seq(Parts)]

IsUnderWay(t) == t.state \in {"created", "running"}
Writes(t) == t.state = "running" /\ t.at \in {"writing", "finishing"}

Answered(t) ==
  /\ t.state = "idle" => t.results = (IF t.asked THEN 1 ELSE 0)
  /\ IsUnderWay(t) => t.results = 0
Consents(t) == (t.uploads => t.consent) /\ (t.state = "running" => Permitted(t))
Streams(t) ==
  /\ IsUnderWay(t) => t.doc = t.shown \o t.buffer
  /\ IsUnderWay(t) /\ ~Writes(t) => t.doc = <<>> /\ t.buffer = <<>> /\ t.shown = <<>>
  /\ t.ok => t.state = "ended" /\ \E head \in {<<>>, <<Header>>} : t.result = head \o t.shown

InOrder(doc) ==
  /\ doc # <<>> => doc[1] # Blank /\ doc[Len(doc)] # Blank
  /\ \A i \in 1..Len(doc) - 1 :
       IF doc[i] = Blank THEN doc[i + 1] # Blank
       ELSE doc[i + 1] = Blank \/ (doc[i][1] = doc[i + 1][1] /\ doc[i + 1][2] = doc[i][2] + 1)
  /\ \A i, j \in DOMAIN doc : i < j /\ doc[i] \in Pieces /\ doc[j] \in Pieces => doc[i] # doc[j]
OfPart(doc, p) == {i \in DOMAIN doc : doc[i] \in {p} \X (1..MaxPieces)}
Numbered(doc, p) ==
  /\ \A i \in DOMAIN doc : doc[i] \in Pieces => doc[i][1] <= p
  /\ \A i \in OfPart(doc, p) : doc[i][2] <= Cardinality(OfPart(doc, p))
  /\ OfPart(doc, p) # {} => /\ doc[Len(doc)] = <<p, Cardinality(OfPart(doc, p))>>
                            /\ \E i \in DOMAIN doc : doc[i] = <<p, 1>>
Orders(t) ==
  /\ InOrder(t.doc)
  /\ t.state = "running" /\ t.at = "writing" => Numbered(t.doc, t.part)
  /\ t.state = "running" /\ t.at = "finishing" => t.doc # <<>>
TaskInv(t) == Answered(t) /\ Consents(t) /\ Streams(t) /\ Orders(t)

\* A request as it is before it is asked for.
LEMMA NoTaskInv == NoTask \in Task /\ TaskInv(NoTask)
<1>1. NoTask \in Task
  BY TasksAssumption DEF TasksAssumption, NoTask, Task, States, AllKinds, Steps
<1>2. Answered(NoTask) /\ Consents(NoTask)
  BY DEF NoTask, Answered, Consents, IsUnderWay
<1>3. Streams(NoTask)
  BY DEF NoTask, Streams, IsUnderWay
<1>4. Orders(NoTask)
  BY DEF NoTask, Orders, InOrder
<1> QED BY <1>1, <1>2, <1>3, <1>4 DEF TaskInv

LEMMA PartsKinds ==
  /\ Blank \in Parts /\ Header \in Parts /\ Closing \in Parts
  /\ Blank \notin Pieces /\ Header \notin Pieces /\ Closing \notin Pieces
  /\ Closing # Blank /\ Header # Blank
  /\ Pieces \subseteq Parts
BY TasksAssumption DEF TasksAssumption, Parts, Pieces, Blank, Header, Closing

\* What TaskEvents makes of a record.
LEMMA FlushedTask ==
  ASSUME NEW t \in Task
  PROVE  /\ Flushed(t) \in Task
         /\ Flushed(t) = [t EXCEPT !.shown = t.shown \o t.buffer, !.buffer = <<>>]
         /\ Flushed(t).shown = t.shown \o t.buffer /\ Flushed(t).buffer = <<>>
         /\ Flushed(t).state = t.state /\ Flushed(t).asked = t.asked /\ Flushed(t).kind = t.kind
         /\ Flushed(t).consent = t.consent /\ Flushed(t).cancelled = t.cancelled /\ Flushed(t).at = t.at
         /\ Flushed(t).part = t.part /\ Flushed(t).doc = t.doc /\ Flushed(t).uploads = t.uploads
         /\ Flushed(t).results = t.results /\ Flushed(t).ok = t.ok /\ Flushed(t).result = t.result
<1>1. t.shown \o t.buffer \in Seq(Parts) /\ <<>> \in Seq(Parts)
  BY DEF Task
<1>2. Flushed(t) = [t EXCEPT !.shown = t.shown \o t.buffer, !.buffer = <<>>]
  BY DEF Flushed, Task
<1> QED BY <1>1, <1>2 DEF Task

LEMMA FailsTask ==
  ASSUME NEW t \in Task, t.results = 0
  PROVE  /\ Fails(t) \in Task
         /\ Fails(t).state = "ended" /\ Fails(t).results = 1 /\ Fails(t).buffer = <<>>
         /\ Fails(t).asked = t.asked /\ Fails(t).kind = t.kind /\ Fails(t).consent = t.consent
         /\ Fails(t).cancelled = t.cancelled /\ Fails(t).at = t.at /\ Fails(t).part = t.part
         /\ Fails(t).doc = t.doc /\ Fails(t).shown = t.shown /\ Fails(t).uploads = t.uploads
         /\ Fails(t).ok = t.ok /\ Fails(t).result = t.result
<1>1. Fails(t) = [t EXCEPT !.buffer = <<>>, !.state = "ended", !.results = 1]
  <2>1. t.results + 1 = 1
    OBVIOUS
  <2> QED BY <2>1 DEF Fails, Task
<1>2. <<>> \in Seq(Parts) /\ 1 \in 0..1
  OBVIOUS
<1>3. Fails(t) \in Task
  BY <1>1, <1>2 DEF Task, States
<1> QED BY <1>1, <1>3 DEF Task

LEMMA SucceedsTask ==
  ASSUME NEW t \in Task, t.results = 0, NEW text \in Seq(Parts)
  PROVE  /\ Succeeds(t, text) \in Task
         /\ Succeeds(t, text).state = "ended" /\ Succeeds(t, text).results = 1
         /\ Succeeds(t, text).ok = TRUE /\ Succeeds(t, text).result = text
         /\ Succeeds(t, text).shown = t.shown \o t.buffer /\ Succeeds(t, text).uploads = t.uploads
         /\ Succeeds(t, text).consent = t.consent /\ Succeeds(t, text).doc = t.doc
         /\ Succeeds(t, text).cancelled = t.cancelled
<1> DEFINE f == Flushed(t)
<1>1. /\ f \in Task /\ f.results = 0 /\ f.shown = t.shown \o t.buffer /\ f.uploads = t.uploads
      /\ f.consent = t.consent /\ f.doc = t.doc /\ f.cancelled = t.cancelled
  BY FlushedTask
<1>2. Succeeds(t, text) = [f EXCEPT !.state = "ended", !.results = @ + 1, !.ok = TRUE, !.result = text]
  BY DEF Succeeds
<1> HIDE DEF f
<1>3. Succeeds(t, text) = [f EXCEPT !.state = "ended", !.results = 1, !.ok = TRUE, !.result = text]
  <2>1. f.results + 1 = 1
    BY <1>1
  <2> QED BY <1>1, <1>2, <2>1 DEF Task
<1>4. 1 \in 0..1
  OBVIOUS
<1>5. Succeeds(t, text) \in Task
  BY <1>1, <1>3, <1>4 DEF Task, States
<1> QED BY <1>1, <1>3, <1>5 DEF Task

\* A request that ends without a text it has not shown keeps its invariant.
LEMMA FailsInv ==
  ASSUME NEW t \in Task, TaskInv(t), IsUnderWay(t)
  PROVE  Fails(t) \in Task /\ TaskInv(Fails(t)) /\ Fails(t).state = "ended"
<1>1. t.results = 0 /\ ~t.ok
  BY DEF TaskInv, Answered, Streams, IsUnderWay
<1>2. Fails(t) \in Task /\ Fails(t).state = "ended"
  BY <1>1, FailsTask
<1>3. Answered(Fails(t)) /\ Consents(Fails(t))
  BY <1>1, FailsTask DEF TaskInv, Answered, Consents, IsUnderWay
<1>4. Streams(Fails(t))
  BY <1>1, FailsTask DEF Streams, IsUnderWay
<1>5. Orders(Fails(t))
  BY <1>1, FailsTask DEF TaskInv, Orders
<1> QED BY <1>2, <1>3, <1>4, <1>5 DEF TaskInv

\* A request succeeds with what it streamed, or with a header in front.
LEMMA SucceedsInv ==
  ASSUME NEW t \in Task, t.results = 0, Consents(t), InOrder(t.doc),
         NEW text \in Seq(Parts), \E head \in {<<>>, <<Header>>} : text = head \o (t.shown \o t.buffer)
  PROVE  Succeeds(t, text) \in Task /\ TaskInv(Succeeds(t, text)) /\ Succeeds(t, text).state = "ended"
<1>1. Succeeds(t, text) \in Task /\ Succeeds(t, text).state = "ended"
  BY SucceedsTask
<1>2. Answered(Succeeds(t, text)) /\ Consents(Succeeds(t, text))
  BY SucceedsTask DEF Answered, Consents, IsUnderWay
<1>3. Streams(Succeeds(t, text))
  BY SucceedsTask DEF Streams, IsUnderWay
<1>4. Orders(Succeeds(t, text))
  BY SucceedsTask DEF Orders
<1> QED BY <1>1, <1>2, <1>3, <1>4 DEF TaskInv

----------------------------------------------------------------------------
(* The document grows by a piece, or by a blank line and one.              *)

\* What is behind a document in a longer one.
LEMMA Behind ==
  ASSUME NEW doc \in Seq(Parts), NEW x \in Parts
  PROVE  /\ doc \o <<x>> \in Seq(Parts) /\ Len(doc \o <<x>>) = Len(doc) + 1 /\ Len(doc) \in Nat
         /\ (doc \o <<x>>)[Len(doc) + 1] = x
         /\ \A i \in 1..Len(doc) : (doc \o <<x>>)[i] = doc[i]
         /\ doc \o (<<Blank>> \o <<x>>) = doc \o <<Blank, x>>
         /\ doc \o <<Blank, x>> \in Seq(Parts) /\ Len(doc \o <<Blank, x>>) = Len(doc) + 2
         /\ (doc \o <<Blank, x>>)[Len(doc) + 1] = Blank /\ (doc \o <<Blank, x>>)[Len(doc) + 2] = x
         /\ \A i \in 1..Len(doc) : (doc \o <<Blank, x>>)[i] = doc[i]
<1>1. Blank \in Parts
  BY PartsKinds
<1>2. /\ <<x>> \in Seq(Parts) /\ Len(<<x>>) = 1 /\ <<x>>[1] = x
      /\ <<Blank>> \in Seq(Parts) /\ Len(<<Blank>>) = 1
      /\ <<Blank, x>> \in Seq(Parts) /\ Len(<<Blank, x>>) = 2 /\ <<Blank, x>>[1] = Blank /\ <<Blank, x>>[2] = x
  BY <1>1
<1>3. <<Blank>> \o <<x>> = <<Blank, x>>
  <2> DEFINE s == <<Blank>> \o <<x>>  t == <<Blank, x>>
  <2>1. s \in Seq(Parts) /\ Len(s) = 2 /\ s[1] = Blank /\ s[2] = x
    BY <1>2, ConcatProperties
  <2>2. t \in Seq(Parts) /\ Len(t) = 2 /\ t[1] = Blank /\ t[2] = x
    BY <1>2
  <2> HIDE DEF s, t
  <2>3. s = t
    BY <2>1, <2>2, SeqEqual
  <2> QED BY <2>3 DEF s, t
<1> DEFINE one == <<x>>  two == <<Blank, x>>
<1> HIDE DEF one, two
<1>4. /\ doc \o one \in Seq(Parts) /\ Len(doc \o one) = Len(doc) + 1 /\ Len(doc) \in Nat
      /\ (doc \o one)[Len(doc) + 1] = one[1] /\ \A i \in 1..Len(doc) : (doc \o one)[i] = doc[i]
  BY <1>2 DEF one
<1>5. /\ doc \o two \in Seq(Parts) /\ Len(doc \o two) = Len(doc) + 2
      /\ (doc \o two)[Len(doc) + 1] = two[1] /\ (doc \o two)[Len(doc) + 2] = two[2]
      /\ \A i \in 1..Len(doc) : (doc \o two)[i] = doc[i]
  BY <1>2 DEF two
<1> QED BY <1>2, <1>3, <1>4, <1>5 DEF one, two

Fresh(doc, x) == \A i \in DOMAIN doc : doc[i] \in Pieces => doc[i] # x

LEMMA OrderFirst ==
  ASSUME NEW x \in Parts, x # Blank
  PROVE  InOrder(<<x>>)
BY DEF InOrder

\* The next piece of a part stands right behind the last.
LEMMA OrderNext ==
  ASSUME NEW doc \in Seq(Parts), doc # <<>>, InOrder(doc), NEW x \in Pieces, Fresh(doc, x),
         doc[Len(doc)][1] = x[1], x[2] = doc[Len(doc)][2] + 1
  PROVE  InOrder(doc \o <<x>>)
<1> DEFINE more == doc \o <<x>>  n == Len(doc)
<1>1. x \in Parts /\ x # Blank
  BY PartsKinds
<1>2. /\ n \in Nat \ {0} /\ DOMAIN doc = 1..n /\ more \in Seq(Parts) /\ Len(more) = n + 1 /\ DOMAIN more = 1..n + 1
      /\ more[n + 1] = x /\ \A i \in 1..n : more[i] = doc[i]
  BY <1>1, Behind
<1> HIDE DEF more, n
<1>3. more[1] # Blank /\ more[Len(more)] # Blank
  BY <1>1, <1>2 DEF InOrder
<1>4. ASSUME NEW i \in 1..Len(more) - 1
      PROVE  IF more[i] = Blank THEN more[i + 1] # Blank
             ELSE more[i + 1] = Blank \/ (more[i][1] = more[i + 1][1] /\ more[i + 1][2] = more[i][2] + 1)
  <2>1. CASE i = n
    BY <1>1, <1>2, <2>1 DEF InOrder
  <2>2. CASE i # n
    <3>1. i \in 1..n - 1 /\ i \in 1..n /\ i + 1 \in 1..n
      BY <1>2, <2>2
    <3> QED BY <1>2, <3>1 DEF InOrder
  <2> QED BY <2>1, <2>2
<1>5. ASSUME NEW i \in DOMAIN more, NEW j \in DOMAIN more, i < j, more[i] \in Pieces, more[j] \in Pieces
      PROVE  more[i] # more[j]
  <2>1. i \in 1..n
    BY <1>2, <1>5
  <2>2. CASE j = n + 1
    BY <1>2, <2>1, <2>2, <1>5 DEF Fresh
  <2>3. CASE j # n + 1
    BY <1>2, <2>1, <2>3, <1>5 DEF InOrder
  <2> QED BY <2>2, <2>3
<1>6. InOrder(more)
  BY <1>3, <1>4, <1>5 DEF InOrder
<1> QED BY <1>6 DEF more

\* A blank line and what begins a part.
LEMMA OrderBlank ==
  ASSUME NEW doc \in Seq(Parts), doc # <<>>, InOrder(doc), NEW x \in Parts, x # Blank, Fresh(doc, x)
  PROVE  InOrder(doc \o <<Blank, x>>)
<1> DEFINE more == doc \o <<Blank, x>>  n == Len(doc)
<1>1. Blank \notin Pieces
  BY PartsKinds
<1>2. /\ n \in Nat \ {0} /\ DOMAIN doc = 1..n /\ more \in Seq(Parts) /\ Len(more) = n + 2 /\ DOMAIN more = 1..n + 2
      /\ more[n + 1] = Blank /\ more[n + 2] = x /\ \A i \in 1..n : more[i] = doc[i]
  <2>1. /\ more \in Seq(Parts) /\ Len(more) = Len(doc) + 2 /\ more[Len(doc) + 1] = Blank /\ more[Len(doc) + 2] = x
        /\ \A i \in 1..Len(doc) : more[i] = doc[i]
    BY Behind
  <2> HIDE DEF more
  <2>2. Len(doc) \in Nat \ {0} /\ DOMAIN doc = 1..Len(doc) /\ DOMAIN more = 1..Len(doc) + 2
    BY <2>1
  <2> QED BY <2>1, <2>2
<1> HIDE DEF more, n
<1>3. more[1] # Blank /\ more[Len(more)] # Blank
  BY <1>1, <1>2 DEF InOrder
<1>4. ASSUME NEW i \in 1..Len(more) - 1
      PROVE  IF more[i] = Blank THEN more[i + 1] # Blank
             ELSE more[i + 1] = Blank \/ (more[i][1] = more[i + 1][1] /\ more[i + 1][2] = more[i][2] + 1)
  <2>1. CASE i = n
    BY <1>2, <2>1 DEF InOrder
  <2>2. CASE i = n + 1
    <3>1. i + 1 = n + 2
      BY <1>2, <2>2
    <3> QED BY <1>2, <2>2, <3>1
  <2>3. CASE i \notin {n, n + 1}
    <3>1. i \in 1..n - 1 /\ i \in 1..n /\ i + 1 \in 1..n
      BY <1>2, <2>3
    <3> QED BY <1>2, <3>1 DEF InOrder
  <2> QED BY <2>1, <2>2, <2>3
<1>5. ASSUME NEW i \in DOMAIN more, NEW j \in DOMAIN more, i < j, more[i] \in Pieces, more[j] \in Pieces
      PROVE  more[i] # more[j]
  <2>1. i \in 1..n /\ j # n + 1
    BY <1>1, <1>2, <1>5
  <2>2. CASE j = n + 2
    BY <1>2, <2>1, <2>2, <1>5 DEF Fresh
  <2>3. CASE j # n + 2
    <3>1. j \in 1..n
      BY <1>2, <2>1, <2>3
    <3> QED BY <1>2, <2>1, <3>1, <1>5 DEF InOrder
  <2> QED BY <2>2, <2>3
<1>6. InOrder(more)
  BY <1>3, <1>4, <1>5 DEF InOrder
<1> QED BY <1>6 DEF more

\* The pieces of a part are counted.
LEMMA PartIsFinite ==
  ASSUME NEW doc \in Seq(Parts), NEW p
  PROVE  IsFiniteSet(OfPart(doc, p)) /\ Cardinality(OfPart(doc, p)) \in Nat
<1>1. OfPart(doc, p) \subseteq 1..Len(doc) /\ Len(doc) \in Nat
  BY DEF OfPart
<1>2. IsFiniteSet(1..Len(doc))
  BY <1>1, FS_Interval
<1> QED BY <1>1, <1>2, FS_Subset, FS_CardinalityType

\* The next piece of a part carries the next number.
LEMMA NumberNext ==
  ASSUME NEW doc \in Seq(Parts), NEW p \in 1..Windows, Numbered(doc, p),
         NEW more \in Seq(Parts), NEW c \in 0..MaxPieces - 1, c = Cardinality(OfPart(doc, p)),
         NEW m \in Nat, NEW n \in Nat, m < n, DOMAIN doc = 1..m, DOMAIN more = 1..n, Len(more) = n,
         \A i \in 1..m : more[i] = doc[i],
         more[n] = <<p, c + 1>>,
         \A i \in 1..n : i \in 1..m \/ i = n \/ more[i] = Blank
  PROVE  Numbered(more, p)
<1> DEFINE x == <<p, c + 1>>
<1>1. n \in 1..n /\ n \notin 1..m /\ \A i \in 1..m : i \in 1..n
  OBVIOUS
<1>2. x \in Pieces /\ x \in {p} \X (1..MaxPieces) /\ Blank \notin Pieces /\ Blank \notin {p} \X (1..MaxPieces)
  BY TasksAssumption DEF TasksAssumption, Pieces, Blank
<1>3. OfPart(more, p) = OfPart(doc, p) \cup {n} /\ n \notin OfPart(doc, p)
  <2>1. n \in DOMAIN more /\ n \notin DOMAIN doc
    BY <1>1
  <2>1a. n \in OfPart(more, p)
    BY <1>1, <1>2, <2>1 DEF OfPart
  <2>2. \A i \in OfPart(doc, p) : i \in OfPart(more, p)
    BY <1>1 DEF OfPart
  <2>3. \A i \in OfPart(more, p) : i \in OfPart(doc, p) \/ i = n
    BY <1>1, <1>2 DEF OfPart
  <2> QED BY <2>1, <2>1a, <2>2, <2>3 DEF OfPart
<1>4. Cardinality(OfPart(more, p)) = c + 1
  BY <1>3, PartIsFinite, FS_AddElement
<1>5. \A i \in DOMAIN more : more[i] \in Pieces => more[i][1] <= p
  <2> SUFFICES ASSUME NEW i \in DOMAIN more, more[i] \in Pieces PROVE more[i][1] <= p
    OBVIOUS
  <2>1. CASE i \in 1..m
    BY <1>1, <2>1 DEF Numbered
  <2>2. CASE i = n
    BY <1>1, <2>2
  <2> QED BY <1>1, <1>2, <2>1, <2>2
<1>6. \A i \in OfPart(more, p) : more[i][2] <= c + 1
  <2> SUFFICES ASSUME NEW i \in OfPart(more, p) PROVE more[i][2] <= c + 1
    OBVIOUS
  <2>1. CASE i = n
    BY <1>1, <2>1
  <2>2. CASE i \in OfPart(doc, p)
    <3>1. i \in 1..m /\ doc[i][2] \in 1..MaxPieces /\ doc[i][2] <= c
      BY <1>1, <2>2 DEF Numbered, OfPart
    <3> QED BY <1>1, <3>1
  <2> QED BY <1>3, <2>1, <2>2
<1>7. \E i \in DOMAIN more : more[i] = <<p, 1>>
  <2>1. CASE OfPart(doc, p) = {}
    <3>1. c = 0
      BY <2>1, FS_EmptySet
    <3> QED BY <1>1, <3>1
  <2>2. CASE OfPart(doc, p) # {}
    <3>1. PICK i \in DOMAIN doc : doc[i] = <<p, 1>>
      BY <2>2 DEF Numbered
    <3> QED BY <1>1, <3>1
  <2> QED BY <2>1, <2>2
<1> QED BY <1>1, <1>4, <1>5, <1>6, <1>7 DEF Numbered

\* No piece of the next part is there yet.
LEMMA NumberPart ==
  ASSUME NEW doc \in Seq(Parts), NEW p \in 1..Windows, Numbered(doc, p), p + 1 \in 1..Windows
  PROVE  Numbered(doc, p + 1)
<1>1. OfPart(doc, p + 1) = {}
  <2> SUFFICES ASSUME NEW i \in OfPart(doc, p + 1) PROVE FALSE
    OBVIOUS
  <2>1. i \in DOMAIN doc /\ doc[i] \in Pieces /\ doc[i][1] = p + 1
    BY DEF OfPart, Pieces
  <2> QED BY <2>1 DEF Numbered
<1>2. \A i \in DOMAIN doc : doc[i] \in Pieces => doc[i][1] <= p + 1
  <2> SUFFICES ASSUME NEW i \in DOMAIN doc, doc[i] \in Pieces PROVE doc[i][1] <= p + 1
    OBVIOUS
  <2>1. doc[i][1] <= p /\ doc[i][1] \in Nat
    BY DEF Numbered, Pieces
  <2> QED BY <2>1
<1> QED BY <1>1, <1>2 DEF Numbered

LEMMA NumberNone == ASSUME NEW p PROVE Numbered(<<>>, p)
BY DEF Numbered, OfPart

----------------------------------------------------------------------------
(* What each step makes of the record of its request.                      *)

\* A cancellation is only noted.
LEMMA CancelledInv ==
  ASSUME NEW t \in Task, TaskInv(t), NEW c \in BOOLEAN
  PROVE  LET u == [t EXCEPT !.cancelled = c] IN u \in Task /\ TaskInv(u) /\ u.state = t.state
<1> DEFINE u == [t EXCEPT !.cancelled = c]
<1>1. /\ u \in Task /\ u.state = t.state /\ u.asked = t.asked /\ u.kind = t.kind /\ u.consent = t.consent
      /\ u.at = t.at /\ u.part = t.part /\ u.doc = t.doc /\ u.buffer = t.buffer /\ u.shown = t.shown
      /\ u.uploads = t.uploads /\ u.results = t.results /\ u.ok = t.ok /\ u.result = t.result
  BY DEF Task
<1> HIDE DEF u
<1>2. Answered(u) /\ Consents(u)
  BY <1>1 DEF TaskInv, Answered, Consents, IsUnderWay, Permitted
<1>3. Streams(u)
  BY <1>1 DEF TaskInv, Streams, IsUnderWay, Writes
<1>4. Orders(u)
  BY <1>1 DEF TaskInv, Orders
<1>5. u \in Task /\ TaskInv(u) /\ u.state = t.state
  BY <1>1, <1>2, <1>3, <1>4 DEF TaskInv
<1> QED BY <1>5 DEF u

\* A new request, and one whose id is free again.
LEMMA AskedInv ==
  ASSUME NEW kind \in Kinds, NEW consent \in BOOLEAN
  PROVE  LET u == [NoTask EXCEPT !.state = "created", !.asked = TRUE, !.kind = kind, !.consent = consent]
         IN  u \in Task /\ TaskInv(u) /\ u.state = "created"
<1> DEFINE u == [NoTask EXCEPT !.state = "created", !.asked = TRUE, !.kind = kind, !.consent = consent]
<1>1. NoTask \in Task /\ kind \in AllKinds
  BY TasksAssumption, NoTaskInv DEF TasksAssumption
<1>2. /\ u \in Task /\ u.state = "created" /\ u.doc = <<>> /\ u.buffer = <<>> /\ u.shown = <<>>
      /\ u.uploads = FALSE /\ u.results = 0 /\ u.ok = FALSE
  BY <1>1 DEF NoTask, Task, States
<1> HIDE DEF u
<1>3. Answered(u) /\ Consents(u) /\ Orders(u)
  BY <1>2 DEF Answered, Consents, Orders, InOrder, IsUnderWay
<1>4. Streams(u)
  BY <1>2 DEF Streams, IsUnderWay
<1>5. u \in Task /\ TaskInv(u) /\ u.state = "created"
  BY <1>2, <1>3, <1>4 DEF TaskInv
<1> QED BY <1>5 DEF u

LEMMA SettledInv ==
  ASSUME NEW t \in Task
  PROVE  LET u == [NoTask EXCEPT !.asked = TRUE, !.results = IF t.results = 0 THEN 1 ELSE t.results]
         IN  u \in Task /\ TaskInv(u) /\ u.state = "idle"
<1> DEFINE u == [NoTask EXCEPT !.asked = TRUE, !.results = IF t.results = 0 THEN 1 ELSE t.results]
<1>1. NoTask \in Task /\ 1 \in 0..1
  BY NoTaskInv
<1>2. (IF t.results = 0 THEN 1 ELSE t.results) = 1
  BY DEF Task
<1>3. u = [NoTask EXCEPT !.asked = TRUE, !.results = 1]
  BY <1>2
<1>4. /\ u \in Task /\ u.state = "idle" /\ u.asked = TRUE /\ u.doc = <<>>
      /\ u.uploads = FALSE /\ u.results = 1 /\ u.ok = FALSE
  BY <1>1, <1>3 DEF NoTask, Task
<1> HIDE DEF u
<1>5. Answered(u) /\ Consents(u) /\ Orders(u) /\ Streams(u)
  BY <1>4 DEF Answered, Consents, Orders, InOrder, Streams, IsUnderWay
<1>6. u \in Task /\ TaskInv(u) /\ u.state = "idle"
  BY <1>4, <1>5 DEF TaskInv
<1> QED BY <1>6 DEF u

\* Cancelled before it ran.
LEMMA DroppedInv ==
  ASSUME NEW t \in Task, TaskInv(t), IsUnderWay(t)
  PROVE  LET u == [t EXCEPT !.state = "ended"] IN u \in Task /\ TaskInv(u) /\ u.state = "ended"
<1> DEFINE u == [t EXCEPT !.state = "ended"]
<1>1. /\ u \in Task /\ u.state = "ended" /\ u.consent = t.consent /\ u.doc = t.doc /\ u.uploads = t.uploads /\ u.ok = t.ok
  BY DEF Task, States
<1> HIDE DEF u
<1>2. ~t.ok
  BY DEF TaskInv, Streams, IsUnderWay
<1>3. Answered(u) /\ Consents(u) /\ Orders(u) /\ Streams(u)
  BY <1>1, <1>2 DEF TaskInv, Answered, Consents, Orders, Streams, IsUnderWay
<1>4. u \in Task /\ TaskInv(u) /\ u.state = "ended"
  BY <1>1, <1>3 DEF TaskInv
<1> QED BY <1>4 DEF u

\* The task begins, or goes on to an await it has written nothing before.
LEMMA MovesInv ==
  ASSUME NEW t \in Task, TaskInv(t), IsUnderWay(t), ~Writes(t), Permitted(t),
         NEW u \in Task, u.state = "running", u.at # "finishing", u.uploads => t.consent,
         u.kind = t.kind, u.consent = t.consent, u.part = t.part, u.doc = t.doc, u.buffer = t.buffer,
         u.shown = t.shown, u.results = t.results, u.ok = t.ok
  PROVE  TaskInv(u)
<1>1. t.doc = <<>> /\ t.buffer = <<>> /\ t.shown = <<>> /\ ~t.ok /\ t.results = 0 /\ t.doc = t.shown \o t.buffer
  BY DEF TaskInv, Streams, Answered, IsUnderWay
<1>2. Answered(u) /\ Consents(u)
  BY <1>1 DEF Answered, Consents, IsUnderWay, Permitted
<1>3. Streams(u)
  BY <1>1 DEF Streams, IsUnderWay
<1>4. Orders(u)
  BY <1>1, NumberNone DEF TaskInv, Orders
<1> QED BY <1>2, <1>3, <1>4 DEF TaskInv

LEMMA BeginsInv ==
  ASSUME NEW t \in Task, TaskInv(t), t.state = "created", Permitted(t), NEW begun \in Begins(t)
  PROVE  LET u == [begun EXCEPT !.state = "running"] IN u \in Task /\ TaskInv(u) /\ u.state = "running"
<1> DEFINE u == [begun EXCEPT !.state = "running"]
<1>0. (t.uploads => t.consent) /\ IsUnderWay(t) /\ ~Writes(t)
  BY DEF TaskInv, Consents, IsUnderWay, Writes
<1>1. CASE begun \in {[t EXCEPT !.at = "probing"], [t EXCEPT !.at = "extracting"]}
  <2>1. PICK at \in {"probing", "extracting"} : u = [t EXCEPT !.at = at, !.state = "running"]
    BY <1>1
  <2> HIDE DEF u
  <2>2. /\ u \in Task /\ u.state = "running" /\ u.at # "finishing" /\ u.uploads = t.uploads
        /\ u.kind = t.kind /\ u.consent = t.consent /\ u.part = t.part /\ u.doc = t.doc /\ u.buffer = t.buffer
        /\ u.shown = t.shown /\ u.results = t.results /\ u.ok = t.ok
    BY <2>1 DEF Task, Steps, States
  <2>3. TaskInv(u)
    BY <1>0, <2>2, MovesInv
  <2> QED BY <2>2, <2>3 DEF u
<1>2. CASE /\ begun \in {[t EXCEPT !.at = "title", !.uploads = TRUE], [t EXCEPT !.at = "writing", !.uploads = TRUE]}
           /\ t.kind \in {"title", "notes", "windowed"}
  <2>1. PICK at \in {"title", "writing"} : u = [t EXCEPT !.at = at, !.uploads = TRUE, !.state = "running"]
    BY <1>2
  <2> HIDE DEF u
  <2>2. /\ u \in Task /\ u.state = "running" /\ u.at # "finishing" /\ u.kind = t.kind /\ u.consent = t.consent
        /\ u.part = t.part /\ u.doc = t.doc /\ u.buffer = t.buffer
        /\ u.shown = t.shown /\ u.results = t.results /\ u.ok = t.ok
    BY <2>1 DEF Task, Steps, States
  <2>3. t.consent
    BY <1>2 DEF Permitted
  <2>4. TaskInv(u)
    BY <1>0, <2>2, <2>3, MovesInv
  <2> QED BY <2>2, <2>4 DEF u
<1> QED BY <1>1, <1>2 DEF Begins

\* A task that has written nothing succeeds without a text.
LEMMA AnswersInv ==
  ASSUME NEW t \in Task, TaskInv(t), t.state = "running", ~Writes(t)
  PROVE  Succeeds(t, <<>>) \in Task /\ TaskInv(Succeeds(t, <<>>)) /\ Succeeds(t, <<>>).state = "ended"
<1>1. t.results = 0 /\ Consents(t) /\ InOrder(t.doc) /\ t.buffer = <<>> /\ t.shown = <<>>
  BY DEF TaskInv, Answered, Streams, Orders, IsUnderWay
<1>2. <<>> \in Seq(Parts) /\ <<>> = <<>> \o (t.shown \o t.buffer)
  BY <1>1
<1>3. \E head \in {<<>>, <<Header>>} : <<>> = head \o (t.shown \o t.buffer)
  BY <1>2
<1> QED BY <1>1, <1>2, <1>3, SucceedsInv

----------------------------------------------------------------------------
(* Notes while they are written.                                           *)

\* The record of a request whose notes are written.
Writing(t) == t.state = "running" /\ t.at = "writing"

\* What is behind the document is shown, or buffered, as well.
LEMMA StreamsOn ==
  ASSUME NEW doc \in Seq(Parts), NEW shown \in Seq(Parts), NEW buffer \in Seq(Parts), NEW text \in Seq(Parts),
         doc = shown \o buffer
  PROVE  /\ doc \o text \in Seq(Parts)
         /\ buffer \o text \in Seq(Parts) /\ doc \o text = shown \o (buffer \o text)
         /\ (shown \o buffer) \o text \in Seq(Parts) /\ doc \o text = ((shown \o buffer) \o text) \o <<>>
<1>1. (shown \o buffer) \o text = shown \o (buffer \o text)
  BY ConcatAssociative
<1>2. buffer \o text \in Seq(Parts) /\ doc \o text \in Seq(Parts)
  BY ConcatProperties
<1>3. (doc \o text) \o <<>> = doc \o text
  BY <1>2, ConcatEmptySeq
<1> QED BY <1>1, <1>2, <1>3

\* A piece joins the document: the order and the numbers of its part go on.
LEMMA PieceOrders ==
  ASSUME NEW t \in Task, TaskInv(t), Writing(t), Written(t) < MaxPieces
  PROVE  /\ Joined(t) \in Seq(Parts)
         /\ InOrder(t.doc \o Joined(t)) /\ Numbered(t.doc \o Joined(t), t.part)
<1> DEFINE doc == t.doc  p == t.part  c == Cardinality(OfPart(doc, p))  x == <<p, c + 1>>  m == Len(doc)
<1>0. doc \in Seq(Parts) /\ p \in 1..Windows /\ InOrder(doc) /\ Numbered(doc, p)
  BY DEF Task, TaskInv, Orders, Writing
<1>1. c = Written(t) /\ c \in 0..MaxPieces - 1 /\ c = Cardinality(OfPart(doc, p))
  <2>1. c = Written(t)
    BY DEF Written, OfPart
  <2>2. c \in Nat
    BY <1>0, PartIsFinite
  <2> QED BY TasksAssumption, <2>1, <2>2 DEF TasksAssumption
<1> HIDE DEF c
<1>2. x \in Pieces /\ x \in Parts /\ x # Blank /\ x \in {p} \X (1..MaxPieces) /\ x[2] = c + 1
  BY TasksAssumption, <1>0, <1>1, PartsKinds DEF TasksAssumption, Pieces
<1>3. Fresh(doc, x)
  <2> SUFFICES ASSUME NEW i \in DOMAIN doc, doc[i] = x PROVE FALSE
    BY DEF Fresh
  <2>1. i \in OfPart(doc, p)
    BY <1>2 DEF OfPart
  <2>2. x[2] <= c
    BY <1>0, <2>1 DEF Numbered, c
  <2> QED BY <1>1, <1>2, <2>2
<1>4. m \in Nat /\ DOMAIN doc = 1..m
  BY <1>0
<1>5. CASE Begun(t)
  <2>1. Joined(t) = <<x>>
    BY <1>1, <1>5 DEF Joined
  <2>2. OfPart(doc, p) # {} /\ doc # <<>>
    <3>1. PICK i \in DOMAIN doc : doc[i] = <<p, 1>>
      BY <1>5 DEF Begun
    <3>2. i \in OfPart(doc, p)
      BY TasksAssumption, <3>1 DEF OfPart, TasksAssumption
    <3> QED BY <3>1, <3>2
  <2>3. doc[Len(doc)][1] = x[1] /\ x[2] = doc[Len(doc)][2] + 1
    <3>1. doc[Len(doc)] = <<p, c>>
      BY <1>0, <2>2 DEF Numbered, c
    <3> QED BY <1>2, <3>1
  <2>4. InOrder(doc \o <<x>>)
    BY <1>0, <1>2, <1>3, <2>2, <2>3, OrderNext
  <2> DEFINE more == doc \o <<x>>
  <2>5. /\ more \in Seq(Parts) /\ Len(more) = m + 1 /\ more[m + 1] = x /\ \A i \in 1..m : more[i] = doc[i]
    BY <1>0, <1>2, Behind
  <2> DEFINE n == m + 1
  <2> HIDE DEF more, m
  <2>6. /\ DOMAIN more = 1..n /\ Len(more) = n /\ more[n] = <<p, c + 1>>
        /\ \A i \in 1..n : i \in 1..m \/ i = n \/ more[i] = Blank
    BY <1>4, <2>5
  <2>7. n \in Nat /\ m < n
    BY <1>4
  <2> HIDE DEF x, n, doc, p
  <2>8. Numbered(more, p)
    BY <1>0, <1>1, <1>4, <2>5, <2>6, <2>7, NumberNext
  <2>9. <<x>> \in Seq(Parts)
    BY <1>2
  <2> QED BY <2>1, <2>4, <2>8, <2>9 DEF more, doc, p
<1>6. CASE ~Begun(t)
  <2>1. c = 0
    <3>1. OfPart(doc, p) = {}
      BY <1>0, <1>6 DEF Numbered, Begun
    <3> QED BY <3>1, FS_EmptySet DEF c
  <2>2. CASE doc = <<>>
    <3>1. Joined(t) = <<>> \o <<x>>
      BY <1>1, <1>6, <2>2 DEF Joined, Separator
    <3>2. <<x>> \in Seq(Parts)
      BY <1>2
    <3>3. Joined(t) = <<x>> /\ doc \o Joined(t) = <<x>>
      BY <2>2, <3>1, <3>2, ConcatEmptySeq
    <3>4. InOrder(<<x>>)
      BY <1>2, OrderFirst
    <3>5. Len(doc) = 0 /\ Len(<<x>>) = 1 /\ <<x>>[1] = x /\ DOMAIN <<x>> = 1..1
      BY <2>2, <3>2
    <3> DEFINE more == <<x>>
    <3>6. more \in Seq(Parts) /\ Len(more) = 1 /\ more[1] = x /\ DOMAIN more = 1..1 /\ m = 0 /\ DOMAIN doc = 1..0
      BY <1>4, <3>2, <3>5
    <3>7. \A i \in 1..1 : i \in 1..0 \/ i = 1 \/ more[i] = Blank
      OBVIOUS
    <3> HIDE DEF more, m, x
    <3>8. Numbered(more, p)
      BY <1>0, <1>1, <3>6, <3>7, NumberNext DEF x
    <3> QED BY <3>2, <3>3, <3>4, <3>8 DEF more
  <2>3. CASE doc # <<>>
    <3>1. Joined(t) = <<Blank>> \o <<x>>
      BY <1>1, <1>6, <2>3 DEF Joined, Separator
    <3>2. doc \o Joined(t) = doc \o <<Blank, x>>
      BY <1>0, <1>2, <3>1, Behind
    <3>3. InOrder(doc \o <<Blank, x>>)
      BY <1>0, <1>2, <1>3, <2>3, OrderBlank
    <3> DEFINE more == doc \o <<Blank, x>>
    <3>4. /\ more \in Seq(Parts) /\ Len(more) = m + 2 /\ more[m + 1] = Blank /\ more[m + 2] = x
          /\ \A i \in 1..m : more[i] = doc[i]
      BY <1>0, <1>2, Behind
    <3> DEFINE n == m + 2
    <3> HIDE DEF more, m
    <3>5. /\ DOMAIN more = 1..n /\ Len(more) = n /\ more[n] = <<p, c + 1>>
          /\ \A i \in 1..n : i \in 1..m \/ i = n \/ more[i] = Blank
      BY <1>4, <3>4
    <3>6. n \in Nat /\ m < n
      BY <1>4
    <3>9. <<Blank>> \in Seq(Parts) /\ <<x>> \in Seq(Parts)
      BY <1>2, PartsKinds
    <3> HIDE DEF x, n, doc, p
    <3>7. Numbered(more, p)
      BY <1>0, <1>1, <1>4, <3>4, <3>5, <3>6, NumberNext
    <3>8. Joined(t) \in Seq(Parts)
      BY <3>1, <3>9, ConcatProperties
    <3> QED BY <3>2, <3>3, <3>7, <3>8 DEF more, doc, p
  <2> QED BY <2>2, <2>3
<1> QED BY <1>5, <1>6

LEMMA PieceInv ==
  ASSUME NEW t \in Task, TaskInv(t), Writing(t), Written(t) < MaxPieces,
         NEW next \in Deltas(t, Joined(t))
  PROVE  LET u == [next EXCEPT !.doc = @ \o Joined(t)] IN u \in Task /\ TaskInv(u) /\ u.state = "running"
<1> DEFINE text == Joined(t)  u == [next EXCEPT !.doc = @ \o text]
<1>1. text \in Seq(Parts) /\ InOrder(t.doc \o text) /\ Numbered(t.doc \o text, t.part)
  BY PieceOrders
<1>2. t.doc = t.shown \o t.buffer /\ t.results = 0 /\ ~t.ok
  BY DEF TaskInv, Streams, Answered, IsUnderWay, Writing
<1> HIDE DEF text
<1>3. /\ t.doc \o text \in Seq(Parts)
      /\ t.buffer \o text \in Seq(Parts) /\ t.doc \o text = t.shown \o (t.buffer \o text)
      /\ (t.shown \o t.buffer) \o text \in Seq(Parts) /\ t.doc \o text = ((t.shown \o t.buffer) \o text) \o <<>>
      /\ <<>> \in Seq(Parts)
  <2>1. t.doc \in Seq(Parts) /\ t.shown \in Seq(Parts) /\ t.buffer \in Seq(Parts)
    BY DEF Task
  <2>2. text \in Seq(Parts) /\ <<>> \in Seq(Parts)
    BY <1>1
  <2>3. t.doc = t.shown \o t.buffer
    BY <1>2
  <2> DEFINE doc == t.doc  shown == t.shown  buffer == t.buffer
  <2> HIDE DEF doc, shown, buffer
  <2>4. /\ doc \o text \in Seq(Parts)
        /\ buffer \o text \in Seq(Parts) /\ doc \o text = shown \o (buffer \o text)
        /\ (shown \o buffer) \o text \in Seq(Parts) /\ doc \o text = ((shown \o buffer) \o text) \o <<>>
    <3>1. doc \in Seq(Parts) /\ shown \in Seq(Parts) /\ buffer \in Seq(Parts) /\ doc = shown \o buffer
      BY <2>1, <2>3 DEF doc, shown, buffer
    <3> QED BY <2>2, <3>1, StreamsOn
  <2> QED BY <2>2, <2>4 DEF doc, shown, buffer
<1>4. PICK shown \in Seq(Parts), buffer \in Seq(Parts) :
        /\ u = [t EXCEPT !.shown = shown, !.buffer = buffer, !.doc = t.doc \o text]
        /\ t.doc \o text = shown \o buffer
  <2>1. CASE next = [t EXCEPT !.buffer = @ \o text]
    <3>1. u = [t EXCEPT !.shown = t.shown, !.buffer = t.buffer \o text, !.doc = t.doc \o text]
      BY <2>1 DEF Task
    <3>2. t.shown \in Seq(Parts)
      BY DEF Task
    <3> QED BY <1>3, <3>1, <3>2
  <2>2. CASE next = [t EXCEPT !.shown = @ \o t.buffer \o text, !.buffer = <<>>]
    <3>1. u = [t EXCEPT !.shown = (t.shown \o t.buffer) \o text, !.buffer = <<>>, !.doc = t.doc \o text]
      BY <2>2 DEF Task
    <3> QED BY <1>3, <3>1
  <2> QED BY <2>1, <2>2 DEF Deltas, text
<1> DEFINE doc == t.doc \o text
<1> HIDE DEF doc
<1>5. u = [t EXCEPT !.shown = shown, !.buffer = buffer, !.doc = doc]
  BY <1>4 DEF doc
<1> HIDE DEF u
<1>6. doc \in Seq(Parts) /\ doc = shown \o buffer /\ InOrder(doc) /\ Numbered(doc, t.part)
  BY <1>1, <1>3, <1>4 DEF doc
<1>7. /\ u \in Task /\ u.state = t.state /\ u.at = t.at /\ u.part = t.part /\ u.doc = doc /\ u.shown = shown
      /\ u.buffer = buffer /\ u.uploads = t.uploads /\ u.results = t.results /\ u.ok = t.ok
      /\ u.consent = t.consent /\ u.kind = t.kind
  BY <1>5, <1>6 DEF Task
<1>8. Answered(u) /\ Consents(u)
  BY <1>2, <1>7 DEF TaskInv, Answered, Consents, IsUnderWay, Permitted, Writing
<1>9. Streams(u)
  BY <1>2, <1>6, <1>7 DEF Streams, IsUnderWay, Writes, Writing
<1>10. Orders(u)
  BY <1>6, <1>7 DEF Orders, Writing
<1>11. u \in Task /\ TaskInv(u) /\ u.state = "running"
  BY <1>7, <1>8, <1>9, <1>10 DEF TaskInv, Writing
<1> QED BY <1>11 DEF u, text

\* The next part begins, or the sections are handed to the summary.
LEMMA PartEndsInv ==
  ASSUME NEW t \in Task, TaskInv(t), Writing(t)
  PROVE  /\ ~LastPart(t) => LET u == [t EXCEPT !.part = @ + 1] IN u \in Task /\ TaskInv(u) /\ u.state = "running"
         /\ t.doc # <<>> => LET u == [Flushed(t) EXCEPT !.at = "finishing"]
                            IN  u \in Task /\ TaskInv(u) /\ u.state = "running"
<1>0. /\ t.doc = t.shown \o t.buffer /\ t.results = 0 /\ ~t.ok /\ t.part \in 1..Windows /\ t.doc \in Seq(Parts)
      /\ InOrder(t.doc) /\ Numbered(t.doc, t.part)
  BY DEF TaskInv, Streams, Answered, Orders, IsUnderWay, Writing, Task
<1>1. ASSUME ~LastPart(t) PROVE LET u == [t EXCEPT !.part = @ + 1] IN u \in Task /\ TaskInv(u) /\ u.state = "running"
  <2> DEFINE u == [t EXCEPT !.part = @ + 1]
  <2>1. t.part + 1 \in 1..Windows
    BY TasksAssumption, <1>0, <1>1 DEF LastPart, TasksAssumption
  <2>2. /\ u \in Task /\ u.state = "running" /\ u.at = "writing" /\ u.kind = t.kind /\ u.consent = t.consent
        /\ u.part = t.part + 1 /\ u.doc = t.doc /\ u.buffer = t.buffer /\ u.uploads = t.uploads
        /\ u.shown = t.shown /\ u.results = t.results /\ u.ok = t.ok
    BY <2>1 DEF Task, Writing
  <2> HIDE DEF u
  <2>3. Numbered(t.doc, t.part + 1)
    <3> DEFINE doc == t.doc  p == t.part
    <3>1. doc \in Seq(Parts) /\ p \in 1..Windows /\ p + 1 \in 1..Windows /\ Numbered(doc, p)
      BY <1>0, <2>1
    <3> HIDE DEF doc, p
    <3>2. Numbered(doc, p + 1)
      BY <3>1, NumberPart
    <3> QED BY <3>2 DEF doc, p
  <2>4. Answered(u) /\ Consents(u)
    BY <1>0, <2>2 DEF TaskInv, Answered, Consents, IsUnderWay, Permitted, Writing
  <2>5. Streams(u) /\ Orders(u)
    BY <1>0, <2>2, <2>3 DEF Streams, Orders, IsUnderWay, Writes
  <2>6. u \in Task /\ TaskInv(u) /\ u.state = "running"
    BY <2>2, <2>4, <2>5 DEF TaskInv
  <2> QED BY <2>6 DEF u
<1>2. ASSUME t.doc # <<>>
      PROVE  LET u == [Flushed(t) EXCEPT !.at = "finishing"] IN u \in Task /\ TaskInv(u) /\ u.state = "running"
  <2> DEFINE f == Flushed(t)  u == [f EXCEPT !.at = "finishing"]
  <2>1. /\ f \in Task /\ f.state = "running" /\ f.kind = t.kind /\ f.consent = t.consent
        /\ f.doc = t.doc /\ f.buffer = <<>> /\ f.uploads = t.uploads
        /\ f.shown = t.shown \o t.buffer /\ f.results = t.results /\ f.ok = t.ok
    BY FlushedTask DEF Writing
  <2> HIDE DEF f
  <2>2. /\ u \in Task /\ u.state = "running" /\ u.at = "finishing" /\ u.kind = t.kind /\ u.consent = t.consent
        /\ u.doc = t.doc /\ u.buffer = <<>> /\ u.uploads = t.uploads
        /\ u.shown = t.shown \o t.buffer /\ u.results = t.results /\ u.ok = t.ok
    BY <2>1 DEF Task, Steps
  <2> HIDE DEF u
  <2>3. u.doc = u.shown \o u.buffer
    <3>1. t.doc \o <<>> = t.doc
      BY <1>0, ConcatEmptySeq
    <3> QED BY <1>0, <2>2, <3>1
  <2>4. Answered(u) /\ Consents(u)
    BY <1>0, <2>2 DEF TaskInv, Answered, Consents, IsUnderWay, Permitted, Writing
  <2>5. Streams(u) /\ Orders(u)
    BY <1>0, <1>2, <2>2, <2>3 DEF Streams, Orders, IsUnderWay, Writes
  <2>6. u \in Task /\ TaskInv(u) /\ u.state = "running"
    BY <2>2, <2>4, <2>5 DEF TaskInv
  <2> QED BY <2>6 DEF u, f
<1> QED BY <1>1, <1>2

\* Notes succeed with their document.
LEMMA NotesInv ==
  ASSUME NEW t \in Task, TaskInv(t), Writes(t)
  PROVE  Succeeds(t, t.doc) \in Task /\ TaskInv(Succeeds(t, t.doc)) /\ Succeeds(t, t.doc).state = "ended"
<1>1. /\ t.results = 0 /\ Consents(t) /\ InOrder(t.doc) /\ t.doc \in Seq(Parts) /\ t.doc = t.shown \o t.buffer
  BY DEF TaskInv, Answered, Streams, Orders, IsUnderWay, Writes, Task
<1>2. t.doc = <<>> \o (t.shown \o t.buffer)
  BY <1>1, ConcatEmptySeq
<1>3. \E head \in {<<>>, <<Header>>} : t.doc = head \o (t.shown \o t.buffer)
  BY <1>2
<1> QED BY <1>1, <1>3, SucceedsInv

\* A header in front, what is new behind.
LEMMA FinishedInv ==
  ASSUME NEW t \in Task, TaskInv(t), t.state = "running", t.at = "finishing",
         NEW head \in {<<>>, <<Header>>}, NEW closing \in {<<>>, <<Blank, Closing>>}
  PROVE  LET u == Succeeds([t EXCEPT !.buffer = @ \o closing, !.doc = @ \o closing], head \o t.doc \o closing)
         IN  u \in Task /\ TaskInv(u) /\ u.state = "ended"
<1> DEFINE v == [t EXCEPT !.buffer = @ \o closing, !.doc = @ \o closing]
           doc == t.doc  shown == t.shown  buffer == t.buffer
<1>1. /\ t.results = 0 /\ Consents(t) /\ InOrder(doc) /\ doc \in Seq(Parts) /\ doc = shown \o buffer /\ doc # <<>>
      /\ shown \in Seq(Parts) /\ buffer \in Seq(Parts)
  BY DEF TaskInv, Answered, Streams, Orders, IsUnderWay, Writes, Task
<1>2. closing \in Seq(Parts) /\ head \in Seq(Parts)
  <2>1. Blank \in Parts /\ Closing \in Parts /\ Header \in Parts
    BY PartsKinds
  <2>2. <<Blank, Closing>> \in Seq(Parts) /\ <<Header>> \in Seq(Parts) /\ <<>> \in Seq(Parts)
    BY <2>1
  <2> QED BY <2>2
<1>3. InOrder(doc \o closing)
  <2>1. CASE closing = <<>>
    BY <1>1, <2>1, ConcatEmptySeq
  <2>2. CASE closing = <<Blank, Closing>>
    <3>1. Closing \in Parts /\ Closing # Blank /\ Fresh(doc, Closing)
      BY PartsKinds DEF Fresh
    <3> HIDE DEF doc
    <3>2. InOrder(doc \o <<Blank, Closing>>)
      BY <1>1, <3>1, OrderBlank
    <3> QED BY <2>2, <3>2
  <2> QED BY <2>1, <2>2
<1>4. /\ doc \o closing \in Seq(Parts) /\ buffer \o closing \in Seq(Parts)
      /\ doc \o closing = shown \o (buffer \o closing)
  <2> HIDE DEF doc, shown, buffer
  <2>1. \A text \in Seq(Parts) :
          doc \o text \in Seq(Parts) /\ buffer \o text \in Seq(Parts) /\ doc \o text = shown \o (buffer \o text)
    BY <1>1, StreamsOn
  <2> QED BY <1>2, <2>1
<1>5. v = [t EXCEPT !.buffer = buffer \o closing, !.doc = doc \o closing]
  BY DEF Task
<1>6. /\ v \in Task /\ v.results = 0 /\ v.doc = doc \o closing /\ v.shown = shown /\ v.buffer = buffer \o closing
      /\ v.uploads = t.uploads /\ v.consent = t.consent /\ v.state = t.state /\ v.kind = t.kind
  <2> HIDE DEF v
  <2> QED BY <1>1, <1>4, <1>5 DEF Task
<1> HIDE DEF v
<1>7. Consents(v) /\ InOrder(v.doc)
  BY <1>1, <1>3, <1>6 DEF Consents, Permitted
<1> DEFINE text == head \o doc \o closing
<1>8. text \in Seq(Parts) /\ text = head \o (v.shown \o v.buffer)
  <2> HIDE DEF doc, shown, buffer
  <2>1. head \o doc \in Seq(Parts) /\ text \in Seq(Parts)
    BY <1>1, <1>2, ConcatProperties
  <2>2. text = head \o (doc \o closing)
    <3>1. \A a, b, c \in Seq(Parts) : (a \o b) \o c = a \o (b \o c)
      BY ConcatAssociative
    <3> QED BY SMTT(30), <1>1, <1>2, <3>1
  <2> QED BY <1>4, <1>6, <2>1, <2>2
<1> HIDE DEF text
<1>9. Succeeds(v, text) \in Task /\ TaskInv(Succeeds(v, text)) /\ Succeeds(v, text).state = "ended"
  BY <1>6, <1>7, <1>8, SucceedsInv
<1> QED BY <1>9 DEF v, text

----------------------------------------------------------------------------
(* The steps of a task that runs, and the slots.                           *)

\* Such a step leaves a record of its request that runs on or is over.
LEMMA Outcome ==
  ASSUME NEW r \in Requests, tasks[r] \in Task, TaskInv(tasks[r]),
         Cancelled(r) \/ Piece(r) \/ Answers(r)
  PROVE  /\ tasks[r].state = "running"
         /\ \E u \in Task : TaskInv(u) /\ u.state \in {"running", "ended"} /\ Becomes(r, u)
<1> DEFINE t == tasks[r]
<1>0. t.state = "running"
  BY DEF Cancelled, Piece, Answers, Resumes, Extracted, TermsAnswer, ProbeAnswers, TitleAnswers, RetryAnswers,
         PartEnds, PartFails, FinishingAnswers, FinishingFails
<1>1. IsUnderWay(t) /\ Permitted(t)
  BY <1>0 DEF IsUnderWay, TaskInv, Consents
<1>2. Fails(t) \in Task /\ TaskInv(Fails(t)) /\ Fails(t).state = "ended"
  BY <1>1, FailsInv
<1>3. ASSUME Becomes(r, Fails(t)) PROVE \E u \in Task : TaskInv(u) /\ u.state \in {"running", "ended"} /\ Becomes(r, u)
  BY <1>2, <1>3
<1>4. ASSUME t.at \notin {"writing", "finishing"}, Becomes(r, Succeeds(t, <<>>))
      PROVE  \E u \in Task : TaskInv(u) /\ u.state \in {"running", "ended"} /\ Becomes(r, u)
  <2>1. Succeeds(t, <<>>) \in Task /\ TaskInv(Succeeds(t, <<>>)) /\ Succeeds(t, <<>>).state = "ended"
    BY <1>0, <1>4, AnswersInv DEF Writes
  <2> QED BY <1>4, <2>1
<1>5. ASSUME NEW at \in {"writing", "terms"}, t.at = "extracting", t.kind \in {"notes", "windowed", "context"},
             Becomes(r, [t EXCEPT !.at = at, !.uploads = TRUE])
      PROVE  \E u \in Task : TaskInv(u) /\ u.state \in {"running", "ended"} /\ Becomes(r, u)
  <2> DEFINE u == [t EXCEPT !.at = at, !.uploads = TRUE]
  <2>1. /\ u \in Task /\ u.state = "running" /\ u.at # "finishing" /\ u.kind = t.kind /\ u.consent = t.consent
        /\ u.part = t.part /\ u.doc = t.doc /\ u.buffer = t.buffer
        /\ u.shown = t.shown /\ u.results = t.results /\ u.ok = t.ok
    BY <1>0 DEF Task, Steps, States
  <2>2. t.consent /\ ~Writes(t)
    BY <1>1, <1>5 DEF Permitted, Writes
  <2>3. Becomes(r, u)
    BY <1>5
  <2> HIDE DEF u
  <2>4. TaskInv(u)
    BY <1>1, <2>1, <2>2, MovesInv
  <2> QED BY <2>1, <2>3, <2>4
<1>6. ASSUME t.at = "title", Becomes(r, [t EXCEPT !.at = "retry"])
      PROVE  \E u \in Task : TaskInv(u) /\ u.state \in {"running", "ended"} /\ Becomes(r, u)
  <2> DEFINE u == [t EXCEPT !.at = "retry"]
  <2>1. /\ u \in Task /\ u.state = "running" /\ u.at # "finishing" /\ u.kind = t.kind /\ u.consent = t.consent
        /\ u.part = t.part /\ u.doc = t.doc /\ u.buffer = t.buffer /\ u.uploads = t.uploads
        /\ u.shown = t.shown /\ u.results = t.results /\ u.ok = t.ok
    BY <1>0 DEF Task, Steps, States
  <2>2. (t.uploads => t.consent) /\ ~Writes(t)
    BY <1>6 DEF TaskInv, Consents, Writes
  <2>3. Becomes(r, u)
    BY <1>6
  <2> HIDE DEF u
  <2>4. TaskInv(u)
    BY <1>1, <2>1, <2>2, MovesInv
  <2> QED BY <2>1, <2>3, <2>4
<1>7. CASE Cancelled(r)
  BY <1>3, <1>7 DEF Cancelled
<1>8. CASE Extracted(r)
  BY <1>3, <1>4, <1>5, <1>8 DEF Extracted, Resumes
<1>9. CASE TermsAnswer(r) \/ ProbeAnswers(r) \/ RetryAnswers(r)
  BY <1>3, <1>4, <1>9 DEF TermsAnswer, ProbeAnswers, RetryAnswers, Resumes
<1>10. CASE TitleAnswers(r)
  BY <1>3, <1>4, <1>6, <1>10 DEF TitleAnswers, Resumes
<1>11. CASE Piece(r)
  <2>1. /\ Writing(t) /\ Written(t) < MaxPieces
        /\ \E next \in Deltas(t, Joined(t)) : Becomes(r, [next EXCEPT !.doc = @ \o Joined(t)])
    BY <1>11 DEF Piece, Resumes, Writing
  <2>2. PICK next \in Deltas(t, Joined(t)) : Becomes(r, [next EXCEPT !.doc = @ \o Joined(t)])
    BY <2>1
  <2> DEFINE u == [next EXCEPT !.doc = @ \o Joined(t)]
  <2>3. u \in Task /\ TaskInv(u) /\ u.state = "running"
    BY <2>1, PieceInv
  <2> QED BY <1>0, <2>2, <2>3
<1>12. CASE PartEnds(r)
  <2>0. Writing(t)
    BY <1>12 DEF PartEnds, Resumes, Writing
  <2>1. CASE ~LastPart(t)
    <3> DEFINE u == [t EXCEPT !.part = @ + 1]
    <3>1. u \in Task /\ TaskInv(u) /\ u.state = "running"
      BY <2>0, <2>1, PartEndsInv
    <3>2. Becomes(r, u)
      BY <1>12, <2>1 DEF PartEnds
    <3> QED BY <1>0, <3>1, <3>2
  <2>2. CASE LastPart(t) /\ t.doc = <<>>
    BY <1>0, <1>3, <1>12, <2>2 DEF PartEnds
  <2>3. CASE LastPart(t) /\ t.doc # <<>> /\ t.kind = "notes"
    <3>1. Succeeds(t, t.doc) \in Task /\ TaskInv(Succeeds(t, t.doc)) /\ Succeeds(t, t.doc).state = "ended"
      BY <2>0, NotesInv DEF Writing, Writes
    <3>2. Becomes(r, Succeeds(t, t.doc))
      BY <1>12, <2>3 DEF PartEnds
    <3> QED BY <1>0, <3>1, <3>2
  <2>4. CASE LastPart(t) /\ t.doc # <<>> /\ t.kind # "notes"
    <3> DEFINE u == [Flushed(t) EXCEPT !.at = "finishing"]
    <3>1. u \in Task /\ TaskInv(u) /\ u.state = "running"
      BY <2>0, <2>4, PartEndsInv
    <3>2. Becomes(r, u)
      BY <1>12, <2>4 DEF PartEnds
    <3> QED BY <1>0, <3>1, <3>2
  <2> QED BY <2>1, <2>2, <2>3, <2>4
<1>13. CASE PartFails(r)
  BY <1>0, <1>3, <1>13 DEF PartFails
<1>14. CASE FinishingAnswers(r)
  <2>1. t.at = "finishing"
    BY <1>14 DEF FinishingAnswers, Resumes
  <2>2. PICK head \in {<<>>, <<Header>>}, closing \in {<<>>, <<Blank, Closing>>} :
          Becomes(r, Succeeds([t EXCEPT !.buffer = @ \o closing, !.doc = @ \o closing], head \o t.doc \o closing))
    BY <1>14 DEF FinishingAnswers
  <2> DEFINE u == Succeeds([t EXCEPT !.buffer = @ \o closing, !.doc = @ \o closing], head \o t.doc \o closing)
  <2>3. u \in Task /\ TaskInv(u) /\ u.state = "ended"
    BY <1>0, <2>1, FinishedInv
  <2> QED BY <1>0, <2>2, <2>3
<1>15. CASE FinishingFails(r)
  <2>1. Succeeds(t, t.doc) \in Task /\ TaskInv(Succeeds(t, t.doc)) /\ Succeeds(t, t.doc).state = "ended"
    BY <1>0, <1>15, NotesInv DEF FinishingFails, Resumes, Writes
  <2> QED BY <1>0, <1>15, <2>1 DEF FinishingFails
<1> QED BY <1>0, <1>7, <1>8, <1>9, <1>10, <1>11, <1>12, <1>13, <1>14, <1>15 DEF Answers

----------------------------------------------------------------------------
(* The invariant of the requests of a connection.                          *)

TasksOK == tasks \in [Requests -> Task] /\ \A r \in Requests : TaskInv(tasks[r])
ConnOK == conn \in {"open", "closing", "closed"} /\ runs \in 0..MaxRuns
InSlots == {r \in Requests : tasks[r].state = "running"}
SlotsOK == IsFiniteSet(InSlots) /\ running = Cardinality(InSlots) /\ running \in 0..MaxConcurrent
RequestInv == TasksOK /\ ConnOK /\ SlotsOK

LEMMA InitInv == ASSUME Init PROVE RequestInv
<1>1. NoTask \in Task /\ TaskInv(NoTask) /\ NoTask.state = "idle"
  BY NoTaskInv DEF NoTask
<1> HIDE DEF NoTask
<1>2. TasksOK
  BY <1>1 DEF Init, TasksOK
<1>3. InSlots = {}
  BY <1>1 DEF Init, InSlots
<1>4. SlotsOK
  BY TasksAssumption, <1>3, FS_EmptySet DEF Init, SlotsOK, TasksAssumption
<1> QED BY TasksAssumption, <1>2, <1>4 DEF Init, RequestInv, ConnOK, TasksAssumption

\* The record of one request changes.
LEMMA OneTask ==
  ASSUME TasksOK, NEW r \in Requests, NEW u \in Task, TaskInv(u), tasks' = [tasks EXCEPT ![r] = u]
  PROVE  /\ TasksOK' /\ tasks'[r] = u /\ tasks[r] \in Task
         /\ \A q \in Requests : q # r => tasks'[q] = tasks[q]
BY DEF TasksOK

\* A slot is kept, taken or given back.
LEMMA SlotsKept ==
  ASSUME SlotsOK, running' = running, \A q \in Requests : tasks'[q].state = "running" <=> tasks[q].state = "running"
  PROVE  SlotsOK'
<1>1. InSlots' = InSlots
  BY DEF InSlots
<1> QED BY <1>1 DEF SlotsOK

LEMMA SlotTaken ==
  ASSUME SlotsOK, NEW r \in Requests, tasks[r].state # "running", tasks'[r].state = "running",
         \A q \in Requests : q # r => tasks'[q] = tasks[q], running < MaxConcurrent, running' = running + 1
  PROVE  SlotsOK'
<1>1. InSlots' = InSlots \cup {r} /\ r \notin InSlots
  BY DEF InSlots
<1>2. IsFiniteSet(InSlots') /\ Cardinality(InSlots') = Cardinality(InSlots) + 1
  BY <1>1, FS_AddElement DEF SlotsOK
<1> QED BY TasksAssumption, <1>2 DEF SlotsOK, TasksAssumption

LEMMA SlotGiven ==
  ASSUME SlotsOK, NEW r \in Requests, tasks[r].state = "running", tasks'[r].state # "running",
         \A q \in Requests : q # r => tasks'[q] = tasks[q], running' = running - 1
  PROVE  SlotsOK'
<1>1. InSlots' = InSlots \ {r} /\ r \in InSlots
  BY DEF InSlots
<1>2. IsFiniteSet(InSlots') /\ Cardinality(InSlots') = Cardinality(InSlots) - 1
  BY <1>1, FS_RemoveElement DEF SlotsOK
<1>3. Cardinality(InSlots') \in Nat
  BY <1>2, FS_CardinalityType
<1> QED BY TasksAssumption, <1>2, <1>3 DEF SlotsOK, TasksAssumption

LEMMA TaskStep ==
  ASSUME RequestInv, NEW r \in Requests, Cancelled(r) \/ Piece(r) \/ Answers(r)
  PROVE  RequestInv'
<1>1. tasks[r] \in Task /\ TaskInv(tasks[r])
  BY DEF RequestInv, TasksOK
<1>2. tasks[r].state = "running"
  BY <1>1, Outcome
<1>3. PICK u \in Task : TaskInv(u) /\ u.state \in {"running", "ended"} /\ Becomes(r, u)
  BY <1>1, Outcome
<1>4. tasks' = [tasks EXCEPT ![r] = u] /\ running' = IF u.state = "ended" THEN running - 1 ELSE running
  BY <1>3 DEF Becomes
<1>5. TasksOK' /\ tasks'[r] = u /\ \A q \in Requests : q # r => tasks'[q] = tasks[q]
  BY <1>3, <1>4, OneTask DEF RequestInv
<1>6. UNCHANGED <<conn, runs>>
  BY DEF Cancelled, Piece, Answers, Resumes, Extracted, TermsAnswer, ProbeAnswers, TitleAnswers, RetryAnswers,
         PartEnds, PartFails, FinishingAnswers, FinishingFails
<1>7. SlotsOK'
  <2>1. CASE u.state = "ended"
    BY <1>2, <1>4, <1>5, <2>1, SlotGiven DEF RequestInv
  <2>2. CASE u.state = "running"
    BY <1>2, <1>4, <1>5, <2>2, SlotsKept DEF RequestInv
  <2> QED BY <1>3, <2>1, <2>2
<1> QED BY <1>5, <1>6, <1>7 DEF RequestInv, ConnOK

\* A step that changes one record and no slot.
LEMMA OutsideSlots ==
  ASSUME RequestInv, NEW r \in Requests, NEW u \in Task, TaskInv(u), tasks' = [tasks EXCEPT ![r] = u],
         u.state = "running" <=> tasks[r].state = "running", running' = running, ConnOK'
  PROVE  RequestInv'
<1>1. TasksOK' /\ tasks'[r] = u /\ \A q \in Requests : q # r => tasks'[q] = tasks[q]
  BY OneTask DEF RequestInv
<1>2. SlotsOK'
  BY <1>1, SlotsKept DEF RequestInv
<1> QED BY <1>1, <1>2 DEF RequestInv

LEMMA RequestStep == ASSUME RequestInv, NEW r \in Requests, AssistantRequest(r) PROVE RequestInv'
<1>1. CASE tasks[r].state # "idle"
  BY <1>1, SlotsKept DEF AssistantRequest, RequestInv, TasksOK, ConnOK
<1>2. CASE tasks[r].state = "idle"
  <2>1. PICK kind \in Kinds, consent \in BOOLEAN :
          tasks' = [tasks EXCEPT ![r] = [NoTask EXCEPT !.state = "created", !.asked = TRUE,
                                                       !.kind = kind, !.consent = consent]]
    BY <1>2 DEF AssistantRequest
  <2> DEFINE u == [NoTask EXCEPT !.state = "created", !.asked = TRUE, !.kind = kind, !.consent = consent]
  <2>2. u \in Task /\ TaskInv(u) /\ u.state = "created"
    BY AskedInv
  <2>3. tasks' = [tasks EXCEPT ![r] = u]
    BY <2>1
  <2>4. running' = running /\ ConnOK'
    <3>1. running' = running /\ conn' = conn /\ runs < MaxRuns /\ runs' = runs + 1
      BY <1>2 DEF AssistantRequest
    <3>2. MaxRuns \in Nat /\ runs \in 0..MaxRuns /\ conn \in {"open", "closing", "closed"}
      BY TasksAssumption DEF RequestInv, ConnOK, TasksAssumption
    <3>3. runs' \in 0..MaxRuns
      BY <3>1, <3>2
    <3> QED BY <3>1, <3>2, <3>3 DEF ConnOK
  <2> HIDE DEF u
  <2> QED BY <1>2, <2>2, <2>3, <2>4, OutsideSlots
<1> QED BY <1>1, <1>2

LEMMA CancelStep == ASSUME RequestInv, NEW r \in Requests, AssistantCancel(r) PROVE RequestInv'
<1> DEFINE u == [tasks[r] EXCEPT !.cancelled = TRUE]
<1>1. tasks[r] \in Task /\ TaskInv(tasks[r])
  BY DEF RequestInv, TasksOK
<1>2. u \in Task /\ TaskInv(u) /\ u.state = tasks[r].state
  BY <1>1, CancelledInv
<1>3. tasks' = [tasks EXCEPT ![r] = u] /\ running' = running /\ ConnOK'
  BY DEF AssistantCancel, RequestInv, ConnOK
<1> HIDE DEF u
<1> QED BY <1>2, <1>3, OutsideSlots

LEMMA SettleStep == ASSUME RequestInv, NEW r \in Requests, Settle(r) PROVE RequestInv'
<1> DEFINE u == [NoTask EXCEPT !.asked = TRUE, !.results = IF tasks[r].results = 0 THEN 1 ELSE tasks[r].results]
<1>1. tasks[r] \in Task
  BY DEF RequestInv, TasksOK
<1>2. u \in Task /\ TaskInv(u) /\ u.state = "idle"
  BY <1>1, SettledInv
<1>3. tasks' = [tasks EXCEPT ![r] = u] /\ running' = running /\ ConnOK' /\ tasks[r].state = "ended"
  BY DEF Settle, RequestInv, ConnOK
<1> HIDE DEF u
<1> QED BY <1>2, <1>3, OutsideSlots

LEMMA RunStep == ASSUME RequestInv, NEW r \in Requests, TaskRuns(r) PROVE RequestInv'
<1> DEFINE t == tasks[r]
<1>1. t \in Task /\ TaskInv(t) /\ t.state = "created" /\ IsUnderWay(t) /\ UNCHANGED <<conn, runs>> /\ ConnOK'
  BY DEF RequestInv, TasksOK, TaskRuns, IsUnderWay, ConnOK
<1>2. CASE EndsInSlot(r, [t EXCEPT !.state = "ended"])
  <2> DEFINE u == [t EXCEPT !.state = "ended"]
  <2>1. u \in Task /\ TaskInv(u) /\ u.state = "ended"
    BY <1>1, DroppedInv
  <2>2. tasks' = [tasks EXCEPT ![r] = u] /\ running' = running
    BY <1>2 DEF EndsInSlot
  <2> HIDE DEF u
  <2> QED BY <1>1, <2>1, <2>2, OutsideSlots
<1>3. CASE EndsInSlot(r, Fails(t))
  <2>1. Fails(t) \in Task /\ TaskInv(Fails(t)) /\ Fails(t).state = "ended"
    BY <1>1, FailsInv
  <2>2. tasks' = [tasks EXCEPT ![r] = Fails(t)] /\ running' = running
    BY <1>3 DEF EndsInSlot
  <2> QED BY <1>1, <2>1, <2>2, OutsideSlots
<1>4. ASSUME Permitted(t), ~(running >= MaxConcurrent), running' = running + 1,
             NEW begun \in Begins(t), tasks' = [tasks EXCEPT ![r] = [begun EXCEPT !.state = "running"]]
      PROVE  RequestInv'
  <2> DEFINE u == [begun EXCEPT !.state = "running"]
  <2>1. u \in Task /\ TaskInv(u) /\ u.state = "running"
    BY <1>1, <1>4, BeginsInv
  <2>2. tasks' = [tasks EXCEPT ![r] = u]
    BY <1>4
  <2> HIDE DEF u
  <2>3. TasksOK' /\ tasks'[r] = u /\ \A q \in Requests : q # r => tasks'[q] = tasks[q]
    BY <2>1, <2>2, OneTask DEF RequestInv
  <2>4. running < MaxConcurrent
    BY TasksAssumption, <1>4 DEF RequestInv, SlotsOK, TasksAssumption
  <2>5. SlotsOK'
    BY <1>1, <1>4, <2>1, <2>3, <2>4, SlotTaken DEF RequestInv
  <2> QED BY <1>1, <2>3, <2>5 DEF RequestInv
<1> QED BY <1>2, <1>3, <1>4 DEF TaskRuns

LEMMA BreakStep == ASSUME RequestInv, ConnectionBreaks PROVE RequestInv'
<1> DEFINE u(r) == [tasks[r] EXCEPT !.cancelled = @ \/ UnderWay(r)]
<1>1. ASSUME NEW r \in Requests PROVE u(r) \in Task /\ TaskInv(u(r)) /\ u(r).state = tasks[r].state
  <2>1. tasks[r] \in Task /\ TaskInv(tasks[r])
    BY DEF RequestInv, TasksOK
  <2> DEFINE c == tasks[r].cancelled \/ UnderWay(r)
  <2>2. c \in BOOLEAN
    OBVIOUS
  <2>3. u(r) = [tasks[r] EXCEPT !.cancelled = c]
    BY <2>1 DEF Task
  <2> HIDE DEF c
  <2> QED BY <2>1, <2>2, <2>3, CancelledInv
<1>2. tasks' = [r \in Requests |-> u(r)] /\ running' = running /\ ConnOK'
  BY DEF ConnectionBreaks, RequestInv, ConnOK
<1> HIDE DEF u
<1>3. TasksOK'
  BY <1>1, <1>2 DEF TasksOK
<1>4. SlotsOK'
  BY <1>1, <1>2, SlotsKept DEF RequestInv
<1> QED BY <1>2, <1>3, <1>4 DEF RequestInv

LEMMA NextInv == ASSUME RequestInv, [Next]_vars PROVE RequestInv'
<1>1. CASE ConnectionGone \/ UNCHANGED vars
  <2>1. UNCHANGED <<tasks, running>> /\ ConnOK'
    BY <1>1 DEF ConnectionGone, vars, RequestInv, ConnOK
  <2> QED BY <2>1, SlotsKept DEF RequestInv, TasksOK
<1>2. CASE ConnectionBreaks
  BY <1>2, BreakStep
<1>3. ASSUME NEW r \in Requests, AssistantRequest(r) \/ AssistantCancel(r) \/ Settle(r) \/ TaskRuns(r)
      PROVE  RequestInv'
  BY <1>3, RequestStep, CancelStep, SettleStep, RunStep
<1>4. ASSUME NEW r \in Requests, Cancelled(r) \/ Piece(r) \/ Answers(r) PROVE RequestInv'
  BY <1>4, TaskStep
<1> QED BY <1>1, <1>2, <1>3, <1>4 DEF Next

----------------------------------------------------------------------------
(* What the invariant says of the properties.                              *)

LEMMA InvTypes == ASSUME RequestInv PROVE TypeOK
<1>1. tasks \in [Requests -> Task]
  BY DEF RequestInv, TasksOK
<1> QED BY <1>1 DEF RequestInv, ConnOK, SlotsOK, TypeOK, Task

LEMMA InvAnswers == ASSUME RequestInv PROVE AnsweredOnce
<1>1. ASSUME NEW r \in Requests
      PROVE  /\ tasks[r].state = "idle" => tasks[r].results = (IF tasks[r].asked THEN 1 ELSE 0)
             /\ UnderWay(r) => tasks[r].results = 0
  <2>1. Answered(tasks[r])
    BY DEF RequestInv, TasksOK, TaskInv
  <2> QED BY <2>1 DEF Answered, IsUnderWay, UnderWay
<1>2. running = Cardinality(InSlots)
  BY DEF RequestInv, SlotsOK
<1> QED BY <1>1, <1>2 DEF AnsweredOnce, InSlots

LEMMA InvStreams == ASSUME RequestInv PROVE DeltasAreTheNotes
<1>1. ASSUME NEW r \in Requests, tasks[r].ok
      PROVE  \E head \in {<<>>, <<Header>>} : tasks[r].result = head \o tasks[r].shown
  <2>1. Streams(tasks[r])
    BY DEF RequestInv, TasksOK, TaskInv
  <2> QED BY <1>1, <2>1 DEF Streams
<1> QED BY <1>1 DEF DeltasAreTheNotes

LEMMA Ends == ASSUME NEW doc \in Seq(Parts) PROVE Head(doc) = doc[1] /\ Last(doc) = doc[Len(doc)]
BY DEF Last

LEMMA InvOrders == ASSUME RequestInv PROVE PartsInOrder
<1>1. ASSUME NEW r \in Requests
      PROVE  InOrder(tasks[r].doc) /\ tasks[r].doc \in Seq(Parts)
  BY DEF RequestInv, TasksOK, TaskInv, Orders, Task
<1>2. ASSUME NEW doc \in Seq(Parts), InOrder(doc)
      PROVE  /\ doc # <<>> => Head(doc) # Blank /\ Last(doc) # Blank
             /\ \A i \in 1..Len(doc) - 1 :
                  IF doc[i] = Blank THEN doc[i + 1] # Blank
                  ELSE doc[i + 1] = Blank \/ (doc[i][1] = doc[i + 1][1] /\ doc[i + 1][2] = doc[i][2] + 1)
             /\ \A i, j \in DOMAIN doc : i < j /\ doc[i] \in Pieces /\ doc[j] \in Pieces => doc[i] # doc[j]
  <2>1. Head(doc) = doc[1] /\ Last(doc) = doc[Len(doc)]
    BY Ends
  <2> QED BY <1>2, <2>1 DEF InOrder
<1> QED BY <1>1, <1>2 DEF PartsInOrder

LEMMA InvConsents == ASSUME RequestInv PROVE UploadsNeedConsent
<1>1. ASSUME NEW r \in Requests, tasks[r].uploads PROVE tasks[r].consent
  <2>1. Consents(tasks[r])
    BY DEF RequestInv, TasksOK, TaskInv
  <2> QED BY <1>1, <2>1 DEF Consents
<1> QED BY <1>1 DEF UploadsNeedConsent

----------------------------------------------------------------------------
(* A task that is finishing.                                               *)

\* A record that is not r's changes, or r's changes and it is still running.
LEMMA OthersStay ==
  ASSUME RequestInv, NEW r \in Requests, NEW q \in Requests, NEW u, tasks' = [tasks EXCEPT ![q] = u],
         tasks[r].state = "running", tasks'[r].state = "ended"
  PROVE  q = r /\ tasks'[r] = u
<1>1. tasks \in [Requests -> Task]
  BY DEF RequestInv, TasksOK
<1> QED BY <1>1

\* The task that was finishing has its sections, with or without a summary.
LEMMA FinishingEnds ==
  ASSUME RequestInv, NEW r \in Requests, tasks[r].state = "running", tasks[r].at = "finishing",
         FinishingAnswers(r) \/ FinishingFails(r)
  PROVE  tasks'[r].ok
<1> DEFINE t == tasks[r]
<1>1. t \in Task /\ TaskInv(t) /\ t.results = 0 /\ tasks \in [Requests -> Task]
  BY DEF RequestInv, TasksOK, TaskInv, Answered, IsUnderWay
<1>2. CASE FinishingFails(r)
  <2>1. tasks' = [tasks EXCEPT ![r] = Succeeds(t, t.doc)] /\ t.doc \in Seq(Parts)
    BY <1>1, <1>2 DEF FinishingFails, Becomes, Task
  <2>2. Succeeds(t, t.doc).ok = TRUE
    BY <1>1, <2>1, SucceedsTask
  <2> QED BY <1>1, <2>1, <2>2
<1>3. CASE FinishingAnswers(r)
  <2>1. PICK head \in {<<>>, <<Header>>}, closing \in {<<>>, <<Blank, Closing>>} :
          tasks' = [tasks EXCEPT ![r] = Succeeds([t EXCEPT !.buffer = @ \o closing, !.doc = @ \o closing],
                                                 head \o t.doc \o closing)]
    BY <1>3 DEF FinishingAnswers, Becomes
  <2> DEFINE text == head \o t.doc \o closing
             f == Flushed([t EXCEPT !.buffer = @ \o closing, !.doc = @ \o closing])
  <2>2. Succeeds([t EXCEPT !.buffer = @ \o closing, !.doc = @ \o closing], text)
          = [f EXCEPT !.state = "ended", !.results = @ + 1, !.ok = TRUE, !.result = text]
    BY DEF Succeeds
  <2>3. f = [t EXCEPT !.buffer = <<>>, !.doc = f.doc, !.shown = f.shown]
    BY <1>1 DEF Flushed, Task
  <2> HIDE DEF f, text
  <2>4. [f EXCEPT !.state = "ended", !.results = @ + 1, !.ok = TRUE, !.result = text].ok = TRUE
    BY <1>1, <2>3 DEF Task
  <2> QED BY <1>1, <2>1, <2>2, <2>4 DEF text
<1> QED BY <1>2, <1>3

\* The only other step that ends it is the cancellation.
LEMMA SurviveStep ==
  ASSUME RequestInv, Next, NEW r \in Requests, tasks[r].state = "running", tasks[r].at = "finishing",
         tasks'[r].state = "ended"
  PROVE  tasks'[r].ok \/ tasks[r].cancelled
<1>1. tasks \in [Requests -> Task]
  BY DEF RequestInv, TasksOK
<1>2. CASE ConnectionGone
  BY <1>2 DEF ConnectionGone
<1>3. CASE ConnectionBreaks
  <2>1. tasks'[r] = [tasks[r] EXCEPT !.cancelled = @ \/ UnderWay(r)]
    BY <1>3 DEF ConnectionBreaks
  <2> QED BY <1>1, <2>1 DEF Task
<1>4. ASSUME NEW q \in Requests, AssistantRequest(q) \/ AssistantCancel(q) \/ Settle(q) \/ TaskRuns(q)
      PROVE  FALSE
  <2>1. PICK u : tasks' = [tasks EXCEPT ![q] = u] \/ tasks' = tasks
    BY <1>4 DEF AssistantRequest, AssistantCancel, Settle, TaskRuns, EndsInSlot
  <2>2. tasks' # tasks
    OBVIOUS
  <2>3. q = r
    BY <2>1, <2>2, OthersStay
  <2>4. AssistantCancel(r)
    BY <1>4, <2>2, <2>3 DEF AssistantRequest, Settle, TaskRuns
  <2>5. tasks'[r] = [tasks[r] EXCEPT !.cancelled = TRUE]
    BY <1>1, <2>4 DEF AssistantCancel
  <2> QED BY <1>1, <2>5 DEF Task
<1>5. ASSUME NEW q \in Requests, Cancelled(q) \/ Piece(q) \/ Answers(q)
      PROVE  tasks'[r].ok \/ tasks[r].cancelled
  <2>1. PICK u : Becomes(q, u)
    BY <1>5 DEF Cancelled, Piece, Answers, Extracted, TermsAnswer, ProbeAnswers, TitleAnswers, RetryAnswers,
                PartEnds, PartFails, FinishingAnswers, FinishingFails
  <2>2. q = r
    BY <2>1, OthersStay DEF Becomes
  <2>3. Cancelled(r) \/ FinishingAnswers(r) \/ FinishingFails(r)
    BY <1>5, <2>2 DEF Piece, Answers, Extracted, TermsAnswer, ProbeAnswers, TitleAnswers, RetryAnswers,
                      PartEnds, PartFails, Resumes
  <2>4. CASE Cancelled(r)
    BY <2>4 DEF Cancelled
  <2> QED BY <2>3, <2>4, FinishingEnds
<1> QED BY <1>2, <1>3, <1>4, <1>5 DEF Next

----------------------------------------------------------------------------
LEMMA Invariance == Spec => []RequestInv
BY InitInv, NextInv, PTL DEF Spec

(* A request that is over was answered once, whether it ran, was refused   *)
(* or was cancelled before it first ran (the callbacks and the finally of  *)
(* handle); the slots in use are those of the tasks that run; the result   *)
(* of notes is what the window showed of them, but for the header; their   *)
(* parts stand in order, each once, with one blank line between two.       *)
THEOREM RequestsConsistent == Spec => []RequestsAreConsistent
<1>1. RequestInv => RequestsAreConsistent
  BY InvTypes, InvAnswers, InvStreams, InvOrders DEF RequestsAreConsistent
<1> QED BY <1>1, Invariance, PTL

(* Nothing of a transcript or a file is sent by a request that does not    *)
(* carry the user's consent (the checks of each task before its client).   *)
THEOREM ConsentIsAsked == Spec => []UploadsNeedConsent
<1>1. RequestInv => UploadsNeedConsent
  BY InvConsents
<1> QED BY <1>1, Invariance, PTL

(* Once every section is written, nothing but a cancellation loses the     *)
(* notes: a failed summary leaves them without a title (_windowed_notes).  *)
THEOREM SectionsAreKept == Spec => SectionsSurvive
<1>1. RequestInv /\ [Next]_vars =>
        [\A r \in Requests :
           tasks[r].at = "finishing" /\ tasks[r].state = "running" /\ tasks'[r].state = "ended"
             => tasks'[r].ok \/ tasks[r].cancelled]_vars
  BY SurviveStep
<1> QED BY <1>1, Invariance, PTL DEF Spec, SectionsSurvive
-----------------------------------------------------------------------------
(***************************************************************************)
(* The calls of a client.  What the model says is 1, 2, 3, ..: each text   *)
(* of a call is an interval of it.                                         *)

LEMMA IntervalIs ==
  ASSUME NEW a \in Nat, NEW n \in Nat
  PROVE  /\ C!Interval(a, n) \in Seq(Nat) /\ Len(C!Interval(a, n)) = n
         /\ \A i \in 1..n : C!Interval(a, n)[i] = a + i - 1
<1>1. \A i \in 1..n : a + i - 1 \in Nat
  OBVIOUS
<1> QED BY <1>1 DEF C!Interval

LEMMA IntervalJoins ==
  ASSUME NEW a \in Nat, NEW m \in Nat, NEW n \in Nat
  PROVE  C!Interval(a, m) \o C!Interval(a + m, n) = C!Interval(a, m + n)
<1> DEFINE s == C!Interval(a, m)  t == C!Interval(a + m, n)  u == C!Interval(a, m + n)
<1>1. a + m \in Nat /\ m + n \in Nat
  OBVIOUS
<1>2. s \in Seq(Nat) /\ Len(s) = m /\ \A i \in 1..m : s[i] = a + i - 1
  BY IntervalIs
<1>3. t \in Seq(Nat) /\ Len(t) = n /\ \A i \in 1..n : t[i] = a + m + i - 1
  BY <1>1, IntervalIs
<1>4. u \in Seq(Nat) /\ Len(u) = m + n /\ \A i \in 1..(m + n) : u[i] = a + i - 1
  BY <1>1, IntervalIs
<1> HIDE DEF s, t, u
<1>5. /\ s \o t \in Seq(Nat) /\ Len(s \o t) = Len(s) + Len(t)
      /\ \A i \in 1..(Len(s) + Len(t)) : (s \o t)[i] = IF i <= Len(s) THEN s[i] ELSE t[i - Len(s)]
  BY <1>2, <1>3, ConcatProperties
<1>6. Len(s \o t) = m + n /\ \A i \in 1..(m + n) : (s \o t)[i] = IF i <= m THEN s[i] ELSE t[i - m]
  BY <1>2, <1>3, <1>5
<1>7. ASSUME NEW i \in 1..(m + n) PROVE (s \o t)[i] = u[i]
  <2>1. CASE i <= m
    BY <2>1, <1>2, <1>4, <1>6
  <2>2. CASE ~(i <= m)
    <3>1. i - m \in 1..n /\ a + m + (i - m) - 1 = a + i - 1
      BY <2>2
    <3> QED BY <2>2, <3>1, <1>3, <1>4, <1>6
  <2> QED BY <2>1, <2>2
<1>8. s \o t = u
  BY <1>4, <1>5, <1>6, <1>7, SeqEqual
<1> QED BY <1>8 DEF s, t, u

LEMMA IntervalCut ==
  ASSUME NEW a \in Nat, NEW n \in Nat, NEW k \in 0..n
  PROVE  SubSeq(C!Interval(a, n), k + 1, n) = C!Interval(a + k, n - k)
<1> DEFINE s == C!Interval(a, n)  t == C!Interval(a + k, n - k)  u == SubSeq(s, k + 1, n)
<1>1. a + k \in Nat /\ n - k \in Nat /\ k + 1 \in Int /\ n \in Int
  OBVIOUS
<1>2. s \in Seq(Nat) /\ Len(s) = n /\ \A i \in 1..n : s[i] = a + i - 1
  BY IntervalIs
<1>3. t \in Seq(Nat) /\ Len(t) = n - k /\ \A i \in 1..(n - k) : t[i] = a + k + i - 1
  BY <1>1, IntervalIs
<1>4. \A i \in (k + 1)..n : s[i] \in Nat
  BY <1>2
<1> HIDE DEF s, t
<1>5. /\ u \in Seq(Nat) /\ Len(u) = IF k + 1 <= n THEN n - (k + 1) + 1 ELSE 0
      /\ \A i \in 1..(n - (k + 1) + 1) : u[i] = s[k + 1 + i - 1]
  BY <1>1, <1>4, SubSeqProperties
<1> HIDE DEF u
<1>6. Len(u) = n - k
  BY <1>5
<1>7. \A i \in 1..(n - k) : u[i] = t[i]
  BY <1>2, <1>3, <1>5
<1>8. u = t
  BY <1>3, <1>5, <1>6, <1>7, SeqEqual
<1> QED BY <1>8 DEF s, t, u

LEMMA ReverseIs ==
  ASSUME NEW S, NEW s \in Seq(S)
  PROVE  /\ C!Reverse(s) \in Seq(S) /\ Len(C!Reverse(s)) = Len(s)
         /\ \A i \in 1..Len(s) : C!Reverse(s)[i] = s[Len(s) - i + 1]
<1>1. Len(s) \in Nat
  OBVIOUS
<1>2. ASSUME NEW i \in 1..Len(s) PROVE s[Len(s) - i + 1] \in S
  <2>1. Len(s) - i + 1 \in 1..Len(s)
    BY <1>1
  <2> QED BY <2>1, ElementOfSeq
<1> QED BY <1>1, <1>2 DEF C!Reverse

\* A suffix ends as the whole does.
LEMMA SuffixIs ==
  ASSUME NEW s \in Seq(Nat), NEW t \in Seq(Nat)
  PROVE  C!IsSuffix(s, t) <=> Len(s) <= Len(t) /\ \A i \in 1..Len(s) : s[i] = t[Len(t) - Len(s) + i]
<1> DEFINE r == C!Reverse(s)  q == C!Reverse(t)
<1>1. r \in Seq(Nat) /\ Len(r) = Len(s) /\ \A i \in 1..Len(s) : r[i] = s[Len(s) - i + 1]
  BY ReverseIs
<1>2. q \in Seq(Nat) /\ Len(q) = Len(t) /\ \A i \in 1..Len(t) : q[i] = t[Len(t) - i + 1]
  BY ReverseIs
<1>3. Len(s) \in Nat /\ Len(t) \in Nat
  OBVIOUS
<1>4. C!IsSuffix(s, t) <=> Len(r) <= Len(q) /\ SubSeq(r, 1, Len(r)) = SubSeq(q, 1, Len(r))
  BY DEF C!IsSuffix, C!IsPrefix
<1> HIDE DEF r, q
<1>5. SubSeq(r, 1, Len(r)) = r
  BY <1>1, SubSeqFull
<1>6. ASSUME Len(s) <= Len(t)
      PROVE  SubSeq(q, 1, Len(r)) = r <=> \A i \in 1..Len(s) : s[i] = t[Len(t) - Len(s) + i]
  <2> DEFINE p == SubSeq(q, 1, Len(s))
  <2>0. \A i \in 1..Len(s) : i \in 1..Len(t)
    BY <1>3, <1>6
  <2>1. \A i \in 1..Len(s) : q[i] \in Nat
    <3> SUFFICES ASSUME NEW i \in 1..Len(s) PROVE q[i] \in Nat
      OBVIOUS
    <3>1. i \in 1..Len(q)
      BY <2>0, <1>2
    <3> QED BY <3>1, <1>2, ElementOfSeq
  <2>2. p \in Seq(Nat) /\ Len(p) = Len(s) /\ \A i \in 1..Len(s) : p[i] = q[i]
    BY <1>3, <2>1, SubSeqProperties
  <2> HIDE DEF p
  <2>3. p = r <=> \A i \in 1..Len(s) : p[i] = r[i]
    BY <1>1, <2>2, SeqEqual
  <2>4. \A i \in 1..Len(s) : p[i] = r[i] <=> t[Len(t) - i + 1] = s[Len(s) - i + 1]
    BY <1>1, <1>2, <2>0, <2>2
  <2>5. ASSUME \A i \in 1..Len(s) : t[Len(t) - i + 1] = s[Len(s) - i + 1], NEW i \in 1..Len(s)
        PROVE  s[i] = t[Len(t) - Len(s) + i]
    <3>1. Len(s) - i + 1 \in 1..Len(s) /\ Len(t) - (Len(s) - i + 1) + 1 = Len(t) - Len(s) + i
          /\ Len(s) - (Len(s) - i + 1) + 1 = i
      BY <1>3
    <3> QED BY <2>5, <3>1
  <2>6. ASSUME \A i \in 1..Len(s) : s[i] = t[Len(t) - Len(s) + i], NEW i \in 1..Len(s)
        PROVE  t[Len(t) - i + 1] = s[Len(s) - i + 1]
    <3>1. Len(s) - i + 1 \in 1..Len(s) /\ Len(t) - Len(s) + (Len(s) - i + 1) = Len(t) - i + 1
      BY <1>3
    <3> QED BY <2>6, <3>1
  <2>7. p = r <=> \A i \in 1..Len(s) : s[i] = t[Len(t) - Len(s) + i]
    BY <2>3, <2>4, <2>5, <2>6
  <2> QED BY <1>1, <2>7 DEF p
<1> QED BY <1>1, <1>2, <1>4, <1>5, <1>6

LEMMA IntervalHead ==
  ASSUME NEW a \in Nat, NEW n \in Nat, NEW k \in 0..n
  PROVE  SubSeq(C!Interval(a, n), 1, k) = C!Interval(a, k)
<1> DEFINE s == C!Interval(a, n)  t == C!Interval(a, k)  u == SubSeq(s, 1, k)
<1>1. k \in Nat /\ k \in Int /\ 1 \in Int
  OBVIOUS
<1>2. s \in Seq(Nat) /\ Len(s) = n /\ \A i \in 1..n : s[i] = a + i - 1
  BY IntervalIs
<1>3. t \in Seq(Nat) /\ Len(t) = k /\ \A i \in 1..k : t[i] = a + i - 1
  BY <1>1, IntervalIs
<1>4. \A i \in 1..k : s[i] \in Nat
  BY <1>2
<1> HIDE DEF s, t
<1>5. /\ u \in Seq(Nat) /\ Len(u) = IF 1 <= k THEN k - 1 + 1 ELSE 0
      /\ \A i \in 1..(k - 1 + 1) : u[i] = s[1 + i - 1]
  BY <1>1, <1>4, SubSeqProperties
<1> HIDE DEF u
<1>6. Len(u) = k
  BY <1>5
<1>7. \A i \in 1..k : u[i] = t[i]
  BY <1>2, <1>3, <1>5
<1>8. u = t
  BY <1>3, <1>5, <1>6, <1>7, SeqEqual
<1> QED BY <1>8 DEF s, t, u

\* A head of m characters that restates the end of what was written is told from every other size.
LEMMA OverlapIsRestated ==
  ASSUME NEW a \in Nat, NEW m \in C!Restated(a), NEW n \in Nat, m <= n
  PROVE  C!Overlaps(C!Interval(1, a), C!Interval(a + 1 - m, n)) = IF m = 0 THEN {} ELSE {m}
<1> DEFINE written == C!Interval(1, a)  head == C!Interval(a + 1 - m, n)
           from == IF a > OverlapWindow THEN a - OverlapWindow + 1 ELSE 1
           end == SubSeq(written, from, a)
<1>1. /\ OverlapWindow \in Nat /\ MinOverlap \in 1..OverlapWindow
      /\ m \in Nat /\ m <= a /\ (m = 0 \/ m \in MinOverlap..OverlapWindow)
  BY AssistantAssumption DEF C!Restated, AssistantAssumption
<1>2. from \in 1..(a + 1) /\ a - from + 1 \in Nat /\ from \in Nat
  BY <1>1
<1>3. a + 1 - m \in Nat
  BY <1>1
<1>4. Len(written) = a /\ Len(head) = n
  BY <1>3, IntervalIs
<1>5. end = C!Interval(from, a - from + 1)
  <2>1. from - 1 \in 0..a /\ (from - 1) + 1 = from /\ 1 + (from - 1) = from /\ a - (from - 1) = a - from + 1
    BY <1>2
  <2>2. SubSeq(C!Interval(1, a), (from - 1) + 1, a) = C!Interval(1 + (from - 1), a - (from - 1))
    BY <2>1, IntervalCut
  <2> QED BY <2>1, <2>2
<1> HIDE DEF written, head
<1>6. C!Overlaps(written, head) = {k \in MinOverlap..OverlapWindow : k <= n /\ C!IsSuffix(SubSeq(head, 1, k), end)}
  BY <1>4 DEF C!Overlaps
<1> HIDE DEF from, end
<1>7. ASSUME NEW k \in MinOverlap..OverlapWindow, k <= n
      PROVE  C!IsSuffix(SubSeq(head, 1, k), end) <=> k = m
  <2> DEFINE s == C!Interval(a + 1 - m, k)
  <2>1. k \in 0..n /\ k \in Nat /\ 1 <= k
    BY <1>1, <1>7
  <2>2. SubSeq(head, 1, k) = s
    BY <1>3, <2>1, IntervalHead DEF head
  <2>3. s \in Seq(Nat) /\ Len(s) = k /\ \A i \in 1..k : s[i] = a + 1 - m + i - 1
    BY <1>3, <2>1, IntervalIs
  <2>4. end \in Seq(Nat) /\ Len(end) = a - from + 1 /\ \A i \in 1..(a - from + 1) : end[i] = from + i - 1
    BY <1>2, <1>5, IntervalIs
  <2>5. C!IsSuffix(s, end) <=> Len(s) <= Len(end) /\ \A i \in 1..Len(s) : s[i] = end[Len(end) - Len(s) + i]
    BY <2>3, <2>4, SuffixIs
  <2> HIDE DEF s
  <2>6. C!IsSuffix(s, end) <=> k <= a - from + 1 /\ \A i \in 1..k : s[i] = end[a - from + 1 - k + i]
    BY <1>2, <2>1, <2>3, <2>4, <2>5
  <2>7. ASSUME k <= a - from + 1, NEW i \in 1..k
        PROVE  s[i] = a - m + i /\ end[a - from + 1 - k + i] = a - k + i
    <3>1. a - from + 1 - k + i \in 1..(a - from + 1)
      BY <1>2, <2>1, <2>7
    <3>2. end[a - from + 1 - k + i] = from + (a - from + 1 - k + i) - 1
      BY <2>4, <3>1
    <3>3. s[i] = a + 1 - m + i - 1
      BY <2>3
    <3> QED BY <3>2, <3>3, <1>1, <1>2, <2>1
  <2>8. ASSUME k = m PROVE C!IsSuffix(s, end)
    <3>1. k <= a - from + 1
      BY <2>8, <1>1, <1>2 DEF from
    <3> QED BY <2>6, <2>7, <2>8, <3>1
  <2>9. ASSUME C!IsSuffix(s, end) PROVE k = m
    <3>1. k <= a - from + 1 /\ s[1] = end[a - from + 1 - k + 1]
      BY <2>1, <2>6, <2>9
    <3>2. a - m + 1 = a - k + 1
      BY <2>1, <2>7, <3>1
    <3> QED BY <3>2, <1>1, <2>1
  <2> QED BY <2>2, <2>8, <2>9 DEF s
<1>8. C!Overlaps(written, head) = {k \in MinOverlap..OverlapWindow : k = m}
  BY <1>1, <1>6, <1>7
<1> QED BY <1>1, <1>8 DEF written, head

\* A continuation goes on behind what was written, whatever of it the head restates.
LEMMA TrimIs ==
  ASSUME NEW a \in Nat, NEW m \in C!Restated(a), NEW n \in Nat, m <= n
  PROVE  C!TrimOverlap(C!Interval(1, a), C!Interval(a + 1 - m, n)) = C!Interval(a + 1, n - m)
<1> DEFINE written == C!Interval(1, a)  head == C!Interval(a + 1 - m, n)
<1>1. m \in Nat /\ m <= a /\ a + 1 - m \in Nat /\ m \in 0..n
  BY AssistantAssumption DEF C!Restated, AssistantAssumption
<1>2. C!Overlaps(written, head) = IF m = 0 THEN {} ELSE {m}
  BY OverlapIsRestated
<1>3. Len(head) = n
  BY <1>1, IntervalIs
<1>4. SubSeq(head, m + 1, n) = C!Interval(a + 1 - m + m, n - m)
  BY <1>1, IntervalCut
<1>5. a + 1 - m + m = a + 1 /\ (m = 0 => a + 1 - m = a + 1 /\ n - m = n)
  BY <1>1
<1> HIDE DEF written
<1>6. CASE m = 0
  <2>1. C!TrimOverlap(written, head) = head
    BY <1>2, <1>6 DEF C!TrimOverlap
  <2> QED BY <2>1, <1>5, <1>6 DEF written
<1>7. CASE m # 0
  <2> HIDE DEF head
  <2>1. C!Overlaps(written, head) = {m}
    BY <1>2, <1>7
  <2>2. (CHOOSE k \in {m} : \A j \in {m} : j <= k) = m
    BY <1>1
  <2>3. C!TrimOverlap(written, head) = SubSeq(head, m + 1, Len(head))
    BY <2>1, <2>2 DEF C!TrimOverlap
  <2>4. SubSeq(head, m + 1, n) = C!Interval(a + 1, n - m)
    BY <1>4, <1>5
  <2> QED BY <2>3, <2>4, <1>3 DEF written, head
<1> QED BY <1>6, <1>7 DEF written, head

LEMMA IntervalTypes ==
  ASSUME NEW a \in Nat, NEW n \in Nat, 1 <= a, a + n - 1 <= TextLength
  PROVE  C!Interval(a, n) \in Seq(C!Characters) /\ Len(C!Interval(a, n)) = n
<1>1. TextLength \in Nat
  BY AssistantAssumption DEF AssistantAssumption
<1>2. \A i \in 1..n : a + i - 1 \in 1..TextLength
  BY <1>1
<1> QED BY <1>2 DEF C!Interval, C!Characters

Client ==
  [open : BOOLEAN, fields : SUBSET C!Optional, tokens : C!TokenFields, refuses : SUBSET C!Refusable,
   refused : SUBSET (C!Optional \cup {"max_tokens"})]
Call ==
  [kind : {"none", "stream", "complete"}, phase : {"idle", "request", "streaming", "over"},
   thinkingOff : BOOLEAN, attempt : 0..(MaxAttempts - 1), asked : BOOLEAN, large : BOOLEAN,
   sent : SUBSET (C!Optional \cup C!TokenFields), cont : 0..MaxContinuations, from : 1..(TextLength + 1),
   at : 0..TextLength, pending : Seq(C!Characters), dedupe : BOOLEAN, segment : Seq(C!Characters),
   before : Seq(C!Characters), text : Seq(C!Characters), finish : {"none", "stop", "length"},
   billed : 0..(MaxContinuations + 1), blamed : BOOLEAN, error : C!Errors]

\* A field that was refused is not among those the client sends.
Forgets(cl) ==
  /\ cl.refused \cap cl.fields = {}
  /\ "max_tokens" \in cl.refused => cl.tokens = "max_completion_tokens"
  /\ ~({"large", "context"} \subseteq cl.refuses)

\* Each attempt but the first of a request was for another thing the endpoint refuses.
WorkedOut(cl, c, done) ==
  /\ done \subseteq cl.refuses /\ Cardinality(done) = c.attempt /\ done \cap cl.fields = {}
  /\ "max_tokens" \in done => cl.tokens # "max_tokens"
  /\ done \cap {"large", "context"} # {} => ~c.large
Asks(cl, c) ==
  c.phase = "request" => c.sent = C!Payload(cl, c) /\ \E done \in SUBSET C!Refusable : WorkedOut(cl, c, done)
Blames(cl, c) ==
  c.blamed => /\ c.phase = "over"
              /\ Cardinality(cl.refuses) < MaxAttempts => c.error = "context_too_long"

\* What is compared with the text is what the model restates of it, m characters, and goes on with.
Compares(c, a, m) ==
  /\ m \in C!Restated(a) /\ c.before = c.text /\ c.from >= a + 1 - m
  /\ c.pending = C!Interval(a + 1 - m, c.from - (a + 1 - m))
  /\ c.at = IF c.from - 1 > a THEN c.from - 1 ELSE a
Goes(c) ==
  IF c.dedupe THEN \E m \in Nat : Compares(c, Len(c.text), m)
  ELSE c.from = c.at + 1 /\ Len(c.text) = c.at /\ c.pending = <<>>
Wrote(c) ==
  /\ c.text = C!Interval(1, Len(c.text))
  /\ c.phase \in {"request", "streaming"} =>
       c.error = "none" /\ ~c.blamed /\ c.billed <= c.cont /\ (c.kind = "stream" => Goes(c))
  /\ c.phase = "over" /\ c.error = "none" /\ c.kind = "stream" => Len(c.text) = c.at

ChatInv ==
  /\ client \in Client /\ call \in Call /\ calls \in 0..MaxCalls
  /\ Forgets(client) /\ (~client.open => client.refused = {} /\ call.phase = "idle")
  /\ Asks(client, call) /\ Blames(client, call) /\ Wrote(call)

\* The bounds of the model, as the provers use them.
LEMMA ChatBounds ==
  /\ MaxAttempts \in Nat /\ 1 <= MaxAttempts /\ TextLength \in Nat /\ 1 <= TextLength
  /\ MaxContinuations \in Nat /\ MaxCalls \in Nat /\ OverlapWindow \in Nat /\ MaxChunk \in Nat
  /\ MinOverlap \in 1..OverlapWindow
BY AssistantAssumption DEF AssistantAssumption

LEMMA PayloadTypes ==
  ASSUME NEW cl \in Client, NEW c
  PROVE  /\ C!Payload(cl, c) \in SUBSET (C!Optional \cup C!TokenFields)
         /\ C!Payload(cl, c) \cap C!Optional \subseteq cl.fields
         /\ "max_tokens" \in C!Payload(cl, c) => cl.tokens = "max_tokens"
BY DEF Client, C!Payload, C!Optional, C!TokenFields

LEMMA PayloadDepends ==
  ASSUME NEW cl, NEW c, NEW d, c.kind = d.kind, c.thinkingOff = d.thinkingOff
  PROVE  C!Payload(cl, c) = C!Payload(cl, d)
BY DEF C!Payload

\* A field that was refused is in no request.
LEMMA PayloadForgets ==
  ASSUME NEW cl \in Client, NEW c, Forgets(cl)
  PROVE  cl.refused \cap C!Payload(cl, c) = {}
BY DEF Client, Forgets, C!Payload, C!Optional, C!TokenFields

LEMMA NoCallIs ==
  /\ C!NoCall \in Call /\ C!NoCall.phase = "idle" /\ C!NoCall.text = C!Interval(1, Len(C!NoCall.text))
  /\ ~C!NoCall.blamed
<1>1. C!NoCall \in Call
  <2>1. 0 \in 0..(MaxAttempts - 1) /\ 0 \in 0..MaxContinuations /\ 1 \in 1..(TextLength + 1)
        /\ 0 \in 0..TextLength /\ 0 \in 0..(MaxContinuations + 1)
    BY ChatBounds
  <2>2. <<>> \in Seq(C!Characters) /\ "none" \in C!Errors /\ {} \in SUBSET (C!Optional \cup C!TokenFields)
    BY DEF C!Errors
  <2> QED BY <2>1, <2>2 DEF C!NoCall, Call
<1>2. C!NoCall.text = <<>> /\ C!NoCall.phase = "idle" /\ ~C!NoCall.blamed
  BY DEF C!NoCall
<1>3. C!Interval(1, 0) = <<>>
  BY DEF C!Interval
<1> QED BY <1>1, <1>2, <1>3

LEMMA ChatInit == C!Init => ChatInv
<1> SUFFICES ASSUME C!Init PROVE ChatInv
  OBVIOUS
<1>1. /\ client = [open |-> FALSE, fields |-> C!Optional, tokens |-> "max_tokens", refuses |-> {}, refused |-> {}]
      /\ call = C!NoCall /\ calls = 0
  BY DEF C!Init
<1>2. client \in Client /\ Forgets(client) /\ ~client.open /\ client.refused = {}
  BY <1>1 DEF Client, Forgets, C!TokenFields
<1>3. calls \in 0..MaxCalls
  BY <1>1, ChatBounds
<1>4. Asks(client, call) /\ Blames(client, call) /\ Wrote(call)
  BY <1>1, NoCallIs DEF Asks, Blames, Wrote
<1> QED BY <1>1, <1>2, <1>3, <1>4, NoCallIs DEF ChatInv

LEMMA ConnectStep == ChatInv /\ C!Connect => ChatInv'
<1> SUFFICES ASSUME ChatInv, C!Connect PROVE ChatInv'
  OBVIOUS
<1>1. /\ client \in Client /\ call \in Call /\ calls \in 0..MaxCalls /\ Forgets(client)
      /\ ~client.open /\ client.refused = {} /\ call.phase = "idle" /\ Blames(client, call) /\ Wrote(call)
  BY DEF ChatInv, C!Connect
<1>2. PICK fields \in SUBSET C!Optional, refuses \in SUBSET C!Refusable :
        /\ ~ {"large", "context"} \subseteq refuses
        /\ client' = [client EXCEPT !.open = TRUE, !.fields = fields, !.refuses = refuses]
  BY DEF C!Connect
<1>3. call' = call /\ calls' = calls
  BY DEF C!Connect
<1>4. client' \in Client /\ client'.open /\ client'.refused = {} /\ client'.refuses = refuses
  BY <1>1, <1>2 DEF Client
<1>5. Forgets(client')
  BY <1>2, <1>4 DEF Forgets
<1>6. Asks(client', call') /\ Blames(client', call')
  BY <1>1, <1>3 DEF Asks, Blames
<1> QED BY <1>1, <1>3, <1>4, <1>5, <1>6 DEF ChatInv, Asks, Blames

LEMMA ReturnStep == ChatInv /\ C!CallReturns => ChatInv'
<1> SUFFICES ASSUME ChatInv, C!CallReturns PROVE ChatInv'
  OBVIOUS
<1>1. call' = C!NoCall /\ client' = client /\ calls' = calls
  BY DEF C!CallReturns
<1>2. Asks(client', call') /\ Blames(client', call') /\ Wrote(call')
  BY <1>1, NoCallIs DEF Asks, Blames, Wrote
<1> QED BY <1>1, <1>2, NoCallIs DEF ChatInv

LEMMA StartStep ==
  ASSUME ChatInv, NEW kind \in {"stream", "complete"}, NEW thinkingOff \in BOOLEAN, NEW large \in BOOLEAN,
         C!StartCall(kind, thinkingOff, large)
  PROVE  ChatInv'
<1> DEFINE c == [C!NoCall EXCEPT !.kind = kind, !.thinkingOff = thinkingOff, !.asked = large, !.large = large]
<1>1. /\ client \in Client /\ calls \in 0..MaxCalls /\ Forgets(client) /\ client.open
      /\ calls < MaxCalls /\ calls' = calls + 1 /\ client' = client
      /\ call' = [c EXCEPT !.phase = "request", !.sent = C!Payload(client, c)]
  BY DEF ChatInv, C!StartCall, C!Requested
<1>2. c \in Call /\ c.kind = kind /\ c.thinkingOff = thinkingOff
  BY NoCallIs DEF Call
<1>3. /\ c.text = <<>> /\ c.pending = <<>> /\ ~c.dedupe /\ c.at = 0 /\ c.from = 1 /\ c.error = "none"
      /\ ~c.blamed /\ c.billed = 0 /\ c.cont = 0 /\ c.attempt = 0
  BY DEF C!NoCall
<1> HIDE DEF c
<1>4. C!Payload(client, c) \in SUBSET (C!Optional \cup C!TokenFields)
  BY <1>1, PayloadTypes
<1>5. call' \in Call /\ call'.phase = "request" /\ call'.sent = C!Payload(client, c)
  BY <1>1, <1>2, <1>4 DEF Call
<1>6. /\ call'.text = <<>> /\ call'.pending = <<>> /\ ~call'.dedupe /\ call'.at = 0 /\ call'.from = 1
      /\ call'.error = "none" /\ ~call'.blamed /\ call'.billed = 0 /\ call'.cont = 0 /\ call'.attempt = 0
      /\ call'.kind = c.kind /\ call'.thinkingOff = c.thinkingOff
  BY <1>1, <1>2, <1>3 DEF Call
<1>7. C!Payload(client, c) = C!Payload(client', call')
  BY ZenonT(30), <1>1, <1>6, PayloadDepends
<1>8. WorkedOut(client', call', {})
  BY <1>6, FS_EmptySet DEF WorkedOut
<1>9. Asks(client', call')
  BY <1>5, <1>7, <1>8 DEF Asks
<1>10. C!Interval(1, 0) = <<>> /\ Len(<<>>) = 0
  BY DEF C!Interval
<1>11. Goes(call')
  BY <1>6, <1>10 DEF Goes
<1>12. Wrote(call')
  BY <1>5, <1>6, <1>10, <1>11 DEF Wrote
<1>13. Blames(client', call') /\ calls' \in 0..MaxCalls
  BY <1>1, <1>6, ChatBounds DEF Blames
<1> QED BY <1>1, <1>5, <1>9, <1>12, <1>13 DEF ChatInv

LEMMA AcceptedStep == ChatInv /\ C!Accepted => ChatInv'
<1> SUFFICES ASSUME ChatInv, C!Accepted PROVE ChatInv'
  OBVIOUS
<1>1. /\ client \in Client /\ call \in Call /\ calls \in 0..MaxCalls /\ Forgets(client)
      /\ (~client.open => client.refused = {} /\ call.phase = "idle") /\ Wrote(call) /\ Blames(client, call)
  BY DEF ChatInv
<1>2. /\ call' = [call EXCEPT !.phase = "streaming", !.finish = "none"] /\ client' = client /\ calls' = calls
      /\ call.phase = "request"
  BY DEF C!Accepted
<1>3. /\ call' \in Call /\ call'.phase = "streaming" /\ call'.text = call.text /\ call'.error = call.error
      /\ call'.blamed = call.blamed /\ call'.billed = call.billed /\ call'.cont = call.cont /\ call'.kind = call.kind
      /\ call'.dedupe = call.dedupe /\ call'.before = call.before /\ call'.from = call.from
      /\ call'.pending = call.pending /\ call'.at = call.at
  BY <1>1, <1>2 DEF Call
<1>4. Goes(call) => Goes(call')
  BY <1>3 DEF Goes, Compares
<1>5. Wrote(call')
  BY <1>1, <1>2, <1>3, <1>4 DEF Wrote
<1>6. Asks(client', call') /\ Blames(client', call')
  BY <1>1, <1>2, <1>3 DEF Asks, Blames, Wrote
<1> QED BY <1>1, <1>2, <1>3, <1>5, <1>6 DEF ChatInv

\* A call that ends with an error keeps its text.
LEMMA OverIs ==
  ASSUME call \in Call, NEW error \in C!Errors
  PROVE  /\ C!Over(error) \in Call /\ C!Over(error).phase = "over" /\ C!Over(error).error = error
         /\ C!Over(error).text = call.text /\ C!Over(error).blamed = call.blamed
         /\ C!Over(error).kind = call.kind /\ C!Over(error).at = call.at
<1>1. 0 \in 0..(MaxAttempts - 1)
  BY ChatBounds
<1>2. <<>> \in Seq(C!Characters) /\ {} \in SUBSET (C!Optional \cup C!TokenFields)
  OBVIOUS
<1> QED BY <1>1, <1>2 DEF C!Over, Call

\* A step after which the call is over.
LEMMA EndsStep ==
  ASSUME ChatInv, client' = client, calls' = calls, call' \in Call, call'.phase = "over", call.phase # "idle",
         Blames(client, call'), call'.text = C!Interval(1, Len(call'.text)),
         call'.error = "none" /\ call'.kind = "stream" => Len(call'.text) = call'.at
  PROVE  ChatInv'
<1>1. Asks(client', call') /\ Wrote(call')
  BY DEF Asks, Wrote
<1>2. /\ client \in Client /\ calls \in 0..MaxCalls /\ Forgets(client)
      /\ (~client.open => client.refused = {} /\ call.phase = "idle")
  BY DEF ChatInv
<1> QED BY <1>1, <1>2 DEF ChatInv

LEMMA StatusErrors ==
  ASSUME NEW status, NEW wording
  PROVE  C!StatusError(status, wording) \in C!Errors \ {"none"}
BY DEF C!StatusError, C!Errors

LEMMA FailsStep ==
  ASSUME ChatInv, NEW error \in C!Errors \ {"none"}, call' = C!Over(error), client' = client, calls' = calls,
         call.phase \in {"request", "streaming"}
  PROVE  ChatInv'
<1>1. call \in Call /\ Wrote(call)
  BY DEF ChatInv
<1>2. /\ call' \in Call /\ call'.phase = "over" /\ call'.error = error /\ call'.text = call.text
      /\ call'.blamed = call.blamed
  BY <1>1, OverIs
<1>3. ~call.blamed /\ call.text = C!Interval(1, Len(call.text))
  BY <1>1 DEF Wrote
<1>4. Blames(client, call')
  BY <1>2, <1>3 DEF Blames
<1> QED BY <1>2, <1>3, <1>4, EndsStep

LEMMA RequestFailsStep == ChatInv /\ C!RequestFails => ChatInv'
<1> SUFFICES ASSUME ChatInv, C!RequestFails PROVE ChatInv'
  OBVIOUS
<1>1. call.phase = "request" /\ client' = client /\ calls' = calls
  BY DEF C!RequestFails
<1>2. PICK error \in C!Errors \ {"none"} : call' = C!Over(error)
  <2>1. CASE \E a \in C!Answerable : call' = C!Over(C!StatusError(a[1], a[2]))
    BY <2>1, StatusErrors
  <2>2. CASE call' = C!Over("network")
    BY <2>2 DEF C!Errors
  <2> QED BY <2>1, <2>2 DEF C!RequestFails
<1> QED BY <1>1, <1>2, FailsStep

LEMMA StreamFailsStep == ChatInv /\ C!StreamFails => ChatInv'
<1> SUFFICES ASSUME ChatInv, C!StreamFails PROVE ChatInv'
  OBVIOUS
<1>1. call.phase = "streaming" /\ client' = client /\ calls' = calls
  BY DEF C!StreamFails
<1>2. PICK error \in C!Errors \ {"none"} : call' = C!Over(error)
  BY DEF C!StreamFails, C!Errors
<1> QED BY <1>1, <1>2, FailsStep

LEMMA CompleteStep == ChatInv /\ C!CompleteAnswers => ChatInv'
<1> SUFFICES ASSUME ChatInv, C!CompleteAnswers PROVE ChatInv'
  OBVIOUS
<1>1. /\ call.phase = "streaming" /\ call.kind = "complete" /\ client' = client /\ calls' = calls
      /\ call \in Call /\ Wrote(call)
  BY DEF C!CompleteAnswers, ChatInv
<1>2. CASE call' = C!Over("provider_error")
  <2>1. "provider_error" \in C!Errors \ {"none"}
    BY DEF C!Errors
  <2> QED BY <1>1, <1>2, <2>1, FailsStep
<1>3. CASE \E n \in {0, TextLength}, finish \in {"stop", "length"} :
             call' = [C!Over("none") EXCEPT !.text = [i \in 1..n |-> i], !.at = n, !.finish = finish, !.billed = 1]
  <2>1. PICK n \in {0, TextLength}, finish \in {"stop", "length"} :
          call' = [C!Over("none") EXCEPT !.text = [i \in 1..n |-> i], !.at = n, !.finish = finish, !.billed = 1]
    BY <1>3
  <2>2. "none" \in C!Errors
    BY DEF C!Errors
  <2>3. n \in Nat /\ n \in 0..TextLength /\ 1 \in 0..(MaxContinuations + 1) /\ 1 + n - 1 <= TextLength
    BY ChatBounds
  <2>4. [i \in 1..n |-> i] = C!Interval(1, n)
    BY <2>3 DEF C!Interval
  <2>5. [i \in 1..n |-> i] \in Seq(C!Characters) /\ Len([i \in 1..n |-> i]) = n
    BY <2>3, <2>4, IntervalTypes
  <2>6. C!Over("none") \in Call /\ C!Over("none").phase = "over" /\ C!Over("none").kind = "complete"
        /\ C!Over("none").blamed = call.blamed
    BY <1>1, <2>2, OverIs
  <2>7. /\ call' \in Call /\ call'.phase = "over" /\ call'.kind = "complete" /\ call'.blamed = call.blamed
        /\ call'.text = [i \in 1..n |-> i]
    BY <2>1, <2>3, <2>5, <2>6 DEF Call
  <2>8. ~call.blamed
    BY <1>1 DEF Wrote
  <2>9. Blames(client, call')
    BY <2>7, <2>8 DEF Blames
  <2>10. call'.text = C!Interval(1, Len(call'.text))
    BY <2>4, <2>5, <2>7
  <2> QED BY <1>1, <2>7, <2>9, <2>10, EndsStep
<1> QED BY <1>2, <1>3 DEF C!CompleteAnswers

\* What an endpoint refuses of a request, and what the client does about it.
LEMMA RefusalIs ==
  ASSUME ChatInv, call.phase = "request", NEW field \in C!Refusals
  PROVE  /\ field \in client.refuses /\ field \in C!Refusable
         /\ \/ field \in C!Optional \cap call.sent
            \/ field = "max_tokens" /\ client.tokens = "max_tokens"
            \/ field = "large" /\ call.large
            \/ field = "context"
<1>1. client \in Client /\ call.sent = C!Payload(client, call)
  BY DEF ChatInv, Asks
<1>2. /\ call.sent \in SUBSET (C!Optional \cup C!TokenFields)
      /\ "max_tokens" \in call.sent => client.tokens = "max_tokens"
  BY <1>1, PayloadTypes
<1>3. client.refuses \subseteq C!Refusable
  BY <1>1 DEF Client
<1>4. field \in client.refuses /\ (field \in call.sent \/ field = "context" \/ (field = "large" /\ call.large))
  BY DEF C!Refusals
<1>5. field \in C!TokenFields /\ field \in C!Refusable => field = "max_tokens"
  BY DEF C!TokenFields, C!Refusable, C!Optional
<1> QED BY <1>2, <1>3, <1>4, <1>5

LEMMA AdjustedUnless ==
  ASSUME ChatInv, call.phase = "request", NEW field \in C!Refusals, C!Adjusted(field) = {}
  PROVE  field = "context"
<1>1. \/ field \in C!Optional \cap call.sent
      \/ field = "max_tokens" /\ client.tokens = "max_tokens"
      \/ field = "large" /\ call.large
      \/ field = "context"
  BY RefusalIs
<1>2. field \notin C!Optional \cap call.sent
  BY DEF C!Adjusted
<1>3. ~(field = "max_tokens" /\ client.tokens = "max_tokens")
  BY <1>2 DEF C!Adjusted
<1>4. ~(field = "large" /\ call.large)
  BY <1>2, <1>3 DEF C!Adjusted
<1> QED BY <1>1, <1>2, <1>3, <1>4

Adapts(next, field) ==
  /\ next.fields \subseteq client.fields \ {field} /\ next.tokens \in C!TokenFields /\ next.large \in BOOLEAN
  /\ next.large => call.large
  /\ field = "max_tokens" => client.tokens = "max_tokens" /\ next.tokens = "max_completion_tokens"
  /\ client.tokens # "max_tokens" => next.tokens = client.tokens
  /\ field \in {"large", "context"} => call.large /\ ~next.large
  /\ field \in C!Optional => field \in client.fields

LEMMA AdjustedIs ==
  ASSUME ChatInv, call.phase = "request", NEW field \in C!Refusals, NEW next \in C!Adjusted(field)
  PROVE  Adapts(next, field)
<1>1. client \in Client /\ call \in Call /\ call.sent = C!Payload(client, call)
  BY DEF ChatInv, Asks
<1>2. call.sent \cap C!Optional \subseteq client.fields
  BY <1>1, PayloadTypes
<1>3. client.fields \subseteq C!Optional /\ client.tokens \in C!TokenFields /\ call.large \in BOOLEAN
  BY <1>1 DEF Client, Call
<1>4. CASE field \in C!Optional \cap call.sent
  <2>1. next = [fields |-> client.fields \ {field}, tokens |-> client.tokens, large |-> call.large]
    BY <1>4 DEF C!Adjusted
  <2>2. field \notin {"max_tokens", "large", "context"}
    BY <1>4 DEF C!Optional
  <2>3. /\ next.fields = client.fields \ {field} /\ next.tokens = client.tokens /\ next.large = call.large
    BY <2>1
  <2> QED BY <1>2, <1>3, <1>4, <2>2, <2>3 DEF Adapts
<1>5. CASE field \notin C!Optional \cap call.sent /\ field = "max_tokens" /\ client.tokens = "max_tokens"
  <2>1. next = [fields |-> client.fields, tokens |-> "max_completion_tokens", large |-> call.large]
    BY <1>5 DEF C!Adjusted
  <2>2. field \notin C!Optional /\ field \notin {"large", "context"}
    BY <1>5 DEF C!Optional
  <2>3. next.fields = client.fields /\ next.tokens = "max_completion_tokens" /\ next.large = call.large
    BY <2>1
  <2> QED BY <1>3, <1>5, <2>2, <2>3 DEF Adapts, C!TokenFields
<1>6. CASE /\ field \notin C!Optional \cap call.sent /\ ~(field = "max_tokens" /\ client.tokens = "max_tokens")
           /\ field \in {"large", "context"} /\ call.large
  <2>1. next = [fields |-> client.fields, tokens |-> client.tokens, large |-> FALSE]
    BY <1>6 DEF C!Adjusted
  <2>2. field \notin C!Optional /\ field # "max_tokens"
    BY <1>6 DEF C!Optional
  <2>3. next.fields = client.fields /\ next.tokens = client.tokens /\ next.large = FALSE
    BY <2>1
  <2> QED BY <1>3, <1>6, <2>2, <2>3 DEF Adapts, C!TokenFields
<1> QED BY <1>4, <1>5, <1>6 DEF C!Adjusted

\* No field is worked around twice, so what a call fails of was refused, or too many things were.
LEMMA RefusedStep ==
  ASSUME ChatInv, NEW field \in C!Refusable, C!Refused(field)
  PROVE  ChatInv'
<1>1. /\ client \in Client /\ call \in Call /\ calls \in 0..MaxCalls /\ Forgets(client) /\ Asks(client, call)
      /\ (~client.open => client.refused = {} /\ call.phase = "idle") /\ Wrote(call) /\ Blames(client, call)
  BY DEF ChatInv
<1>2. call.phase = "request" /\ field \in C!Refusals /\ calls' = calls
  BY DEF C!Refused
<1>3. field \in client.refuses
  BY <1>2, RefusalIs
<1>4. PICK done \in SUBSET C!Refusable : WorkedOut(client, call, done)
  BY <1>1, <1>2 DEF Asks
<1>5. IsFiniteSet(client.refuses) /\ IsFiniteSet(done)
  <2>1. IsFiniteSet(C!Refusable)
    <3>1. IsFiniteSet({"stream_options", "thinking", "temperature", "max_tokens", "large", "context"})
      <4>1. IsFiniteSet({})
        BY FS_EmptySet
      <4>2. IsFiniteSet({} \cup {"stream_options"})
        BY <4>1, FS_AddElement
      <4>3. IsFiniteSet({} \cup {"stream_options"} \cup {"thinking"})
        BY <4>2, FS_AddElement
      <4>4. IsFiniteSet({} \cup {"stream_options"} \cup {"thinking"} \cup {"temperature"})
        BY <4>3, FS_AddElement
      <4>5. IsFiniteSet({} \cup {"stream_options"} \cup {"thinking"} \cup {"temperature"} \cup {"max_tokens"})
        BY <4>4, FS_AddElement
      <4>6. IsFiniteSet({} \cup {"stream_options"} \cup {"thinking"} \cup {"temperature"} \cup {"max_tokens"}
                          \cup {"large"})
        BY <4>5, FS_AddElement
      <4>7. IsFiniteSet({} \cup {"stream_options"} \cup {"thinking"} \cup {"temperature"} \cup {"max_tokens"}
                          \cup {"large"} \cup {"context"})
        BY <4>6, FS_AddElement
      <4>8. {} \cup {"stream_options"} \cup {"thinking"} \cup {"temperature"} \cup {"max_tokens"}
              \cup {"large"} \cup {"context"}
            = {"stream_options", "thinking", "temperature", "max_tokens", "large", "context"}
        OBVIOUS
      <4> QED BY <4>7, <4>8
    <3> QED BY <3>1 DEF C!Refusable, C!Optional
  <2>2. client.refuses \subseteq C!Refusable
    BY <1>1 DEF Client
  <2> QED BY <2>1, <2>2, FS_Subset
<1>6. ASSUME NEW next \in C!Adjusted(field)
      PROVE  /\ Adapts(next, field) /\ field \notin done
             /\ IsFiniteSet(done \cup {field}) /\ Cardinality(done \cup {field}) = call.attempt + 1
             /\ Cardinality(done \cup {field}) <= Cardinality(client.refuses)
  <2>1. Adapts(next, field)
    BY <1>2, AdjustedIs
  <2>2. field \notin done
    BY <1>2, <1>4, <2>1, RefusalIs DEF WorkedOut, Adapts
  <2>3. IsFiniteSet(done \cup {field}) /\ Cardinality(done \cup {field}) = call.attempt + 1
    BY <1>4, <1>5, <2>2, FS_AddElement DEF WorkedOut
  <2>4. done \cup {field} \subseteq client.refuses
    BY <1>3, <1>4 DEF WorkedOut
  <2>5. Cardinality(done \cup {field}) <= Cardinality(client.refuses)
    BY <1>5, <2>4, FS_Subset
  <2> QED BY <2>1, <2>2, <2>3, <2>5
<1>7. CASE call.attempt + 1 < MaxAttempts /\ C!Adjusted(field) # {}
  <2> DEFINE changed(next) == [client EXCEPT !.fields = next.fields, !.tokens = next.tokens,
                                             !.refused = @ \cup ({field} \ {"large", "context"})]
             now(next) == [call EXCEPT !.attempt = @ + 1, !.large = next.large]
  <2>1. PICK next \in C!Adjusted(field) :
          /\ client' = changed(next)
          /\ call' = [now(next) EXCEPT !.sent = C!Payload(changed(next), now(next))]
    BY <1>7 DEF C!Refused
  <2>2. /\ Adapts(next, field) /\ field \notin done
        /\ Cardinality(done \cup {field}) = call.attempt + 1
    BY <1>6
  <2>3. {field} \ {"large", "context"} \subseteq C!Optional \cup {"max_tokens"}
    BY DEF C!Refusable
  <2>4. next.fields \subseteq C!Optional
    BY <1>1, <2>2 DEF Client, Adapts
  <2>5. /\ client' \in Client /\ client'.fields = next.fields /\ client'.tokens = next.tokens
        /\ client'.refused = client.refused \cup ({field} \ {"large", "context"})
        /\ client'.open = client.open /\ client'.refuses = client.refuses
    BY <1>1, <2>1, <2>2, <2>3, <2>4 DEF Client, Adapts
  <2>6. Forgets(client')
    <3>1. client'.refused \cap client'.fields = {}
      BY <1>1, <2>2, <2>5 DEF Forgets, Adapts
    <3>2. "max_tokens" \in client'.refused => client'.tokens = "max_completion_tokens"
      BY <1>1, <2>2, <2>5 DEF Forgets, Adapts
    <3> QED BY <1>1, <2>5, <3>1, <3>2 DEF Forgets
  <2>7. call.attempt + 1 \in 0..(MaxAttempts - 1)
    BY <1>1, <1>7, ChatBounds DEF Call
  <2>8. /\ now(next) \in Call /\ now(next).phase = call.phase /\ now(next).kind = call.kind
        /\ now(next).thinkingOff = call.thinkingOff /\ now(next).attempt = call.attempt + 1
        /\ now(next).large = next.large /\ now(next).text = call.text /\ now(next).error = call.error
        /\ now(next).blamed = call.blamed /\ now(next).billed = call.billed /\ now(next).cont = call.cont
        /\ now(next).dedupe = call.dedupe /\ now(next).before = call.before /\ now(next).from = call.from
        /\ now(next).pending = call.pending /\ now(next).at = call.at
    BY <1>1, <2>2, <2>7 DEF Call, Adapts
  <2> HIDE DEF now
  <2>9. C!Payload(client', now(next)) \in SUBSET (C!Optional \cup C!TokenFields)
    BY <2>5, PayloadTypes
  <2>10. call' = [now(next) EXCEPT !.sent = C!Payload(client', now(next))]
    BY <2>1
  <2> HIDE DEF changed
  <2>11. /\ call' \in Call /\ call'.phase = call.phase /\ call'.kind = call.kind
         /\ call'.thinkingOff = call.thinkingOff /\ call'.attempt = call.attempt + 1
         /\ call'.large = next.large /\ call'.text = call.text /\ call'.error = call.error
         /\ call'.blamed = call.blamed /\ call'.billed = call.billed /\ call'.cont = call.cont
         /\ call'.dedupe = call.dedupe /\ call'.before = call.before /\ call'.from = call.from
         /\ call'.pending = call.pending /\ call'.at = call.at
         /\ call'.sent = C!Payload(client', now(next))
    BY <2>8, <2>9, <2>10 DEF Call
  <2>12. call'.sent = C!Payload(client', call')
    BY <2>8, <2>11, PayloadDepends
  <2>13. WorkedOut(client', call', done \cup {field})
    <3>1. done \cup {field} \subseteq client'.refuses
      BY <1>3, <1>4, <2>5 DEF WorkedOut
    <3>2. (done \cup {field}) \cap client'.fields = {}
      BY <1>4, <2>2, <2>5 DEF WorkedOut, Adapts
    <3>3. "max_tokens" \in done \cup {field} => client'.tokens # "max_tokens"
      BY <1>4, <2>2, <2>5 DEF WorkedOut, Adapts
    <3>4. (done \cup {field}) \cap {"large", "context"} # {} => ~call'.large
      BY <1>4, <2>2, <2>11 DEF WorkedOut, Adapts
    <3> QED BY <2>2, <2>11, <3>1, <3>2, <3>3, <3>4 DEF WorkedOut
  <2>14. Asks(client', call')
    BY <2>12, <2>13 DEF Asks
  <2>15. Goes(call) => Goes(call')
    BY <2>11 DEF Goes, Compares
  <2>16. Wrote(call') /\ Blames(client', call')
    BY <1>1, <1>2, <2>11, <2>15 DEF Wrote, Blames
  <2> QED BY <1>1, <1>2, <2>5, <2>6, <2>11, <2>14, <2>16 DEF ChatInv
<1>8. CASE ~(call.attempt + 1 < MaxAttempts /\ C!Adjusted(field) # {})
  <2> DEFINE o == C!Over(C!StatusError(400, field))
  <2>1. call' = [o EXCEPT !.blamed = TRUE] /\ client' = client
    BY <1>8 DEF C!Refused
  <2>2. C!StatusError(400, field) \in C!Errors \ {"none"}
    BY StatusErrors
  <2>3. o \in Call /\ o.phase = "over" /\ o.error = C!StatusError(400, field) /\ o.text = call.text
    BY <1>1, <2>2, OverIs
  <2> HIDE DEF o
  <2>4. call' \in Call /\ call'.phase = "over" /\ call'.error = C!StatusError(400, field) /\ call'.text = call.text
    BY <2>1, <2>3 DEF Call
  <2>5. CASE field = "context"
    <3>1. C!StatusError(400, field) = "context_too_long"
      BY <2>5 DEF C!StatusError
    <3> QED BY <1>1, <1>2, <2>1, <2>2, <2>4, <3>1, EndsStep DEF Blames, Wrote
  <2>6. CASE field # "context"
    <3>1. C!Adjusted(field) # {}
      BY <1>2, <2>6, AdjustedUnless
    <3>2. ~(call.attempt + 1 < MaxAttempts)
      BY <1>8, <3>1
    <3>3. call.attempt \in Nat /\ Cardinality(client.refuses) \in Nat
      BY <1>1, <1>5, ChatBounds, FS_CardinalityType DEF Call
    <3>4. ~(Cardinality(client.refuses) < MaxAttempts)
      BY <1>6, <3>1, <3>2, <3>3, ChatBounds
    <3> QED BY <1>1, <1>2, <2>1, <2>2, <2>4, <3>4, EndsStep DEF Blames, Wrote
  <2> QED BY <2>5, <2>6
<1> QED BY <1>7, <1>8

\* What is written goes to the text; the rest of the call stays.
LEMMA YieldsIs ==
  ASSUME NEW c \in Call, NEW t \in Seq(C!Characters)
  PROVE  /\ C!Yields(c, t) \in Call /\ C!Yields(c, t).text = c.text \o t /\ C!Yields(c, t).phase = c.phase
         /\ C!Yields(c, t).segment = c.segment \o t
         /\ C!Yields(c, t).kind = c.kind /\ C!Yields(c, t).error = c.error /\ C!Yields(c, t).blamed = c.blamed
         /\ C!Yields(c, t).billed = c.billed /\ C!Yields(c, t).cont = c.cont /\ C!Yields(c, t).dedupe = c.dedupe
         /\ C!Yields(c, t).before = c.before /\ C!Yields(c, t).from = c.from
         /\ C!Yields(c, t).pending = c.pending /\ C!Yields(c, t).at = c.at
         /\ C!Yields(c, t).finish = c.finish /\ C!Yields(c, t).asked = c.asked
<1>1. c.text \o t \in Seq(C!Characters) /\ c.segment \o t \in Seq(C!Characters)
  BY ConcatProperties DEF Call
<1> QED BY <1>1 DEF C!Yields, Call

\* How a text that is held back is compared: it goes on behind what was written.
LEMMA ComparedGoesOn ==
  ASSUME NEW c \in Call, NEW m \in Nat, Compares(c, Len(c.text), m), c.text = C!Interval(1, Len(c.text)),
         NEW n \in Nat, c.from + n <= TextLength + 1,
         m <= c.from + n - (Len(c.text) + 1 - m)
  PROVE  /\ c.pending \o C!Interval(c.from, n) = C!Interval(Len(c.text) + 1 - m, c.from + n - (Len(c.text) + 1 - m))
         /\ C!TrimOverlap(c.before, c.pending \o C!Interval(c.from, n))
              = C!Interval(Len(c.text) + 1, c.from + n - 1 - Len(c.text))
         /\ C!Interval(Len(c.text) + 1, c.from + n - 1 - Len(c.text)) \in Seq(C!Characters)
         /\ c.text \o C!Interval(Len(c.text) + 1, c.from + n - 1 - Len(c.text)) = C!Interval(1, c.from + n - 1)
         /\ Len(C!Interval(1, c.from + n - 1)) = c.from + n - 1
<1> DEFINE a == Len(c.text)  f == c.from  p == a + 1 - m  k == f - p
<1>1. a \in Nat /\ f \in Nat /\ f \in 1..(TextLength + 1) /\ TextLength \in Nat
  <2>1. c.text \in Seq(C!Characters) /\ c.from \in 1..(TextLength + 1)
    BY DEF Call
  <2> QED BY <2>1, ChatBounds
<1>2. m \in C!Restated(a) /\ c.before = c.text /\ f >= p /\ c.pending = C!Interval(p, k)
  BY DEF Compares
<1>3. m <= a
  BY <1>2, ChatBounds DEF C!Restated
<1>0. f + n <= TextLength + 1 /\ m <= f + n - (a + 1 - m)
  OBVIOUS
<1> HIDE DEF a, f
<1>4. p \in Nat /\ k \in Nat /\ p + k = f /\ k + n = f + n - p /\ k + n \in Nat /\ m <= k + n
  BY <1>0, <1>1, <1>2, <1>3
<1> HIDE DEF p, k
<1>5. C!Interval(p, k) \o C!Interval(p + k, n) = C!Interval(p, k + n)
  BY <1>4, IntervalJoins
<1>6. C!TrimOverlap(C!Interval(1, a), C!Interval(p, k + n)) = C!Interval(a + 1, k + n - m)
  BY <1>1, <1>2, <1>4, TrimIs DEF p
<1>7. k + n - m = f + n - 1 - a /\ f + n - 1 - a \in Nat /\ a + (f + n - 1 - a) = f + n - 1 /\ f + n - 1 \in Nat
  BY <1>1, <1>3, <1>4 DEF p
<1>8. a + 1 \in Nat /\ 1 <= a + 1 /\ a + 1 + (f + n - 1 - a) - 1 <= TextLength /\ 1 + a = a + 1
  BY <1>0, <1>1, <1>7
<1>9. C!Interval(a + 1, f + n - 1 - a) \in Seq(C!Characters)
  BY <1>7, <1>8, IntervalTypes
<1>10. C!Interval(1, a) \o C!Interval(1 + a, f + n - 1 - a) = C!Interval(1, a + (f + n - 1 - a))
  <2> DEFINE g == f + n - 1 - a
  <2>1. 1 \in Nat /\ a \in Nat /\ g \in Nat
    BY <1>1, <1>7
  <2> HIDE DEF g
  <2>2. C!Interval(1, a) \o C!Interval(1 + a, g) = C!Interval(1, a + g)
    BY <2>1, IntervalJoins
  <2> QED BY <2>2 DEF g
<1>11. Len(C!Interval(1, f + n - 1)) = f + n - 1
  BY <1>7, IntervalIs
<1>12. c.pending \o C!Interval(f, n) = C!Interval(p, f + n - p)
  BY <1>2, <1>4, <1>5
<1>13. C!TrimOverlap(c.before, C!Interval(p, f + n - p)) = C!Interval(a + 1, f + n - 1 - a)
  BY <1>2, <1>4, <1>6, <1>7 DEF a
<1>14. c.text \o C!Interval(a + 1, f + n - 1 - a) = C!Interval(1, f + n - 1)
  BY <1>7, <1>8, <1>10 DEF a
<1>15. C!TrimOverlap(c.before, c.pending \o C!Interval(f, n)) = C!Interval(a + 1, f + n - 1 - a)
  BY <1>12, <1>13
<1> QED BY <1>9, <1>11, <1>12, <1>14, <1>15 DEF a, f, p

\* What a chunk makes of the call before it counts the characters.
Reads(c, d, n) ==
  d = [c EXCEPT !.from = @ + n, !.at = IF c.from + n - 1 > @ THEN c.from + n - 1 ELSE @]

IsRead(c, d, n) ==
  /\ d.from = c.from + n /\ d.at = IF c.from + n - 1 > c.at THEN c.from + n - 1 ELSE c.at
  /\ d.text = c.text /\ d.phase = c.phase /\ d.kind = c.kind /\ d.error = c.error /\ d.blamed = c.blamed
  /\ d.billed = c.billed /\ d.cont = c.cont /\ d.dedupe = c.dedupe /\ d.before = c.before
  /\ d.pending = c.pending

LEMMA ReadsIs ==
  ASSUME NEW c \in Call, NEW d, NEW n \in Nat, Reads(c, d, n), c.from + n <= TextLength + 1
  PROVE  d \in Call /\ IsRead(c, d, n)
<1>1. c.from \in 1..(TextLength + 1) /\ c.at \in 0..TextLength /\ TextLength \in Nat
  BY ChatBounds DEF Call
<1>2. c.from + n \in 1..(TextLength + 1) /\ (c.from + n - 1 > c.at => c.from + n - 1 \in 0..TextLength)
  BY <1>1
<1> QED BY <1>1, <1>2 DEF Reads, Call, IsRead

LEMMA ChunkStep ==
  ASSUME ChatInv, NEW n \in 1..MaxChunk, C!Chunk(n)
  PROVE  ChatInv'
<1> DEFINE t == C!Interval(call.from, n)  a == Len(call.text)  c == C!Takes(t)
<1>1. /\ client \in Client /\ call \in Call /\ calls \in 0..MaxCalls /\ Forgets(client)
      /\ (~client.open => client.refused = {} /\ call.phase = "idle") /\ Wrote(call)
  BY DEF ChatInv
<1>2. /\ call.phase = "streaming" /\ call.kind = "stream" /\ client' = client /\ calls' = calls
      /\ call.from + n - 1 <= TextLength
      /\ call' = [c EXCEPT !.from = @ + n, !.at = IF call.from + n - 1 > @ THEN call.from + n - 1 ELSE @]
  BY DEF C!Chunk
<1>3. /\ call.text = C!Interval(1, a) /\ call.error = "none" /\ ~call.blamed /\ call.billed <= call.cont /\ Goes(call)
  BY <1>1, <1>2 DEF Wrote
<1>4. n \in Nat /\ 1 <= n /\ call.from \in Nat /\ 1 <= call.from /\ call.from + n <= TextLength + 1 /\ a \in Nat
      /\ TextLength \in Nat /\ call.at \in Nat /\ call.from + n - 1 \in Nat
  <2>1. call.from \in 1..(TextLength + 1) /\ call.at \in 0..TextLength /\ call.text \in Seq(C!Characters)
    BY <1>1 DEF Call
  <2>2. a \in Nat
    BY <2>1, LenProperties
  <2>3. n \in Nat /\ 1 <= n
    BY ChatBounds
  <2> QED BY SMTT(30), <1>2, <2>1, <2>2, <2>3, ChatBounds
<1>5. t \in Seq(C!Characters) /\ Len(t) = n
  BY <1>4, IntervalTypes
<1> HIDE DEF a, t, c
<1> DEFINE Now ==
      /\ call' \in Call /\ call'.phase = "streaming" /\ call'.kind = "stream" /\ call'.error = "none"
      /\ ~call'.blamed /\ call'.billed <= call'.cont
      /\ call'.text = C!Interval(1, Len(call'.text)) /\ Goes(call')
<1>6. ASSUME ~call.dedupe PROVE Now
  <2>1. call.from = call.at + 1 /\ a = call.at /\ call.pending = <<>>
    BY <1>3, <1>6 DEF Goes, a
  <2>2. c = C!Yields(call, t)
    BY <1>6 DEF C!Takes, c
  <2>3. /\ c \in Call /\ c.text = call.text \o t /\ c.phase = call.phase /\ c.kind = call.kind
        /\ c.error = call.error /\ c.blamed = call.blamed /\ c.billed = call.billed /\ c.cont = call.cont
        /\ c.dedupe = call.dedupe /\ c.from = call.from /\ c.pending = call.pending /\ c.at = call.at
    BY <1>1, <1>5, <2>2, YieldsIs
  <2>4. C!Interval(1, a) \o C!Interval(1 + a, n) = C!Interval(1, a + n)
    BY ZenonT(30), <1>4, IntervalJoins
  <2>5. 1 + a = call.from
    BY <2>1, <1>4
  <2>6. call.text \o t = C!Interval(1, a + n)
    BY <1>3, <2>4, <2>5 DEF t
  <2>7. Len(C!Interval(1, a + n)) = a + n
    BY <1>4, IntervalIs
  <2>8. Reads(c, call', n)
    BY <1>2, <2>3 DEF Reads
  <2>9. /\ call' \in Call /\ call'.from = call.from + n
        /\ call'.at = IF call.from + n - 1 > call.at THEN call.from + n - 1 ELSE call.at
        /\ call'.text = call.text \o t /\ call'.phase = call.phase /\ call'.kind = call.kind
        /\ call'.error = call.error /\ call'.blamed = call.blamed /\ call'.billed = call.billed
        /\ call'.cont = call.cont /\ call'.dedupe = call.dedupe /\ call'.pending = call.pending
    <3>1. n \in Nat /\ c.from + n <= TextLength + 1
      BY <1>4, <2>3
    <3>2. call' \in Call /\ IsRead(c, call', n)
      BY <2>3, <2>8, <3>1, ReadsIs
    <3> QED BY <2>3, <3>2 DEF IsRead
  <2>10. call'.at = a + n /\ call'.from = call'.at + 1
    BY SMTT(30), <1>4, <2>1, <2>9
  <2>11. Len(call'.text) = a + n /\ call'.text = C!Interval(1, Len(call'.text))
    BY <2>6, <2>7, <2>9
  <2>12. Goes(call')
    BY <1>6, <2>1, <2>9, <2>10, <2>11 DEF Goes
  <2> QED BY <1>2, <1>3, <2>9, <2>11, <2>12
<1>7. ASSUME call.dedupe PROVE Now
  <2>1. PICK m \in Nat : Compares(call, a, m)
    BY <1>3, <1>7 DEF Goes, a
  <2> DEFINE p == a + 1 - m
  <2>2. /\ m \in C!Restated(a) /\ call.before = call.text /\ call.from >= p
        /\ call.pending = C!Interval(p, call.from - p)
        /\ call.at = IF call.from - 1 > a THEN call.from - 1 ELSE a
    BY <2>1 DEF Compares
  <2>3. m <= a /\ m <= OverlapWindow /\ p \in Nat /\ 1 <= p
    BY <1>4, <2>2, ChatBounds DEF C!Restated
  <2>4. call.from - p \in Nat /\ call.from + n - p \in Nat /\ call.from + n - p = (call.from - p) + n
        /\ p + (call.from - p) = call.from
    BY <1>4, <2>2, <2>3
  <2>5. C!Interval(p, call.from - p) \o C!Interval(p + (call.from - p), n) = C!Interval(p, (call.from - p) + n)
    <3> DEFINE k == call.from - p
    <3>1. n \in Nat /\ k \in Nat /\ p \in Nat
      BY <1>4, <2>3, <2>4
    <3> HIDE DEF k, p
    <3>2. C!Interval(p, k) \o C!Interval(p + k, n) = C!Interval(p, k + n)
      BY <3>1, IntervalJoins
    <3> QED BY <3>2 DEF k
  <2>6. call.pending \o t = C!Interval(p, call.from + n - p)
    BY <2>2, <2>4, <2>5 DEF t
  <2>7. p + (call.from + n - p) - 1 <= TextLength
    BY <1>4, <2>3
  <2>8. call.pending \o t \in Seq(C!Characters) /\ Len(call.pending \o t) = call.from + n - p
    BY <2>3, <2>4, <2>6, <2>7, IntervalTypes
  <2> HIDE DEF p
  <2>9. ASSUME Len(call.pending \o t) < OverlapWindow PROVE Now
    <3>1. c = [call EXCEPT !.pending = @ \o t]
      BY <1>7, <2>9 DEF C!Takes, c
    <3>2. /\ c \in Call /\ c.text = call.text /\ c.phase = call.phase /\ c.kind = call.kind
          /\ c.error = call.error /\ c.blamed = call.blamed /\ c.billed = call.billed /\ c.cont = call.cont
          /\ c.dedupe = call.dedupe /\ c.from = call.from /\ c.pending = call.pending \o t /\ c.at = call.at
          /\ c.before = call.before
      BY <1>1, <2>8, <3>1 DEF Call
    <3>3. Reads(c, call', n)
      BY <1>2, <3>2 DEF Reads
    <3>4. /\ call' \in Call /\ call'.from = call.from + n
          /\ call'.at = IF call.from + n - 1 > call.at THEN call.from + n - 1 ELSE call.at
          /\ call'.text = call.text /\ call'.phase = call.phase /\ call'.kind = call.kind
          /\ call'.error = call.error /\ call'.blamed = call.blamed /\ call'.billed = call.billed
          /\ call'.cont = call.cont /\ call'.dedupe = call.dedupe /\ call'.pending = call.pending \o t
          /\ call'.before = call.before
      <4>1. n \in Nat /\ c.from + n <= TextLength + 1
        BY <1>4, <3>2
      <4>2. call' \in Call /\ IsRead(c, call', n)
        BY <3>2, <3>3, <4>1, ReadsIs
      <4> QED BY <3>2, <4>2 DEF IsRead
    <3>5. call'.at = IF call'.from - 1 > a THEN call'.from - 1 ELSE a
      BY <1>4, <2>2, <3>4
    <3>6. call'.from >= p
      BY <1>4, <2>2, <2>3, <3>4
    <3>7. Compares(call', a, m)
      <4>1. call'.pending = C!Interval(p, call'.from - p)
        <5>1. call'.from - p = call.from + n - p
          BY <1>4, <2>3, <3>4
        <5> QED BY <5>1, <2>6, <3>4
      <4>2. call'.before = call'.text
        BY <2>2, <3>4
      <4> QED BY <2>2, <3>5, <3>6, <4>1, <4>2 DEF Compares, p
    <3>8. Len(call'.text) = a
      BY <3>4 DEF a
    <3>9. Goes(call')
      BY <1>7, <3>4, <3>7, <3>8 DEF Goes
    <3> QED BY <1>2, <1>3, <3>4, <3>8, <3>9
  <2>10. ASSUME ~(Len(call.pending \o t) < OverlapWindow) PROVE Now
    <3> DEFINE b == [call EXCEPT !.pending = <<>>, !.dedupe = FALSE]
               u == C!Interval(a + 1, call.from + n - 1 - a)
    <3>1. m <= call.from + n - p
      BY <2>3, <2>4, <2>8, <2>10, ChatBounds
    <3>2. /\ C!TrimOverlap(call.before, call.pending \o t) = u /\ u \in Seq(C!Characters)
          /\ call.text \o u = C!Interval(1, call.from + n - 1)
          /\ Len(C!Interval(1, call.from + n - 1)) = call.from + n - 1
      BY <1>1, <1>3, <1>4, <2>1, <3>1, ComparedGoesOn DEF a, t, p
    <3>3. /\ b \in Call /\ b.text = call.text /\ b.phase = call.phase /\ b.kind = call.kind
          /\ b.error = call.error /\ b.blamed = call.blamed /\ b.billed = call.billed /\ b.cont = call.cont
          /\ b.dedupe = FALSE /\ b.from = call.from /\ b.pending = <<>> /\ b.at = call.at
      <4>1. <<>> \in Seq(C!Characters) /\ FALSE \in BOOLEAN
        OBVIOUS
      <4> QED BY <1>1, <4>1 DEF Call
    <3>4. c = C!Yields(b, u)
      BY <1>7, <2>10, <3>2 DEF C!Takes, c
    <3> HIDE DEF b, u
    <3>5. /\ c \in Call /\ c.text = call.text \o u /\ c.phase = call.phase /\ c.kind = call.kind
          /\ c.error = call.error /\ c.blamed = call.blamed /\ c.billed = call.billed /\ c.cont = call.cont
          /\ c.dedupe = FALSE /\ c.from = call.from /\ c.pending = <<>> /\ c.at = call.at
      <4>1. /\ c \in Call /\ c.text = b.text \o u /\ c.phase = b.phase /\ c.kind = b.kind
            /\ c.error = b.error /\ c.blamed = b.blamed /\ c.billed = b.billed /\ c.cont = b.cont
            /\ c.dedupe = b.dedupe /\ c.from = b.from /\ c.pending = b.pending /\ c.at = b.at
        BY <3>2, <3>3, <3>4, YieldsIs
      <4> QED BY <3>3, <4>1
    <3>6. Reads(c, call', n)
      BY <1>2, <3>5 DEF Reads
    <3>7. /\ call' \in Call /\ call'.from = call.from + n
          /\ call'.at = IF call.from + n - 1 > call.at THEN call.from + n - 1 ELSE call.at
          /\ call'.text = call.text \o u /\ call'.phase = call.phase /\ call'.kind = call.kind
          /\ call'.error = call.error /\ call'.blamed = call.blamed /\ call'.billed = call.billed
          /\ call'.cont = call.cont /\ call'.dedupe = FALSE /\ call'.pending = <<>>
      <4>1. n \in Nat /\ c.from + n <= TextLength + 1
        BY <1>4, <3>5
      <4>2. call' \in Call /\ IsRead(c, call', n)
        BY <3>5, <3>6, <4>1, ReadsIs
      <4> QED BY <3>5, <4>2 DEF IsRead
    <3>8. call.from + n - 1 >= a
      BY <1>4, <2>3, <3>1 DEF p
    <3>9. call'.at = call.from + n - 1 /\ call'.from = call'.at + 1
      <4>1. call.at <= call.from + n - 1
        BY <1>4, <2>2, <3>8
      <4>2. call'.at = call.from + n - 1
        BY <1>4, <3>7, <4>1
      <4> QED BY <1>4, <3>7, <4>2
    <3>10. Len(call'.text) = call.from + n - 1 /\ call'.text = C!Interval(1, Len(call'.text))
      BY <3>2, <3>7
    <3>11. Goes(call')
      BY <3>7, <3>9, <3>10 DEF Goes
    <3> QED BY <1>2, <1>3, <3>7, <3>10, <3>11
  <2> QED BY <2>9, <2>10
<1>8. Now
  BY <1>6, <1>7
<1>9. Wrote(call') /\ Asks(client', call') /\ Blames(client', call')
  BY <1>8 DEF Wrote, Asks, Blames
<1> QED BY <1>1, <1>2, <1>8, <1>9 DEF ChatInv

\* The end of a stream releases what was held back: the text is all the model wrote.
LEMMA ReleasedIs ==
  ASSUME call \in Call, Wrote(call), call.phase = "streaming", call.kind = "stream", call.from > call.at
  PROVE  /\ C!Released \in Call /\ C!Released.text = C!Interval(1, call.at) /\ C!Released.pending = <<>>
         /\ C!Released.kind = call.kind /\ C!Released.error = "none" /\ ~C!Released.blamed
         /\ C!Released.billed = call.billed /\ C!Released.cont = call.cont /\ C!Released.at = call.at
<1> DEFINE a == Len(call.text)  f == call.from
<1>1. /\ call.text = C!Interval(1, a) /\ call.error = "none" /\ ~call.blamed /\ Goes(call)
  BY DEF Wrote
<1>2. a \in Nat /\ f \in Nat /\ f <= TextLength + 1 /\ call.at \in Nat /\ f > call.at /\ TextLength \in Nat
  <2>1. call.text \in Seq(C!Characters) /\ call.from \in 1..(TextLength + 1) /\ call.at \in 0..TextLength
    BY DEF Call
  <2>2. a \in Nat
    BY <2>1, LenProperties
  <2> QED BY <2>1, <2>2, ChatBounds
<1> HIDE DEF a, f
<1>3. CASE ~call.dedupe
  <2>1. a = call.at /\ call.pending = <<>>
    BY <1>1, <1>3 DEF Goes, a
  <2>2. C!Released = call
    BY <2>1 DEF C!Released
  <2>3. call.text = C!Interval(1, call.at)
    BY <1>1, <2>1
  <2> QED BY <1>1, <2>1, <2>2, <2>3
<1>4. CASE call.dedupe
  <2>1. PICK m \in Nat : Compares(call, a, m)
    BY <1>1, <1>4 DEF Goes, a
  <2>2. /\ m \in C!Restated(a) /\ f >= a + 1 - m /\ call.pending = C!Interval(a + 1 - m, f - (a + 1 - m))
        /\ call.at = IF f - 1 > a THEN f - 1 ELSE a
    BY <2>1 DEF Compares, f
  <2>3. m <= a /\ a + 1 - m \in Nat /\ f - (a + 1 - m) \in Nat
    BY <1>2, <2>2, ChatBounds DEF C!Restated
  <2>4. call.at = f - 1 /\ f - 1 >= a
    BY <1>2, <2>2
  <2>5. CASE call.pending = <<>>
    <3>1. Len(call.pending) = f - (a + 1 - m)
      BY <2>2, <2>3, IntervalIs
    <3>2. f = a + 1 - m
      BY <1>2, <2>3, <2>5, <3>1
    <3>3. call.at = a
      BY <1>2, <2>3, <2>4, <3>2
    <3>4. C!Released = call
      BY <2>5 DEF C!Released
    <3> QED BY <1>1, <2>5, <3>3, <3>4
  <2>6. CASE call.pending # <<>>
    <3> DEFINE b == [call EXCEPT !.pending = <<>>]
               u == C!Interval(a + 1, f + 0 - 1 - a)
    <3>1. C!Interval(f, 0) = <<>>
      BY DEF C!Interval
    <3>2. call.pending \o <<>> = call.pending
      <4>1. call.pending \in Seq(C!Characters)
        BY DEF Call
      <4> QED BY <4>1, ConcatEmptySeq
    <3>3. 0 \in Nat /\ f + 0 <= TextLength + 1 /\ m <= f + 0 - (a + 1 - m)
      BY <1>2, <2>3, <2>4
    <3>4. /\ C!TrimOverlap(call.before, call.pending \o C!Interval(f, 0)) = u /\ u \in Seq(C!Characters)
          /\ call.text \o u = C!Interval(1, f + 0 - 1)
      BY <1>1, <2>1, <3>3, ComparedGoesOn DEF a, f
    <3>5. f + 0 - 1 = call.at
      BY <1>2, <2>4
    <3>6. C!TrimOverlap(call.before, call.pending) = u /\ call.text \o u = C!Interval(1, call.at)
      BY <3>1, <3>2, <3>4, <3>5
    <3>7. /\ b \in Call /\ b.text = call.text /\ b.kind = call.kind /\ b.error = call.error
          /\ b.blamed = call.blamed /\ b.billed = call.billed /\ b.cont = call.cont /\ b.pending = <<>>
          /\ b.at = call.at
      <4>1. <<>> \in Seq(C!Characters)
        OBVIOUS
      <4> QED BY <4>1 DEF Call
    <3>8. C!Released = C!Yields(b, u)
      BY <2>6, <3>6 DEF C!Released
    <3> HIDE DEF b, u
    <3>9. /\ C!Released \in Call /\ C!Released.text = b.text \o u /\ C!Released.kind = b.kind
          /\ C!Released.error = b.error /\ C!Released.blamed = b.blamed /\ C!Released.billed = b.billed
          /\ C!Released.cont = b.cont /\ C!Released.pending = b.pending /\ C!Released.at = b.at
      BY <3>4, <3>7, <3>8, YieldsIs
    <3> QED BY <1>1, <3>6, <3>7, <3>9
  <2> QED BY <2>5, <2>6
<1> QED BY <1>3, <1>4

LEMMA EndsWithStep ==
  ASSUME ChatInv, NEW finish \in {"stop", "length"}, C!StreamEnds(finish)
  PROVE  ChatInv'
<1> DEFINE r == C!Released  e == [r EXCEPT !.finish = finish, !.billed = @ + 1]
<1>1. /\ client \in Client /\ call \in Call /\ calls \in 0..MaxCalls /\ Forgets(client)
      /\ (~client.open => client.refused = {} /\ call.phase = "idle") /\ Wrote(call)
  BY DEF ChatInv
<1>2. /\ call.phase = "streaming" /\ call.kind = "stream" /\ call.from > call.at
      /\ client' = client /\ calls' = calls
  BY DEF C!StreamEnds
<1>3. /\ r \in Call /\ r.text = C!Interval(1, call.at) /\ r.pending = <<>>
      /\ r.kind = "stream" /\ r.error = "none" /\ ~r.blamed
      /\ r.billed = call.billed /\ r.cont = call.cont /\ r.at = call.at
  BY <1>1, <1>2, ReleasedIs
<1>4. call.billed <= call.cont /\ call.billed \in Nat /\ call.cont \in Nat /\ call.cont <= MaxContinuations
  <2>1. call.billed <= call.cont
    BY <1>1, <1>2 DEF Wrote
  <2>2. call.billed \in 0..(MaxContinuations + 1) /\ call.cont \in 0..MaxContinuations
    BY <1>1 DEF Call
  <2> QED BY <2>1, <2>2, ChatBounds
<1> HIDE DEF r
<1>5. /\ e \in Call /\ e.text = C!Interval(1, call.at) /\ e.pending = <<>> /\ e.kind = "stream"
      /\ e.error = "none" /\ ~e.blamed /\ e.billed = call.billed + 1 /\ e.cont = call.cont /\ e.at = call.at
  <2>1. call.billed + 1 \in 0..(MaxContinuations + 1)
    BY <1>4, ChatBounds
  <2> QED BY <1>3, <2>1 DEF Call
<1>6. call.at \in Nat /\ call.at <= TextLength /\ TextLength \in Nat
  <2>1. call.at \in 0..TextLength
    BY <1>1 DEF Call
  <2> QED BY <2>1, ChatBounds
<1>7. Len(e.text) = call.at
  BY <1>5, <1>6, IntervalIs
<1>8. IF C!CanContinue(e)
      THEN \E n \in C!Restated(e.at) :
             call' = C!Requested([e EXCEPT !.cont = @ + 1, !.attempt = 0, !.large = e.asked,
                       !.before = e.text, !.segment = <<>>, !.dedupe = TRUE, !.from = e.at + 1 - n])
      ELSE call' = [e EXCEPT !.phase = "over"]
  BY DEF C!StreamEnds, r
<1> HIDE DEF e
<1>9. CASE ~C!CanContinue(e)
  <2>1. call' = [e EXCEPT !.phase = "over"]
    BY <1>8, <1>9
  <2>2. /\ call' \in Call /\ call'.phase = "over" /\ call'.text = e.text /\ call'.blamed = e.blamed
        /\ call'.at = e.at
    BY <1>5, <2>1 DEF Call
  <2>3. Blames(client, call')
    BY <1>5, <2>2 DEF Blames
  <2>4. call'.text = C!Interval(1, Len(call'.text)) /\ Len(call'.text) = call'.at
    BY <1>5, <1>7, <2>2
  <2> QED BY <1>2, <2>2, <2>3, <2>4, EndsStep
<1>10. CASE C!CanContinue(e)
  <2>1. PICK n \in C!Restated(e.at) :
          call' = C!Requested([e EXCEPT !.cont = @ + 1, !.attempt = 0, !.large = e.asked,
                    !.before = e.text, !.segment = <<>>, !.dedupe = TRUE, !.from = e.at + 1 - n])
    BY <1>8, <1>10
  <2> DEFINE d == [e EXCEPT !.cont = @ + 1, !.attempt = 0, !.large = e.asked,
                    !.before = e.text, !.segment = <<>>, !.dedupe = TRUE, !.from = e.at + 1 - n]
  <2>2. e.cont + 1 \in 0..MaxContinuations
    BY <1>4, <1>5, <1>10, ChatBounds DEF C!CanContinue
  <2>3. n \in Nat /\ n <= e.at /\ e.at + 1 - n \in 1..(TextLength + 1)
    BY <1>5, <1>6, <2>1, ChatBounds DEF C!Restated
  <2>4. 0 \in 0..(MaxAttempts - 1) /\ <<>> \in Seq(C!Characters) /\ e.text \in Seq(C!Characters) /\ e.asked \in BOOLEAN
    BY <1>5, ChatBounds DEF Call
  <2>5. /\ d \in Call /\ d.text = e.text /\ d.pending = e.pending /\ d.kind = e.kind /\ d.error = e.error
        /\ d.blamed = e.blamed /\ d.billed = e.billed /\ d.cont = e.cont + 1 /\ d.at = e.at /\ d.attempt = 0
        /\ d.before = e.text /\ d.dedupe = TRUE /\ d.from = e.at + 1 - n
    BY <1>5, <2>2, <2>3, <2>4 DEF Call
  <2>6. call' = [d EXCEPT !.phase = "request", !.sent = C!Payload(client, d)]
    BY <2>1 DEF C!Requested
  <2> HIDE DEF d
  <2>7. C!Payload(client, d) \in SUBSET (C!Optional \cup C!TokenFields)
    BY <1>1, PayloadTypes
  <2>8. /\ call' \in Call /\ call'.phase = "request" /\ call'.sent = C!Payload(client, d)
        /\ call'.thinkingOff = d.thinkingOff
        /\ call'.text = d.text /\ call'.pending = d.pending /\ call'.kind = d.kind /\ call'.error = d.error
        /\ call'.blamed = d.blamed /\ call'.billed = d.billed /\ call'.cont = d.cont /\ call'.at = d.at
        /\ call'.attempt = d.attempt /\ call'.before = d.before /\ call'.dedupe = d.dedupe /\ call'.from = d.from
    <3> DEFINE s == C!Payload(client, d)
    <3>1. s \in SUBSET (C!Optional \cup C!TokenFields) /\ call' = [d EXCEPT !.phase = "request", !.sent = s]
      BY <2>6, <2>7
    <3> HIDE DEF s
    <3>2. d \in Call
      BY <2>5
    <3>3. /\ call' \in Call /\ call'.phase = "request" /\ call'.sent = s
          /\ call'.thinkingOff = d.thinkingOff
          /\ call'.text = d.text /\ call'.pending = d.pending /\ call'.kind = d.kind /\ call'.error = d.error
          /\ call'.blamed = d.blamed /\ call'.billed = d.billed /\ call'.cont = d.cont /\ call'.at = d.at
          /\ call'.attempt = d.attempt /\ call'.before = d.before /\ call'.dedupe = d.dedupe /\ call'.from = d.from
      BY <3>1, <3>2 DEF Call
    <3> QED BY <3>3 DEF s
  <2>9. C!Payload(client, d) = C!Payload(client', call')
    BY <1>2, <2>8, PayloadDepends
  <2>10. WorkedOut(client', call', {})
    BY <2>5, <2>8, FS_EmptySet DEF WorkedOut
  <2>11. Asks(client', call')
    BY <2>8, <2>9, <2>10 DEF Asks
  <2>12. Compares(call', e.at, n)
    <3>1. e.at + 1 - n - (e.at + 1 - n) = 0 /\ ~(e.at + 1 - n - 1 > e.at)
      BY <1>5, <1>6, <2>3
    <3>2. C!Interval(e.at + 1 - n, 0) = <<>>
      BY DEF C!Interval
    <3>3. call'.pending = C!Interval(e.at + 1 - n, call'.from - (e.at + 1 - n))
      <4>1. call'.from - (e.at + 1 - n) = 0
        BY <2>3, <2>5, <2>8
      <4>2. call'.pending = <<>>
        BY <1>5, <2>5, <2>8
      <4> QED BY <3>2, <4>1, <4>2
    <3>4. call'.from - 1 > e.at => FALSE
      BY <1>5, <1>6, <2>3, <2>5, <2>8
    <3>5. call'.from >= e.at + 1 - n
      BY <2>3, <2>5, <2>8
    <3>6. call'.before = call'.text /\ call'.at = e.at
      BY <2>5, <2>8
    <3> QED BY <2>1, <3>3, <3>4, <3>5, <3>6 DEF Compares
  <2>13. Len(call'.text) = e.at /\ call'.text = C!Interval(1, Len(call'.text))
    BY <1>5, <1>7, <2>5, <2>8
  <2>14. Goes(call')
    BY <2>3, <2>5, <2>8, <2>12, <2>13 DEF Goes
  <2>15. call'.billed <= call'.cont
    BY <1>4, <1>5, <2>5, <2>8
  <2>16. Wrote(call') /\ Blames(client', call')
    BY <1>5, <2>5, <2>8, <2>13, <2>14, <2>15 DEF Wrote, Blames
  <2> QED BY <1>1, <1>2, <2>8, <2>11, <2>16 DEF ChatInv
<1> QED BY <1>9, <1>10

LEMMA ChatStep == ChatInv /\ [C!Next]_(C!vars) => ChatInv'
<1> SUFFICES ASSUME ChatInv, [C!Next]_(C!vars) PROVE ChatInv'
  OBVIOUS
<1>1. CASE UNCHANGED C!vars
  BY SMTT(30), <1>1 DEF C!vars, ChatInv, Client, Call, Forgets, Asks, WorkedOut, Blames, Wrote, Goes, Compares
<1>2. CASE C!Connect
  BY <1>2, ConnectStep
<1>3. CASE \E kind \in {"stream", "complete"}, thinkingOff, large \in BOOLEAN : C!StartCall(kind, thinkingOff, large)
  BY <1>3, StartStep
<1>4. CASE C!Requesting
  BY <1>4, RefusedStep, RequestFailsStep, AcceptedStep DEF C!Requesting
<1>5. CASE C!Streaming
  BY <1>5, ChunkStep DEF C!Streaming
<1>6. CASE C!Ending
  BY <1>6, EndsWithStep, StreamFailsStep, CompleteStep DEF C!Ending
<1>7. CASE C!CallReturns
  BY <1>7, ReturnStep
<1> QED BY <1>1, <1>2, <1>3, <1>4, <1>5, <1>6, <1>7 DEF C!Next

LEMMA ChatIsFaithful == ChatInv => CallsAreFaithful
<1> SUFFICES ASSUME ChatInv PROVE CallsAreFaithful
  OBVIOUS
<1>1. /\ client \in Client /\ call \in Call /\ calls \in 0..MaxCalls /\ Forgets(client)
      /\ Asks(client, call) /\ Blames(client, call) /\ Wrote(call)
  BY DEF ChatInv
<1>2. C!TypeOK
  BY <1>1 DEF C!TypeOK, Client, Call
<1>3. C!TextIsWhole
  BY <1>1 DEF C!TextIsWhole, C!Succeeded, Wrote, C!Interval
<1>4. C!NeverSentAgain
  BY <1>1, PayloadForgets DEF C!NeverSentAgain, Asks
<1>5. C!RefusalsAreWorkedOut
  <2>1. C!Cardinality(client.refuses) = Cardinality(client.refuses)
    BY DEF C!Cardinality, Cardinality
  <2> QED BY <1>1, <2>1 DEF C!RefusalsAreWorkedOut, Blames
<1> QED BY <1>2, <1>3, <1>4, <1>5 DEF CallsAreFaithful

(* The text a task is given is what the model wrote, each character once,  *)
(* whatever a continuation restates; what an endpoint refuses is not sent  *)
(* again; fewer than MAX_REQUEST_ATTEMPTS refusals fail no call (llm.py).  *)
THEOREM CallsFaithful == PartsSpec => []CallsAreFaithful
<1>1. PartsInit => ChatInv
  BY ChatInit DEF PartsInit
<1>2. ChatInv /\ [PartsNext]_<<part, vars, callsVars, gateVars, planVars>> => ChatInv'
  <2>1. [PartsNext]_<<part, vars, callsVars, gateVars, planVars>> => [C!Next]_(C!vars)
    BY DEF PartsNext, callsVars, C!vars
  <2> QED BY <2>1, ChatStep
<1> QED BY <1>1, <1>2, ChatIsFaithful, PTL DEF PartsSpec
=============================================================================
