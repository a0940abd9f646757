-------------------------- MODULE TranslationProofs --------------------------
(***************************************************************************)
(* What one attempt makes of arguments and responses, for every text,      *)
(* conversation and response: the variables hold what their phase says,    *)
(* each adapter tells its provider the whole conversation, what is raised  *)
(* over a response fits its status, the JSON taken from a text is no       *)
(* thought, and a lone object is found however it is wrapped.              *)
(***************************************************************************)
EXTENDS Translation, SubsequenceProofs

-----------------------------------------------------------------------------
(* Thoughts: the tags before a place tell whether it is in a section *)

Pieces(s) == s \in Seq(ToSet(s))

LEMMA BeforeCounts ==
  ASSUME NEW s, Pieces(s), NEW piece, NEW i \in 1 .. Len(s)
  PROVE  /\ Before(s, piece, 1) = 0
         /\ Before(s, piece, i) \in Nat
         /\ Before(s, piece, i + 1) = Before(s, piece, i) + (IF s[i] = piece THEN 1 ELSE 0)
<1>. DEFINE T(j) == {k \in 1 .. j - 1 : s[k] = piece}
<1>1. i \in Nat \ {0} /\ Len(s) \in Nat
  BY DEF Pieces
<1>2. IsFiniteSet(T(i)) /\ Cardinality(T(i)) \in Nat
  <2>1. i - 1 \in Int
    BY <1>1
  <2>2. IsFiniteSet(1 .. i - 1) /\ T(i) \in SUBSET (1 .. i - 1)
    BY <2>1, FS_Interval
  <2>. QED  BY <2>2, FS_Subset, FS_CardinalityType
<1>3. T(1) = {}
  OBVIOUS
<1>4. /\ Before(s, piece, 1) = Cardinality(T(1)) /\ Before(s, piece, i) = Cardinality(T(i))
      /\ Before(s, piece, i + 1) = Cardinality(T(i + 1))
  BY DEF Before
<1>5. CASE s[i] = piece
  <2>1. T(i + 1) = T(i) \cup {i} /\ i \notin T(i)
    BY <1>1, <1>5
  <2>2. Cardinality(T(i) \cup {i}) = Cardinality(T(i)) + 1
    <3>. HIDE DEF T
    <3>. QED  BY <1>2, <2>1, FS_AddElement
  <2>. HIDE DEF T
  <2>. QED  BY <1>2, <1>3, <1>4, <1>5, <2>1, <2>2, FS_EmptySet
<1>6. CASE s[i] # piece
  <2>1. T(i + 1) = T(i)
    BY <1>1, <1>6
  <2>. HIDE DEF T
  <2>. QED  BY <1>2, <1>3, <1>4, <1>6, <2>1, FS_EmptySet
<1>. QED  BY <1>5, <1>6

\* How deep a place is in sections: what WellTagged keeps at zero or one.
Depth(s) ==
  [i \in 1 .. Len(s) + 1 |-> Before(s, ThinkOpen, i) - Before(s, ThinkClose, i)]

LEMMA DepthSteps ==
  ASSUME NEW s, Pieces(s), NEW i \in 1 .. Len(s)
  PROVE  /\ Depth(s)[1] = 0
         /\ Depth(s)[i] \in Int
         /\ s[i] = ThinkOpen => Depth(s)[i + 1] = Depth(s)[i] + 1
         /\ s[i] = ThinkClose => Depth(s)[i + 1] = Depth(s)[i] - 1
         /\ s[i] \notin {ThinkOpen, ThinkClose} => Depth(s)[i + 1] = Depth(s)[i]
<1>1. i \in 1 .. Len(s) + 1 /\ i + 1 \in 1 .. Len(s) + 1 /\ 1 \in 1 .. Len(s) + 1
  BY DEF Pieces
<1>2. ThinkOpen # ThinkClose
  BY DEF ThinkOpen, ThinkClose
<1>3. \A piece \in {ThinkOpen, ThinkClose} :
        /\ Before(s, piece, 1) = 0
        /\ Before(s, piece, i) \in Nat
        /\ Before(s, piece, i + 1) = Before(s, piece, i) + (IF s[i] = piece THEN 1 ELSE 0)
  BY BeforeCounts
<1>4. \A j \in {1, i, i + 1} :
        Depth(s)[j] = Before(s, ThinkOpen, j) - Before(s, ThinkClose, j)
  BY <1>1 DEF Depth
<1>. QED  BY <1>2, <1>3, <1>4

LEMMA DepthIs ==
  ASSUME NEW s, Pieces(s), NEW i \in DOMAIN s
  PROVE  /\ i \in 1 .. Len(s) /\ Len(s) \in Nat
         /\ WellTagged(s) => \A k \in 1 .. Len(s) + 1 : Depth(s)[k] \in {0, 1}
         /\ i \in Open(s) <=> s[i] \notin {ThinkOpen, ThinkClose} /\ Depth(s)[i] = 0
<1>1. DOMAIN s = 1 .. Len(s) /\ Len(s) \in Nat
  BY DEF Pieces
<1>2. i \in 1 .. Len(s) + 1
  BY <1>1
<1>3. Before(s, ThinkOpen, i) \in Nat /\ Before(s, ThinkClose, i) \in Nat
  BY <1>1, BeforeCounts
<1>4. Depth(s)[i] = Before(s, ThinkOpen, i) - Before(s, ThinkClose, i)
  BY <1>2 DEF Depth
<1>5. i \in Open(s) <=> s[i] \notin {ThinkOpen, ThinkClose} /\ Depth(s)[i] = 0
  BY <1>3, <1>4 DEF Open
<1>. QED  BY <1>1, <1>5 DEF WellTagged, Depth

\* A place outside the sections that the regular expressions cut is outside the
\* thoughts: going back from a place at depth one while the depth stays, one
\* comes to the tag that opened the section.
LEMMA UncutIsOpen ==
  ASSUME NEW s, Pieces(s), WellTagged(s), NEW i \in DOMAIN s,
         ~Thought(s, i)
  PROVE  i \in Open(s)
<1>. DEFINE d == Depth(s)
            T == {j \in 1 .. i : \A k \in j .. i : d[k] = 1}
<1>1. /\ i \in 1 .. Len(s) /\ Len(s) \in Nat
      /\ \A k \in 1 .. Len(s) + 1 : d[k] \in {0, 1}
      /\ i \in Open(s) <=> s[i] \notin {ThinkOpen, ThinkClose} /\ d[i] = 0
  BY DepthIs
<1>2. /\ d[1] = 0
      /\ \A k \in 1 .. Len(s) : s[k] = ThinkClose => d[k + 1] = d[k] - 1
      /\ \A k \in 1 .. Len(s) : s[k] # ThinkOpen => d[k + 1] <= d[k]
  <2>1. ASSUME NEW k \in 1 .. Len(s)
        PROVE  /\ s[k] = ThinkClose => d[k + 1] = d[k] - 1
               /\ s[k] # ThinkOpen => d[k + 1] <= d[k]
    BY <2>1, DepthSteps
  <2>. QED  BY <1>1, <2>1, DepthSteps
<1>. HIDE DEF d
<1>3. SUFFICES ASSUME d[i] = 1 PROVE FALSE
  <2>1. s[i] # ThinkOpen
    <3>1. \A k \in i + 1 .. i - 1 : s[k] # ThinkClose
      BY <1>1
    <3>. QED  BY <1>1, <3>1 DEF Thought
  <2>2. d[i] = 0 => s[i] # ThinkClose
    <3>1. i + 1 \in 1 .. Len(s) + 1
      BY <1>1
    <3>. QED  BY <1>1, <1>2, <3>1
  <2>3. d[i] \in {0, 1}
    BY <1>1
  <2>. QED  BY <1>1, <2>1, <2>2, <2>3
<1>4. T \in SUBSET Nat /\ i \in T
  BY <1>1, <1>3
<1>5. PICK j \in T : \A m \in T : j <= m
  <2>. HIDE DEF T
  <2>. QED  BY <1>4, LeastNumber
<1>6. j \in 2 .. i /\ \A k \in j .. i : d[k] = 1
  <2>1. j \in 1 .. i /\ \A k \in j .. i : d[k] = 1
    OBVIOUS
  <2>2. d[j] = 1
    BY <1>1, <2>1
  <2>3. j # 1
    BY <1>2, <2>2
  <2>. QED  BY <1>1, <2>1, <2>3
<1>7. d[j - 1] = 0
  <2>1. j - 1 \notin T
    BY <1>1, <1>5, <1>6
  <2>2. j - 1 \in 1 .. i /\ j - 1 \in 1 .. Len(s) + 1
    BY <1>1, <1>6
  <2>3. d[j - 1] # 1
    <3>1. SUFFICES ASSUME d[j - 1] = 1 PROVE j - 1 \in T
      BY <2>1
    <3>2. \A k \in j - 1 .. i : k = j - 1 \/ k \in j .. i
      BY <1>1, <1>6
    <3>. QED  BY <1>6, <2>2, <3>1, <3>2
  <2>. QED  BY <1>1, <2>2, <2>3
<1>8. s[j - 1] = ThinkOpen
  <2>1. j - 1 \in 1 .. Len(s) /\ (j - 1) + 1 = j
    BY <1>1, <1>6
  <2>2. d[j] = 1
    BY <1>1, <1>6
  <2>3. s[j - 1] # ThinkOpen => d[j] <= d[j - 1]
    BY <1>2, <2>1
  <2>. QED  BY <1>7, <2>2, <2>3
<1>9. \A k \in (j - 1) + 1 .. i - 1 : s[k] # ThinkClose
  <2>1. SUFFICES ASSUME NEW k \in j .. i - 1, s[k] = ThinkClose PROVE FALSE
    BY <1>1, <1>6
  <2>2. k \in 1 .. Len(s) /\ k \in j .. i /\ k + 1 \in j .. i
    BY <1>1, <1>6, <2>1
  <2>3. d[k] = 1 /\ d[k + 1] = 1
    BY <1>6, <2>2
  <2>4. d[k + 1] = d[k] - 1
    BY <1>2, <2>1, <2>2
  <2>. QED  BY <2>3, <2>4
<1>10. j - 1 \in 1 .. i
  BY <1>1, <1>6
<1>. QED  BY <1>8, <1>9, <1>10 DEF Thought

\* And the other way round: no opening tag before a place outside the thoughts
\* is without a closing one in between.
LEMMA OpenIsUncut ==
  ASSUME NEW s, Pieces(s), WellTagged(s), NEW i \in Open(s)
  PROVE  i \in DOMAIN s /\ ~Thought(s, i)
<1>. DEFINE d == Depth(s)
<1>1. i \in DOMAIN s
  BY DEF Open
<1>2. /\ i \in 1 .. Len(s) /\ Len(s) \in Nat
      /\ \A k \in 1 .. Len(s) + 1 : d[k] \in {0, 1}
      /\ s[i] # ThinkOpen /\ d[i] = 0
  BY <1>1, DepthIs
<1>3. ASSUME NEW k \in 1 .. Len(s)
      PROVE  /\ s[k] = ThinkOpen => d[k + 1] = d[k] + 1
             /\ s[k] # ThinkClose => d[k + 1] >= d[k]
  BY <1>3, DepthSteps
<1>. HIDE DEF d
<1>4. SUFFICES ASSUME NEW j \in 1 .. i, s[j] = ThinkOpen,
                      \A k \in j + 1 .. i - 1 : s[k] # ThinkClose
               PROVE  FALSE
  BY <1>1 DEF Thought
<1>5. j < i
  BY <1>2, <1>4
<1>. DEFINE T == {k \in j + 1 .. i : d[k] = 0}
<1>6. T \in SUBSET Nat /\ i \in T
  BY <1>2, <1>5
<1>7. PICK k \in T : \A m \in T : k <= m
  <2>. HIDE DEF T
  <2>. QED  BY <1>6, LeastNumber
<1>8. k \in j + 1 .. i /\ d[k] = 0
  OBVIOUS
<1>9. k # j + 1
  <2>1. j \in 1 .. Len(s) /\ j \in 1 .. Len(s) + 1
    BY <1>2, <1>5
  <2>2. d[j + 1] = d[j] + 1 /\ d[j] \in {0, 1}
    BY <1>2, <1>3, <1>4, <2>1
  <2>. QED  BY <1>8, <2>2
<1>10. k - 1 \in j + 1 .. i - 1 /\ k - 1 \in 1 .. Len(s) /\ (k - 1) + 1 = k
  BY <1>2, <1>5, <1>8, <1>9
<1>11. d[k - 1] = 0
  <2>1. d[k - 1] \in {0, 1}
    BY <1>2, <1>10
  <2>2. s[k - 1] # ThinkClose
    BY <1>4, <1>10
  <2>3. d[k] >= d[k - 1]
    BY <1>3, <1>10, <2>2
  <2>. QED  BY <1>8, <2>1, <2>3
<1>12. k - 1 \in T
  BY <1>2, <1>10, <1>11
<1>. QED  BY <1>2, <1>7, <1>8, <1>10, <1>12

-----------------------------------------------------------------------------
(* What extract_json_text takes *)

\* In a text whose thoughts are marked as they should be, what is left is what
\* stands open.
LEMMA OpenIsLeft ==
  ASSUME NEW s, Pieces(s), WellTagged(s)
  PROVE  WithoutThoughts(s) = Kept(s, Open(s))
<1>1. {i \in DOMAIN s : ~Thought(s, i)} = Open(s)
  BY UncutIsOpen, OpenIsUncut
<1>. QED  BY <1>1 DEF WithoutThoughts

\* What is left is a sequence of pieces of the text.
LEMMA WhatIsLeft ==
  ASSUME NEW s, Pieces(s)
  PROVE  WithoutThoughts(s) \in Seq(ToSet(s))
<1>1. {i \in DOMAIN s : ~Thought(s, i)} \in SUBSET DOMAIN s
  OBVIOUS
<1>. QED  BY <1>1, KeptInOrder DEF WithoutThoughts, Pieces

\* A part of a text, and the whole of it.
LEMMA Part ==
  ASSUME NEW S, NEW s \in Seq(S), NEW i \in DOMAIN s, NEW j \in i .. Len(s)
  PROVE  /\ DOMAIN s = 1 .. Len(s) /\ Len(s) \in Nat
         /\ SubSeq(s, i, j) \in Seq(S)
         /\ SubSeq(s, i, j) # <<>>
         /\ SubSeq(s, i, j)[1] = s[i]
         /\ SubSeq(s, 1, Len(s)) = s
OBVIOUS

\* An object stands at its brace.
LEMMA ObjectsHaveBraces ==
  ASSUME NEW S, NEW s \in Seq(S), NEW i \in DOMAIN s, NEW j \in i .. Len(s),
         Whole(SubSeq(s, i, j))
  PROVE  /\ HasBrace(s[i]) /\ s[i] \notin DOMAIN FirstOf
         /\ DecodedAt(s, i) # {}
<1>1. s[i] \in Objects \cup Cut
  BY Part DEF Whole
<1>2. SubSeq(s, i, j) \in ObjectsFrom(s, i)
  BY DEF ObjectsFrom
<1>. QED  BY <1>1, <1>2, PiecesAssumption DEF HasBrace, Opens, DecodedAt

\* What is taken is an object: a part of what is left, or the first object of
\* an array that is left.
LEMMA TakenFromTheLeft ==
  ASSUME NEW s, Pieces(s), NEW o \in ExtractJsonText(s)
  PROVE  LET raw == WithoutThoughts(s) IN
         /\ Whole(o) /\ o \in Seq(ToSet(s)) \cup Seq(Objects)
         /\ \E i \in DOMAIN raw :
              \/ \E j \in i .. Len(raw) : o = SubSeq(raw, i, j)
              \/ raw[i] \in DOMAIN FirstOf /\ o = <<FirstOf[raw[i]]>>
<1>. DEFINE raw == WithoutThoughts(s)
<1>1. raw \in Seq(ToSet(s))
  BY WhatIsLeft
<1>. HIDE DEF raw
<1>2. DOMAIN raw = 1 .. Len(raw) /\ Len(raw) \in Nat
  BY <1>1
<1>3. ASSUME NEW i \in DOMAIN raw, NEW j \in i .. Len(raw), o = SubSeq(raw, i, j), Whole(o)
      PROVE  /\ Whole(o) /\ o \in Seq(ToSet(s)) \cup Seq(Objects)
             /\ \E k \in DOMAIN raw :
                  \/ \E l \in k .. Len(raw) : o = SubSeq(raw, k, l)
                  \/ raw[k] \in DOMAIN FirstOf /\ o = <<FirstOf[raw[k]]>>
  BY <1>1, <1>3, Part
<1>4. CASE Whole(raw) /\ o = raw
  <2>1. Len(raw) >= 1
    BY <1>2, <1>4 DEF Whole
  <2>2. 1 \in DOMAIN raw /\ Len(raw) \in 1 .. Len(raw)
    BY <1>2, <2>1
  <2>3. SubSeq(raw, 1, Len(raw)) = raw
    BY <1>1, <2>2, Part
  <2>. QED  BY <1>3, <1>4, <2>2, <2>3 DEF raw
<1>5. CASE o \in FencedObject(raw)
  <2>1. PICK m \in Fenced(raw) : o = SubSeq(raw, m[1], m[2]) /\ Whole(o)
    BY <1>5 DEF FencedObject
  <2>2. m[1] \in 2 .. Len(raw) - 1 /\ m[2] \in 2 .. Len(raw) - 1 /\ m[1] <= m[2]
    BY DEF Fenced
  <2>3. m[1] \in DOMAIN raw /\ m[2] \in m[1] .. Len(raw)
    BY <1>2, <2>2
  <2>. QED  BY <1>3, <2>1, <2>3 DEF raw
<1>6. CASE o \in FirstJsonObject(raw)
  <2>1. PICK i \in DOMAIN raw : o \in DecodedAt(raw, i)
    BY <1>6 DEF FirstJsonObject
  <2>2. CASE raw[i] \in DOMAIN FirstOf
    <3>1. o = <<FirstOf[raw[i]]>> /\ FirstOf[raw[i]] \in Objects
      BY <2>1, <2>2, PiecesAssumption DEF DecodedAt
    <3>2. Whole(o) /\ o \in Seq(Objects)
      BY <3>1 DEF Whole
    <3>. QED  BY <2>2, <3>1, <3>2 DEF raw
  <2>3. CASE raw[i] \notin DOMAIN FirstOf
    <3>1. \E j \in i .. Len(raw) : o = SubSeq(raw, i, j) /\ Whole(o)
      BY <2>1, <2>3 DEF DecodedAt, ObjectsFrom
    <3>. QED  BY <1>3, <3>1 DEF raw
  <2>. QED  BY <2>2, <2>3
<1>. QED  BY <1>4, <1>5, <1>6 DEF ExtractJsonText, raw

\* A lone object, or an array that holds one, is taken.
LEMMA LoneObjectTaken ==
  ASSUME NEW s, Pieces(s), WellTagged(s),
         NEW open, open = Kept(s, Open(s)),
         NEW i \in DOMAIN open,
         \/ \E j \in i .. Len(open) : Whole(SubSeq(open, i, j))
         \/ open[i] \in DOMAIN FirstOf,
         \A k \in 1 .. i - 1 : ~HasBrace(open[k])
  PROVE  ExtractJsonText(s) # {}
<1>1. open = WithoutThoughts(s) /\ open \in Seq(ToSet(s))
  BY OpenIsLeft, WhatIsLeft
<1>2. HasBrace(open[i]) /\ DecodedAt(open, i) # {}
  <2>1. CASE open[i] \in DOMAIN FirstOf
    BY <2>1 DEF HasBrace, DecodedAt
  <2>2. CASE \E j \in i .. Len(open) : Whole(SubSeq(open, i, j))
    BY <1>1, <2>2, ObjectsHaveBraces
  <2>. QED  BY <2>1, <2>2
<1>3. FirstJsonObject(open) # {}
  BY <1>2 DEF FirstJsonObject
<1>. QED  BY <1>1, <1>3 DEF ExtractJsonText

-----------------------------------------------------------------------------
(* The invariant: what each phase has in hand *)

\* What a call may return: a text, or an object of one.
Results == Texts \cup Seq(Objects) \cup UNION {Seq(ToSet(s)) : s \in Texts}

\* Where nothing is said of a variable it is None.
Phases ==
  /\ phase \in {"arguments", "prepared", "posted", "replied", "answered", "done",
                "next", "raised"}
  /\ adapter \in Adapters \cup {None}
  /\ phase = "arguments" => call \in Arguments /\ reply = None
  /\ phase \in {"prepared", "posted"} =>
       reply = None /\ \E args \in Arguments : ValidCall(args) /\ call = Prepared(args)
  /\ phase = "posted" => adapter \in Adapters /\ payload = Payload(adapter, call)
  /\ phase = "replied" => reply \in Replies
  /\ phase \notin {"replied", "raised"} => reply = None
  /\ IF phase = "raised" THEN exc \in Errors ELSE exc = None
  /\ IF phase \in {"answered", "done", "next"} THEN text \in Texts ELSE text = None
  /\ IF phase = "done" THEN result \in Results ELSE result = None

\* What was raised over a response, and what was taken from a text.
Verdict ==
  /\ phase = "raised" /\ reply # None =>
       /\ reply \in Replies
       /\ \/ reply.status >= 400 /\ exc = StatusError(reply)
          \/ /\ reply.status < 400
             /\ exc \in {Raised("JSONDecodeError"), Raised("AttributeError")}
  /\ phase = "done" /\ call.json => result \in ExtractJsonText(text)
  /\ phase = "next" => ExtractJsonText(text) = {}

IInv == Phases /\ Verdict

\* Texts are sequences of pieces.
LEMMA TextsArePieces == \A s \in Texts : Pieces(s)
<1>1. Pieces(<<>>)
  BY DEF Pieces
<1>. QED  BY <1>1, RepliesAssumption DEF Texts, Parsed, Pieces

LEMMA InitHolds == Init => IInv
BY DEF Init, IInv, Phases, Verdict

LEMMA ArgumentsKeep ==
  ASSUME IInv, Refuse \/ Prepare PROVE IInv'
<1>1. CASE Refuse
  <2>1. Raised("ValidationError") \in Errors
    BY DEF Errors, ClassNames, Bases
  <2>. QED  BY <1>1, <2>1, NoneAssumption DEF Refuse, Raise, IInv, Phases, Verdict
<1>2. CASE Prepare
  BY <1>2 DEF Prepare, IInv, Phases, Verdict
<1>. QED  BY <1>1, <1>2

LEMMA PostKeeps ==
  ASSUME IInv, NEW a \in Adapters, Post(a) PROVE IInv'
BY DEF Post, IInv, Phases, Verdict

LEMMA UnansweredKeeps ==
  ASSUME IInv, NEW class \in {"TimeoutException", "ConnectError", "ReadError"},
         Unanswered(class)
  PROVE  IInv'
<1>1. Raised(class) \in Errors
  BY DEF Errors, ClassNames, Bases
<1>. QED  BY <1>1 DEF Unanswered, Raise, IInv, Phases, Verdict

LEMMA RespondKeeps ==
  ASSUME IInv, NEW r \in Replies, Respond(r) PROVE IInv'
BY DEF Respond, IInv, Phases, Verdict

LEMMA ReplyKeeps ==
  ASSUME IInv, RaiseForStatus \/ RaiseForGarbage \/ Parse PROVE IInv'
<1>1. CASE RaiseForStatus
  <2>1. phase = "replied" /\ reply \in Replies /\ reply.status >= 400 /\ StatusError(reply) \in Errors
    BY <1>1 DEF RaiseForStatus, IInv, Phases, Errors
  <2>. QED  BY <1>1, <2>1 DEF RaiseForStatus, Raise, IInv, Phases, Verdict
<1>2. CASE RaiseForGarbage
  <2>1. PICK class \in Garbage(adapter, reply) : Raise(Raised(class))
    BY <1>2 DEF RaiseForGarbage
  <2>2. class \in {"JSONDecodeError", "AttributeError"}
    BY DEF Garbage
  <2>3. Raised(class) \in Errors
    BY <2>2 DEF Errors, ClassNames, Bases
  <2>. QED  BY <1>2, <2>1, <2>2, <2>3 DEF RaiseForGarbage, Raise, IInv, Phases, Verdict
<1>3. CASE Parse
  <2>1. Parsed(reply) \in Texts
    BY <1>3 DEF Parse, IInv, Phases, Texts
  <2>. QED  BY <1>3, <2>1, NoneAssumption DEF Parse, IInv, Phases, Verdict
<1>. QED  BY <1>1, <1>2, <1>3

LEMMA TextKeeps ==
  ASSUME IInv, TakeText \/ TakeObject \/ RejectText PROVE IInv'
<1>1. CASE TakeText
  BY <1>1 DEF TakeText, Results, IInv, Phases, Verdict
<1>2. CASE TakeObject
  <2>1. PICK o \in ExtractJsonText(text) : result' = o
    BY <1>2 DEF TakeObject
  <2>2. text \in Texts /\ Pieces(text)
    BY <1>2, TextsArePieces DEF TakeObject, IInv, Phases
  <2>3. o \in Seq(ToSet(text)) \cup Seq(Objects)
    BY <2>1, <2>2, TakenFromTheLeft
  <2>4. o \in Results
    BY <2>2, <2>3 DEF Results
  <2>. QED  BY <1>2, <2>1, <2>4 DEF TakeObject, IInv, Phases, Verdict
<1>3. CASE RejectText
  BY <1>3 DEF RejectText, IInv, Phases, Verdict
<1>. QED  BY <1>1, <1>2, <1>3

LEMMA Inductive == Spec => []IInv
<1>1. IInv /\ [Next]_vars => IInv'
  <2>1. ASSUME IInv, Next PROVE IInv'
    BY <2>1, ArgumentsKeep, PostKeeps, UnansweredKeeps, RespondKeeps, ReplyKeeps, TextKeeps
       DEF Next
  <2>2. ASSUME IInv, UNCHANGED vars PROVE IInv'
    BY <2>2 DEF vars, IInv, Phases, Verdict
  <2>. QED  BY <2>1, <2>2
<1>. QED  BY <1>1, InitHolds, PTL DEF Spec

-----------------------------------------------------------------------------
(* What each adapter tells its provider *)

\* The conversations that are sent.
Conversation(messages) == messages \in Seq(ToSet(messages)) /\ messages # <<>>

LEMMA PartsAre ==
  ASSUME NEW body, NEW x
  PROVE  x \in Parts(body) <=>
           \/ \E k \in DOMAIN body.system : x = <<0, k>>
           \/ \E i \in DOMAIN body.turns : \E k \in DOMAIN body.turns[i].parts : x = <<i, k>>
BY DEF Parts

\* A function that numbers places, in their order.
Numbers(f, places, least, most) ==
  /\ f \in [places -> least .. most]
  /\ \A i, j \in places : i < j => f[i] < f[j]
  /\ \A k \in least .. most : \E i \in places : f[i] = k

\* The instructions of a conversation, and the rest of it.
Divides(systems, rest, m) ==
  /\ systems \in SUBSET DOMAIN m /\ \A i \in systems : m[i].role = "system"
  /\ rest \in SUBSET DOMAIN m /\ \A i \in rest : m[i].role # "system"
  /\ \A i \in DOMAIN m : i \in systems \/ i \in rest

\* Each message in a turn of its own.
LEMMA TurnForEach ==
  ASSUME NEW m, Conversation(m), NEW a, NEW body,
         body.system = <<>>,
         NEW n \in Nat, NEW r, Numbers(r, DOMAIN m, 1, n),
         DOMAIN body.turns = 1 .. n,
         \A i \in DOMAIN m :
           /\ body.turns[r[i]].role = AssistantRole(a) <=> m[i].role = "assistant"
           /\ body.turns[r[i]].parts = <<m[i].content>>
  PROVE  \E place \in [DOMAIN m -> Parts(body)] : TellsAll(m, a, body, place)
<1>. USE DEF Numbers
<1>. DEFINE place == [i \in DOMAIN m |-> <<r[i], 1>>]
<1>1. DOMAIN m = 1 .. Len(m) /\ Len(m) \in Nat \ {0} /\ 1 \in DOMAIN m
  BY DEF Conversation
<1>2. \A i \in DOMAIN m : DOMAIN body.turns[r[i]].parts = {1}
                          /\ body.turns[r[i]].parts[1] = m[i].content
  <2>1. \A i \in DOMAIN m : body.turns[r[i]].parts = <<m[i].content>>
    OBVIOUS
  <2>2. \A i \in DOMAIN m : DOMAIN <<m[i].content>> = {1} /\ <<m[i].content>>[1] = m[i].content
    OBVIOUS
  <2>. QED  BY <2>1, <2>2
<1>3. \A i \in DOMAIN m : r[i] \in 1 .. n /\ r[i] \in Int /\ r[i] # 0
  OBVIOUS
<1>4. DOMAIN body.system = {}
  OBVIOUS
<1>5. place \in [DOMAIN m -> Parts(body)]
  BY <1>2, <1>3, PartsAre
<1>6. \A i \in DOMAIN m : place[i][1] = r[i] /\ place[i][2] = 1
  BY <1>3
<1>7. ASSUME NEW x \in Parts(body) PROVE \E i \in DOMAIN m : place[i] = x
  <2>1. PICK t \in 1 .. n : \E k \in DOMAIN body.turns[t].parts : x = <<t, k>>
    BY <1>4, PartsAre
  <2>2. PICK i \in DOMAIN m : r[i] = t
    BY <2>1
  <2>. QED  BY <1>2, <2>1, <2>2
<1>. HIDE DEF place
<1>8. \A i \in DOMAIN m : Heard(a, body, place[i]) = Spoken(m[i])
  BY <1>2, <1>3, <1>6 DEF Heard, Spoken
<1>9. \A i, j \in DOMAIN m : i < j => Earlier(place[i], place[j])
  BY <1>6 DEF Earlier
<1>10. ASSUME NEW i \in DOMAIN m, NEW j \in DOMAIN m, i # j PROVE place[i] # place[j]
  <2>1. i < j \/ j < i
    BY <1>1, <1>10
  <2>2. r[i] # r[j]
    BY <1>3, <2>1
  <2>. QED  BY <1>6, <2>2
<1>11. TellsAll(m, a, body, place)
  BY <1>1, <1>7, <1>8, <1>9, <1>10 DEF TellsAll
<1>. QED  BY <1>5, <1>11

\* The first message in the system field, each other one in a turn of its own.
LEMMA HeadApart ==
  ASSUME NEW m, Conversation(m), NEW a, NEW body,
         m[1].role = "system", body.system = <<m[1].content>>,
         DOMAIN body.turns = 1 .. Len(m) - 1,
         \A i \in 1 .. Len(m) - 1 :
           /\ body.turns[i].role = AssistantRole(a) <=> m[i + 1].role = "assistant"
           /\ body.turns[i].parts = <<m[i + 1].content>>
  PROVE  \E place \in [DOMAIN m -> Parts(body)] : TellsAll(m, a, body, place)
<1>. DEFINE place == [i \in DOMAIN m |-> <<i - 1, 1>>]
<1>1. DOMAIN m = 1 .. Len(m) /\ Len(m) \in Nat \ {0} /\ 1 \in DOMAIN m
  BY DEF Conversation
<1>2. \A i \in 1 .. Len(m) - 1 :
        DOMAIN body.turns[i].parts = {1} /\ body.turns[i].parts[1] = m[i + 1].content
  <2>1. \A i \in 1 .. Len(m) - 1 : body.turns[i].parts = <<m[i + 1].content>>
    OBVIOUS
  <2>2. \A i \in 1 .. Len(m) - 1 :
          DOMAIN <<m[i + 1].content>> = {1} /\ <<m[i + 1].content>>[1] = m[i + 1].content
    OBVIOUS
  <2>. QED  BY <2>1, <2>2
<1>3. DOMAIN body.system = {1} /\ body.system[1] = m[1].content
  OBVIOUS
<1>4. \A i \in DOMAIN m : i = 1 \/ i - 1 \in 1 .. Len(m) - 1
  BY <1>1
<1>5. \A i \in DOMAIN m : i \in Int /\ (i - 1) + 1 = i
  BY <1>1
<1>6. \A x : x \in Parts(body) <=> x = <<0, 1>> \/ \E k \in 1 .. Len(m) - 1 : x = <<k, 1>>
  BY <1>2, <1>3, PartsAre
<1>7. place \in [DOMAIN m -> Parts(body)]
  <2>1. \A i \in DOMAIN m : <<i - 1, 1>> \in Parts(body)
    <3>1. ASSUME NEW i \in DOMAIN m, i = 1 PROVE <<i - 1, 1>> \in Parts(body)
      <4>1. i - 1 = 0
        BY <3>1
      <4>. QED  BY <1>6, <4>1
    <3>. QED  BY <1>4, <1>6, <3>1
  <2>. QED  BY <2>1
<1>8. \A x \in Parts(body) : \E i \in DOMAIN m : place[i] = x
  <2>1. place[1] = <<0, 1>>
    BY <1>1
  <2>2. ASSUME NEW k \in 1 .. Len(m) - 1 PROVE k + 1 \in DOMAIN m /\ place[k + 1] = <<k, 1>>
    <3>1. k + 1 \in DOMAIN m /\ (k + 1) - 1 = k
      BY <1>1
    <3>2. place[k + 1] = <<(k + 1) - 1, 1>>
      BY <3>1
    <3>. HIDE DEF place
    <3>. QED  BY <3>1, <3>2
  <2>. HIDE DEF place
  <2>3. ASSUME NEW x \in Parts(body) PROVE \E i \in DOMAIN m : place[i] = x
    <3>1. x = <<0, 1>> \/ \E k \in 1 .. Len(m) - 1 : x = <<k, 1>>
      BY <1>6
    <3>. QED  BY <1>1, <2>1, <2>2, <3>1
  <2>. QED  BY <2>3
<1>9. ASSUME NEW i \in DOMAIN m PROVE Heard(a, body, place[i]) = Spoken(m[i])
  <2>1. place[i] = <<i - 1, 1>>
    OBVIOUS
  <2>2. CASE i = 1
    <3>1. Heard(a, body, <<0, 1>>) = Spoken(m[1])
      BY <1>3 DEF Heard, Spoken
    <3>2. place[i] = <<0, 1>>
      BY <2>1, <2>2
    <3>. QED  BY <2>2, <3>1, <3>2
  <2>3. CASE i - 1 \in 1 .. Len(m) - 1
    <3>1. PICK k \in 1 .. Len(m) - 1 : k = i - 1
      BY <2>3
    <3>2. k # 0 /\ k + 1 = i
      BY <1>1, <1>5, <3>1
    <3>3. Heard(a, body, <<k, 1>>) = Spoken(m[k + 1])
      BY <1>2, <3>2 DEF Heard, Spoken
    <3>. QED  BY <2>1, <3>1, <3>2, <3>3
  <2>. QED  BY <1>4, <2>2, <2>3
<1>10. \A i, j \in DOMAIN m : i < j => Earlier(place[i], place[j])
  BY <1>5 DEF Earlier
<1>11. \A i, j \in DOMAIN m : i # j => place[i] # place[j]
  BY <1>5
<1>. HIDE DEF place
<1>12. TellsAll(m, a, body, place)
  BY <1>1, <1>8, <1>9, <1>10, <1>11 DEF TellsAll
<1>. QED  BY <1>7, <1>12

\* The instructions of a conversation, all of them before the rest.
LEMMA InstructionsFirst ==
  ASSUME NEW m, Conversation(m), NEW a, NEW body, NEW place \in [DOMAIN m -> Parts(body)],
         \A i \in DOMAIN m : place[i][1] \in Int /\ place[i][2] \in Int,
         \A x \in Parts(body) : \E i \in DOMAIN m : place[i] = x,
         \A i \in DOMAIN m : Heard(a, body, place[i]) = Spoken(m[i]),
         \A i, j \in DOMAIN m :
           \/ i < j /\ (m[i].role = "system" <=> m[j].role = "system")
           \/ m[i].role = "system" /\ m[j].role # "system"
           => Earlier(place[i], place[j])
  PROVE  TellsAll(m, a, body, place)
<1>1. DOMAIN m = 1 .. Len(m) /\ Len(m) \in Nat \ {0}
  BY DEF Conversation
<1>2. \A i \in DOMAIN m : ~Earlier(place[i], place[i])
  BY DEF Earlier
<1>3. ASSUME NEW i \in DOMAIN m, NEW j \in DOMAIN m, i # j PROVE place[i] # place[j]
  <2>1. i < j \/ j < i
    BY <1>1, <1>3
  <2>2. Earlier(place[i], place[j]) \/ Earlier(place[j], place[i])
    BY <2>1
  <2>. QED  BY <1>2, <2>2
<1>4. 1 \in DOMAIN m
  BY <1>1
<1>5. ASSUME m[1].role = "system", NEW j \in DOMAIN m, j > 1 PROVE Earlier(place[1], place[j])
  BY <1>4, <1>5
<1>. QED  BY <1>3, <1>5 DEF TellsAll

\* The instructions in a turn of their own, in front of the others.
InATurnAdded(m, a, body, systems, rest, p, n, q, r) ==
  /\ body.system = <<>>
  /\ Divides(systems, rest, m)
  /\ p \in Nat
  /\ n \in Nat \ {0}
  /\ Numbers(q, systems, 1, p)
  /\ Numbers(r, rest, 2, n)
  /\ DOMAIN body.turns = 1 .. n
  /\ body.turns[1].role # AssistantRole(a)
  /\ DOMAIN body.turns[1].parts = 1 .. p
  /\ \A i \in systems : body.turns[1].parts[q[i]] = m[i].content
  /\ \A i \in rest :
       /\ body.turns[r[i]].role = AssistantRole(a) <=> m[i].role = "assistant"
       /\ body.turns[r[i]].parts = <<m[i].content>>

LEMMA TurnAdded ==
  ASSUME NEW m, Conversation(m), NEW a, NEW body, NEW systems, NEW rest, NEW p, NEW n,
         NEW q, NEW r, InATurnAdded(m, a, body, systems, rest, p, n, q, r)
  PROVE  \E place \in [DOMAIN m -> Parts(body)] : TellsAll(m, a, body, place)
<1>. USE DEF Numbers, Divides, InATurnAdded
<1>. DEFINE place == [i \in DOMAIN m |-> IF i \in systems THEN <<1, q[i]>> ELSE <<r[i], 1>>]
<1>1. /\ systems \subseteq DOMAIN m /\ rest \subseteq DOMAIN m
      /\ \A i \in DOMAIN m : i \in systems \/ i \in rest
      /\ \A i \in systems : m[i].role = "system"
      /\ \A i \in rest : m[i].role # "system" /\ i \notin systems
  OBVIOUS
<1>2. /\ \A i \in systems : place[i] = <<1, q[i]>>
      /\ \A i \in rest : place[i] = <<r[i], 1>>
  BY <1>1
<1>3. /\ \A i \in systems : q[i] \in 1 .. p /\ q[i] \in Int
      /\ \A i \in rest : r[i] \in 2 .. n /\ r[i] \in 1 .. n /\ r[i] \in Int /\ 1 < r[i]
      /\ \A k \in 1 .. n : k = 1 \/ k \in 2 .. n
      /\ 1 \in 1 .. n
  OBVIOUS
<1>4. /\ \A i \in systems : place[i][1] = 1 /\ place[i][2] = q[i]
      /\ \A i \in rest : place[i][1] = r[i] /\ place[i][2] = 1
  <2>. HIDE DEF place
  <2>. QED  BY <1>2, <1>3
<1>. HIDE DEF place
<1>5. DOMAIN body.system = {}
  OBVIOUS
<1>6. \A i \in rest : DOMAIN body.turns[r[i]].parts = {1}
                      /\ body.turns[r[i]].parts[1] = m[i].content
  <2>1. \A i \in rest : body.turns[r[i]].parts = <<m[i].content>>
    OBVIOUS
  <2>2. \A i \in rest : DOMAIN <<m[i].content>> = {1} /\ <<m[i].content>>[1] = m[i].content
    OBVIOUS
  <2>. QED  BY <2>1, <2>2
<1>7. \A i \in DOMAIN m : place[i] \in Parts(body)
  <2>1. ASSUME NEW i \in systems PROVE place[i] \in Parts(body)
    <3>1. q[i] \in DOMAIN body.turns[1].parts
      BY <1>3
    <3>2. <<1, q[i]>> \in Parts(body)
      BY <1>3, <3>1, PartsAre
    <3>3. place[i] = <<1, q[i]>>
      BY <1>2
    <3>. QED  BY <3>2, <3>3, Zenon
  <2>2. ASSUME NEW i \in rest PROVE place[i] \in Parts(body)
    <3>1. r[i] \in DOMAIN body.turns /\ 1 \in DOMAIN body.turns[r[i]].parts
      BY <1>3, <1>6
    <3>2. <<r[i], 1>> \in Parts(body)
      BY <3>1, PartsAre
    <3>3. place[i] = <<r[i], 1>>
      BY <1>2
    <3>. QED  BY <3>2, <3>3, Zenon
  <2>. QED  BY <1>1, <2>1, <2>2
<1>8. ASSUME NEW x \in Parts(body) PROVE \E i \in DOMAIN m : place[i] = x
  <2>1. PICK t \in 1 .. n : \E k \in DOMAIN body.turns[t].parts : x = <<t, k>>
    BY <1>5, PartsAre
  <2>2. CASE t = 1
    BY <1>1, <1>2, <2>1, <2>2
  <2>3. CASE t \in 2 .. n
    <3>1. PICK i \in rest : t = r[i]
      BY <2>3
    <3>2. x = <<r[i], 1>>
      BY <1>6, <2>1, <3>1
    <3>. QED  BY <1>1, <1>2, <3>2
  <2>. QED  BY <1>3, <2>2, <2>3
<1>9. ASSUME NEW i \in DOMAIN m PROVE Heard(a, body, place[i]) = Spoken(m[i])
  <2>1. CASE i \in systems
    <3>1. m[i].role # "assistant"
      BY <1>1, <2>1
    <3>. QED  BY <1>1, <1>4, <2>1, <3>1 DEF Heard, Spoken
  <2>2. CASE i \in rest
    <3>1. r[i] # 0
      BY <1>3, <2>2
    <3>. QED  BY <1>1, <1>4, <1>6, <2>2, <3>1 DEF Heard, Spoken
  <2>. QED  BY <1>1, <2>1, <2>2
<1>10. ASSUME NEW i \in DOMAIN m PROVE place[i][1] \in Int /\ place[i][2] \in Int
  BY <1>1, <1>3, <1>4
<1>11. ASSUME NEW i \in DOMAIN m, NEW j \in DOMAIN m,
              \/ i < j /\ (m[i].role = "system" <=> m[j].role = "system")
              \/ m[i].role = "system" /\ m[j].role # "system"
       PROVE  Earlier(place[i], place[j])
  <2>1. CASE i \in systems /\ j \in systems
    <3>1. q[i] < q[j]
      BY <1>1, <1>11, <2>1
    <3>. QED  BY <1>4, <2>1, <3>1 DEF Earlier
  <2>2. CASE i \in rest /\ j \in rest
    <3>1. r[i] < r[j]
      BY <1>1, <1>11, <2>2
    <3>. QED  BY <1>4, <2>2, <3>1 DEF Earlier
  <2>3. CASE i \in systems /\ j \in rest
    <3>1. 1 < r[j]
      BY <1>3, <2>3
    <3>. QED  BY <1>4, <2>3, <3>1 DEF Earlier
  <2>. QED  BY <1>1, <1>11, <2>1, <2>2, <2>3
<1>12. place \in [DOMAIN m -> Parts(body)]
  BY <1>7 DEF place
<1>13. TellsAll(m, a, body, place)
  BY <1>8, <1>9, <1>10, <1>11, <1>12, InstructionsFirst
<1>. QED  BY <1>12, <1>13

\* The instructions in front of what the user says first.
InATurnShared(m, a, body, systems, rest, p, n, q, r) ==
  /\ body.system = <<>>
  /\ Divides(systems, rest, m)
  /\ p \in Nat
  /\ n \in Nat \ {0}
  /\ Numbers(q, systems, 1, p)
  /\ Numbers(r, rest, 1, n)
  /\ DOMAIN body.turns = 1 .. n
  /\ body.turns[1].role # AssistantRole(a)
  /\ DOMAIN body.turns[1].parts = 1 .. p + 1
  /\ \A i \in systems : body.turns[1].parts[q[i]] = m[i].content
  /\ \A i \in rest : r[i] = 1 =>
       body.turns[1].parts[p + 1] = m[i].content /\ m[i].role # "assistant"
  /\ \A i \in rest : r[i] # 1 =>
       /\ body.turns[r[i]].role = AssistantRole(a) <=> m[i].role = "assistant"
       /\ body.turns[r[i]].parts = <<m[i].content>>

LEMMA TurnShared ==
  ASSUME NEW m, Conversation(m), NEW a, NEW body, NEW systems, NEW rest, NEW p, NEW n,
         NEW q, NEW r, InATurnShared(m, a, body, systems, rest, p, n, q, r)
  PROVE  \E place \in [DOMAIN m -> Parts(body)] : TellsAll(m, a, body, place)
<1>. USE DEF Numbers, Divides, InATurnShared
<1>. DEFINE place == [i \in DOMAIN m |-> IF i \in systems THEN <<1, q[i]>>
                                         ELSE IF r[i] = 1 THEN <<1, p + 1>> ELSE <<r[i], 1>>]
            late == {i \in rest : r[i] # 1}
<1>1. /\ systems \subseteq DOMAIN m /\ rest \subseteq DOMAIN m
      /\ \A i \in DOMAIN m : i \in systems \/ i \in rest
      /\ \A i \in systems : m[i].role = "system"
      /\ \A i \in rest : m[i].role # "system" /\ i \notin systems
  OBVIOUS
<1>2. /\ \A i \in systems : place[i] = <<1, q[i]>>
      /\ \A i \in rest : r[i] = 1 => place[i] = <<1, p + 1>>
      /\ \A i \in rest : r[i] # 1 => place[i] = <<r[i], 1>>
  BY <1>1
<1>3. /\ \A i \in systems : q[i] \in 1 .. p /\ q[i] \in Int /\ q[i] < p + 1
      /\ \A i \in rest : r[i] \in 1 .. n /\ r[i] \in Int /\ (r[i] # 1 => r[i] > 1)
      /\ \A k \in 1 .. p + 1 : k = p + 1 \/ k \in 1 .. p
      /\ 1 .. p \subseteq 1 .. p + 1 /\ p + 1 \in 1 .. p + 1 /\ p + 1 \in Int
      /\ 1 \in 1 .. n
  OBVIOUS
<1>4. /\ \A i \in systems : place[i][1] = 1 /\ place[i][2] = q[i]
      /\ \A i \in rest : r[i] = 1 => place[i][1] = 1 /\ place[i][2] = p + 1
      /\ \A i \in rest : r[i] # 1 => place[i][1] = r[i] /\ place[i][2] = 1
  <2>. HIDE DEF place
  <2>. QED  BY <1>2, <1>3
<1>. HIDE DEF place
<1>5. DOMAIN body.system = {}
  OBVIOUS
<1>6. \A i \in late : DOMAIN body.turns[r[i]].parts = {1} /\ body.turns[r[i]].parts[1] = m[i].content
  <2>1. \A i \in late : body.turns[r[i]].parts = <<m[i].content>>
    OBVIOUS
  <2>2. \A i \in late : DOMAIN <<m[i].content>> = {1} /\ <<m[i].content>>[1] = m[i].content
    OBVIOUS
  <2>. QED  BY <2>1, <2>2
<1>7. \A i \in DOMAIN m : place[i] \in Parts(body)
  <2>1. ASSUME NEW i \in systems PROVE place[i] \in Parts(body)
    <3>1. q[i] \in DOMAIN body.turns[1].parts
      BY <1>3
    <3>2. <<1, q[i]>> \in Parts(body)
      BY <1>3, <3>1, PartsAre
    <3>3. place[i] = <<1, q[i]>>
      BY <1>2
    <3>. QED  BY <3>2, <3>3, Zenon
  <2>2. ASSUME NEW i \in late PROVE place[i] \in Parts(body)
    <3>1. r[i] \in DOMAIN body.turns /\ 1 \in DOMAIN body.turns[r[i]].parts
      BY <1>3, <1>6
    <3>2. <<r[i], 1>> \in Parts(body)
      BY <3>1, PartsAre
    <3>3. place[i] = <<r[i], 1>>
      BY <1>2
    <3>. QED  BY <3>2, <3>3, Zenon
  <2>3. ASSUME NEW i \in rest, r[i] = 1 PROVE place[i] \in Parts(body)
    <3>1. <<1, p + 1>> \in Parts(body)
      BY <1>3, PartsAre
    <3>2. place[i] = <<1, p + 1>>
      BY <1>2, <2>3
    <3>. QED  BY <3>1, <3>2, Zenon
  <2>. QED  BY <1>1, <2>1, <2>2, <2>3
<1>8. ASSUME NEW x \in Parts(body) PROVE \E i \in DOMAIN m : place[i] = x
  <2>1. PICK t \in 1 .. n : \E k \in DOMAIN body.turns[t].parts : x = <<t, k>>
    BY <1>5, PartsAre
  <2>2. PICK i \in rest : r[i] = t
    BY <2>1
  <2>3. CASE t = 1
    <3>1. x = <<1, p + 1>> \/ \E k \in 1 .. p : x = <<1, k>>
      BY <1>3, <2>1, <2>3
    <3>. QED
      <4>1. CASE x = <<1, p + 1>>
        BY <1>1, <1>2, <2>2, <2>3, <4>1
      <4>2. CASE \E k \in 1 .. p : x = <<1, k>>
        <5>1. PICK j \in systems : x = <<1, q[j]>>
          BY <4>2
        <5>. QED  BY <1>1, <1>2, <5>1
      <4>. QED  BY <3>1, <4>1, <4>2
  <2>4. CASE t # 1
    <3>1. x = <<r[i], 1>>
      BY <1>6, <2>1, <2>2, <2>4
    <3>. QED  BY <1>1, <1>2, <2>2, <2>4, <3>1
  <2>. QED  BY <2>3, <2>4
<1>9. ASSUME NEW i \in DOMAIN m PROVE Heard(a, body, place[i]) = Spoken(m[i])
  <2>1. CASE i \in systems
    <3>1. m[i].role # "assistant"
      BY <1>1, <2>1
    <3>. QED  BY <1>1, <1>4, <2>1, <3>1 DEF Heard, Spoken
  <2>2. CASE i \in rest /\ r[i] = 1
    BY <1>1, <1>4, <2>2 DEF Heard, Spoken
  <2>3. CASE i \in late
    <3>1. r[i] # 0
      BY <1>3, <2>3
    <3>. QED  BY <1>1, <1>4, <1>6, <2>3, <3>1 DEF Heard, Spoken
  <2>. QED  BY <1>1, <2>1, <2>2, <2>3
<1>10. ASSUME NEW i \in DOMAIN m PROVE place[i][1] \in Int /\ place[i][2] \in Int
  BY <1>1, <1>3, <1>4
<1>11. ASSUME NEW i \in DOMAIN m, NEW j \in DOMAIN m,
              \/ i < j /\ (m[i].role = "system" <=> m[j].role = "system")
              \/ m[i].role = "system" /\ m[j].role # "system"
       PROVE  Earlier(place[i], place[j])
  <2>1. CASE i \in systems /\ j \in systems
    <3>1. q[i] < q[j]
      BY <1>1, <1>11, <2>1
    <3>. QED  BY <1>4, <2>1, <3>1 DEF Earlier
  <2>2. CASE i \in rest /\ j \in rest
    <3>1. r[i] < r[j]
      BY <1>1, <1>11, <2>2
    <3>2. r[i] >= 1 /\ r[j] > 1
      BY <1>3, <2>2, <3>1
    <3>. QED  BY <1>3, <1>4, <2>2, <3>1, <3>2 DEF Earlier
  <2>3. CASE i \in systems /\ j \in rest
    BY <1>3, <1>4, <2>3 DEF Earlier
  <2>. QED  BY <1>1, <1>11, <2>1, <2>2, <2>3
<1>12. place \in [DOMAIN m -> Parts(body)]
  BY <1>7 DEF place
<1>13. TellsAll(m, a, body, place)
  BY <1>8, <1>9, <1>10, <1>11, <1>12, InstructionsFirst
<1>. QED  BY <1>12, <1>13

\* A sequence with one element more, behind it or in front of it.
LEMMA OneBehind ==
  ASSUME NEW S, NEW s \in Seq(S), NEW x
  PROVE  /\ DOMAIN (s \o <<x>>) = 1 .. Len(s) + 1
         /\ \A k \in 1 .. Len(s) : (s \o <<x>>)[k] = s[k]
         /\ (s \o <<x>>)[Len(s) + 1] = x
<1>1. s \in Seq(S \cup {x}) /\ <<x>> \in Seq(S \cup {x}) /\ Len(<<x>>) = 1
  OBVIOUS
<1>. QED  BY <1>1

LEMMA OneInFront ==
  ASSUME NEW S, NEW s \in Seq(S), NEW x
  PROVE  /\ DOMAIN (<<x>> \o s) = 1 .. Len(s) + 1
         /\ (<<x>> \o s)[1] = x
         /\ \A k \in 1 .. Len(s) : (<<x>> \o s)[k + 1] = s[k]
<1>1. s \in Seq(S \cup {x}) /\ <<x>> \in Seq(S \cup {x}) /\ Len(<<x>>) = 1
  OBVIOUS
<1>. QED  BY <1>1

LEMMA OpenaiTells ==
  ASSUME NEW req, Conversation(req.messages)
  PROVE  /\ OpenaiBody(req).turns # <<>>
         /\ \E place \in [DOMAIN req.messages -> Parts(OpenaiBody(req))] :
              TellsAll(req.messages, "openai", OpenaiBody(req), place)
<1>. DEFINE m == req.messages
            body == OpenaiBody(req)
            r == [i \in DOMAIN m |-> i]
<1>1. DOMAIN m = 1 .. Len(m) /\ Len(m) \in Nat \ {0}
  BY DEF Conversation
<1>2. /\ body.system = <<>>
      /\ body.turns = [i \in DOMAIN m |-> Turn(m[i].role, <<m[i].content>>)]
  BY DEF OpenaiBody, Body
<1>3. \A i \in DOMAIN m : r[i] = i
  OBVIOUS
<1>4. r \in [DOMAIN m -> 1 .. Len(m)]
  BY <1>1
<1>. HIDE DEF body, m, r
<1>5. /\ DOMAIN body.turns = 1 .. Len(m)
      /\ \A i \in DOMAIN m : body.turns[i].role = m[i].role /\ body.turns[i].parts = <<m[i].content>>
  BY <1>1, <1>2 DEF Turn
<1>6. \E place \in [DOMAIN m -> Parts(body)] : TellsAll(m, "openai", body, place)
  <2>1. Conversation(m)
    BY DEF m
  <2>2. Numbers(r, DOMAIN m, 1, Len(m))
    BY <1>1, <1>3, <1>4 DEF Numbers
  <2>3. \A i \in DOMAIN m :
          /\ body.turns[r[i]].role = AssistantRole("openai") <=> m[i].role = "assistant"
          /\ body.turns[r[i]].parts = <<m[i].content>>
    BY <1>3, <1>5 DEF AssistantRole
  <2>. QED  BY <1>1, <1>2, <1>5, <2>1, <2>2, <2>3, TurnForEach
<1>7. body.turns # <<>>
  BY <1>1, <1>5
<1>. QED  BY <1>6, <1>7 DEF body, m

LEMMA AnthropicTells ==
  ASSUME NEW req, Conversation(req.messages)
  PROVE  /\ AnthropicBody(req).turns = <<>> =>
              Len(req.messages) = 1 /\ req.messages[1].role = "system"
         /\ \E place \in [DOMAIN req.messages -> Parts(AnthropicBody(req))] :
              TellsAll(req.messages, "anthropic", AnthropicBody(req), place)
<1>. DEFINE m == req.messages
            body == AnthropicBody(req)
            turn(x) == Turn(IF x.role \in {"user", "assistant"} THEN x.role ELSE "user", <<x.content>>)
            r == [i \in DOMAIN m |-> i]
<1>1. DOMAIN m = 1 .. Len(m) /\ Len(m) \in Nat \ {0} /\ Conversation(m)
  BY DEF Conversation
<1>2. \A x : /\ turn(x).role = AssistantRole("anthropic") <=> x.role = "assistant"
             /\ turn(x).parts = <<x.content>>
  BY DEF Turn, AssistantRole
<1>3. CASE m[1].role = "system"
  <2>1. /\ DOMAIN Tail(m) = 1 .. Len(m) - 1
        /\ \A i \in 1 .. Len(m) - 1 : Tail(m)[i] = m[i + 1]
    BY <1>1 DEF Conversation
  <2>2. body.system = <<m[1].content>> /\ body.turns = [i \in DOMAIN Tail(m) |-> turn(Tail(m)[i])]
    BY <1>3 DEF AnthropicBody, Body
  <2>. HIDE DEF body, m, turn
  <2>3. /\ DOMAIN body.turns = 1 .. Len(m) - 1
        /\ \A i \in 1 .. Len(m) - 1 : body.turns[i] = turn(m[i + 1])
    BY <2>1, <2>2
  <2>4. \E place \in [DOMAIN m -> Parts(body)] : TellsAll(m, "anthropic", body, place)
    <3>1. \A i \in 1 .. Len(m) - 1 :
            /\ body.turns[i].role = AssistantRole("anthropic") <=> m[i + 1].role = "assistant"
            /\ body.turns[i].parts = <<m[i + 1].content>>
      BY <1>2, <2>3
    <3>. QED  BY <1>1, <1>3, <2>2, <2>3, <3>1, HeadApart
  <2>5. body.turns = <<>> => Len(m) = 1
    <3>1. DOMAIN <<>> = {}
      OBVIOUS
    <3>2. body.turns = <<>> => 1 .. Len(m) - 1 = {}
      BY <2>3, <3>1
    <3>3. Len(m) # 1 => 1 \in 1 .. Len(m) - 1
      BY <1>1
    <3>. QED  BY <3>2, <3>3
  <2>. QED  BY <1>3, <2>4, <2>5 DEF body, m
<1>4. CASE m[1].role # "system"
  <2>1. body.system = <<>> /\ body.turns = [i \in DOMAIN m |-> turn(m[i])]
    BY <1>4 DEF AnthropicBody, Body
  <2>2. \A i \in DOMAIN m : r[i] = i
    OBVIOUS
  <2>3. r \in [DOMAIN m -> 1 .. Len(m)]
    BY <1>1
  <2>. HIDE DEF body, m, turn, r
  <2>4. DOMAIN body.turns = 1 .. Len(m) /\ \A i \in DOMAIN m : body.turns[i] = turn(m[i])
    BY <1>1, <2>1
  <2>5. \E place \in [DOMAIN m -> Parts(body)] : TellsAll(m, "anthropic", body, place)
    <3>1. \A i \in DOMAIN m :
            /\ body.turns[r[i]].role = AssistantRole("anthropic") <=> m[i].role = "assistant"
            /\ body.turns[r[i]].parts = <<m[i].content>>
      BY <1>2, <2>2, <2>4
    <3>2. Numbers(r, DOMAIN m, 1, Len(m))
      BY <1>1, <2>2, <2>3 DEF Numbers
    <3>. QED  BY <1>1, <2>1, <2>4, <3>1, <3>2, TurnForEach
  <2>6. body.turns # <<>>
    BY <1>1, <2>4
  <2>. QED  BY <2>5, <2>6 DEF body, m
<1>. QED  BY <1>3, <1>4

LEMMA GeminiTells ==
  ASSUME NEW req, Conversation(req.messages)
  PROVE  /\ GeminiBody(req).turns # <<>>
         /\ \E place \in [DOMAIN req.messages -> Parts(GeminiBody(req))] :
              TellsAll(req.messages, "gemini", GeminiBody(req), place)
<1>. DEFINE m == req.messages
            body == GeminiBody(req)
            systems == {i \in DOMAIN m : m[i].role = "system"}
            rest == {i \in DOMAIN m : m[i].role # "system"}
            first == Kept(m, systems)
            then == Kept(m, rest)
            p == Len(first)
            n == Len(then)
            turns == GeminiTurns(m)
            prefix == Instructions(m)
<1>1. DOMAIN m = 1 .. Len(m) /\ Len(m) \in Nat \ {0} /\ Conversation(m)
  BY DEF Conversation
<1>2. systems \in SUBSET DOMAIN m /\ rest \in SUBSET DOMAIN m /\ rest = DOMAIN m \ systems
  OBVIOUS
<1>3. m \in Seq(ToSet(m))
  BY DEF Conversation
<1>4. \A i \in DOMAIN m : i \in systems <=> m[i].role = "system"
  OBVIOUS
<1>5. turns = [i \in DOMAIN then |->
                 Turn(IF then[i].role = "assistant" THEN "model" ELSE "user", <<then[i].content>>)]
  BY DEF GeminiTurns
<1>6. prefix = [i \in DOMAIN first |-> first[i].content]
  BY DEF Instructions
<1>7. /\ body.system = <<>>
      /\ prefix = <<>> => body.turns = turns
      /\ prefix # <<>> /\ turns # <<>> /\ turns[1].role = "user" =>
           body.turns = [turns EXCEPT ![1].parts = prefix \o @]
      /\ prefix # <<>> /\ ~(turns # <<>> /\ turns[1].role = "user") =>
           body.turns = <<Turn("user", prefix)>> \o turns
  BY DEF GeminiBody, Body
<1>8. \E q : /\ p \in Nat /\ DOMAIN first = 1 .. p /\ Numbers(q, systems, 1, p)
             /\ \A i \in systems : first[q[i]] = m[i]
  <2>. HIDE DEF m, systems
  <2>. QED  BY <1>2, <1>3, KeptNumbered DEF Numbers
<1>9. \E r : /\ n \in Nat /\ DOMAIN then = 1 .. n /\ Numbers(r, rest, 1, n)
             /\ \A i \in rest : then[r[i]] = m[i]
  <2>1. rest \in SUBSET DOMAIN m
    BY <1>2
  <2>. HIDE DEF m, rest
  <2>. QED  BY <1>3, <2>1, KeptNumbered, SMTT(30) DEF Numbers
<1>. HIDE DEF body, m, systems, rest, first, then, p, n, turns, prefix
<1>10. PICK q : /\ p \in Nat /\ DOMAIN first = 1 .. p /\ Numbers(q, systems, 1, p)
                /\ \A i \in systems : first[q[i]] = m[i]
  BY <1>8
<1>11. PICK r : /\ n \in Nat /\ DOMAIN then = 1 .. n /\ Numbers(r, rest, 1, n)
                /\ \A i \in rest : then[r[i]] = m[i]
  BY <1>9
<1>12. /\ DOMAIN turns = 1 .. n
       /\ \A i \in rest :
            /\ turns[r[i]].role = AssistantRole("gemini") <=> m[i].role = "assistant"
            /\ turns[r[i]].role \in {"user", "model"}
            /\ turns[r[i]].parts = <<m[i].content>>
  BY <1>5, <1>11 DEF Turn, AssistantRole, Numbers
<1>13. DOMAIN prefix = 1 .. p /\ \A i \in systems : prefix[q[i]] = m[i].content
  BY <1>6, <1>10 DEF Numbers
<1>14. CASE prefix = <<>>
  <2>1. p = 0 /\ systems = {}
    <3>1. 1 .. p = {}
      BY <1>13, <1>14
    <3>2. p = 0
      BY <1>10, <3>1
    <3>. QED  BY <1>10, <3>1, <3>2 DEF Numbers
  <2>2. rest = DOMAIN m
    BY <1>2, <2>1
  <2>3. body.turns = turns
    BY <1>7, <1>14
  <2>4. \E place \in [DOMAIN m -> Parts(body)] : TellsAll(m, "gemini", body, place)
    <3>1. Numbers(r, DOMAIN m, 1, n) /\ n \in Nat
      BY <1>11, <2>2
    <3>2. \A i \in DOMAIN m :
            /\ body.turns[r[i]].role = AssistantRole("gemini") <=> m[i].role = "assistant"
            /\ body.turns[r[i]].parts = <<m[i].content>>
      BY <1>12, <2>2, <2>3
    <3>3. body.system = <<>> /\ DOMAIN body.turns = 1 .. n
      BY <1>7, <1>12, <2>3
    <3>. QED  BY <1>1, <3>1, <3>2, <3>3, TurnForEach
  <2>5. turns # <<>>
    <3>1. 1 \in rest /\ r[1] \in 1 .. n
      BY <1>1, <1>11, <2>2 DEF Numbers
    <3>2. DOMAIN <<>> = {}
      OBVIOUS
    <3>. QED  BY <1>12, <3>1, <3>2
  <2>. QED  BY <2>3, <2>4, <2>5 DEF body, m
<1>15. CASE prefix # <<>> /\ turns # <<>> /\ turns[1].role = "user"
  <2>1. n \in Nat \ {0} /\ p \in Nat
    <3>1. n = 0 => turns = <<>>
      BY <1>5, <1>11, <1>12
    <3>. QED  BY <1>10, <1>11, <1>15, <3>1
  <2>2. PICK i \in rest : r[i] = 1
    <3>1. 1 \in 1 .. n
      BY <2>1
    <3>. QED  BY <1>11, <3>1 DEF Numbers
  <2>3. turns[1].parts = <<m[i].content>>
    BY <1>12, <2>2
  <2>4. body.turns = [turns EXCEPT ![1].parts = prefix \o turns[1].parts]
    BY <1>7, <1>15
  <2>5. /\ DOMAIN body.turns = 1 .. n
        /\ body.turns[1].role = "user"
        /\ body.turns[1].parts = prefix \o <<m[i].content>>
        /\ \A k \in 1 .. n : k # 1 => body.turns[k] = turns[k]
    <3>1. 1 \in DOMAIN turns /\ DOMAIN turns[1] = {"role", "parts"}
      BY <1>5, <1>11, <1>12, <2>1 DEF Turn, Numbers
    <3>. QED  BY <1>12, <1>15, <2>3, <2>4, <3>1
  <2>6. /\ DOMAIN body.turns[1].parts = 1 .. p + 1
        /\ \A k \in 1 .. p : body.turns[1].parts[k] = prefix[k]
        /\ body.turns[1].parts[p + 1] = m[i].content
    <3>1. prefix \in Seq(ToSet(prefix)) /\ Len(prefix) = p
      BY <1>6, <1>10, <1>13, FunctionIsSequence DEF ToSet
    <3>. QED  BY <2>5, <3>1, OneBehind
  <2>7. \A j \in rest : r[j] = 1 => j = i /\ m[j].role # "assistant"
    <3>1. ASSUME NEW j \in rest, r[j] = 1 PROVE j = i /\ m[j].role # "assistant"
      <4>1. m[j].role # "assistant"
        BY <1>12, <1>15, <3>1 DEF AssistantRole
      <4>2. ~(i < j) /\ ~(j < i)
        BY <1>11, <2>2, <3>1 DEF Numbers
      <4>3. i \in Nat /\ j \in Nat
        BY <1>1, <1>2
      <4>. QED  BY <4>1, <4>2, <4>3
    <3>. QED  BY <3>1
  <2>8. \A j \in systems : body.turns[1].parts[q[j]] = m[j].content
    BY <1>10, <1>13, <2>6 DEF Numbers
  <2>9. \A j \in rest : r[j] = 1 =>
          body.turns[1].parts[p + 1] = m[j].content /\ m[j].role # "assistant"
    BY <2>6, <2>7
  <2>10. \A j \in rest : r[j] # 1 =>
           /\ body.turns[r[j]].role = AssistantRole("gemini") <=> m[j].role = "assistant"
           /\ body.turns[r[j]].parts = <<m[j].content>>
    BY <1>11, <1>12, <2>5 DEF Numbers
  <2>11. body.turns[1].role # AssistantRole("gemini")
    BY <2>5 DEF AssistantRole
  <2>12. Divides(systems, rest, m)
    BY <1>2, <1>4 DEF Divides
  <2>13. \E place \in [DOMAIN m -> Parts(body)] : TellsAll(m, "gemini", body, place)
    <3>1. body.system = <<>> /\ Conversation(m)
      BY <1>1, <1>7
    <3>2. Numbers(q, systems, 1, p) /\ Numbers(r, rest, 1, n)
      BY <1>10, <1>11
    <3>3. DOMAIN body.turns = 1 .. n /\ DOMAIN body.turns[1].parts = 1 .. p + 1
      BY <2>5, <2>6
    <3>4. InATurnShared(m, "gemini", body, systems, rest, p, n, q, r)
      BY <2>1, <2>8, <2>9, <2>10, <2>11, <2>12, <3>1, <3>2, <3>3 DEF InATurnShared
    <3>. QED  BY <3>1, <3>4, TurnShared
  <2>14. body.turns # <<>>
    BY <2>1, <2>5
  <2>. QED  BY <2>13, <2>14 DEF body, m
<1>16. CASE prefix # <<>> /\ ~(turns # <<>> /\ turns[1].role = "user")
  <2>1. body.turns = <<Turn("user", prefix)>> \o turns
    BY <1>7, <1>16
  <2>2. /\ DOMAIN body.turns = 1 .. n + 1
        /\ body.turns[1] = Turn("user", prefix)
        /\ \A k \in 1 .. n : body.turns[k + 1] = turns[k]
    <3>1. turns \in Seq(ToSet(turns)) /\ Len(turns) = n
      BY <1>5, <1>11, <1>12, FunctionIsSequence DEF ToSet
    <3>. QED  BY <2>1, <3>1, OneInFront
  <2>. DEFINE s == [i \in rest |-> r[i] + 1]
              l == n + 1
  <2>3. \A i \in rest : s[i] = r[i] + 1 /\ r[i] \in 1 .. n
    BY <1>11 DEF Numbers
  <2>4. /\ s \in [rest -> 2 .. l] /\ l \in Nat \ {0}
        /\ \A k \in 2 .. l : k - 1 \in 1 .. n /\ (k - 1) + 1 = k
    BY <1>11, <2>3
  <2>5. \A i \in rest : body.turns[s[i]] = turns[r[i]]
    BY <2>2, <2>3
  <2>6. DOMAIN body.turns = 1 .. l
    BY <2>2
  <2>. HIDE DEF s, l
  <2>7. \A i, j \in rest : i < j => s[i] < s[j]
    BY <1>11, <2>3 DEF Numbers
  <2>8. ASSUME NEW k \in 2 .. l PROVE \E i \in rest : s[i] = k
    <3>1. PICK i \in rest : r[i] = k - 1
      BY <1>11, <2>4 DEF Numbers
    <3>. QED  BY <2>3, <2>4, <3>1
  <2>9. /\ body.turns[1].role # AssistantRole("gemini")
        /\ body.turns[1].parts = prefix
    BY <2>2 DEF Turn, AssistantRole
  <2>10. /\ DOMAIN body.turns[1].parts = 1 .. p
         /\ \A i \in systems : body.turns[1].parts[q[i]] = m[i].content
    BY <1>13, <2>9
  <2>11. \A i \in rest :
           /\ body.turns[s[i]].role = AssistantRole("gemini") <=> m[i].role = "assistant"
           /\ body.turns[s[i]].parts = <<m[i].content>>
    BY <1>12, <2>5
  <2>12. Divides(systems, rest, m)
    BY <1>2, <1>4 DEF Divides
  <2>13. \E place \in [DOMAIN m -> Parts(body)] : TellsAll(m, "gemini", body, place)
    <3>1. body.system = <<>> /\ Conversation(m)
      BY <1>1, <1>7
    <3>2. Numbers(q, systems, 1, p) /\ p \in Nat
      BY <1>10
    <3>3. Numbers(s, rest, 2, l) /\ l \in Nat \ {0} /\ body.turns[1].role # AssistantRole("gemini")
      BY <2>4, <2>7, <2>8, <2>9 DEF Numbers
    <3>4. InATurnAdded(m, "gemini", body, systems, rest, p, l, q, s)
      BY <2>6, <2>10, <2>11, <2>12, <3>1, <3>2, <3>3 DEF InATurnAdded
    <3>. QED  BY <3>1, <3>4, TurnAdded
  <2>14. body.turns # <<>>
    BY <2>4, <2>6
  <2>. QED  BY <2>13, <2>14 DEF body, m
<1>. QED  BY <1>14, <1>15, <1>16

\* The messages of a call that is let through are a conversation.
LEMMA PreparedIsSent ==
  ASSUME NEW args \in Arguments, ValidCall(args)
  PROVE  LET messages == Prepared(args).messages IN
         /\ Conversation(messages) /\ Len(messages) > 0
         /\ \A i \in DOMAIN messages : DOMAIN messages[i] = {"role", "content"}
<1>. DEFINE messages == NormalizeMessages(args.prompt, args.messages)
<1>1. \A role, content : DOMAIN Message(role, content) = {"role", "content"}
  BY DEF Message
<1>2. Prepared(args).messages = messages
  BY DEF Prepared
<1>3. CASE args.prompt # {}
  <2>1. PICK content : messages = <<Message("user", content)>>
    BY <1>3 DEF NormalizeMessages
  <2>. HIDE DEF messages
  <2>2. /\ Len(messages) = 1 /\ DOMAIN messages = {1} /\ messages # <<>>
        /\ messages[1] = Message("user", content)
    BY <2>1
  <2>3. messages \in Seq(ToSet(messages))
    <3>1. ToSet(messages) = {Message("user", content)}
      BY <2>2 DEF ToSet
    <3>. QED  BY <2>1, <3>1
  <2>. QED  BY <1>1, <1>2, <2>2, <2>3 DEF Conversation
<1>4. CASE args.prompt = {}
  <2>1. PICK s \in args.messages : s # <<>> /\ s \in Seq(ToSet(s))
    BY <1>4, ArgumentsAssumption DEF ValidCall, ValidMessages
  <2>2. s = CHOOSE q \in args.messages : TRUE
    BY ArgumentsAssumption
  <2>3. /\ messages \in [DOMAIN s -> ToSet(messages)]
        /\ \A i \in DOMAIN s : \E role, content : messages[i] = Message(role, content)
    BY <1>4, <2>2 DEF NormalizeMessages, ToSet
  <2>4. DOMAIN s = 1 .. Len(s) /\ Len(s) \in Nat \ {0}
    BY <2>1
  <2>. HIDE DEF messages
  <2>5. messages \in Seq(ToSet(messages)) /\ Len(messages) = Len(s)
    BY <2>3, <2>4, FunctionIsSequence
  <2>6. messages # <<>>
    BY <2>4, <2>5
  <2>. QED  BY <1>1, <1>2, <2>3, <2>4, <2>5, <2>6 DEF Conversation
<1>. QED  BY <1>3, <1>4

-----------------------------------------------------------------------------
(* The theorems *)

\* TypeOK: in each phase the variables that it reads hold a value, and the
\* conversation that is sent has at least one message.
THEOREM TypeCorrect == Spec => []TypeOK
<1>1. IInv => TypeOK
  <2>1. SUFFICES ASSUME IInv PROVE TypeOK
    OBVIOUS
  <2>2. phase = "posted" => payload # None
    <3>1. ASSUME phase = "posted" PROVE payload \in Bodies
      BY <2>1, <3>1, PreparedIsSent DEF IInv, Phases, Bodies, Sent, Conversation
    <3>. QED  BY <3>1, NoneAssumption
  <2>3. phase \in {"prepared", "posted"} =>
          /\ Len(call.messages) > 0
          /\ \A i \in DOMAIN call.messages : DOMAIN call.messages[i] = {"role", "content"}
    BY <2>1, PreparedIsSent DEF IInv, Phases
  <2>4. phase = "done" <=> result # None
    <3>1. None \notin Results
      BY NoneAssumption DEF Results
    <3>. QED  BY <2>1, <3>1 DEF IInv, Phases
  <2>. QED  BY <2>1, <2>2, <2>3, <2>4, NoneAssumption DEF TypeOK, IInv, Phases
<1>. QED  BY <1>1, Inductive, PTL

\* ConversationKept: whichever adapter the chain comes to, its body holds every
\* message of the conversation once, in the order and under the role that the
\* provider has for it, and nothing else.
THEOREM WholeConversationTold == Spec => []ConversationKept
<1>1. IInv => ConversationKept
  <2>1. SUFFICES ASSUME IInv, phase = "posted" PROVE ConversationKept
    BY DEF ConversationKept
  <2>2. adapter \in Adapters /\ payload = Payload(adapter, call)
    BY <2>1 DEF IInv, Phases
  <2>3. Conversation(call.messages)
    BY <2>1, PreparedIsSent DEF IInv, Phases
  <2>4. CASE adapter = "openai"
    <3>1. payload = OpenaiBody(call)
      BY <2>2, <2>4 DEF Payload
    <3>. QED  BY <2>1, <2>3, <2>4, <3>1, OpenaiTells DEF ConversationKept
  <2>5. CASE adapter = "anthropic"
    <3>1. payload = AnthropicBody(call)
      BY <2>2, <2>5 DEF Payload
    <3>. QED  BY <2>1, <2>3, <2>5, <3>1, AnthropicTells DEF ConversationKept
  <2>6. CASE adapter = "gemini"
    <3>1. payload = GeminiBody(call)
      BY <2>2, <2>6 DEF Payload
    <3>. QED  BY <2>1, <2>3, <2>6, <3>1, GeminiTells DEF ConversationKept
  <2>. QED  BY <2>2, <2>4, <2>5, <2>6 DEF Adapters
<1>. QED  BY <1>1, Inductive, PTL

\* ErrorsFitStatus: an exception raised over a response is retryable, a failed
\* authentication or a cooldown exactly where the status is, whatever the body
\* of an error holds, and none of them for a body that cannot be read.
THEOREM ErrorsFollowStatus == Spec => []ErrorsFitStatus
<1>1. ASSUME NEW r \in Replies, r.status >= 400
      PROVE  LET e == StatusError(r) IN
             /\ IsRetryable(e) <=> r.status \in {429, 500, 502, 503, 504, 529}
             /\ IsAuthFailure(e) <=> r.status \in {401, 403}
             /\ r.status = 429 =>
                  /\ IsInstance(e, "RateLimited")
                  /\ \A n \in r.retryAfter : n > 0 => RetryAfterSeconds(e) = n
  <2>. DEFINE e == StatusError(r)
  <2>1. /\ e.class = IF r.status = 429 THEN "RateLimited" ELSE "ProviderError"
        /\ e.status = r.status
        /\ r.status = 429 => e.retryAfter = r.retryAfter
    BY DEF StatusError, TooManyRequests, HttpError, Raised
  <2>. HIDE DEF e
  <2>2. /\ IsInstance(e, "ProviderError")
        /\ IsInstance(e, "RateLimited") <=> r.status = 429
        /\ ~IsInstance(e, "ValidationError") /\ ~IsInstance(e, "ConfigError")
        /\ ~IsInstance(e, "BudgetExceeded")
    BY <2>1 DEF IsInstance, Bases
  <2>3. IsRetryable(e) <=> r.status \in {429, 500, 502, 503, 504, 529}
    BY <2>1, <2>2 DEF IsRetryable, RetryableStatusCodes
  <2>4. IsAuthFailure(e) <=> r.status \in {401, 403}
    BY <2>1, <2>2 DEF IsAuthFailure
  <2>5. ASSUME r.status = 429, NEW n \in r.retryAfter, n > 0 PROVE RetryAfterSeconds(e) = n
    BY <2>1, <2>5, RepliesAssumption DEF RetryAfterSeconds
  <2>. QED  BY <2>2, <2>3, <2>4, <2>5 DEF e
<1>2. ASSUME NEW r \in Replies, r.status < 400,
             NEW class \in {"JSONDecodeError", "AttributeError"}
      PROVE  /\ ~IsRetryable(Raised(class)) /\ ~IsAuthFailure(Raised(class))
             /\ r.status \notin {429, 500, 502, 503, 504, 529, 401, 403}
  <2>1. Raised(class).class = class
    BY DEF Raised
  <2>2. ~IsInstance(Raised(class), "ProviderError") /\ ~IsInstance(Raised(class), "RateLimited")
    BY <2>1 DEF IsInstance, Bases
  <2>3. r.status \notin {429, 500, 502, 503, 504, 529, 401, 403}
    BY <1>2, RepliesAssumption
  <2>. QED  BY <2>1, <2>2, <2>3 DEF IsRetryable, IsAuthFailure
<1>3. IInv => ErrorsFitStatus
  <2>1. SUFFICES ASSUME IInv, phase = "raised", reply # None
                 PROVE  ErrorsFitStatus
    BY DEF ErrorsFitStatus
  <2>2. CASE reply.status >= 400 /\ exc = StatusError(reply)
    BY <1>1, <2>1, <2>2 DEF ErrorsFitStatus, IInv, Verdict
  <2>3. CASE reply.status < 400 /\ exc \in {Raised("JSONDecodeError"), Raised("AttributeError")}
    BY <1>2, <2>1, <2>3 DEF ErrorsFitStatus, IInv, Verdict
  <2>. QED  BY <2>1, <2>2, <2>3 DEF IInv, Verdict
<1>. QED  BY <1>3, Inductive, PTL

\* ThoughtsStayOut: the object a JSON call returns stands in what the thoughts
\* leave of the text, or in an array there.
THEOREM ThoughtsAreNoAnswer == Spec => []ThoughtsStayOut
<1>1. IInv => ThoughtsStayOut
  BY TextsArePieces, TakenFromTheLeft, OpenIsLeft DEF IInv, Phases, Verdict, ThoughtsStayOut
<1>. QED  BY <1>1, Inductive, PTL

\* LoneObjectFound: extract_json_text rejects no text that holds, once its
\* thoughts are taken out, an object and no brace before it.
THEOREM LoneObjectAccepted == Spec => []LoneObjectFound
<1>1. IInv => LoneObjectFound
  BY TextsArePieces, LoneObjectTaken DEF IInv, Phases, Verdict, LoneObjectFound
<1>. QED  BY <1>1, Inductive, PTL

=============================================================================
