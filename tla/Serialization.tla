---------------------------- MODULE Serialization ----------------------------
(***************************************************************************)
(* serialization.py: what a caller's arguments become before they are sent *)
(* and what is taken from a model's text when JSON was asked for.          *)
(*                                                                         *)
(* A message argument is [made, role, content]: made when the caller built *)
(* the Message, a mapping otherwise, whose content is {} when it has none. *)
(* A text is a sequence of pieces: the tags and the fence below, objects   *)
(* and parts of objects, and anything else; white space between pieces is  *)
(* left out.  A string that is open holds whatever has no quotation mark,  *)
(* tags and fences included.                                               *)
(***************************************************************************)
EXTENDS Subsequences

CONSTANTS
  Padded,     \* roles with blanks around them, to the same without
  Objects,    \* JSON objects, complete, in which no tag stands
  Broken,     \* "{...}" that is not JSON, and has a quotation mark
  Cut,        \* "{..." up to inside a string of it
  Rest,       \* what ends that string and the object
  FirstOf     \* JSON arrays, to the first object each of them holds

ASSUME PiecesAssumption ==
  /\ \A array \in DOMAIN FirstOf : FirstOf[array] \in Objects
  /\ DOMAIN FirstOf \cap (Objects \cup Cut) = {}
  /\ Cut \cap Objects = {}
  /\ {Rest, "<think>", "</think>"}
       \cap (Objects \cup Broken \cup Cut \cup DOMAIN FirstOf) = {}

Strip(role) == IF role \in DOMAIN Padded THEN Padded[role] ELSE role

ValidItem(item) == item.made \/ (Strip(item.role) # "" /\ item.content # {})

\* Mutant of ValidMessages: an empty list of messages is let through.
ValidMessages_Empty(prompt, messages) ==
  \/ prompt # {} /\ messages = {}
  \/ prompt = {} /\ \E s \in messages : \A i \in DOMAIN s : ValidItem(s[i])

\* Whether normalize_messages takes the arguments; prompt and messages are {}
\* when they are None.
ValidMessages(prompt, messages) ==
  \/ prompt # {} /\ messages = {}
  \/ prompt = {} /\ \E s \in messages : s # <<>> /\ \A i \in DOMAIN s : ValidItem(s[i])

Message(role, content) == [role |-> role, content |-> content]

NormalizeMessages(prompt, messages) ==
  IF prompt # {}
  THEN <<Message("user", CHOOSE c \in prompt : TRUE)>>
  ELSE LET s == CHOOSE s \in messages : TRUE IN
       [i \in DOMAIN s |->
          Message(IF s[i].made THEN s[i].role ELSE Strip(s[i].role),
                  CHOOSE c \in s[i].content : TRUE)]

-----------------------------------------------------------------------------

ThinkOpen == "<think>"
ThinkClose == "</think>"
Fence == "fence"   \* three backticks, with or without the word json

Opens(piece) == piece \in Objects \cup Broken \cup Cut
Closes(piece) == piece \in Objects \cup Broken \cup {Rest}
HasBrace(piece) == Opens(piece) \/ piece \in DOMAIN FirstOf
Quotable(piece) == ~HasBrace(piece) /\ piece # Rest

\* Whether a text is one JSON object and nothing else.
Whole(s) ==
  \/ Len(s) = 1 /\ s[1] \in Objects
  \/ /\ Len(s) > 1 /\ s[1] \in Cut /\ s[Len(s)] = Rest
     /\ \A i \in 2 .. Len(s) - 1 : Quotable(s[i])

ObjectsFrom(raw, i) == {s \in {SubSeq(raw, i, j) : j \in i .. Len(raw)} : Whole(s)}

\* The object that decoding from the first brace of a piece gives, or nothing.
DecodedAt(raw, i) ==
  IF raw[i] \in DOMAIN FirstOf THEN {<<FirstOf[raw[i]]>>} ELSE ObjectsFrom(raw, i)

\* _THINK_RE takes every section from an opening tag to the next closing one,
\* _THINK_OPEN_RE the rest from an opening tag that is left.  Neither asks
\* whether a tag stands in a string.
Thought(text, i) ==
  \E j \in 1 .. i :
    text[j] = ThinkOpen /\ \A k \in j + 1 .. i - 1 : text[k] # ThinkClose

\* Mutant of WithoutThoughts: a section that does not end is not cut off.
WithoutThoughts_Paired(text) ==
  Kept(text, {i \in DOMAIN text :
    ~(Thought(text, i) /\ \E m \in i .. Len(text) : text[m] = ThinkClose)})

WithoutThoughts(text) == Kept(text, {i \in DOMAIN text : ~Thought(text, i)})

\* Where _FENCE_RE may match: a fence before the first piece of a match m, and
\* one after its last.
Fenced(raw) ==
  {m \in (2 .. Len(raw) - 1) \X (2 .. Len(raw) - 1) :
     /\ m[1] <= m[2]
     /\ raw[m[1] - 1] = Fence /\ Opens(raw[m[1]])
     /\ Closes(raw[m[2]]) /\ raw[m[2] + 1] = Fence}

\* What is between the fences of the leftmost of them, and of these the
\* shortest, if it is an object.
FencedObject(raw) ==
  {s \in {SubSeq(raw, m[1], m[2]) : m \in {x \in Fenced(raw) : \A y \in Fenced(raw) :
                                      x[1] < y[1] \/ (x[1] = y[1] /\ x[2] <= y[2])}} :
     Whole(s)}

\* Mutant of FirstJsonObject: an array hides the object it begins with.
FirstJsonObject_NoArrays(raw) ==
  UNION {ObjectsFrom(raw, i) : i \in {k \in DOMAIN raw :
     HasBrace(raw[k]) /\ \A l \in 1 .. k - 1 : ~HasBrace(raw[l])}}

\* _first_json_object: only the first brace is tried.
FirstJsonObject(raw) ==
  UNION {DecodedAt(raw, i) : i \in {k \in DOMAIN raw :
     HasBrace(raw[k]) /\ \A l \in 1 .. k - 1 : ~HasBrace(raw[l])}}

\* The object that extract_json_text returns, or nothing for its
\* ValidationError.
ExtractJsonText(text) ==
  LET raw == WithoutThoughts(text) IN
  CASE Whole(raw) -> {raw}
    [] ~Whole(raw) /\ FencedObject(raw) # {} -> FencedObject(raw)
    [] OTHER -> FirstJsonObject(raw)

=============================================================================
