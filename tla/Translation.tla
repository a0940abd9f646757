----------------------------- MODULE Translation -----------------------------
(***************************************************************************)
(* One attempt at one provider, from the caller's arguments to the text,   *)
(* the object or the exception: _prepare_call and _handle_success of       *)
(* client.py around the adapters of providers/.                            *)
(*                                                                         *)
(*   arguments -> prepared -> posted -> replied -> answered -> done, next  *)
(*            \-> raised             \-> raised \-> raised                 *)
(*                                                                         *)
(* Contents of messages are opaque.  A request body is a record: system,   *)
(* the contents of its system field; turns, each with a role and the       *)
(* contents joined in it; json, whether it asks for a JSON object;         *)
(* max_tokens.  A reply is a record: its status; its Retry-After header,   *)
(* {} or {n}; the marker a smart client looks for in an error's body, and  *)
(* late, whether it stands behind DEFAULT_BODY_LIMIT; the shape of the     *)
(* body (see Parsed) and the text in it (see Serialization).               *)
(***************************************************************************)
EXTENDS ErrorPolicy, Serialization

CONSTANTS
  Arguments,   \* prompt, messages, json, schema, max_tokens of a call
  Replies,     \* what a provider may answer
  None

Adapters == {"openai", "anthropic", "gemini"}
DefaultMaxTokens == 1024

VARIABLES
  phase,       \* where the attempt is
  call,        \* the arguments, then messages, json and max_tokens
  adapter,     \* which adapter is called, or None
  payload,     \* the request body posted, or None
  reply,       \* the HTTP response, or None
  text,        \* the model's text, or None
  exc,         \* the exception raised (see ErrorPolicy), or None
  result       \* the text or the object returned, or None

vars == <<phase, call, adapter, payload, reply, text, exc, result>>

Init ==
  /\ phase = "arguments"
  /\ call \in Arguments
  /\ adapter = None /\ payload = None /\ reply = None
  /\ text = None /\ exc = None /\ result = None

Raise(e) == phase' = "raised" /\ exc' = e

-----------------------------------------------------------------------------
(* _prepare_call and _build_request *)

ValidCall(a) ==
  /\ a.schema => a.json
  /\ \A n \in a.max_tokens : n > 0
  /\ ValidMessages(a.prompt, a.messages)

Refuse ==
  /\ phase = "arguments" /\ ~ValidCall(call)
  /\ Raise(Raised("ValidationError"))
  /\ UNCHANGED <<call, adapter, payload, reply, text, result>>

Prepared(a) ==
  [messages   |-> NormalizeMessages(a.prompt, a.messages),
   json       |-> a.json,
   max_tokens |-> a.max_tokens]

Prepare ==
  /\ phase = "arguments" /\ ValidCall(call)
  /\ call' = Prepared(call)
  /\ phase' = "prepared"
  /\ UNCHANGED <<adapter, payload, reply, text, exc, result>>

-----------------------------------------------------------------------------
(* _payload of each adapter *)

Turn(role, parts) == [role |-> role, parts |-> parts]
Body(system, turns) ==
  [system |-> system, turns |-> turns, json |-> FALSE, max_tokens |-> {}]

OpenaiBody(req) ==
  [Body(<<>>, [i \in DOMAIN req.messages |->
                 Turn(req.messages[i].role, <<req.messages[i].content>>)])
    EXCEPT !.json = req.json]

\* A system message is one only at the head; any other role speaks as user.
AnthropicBody(req) ==
  LET headed == req.messages[1].role = "system"
      rest   == IF headed THEN Tail(req.messages) ELSE req.messages
      turn(m) == Turn(IF m.role \in {"user", "assistant"} THEN m.role ELSE "user", <<m.content>>)
  IN  [Body(IF headed THEN <<req.messages[1].content>> ELSE <<>>,
            [i \in DOMAIN rest |-> turn(rest[i])])
        EXCEPT !.max_tokens = IF req.max_tokens = {} THEN {DefaultMaxTokens} ELSE req.max_tokens]

GeminiTurns(messages) ==
  LET rest == Kept(messages, {i \in DOMAIN messages : messages[i].role # "system"}) IN
  [i \in DOMAIN rest |->
     Turn(IF rest[i].role = "assistant" THEN "model" ELSE "user", <<rest[i].content>>)]

Instructions(messages) ==
  LET systems == Kept(messages, {i \in DOMAIN messages : messages[i].role = "system"}) IN
  [i \in DOMAIN systems |-> systems[i].content]

\* Mutant of GeminiBody: instructions need a user turn to go in front of.
GeminiBody_NoTurnAdded(req) ==
  LET turns  == GeminiTurns(req.messages)
      prefix == Instructions(req.messages)
  IN  Body(<<>>, IF turns # <<>> /\ turns[1].role = "user"
                 THEN [turns EXCEPT ![1].parts = prefix \o @]
                 ELSE turns)

\* The instructions are put in front of the first turn if the user speaks it,
\* and are a turn of the user otherwise.
GeminiBody(req) ==
  LET turns  == GeminiTurns(req.messages)
      prefix == Instructions(req.messages)
  IN  Body(<<>>, CASE prefix = <<>> -> turns
                   [] prefix # <<>> /\ turns # <<>> /\ turns[1].role = "user" ->
                        [turns EXCEPT ![1].parts = prefix \o @]
                   [] OTHER -> <<Turn("user", prefix)>> \o turns)

Payload(a, req) ==
  CASE a = "openai" -> OpenaiBody(req)
    [] a = "anthropic" -> AnthropicBody(req)
    [] a = "gemini" -> GeminiBody(req)

Post(a) ==
  /\ phase = "prepared"
  /\ adapter' = a
  /\ payload' = Payload(a, call)
  /\ phase' = "posted"
  /\ UNCHANGED <<call, reply, text, exc, result>>

-----------------------------------------------------------------------------
(* complete of each adapter: the post, raise_for_status and _parse *)

\* httpx raises where no response comes.
Unanswered(class) ==
  /\ phase = "posted"
  /\ Raise(Raised(class))
  /\ UNCHANGED <<call, adapter, payload, reply, text, result>>

\* What was sent is not read again: it is forgotten here.
Respond(r) ==
  /\ phase = "posted"
  /\ reply' = r
  /\ call' = [call EXCEPT !.messages = <<>>, !.max_tokens = {}]
  /\ payload' = None
  /\ phase' = "replied"
  /\ UNCHANGED <<adapter, text, exc, result>>

\* Mutant of StatusError: a 429 is an error like any other.
StatusError_Plain(r) == HttpError(r.status)

\* raise_for_status, and truncate_body.
StatusError(r) ==
  [(IF r.status = 429 THEN TooManyRequests(r.retryAfter) ELSE HttpError(r.status))
    EXCEPT !.body = IF r.late THEN "" ELSE r.marker]

RaiseForStatus ==
  /\ phase = "replied" /\ reply.status >= 400
  /\ Raise(StatusError(reply))
  /\ UNCHANGED <<call, adapter, payload, reply, text, result>>

\* Bodies that are not JSON, or not of the shape _parse goes through.  Where
\* the first choice is null only Anthropic's adapter looks before it leaps.
Garbage(a, r) ==
  CASE r.shape = "not JSON" -> {"JSONDecodeError"}
    [] r.shape = "no mapping" -> {"AttributeError"}
    [] r.shape = "null choice" /\ a # "anthropic" -> {"AttributeError"}
    [] OTHER -> {}

RaiseForGarbage ==
  /\ phase = "replied" /\ reply.status < 400
  /\ \E class \in Garbage(adapter, reply) : Raise(Raised(class))
  /\ UNCHANGED <<call, adapter, payload, reply, text, result>>

\* A choice that is absent, null or without a string gives the empty text.
Parsed(r) == IF r.shape = "text" THEN r.text ELSE <<>>

Parse ==
  /\ phase = "replied" /\ reply.status < 400 /\ Garbage(adapter, reply) = {}
  /\ text' = Parsed(reply)
  /\ phase' = "answered"
  /\ reply' = None /\ adapter' = None
  /\ UNCHANGED <<call, payload, exc, result>>

-----------------------------------------------------------------------------
(* _handle_success *)

TakeText ==
  /\ phase = "answered" /\ ~call.json
  /\ result' = text
  /\ phase' = "done"
  /\ UNCHANGED <<call, adapter, payload, reply, text, exc>>

TakeObject ==
  /\ phase = "answered" /\ call.json
  /\ \E o \in ExtractJsonText(text) : result' = o
  /\ phase' = "done"
  /\ UNCHANGED <<call, adapter, payload, reply, text, exc>>

\* The text is rejected, and the chain goes on.
RejectText ==
  /\ phase = "answered" /\ call.json /\ ExtractJsonText(text) = {}
  /\ phase' = "next"
  /\ UNCHANGED <<call, adapter, payload, reply, text, exc, result>>

Next ==
  \/ Refuse \/ Prepare
  \/ \E a \in Adapters : Post(a)
  \/ \E class \in {"TimeoutException", "ConnectError", "ReadError"} : Unanswered(class)
  \/ \E r \in Replies : Respond(r)
  \/ RaiseForStatus \/ RaiseForGarbage \/ Parse
  \/ TakeText \/ TakeObject \/ RejectText

Spec == Init /\ [][Next]_vars

-----------------------------------------------------------------------------
(* What the variables may hold, and what is assumed of the constants *)

Sent == {x \in Arguments : ValidCall(x) /\ Prepared(x).messages # <<>>}
Bodies == {Payload(a, Prepared(x)) : a \in Adapters, x \in Sent}
Texts == {Parsed(r) : r \in Replies}
Errors == {Raised(class) : class \in ClassNames} \cup {StatusError(r) : r \in Replies}

\* A call has at most one sequence of messages.
ASSUME ArgumentsAssumption ==
  \A a \in Arguments :
    /\ \A s \in a.messages : s \in Seq(ToSet(s))
    /\ \A s, t \in a.messages : s = t

\* A response has a number for its status, and at most one for its Retry-After.
ASSUME RepliesAssumption ==
  \A r \in Replies :
    /\ r.status \in Nat /\ r.retryAfter \subseteq Nat
    /\ \A m, n \in r.retryAfter : m = n
    /\ r.text \in Seq(ToSet(r.text))

ASSUME NoneAssumption ==
  /\ None \notin Adapters /\ None \notin Bodies /\ None \notin Replies
  /\ None \notin Texts /\ None \notin Errors
  /\ \A s \in Texts : None \notin Seq(ToSet(s))
  /\ None \notin Seq(Objects)

-----------------------------------------------------------------------------
(* Properties *)

\* The phases, and which variables hold a value in which; what is sent has a
\* message, and each a role and a content.
TypeOK ==
  /\ phase \in {"arguments", "prepared", "posted", "replied", "answered", "done",
                "next", "raised"}
  /\ adapter \in Adapters \cup {None}
  /\ phase = "posted" => payload # None
  /\ phase \in {"prepared", "posted"} =>
       /\ Len(call.messages) > 0
       /\ \A i \in DOMAIN call.messages : DOMAIN call.messages[i] = {"role", "content"}
  /\ phase = "replied" <=> reply # None /\ exc = None
  /\ phase \in {"answered", "done", "next"} <=> text # None
  /\ phase = "raised" <=> exc # None
  /\ phase = "done" <=> result # None

\* Whose words a part is, and the assistant's name at the adapter.
Spoken(m) == <<m.content, m.role = "assistant">>
AssistantRole(a) == IF a = "gemini" THEN "model" ELSE "assistant"

\* The parts of a body: <<0, k>> in its system field, <<i, k>> in its turn i.
Parts(body) ==
  {<<0, k>> : k \in DOMAIN body.system}
    \cup UNION {{<<i, k>> : k \in DOMAIN body.turns[i].parts} : i \in DOMAIN body.turns}
Heard(a, body, x) ==
  IF x[1] = 0
  THEN <<body.system[x[2]], FALSE>>
  ELSE <<body.turns[x[1]].parts[x[2]], body.turns[x[1]].role = AssistantRole(a)>>
Earlier(x, y) == x[1] < y[1] \/ (x[1] = y[1] /\ x[2] < y[2])

\* Where each message is heard: every one at a part of its own and nothing else
\* besides, the assistant's words as the assistant's and nobody else's, the
\* instructions in their order and the rest in theirs, and an instruction at
\* the head before all.
TellsAll(messages, a, body, place) ==
  /\ \A x \in Parts(body) : \E i \in DOMAIN messages : place[i] = x
  /\ \A i \in DOMAIN messages : Heard(a, body, place[i]) = Spoken(messages[i])
  /\ \A i, j \in DOMAIN messages : i # j => place[i] # place[j]
  /\ \A i, j \in DOMAIN messages :
       i < j /\ (messages[i].role = "system" <=> messages[j].role = "system") =>
         Earlier(place[i], place[j])
  /\ messages[1].role = "system" =>
       \A j \in DOMAIN messages : j > 1 => Earlier(place[1], place[j])

\* Whichever provider the chain comes to is told the whole conversation, and
\* there is a turn to answer, but for Anthropic's adapter when all there is is
\* one instruction.
ConversationKept ==
  phase = "posted" =>
    /\ \E place \in [DOMAIN call.messages -> Parts(payload)] :
         TellsAll(call.messages, adapter, payload, place)
    /\ payload.turns = <<>> =>
         adapter = "anthropic" /\ Len(call.messages) = 1 /\ call.messages[1].role = "system"

\* What is raised over a response fits its status.  From 400 on, whatever the
\* body holds, the exception is one after which the chain goes on if the status
\* is transient, one that the policy decides about if it is 401 or 403, and one
\* that stops the chain otherwise; after a 429 the provider cools for as long
\* as the header asks.  Below 400 a body that cannot be read stops the chain.
ErrorsFitStatus ==
  phase = "raised" /\ reply # None =>
    /\ IsRetryable(exc) <=> reply.status \in {429, 500, 502, 503, 504, 529}
    /\ IsAuthFailure(exc) <=> reply.status \in {401, 403}
    /\ reply.status = 429 =>
         /\ IsInstance(exc, "RateLimited")
         /\ \A n \in reply.retryAfter : n > 0 => RetryAfterSeconds(exc) = n

\* How often a piece stands before place i of a text.
Before(s, piece, i) == Cardinality({k \in 1 .. i - 1 : s[k] = piece})

\* The thoughts of a text are marked as they should be: each section ends
\* before the next begins, and the last one may be cut short.
WellTagged(s) ==
  \A i \in 1 .. Len(s) + 1 :
    Before(s, ThinkOpen, i) - Before(s, ThinkClose, i) \in {0, 1}

\* The places that say something and are no part of a thought.
Open(s) ==
  {i \in DOMAIN s : s[i] \notin {ThinkOpen, ThinkClose}
                    /\ Before(s, ThinkOpen, i) = Before(s, ThinkClose, i)}

\* A call that asks for JSON gets an object, and one that the model gave as its
\* answer: it stands in what the thoughts leave, and nothing of it in them.
ThoughtsStayOut ==
  phase = "done" /\ call.json =>
    /\ Whole(result)
    /\ WellTagged(text) =>
         LET open == Kept(text, Open(text)) IN
         \E i \in DOMAIN open :
           \/ \E j \in i .. Len(open) : result = SubSeq(open, i, j)
           \/ open[i] \in DOMAIN FirstOf /\ result = <<FirstOf[open[i]]>>

\* A model is not rejected if what its thoughts leave holds one object, or an
\* array that holds one, and no brace before it, whatever prose and fences
\* stand around it.  Tags mark thoughts wherever they stand, as in the code: one
\* that an object quotes in a string is cut out of it, and may break it.
LoneObjectFound ==
  phase = "next" /\ WellTagged(text) =>
    LET open == Kept(text, Open(text)) IN
    ~\E i \in DOMAIN open :
       /\ \/ \E j \in i .. Len(open) : Whole(SubSeq(open, i, j))
          \/ open[i] \in DOMAIN FirstOf
       /\ \A k \in 1 .. i - 1 : ~HasBrace(open[k])

=============================================================================
