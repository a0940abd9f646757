---------------------------- MODULE MCTranslation ----------------------------
(***************************************************************************)
(* Translation for TLC: conversations of up to three messages whose        *)
(* contents tell their places, and texts of up to MaxPieces pieces.        *)
(***************************************************************************)
EXTENDS Translation, TLC

CONSTANTS MaxMessages, MaxPieces

MCPadded == " system " :> "system" @@ "  " :> ""
MCFirstOf == "[{a}]" :> "{a}"

Item(made, role, content) == [made |-> made, role |-> role, content |-> content]
Conversation(roles) == [i \in DOMAIN roles |-> Item(TRUE, roles[i], {i})]
Conversations ==
  {Conversation(s) : s \in SeqOf({"system", "user", "assistant", "tool"}, MaxMessages)}

\* Mappings in place of messages, and such as are refused.
Mappings ==
  {<<Item(FALSE, role, content)>> \o Conversation(<<"user">>) :
     role \in {" system ", "  ", "user"}, content \in {{}, {7}}}

Call(prompt, messages, json) ==
  [prompt |-> prompt, messages |-> messages, json |-> json, schema |-> FALSE, max_tokens |-> {}]

MCArguments ==
  {Call(prompt, {}, json) : prompt \in {{}, {1}}, json \in BOOLEAN}
    \cup {Call({}, {s}, json) : s \in Conversations \cup Mappings, json \in BOOLEAN}
    \cup {Call({1}, {Conversation(<<"user">>)}, FALSE)}
    \cup {[Call({1}, {}, json) EXCEPT !.schema = TRUE] : json \in BOOLEAN}
    \cup {[Call({1}, {}, FALSE) EXCEPT !.max_tokens = {n}] : n \in {-1, 0, 1}}

Pieces ==
  Objects \cup Broken \cup Cut \cup DOMAIN MCFirstOf \cup {ThinkOpen, ThinkClose, Fence, Rest, "word"}

Answer(status, shape, s) ==
  [status |-> status, retryAfter |-> {}, marker |-> "", late |-> FALSE,
   shape |-> shape, text |-> s]

Statuses == {400, 401, 403, 404, 429, 500, 501, 502, 503, 504, 529}

MCReplies ==
  {Answer(200, "text", s) : s \in SeqOf(Pieces, MaxPieces)}
    \cup {Answer(status, shape, <<>>) : status \in {200, 302},
            shape \in {"not JSON", "no mapping", "no choice", "null choice", "no string"}}
    \cup {[Answer(status, "not JSON", <<>>) EXCEPT !.retryAfter = after, !.marker = marker,
             !.late = late] :
            status \in Statuses, after \in {{}, {0}, {30}},
            marker \in {"", "quota", "model"}, late \in BOOLEAN}

=============================================================================
