------------------------- MODULE StructuredDecoding -------------------------
(***************************************************************************)
(* Constrained decoding of one HTTP generation (serving/structured.rs and  *)
(* serving/structured/tools.rs), from the request's validation to the      *)
(* tool calls that finish_response reads out of the generated text.        *)
(*                                                                         *)
(* A token is its id, whether the tokenizer marks it special, and the      *)
(* characters it decodes to.  The opening tag <tool_call> is the three     *)
(* characters of OpenTag and the closing tag the two of CloseTag; a JSON   *)
(* payload is one character, which Payload maps to the function it names   *)
(* and to the kind of its arguments: "object" satisfies the function's     *)
(* schema, "other" is JSON that does not, "string" is a JSON string that   *)
(* does not hold JSON itself.  Whitespace inside a call is left out.       *)
(*                                                                         *)
(* llguidance's matcher is external: it keeps every way (a configuration)  *)
(* the grammar may have derived the tokens consumed so far.                *)
(***************************************************************************)
EXTENDS Naturals, Sequences, FiniteSets, SequencesExt, TLC

CONSTANTS
    Tokens,            \* the tokenizer's tokens: [id, special, chars]
    Eos,               \* the checkpoint's end-of-sequence ids, in order
    Requests,          \* the requests considered
    Payload,           \* payload character -> [name, args]
    OpenTag, CloseTag, \* the characters of the two tool tags
    Reply,             \* the one text a response constraint of the model allows
    StructuredOutput,  \* the crate's feature
    MaxTokens          \* bound on the tokens of a generation

VARIABLES
    request,   \* the request being served
    phase,     \* "idle", "running", "done", "refused" or "failed"
    matcher,   \* the matcher's configurations
    text,      \* the visible text generated so far
    length,    \* tokens generated
    outcome    \* what the client is told: [kind, reason, calls]

vars == <<request, phase, matcher, text, length, outcome>>

Ids == {token.id : token \in Tokens}

EosIds == {Eos[i] : i \in 1..Len(Eos)}

NoRequest == [tools |-> <<>>]

Nothing == [kind |-> "none", reason |-> "none", calls |-> <<>>]

----------------------------------------------------------------------------
(* The request. *)

\* GenerateRequest::tools_enabled.
ToolsEnabled(r) == r.choice # "none" /\ r.tools # <<>>

Named(r) == r.choice \notin {"auto", "none", "required"}

Required(r) == r.choice = "required" \/ Named(r)

\* Whether the tools of the request constrain the text.
ToolsRequested(r) ==
    /\ ToolsEnabled(r)
    /\ \/ \E i \in 1..Len(r.tools) : r.tools[i].strict = "true"
       \/ Required(r)
       \/ r.parallel = "false"

\* Whether a grammar or a response format constrains the text.
ResponseRequested(r) == r.grammar \/ r.format \notin {"none", "text"}

Requested(r) == ToolsRequested(r) \/ ResponseRequested(r)

\* The functions a call may name: all of them, or the one the choice names.
Selected(r) ==
    {tool \in {r.tools[i] : i \in 1..Len(r.tools)} :
        Named(r) => tool.name = r.choice}

\* selected refuses a nameless, doubled or wrongly strict tool, a strict tool
\* with no schema, and a choice that selects nothing.
ToolsValid(r) ==
    /\ \A i \in 1..Len(r.tools) :
          /\ r.tools[i].name # ""
          /\ \A j \in 1..(i - 1) : r.tools[j].name # r.tools[i].name
          /\ r.tools[i].strict \in {"absent", "true", "false"}
          /\ r.tools[i].strict = "true" => r.tools[i].schema
    /\ Selected(r) # {}

\* validate: what a constrained request must satisfy.
Validate(r) ==
    Requested(r) =>
        /\ StructuredOutput
        /\ ~(r.grammar /\ r.format # "none")
        /\ ~(ResponseRequested(r) /\ ToolsEnabled(r))
        /\ ToolsRequested(r) => ToolsValid(r)
        /\ r.format # "bad_schema"

\* Decoder::new needs an EOS that the tokenizer knows.
DecoderBuilds(r) == Requested(r) => Eos # <<>> /\ Head(Eos) \in Ids

----------------------------------------------------------------------------
(* The grammar of tools.rs. *)

\* The ids of special tokens that read as a tag.
TagTokens(tag) == {t.id : t \in {u \in Tokens : u.special /\ u.chars = tag}}

Tags == TagTokens(OpenTag) \cup TagTokens(CloseTag)

\* Special tokens that serving leaves out of tool text.
Invisible == {t.id : t \in {u \in Tokens : u.special}} \ (Tags \cup EosIds)

Characters == UNION {{t.chars[i] : i \in 1..Len(t.chars)} : t \in Tokens}

\* The start rule: whether a text may be followed by one more call.
MayCall(r, calls) == r.parallel # "false" \/ calls = 0

\* The start rule: whether the turn may end after this many calls.
MayEnd(r, calls) == Required(r) => calls > 0

\* Mutant: an unseen special token forgets the tag's prefix.
TextNext_Forget(state, symbol) ==
    CASE symbol \in Invisible -> {0}
      [] symbol = OpenTag[1] -> {1}
      [] state > 0 /\ symbol = OpenTag[state + 1] ->
            IF state + 1 < Len(OpenTag) THEN {state + 1} ELSE {}
      [] symbol \in Characters -> {0}
      [] OTHER -> {}

\* The rules text0, text1, ...: the automaton of the texts that do not hold
\* the opening tag; text`state' has read that many characters of it.
TextNext(state, symbol) ==
    CASE symbol \in Invisible -> {state}
      [] symbol = OpenTag[1] -> {1}
      [] state > 0 /\ symbol = OpenTag[state + 1] ->
            IF state + 1 < Len(OpenTag) THEN {state + 1} ELSE {}
      [] symbol \in Characters -> {0}
      [] OTHER -> {}

\* The rules payload_i: a selected function, its arguments held to the schema
\* when it is strict.
PayloadAllowed(r, symbol) ==
    /\ symbol \in DOMAIN Payload
    /\ \E tool \in Selected(r) :
          /\ tool.name = Payload[symbol].name
          /\ tool.strict = "true" => Payload[symbol].args = "object"

\* A configuration: the rule being derived, the characters of it read, and the
\* calls finished (two stand for more).
Configurations ==
    [rule : {"text"}, at : 0..(Len(OpenTag) - 1), calls : 0..2]
    \cup [rule : {"open"}, at : 1..(Len(OpenTag) - 1), calls : 0..2]
    \cup [rule : {"payload"}, at : {0}, calls : 0..2]
    \cup [rule : {"close"}, at : 0..(Len(CloseTag) - 1), calls : 0..2]
    \cup [rule : {"reply"}, at : 0..Len(Reply), calls : {0}]

At(rule, at, calls) == [rule |-> rule, at |-> at, calls |-> calls]

\* marker: a tag is read character by character or as its special token;
\* `after' is where the derivation goes on once it is whole.
MarkerNext(tag, c, symbol, after) ==
    (IF c.at = 0 /\ symbol \in TagTokens(tag) THEN {after} ELSE {})
    \cup (IF symbol = tag[c.at + 1]
            THEN {IF c.at + 1 = Len(tag) THEN after ELSE [c EXCEPT !.at = @ + 1]}
            ELSE {})

CallNext(r, c, symbol) ==
    CASE c.rule = "open" ->
            MarkerNext(OpenTag, c, symbol, At("payload", 0, c.calls))
      [] c.rule = "payload" ->
            IF PayloadAllowed(r, symbol) THEN {At("close", 0, c.calls)} ELSE {}
      [] c.rule = "close" ->
            MarkerNext(CloseTag, c, symbol, At("text", 0, IF c.calls = 0 THEN 1 ELSE 2))

\* One symbol of the grammar: start is text0, calls and text0 in turn.  A
\* response constraint is the one text Reply.
Derive(r, c, symbol) ==
    CASE c.rule = "text" ->
            {At("text", state, c.calls) : state \in TextNext(c.at, symbol)}
            \cup (IF MayCall(r, c.calls)
                    THEN CallNext(r, At("open", 0, c.calls), symbol)
                    ELSE {})
      [] c.rule = "reply" ->
            IF c.at < Len(Reply) /\ symbol = Reply[c.at + 1]
            THEN {[c EXCEPT !.at = @ + 1]} ELSE {}
      [] OTHER -> CallNext(r, c, symbol)

Grammar(r) == {At(IF ToolsRequested(r) THEN "text" ELSE "reply", 0, 0)}

----------------------------------------------------------------------------
(* The matcher (external). *)

Symbols(token) == IF token.special THEN <<token.id>> ELSE token.chars

\* Where a token takes one configuration.
ConsumeToken(r, token, c) ==
    FoldLeft(LAMBDA cs, symbol : UNION {Derive(r, d, symbol) : d \in cs},
             {c}, Symbols(token))

Consumed(r, configurations, token) ==
    UNION {ConsumeToken(r, token, c) : c \in configurations}

IsAccepting(r, configurations) ==
    \E c \in configurations :
        \/ c.rule = "text" /\ MayEnd(r, c.calls)
        \/ c.rule = "reply" /\ c.at = Len(Reply)

IsStopped(configurations) ==
    \A c \in configurations : c.rule = "reply" /\ c.at = Len(Reply)

----------------------------------------------------------------------------
(* The decoder. *)

\* bias: the tokens of the model's vocabulary that keep a finite logit.  An EOS
\* waits for the grammar to accept; every other token is the matcher's choice.
Bias(r, configurations) ==
    {token \in Tokens :
        /\ token.id \in r.vocabulary
        /\ IF token.id \in EosIds THEN IsAccepting(r, configurations)
           ELSE Consumed(r, configurations, token) # {}}

EndsTurn(r, configurations, token) ==
    token.id \in EosIds /\ IsAccepting(r, configurations)

\* consume: the matcher's next configurations, none of them when it refuses.
Consume(r, configurations, token) ==
    IF IsStopped(configurations) \/ EndsTurn(r, configurations, token)
    THEN configurations
    ELSE Consumed(r, configurations, token)

----------------------------------------------------------------------------
(* What the client gets. *)

\* ignored_tool_tokens and decode_stream: a tool request shows the tags and no
\* other special token, any other request shows no special token.
Visible(r, token) ==
    IF token.special /\ (token.id \notin Tags \/ ~ToolsEnabled(r))
    THEN <<>> ELSE token.chars

Occurs(tag, s, i) == i + Len(tag) - 1 <= Len(s) /\ SubSeq(s, i, i + Len(tag) - 1) = tag

Opens(s) == {i \in 1..Len(s) : Occurs(OpenTag, s, i)}

From(s, i) == SubSeq(s, i, Len(s))

Unreadable == <<[name |-> "unreadable", args |-> "none"]>>

Declared(r, name) == \E i \in 1..Len(r.tools) : r.tools[i].name = name

\* parse_tool_calls, as the payloads of the calls found in a finished text.
RECURSIVE ParseToolCalls(_, _)
ParseToolCalls(r, s) ==
    IF Opens(s) = {} THEN <<>>
    ELSE LET start == CHOOSE i \in Opens(s) : \A j \in Opens(s) : i <= j
             tail == From(s, start + Len(OpenTag))
             rest == ParseToolCalls(r, From(tail, Len(CloseTag) + 2))
         IN IF /\ tail # <<>>
               /\ tail[1] \in DOMAIN Payload
               /\ Occurs(CloseTag, tail, 2)
               /\ Declared(r, Payload[tail[1]].name)
               /\ Payload[tail[1]].args # "string"
               /\ rest # Unreadable
            THEN <<Payload[tail[1]]>> \o rest
            ELSE Unreadable

\* finish_response's checks of the calls against the request.
ChoiceKept(r, calls) ==
    /\ r.choice = "required" => calls # <<>>
    /\ r.parallel = "false" => Len(calls) <= 1
    /\ Named(r) =>
          /\ calls # <<>>
          /\ \A i \in 1..Len(calls) : calls[i].name = r.choice

FinishResponse(r, s, reason) ==
    LET calls == IF ToolsEnabled(r) THEN ParseToolCalls(r, s) ELSE <<>>
    IN IF calls = Unreadable \/ ~ChoiceKept(r, calls)
       THEN [kind |-> "error", reason |-> reason, calls |-> <<>>]
       ELSE [kind |-> "response", reason |-> reason, calls |-> calls]

----------------------------------------------------------------------------

Init ==
    /\ request = NoRequest /\ phase = "idle" /\ matcher = {} /\ text = <<>>
    /\ length = 0 /\ outcome = Nothing

Submit(r) ==
    /\ phase = "idle"
    /\ request' = r
    /\ phase' = IF Validate(r) /\ DecoderBuilds(r) THEN "running" ELSE "refused"
    /\ matcher' = IF phase' = "running" /\ Requested(r) THEN Grammar(r) ELSE {}
    /\ UNCHANGED <<text, length, outcome>>

Constrained == Requested(request)

\* The tokens the sampler may draw.
Candidates ==
    IF Constrained THEN Bias(request, matcher)
    ELSE {token \in Tokens : token.id \in request.vocabulary}

\* The session ends at an EOS or at the last token of its budget.
Finishes(token, generated) == token.id \in EosIds \/ generated = MaxTokens

\* One token: structured::step samples under the mask and consumes the token;
\* generate_response appends what is visible of it, and the response is
\* finished by an EOS or by the last token of the budget.
Step(token) ==
    /\ phase = "running"
    /\ token \in Candidates
    /\ matcher' = IF Constrained THEN Consume(request, matcher, token) ELSE {}
    /\ length' = length + 1
    /\ text' = text \o Visible(request, token)
    /\ IF Constrained /\ matcher' = {}
       THEN /\ phase' = "failed"
            /\ outcome' = [Nothing EXCEPT !.kind = "error", !.reason = "consume"]
       ELSE IF Finishes(token, length')
       THEN /\ phase' = "done"
            /\ outcome' = FinishResponse(request, text',
                              IF token.id \in EosIds THEN "eos" ELSE "length")
       ELSE UNCHANGED <<phase, outcome>>
    /\ UNCHANGED request

\* bias reports a constraint that leaves no token of the model's vocabulary.
Masked ==
    /\ phase = "running"
    /\ Candidates = {}
    /\ phase' = "failed"
    /\ outcome' = [Nothing EXCEPT !.kind = "error", !.reason = "masked"]
    /\ UNCHANGED <<request, matcher, text, length>>

Next ==
    \/ \E r \in Requests : Submit(r)
    \/ \E token \in Tokens : Step(token)
    \/ Masked

Spec == Init /\ [][Next]_vars

----------------------------------------------------------------------------
(* Properties. *)

ToolConstrained == phase \notin {"idle", "refused"} /\ ToolsRequested(request)

\* The grammar lets no opening tag into the visible text, whole, split over
\* tokens or joined over tokens that are not shown, that is not the start of a
\* call the request allows: what follows it is an allowed payload and then the
\* closing tag, as far as the text goes, and a text held to one call has one.
MarkersValidated ==
    ToolConstrained =>
        /\ \A i \in Opens(text) :
              LET tail == From(text, i + Len(OpenTag))
              IN tail # <<>> =>
                    /\ PayloadAllowed(request, tail[1])
                    /\ \A j \in 1..Len(CloseTag) :
                          j < Len(tail) => tail[j + 1] = CloseTag[j]
        /\ request.parallel = "false" => Cardinality(Opens(text)) <= 1

\* A tool-constrained generation that ends its turn is a text the parser reads
\* and finish_response accepts, with calls of the functions and the number the
\* choice asks for; the one text the grammar allows and the parser does not
\* read is a string given as the arguments of a function that is not strict.
EndsReadable ==
    (ToolConstrained /\ phase = "done" /\ outcome.reason = "eos") =>
        \/ /\ outcome.kind = "response"
           /\ Required(request) => outcome.calls # <<>>
           /\ \A i \in 1..Len(outcome.calls) :
                 \E tool \in Selected(request) :
                    /\ tool.name = outcome.calls[i].name
                    /\ tool.strict = "true" => outcome.calls[i].args = "object"
        \/ \E i \in 1..Len(text) :
              /\ text[i] \in DOMAIN Payload
              /\ Payload[text[i]].args = "string"
              /\ \E tool \in Selected(request) :
                    tool.name = Payload[text[i]].name /\ tool.strict # "true"

\* The text after the last finished call, when no call is open.
RECURSIVE LooseText(_)
LooseText(s) ==
    IF Opens(s) = {} THEN s
    ELSE LET start == CHOOSE i \in Opens(s) : \A j \in Opens(s) : i <= j
         IN LooseText(From(s, start + Len(OpenTag) + 1 + Len(CloseTag)))

Outside == {c \in matcher : c.rule = "text"} # {}

\* The constraint costs ordinary text nothing: outside a call, every token of
\* the model that is not a tag and does not complete one may come next, prefixes of
\* the tag and special tokens that are not shown included.
TextFree ==
    (ToolConstrained /\ phase = "running" /\ Outside) =>
        \A token \in Tokens :
            ( /\ token.id \in request.vocabulary \ (EosIds \cup Tags)
              /\ Opens(LooseText(text) \o Visible(request, token)) = {} ) =>
            token \in Bias(request, matcher)

\* The decoder does not fail of itself: a token its mask let through is one the
\* matcher takes, every EOS of the checkpoint included, and as long as the model
\* can emit every token of the tokenizer the mask is never empty.
DecoderSound ==
    phase = "failed" =>
        /\ outcome.reason = "masked"
        /\ ~(Ids \subseteq request.vocabulary)

\* A response constraint that ends its turn has produced a text of the
\* constraint, with no special token in it.
ReplyExact ==
    (phase = "done" /\ ResponseRequested(request) /\ outcome.reason = "eos") =>
        text = Reply /\ outcome.kind = "response"

=============================================================================
