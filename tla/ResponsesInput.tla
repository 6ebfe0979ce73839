---------------------------- MODULE ResponsesInput ----------------------------
(***************************************************************************)
(* A stateless tool conversation over the Responses endpoint: how a body   *)
(* becomes a chat request (translate, register, content in                 *)
(* src/serving/responses.rs) and what the client gets back to replay in    *)
(* its next body (call_delta).  Names are sequences of parts, so that the  *)
(* dot that joins a namespace and a name is a concatenation; a text is a   *)
(* sequence of words.                                                      *)
(***************************************************************************)
EXTENDS Naturals, FiniteSets, Sequences, SequencesExt

CONSTANTS
    ToolLists,     \* lists of tool definitions a body may carry
    Instructions,  \* optional instructions: {} or {text}
    ToolChoices,   \* values of tool_choice
    Limits,        \* optional max_output_tokens
    Window, Output,    \* the configuration: context window, default limit
    CallIds,       \* call ids, which repeat after a server restart
    Texts,
    MaxItems       \* bound: items of a body

VARIABLES
    body,      \* what is fixed over the conversation
    history,   \* input items the client holds
    said,      \* the chat messages the model has really read and written
    honest,    \* the client has only replayed what it was given
    result     \* of the last request

vars == <<body, history, said, honest, result>>

Err == [ok |-> FALSE]

Nothing == [ok |-> FALSE, asked |-> FALSE]

-----------------------------------------------------------------------------
(* Tools.                                                                  *)

tool_name(name, namespace) ==
    IF namespace = {} THEN name ELSE (CHOOSE ns \in namespace : TRUE) \o name

\* Leaves of the definitions with their namespace; a namespace holds no other.
Leaves(definitions) ==
    FlattenSeq([i \in DOMAIN definitions |->
        LET d == definitions[i]
        IN  IF d.type = "namespace"
            THEN [j \in DOMAIN d.tools |-> [d.tools[j] EXCEPT !.namespace = {d.name}]]
            ELSE <<d>>])

register(definitions) ==
    LET leaves == Leaves(definitions)
        wire == [i \in DOMAIN leaves |-> tool_name(leaves[i].name, leaves[i].namespace)]
    IN  IF \/ \E i \in DOMAIN leaves : leaves[i].type \notin {"function", "custom"}
           \/ ~IsInjective(wire)
        THEN Err
        ELSE [ok |-> TRUE,
              mapping |-> [w \in Range(wire) |->
                  LET d == leaves[CHOOSE i \in DOMAIN wire : wire[i] = w]
                  IN  [name |-> d.name, namespace |-> d.namespace,
                       custom |-> d.type = "custom"]]]

-----------------------------------------------------------------------------
(* Items.                                                                  *)

Message(role, text) == [role |-> role, id |-> "", name |-> <<>>, content |-> text]

\* Arguments of a custom tool travel as an object with one string.
Wrapped(text) == <<"input">> \o text

Arguments(item) ==
    IF item.type = "custom_tool_call" THEN Wrapped(item.text) ELSE item.text

Role(role) == IF role = "developer" THEN "system" ELSE role

\* The open call a result belongs to.
Answered(open, item) ==
    LET call == open[CHOOSE i \in DOMAIN open : open[i].id = item.id]
    IN  [id |-> item.id, name |-> call.name]

Closed(open, id) == SelectSeq(open, LAMBDA c : c.id # id)

\* One item: the messages so far, the calls without a result, still all right?
Take(acc, item) ==
    CASE item.type = "message" ->
             [acc EXCEPT !.messages = Append(@, Message(Role(item.role), item.text))]
      [] item.type \in {"function_call", "custom_tool_call"} ->
             LET wire == tool_name(item.name, item.namespace)
             IN  IF \E i \in DOMAIN acc.open : acc.open[i].id = item.id
                 THEN [acc EXCEPT !.ok = FALSE]
                 ELSE [acc EXCEPT
                          !.open = Append(@, [id |-> item.id, name |-> wire]),
                          !.messages = Append(@, [role |-> "assistant", id |-> item.id,
                              name |-> wire, content |-> Arguments(item)])]
      [] item.type = "output" ->
             IF \A i \in DOMAIN acc.open : acc.open[i].id # item.id
             THEN [acc EXCEPT !.ok = FALSE]
             ELSE LET to == Answered(acc.open, item)
                  IN  [acc EXCEPT
                          !.open = Closed(@, item.id),
                          !.messages = Append(@, [role |-> "tool", id |-> to.id,
                              name |-> to.name, content |-> item.text])]
      [] OTHER -> [acc EXCEPT !.ok = FALSE]

Items(items, start) ==
    FoldLeft(LAMBDA acc, item : IF acc.ok THEN Take(acc, item) ELSE acc,
             [ok |-> TRUE, messages |-> start, open |-> <<>>], items)

\* The leading system messages become one; its text is theirs in order.
Merged(messages) ==
    LET n == Cardinality({k \in DOMAIN messages :
                 \A i \in 1 .. k : messages[i].role = "system"})
    IN  IF n <= 1 THEN messages
        ELSE <<Message("system", [i \in 1 .. n |-> messages[i].content])>>
             \o SubSeq(messages, n + 1, Len(messages))

LimitOf(limit) == IF limit = {} THEN Output ELSE CHOOSE n \in limit : TRUE

ChoiceAllowed(b) == b.tools = <<>> => b.choice \in {"auto", "none"}

translate(b, items) ==
    LET tools == register(b.tools)
        start == IF b.instructions = {} THEN <<>>
                 ELSE <<Message("system", CHOOSE t \in b.instructions : TRUE)>>
        taken == Items(items, start)
        max == LimitOf(b.limit)
    IN  IF \/ ~b.fields \/ ~tools.ok
           \/ ~taken.ok \/ taken.open # <<>>
           \/ max = 0 \/ max >= Window
           \/ ~ChoiceAllowed(b)
        THEN Err
        ELSE [ok |-> TRUE, messages |-> Merged(taken.messages), max |-> max,
              tools |-> tools.mapping]

-----------------------------------------------------------------------------
(* The conversation.                                                       *)

Init ==
    /\ body \in [tools : ToolLists, instructions : Instructions, choice : ToolChoices,
                 limit : Limits, fields : BOOLEAN]   \* fields: only supported ones
    /\ history = <<>> /\ result = Nothing /\ honest = TRUE
    /\ said = IF body.instructions = {} THEN <<>>
              ELSE <<Message("system", CHOOSE t \in body.instructions : TRUE)>>

Room == Len(history) < MaxItems

Open ==
    {history[i].id : i \in {k \in DOMAIN history :
        /\ history[k].type \in {"function_call", "custom_tool_call"}
        /\ \A j \in k + 1 .. Len(history) :
               history[j].type = "output" => history[j].id # history[k].id}}

User(role, text) ==
    /\ Room /\ Open = {}
    /\ history' = Append(history, [type |-> "message", role |-> role, text |-> text])
    /\ said' = Append(said, Message(Role(role), text))
    /\ result' = Nothing
    /\ UNCHANGED <<body, honest>>

\* The endpoint: translate, and hand the request to the worker.
create ==
    /\ result = Nothing
    /\ result' = translate(body, history)
    /\ UNCHANGED <<body, history, said, honest>>

\* The model calls tools by their wire names; the client sees name, namespace
\* and, of a custom tool, the bare input.
ModelCalls ==
    /\ result.ok /\ honest /\ Room
    /\ \E wire \in DOMAIN result.tools, id \in CallIds \ Open, text \in Texts :
        LET tool == result.tools[wire]
        IN  /\ history' = Append(history,
                   [type |-> IF tool.custom THEN "custom_tool_call" ELSE "function_call",
                    name |-> tool.name, namespace |-> tool.namespace, id |-> id,
                    text |-> text])
            /\ said' = Append(said, [role |-> "assistant", id |-> id, name |-> wire,
                   content |-> IF tool.custom THEN Wrapped(text) ELSE text])
    /\ UNCHANGED <<body, honest, result>>

\* Results come in any order; each answers its call.
ToolReturns(id, text) ==
    /\ id \in Open /\ Room
    /\ history' = Append(history, [type |-> "output", id |-> id, text |-> text])
    /\ LET call == CHOOSE k \in DOMAIN said :
               /\ said[k].role = "assistant" /\ said[k].id = id
               /\ \A j \in k + 1 .. Len(said) :
                      said[j].role = "assistant" => said[j].id # id
       IN  said' = Append(said, [role |-> "tool", id |-> id, name |-> said[call].name,
                                 content |-> text])
    /\ result' = Nothing
    /\ UNCHANGED <<body, honest>>

\* A client that edits its history: drops an item or swaps two.
Edited ==
    /\ honest /\ history # <<>>
    /\ \/ \E i \in DOMAIN history : history' = RemoveAt(history, i)
       \/ \E i \in 1 .. Len(history) - 1 :
              history' = [history EXCEPT ![i] = history[i + 1], ![i + 1] = history[i]]
    /\ honest' = FALSE /\ result' = Nothing
    /\ UNCHANGED <<body, said>>

Next ==
    \/ \E role \in {"user", "developer"}, text \in Texts : honest /\ User(role, text)
    \/ create \/ ModelCalls \/ Edited
    \/ \E id \in CallIds, text \in Texts : honest /\ ToolReturns(id, text)

Spec == Init /\ [][Next]_vars

-----------------------------------------------------------------------------
(* Properties.                                                             *)

Asked == result # Nothing

\* A body whose fields are supported and whose tools can be told apart.
Sensible ==
    /\ body.fields /\ register(body.tools).ok
    /\ LimitOf(body.limit) \in 1 .. Window - 1
    /\ ChoiceAllowed(body)

\* A client that replays what it was given and answers every call is never
\* refused, in whatever order results arrive and although ids repeat.
NeverRefused == Asked /\ honest /\ Sensible /\ Open = {} => result.ok

\* The replayed chat is the chat the model took part in: the same tools under
\* the same wire names, the same arguments, results at their own calls.
ReplayExact == result.ok /\ honest /\ Open = {} => result.messages = Merged(said)

\* In an accepted request every result follows its own call, which has no
\* other, and no call is left without one; whatever the client did.
WellPaired ==
    result.ok =>
        LET ms == result.messages
            Calls == {i \in DOMAIN ms : ms[i].role = "assistant"}
            Results == {i \in DOMAIN ms : ms[i].role = "tool"}
            Between(c, r) == {k \in (Calls \cup Results) \ {c, r} :
                                  k > c /\ k < r /\ ms[k].id = ms[r].id}
        IN  /\ \A r \in Results : \E c \in Calls :
                   c < r /\ ms[c].id = ms[r].id /\ ms[c].name = ms[r].name /\ Between(c, r) = {}
            /\ \A c \in Calls : \E r \in Results :
                   r > c /\ ms[r].id = ms[c].id /\ Between(c, r) = {}

==============================================================================
