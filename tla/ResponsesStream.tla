--------------------------- MODULE ResponsesStream ---------------------------
(***************************************************************************)
(* The Responses wire format (serving/responses.rs, Output): the text      *)
(* generated so far is cut into message text and tool calls and turned     *)
(* into server-sent events, before the text is complete.  A text is a      *)
(* sequence of symbols:                                                    *)
(*   "t" "u"      characters                                               *)
(*   "O" "P"      the two halves of <tool_call>                            *)
(*   "f" "g"      {"name":..., up to the start of the arguments, of two    *)
(*                tools                                                    *)
(*   "Z"          the end of the call's JSON                               *)
(*   "C" "D"      the two halves of </tool_call>                           *)
(***************************************************************************)
EXTENDS Integers, SequencesExt, FiniteSetsExt

CONSTANTS Pieces,    \* the pieces of text a token may add
          Declared,  \* declared tools, a subset of {"f", "g"}
          StopSets,  \* stop strings a request may carry
          MaxLen     \* BOUND: symbols of a response

VARIABLES stops, parallel, \* of the request
          text,     \* the text generated so far
          output,   \* the Output record
          status    \* "running", "stopped", "done", "error"
vars == <<stops, parallel, text, output, status>>

Item(kind, name, content, state) ==
  [kind |-> kind, name |-> name, content |-> content, state |-> state]

Event(type, index, data) == [type |-> type, index |-> index, data |-> data]

\* message and pending are item indices, 0 for none.
NewOutput == [cursor |-> 0, items |-> <<>>, message |-> 0, calls |-> 0, pending |-> 0,
              events |-> <<Event("created", 0, <<>>)>>, failed |-> FALSE]

Failed(o) == [o EXCEPT !.failed = TRUE]

Send(o, type, index, data) == [o EXCEPT !.events = Append(@, Event(type, index, data))]

Drop(t, n) == SubSeq(t, n + 1, Len(t))

Find(t, s) ==
  LET at == {i \in 0..(Len(t) - Len(s)) : SubSeq(t, i + 1, i + Len(s)) = s}
  IN IF at = {} THEN -1 ELSE Min(at)

EarliestStop(t) ==
  LET at == {Find(t, s) : s \in stops} \ {-1} IN IF at = {} THEN -1 ELSE Min(at)

Held(t, S) ==
  Max({0} \cup UNION {{n \in 1..(Len(s) - 1) : IsSuffix(SubSeq(s, 1, n), t)} : s \in S})

\* safe_text_end
SafeTextEnd(t, S) == Len(t) - Held(t, S)

OpenTag == <<"O", "P">>
CloseTag == <<"C", "D">>

----------------------------------------------------------------------------
(* The items                                                               *)

\* Output::text: opens a message item if none is open.
Text(o, piece) ==
  IF piece = <<>> THEN o
  ELSE LET n == Len(o.items) + 1
           m == IF o.message # 0 THEN o
                ELSE Send([o EXCEPT !.items = Append(@, Item("message", "", <<>>, "in_progress")),
                                    !.message = n], "added", n, <<>>)
       IN Send([m EXCEPT !.items[m.message].content = @ \o piece], "delta", m.message, piece)

\* close_message
CloseMessage(o) ==
  IF o.message = 0 THEN o
  ELSE Send([o EXCEPT !.items[o.message].state = "completed", !.message = 0],
            "done", o.message, o.items[o.message].content)

\* call_delta, first use: the open message is closed and the item added.
Opened(o, name) ==
  LET m == CloseMessage(o)
      n == Len(m.items) + 1
  IN Send([m EXCEPT !.items = Append(@, Item("call", name, <<>>, "in_progress")), !.pending = n],
          "added", n, <<>>)

\* call_delta: the part of the input not sent before.
CallDelta(o, name, input) ==
  IF o.pending # 0 /\ o.items[o.pending].name # name THEN Failed(o)
  ELSE LET p == IF o.pending # 0 THEN o ELSE Opened(o, name)
           i == p.pending
           had == p.items[i].content
           delta == Drop(input, Len(had))
           q == [p EXCEPT !.items[i].content = input]
       IN IF ~ IsPrefix(had, input) THEN Failed(p)
          ELSE IF delta = <<>> THEN q ELSE Send(q, "delta", i, delta)

\* The end of a call's body in the text after <tool_call>: its length, -1
\* while it may still come, -2 for an error (body_end).
BodyEnd(tail, complete) ==
  LET z    == SelectInSeq(tail, LAMBDA c : c = "Z")
      rest == Drop(tail, z)
      json == tail # <<>> /\ tail[1] \in {"f", "g"}
              /\ \A i \in 2..(IF z = 0 THEN Len(tail) ELSE z - 1) : tail[i] \in {"t", "u"}
  IN CASE tail = <<>> -> IF complete THEN -2 ELSE -1
       [] tail # <<>> /\ ~ json -> -2
       [] json /\ z = 0 -> IF complete THEN -2 ELSE -1
       [] json /\ z # 0 /\ IsPrefix(CloseTag, rest) -> z
       [] json /\ z # 0 /\ ~ complete /\ IsStrictPrefix(rest, CloseTag) -> -1
       [] OTHER -> -2

\* call_prefix: the arguments read so far.
Arguments(body) == SelectSeq(Tail(body), LAMBDA c : c # "Z")

\* A complete call: the rest of its input, the done events.
Completed(o, body) ==
  LET d == CallDelta(o, body[1], Arguments(body))
      i == d.pending
  IN IF d.failed THEN d
     ELSE [Send([d EXCEPT !.items[i].state = "completed"], "done", i, d.items[i].content)
             EXCEPT !.calls = @ + 1, !.pending = 0, !.cursor = @ + Len(body) + 4]

\* Mutant: the first half of an opening tag is sent as text.
TextEnd_Whole(remaining, final) ==
  IF Find(remaining, OpenTag) >= 0 THEN Find(remaining, OpenTag) ELSE Len(remaining)

\* How much of the remaining text is message text.
TextEnd(remaining, final) ==
  CASE Find(remaining, OpenTag) >= 0 -> Find(remaining, OpenTag)
    [] Find(remaining, OpenTag) < 0 /\ final -> Len(remaining)
    [] OTHER -> SafeTextEnd(remaining, {OpenTag})

RECURSIVE Consume(_, _, _)
\* advance: the loop over the text up to safe.
Consume(o, safe, final) ==
  LET remaining == Drop(safe, o.cursor)
      tail      == Drop(remaining, 2)
      end       == BodyEnd(tail, final)
      body      == SubSeq(tail, 1, end)
      n         == TextEnd(remaining, final)
  IN CASE o.failed \/ remaining = <<>> -> o
       [] ~ o.failed /\ IsPrefix(OpenTag, remaining) ->
            CASE ~ parallel /\ o.calls # 0 -> Failed(o)
              [] (parallel \/ o.calls = 0) /\ end = -2 -> Failed(o)
              [] (parallel \/ o.calls = 0) /\ end = -1 ->
                   IF tail = <<>> THEN o
                   ELSE IF tail[1] \notin Declared THEN Failed(o)
                   ELSE CallDelta(o, tail[1], Arguments(tail))
              [] OTHER -> IF body[1] \notin Declared THEN Failed(o)
                          ELSE Consume(Completed(o, body), safe, final)
       [] OTHER -> IF n = 0 THEN o
                   ELSE Consume([Text(o, SubSeq(remaining, 1, n)) EXCEPT !.cursor = @ + n],
                                safe, final)

Advance(o, t, final) ==
  Consume(o, IF final THEN t ELSE SubSeq(t, 1, SafeTextEnd(t, stops)), final)

Init ==
  /\ stops \in StopSets /\ parallel \in BOOLEAN
  /\ text = <<>> /\ output = NewOutput /\ status = "running"

\* BOUND: the symbols of a call are generated only after a tag has begun;
\* elsewhere they are characters like any other.
InsideOnly(piece) == piece[1] \in {"P", "f", "g", "Z", "C", "D"} => Contains(text, "O")

\* push: one token's piece, then advance; the text is cut at a stop string.
Push(piece) ==
  /\ status = "running" /\ Len(text) + Len(piece) <= MaxLen /\ InsideOnly(piece)
  /\ LET t   == text \o piece
         cut == EarliestStop(t)
         s   == IF cut >= 0 THEN SubSeq(t, 1, cut) ELSE t
     IN \E o \in {Advance(output, s, cut >= 0)} :
          /\ text' = s /\ output' = o
          /\ status' = IF o.failed THEN "error" ELSE IF cut >= 0 THEN "stopped" ELSE "running"
  /\ UNCHANGED <<stops, parallel>>

\* finish: the rest of the text, the open message, the final event.
Finish ==
  /\ status \in {"running", "stopped"} /\ text # <<>>
  /\ \E o \in {Advance(output, text, TRUE)} :
       /\ status' = IF o.failed THEN "error" ELSE "done"
       /\ output' = IF o.failed THEN o ELSE Send(CloseMessage(o), "completed", 0, <<>>)
  /\ UNCHANGED <<stops, parallel, text>>

Next == (\E piece \in Pieces : Push(piece)) \/ Finish

Spec == Init /\ [][Next]_vars

----------------------------------------------------------------------------
\* What a client that follows the events holds: the items, and the open one.
Follow(view, e) ==
  CASE e.type = "added" -> [view EXCEPT !.items = Append(@, [content |-> <<>>, open |-> TRUE]),
                                        !.ok = @ /\ e.index = Len(view.items) + 1
                                                 /\ \A i \in DOMAIN view.items : ~ view.items[i].open]
    [] e.type = "delta" -> [view EXCEPT !.items[e.index].content = @ \o e.data,
                                        !.ok = @ /\ view.items[e.index].open]
    [] e.type = "done" -> [view EXCEPT !.items[e.index].open = FALSE,
                                       !.ok = @ /\ view.items[e.index].open
                                                /\ view.items[e.index].content = e.data]
    [] e.type = "completed" -> [view EXCEPT !.ok = @ /\ \A i \in DOMAIN view.items : ~ view.items[i].open]
    [] OTHER -> view

Client == FoldLeft(Follow, [items |-> <<>>, ok |-> TRUE], output.events)

\* EventsReplay: a client that applies the events in order holds exactly the
\* server's items at every moment; items are added one after the other, one
\* is open at a time, and the text of done is what the deltas said.
EventsReplay ==
  ~ output.failed =>
    /\ Client.ok /\ Len(Client.items) = Len(output.items)
    /\ \A i \in DOMAIN output.items :
         /\ Client.items[i].content = output.items[i].content
         /\ Client.items[i].open = (output.items[i].state = "in_progress")

\* StreamEqualsWhole: the items of a streamed response are those of the same
\* text taken at once, as a response that is not streamed takes it.
StreamEqualsWhole ==
  status = "done" =>
    output.items = CloseMessage(Advance(NewOutput, text, TRUE)).items
=============================================================================
