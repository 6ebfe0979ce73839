---------------------------- MODULE XmlArguments ----------------------------
(***************************************************************************)
(* Streaming the arguments of an XML tool call (serving/tool_calls.rs,     *)
(* xml_prefix; serving/responses.rs, call_delta): after every token the    *)
(* call so far is turned into a prefix of a JSON object, and only what was *)
(* not sent before is sent.  A text is a sequence of symbols:              *)
(*   "s" "o" "i"   the tag <parameter=k> of a string, an object, a number  *)
(*   "C" "D"       the two halves of </parameter>                          *)
(*   "E"           </function>                                             *)
(*   "x" "n" "r"   a character, a line feed, a carriage return             *)
(* A token is one or more of them.                                         *)
(***************************************************************************)
EXTENDS Integers, SequencesExt, FiniteSetsExt

CONSTANTS Tokens,   \* what a model may emit: symbols, or a whole line end <<"r", "n">>
          MaxLen    \* BOUND: symbols of a call

VARIABLES body,   \* the call after <function=name>
          sent,   \* the arguments streamed so far
          status  \* "open", "done", "invalid", "differs"
vars == <<body, sent, status>>

Key == {"s", "o", "i"}
Space == {"n", "r"}

----------------------------------------------------------------------------
Drop(t, n) == SubSeq(t, n + 1, Len(t))

TrimStart(t) ==
  LET i == SelectInSeq(t, LAMBDA c : c \notin Space) IN IF i = 0 THEN <<>> ELSE Drop(t, i - 1)

StripPrefix(t) ==
  IF IsPrefix(<<"r", "n">>, t) THEN Drop(t, 2) ELSE IF IsPrefix(<<"n">>, t) THEN Tail(t) ELSE t

StripSuffix(t) ==
  IF IsSuffix(<<"r", "n">>, t) THEN Front(Front(t)) ELSE IF IsSuffix(<<"n">>, t) THEN Front(t) ELSE t

\* unpad: one line end is removed at each side.
Unpad(t) == StripSuffix(StripPrefix(t))

\* The first </parameter>, as the number of symbols before it, or -1.
Close(t) ==
  LET at == {i \in 1..(Len(t) - 1) : t[i] = "C" /\ t[i + 1] = "D"}
  IN IF at = {} THEN -1 ELSE Min(at) - 1

\* safe_text_end: the half of a closing tag at the end is held back.
Open(t) == IF t # <<>> /\ Last(t) = "C" THEN Front(t) ELSE t

Quote == <<"q">>

\* The JSON of one parameter; an unfinished string has no closing quote and
\* an unfinished number no digits.
Encoded(k, raw, closed) ==
  CASE k = "s" -> Quote \o raw \o (IF closed THEN Quote ELSE <<>>)
    [] k = "o" -> TrimStart(raw)
    [] k = "i" -> IF closed THEN SelectSeq(raw, LAMBDA c : c \notin Space) ELSE <<>>

\* A number or an object must parse.
Valid(k, raw) == k = "s" \/ \E i \in 1..Len(raw) : raw[i] = "x"

Invalid == [ok |-> FALSE, args |-> <<>>]
Args(entries, end) == [ok |-> TRUE, args |-> <<"{">> \o entries \o end]

RECURSIVE Entries(_, _, _, _)
\* The loop over the parameters of xml_prefix.
Entries(rest, names, entries, complete) ==
  LET t == TrimStart(rest) IN
  CASE t # <<>> /\ t[1] = "E" ->
         IF TrimStart(Tail(t)) # <<>> THEN Invalid ELSE Args(entries, <<"}">>)
    [] t = <<>> \/ t[1] \notin Key \cup {"E"} ->
         IF complete THEN Invalid ELSE Args(entries, <<>>)
    [] OTHER ->
         LET k      == t[1]
             closed == Close(Tail(t)) >= 0
             raw    == Unpad(IF closed THEN SubSeq(Tail(t), 1, Close(Tail(t))) ELSE Open(Tail(t)))
             comma  == IF entries = <<>> THEN <<>> ELSE <<",">>
             entry  == entries \o comma \o <<k, ":">> \o Encoded(k, raw, closed)
         IN CASE k \in names -> Invalid
              [] ~ closed /\ complete -> Invalid
              [] closed /\ ~ Valid(k, raw) -> Invalid
              [] k \notin names /\ ~ closed /\ ~ complete -> Args(entry, <<>>)
              [] OTHER -> Entries(Drop(t, Close(Tail(t)) + 3), names \cup {k}, entry, complete)

XmlPrefix(t, complete) == Entries(t, {}, <<>>, complete)

Init == body = <<>> /\ sent = <<>> /\ status = "open"

\* advance and call_delta: a token arrives; what is already sent must be a
\* prefix of the arguments parsed now.
Token(t) ==
  /\ status = "open" /\ Len(body) + Len(t) <= MaxLen
  /\ body' = body \o t
  /\ LET complete == Last(t) = "E"
         parsed   == XmlPrefix(body', complete)
         grows    == IsPrefix(sent, parsed.args)
     IN /\ status' = IF ~ parsed.ok THEN "invalid" ELSE IF ~ grows THEN "differs"
                     ELSE IF complete THEN "done" ELSE "open"
        /\ sent' = IF parsed.ok /\ grows THEN parsed.args ELSE sent

\* Whether the body ends inside a parameter.
Inside(t) ==
  LET k == SelectLastInSeq(t, LAMBDA c : c \in Key)
  IN k # 0 /\ Close(Drop(t, k)) < 0

\* What a model emits: tags between parameters, characters and the closing
\* tag inside; its second half follows the first.  A line end is one token or
\* two.
Emits(c) ==
  CASE c = "D" -> body # <<>> /\ Last(body) = "C"
    [] c \in Key \cup {"E"} -> ~ Inside(body)
    [] c \in {"x", "C"} -> Inside(body)
    [] OTHER -> TRUE

Next == \E t \in Tokens : Emits(t[1]) /\ Token(t)

Spec == Init /\ [][Next]_vars

----------------------------------------------------------------------------
\* A line end CR LF in two tokens whose CR has been streamed already.
SplitLineEnd ==
  /\ IsSuffix(<<"r", "n">>, body)
  /\ sent = XmlPrefix(Front(body), FALSE).args /\ Last(sent) = "r"

\* PrefixPreserved: the arguments streamed for a call in progress are a
\* prefix of the arguments of the complete call (the test of xml_prefix
\* asserts arguments.starts_with(&partial)), so a call is never refused
\* because of how it was split into tokens, but for one split: unpad holds
\* back a line feed and a whole CR LF, and streams a lone CR that the next
\* token then makes part of a line end.
PrefixPreserved == status = "differs" => SplitLineEnd

\* ArgumentsExact: a finished call streamed each string parameter as it
\* stands between its tags, without one line end at either side and with
\* every other one.
ArgumentsExact ==
  status = "done" =>
    \A i \in DOMAIN body : body[i] = "s" =>
      LET raw    == SubSeq(Drop(body, i), 1, Close(Drop(body, i)))
          pads   == {<<>>, <<"n">>, <<"r", "n">>}
          inner  == {r \in {SubSeq(raw, a, b) : a, b \in 1..Len(raw)} \cup {<<>>} :
                       \E p, q \in pads : raw = p \o r \o q}
          value  == CHOOSE r \in inner : \A o \in inner : Len(r) <= Len(o)
          member == <<"s", ":", "q">> \o value \o <<"q">>
      IN \E j \in DOMAIN sent : SubSeq(sent, j, Min({Len(sent), j + Len(member) - 1})) = member
=============================================================================
