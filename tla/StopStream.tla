----------------------------- MODULE StopStream -----------------------------
(***************************************************************************)
(* Streaming text with stop strings: the engine of openai_server.rs        *)
(* (on_token, finish) and ResponseProgress of the native server            *)
(* (serving/progress.rs).  A text is a sequence of characters.  Decoding   *)
(* is external; what matters of it is that a character may take two tokens *)
(* ("h" "h" is "e") and that a half shows as the replacement character "?" *)
(* until the other half arrives.  "z" is the end-of-sequence token, which  *)
(* decodes to nothing.                                                     *)
(***************************************************************************)
EXTENDS Integers, SequencesExt, FiniteSetsExt

CONSTANTS Tokens,    \* the vocabulary, a subset of {"a", "b", "h", "z"}
          StopSets,  \* sets of stop strings a request may carry
          MaxTokens  \* BOUND: max_new_tokens

VARIABLES server,    \* "openai" or "native"
          stops,     \* the request's stop strings
          generated, \* tokens so far
          text,      \* native: ResponseProgress.text
          emitted,   \* characters sent
          sent,      \* history: the deltas, concatenated
          status     \* "running", "stopped", "done", "error"
vars == <<server, stops, generated, text, emitted, sent, status>>

----------------------------------------------------------------------------
Decode(ids) ==
  FoldLeft(LAMBDA t, c :
             IF c = "z" THEN t
             ELSE IF c # "h" THEN Append(t, c)
             ELSE IF t # <<>> /\ Last(t) = "?" THEN Append(Front(t), "e")
             ELSE Append(t, "?"), <<>>, ids)

Starts(t, s) ==
  {i \in 0..Len(t) : i + Len(s) <= Len(t) /\ SubSeq(t, i + 1, i + Len(s)) = s}

\* earliest_stop: the start of the first stop string found, or -1.
EarliestStop(t, S) ==
  LET all == UNION {Starts(t, s) : s \in S} IN IF all = {} THEN -1 ELSE Min(all)

\* stop_prefix_suffix, safe_text_end: the longest suffix of the text that is
\* a proper prefix of a stop string.
Held(t, S) ==
  Max({0} \cup UNION {{n \in 1..(Len(s) - 1) : IsSuffix(SubSeq(s, 1, n), t)} : s \in S})

\* The length of the text without the replacement characters at its end.
Whole(t) == SelectLastInSeq(t, LAMBDA c : c # "?")

Init ==
  /\ server \in {"openai", "native"} /\ stops \in StopSets
  /\ generated = <<>> /\ text = <<>> /\ emitted = 0 /\ sent = <<>> /\ status = "running"

\* Send t[emitted..end], if there is anything to send.
Emit(t, end) ==
  /\ sent' = IF end > emitted THEN sent \o SubSeq(t, emitted + 1, end) ELSE sent
  /\ emitted' = Max({end, emitted})

----------------------------------------------------------------------------
(* openai_server.rs                                                        *)

\* on_token: nothing for the end token; at a stop string send up to it and
\* finish; otherwise send what cannot be part of a stop string or of an
\* incomplete character.
OnToken(c) ==
  /\ server = "openai" /\ status = "running" /\ Len(generated) < MaxTokens
  /\ generated' = Append(generated, c)
  /\ LET t   == Decode(generated')
         cut == EarliestStop(t, stops)
     IN CASE c = "z"   -> UNCHANGED <<emitted, sent, status>>
          [] c # "z" /\ cut >= 0 -> Emit(t, cut) /\ status' = "stopped"
          [] OTHER     -> Emit(t, Whole(t) - Held(SubSeq(t, 1, Whole(t)), stops))
                          /\ UNCHANGED status
  /\ UNCHANGED <<server, stops, text>>

\* finish: the rest of the text up to a stop string, then Done.
FinishOpenAi ==
  /\ server = "openai"
  /\ \/ status = "stopped"
     \/ status = "running" /\ generated # <<>>
        /\ (Last(generated) = "z" \/ Len(generated) = MaxTokens)
  /\ LET t   == Decode(generated)
         cut == EarliestStop(t, stops)
     IN Emit(t, IF cut >= 0 THEN cut ELSE Len(t))
  /\ status' = "done"
  /\ UNCHANGED <<server, stops, generated, text>>

----------------------------------------------------------------------------
(* serving/progress.rs                                                     *)

\* push: the incremental decoder yields nothing while its text ends in an
\* incomplete character.
Push(c) ==
  /\ server = "native" /\ status = "running" /\ Len(generated) < MaxTokens
  /\ generated' = Append(generated, c)
  /\ LET d   == Decode(generated')
         t   == IF Whole(d) = Len(d) THEN d ELSE text
         cut == EarliestStop(t, stops)
     IN /\ text' = IF cut >= 0 THEN SubSeq(t, 1, cut) ELSE t
        /\ status' = IF cut >= 0 THEN "stopped" ELSE status
        /\ Emit(text', IF cut >= 0 THEN cut ELSE Len(t) - Held(t, stops))
  /\ UNCHANGED <<server, stops>>

\* finish: unless stopped, the whole output is decoded once more and must
\* extend what was sent.
FinishNative ==
  /\ server = "native"
  /\ \/ status = "stopped"
     \/ status = "running" /\ generated # <<>>
        /\ (Last(generated) = "z" \/ Len(generated) = MaxTokens)
  /\ LET d   == Decode(generated)
         cut == EarliestStop(d, stops)
         end == IF cut >= 0 THEN cut ELSE Len(d)
         bad == status = "running"
                /\ (~ IsPrefix(SubSeq(text, 1, emitted), d) \/ (cut >= 0 /\ cut < emitted))
     IN /\ status' = IF bad THEN "error" ELSE "done"
        /\ text' = IF bad \/ status = "stopped" THEN text ELSE SubSeq(d, 1, end)
        /\ IF bad THEN UNCHANGED <<emitted, sent>> ELSE Emit(text', Len(text'))
  /\ UNCHANGED <<server, stops, generated>>

Next ==
  \/ \E c \in Tokens : /\ ~ Contains(generated, "z")
                       /\ OnToken(c) \/ Push(c)
  \/ FinishOpenAi \/ FinishNative

Spec == Init /\ [][Next]_vars

----------------------------------------------------------------------------
\* What a response that is not streamed would say: the output at the first
\* token that completes a stop string, cut there, or the whole output.
Reference ==
  LET found == {n \in 1..Len(generated) :
                  EarliestStop(Decode(SubSeq(generated, 1, n)), stops) >= 0}
      d     == Decode(generated)
  IN IF found = {} THEN d
     ELSE LET t == Decode(SubSeq(generated, 1, Min(found)))
          IN SubSeq(t, 1, EarliestStop(t, stops))

\* StreamExact: the deltas of a finished response add up to the text cut at
\* its stop string, whatever the split into tokens, and the final decoding
\* never contradicts what was sent.
StreamExact ==
  /\ status # "error"
  /\ status = "done" => sent = Reference

\* NeverRetracts: what was sent stays a prefix of the output; no part of a
\* stop string and no half of a character ever leaves the server early.
NeverRetracts ==
  /\ emitted = Len(sent)
  /\ IsPrefix(sent, Decode(generated))
  /\ status = "running" => \A s \in stops : \A i \in 1..(Len(sent)) :
       ~ IsPrefix(s, SubSeq(Decode(generated), i, Len(Decode(generated))))
=============================================================================
