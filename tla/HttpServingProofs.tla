------------------------- MODULE HttpServingProofs -------------------------
(***************************************************************************)
(* Worker, executor and handlers of HttpServing agree about every request, *)
(* for every set of clients, every capacity and every way in which clients *)
(* leave and steps fail.                                                   *)
(*                                                                         *)
(* The inductive invariant has four parts besides the types: what the      *)
(* worker must have drained at each place of its loop (Loop), what the     *)
(* executor holds compared with the active jobs (Engine), which clients    *)
(* nobody has touched yet (Fresh), and how far the answer of each client   *)
(* has come on its way from the outbox through the channel to the client   *)
(* (Answers).                                                              *)
(***************************************************************************)
EXTENDS HttpServing, FiniteSetTheorems, SequenceTheorems, TLAPS

-----------------------------------------------------------------------------
(* The inductive invariant                                                 *)

Event == {"delta", "finish", "error"}
Answer == Event \cup {"[DONE]"} \cup {200, 400, 500, 503}
HandlerState == [pc : {"new", "sending", "ready", "reading", "closed", "gone"},
                 stream : BOOLEAN, got : Seq(Answer)]
Place == {"starting", "idle", "drain", "step", "report", "failing", "native", "ended"}
Request == [st : {"running", "pending", "remote", "refused"}, left : Nat]

\* What the variables range over.  "refused" is missing from the answers to a
\* job: that part is NeverRefused.
Types ==
  /\ mode \in Modes /\ handler \in [Clients -> HandlerState]
  /\ ready \in [Clients -> {"none", "ok", "bad", "dropped"}]
  /\ chan \in [Clients -> Seq(Event)] /\ queue \in Seq(Clients)
  /\ open \in BOOLEAN /\ worker \in Place /\ active \subseteq Clients
  /\ DOMAIN exec \subseteq Clients /\ exec \in [DOMAIN exec -> Request]
  /\ finished \in Seq(Clients) /\ failed \in Seq(Clients)
  /\ report \in Seq(Clients \X Tokens) /\ stepped \in BOOLEAN
  /\ outbox \in Seq(Clients \X Event) /\ faults \in Nat /\ silent \in BOOLEAN

\* What is empty at each place of the worker's loop.
Loop ==
  /\ worker \in {"drain", "step", "report", "failing"} => mode = "batch"
  /\ worker = "native" => mode = "native" /\ \A c, d \in active : c = d
  /\ worker \in {"starting", "idle", "ended"} => active = {}
  /\ worker \in {"starting", "idle"} => DOMAIN exec = {}
  /\ worker \in {"starting", "idle", "native"} => finished = <<>>
  /\ worker \in {"starting", "idle", "native", "drain"} => failed = <<>>
  /\ worker \in {"starting", "step", "ended"} => outbox = <<>>
  /\ worker = "idle" /\ mode = "batch" => outbox = <<>>
  /\ silent => worker = "ended"
  /\ mode = "batch" => \A c \in DOMAIN exec : exec[c].left > 0

\* What the executor holds belongs to an active job and has not ended; an
\* active job has a request that runs, or one whose end is yet to be read.
Engine ==
  /\ worker # "ended" => DOMAIN exec \subseteq active
  /\ active \subseteq DOMAIN exec \cup Range(finished) \cup Range(failed)
  /\ \A c \in DOMAIN exec : c \notin Range(finished) /\ c \notin Range(failed)
  /\ worker = "step" => Range(failed) \subseteq active

\* A client whose job has not been taken from the channel, or was turned down,
\* is nowhere in the worker and has been told nothing.
Fresh ==
  /\ \A i, j \in DOMAIN queue : queue[i] = queue[j] => i = j
  /\ \A i \in DOMAIN queue :
       ready[queue[i]] = "none" /\ handler[queue[i]].pc \in {"ready", "gone"}
  /\ \A c \in Clients :
       /\ handler[c].pc \in {"new", "sending"} => ready[c] = "none"
       /\ handler[c].pc \in {"new", "sending", "ready"} => handler[c].got = <<>>
       /\ handler[c].pc = "reading" => ready[c] = "ok"
       /\ handler[c].pc = "reading" /\ ~ handler[c].stream => handler[c].got = <<>>
       /\ ready[c] # "ok" =>
            /\ c \notin active /\ c \notin DOMAIN exec
            /\ c \notin Range(finished) /\ c \notin Range(failed)
            /\ chan[c] = <<>> /\ \A i \in DOMAIN outbox : outbox[i][1] # c

\* Only deltas; deltas and then one last event.
Deltas(s) == \A i \in DOMAIN s : s[i] = "delta"
Whole(s) ==
  /\ Len(s) > 0 /\ s[Len(s)] \in {"finish", "error"}
  /\ \A i \in 1..(Len(s) - 1) : s[i] = "delta"

\* The stream of c, read and unread, is still open, or has its last event.
Begun(c) == Deltas(handler[c].got) /\ Deltas(chan[c])
Told(c) ==
  \/ Deltas(handler[c].got) /\ Whole(chan[c])
  \/ Whole(handler[c].got) /\ chan[c] = <<>>

Streaming(c) ==
  ready[c] = "ok" /\ handler[c].pc \in {"ready", "reading"} /\ handler[c].stream

\* The last event of c is in the outbox.
Ending(c) == \E i \in DOMAIN outbox : outbox[i][1] = c /\ outbox[i][2] # "delta"

\* An answer has one last event, on which nothing follows, and it comes when
\* the job is no longer active, or for every active job when the worker fails.
Answers ==
  /\ \A i, j \in DOMAIN outbox :
       i < j /\ outbox[i][1] = outbox[j][1] => outbox[i][2] = "delta"
  /\ worker # "failing" =>
       \A i \in DOMAIN outbox : outbox[i][1] \in active => outbox[i][2] = "delta"
  /\ \A c \in Clients : Streaming(c) /\ ~ silent =>
       \/ Begun(c) /\ ((c \in active /\ worker # "failing") \/ Ending(c))
       \/ /\ Told(c) /\ \A i \in DOMAIN outbox : outbox[i][1] # c
          /\ c \in active => worker = "failing"

IInv == Types /\ Loop /\ Engine /\ Fresh /\ Answers /\ AnswerComplete


-----------------------------------------------------------------------------
(* Sequences and sets                                                      *)

\* Appending to a sequence.
LEMMA RangeOfAppend ==
  ASSUME NEW S, NEW s \in Seq(S), NEW e \in S
  PROVE  /\ Append(s, e) \in Seq(S) /\ Len(Append(s, e)) = Len(s) + 1
         /\ \A i \in DOMAIN s : Append(s, e)[i] = s[i]
         /\ Append(s, e)[Len(s) + 1] = e
         /\ DOMAIN Append(s, e) = 1..(Len(s) + 1)
         /\ Range(Append(s, e)) = Range(s) \cup {e}
  <1>1. /\ Append(s, e) \in Seq(S) /\ Len(Append(s, e)) = Len(s) + 1
        /\ \A i \in DOMAIN s : Append(s, e)[i] = s[i]
        /\ Append(s, e)[Len(s) + 1] = e
        /\ DOMAIN Append(s, e) = 1..(Len(s) + 1) /\ DOMAIN s = 1..Len(s) /\ Len(s) \in Nat
    OBVIOUS
  <1>2. DOMAIN Append(s, e) = DOMAIN s \cup {Len(s) + 1}
    BY <1>1
  <1> QED
    BY <1>1, <1>2 DEF Range

\* Taking the head of a sequence.
LEMMA RangeOfTail ==
  ASSUME NEW S, NEW s \in Seq(S), s # <<>>
  PROVE  /\ Head(s) \in S /\ Head(s) = s[1] /\ Tail(s) \in Seq(S)
         /\ Len(s) \in Nat /\ Len(s) > 0 /\ DOMAIN s = 1..Len(s)
         /\ Len(Tail(s)) = Len(s) - 1 /\ DOMAIN Tail(s) = 1..(Len(s) - 1)
         /\ \A i \in DOMAIN Tail(s) : Tail(s)[i] = s[i + 1]
         /\ Range(s) = Range(Tail(s)) \cup {Head(s)}
  <1>1. /\ Head(s) \in S /\ Head(s) = s[1] /\ Tail(s) \in Seq(S)
        /\ Len(s) \in Nat /\ Len(s) > 0 /\ DOMAIN s = 1..Len(s)
        /\ Len(Tail(s)) = Len(s) - 1 /\ DOMAIN Tail(s) = 1..(Len(s) - 1)
        /\ \A i \in DOMAIN Tail(s) : Tail(s)[i] = s[i + 1]
    BY HeadTailProperties
  <1>2. ASSUME NEW x \in Range(s) PROVE x \in Range(Tail(s)) \cup {Head(s)}
    <2>1. PICK i \in DOMAIN s : x = s[i]
      BY DEF Range
    <2>2. CASE i = 1
      BY <1>1, <2>1, <2>2
    <2>3. CASE i # 1
      <3>1. i - 1 \in DOMAIN Tail(s) /\ Tail(s)[i - 1] = s[i]
        BY <1>1, <2>3
      <3> QED
        BY <2>1, <3>1 DEF Range
    <2> QED
      BY <2>2, <2>3
  <1>3. Range(Tail(s)) \cup {Head(s)} \subseteq Range(s)
    <2>1. 1 \in DOMAIN s /\ \A i \in DOMAIN Tail(s) : i + 1 \in DOMAIN s
      BY <1>1
    <2> QED
      BY <1>1, <2>1 DEF Range
  <1> QED
    BY <1>1, <1>2, <1>3

\* Joining two sequences.
LEMMA RangeOfConcat ==
  ASSUME NEW S, NEW s \in Seq(S), NEW t \in Seq(S)
  PROVE  s \o t \in Seq(S) /\ Range(s \o t) = Range(s) \cup Range(t)
  <1>1. /\ s \o t \in Seq(S) /\ DOMAIN (s \o t) = 1..(Len(s) + Len(t))
        /\ DOMAIN s = 1..Len(s) /\ DOMAIN t = 1..Len(t) /\ Len(s) \in Nat /\ Len(t) \in Nat
        /\ \A i \in 1..(Len(s) + Len(t)) :
             (s \o t)[i] = IF i <= Len(s) THEN s[i] ELSE t[i - Len(s)]
    OBVIOUS
  <1>2. ASSUME NEW x \in Range(s \o t) PROVE x \in Range(s) \cup Range(t)
    <2>1. PICK i \in DOMAIN (s \o t) : x = (s \o t)[i]
      BY DEF Range
    <2>2. CASE i <= Len(s)
      <3>1. i \in DOMAIN s /\ x = s[i]
        BY <1>1, <2>1, <2>2
      <3> QED
        BY <3>1 DEF Range
    <2>3. CASE ~ (i <= Len(s))
      <3>1. i - Len(s) \in DOMAIN t /\ x = t[i - Len(s)]
        BY <1>1, <2>1, <2>3
      <3> QED
        BY <3>1 DEF Range
    <2> QED
      BY <2>2, <2>3
  <1>3. ASSUME NEW i \in DOMAIN s PROVE s[i] \in Range(s \o t)
    <2>1. i \in DOMAIN (s \o t) /\ (s \o t)[i] = s[i]
      BY <1>1
    <2> QED
      BY <2>1 DEF Range
  <1>4. ASSUME NEW i \in DOMAIN t PROVE t[i] \in Range(s \o t)
    <2>1. Len(s) + i \in DOMAIN (s \o t) /\ (s \o t)[Len(s) + i] = t[i]
      BY <1>1
    <2> QED
      BY <2>1 DEF Range
  <1>5. Range(s) \cup Range(t) \subseteq Range(s \o t)
    BY <1>3, <1>4 DEF Range
  <1> QED
    BY <1>1, <1>2, <1>5

\* SetToSeq lists a finite set without repetition.
LEMMA SetListed ==
  ASSUME NEW S, IsFiniteSet(S)
  PROVE  /\ Cardinality(S) \in Nat
         /\ SetToSeq(S) \in Seq(S) /\ SetToSeq(S) \in [1..Cardinality(S) -> S]
         /\ Range(SetToSeq(S)) = S
         /\ \A i, j \in 1..Cardinality(S) : SetToSeq(S)[i] = SetToSeq(S)[j] => i = j
  <1> DEFINE n == Cardinality(S)
  <1>1. n \in Nat /\ Injection(1..n, S) # {}
    BY FS_CardinalityType DEF ExistsBijection, Bijection
  <1>2. SetToSeq(S) \in [1..n -> S] /\ IsInjective(SetToSeq(S))
    BY <1>1 DEF SetToSeq, Injection
  <1>3. Cardinality(1..n) = n
    BY <1>1, FS_Interval
  <1>4. SetToSeq(S) \in Surjection(1..n, S)
    BY <1>2, <1>3, FS_Injection DEF Injection
  <1>5. Range(SetToSeq(S)) = S
    BY <1>2, <1>4 DEF Surjection, Range
  <1> HIDE DEF n
  <1>6. SetToSeq(S) \in Seq(S)
    BY <1>1, <1>2
  <1> QED
    BY <1>1, <1>2, <1>5, <1>6 DEF n, IsInjective

-----------------------------------------------------------------------------
(* The handlers                                                            *)

\* After the step, the handler of c is in this state and the others as before.
HandlerIs(c, pc, stream, got) ==
  /\ handler' \in [Clients -> HandlerState]
  /\ handler'[c].pc = pc /\ handler'[c].stream = stream /\ handler'[c].got = got
  /\ \A d \in Clients \ {c} : handler'[d] = handler[d]

\* A handler that is given a new state.
LEMMA HandlerBecomes ==
  ASSUME Types, NEW c \in Clients, NEW h \in HandlerState, handler' = [handler EXCEPT ![c] = h]
  PROVE  HandlerIs(c, h.pc, h.stream, h.got)
  BY DEF Types, HandlerIs

\* The types of what belongs to one client.
LEMMA HandlerTypes ==
  ASSUME Types, NEW c \in Clients
  PROVE  /\ handler[c] \in HandlerState
         /\ handler[c].pc \in {"new", "sending", "ready", "reading", "closed", "gone"}
         /\ handler[c].stream \in BOOLEAN /\ handler[c].got \in Seq(Answer)
         /\ chan[c] \in Seq(Event)
         /\ ready[c] \in {"none", "ok", "bad", "dropped"}
  BY DEF Types, HandlerState

\* A handler that only goes on to another place.
LEMMA MovesTo ==
  ASSUME Types, NEW c \in Clients, NEW pc \in {"new", "sending", "ready", "reading", "closed", "gone"},
         handler' = [handler EXCEPT ![c].pc = pc]
  PROVE  HandlerIs(c, pc, handler[c].stream, handler[c].got)
  <1> DEFINE h == [handler[c] EXCEPT !.pc = pc]
  <1>1. h \in HandlerState
    BY HandlerTypes DEF HandlerState
  <1>2. handler' = [handler EXCEPT ![c] = h]
    BY DEF Types
  <1>3. HandlerIs(c, h.pc, h.stream, h.got)
    BY <1>1, <1>2, HandlerBecomes
  <1> QED
    BY <1>3, HandlerTypes DEF HandlerState

\* A handler that ends, with the last part of its answer.
LEMMA Closes ==
  ASSUME Types, NEW c \in Clients, NEW answer \in Seq(Answer), End(c, answer)
  PROVE  HandlerIs(c, "closed", handler[c].stream, handler[c].got \o answer)
  <1> DEFINE h == [handler[c] EXCEPT !.pc = "closed", !.got = @ \o answer]
  <1>1. handler[c].got \o answer \in Seq(Answer)
    BY HandlerTypes
  <1>2. h \in HandlerState
    BY <1>1, HandlerTypes DEF HandlerState
  <1>3. handler' = [handler EXCEPT ![c] = h]
    BY DEF Types, End
  <1>4. HandlerIs(c, h.pc, h.stream, h.got)
    BY <1>2, <1>3, HandlerBecomes
  <1> QED
    BY <1>4, HandlerTypes DEF HandlerState

\* What Answers says of one stream.
StreamOk(c) ==
  Streaming(c) /\ ~ silent =>
    \/ Begun(c) /\ ((c \in active /\ worker # "failing") \/ Ending(c))
    \/ /\ Told(c) /\ \A i \in DOMAIN outbox : outbox[i][1] # c
       /\ c \in active => worker = "failing"

\* What Fresh says of one client.
FreshOk(c) ==
  /\ handler[c].pc \in {"new", "sending"} => ready[c] = "none"
  /\ handler[c].pc \in {"new", "sending", "ready"} => handler[c].got = <<>>
  /\ handler[c].pc = "reading" => ready[c] = "ok"
  /\ handler[c].pc = "reading" /\ ~ handler[c].stream => handler[c].got = <<>>
  /\ ready[c] # "ok" =>
       /\ c \notin active /\ c \notin DOMAIN exec
       /\ c \notin Range(finished) /\ c \notin Range(failed)
       /\ chan[c] = <<>> /\ \A i \in DOMAIN outbox : outbox[i][1] # c

\* Nothing changes but the handler and the channel of c.
OnlyHandler(c) ==
  /\ UNCHANGED <<mode, ready, queue, open, worker, active, evars, outbox, faults, silent>>
  /\ handler' \in [Clients -> HandlerState] /\ chan' \in [Clients -> Seq(Event)]
  /\ \A d \in Clients \ {c} : handler'[d] = handler[d] /\ chan'[d] = chan[d]

\* Such a step keeps the invariant if it keeps it for c.
LEMMA HandlerStep ==
  ASSUME IInv, NEW c \in Clients, OnlyHandler(c),
         (\E i \in DOMAIN queue : queue[i] = c) => handler'[c].pc \in {"ready", "gone"},
         FreshOk(c)', StreamOk(c)',
         handler'[c].pc = "closed" /\ ~ silent => IsAnswer(handler'[c].got)
  PROVE  IInv'
  <1> USE DEF OnlyHandler, evars
  <1>1. Types'
    BY DEF IInv, Types
  <1>2. Loop' /\ Engine'
    BY DEF IInv, Loop, Engine
  <1>3. Fresh'
    <2>1. \A d \in Clients : FreshOk(d)'
      BY DEF IInv, Fresh, FreshOk
    <2>2. \A i \in DOMAIN queue' : ready'[queue'[i]] = "none" /\ handler'[queue'[i]].pc \in {"ready", "gone"}
      <3> TAKE i \in DOMAIN queue'
      <3>1. queue[i] \in Clients /\ i \in DOMAIN queue
        BY DEF IInv, Types
      <3>2. ready[queue[i]] = "none" /\ handler[queue[i]].pc \in {"ready", "gone"}
        BY <3>1 DEF IInv, Fresh
      <3> QED
        BY <3>1, <3>2
    <2>3. \A i, j \in DOMAIN queue' : queue'[i] = queue'[j] => i = j
      BY DEF IInv, Fresh
    <2> QED
      BY <2>1, <2>2, <2>3 DEF Fresh, FreshOk
  <1>4. Answers'
    <2>1. \A d \in Clients : StreamOk(d)'
      <3> TAKE d \in Clients
      <3>1. CASE d # c
        <4>1. StreamOk(d)
          BY DEF IInv, Answers, StreamOk
        <4>2. handler'[d] = handler[d] /\ chan'[d] = chan[d]
          BY <3>1
        <4> QED
          BY <4>1, <4>2 DEF StreamOk, Streaming, Begun, Told, Ending
      <3> QED
        BY <3>1
    <2>2. /\ \A i, j \in DOMAIN outbox' :
                i < j /\ outbox'[i][1] = outbox'[j][1] => outbox'[i][2] = "delta"
          /\ worker' # "failing" =>
                \A i \in DOMAIN outbox' : outbox'[i][1] \in active' => outbox'[i][2] = "delta"
      BY DEF IInv, Answers
    <2> QED
      BY <2>1, <2>2 DEF Answers, StreamOk
  <1>5. AnswerComplete'
    BY DEF IInv, AnswerComplete
  <1> QED
    BY <1>1, <1>2, <1>3, <1>4, <1>5 DEF IInv

\* Only an accepted job waits in the jobs channel.
LEMMA NotQueued ==
  ASSUME IInv, NEW c \in Clients, handler[c].pc \notin {"ready", "gone"} \/ ready[c] # "none"
  PROVE  ~ \E i \in DOMAIN queue : queue[i] = c
  BY DEF IInv, Fresh

\* What the invariant says of one client.
LEMMA FreshAt ==
  ASSUME IInv, NEW c \in Clients
  PROVE  FreshOk(c) /\ StreamOk(c)
  BY DEF IInv, Fresh, FreshOk, Answers, StreamOk

\* A step of a handler that moves alone.
LEMMA HandlerOnly ==
  ASSUME IInv, NEW c \in Clients,
         UNCHANGED <<mode, ready, queue, open, worker, active, evars, outbox, faults, silent>>,
         UNCHANGED chan, NEW pc, NEW stream, NEW got, HandlerIs(c, pc, stream, got)
  PROVE  OnlyHandler(c)
  BY DEF IInv, Types, OnlyHandler, HandlerIs

\* Action Validate preserves the invariant.
LEMMA ValidateKeeps ==
  ASSUME IInv, NEW c \in Clients, Validate(c)
  PROVE  IInv'
  <1> USE DEF Validate
  <1>1. Types /\ handler[c].pc = "new" /\ handler[c].got = <<>> /\ ready[c] = "none"
    BY FreshAt DEF IInv, FreshOk
  <1>2. ~ \E i \in DOMAIN queue : queue[i] = c
    BY NotQueued
  <1>3. CASE End(c, <<400>>)
    <2>1. <<400>> \in Seq(Answer)
      BY DEF Answer
    <2>2. HandlerIs(c, "closed", handler[c].stream, handler[c].got \o <<400>>)
      BY <1>1, <1>3, <2>1, Closes
    <2>3. handler[c].got \o <<400>> = <<400>>
      BY <1>1, <2>1, ConcatEmptySeq
    <2>4. OnlyHandler(c)
      BY <2>2, HandlerOnly
    <2>5. FreshOk(c)' /\ StreamOk(c)'
      BY <1>1, <2>2, FreshAt DEF FreshOk, StreamOk, Streaming, HandlerIs, evars
    <2>6. IsAnswer(handler'[c].got)
      BY <2>2, <2>3 DEF IsAnswer, HandlerIs
    <2> QED
      BY <1>2, <2>4, <2>5, <2>6, HandlerStep
  <1>4. CASE handler' = [handler EXCEPT ![c].pc = "sending", ![c].stream = c \in Streamed]
    <2> DEFINE s == c \in Streamed
    <2>0. s \in BOOLEAN
      OBVIOUS
    <2>1. handler' = [handler EXCEPT ![c].pc = "sending", ![c].stream = s]
      BY <1>4
    <2> HIDE DEF s
    <2> DEFINE h == [handler[c] EXCEPT !.pc = "sending", !.stream = s]
    <2>2. h \in HandlerState /\ h.pc = "sending" /\ h.stream = s /\ h.got = handler[c].got
      BY <1>1, <2>0, HandlerTypes DEF HandlerState
    <2>3. handler' = [handler EXCEPT ![c] = h]
      BY <1>1, <2>1 DEF Types
    <2>4. HandlerIs(c, "sending", s, handler[c].got)
      BY <1>1, <2>2, <2>3, HandlerBecomes
    <2>5. OnlyHandler(c)
      BY <2>4, HandlerOnly
    <2>6. FreshOk(c)' /\ StreamOk(c)'
      BY <1>1, <2>4, FreshAt DEF FreshOk, StreamOk, Streaming, HandlerIs, evars
    <2>7. handler'[c].pc # "closed"
      BY <2>4 DEF HandlerIs
    <2> QED
      BY <1>2, <2>5, <2>6, <2>7, HandlerStep
  <1> QED
    BY <1>3, <1>4

\* Action Leave preserves the invariant.
LEMMA LeaveKeeps ==
  ASSUME IInv, NEW c \in Clients, Leave(c)
  PROVE  IInv'
  <1>1. HandlerIs(c, "gone", handler[c].stream, handler[c].got)
    BY MovesTo DEF Leave, IInv
  <1>2. OnlyHandler(c)
    BY <1>1, HandlerOnly DEF Leave
  <1>3. FreshOk(c)' /\ StreamOk(c)'
    BY <1>1, FreshAt DEF FreshOk, StreamOk, Streaming, HandlerIs, Leave, evars
  <1>4. handler'[c].pc = "gone"
    BY <1>1 DEF HandlerIs
  <1> QED
    BY <1>2, <1>3, <1>4, HandlerStep

\* Action Prepared preserves the invariant.
LEMMA PreparedKeeps ==
  ASSUME IInv, NEW c \in Clients, Prepared(c)
  PROVE  IInv'
  <1> USE DEF Prepared
  <1>1. /\ Types /\ handler[c].pc = "ready" /\ handler[c].got = <<>> /\ ready[c] # "none"
    BY FreshAt DEF IInv, FreshOk
  <1>2. ~ \E i \in DOMAIN queue : queue[i] = c
    BY <1>1, NotQueued
  <1>3. CASE ready[c] = "ok"
    <2>1. HandlerIs(c, "reading", handler[c].stream, handler[c].got)
      BY <1>1, <1>3, MovesTo
    <2>2. OnlyHandler(c)
      BY <2>1, HandlerOnly
    <2>3. FreshOk(c)'
      BY <1>1, <1>3, <2>1, FreshAt DEF FreshOk, HandlerIs, evars
    <2>4. StreamOk(c)'
      BY <1>1, <1>3, <2>1, FreshAt DEF StreamOk, Streaming, Begun, Told, Ending, HandlerIs, evars
    <2>5. handler'[c].pc # "closed"
      BY <2>1 DEF HandlerIs
    <2> QED
      BY <1>2, <2>2, <2>3, <2>4, <2>5, HandlerStep
  <1>4. CASE ready[c] # "ok"
    <2>0. <<400>> \in Seq(Answer) /\ <<500>> \in Seq(Answer)
      BY DEF Answer
    <2>1. PICK a \in Seq(Answer) : End(c, a) /\ (a = <<400>> \/ a = <<500>>)
      <3>1. CASE ready[c] = "dropped"
        <4> DEFINE b == <<500>>
        <4>1. End(c, b) /\ b \in Seq(Answer) /\ (b = <<400>> \/ b = <<500>>)
          BY <1>4, <2>0, <3>1
        <4> HIDE DEF b
        <4> QED
          BY <4>1
      <3>2. CASE ready[c] # "dropped"
        <4> DEFINE b == <<400>>
        <4>1. End(c, b) /\ b \in Seq(Answer) /\ (b = <<400>> \/ b = <<500>>)
          BY <1>4, <2>0, <3>2
        <4> HIDE DEF b
        <4> QED
          BY <4>1
      <3> QED
        BY <3>1, <3>2
    <2>2. HandlerIs(c, "closed", handler[c].stream, handler[c].got \o a)
      BY <1>1, <2>1, Closes
    <2>3. handler[c].got \o a = a
      BY <1>1, <2>1, ConcatEmptySeq
    <2> HIDE DEF Prepared
    <2>4. OnlyHandler(c)
      BY <2>2, HandlerOnly DEF Prepared
    <2>5. FreshOk(c)' /\ StreamOk(c)'
      BY <1>1, <1>4, <2>2, FreshAt DEF FreshOk, StreamOk, Streaming, HandlerIs, Prepared, evars
    <2>6. IsAnswer(handler'[c].got)
      BY <2>1, <2>2, <2>3 DEF IsAnswer, HandlerIs
    <2> QED
      BY <1>2, <2>4, <2>5, <2>6, HandlerStep
  <1> QED
    BY <1>3, <1>4

\* Action SendJob preserves the invariant.
LEMMA SendJobKeeps ==
  ASSUME IInv, NEW c \in Clients, SendJob(c)
  PROVE  IInv'
  <1> USE DEF SendJob
  <1>1. Types /\ handler[c].pc = "sending" /\ handler[c].got = <<>> /\ ready[c] = "none"
    BY FreshAt DEF IInv, FreshOk
  <1>2. ~ \E i \in DOMAIN queue : queue[i] = c
    BY <1>1, NotQueued
  <1>3. CASE worker = "ended" /\ End(c, <<503>>) /\ UNCHANGED queue
    <2>1. <<503>> \in Seq(Answer)
      BY DEF Answer
    <2>2. HandlerIs(c, "closed", handler[c].stream, handler[c].got \o <<503>>)
      BY <1>1, <1>3, <2>1, Closes
    <2>3. handler[c].got \o <<503>> = <<503>>
      BY <1>1, <2>1, ConcatEmptySeq
    <2>4. OnlyHandler(c)
      BY <1>3, <2>2, HandlerOnly
    <2>5. FreshOk(c)' /\ StreamOk(c)'
      BY <1>1, <2>2, FreshAt DEF FreshOk, StreamOk, Streaming, HandlerIs, evars
    <2>6. IsAnswer(handler'[c].got)
      BY <2>2, <2>3 DEF IsAnswer, HandlerIs
    <2> QED
      BY <1>2, <2>4, <2>5, <2>6, HandlerStep
  <1>4. CASE /\ worker # "ended" /\ Len(queue) < QueueCap
             /\ queue' = Append(queue, c) /\ handler' = [handler EXCEPT ![c].pc = "ready"]
    <2> USE DEF evars
    <2>1. HandlerIs(c, "ready", handler[c].stream, handler[c].got)
      BY <1>1, <1>4, MovesTo
    <2>2. /\ queue' \in Seq(Clients) /\ \A i \in DOMAIN queue : queue'[i] = queue[i]
          /\ DOMAIN queue' = 1..(Len(queue) + 1) /\ queue'[Len(queue) + 1] = c
          /\ DOMAIN queue = 1..Len(queue) /\ Len(queue) \in Nat
      BY <1>1, <1>4, RangeOfAppend DEF Types
    <2>3. Types'
      BY <1>1, <2>1, <2>2 DEF Types, HandlerIs
    <2>4. Loop' /\ Engine'
      BY DEF IInv, Loop, Engine
    <2>5. Fresh'
      <3>1. \A d \in Clients : FreshOk(d)'
        <4> TAKE d \in Clients
        <4>1. FreshOk(d)
          BY FreshAt
        <4> QED
          BY <1>1, <2>1, <4>1 DEF FreshOk, HandlerIs
      <3>2. ASSUME NEW i \in DOMAIN queue'
            PROVE  ready'[queue'[i]] = "none" /\ handler'[queue'[i]].pc \in {"ready", "gone"}
        <4>1. CASE i = Len(queue) + 1
          BY <1>1, <2>1, <2>2, <4>1 DEF HandlerIs
        <4>2. CASE i # Len(queue) + 1
          <5>0. i \in 1..(Len(queue) + 1) /\ Len(queue) \in Nat
            BY <2>2
          <5>a. i \in DOMAIN queue
            BY <2>2, <4>2, <5>0
          <5>b. queue'[i] = queue[i]
            BY <2>2, <5>a
          <5>c. queue[i] \in Clients
            BY <1>1, <5>a DEF Types
          <5>1. i \in DOMAIN queue /\ queue'[i] = queue[i] /\ queue[i] \in Clients \ {c}
            BY <1>2, <5>a, <5>b, <5>c
          <5>2. ready[queue[i]] = "none" /\ handler[queue[i]].pc \in {"ready", "gone"}
            BY <5>1 DEF IInv, Fresh
          <5> QED
            BY <2>1, <5>1, <5>2 DEF HandlerIs
        <4> QED
          BY <4>1, <4>2
      <3>3. ASSUME NEW i \in DOMAIN queue', NEW j \in DOMAIN queue', queue'[i] = queue'[j]
            PROVE  i = j
        <4>1. \A k, l \in DOMAIN queue : queue[k] = queue[l] => k = l
          BY DEF IInv, Fresh
        <4> QED
          BY <1>2, <2>2, <3>3, <4>1
      <3> QED
        BY <3>1, <3>2, <3>3 DEF Fresh, FreshOk
    <2>6. Answers'
      <3>1. \A d \in Clients : StreamOk(d)'
        <4> TAKE d \in Clients
        <4>1. StreamOk(d)
          BY FreshAt
        <4> QED
          BY <1>1, <2>1, <4>1 DEF StreamOk, Streaming, Begun, Told, Ending, HandlerIs
      <3> QED
        BY <3>1 DEF IInv, Answers, StreamOk
    <2>7. AnswerComplete'
      BY <2>1 DEF IInv, AnswerComplete, HandlerIs
    <2> QED
      BY <2>3, <2>4, <2>5, <2>6, <2>7 DEF IInv
  <1> QED
    BY <1>3, <1>4

\* Action Read preserves the invariant.
LEMMA ReadKeeps ==
  ASSUME IInv, NEW c \in Clients, Read(c)
  PROVE  IInv'
  <1> USE DEF Read
  <1>1. /\ Types /\ handler[c].pc = "reading" /\ ready[c] = "ok"
        /\ handler[c].got \in Seq(Answer) /\ chan[c] \in Seq(Event)
        /\ ~ handler[c].stream => handler[c].got = <<>>
        /\ handler[c].stream \in BOOLEAN
    BY FreshAt, HandlerTypes DEF IInv, FreshOk
  <1>2. ~ \E i \in DOMAIN queue : queue[i] = c
    BY <1>1, NotQueued
  <1> DEFINE g == handler[c].got
             s == chan[c]
  <1>3. CASE chan[c] # <<>> /\ chan' = [chan EXCEPT ![c] = Tail(@)] /\ handler[c].stream
    <2>1. /\ Head(s) \in Event /\ Head(s) = s[1] /\ Tail(s) \in Seq(Event)
          /\ Len(s) \in Nat /\ Len(s) > 0 /\ DOMAIN s = 1..Len(s)
          /\ Len(Tail(s)) = Len(s) - 1 /\ DOMAIN Tail(s) = 1..(Len(s) - 1)
          /\ \A i \in DOMAIN Tail(s) : Tail(s)[i] = s[i + 1]
      BY <1>1, <1>3, RangeOfTail
    <2>2. /\ Append(g, Head(s)) \in Seq(Answer) /\ Len(Append(g, Head(s))) = Len(g) + 1
          /\ \A i \in DOMAIN g : Append(g, Head(s))[i] = g[i]
          /\ Append(g, Head(s))[Len(g) + 1] = Head(s)
          /\ DOMAIN Append(g, Head(s)) = 1..(Len(g) + 1)
          /\ DOMAIN g = 1..Len(g) /\ Len(g) \in Nat
      <3>1. Head(s) \in Answer /\ g \in Seq(Answer)
        BY <1>1, <2>1 DEF Answer
      <3> HIDE DEF g, s
      <3>2. DOMAIN g = 1..Len(g) /\ Len(g) \in Nat
        BY <3>1
      <3> QED
        BY <3>1, <3>2, RangeOfAppend
    <2> DEFINE h == [handler[c] EXCEPT !.got = Append(@, Head(s))]
    <2>3. /\ h \in HandlerState /\ h.pc = "reading" /\ h.stream = handler[c].stream
          /\ h.got = Append(g, Head(s))
      BY <1>1, <2>2, HandlerTypes DEF HandlerState
    <2>4. handler' = [handler EXCEPT ![c] = h]
      BY <1>1, <1>3 DEF Types
    <2>5. HandlerIs(c, "reading", handler[c].stream, Append(g, Head(s)))
      BY <1>1, <2>3, <2>4, HandlerBecomes
    <2>6. OnlyHandler(c) /\ chan'[c] = Tail(s)
      BY <1>1, <1>3, <2>1, <2>5 DEF OnlyHandler, HandlerIs, Types
    <2>7. FreshOk(c)'
      BY <1>1, <1>3, <2>5, <2>6 DEF FreshOk, OnlyHandler, HandlerIs
    <2>8. Begun(c) => Begun(c)'
      <3> SUFFICES ASSUME Begun(c) PROVE Begun(c)'
        OBVIOUS
      <3>1. \A i \in DOMAIN s : s[i] = "delta"
        BY DEF Begun, Deltas
      <3>2. \A i \in DOMAIN g : g[i] = "delta"
        BY DEF Begun, Deltas
      <3>3. \A i \in DOMAIN Tail(s) : Tail(s)[i] = "delta"
        BY <2>1, <3>1
      <3>4. \A i \in DOMAIN Append(g, Head(s)) : Append(g, Head(s))[i] = "delta"
        <4> TAKE i \in DOMAIN Append(g, Head(s))
        <4>1. CASE i \in DOMAIN g
          BY <2>2, <3>2, <4>1
        <4>2. CASE i \notin DOMAIN g
          <5>1. i = Len(g) + 1
            BY <2>2, <4>2
          <5>2. s[1] = "delta"
            BY <2>1, <3>1
          <5> QED
            BY <2>1, <2>2, <5>1, <5>2
        <4> QED
          BY <4>1, <4>2
      <3> QED
        BY <2>5, <2>6, <3>3, <3>4 DEF Begun, Deltas, HandlerIs
    <2>9. Told(c) => Told(c)'
      <3> SUFFICES ASSUME Told(c) PROVE Told(c)'
        OBVIOUS
      <3>1. Deltas(g) /\ Whole(s)
        BY <1>3 DEF Told
      <3>2. CASE Len(s) = 1
        <4>1. Whole(Append(g, Head(s)))
          BY <2>1, <2>2, <3>1, <3>2 DEF Whole, Deltas
        <4>2. Tail(s) = <<>>
          BY <2>1, <3>2
        <4> QED
          BY <2>5, <2>6, <4>1, <4>2 DEF Told, HandlerIs
      <3>3. CASE Len(s) # 1
        <4>1. Whole(Tail(s))
          <5>1. Len(Tail(s)) > 0 /\ Tail(s)[Len(Tail(s))] = s[Len(s)]
            BY <2>1, <3>3
          <5>2. \A i \in 1..(Len(Tail(s)) - 1) : Tail(s)[i] = "delta"
            <6> TAKE i \in 1..(Len(Tail(s)) - 1)
            <6>1. i \in DOMAIN Tail(s) /\ i + 1 \in 1..(Len(s) - 1)
              BY <2>1
            <6>2. s[i + 1] = "delta"
              BY <3>1, <6>1 DEF Whole
            <6> QED
              BY <2>1, <6>1, <6>2
          <5> QED
            BY <3>1, <5>1, <5>2 DEF Whole
        <4>2. Deltas(Append(g, Head(s)))
          <5>1. s[1] = "delta"
            <6>1. 1 \in 1..(Len(s) - 1)
              BY <2>1, <3>3
            <6> QED
              BY <3>1, <6>1 DEF Whole
          <5> SUFFICES ASSUME NEW i \in DOMAIN Append(g, Head(s))
                       PROVE  Append(g, Head(s))[i] = "delta"
            BY DEF Deltas
          <5>2. CASE i \in DOMAIN g
            BY <2>2, <3>1, <5>2 DEF Deltas
          <5>3. CASE i \notin DOMAIN g
            <6>1. i = Len(g) + 1
              BY <2>2, <5>3
            <6> QED
              BY <2>1, <2>2, <5>1, <6>1
          <5> QED
            BY <5>2, <5>3
        <4> QED
          BY <2>5, <2>6, <4>1, <4>2 DEF Told, HandlerIs
      <3> QED
        BY <3>2, <3>3
    <2>10. StreamOk(c)'
      <3>1. StreamOk(c) /\ Streaming(c)
        BY <1>1, <1>3, FreshAt DEF Streaming
      <3>2. Ending(c) => Ending(c)'
        BY <2>6 DEF OnlyHandler, Ending
      <3> QED
        BY <2>6, <2>8, <2>9, <3>1, <3>2 DEF StreamOk, OnlyHandler
    <2>11. handler'[c].pc # "closed"
      BY <2>5 DEF HandlerIs
    <2> QED
      BY <1>2, <2>6, <2>7, <2>10, <2>11, HandlerStep
  <1>4. CASE chan[c] # <<>> /\ chan' = [chan EXCEPT ![c] = Tail(@)] /\ ~ handler[c].stream
    <2>1. PICK status \in {200, 500} : End(c, <<status>>)
      <3>1. CASE Head(chan[c]) = "error"
        <4>1. End(c, <<500>>)
          BY <1>4, <3>1
        <4> QED
          BY <4>1
      <3>2. CASE Head(chan[c]) # "error"
        <4>1. End(c, <<200>>)
          BY <1>4, <3>2
        <4> QED
          BY <4>1
      <3> QED
        BY <3>1, <3>2
    <2>0. <<status>> \in Seq(Answer) /\ handler[c].got = <<>>
      BY <1>1, <1>4 DEF Answer
    <2>2. HandlerIs(c, "closed", handler[c].stream, handler[c].got \o <<status>>)
      BY <1>1, <2>0, <2>1, Closes
    <2>3. handler[c].got \o <<status>> = <<status>>
      BY <2>0, ConcatEmptySeq
    <2>4. Tail(s) \in Seq(Event)
      BY <1>1, <1>4, RangeOfTail
    <2>a. chan' \in [Clients -> Seq(Event)] /\ \A d \in Clients \ {c} : chan'[d] = chan[d]
      BY <1>1, <1>4, <2>4 DEF Types
    <2>5. OnlyHandler(c)
      BY <2>2, <2>a DEF OnlyHandler, HandlerIs
    <2>6. FreshOk(c)' /\ StreamOk(c)'
      BY <1>1, <2>2, <2>5 DEF FreshOk, StreamOk, Streaming, OnlyHandler, HandlerIs
    <2>7. IsAnswer(handler'[c].got)
      BY <2>1, <2>2, <2>3 DEF IsAnswer, HandlerIs
    <2> QED
      BY <1>2, <2>5, <2>6, <2>7, HandlerStep
  <1>5. CASE /\ chan[c] = <<>> /\ ~ Owned(c) /\ UNCHANGED chan
             /\ End(c, IF handler[c].stream THEN <<"[DONE]">> ELSE <<500>>)
    <2> DEFINE a == IF handler[c].stream THEN <<"[DONE]">> ELSE <<500>>
    <2>1. a \in Seq(Answer)
      <3>1. <<"[DONE]">> \in Seq(Answer) /\ <<500>> \in Seq(Answer)
        BY DEF Answer
      <3> QED
        BY <3>1
    <2>2. HandlerIs(c, "closed", handler[c].stream, handler[c].got \o a)
      BY <1>1, <1>5, <2>1, Closes
    <2>3. OnlyHandler(c)
      BY <1>5, <2>2, HandlerOnly
    <2>4. FreshOk(c)' /\ StreamOk(c)'
      BY <1>1, <2>2, <2>3 DEF FreshOk, StreamOk, Streaming, OnlyHandler, HandlerIs
    <2>5. ASSUME ~ silent PROVE IsAnswer(handler[c].got \o a)
      <3>1. CASE ~ handler[c].stream
        <4>1. handler[c].got \o a = <<500>>
          BY <1>1, <2>1, <3>1, ConcatEmptySeq
        <4>2. Len(<<500>>) = 1 /\ <<500>>[1] = 500
          OBVIOUS
        <4> HIDE DEF a, Read
        <4> QED
          BY <4>1, <4>2 DEF IsAnswer
      <3>2. CASE handler[c].stream
        <4>1. c \notin active /\ \A i \in DOMAIN outbox : outbox[i][1] # c
          BY <1>5 DEF Owned
        <4>2. Told(c)
          BY <1>1, <2>5, <3>2, <4>1, FreshAt DEF StreamOk, Streaming, Ending
        <4>3. ~ Whole(<<>>)
          BY DEF Whole
        <4>4. Whole(g)
          BY <1>5, <4>2, <4>3 DEF Told
        <4>5. /\ g \o a \in Seq(Answer) /\ Len(g \o a) = Len(g) + 1 /\ Len(g) \in Nat
              /\ \A i \in 1..Len(g) : (g \o a)[i] = g[i]
              /\ (g \o a)[Len(g) + 1] = "[DONE]"
          BY <1>1, <2>1, <3>2
        <4> QED
          BY <4>4, <4>5 DEF IsAnswer, Whole, Last
      <3> QED
        BY <1>1, <3>1, <3>2
    <2>6. handler'[c].pc = "closed" /\ ~ silent => IsAnswer(handler'[c].got)
      BY <2>2, <2>5 DEF HandlerIs
    <2> QED
      BY <1>2, <2>3, <2>4, <2>6, HandlerStep
  <1> QED
    BY <1>1, <1>3, <1>4, <1>5

\* Action Shutdown preserves the invariant.
LEMMA ShutdownKeeps ==
  ASSUME IInv, Shutdown
  PROVE  IInv'
  <1> USE DEF Shutdown, evars
  <1>1. Types' /\ Loop' /\ Engine'
    BY DEF IInv, Types, Loop, Engine
  <1>2. Fresh' /\ AnswerComplete'
    BY DEF IInv, Fresh, AnswerComplete
  <1>3. Answers'
    BY DEF IInv, Answers, Streaming, Begun, Told, Ending
  <1> QED
    BY <1>1, <1>2, <1>3 DEF IInv

\* Action RemoteAnswers preserves the invariant.
LEMMA RemoteAnswersKeeps ==
  ASSUME IInv, NEW c \in Clients, RemoteAnswers(c)
  PROVE  IInv'
  <1> USE DEF RemoteAnswers, hvars
  <1>1. PICK st \in {"pending", "refused"} : exec' = [exec EXCEPT ![c].st = st]
    OBVIOUS
  <1>2. /\ DOMAIN exec' = DOMAIN exec /\ exec' \in [DOMAIN exec -> Request]
        /\ \A d \in DOMAIN exec : exec'[d].left = exec[d].left
    BY <1>1 DEF IInv, Types, Request
  <1>3. Types'
    BY <1>2 DEF IInv, Types
  <1>4. Loop' /\ Engine'
    BY <1>2 DEF IInv, Loop, Engine
  <1>5. Fresh' /\ AnswerComplete'
    BY <1>2 DEF IInv, Fresh, AnswerComplete
  <1>6. Answers'
    BY DEF IInv, Answers, Streaming, Begun, Told, Ending
  <1> QED
    BY <1>3, <1>4, <1>5, <1>6 DEF IInv

-----------------------------------------------------------------------------
(* The worker                                                              *)

\* The executor without the requests of a set.
LEMMA WithoutIs ==
  ASSUME Types, NEW S
  PROVE  /\ DOMAIN Without(exec, S) = DOMAIN exec \ S
         /\ \A d \in DOMAIN exec \ S : Without(exec, S)[d] = exec[d]
         /\ Without(exec, S) \in [DOMAIN exec \ S -> Request]
  BY DEF Types, Without

\* The clients whose job the worker accepted.  Nothing in the worker is about
\* another client.
Known == {c \in Clients : ready[c] = "ok"}

\* Whatever the worker holds belongs to accepted jobs.
LEMMA AllKnown ==
  ASSUME IInv
  PROVE  /\ active \subseteq Known /\ DOMAIN exec \subseteq Known
         /\ Range(finished) \subseteq Known /\ Range(failed) \subseteq Known
         /\ \A i \in DOMAIN outbox : outbox[i] \in Known \X Event
  <1>1. active \subseteq Clients /\ DOMAIN exec \subseteq Clients
    BY DEF IInv, Types
  <1>2. Range(finished) \subseteq Clients /\ Range(failed) \subseteq Clients
    BY DEF IInv, Types, Range
  <1>3. \A i \in DOMAIN outbox : outbox[i] \in Clients \X Event
    BY DEF IInv, Types
  <1>4. \A c \in Clients : FreshOk(c)
    BY FreshAt
  <1>5. /\ active \subseteq Known /\ DOMAIN exec \subseteq Known
        /\ Range(finished) \subseteq Known /\ Range(failed) \subseteq Known
    BY <1>1, <1>2, <1>4 DEF Known, FreshOk
  <1>6. \A i \in DOMAIN outbox : outbox[i][1] \in Known
    BY <1>3, <1>4 DEF Known, FreshOk
  <1> QED
    BY <1>3, <1>5, <1>6

\* A step of the worker that takes nothing from the jobs channel.
Quiet == UNCHANGED <<mode, handler, ready, chan, queue, open>>

\* A quiet step leaves clients whose jobs nobody accepted alone.
LEMMA FreshKept ==
  ASSUME IInv, Quiet,
         active' \subseteq Known, DOMAIN exec' \subseteq Known,
         Range(finished') \subseteq Known, Range(failed') \subseteq Known,
         \A i \in DOMAIN outbox' : outbox'[i][1] \in Known
  PROVE  Fresh'
  <1>1. \A c \in Clients : FreshOk(c)'
    <2> TAKE c \in Clients
    <2>1. FreshOk(c)
      BY FreshAt
    <2>2. ready[c] # "ok" => c \notin Known
      BY DEF Known
    <2> QED
      BY <2>1, <2>2 DEF FreshOk, Quiet
  <1>2. /\ \A i, j \in DOMAIN queue' : queue'[i] = queue'[j] => i = j
        /\ \A i \in DOMAIN queue' :
             ready'[queue'[i]] = "none" /\ handler'[queue'[i]].pc \in {"ready", "gone"}
    BY DEF IInv, Fresh, Quiet
  <1> QED
    BY <1>1, <1>2 DEF Fresh, FreshOk

\* Complete answers stay complete while no handler moves.
LEMMA AnswerCompleteKept ==
  ASSUME IInv, UNCHANGED handler, silent => silent'
  PROVE  AnswerComplete'
  BY DEF IInv, AnswerComplete

\* A step that sends nothing and gives up only jobs whose client left.
LEMMA AnswersKept ==
  ASSUME IInv, UNCHANGED <<handler, ready, chan, outbox, silent>>,
         worker # "failing", worker' # "failing",
         active' \subseteq active, \A c \in active \ active' : ~ Listening(c)
  PROVE  Answers'
  <1>1. \A c \in Clients : StreamOk(c)'
    <2> TAKE c \in Clients
    <2>1. StreamOk(c)
      BY FreshAt
    <2>2. Streaming(c) => Listening(c)
      BY DEF Streaming, Listening
    <2> QED
      BY <2>1, <2>2 DEF StreamOk, Streaming, Begun, Told, Ending
  <1>2. /\ \A i, j \in DOMAIN outbox' :
             i < j /\ outbox'[i][1] = outbox'[j][1] => outbox'[i][2] = "delta"
        /\ \A i \in DOMAIN outbox' : outbox'[i][1] \in active' => outbox'[i][2] = "delta"
    BY DEF IInv, Answers
  <1> QED
    BY <1>1, <1>2 DEF Answers, StreamOk

\* A step that puts events of the active job c in the empty outbox: deltas while
\* it stays active, a last event when it does not and its client listens.
LEMMA AnswersSent ==
  ASSUME IInv, UNCHANGED <<handler, ready, chan, silent>>, outbox = <<>>,
         worker # "failing", worker' # "failing",
         NEW c \in active, active' = active \/ active' = active \ {c},
         \A i \in DOMAIN outbox' : outbox'[i][1] = c,
         \A i, j \in DOMAIN outbox' : i < j => outbox'[i][2] = "delta",
         c \in active' => \A i \in DOMAIN outbox' : outbox'[i][2] = "delta",
         c \notin active' /\ Listening(c) => \E i \in DOMAIN outbox' : outbox'[i][2] # "delta"
  PROVE  Answers'
  <1>0. DOMAIN outbox = {}
    OBVIOUS
  <1>1. \A d \in Clients : StreamOk(d)'
    <2> TAKE d \in Clients
    <2>1. StreamOk(d)
      BY FreshAt
    <2>2. Streaming(d) => Listening(d)
      BY DEF Streaming, Listening
    <2>3. Streaming(d) /\ ~ silent => (Begun(d) /\ d \in active) \/ (Told(d) /\ d \notin active)
      BY <1>0, <2>1 DEF StreamOk, Ending
    <2>4. /\ Streaming(d)' <=> Streaming(d)
          /\ Begun(d)' <=> Begun(d)
          /\ Told(d)' <=> Told(d)
      BY DEF Streaming, Begun, Told
    <2>5. CASE d = c
      <3>1. c \notin active' /\ Listening(c) => Ending(c)'
        BY DEF Ending
      <3> QED
        BY <2>2, <2>3, <2>4, <2>5, <3>1 DEF StreamOk
    <2>6. CASE d # c
      BY <2>3, <2>4, <2>6 DEF StreamOk
    <2> QED
      BY <2>5, <2>6
  <1>2. /\ \A i, j \in DOMAIN outbox' :
             i < j /\ outbox'[i][1] = outbox'[j][1] => outbox'[i][2] = "delta"
        /\ \A i \in DOMAIN outbox' : outbox'[i][1] \in active' => outbox'[i][2] = "delta"
    OBVIOUS
  <1> QED
    BY <1>1, <1>2 DEF Answers, StreamOk

\* The worker returns with nothing in its outbox: every client it still owns has
\* been told (it failed), or it owns none, or it ends in a failed cancel.
LEMMA EndsKeeps ==
  ASSUME IInv, NEW quiet \in BOOLEAN, Ends(quiet),
         UNCHANGED <<mode, handler, chan, open, evars>>, faults' \in Nat,
         worker # "ended", outbox = <<>>,
         quiet \/ worker = "failing" \/ active = {}
  PROVE  IInv'
  <1> USE DEF Ends, evars
  <1>1. /\ ready' \in [Clients -> {"none", "ok", "bad", "dropped"}]
        /\ \A c \in Clients : ready'[c] = ready[c] \/ (ready'[c] = "dropped" /\ ready[c] = "none"
                                                    /\ handler[c].pc \in {"ready", "gone"})
    <2>1. \A i \in 1..Len(queue) : i \in DOMAIN queue
      BY DEF IInv, Types
    <2>2. ASSUME NEW c \in Clients
          PROVE  Contains(queue, c) => ready[c] = "none" /\ handler[c].pc \in {"ready", "gone"}
      BY <2>1 DEF Contains, IInv, Fresh
    <2>3. ready' \in [Clients -> {"none", "ok", "bad", "dropped"}]
      BY DEF IInv, Types
    <2> QED
      BY <2>2, <2>3
  <1>2. Types'
    <2>1. queue' \in Seq(Clients) /\ outbox' \in Seq(Clients \X Event)
      OBVIOUS
    <2> QED
      BY <1>1, <2>1 DEF IInv, Types, Place
  <1>3. Loop' /\ Engine'
    BY DEF IInv, Loop, Engine
  <1>4. Fresh'
    <2>1. \A c \in Clients : FreshOk(c)'
      <3> TAKE c \in Clients
      <3>1. FreshOk(c)
        BY FreshAt
      <3>2. outbox' = <<>> /\ DOMAIN outbox' = {} /\ active' = {}
        OBVIOUS
      <3> QED
        BY <1>1, <3>1, <3>2 DEF FreshOk
    <2>2. DOMAIN queue' = {}
      OBVIOUS
    <2> QED
      BY <2>1, <2>2 DEF Fresh, FreshOk
  <1>5. Answers'
    <2>0. DOMAIN outbox' = {} /\ DOMAIN outbox = {}
      OBVIOUS
    <2>1. \A c \in Clients : StreamOk(c)'
      <3> TAKE c \in Clients
      <3>1. StreamOk(c)
        BY FreshAt
      <3>2. ready'[c] = "ok" => ready[c] = "ok"
        BY <1>1
      <3>3. Streaming(c)' => Streaming(c)
        BY <3>2 DEF Streaming
      <3>4. ~ Ending(c)
        BY <2>0 DEF Ending
      <3>5. ~ silent
        BY DEF IInv, Loop
      <3> QED
        BY <2>0, <3>1, <3>3, <3>4, <3>5 DEF StreamOk, Begun, Told
    <2> QED
      BY <2>0, <2>1 DEF Answers, StreamOk
  <1>6. AnswerComplete'
    <2>1. ~ silent
      BY DEF IInv, Loop
    <2> QED
      BY <2>1, AnswerCompleteKept
  <1> QED
    BY <1>2, <1>3, <1>4, <1>5, <1>6 DEF IInv

\* Action Start preserves the invariant.
LEMMA StartKeeps ==
  ASSUME IInv, Start
  PROVE  IInv'
  <1> USE DEF Start
  <1>0. worker = "starting" /\ outbox = <<>> /\ active = {} /\ faults' \in Nat
    BY DEF IInv, Loop, Types
  <1>1. CASE worker' = "idle" /\ UNCHANGED <<active, queue, outbox, ready, silent>>
    <2> USE <1>1 DEF evars
    <2>1. Types' /\ Loop' /\ Engine'
      BY <1>0 DEF IInv, Types, Loop, Engine, Place
    <2>2. Fresh'
      BY FreshKept, AllKnown DEF Quiet
    <2>3. Answers' /\ AnswerComplete'
      BY <1>0, AnswersKept, AnswerCompleteKept
    <2> QED
      BY <2>1, <2>2, <2>3 DEF IInv
  <1>2. CASE Ends(FALSE)
    BY <1>0, <1>2, EndsKeeps
  <1> QED
    BY <1>1, <1>2

\* Action Closed preserves the invariant.
LEMMA ClosedKeeps ==
  ASSUME IInv, Closed
  PROVE  IInv'
  <1>1. worker = "idle" /\ outbox = <<>> /\ active = {} /\ faults' \in Nat
    BY DEF IInv, Loop, Types, Closed
  <1> QED
    BY <1>1, EndsKeeps DEF Closed

\* Action Fail preserves the invariant.
LEMMA FailKeeps ==
  ASSUME IInv, Fail
  PROVE  IInv'
  <1>1. worker = "failing" /\ outbox = <<>> /\ faults' \in Nat
    BY DEF IInv, Types, Fail
  <1> QED
    BY <1>1, EndsKeeps DEF Fail

\* Action CancelFails preserves the invariant.
LEMMA CancelFailsKeeps ==
  ASSUME IInv, CancelFails
  PROVE  IInv'
  <1>1. worker # "ended" /\ outbox = <<>> /\ faults' \in Nat
    BY DEF IInv, Types, CancelFails
  <1> QED
    BY <1>1, EndsKeeps DEF CancelFails

\* Action DropDisconnected preserves the invariant.
LEMMA DropDisconnectedKeeps ==
  ASSUME IInv, DropDisconnected
  PROVE  IInv'
  <1> USE DEF DropDisconnected, hvars, Cancelled
  <1> DEFINE gone == {c \in active : ~ Listening(c)}
  <1>1. /\ active' = active \ gone /\ exec' = Without(exec, gone)
        /\ DOMAIN exec' = DOMAIN exec \ gone
        /\ \A d \in DOMAIN exec \ gone : exec'[d] = exec[d]
        /\ exec' \in [DOMAIN exec' -> Request]
    BY WithoutIs DEF IInv
  <1>2. Types'
    BY <1>1 DEF IInv, Types, Place
  <1>3. Loop'
    BY <1>1 DEF IInv, Loop
  <1>4. Engine'
    <2>1. failed = <<>> /\ Range(failed) = {}
      BY DEF IInv, Loop, Range
    <2> QED
      BY <1>1, <2>1 DEF IInv, Engine
  <1>5. Fresh'
    BY <1>1, FreshKept, AllKnown DEF Quiet
  <1>6. Answers' /\ AnswerComplete'
    BY <1>1, AnswersKept, AnswerCompleteKept
  <1> QED
    BY <1>2, <1>3, <1>4, <1>5, <1>6 DEF IInv

\* Action Poll preserves the invariant.
LEMMA PollKeeps ==
  ASSUME IInv, Poll
  PROVE  IInv'
  <1> USE DEF Poll, hvars
  <1>1. /\ DOMAIN exec' = DOMAIN exec \ Refused
        /\ \A d \in DOMAIN exec \ Refused : exec'[d] = exec[d]
        /\ exec' \in [DOMAIN exec' -> Request]
    BY WithoutIs DEF IInv
  <1>2. Refused \subseteq DOMAIN exec /\ DOMAIN exec \subseteq Clients
    BY DEF Refused, IInv, Types
  <1>3. SetToSeq(Refused) \in Seq(Refused) /\ Range(SetToSeq(Refused)) = Refused
    <2>1. IsFiniteSet(Refused)
      BY <1>2, HttpAssumption, FS_Subset
    <2> QED
      BY <2>1, SetListed
  <1>4. SetToSeq(Refused) \in Seq(Clients) /\ failed \in Seq(Clients)
    BY <1>2, <1>3 DEF IInv, Types
  <1>5. failed' \in Seq(Clients) /\ Range(failed') = Range(failed) \cup Refused
    BY <1>3, <1>4, RangeOfConcat
  <1>6. Types'
    BY <1>1, <1>2, <1>5 DEF IInv, Types
  <1>7. Loop'
    BY <1>1 DEF IInv, Loop
  <1>8. Engine'
    BY <1>1, <1>2, <1>5 DEF IInv, Engine
  <1>9. Fresh'
    BY <1>1, <1>2, <1>5, FreshKept, AllKnown DEF Quiet
  <1>10. Answers' /\ AnswerComplete'
    BY AnswersKept, AnswerCompleteKept
  <1> QED
    BY <1>6, <1>7, <1>8, <1>9, <1>10 DEF IInv

\* Action StepNone preserves the invariant.
LEMMA StepNoneKeeps ==
  ASSUME IInv, StepNone
  PROVE  IInv'
  <1> USE DEF StepNone, hvars
  <1>0. faults' \in Nat /\ faults' \in {faults, faults + 1}
    BY DEF IInv, Types
  <1>1. Types'
    BY <1>0 DEF IInv, Types, Place
  <1>2. Loop' /\ Engine'
    BY DEF IInv, Loop, Engine
  <1>3. Fresh'
    BY FreshKept, AllKnown DEF Quiet
  <1>4. Answers' /\ AnswerComplete'
    BY AnswersKept, AnswerCompleteKept
  <1> QED
    BY <1>1, <1>2, <1>3, <1>4 DEF IInv

\* Action Step preserves the invariant.
LEMMA StepKeeps ==
  ASSUME IInv, NEW B, Step(B)
  PROVE  IInv'
  <1> USE DEF hvars
  <1>1. PICK t \in [B -> Tokens] :
          LET over == {c \in B : exec[c].left = 1 \/ t[c] = "eos"}
              rows == SetToSeq(B)
          IN /\ exec' = [c \in DOMAIN exec \ over |->
                          IF c \in B THEN [st |-> "running", left |-> exec[c].left - 1] ELSE exec[c]]
             /\ finished' = finished \o SetToSeq(over)
             /\ report' = [i \in 1..Len(rows) |-> <<rows[i], t[rows[i]]>>]
    BY DEF Step
  <1> DEFINE over == {c \in B : exec[c].left = 1 \/ t[c] = "eos"}
             rows == SetToSeq(B)
  <1>2. /\ worker = "step" /\ worker' = "report" /\ stepped' = TRUE
        /\ UNCHANGED <<mode, hvars, active, failed, outbox, faults, silent>>
        /\ B \subseteq DOMAIN exec
    BY DEF Step
  <1>3. over \subseteq B /\ B \subseteq Clients /\ IsFiniteSet(B) /\ IsFiniteSet(over)
    <2>1. over \subseteq B /\ B \subseteq Clients
      BY <1>2 DEF IInv, Types
    <2> QED
      BY <2>1, HttpAssumption, FS_Subset
  <1>4. report' \in Seq(Clients \X Tokens)
    <2>1. rows \in Seq(B)
      BY <1>3, SetListed
    <2>2. Len(rows) \in Nat /\ \A i \in 1..Len(rows) : rows[i] \in B
      BY <2>1
    <2>3. report' = [i \in 1..Len(rows) |-> <<rows[i], t[rows[i]]>>]
      BY <1>1
    <2> HIDE DEF rows
    <2>4. \A i \in 1..Len(rows) : <<rows[i], t[rows[i]]>> \in Clients \X Tokens
      BY <1>3, <2>2
    <2> QED
      BY <2>2, <2>3, <2>4
  <1>5. /\ exec' = [c \in DOMAIN exec \ over |->
                      IF c \in B THEN [st |-> "running", left |-> exec[c].left - 1] ELSE exec[c]]
        /\ finished' = finished \o SetToSeq(over)
    BY <1>1
  <1>6. \A c \in DOMAIN exec \ over : c \in B => exec[c].left # 1
    OBVIOUS
  <1> HIDE DEF over
  <1>7. finished' \in Seq(Clients) /\ Range(finished') = Range(finished) \cup over
    <2>1. SetToSeq(over) \in Seq(over) /\ Range(SetToSeq(over)) = over
      BY <1>3, SetListed
    <2>2. SetToSeq(over) \in Seq(Clients) /\ finished \in Seq(Clients)
      BY <1>3, <2>1 DEF IInv, Types
    <2> QED
      BY <1>5, <2>1, <2>2, RangeOfConcat
  <1>8. /\ DOMAIN exec' = DOMAIN exec \ over
        /\ \A c \in DOMAIN exec' : exec'[c] \in Request /\ exec'[c].left > 0
    <2>1. DOMAIN exec' = DOMAIN exec \ over
      BY <1>5
    <2>2. mode = "batch" /\ \A c \in DOMAIN exec : exec[c] \in Request /\ exec[c].left > 0
      BY <1>2 DEF IInv, Loop, Types
    <2>3. ASSUME NEW c \in DOMAIN exec \ over
          PROVE  exec'[c] \in Request /\ exec'[c].left > 0
      <3>1. exec[c] \in Request /\ exec[c].left \in Nat /\ exec[c].left > 0
        BY <2>2 DEF Request
      <3>2. CASE c \in B
        <4>1. exec'[c] = [st |-> "running", left |-> exec[c].left - 1]
          BY <1>5, <3>2
        <4> QED
          BY <1>6, <3>1, <3>2, <4>1 DEF Request
      <3>3. CASE c \notin B
        BY <1>5, <3>1, <3>3
      <3> QED
        BY <3>2, <3>3
    <2> QED
      BY <2>1, <2>3
  <1>9. exec' \in [DOMAIN exec' -> Request]
    BY <1>5, <1>8
  <1>10. Types'
    BY <1>2, <1>3, <1>4, <1>7, <1>8, <1>9 DEF IInv, Types, Place
  <1>11. Loop'
    BY <1>2, <1>8 DEF IInv, Loop
  <1>12. Engine'
    BY <1>2, <1>3, <1>7, <1>8 DEF IInv, Engine
  <1>13. Fresh'
    BY <1>2, <1>3, <1>7, <1>8, FreshKept, AllKnown DEF Quiet
  <1>14. Answers' /\ AnswerComplete'
    BY <1>2, AnswersKept, AnswerCompleteKept
  <1> QED
    BY <1>10, <1>11, <1>12, <1>13, <1>14 DEF IInv

\* The worker begins to tell every active job that it failed.
LEMMA TellAllKeeps ==
  ASSUME IInv, TellAll, outbox = <<>>, worker \in {"step", "report"}, worker' = "failing",
         UNCHANGED <<mode, hvars, active, evars, silent>>, faults' \in Nat
  PROVE  IInv'
  <1> USE DEF hvars, evars
  <1> DEFINE n == Cardinality(active)
             jobs == SetToSeq(active)
  <1>0. active \subseteq Clients /\ IsFiniteSet(active)
    <2>1. active \subseteq Clients
      BY DEF IInv, Types
    <2> QED
      BY <2>1, HttpAssumption, FS_Subset
  <1>1. /\ n \in Nat /\ jobs \in [1..n -> active] /\ Range(jobs) = active
        /\ \A i, j \in 1..n : jobs[i] = jobs[j] => i = j
    BY <1>0, SetListed
  <1>2. outbox' = [i \in 1..n |-> <<jobs[i], "error">>]
    BY DEF TellAll
  <1> HIDE DEF n, jobs
  <1>3. \A i \in 1..n : jobs[i] \in active /\ jobs[i] \in Clients
    BY <1>0, <1>1
  <1>4. /\ DOMAIN outbox' = 1..n
        /\ \A i \in 1..n : outbox'[i] = <<jobs[i], "error">> /\ outbox'[i][1] = jobs[i] /\ outbox'[i][2] = "error"
    BY <1>2
  <1>5. outbox' \in Seq(Clients \X Event)
    <2>1. \A i \in 1..n : <<jobs[i], "error">> \in Clients \X Event
      BY <1>3 DEF Event
    <2> QED
      BY <1>1, <1>2, <2>1
  <1>6. \A c \in active : \E i \in DOMAIN outbox' : outbox'[i][1] = c /\ outbox'[i][2] # "delta"
    <2> TAKE c \in active
    <2>1. PICK i \in 1..n : jobs[i] = c
      BY <1>1 DEF Range
    <2> QED
      BY <1>4, <2>1
  <1>7. Types'
    BY <1>5 DEF IInv, Types, Place
  <1>8. Loop' /\ Engine'
    BY DEF IInv, Loop, Engine
  <1>9. Fresh'
    BY <1>3, <1>4, FreshKept, AllKnown DEF Quiet
  <1>10. Answers'
    <2>1. \A c \in Clients : StreamOk(c)'
      <3> TAKE c \in Clients
      <3>1. StreamOk(c) /\ ~ Ending(c)
        BY FreshAt DEF Ending
      <3>2. /\ Streaming(c)' <=> Streaming(c)
            /\ Begun(c)' <=> Begun(c)
            /\ Told(c)' <=> Told(c)
        BY DEF Streaming, Begun, Told
      <3>3. CASE c \in active
        <4>1. Ending(c)'
          BY <1>6, <3>3 DEF Ending
        <4> QED
          BY <3>1, <3>2, <3>3, <4>1 DEF StreamOk
      <3>4. CASE c \notin active
        <4>1. \A i \in DOMAIN outbox' : outbox'[i][1] # c
          BY <1>3, <1>4, <3>4
        <4> QED
          BY <3>1, <3>2, <3>4, <4>1 DEF StreamOk
      <3> QED
        BY <3>3, <3>4
    <2>2. \A i, j \in DOMAIN outbox' :
            i < j /\ outbox'[i][1] = outbox'[j][1] => outbox'[i][2] = "delta"
      <3> TAKE i, j \in DOMAIN outbox'
      <3>1. outbox'[i][1] = outbox'[j][1] => i = j
        BY <1>1, <1>4
      <3>2. i \in Nat /\ j \in Nat
        BY <1>1, <1>4
      <3> QED
        BY <3>1, <3>2
    <2> QED
      BY <2>1, <2>2 DEF Answers, StreamOk
  <1>11. AnswerComplete'
    BY AnswerCompleteKept
  <1> QED
    BY <1>7, <1>8, <1>9, <1>10, <1>11 DEF IInv

\* Action StepFails preserves the invariant.
LEMMA StepFailsKeeps ==
  ASSUME IInv, StepFails
  PROVE  IInv'
  <1>1. outbox = <<>> /\ faults' \in Nat
    BY DEF IInv, Types, Loop, StepFails
  <1> QED
    BY <1>1, TellAllKeeps DEF StepFails

\* Action LoopEnds preserves the invariant.
LEMMA LoopEndsKeeps ==
  ASSUME IInv, LoopEnds
  PROVE  IInv'
  <1> USE DEF LoopEnds
  <1>1. CASE TellAll /\ worker' = "failing"
    <2>1. faults' \in Nat
      BY DEF IInv, Types
    <2> QED
      BY <1>1, <2>1, TellAllKeeps
  <1>2. CASE worker' = Resume /\ UNCHANGED outbox
    <2> USE <1>2 DEF Resume, hvars, evars
    <2>1. Types'
      BY DEF IInv, Types, Place
    <2>2. Range(finished) = {} /\ Range(failed) = {}
      BY DEF Range
    <2>3. Engine'
      BY DEF IInv, Engine
    <2>4. Loop'
      BY <2>2 DEF IInv, Loop, Engine
    <2>5. Fresh'
      BY FreshKept, AllKnown DEF Quiet
    <2>6. Answers' /\ AnswerComplete'
      BY AnswersKept, AnswerCompleteKept
    <2> QED
      BY <2>1, <2>3, <2>4, <2>5, <2>6 DEF IInv
  <1> QED
    BY <1>1, <1>2

\* The events of an end: deltas, then one last event.
LEMMA FinishEventsAre ==
  ASSUME NEW c \in Clients, NEW o, o \in FinishEvents(c) \/ o = <<<<c, "error">>>>
  PROVE  /\ o \in Seq(Clients \X Event)
         /\ \A i \in DOMAIN o : o[i][1] = c
         /\ \A i, j \in DOMAIN o : i < j => o[i][2] = "delta"
         /\ Listening(c) => \E i \in DOMAIN o : o[i][2] # "delta"
  <1>1. \A e \in Event : <<c, e>> \in Clients \X Event
    OBVIOUS
  <1>2. CASE o = <<>> /\ ~ Listening(c)
    BY <1>2
  <1>3. CASE \E e \in {"error", "finish"} : o = <<<<c, e>>>>
    <2>1. PICK e \in {"error", "finish"} : o = <<<<c, e>>>>
      BY <1>3
    <2>2. <<c, e>> \in Clients \X Event
      BY <1>1 DEF Event
    <2>3. DOMAIN o = 1..1 /\ o[1] = <<c, e>> /\ o[1][1] = c /\ o[1][2] = e
      BY <2>1
    <2>4. o \in Seq(Clients \X Event)
      BY <2>1, <2>2
    <2>5. \A i \in DOMAIN o : i = 1
      BY <2>3
    <2> QED
      BY <2>3, <2>4, <2>5
  <1>4. CASE o = <<<<c, "delta">>, <<c, "finish">>>>
    <2>1. DOMAIN o = 1..2 /\ o[1] = <<c, "delta">> /\ o[2] = <<c, "finish">>
      BY <1>4
    <2>2. o \in Seq(Clients \X Event)
      BY <1>1, <1>4 DEF Event
    <2>3. \A i \in DOMAIN o : i = 1 \/ i = 2
      BY <2>1
    <2> QED
      BY <2>1, <2>2, <2>3
  <1> QED
    BY <1>2, <1>3, <1>4 DEF FinishEvents

\* A token sends one delta or nothing.
LEMMA DeltaIs ==
  ASSUME NEW c \in Clients, NEW o, o = <<<<c, "delta">>>> \/ o = <<>>
  PROVE  /\ o \in Seq(Clients \X Event)
         /\ \A i \in DOMAIN o : o[i][1] = c /\ o[i][2] = "delta"
  <1>1. <<c, "delta">> \in Clients \X Event
    BY DEF Event
  <1>2. CASE o = <<<<c, "delta">>>>
    <2>1. DOMAIN o = 1..1 /\ o[1] = <<c, "delta">>
      BY <1>2
    <2> QED
      BY <1>1, <1>2, <2>1
  <1>3. CASE o = <<>>
    BY <1>3
  <1> QED
    BY <1>2, <1>3

\* The last events of a job that is given up.
LEMMA JobEnds ==
  ASSUME IInv, UNCHANGED <<handler, ready, chan, silent>>, outbox = <<>>,
         worker # "failing", worker' # "failing",
         NEW c \in active, active' = active \ {c},
         outbox' \in FinishEvents(c) \/ outbox' = <<<<c, "error">>>>
  PROVE  /\ Answers' /\ outbox' \in Seq(Clients \X Event)
         /\ \A i \in DOMAIN outbox' : outbox'[i][1] \in Known
  <1>1. c \in Clients /\ c \in Known
    BY AllKnown DEF IInv, Types
  <1>2. /\ outbox' \in Seq(Clients \X Event)
        /\ \A i \in DOMAIN outbox' : outbox'[i][1] = c
        /\ \A i, j \in DOMAIN outbox' : i < j => outbox'[i][2] = "delta"
        /\ Listening(c) => \E i \in DOMAIN outbox' : outbox'[i][2] # "delta"
    BY <1>1, FinishEventsAre
  <1>3. Answers'
    BY <1>2, AnswersSent
  <1> QED
    BY <1>1, <1>2, <1>3

\* Deltas of a job that goes on.
LEMMA JobGoesOn ==
  ASSUME IInv, UNCHANGED <<handler, ready, chan, silent, active>>, outbox = <<>>,
         worker # "failing", worker' # "failing",
         NEW c \in active, outbox' = <<<<c, "delta">>>> \/ outbox' = <<>>
  PROVE  /\ Answers' /\ outbox' \in Seq(Clients \X Event)
         /\ \A i \in DOMAIN outbox' : outbox'[i][1] \in Known
  <1>1. c \in Clients /\ c \in Known
    BY AllKnown DEF IInv, Types
  <1>2. /\ outbox' \in Seq(Clients \X Event)
        /\ \A i \in DOMAIN outbox' : outbox'[i][1] = c /\ outbox'[i][2] = "delta"
    BY <1>1, DeltaIs
  <1>3. Answers'
    BY <1>2, AnswersSent
  <1> QED
    BY <1>1, <1>2, <1>3

\* Action OnToken preserves the invariant.
LEMMA OnTokenKeeps ==
  ASSUME IInv, OnToken
  PROVE  IInv'
  <1> USE DEF hvars
  <1> DEFINE c == Head(report)[1]
             t == Head(report)[2]
  <1>1. /\ worker = "report" /\ outbox = <<>>
        /\ UNCHANGED <<mode, hvars, worker, finished, failed, stepped, faults, silent>>
        /\ report' \in Seq(Clients \X Tokens)
    BY DEF OnToken, IInv, Types
  <1>2. CASE UNCHANGED <<active, exec, outbox>>
    <2>1. Types'
      BY <1>1, <1>2 DEF IInv, Types
    <2>2. Loop' /\ Engine'
      BY <1>1, <1>2 DEF IInv, Loop, Engine
    <2>3. Fresh'
      BY <1>1, <1>2, FreshKept, AllKnown DEF Quiet
    <2>4. Answers' /\ AnswerComplete'
      BY <1>1, <1>2, AnswersKept, AnswerCompleteKept
    <2> QED
      BY <2>1, <2>2, <2>3, <2>4 DEF IInv
  <1>3. CASE c \in active /\ outbox' = <<<<c, "delta">>>> /\ UNCHANGED <<active, exec>>
    <2>1. /\ Answers' /\ outbox' \in Seq(Clients \X Event)
          /\ \A i \in DOMAIN outbox' : outbox'[i][1] \in Known
      BY <1>1, <1>3, JobGoesOn
    <2>2. Types'
      BY <1>1, <1>3, <2>1 DEF IInv, Types
    <2>3. Loop' /\ Engine'
      BY <1>1, <1>3 DEF IInv, Loop, Engine
    <2>4. Fresh'
      BY <1>1, <1>3, <2>1, FreshKept, AllKnown DEF Quiet
    <2>5. AnswerComplete'
      BY <1>1, AnswerCompleteKept
    <2> QED
      BY <2>1, <2>2, <2>3, <2>4, <2>5 DEF IInv
  <1>4. CASE /\ c \in active /\ active' = active \ {c} /\ exec' = Without(exec, {c})
             /\ outbox' \in FinishEvents(c) \/ outbox' = <<<<c, "error">>>>
    <2>1. /\ Answers' /\ outbox' \in Seq(Clients \X Event)
          /\ \A i \in DOMAIN outbox' : outbox'[i][1] \in Known
      BY <1>1, <1>4, JobEnds
    <2>2. /\ DOMAIN exec' = DOMAIN exec \ {c}
          /\ \A d \in DOMAIN exec \ {c} : exec'[d] = exec[d]
          /\ exec' \in [DOMAIN exec' -> Request]
      BY <1>4, WithoutIs DEF IInv
    <2>3. Types'
      BY <1>1, <1>4, <2>1, <2>2 DEF IInv, Types
    <2>4. Loop'
      BY <1>1, <1>4, <2>2 DEF IInv, Loop
    <2>5. Engine'
      BY <1>1, <1>4, <2>2 DEF IInv, Engine
    <2>6. Fresh'
      BY <1>1, <1>4, <2>1, <2>2, FreshKept, AllKnown DEF Quiet
    <2>7. AnswerComplete'
      BY <1>1, AnswerCompleteKept
    <2> QED
      BY <2>1, <2>3, <2>4, <2>5, <2>6, <2>7 DEF IInv
  <1> QED
    BY <1>2, <1>3, <1>4 DEF OnToken

\* Action PopFinished preserves the invariant.
LEMMA PopFinishedKeeps ==
  ASSUME IInv, PopFinished
  PROVE  IInv'
  <1> USE DEF hvars
  <1> DEFINE c == Head(finished)
  <1>1. /\ worker = "report" /\ outbox = <<>> /\ finished # <<>>
        /\ UNCHANGED <<mode, hvars, worker, exec, failed, report, stepped, faults, silent>>
        /\ finished' = Tail(finished)
    BY DEF PopFinished
  <1>2. finished' \in Seq(Clients) /\ Range(finished) = Range(finished') \cup {c}
    BY <1>1, RangeOfTail DEF IInv, Types
  <1>3. CASE c \in active /\ active' = active \ {c} /\ outbox' \in FinishEvents(c)
    <2>1. /\ Answers' /\ outbox' \in Seq(Clients \X Event)
          /\ \A i \in DOMAIN outbox' : outbox'[i][1] \in Known
      BY <1>1, <1>3, JobEnds
    <2>2. Types'
      BY <1>1, <1>2, <1>3, <2>1 DEF IInv, Types
    <2>3. Loop'
      BY <1>1, <1>3 DEF IInv, Loop
    <2>4. Engine'
      BY <1>1, <1>2, <1>3 DEF IInv, Engine
    <2>5. Fresh'
      BY <1>1, <1>2, <1>3, <2>1, FreshKept, AllKnown DEF Quiet
    <2>6. AnswerComplete'
      BY <1>1, AnswerCompleteKept
    <2> QED
      BY <2>1, <2>2, <2>3, <2>4, <2>5, <2>6 DEF IInv
  <1>4. CASE c \notin active /\ UNCHANGED <<active, outbox>>
    <2>1. Types'
      BY <1>1, <1>2, <1>4 DEF IInv, Types
    <2>2. Loop'
      BY <1>1, <1>4 DEF IInv, Loop
    <2>3. Engine'
      BY <1>1, <1>2, <1>4 DEF IInv, Engine
    <2>4. Fresh'
      BY <1>1, <1>2, <1>4, FreshKept, AllKnown DEF Quiet
    <2>5. Answers' /\ AnswerComplete'
      BY <1>1, <1>4, AnswersKept, AnswerCompleteKept
    <2> QED
      BY <2>1, <2>2, <2>3, <2>4, <2>5 DEF IInv
  <1> QED
    BY <1>3, <1>4 DEF PopFinished

\* Action PopFailed preserves the invariant.
LEMMA PopFailedKeeps ==
  ASSUME IInv, PopFailed
  PROVE  IInv'
  <1> USE DEF hvars
  <1> DEFINE c == Head(failed)
  <1>1. /\ worker = "report" /\ outbox = <<>> /\ failed # <<>>
        /\ UNCHANGED <<mode, hvars, worker, exec, finished, report, stepped, faults, silent>>
        /\ failed' = Tail(failed)
    BY DEF PopFailed
  <1>2. failed' \in Seq(Clients) /\ Range(failed) = Range(failed') \cup {c}
    BY <1>1, RangeOfTail DEF IInv, Types
  <1>3. CASE c \in active /\ active' = active \ {c} /\ outbox' = <<<<c, "error">>>>
    <2>1. /\ Answers' /\ outbox' \in Seq(Clients \X Event)
          /\ \A i \in DOMAIN outbox' : outbox'[i][1] \in Known
      BY <1>1, <1>3, JobEnds
    <2>2. Types'
      BY <1>1, <1>2, <1>3, <2>1 DEF IInv, Types
    <2>3. Loop'
      BY <1>1, <1>3 DEF IInv, Loop
    <2>4. Engine'
      BY <1>1, <1>2, <1>3 DEF IInv, Engine
    <2>5. Fresh'
      BY <1>1, <1>2, <1>3, <2>1, FreshKept, AllKnown DEF Quiet
    <2>6. AnswerComplete'
      BY <1>1, AnswerCompleteKept
    <2> QED
      BY <2>1, <2>2, <2>3, <2>4, <2>5, <2>6 DEF IInv
  <1>4. CASE c \notin active /\ UNCHANGED <<active, outbox>>
    <2>1. Types'
      BY <1>1, <1>2, <1>4 DEF IInv, Types
    <2>2. Loop'
      BY <1>1, <1>4 DEF IInv, Loop
    <2>3. Engine'
      BY <1>1, <1>2, <1>4 DEF IInv, Engine
    <2>4. Fresh'
      BY <1>1, <1>2, <1>4, FreshKept, AllKnown DEF Quiet
    <2>5. Answers' /\ AnswerComplete'
      BY <1>1, <1>4, AnswersKept, AnswerCompleteKept
    <2> QED
      BY <2>1, <2>2, <2>3, <2>4, <2>5 DEF IInv
  <1> QED
    BY <1>3, <1>4 DEF PopFailed

\* Action Flush preserves the invariant.
LEMMA FlushKeeps ==
  ASSUME IInv, Flush
  PROVE  IInv'
  <1> USE DEF hvars
  <1>1. /\ outbox # <<>> /\ outbox' = Tail(outbox)
        /\ UNCHANGED <<mode, handler, ready, queue, open, worker, finished, failed, report,
                       stepped, faults, silent>>
    BY DEF Flush
  <1>2. /\ outbox' \in Seq(Clients \X Event)
        /\ Len(outbox) \in Nat /\ Len(outbox) > 0
        /\ DOMAIN outbox = 1..Len(outbox) /\ DOMAIN outbox' = 1..(Len(outbox) - 1)
        /\ \A i \in DOMAIN outbox' : outbox'[i] = outbox[i + 1]
        /\ Head(outbox) = outbox[1]
    BY <1>1, RangeOfTail DEF IInv, Types
  <1>0. PICK c \in Clients, e \in Event : Head(outbox)[1] = c /\ Head(outbox)[2] = e
    BY <1>2 DEF IInv, Types
  <1>3. /\ 1 \in DOMAIN outbox /\ outbox[1][1] = c /\ outbox[1][2] = e
        /\ \A i \in DOMAIN outbox' : i + 1 \in DOMAIN outbox /\ 1 < i + 1
        /\ \A i \in DOMAIN outbox : i # 1 => i - 1 \in DOMAIN outbox' /\ outbox'[i - 1] = outbox[i]
    BY <1>0, <1>2
  <1>4. c \in Clients /\ e \in Event /\ c \in Known
    BY <1>3, AllKnown DEF Known
  <1>5. /\ \A i, j \in DOMAIN outbox' :
             i < j /\ outbox'[i][1] = outbox'[j][1] => outbox'[i][2] = "delta"
        /\ worker # "failing" =>
             \A i \in DOMAIN outbox' : outbox'[i][1] \in active => outbox'[i][2] = "delta"
    <2>1. /\ \A i, j \in DOMAIN outbox :
               i < j /\ outbox[i][1] = outbox[j][1] => outbox[i][2] = "delta"
          /\ worker # "failing" =>
               \A i \in DOMAIN outbox : outbox[i][1] \in active => outbox[i][2] = "delta"
      BY DEF IInv, Answers
    <2>2. \A i, j \in DOMAIN outbox' : i < j => i + 1 < j + 1
      BY <1>2
    <2> QED
      BY <1>2, <1>3, <2>1, <2>2
  <1>6. \A d \in Clients \ {c} :
          /\ Ending(d) => Ending(d)'
          /\ (\A i \in DOMAIN outbox : outbox[i][1] # d) => \A i \in DOMAIN outbox' : outbox'[i][1] # d
    <2> TAKE d \in Clients \ {c}
    <2>1. Ending(d) => Ending(d)'
      <3> SUFFICES ASSUME Ending(d) PROVE Ending(d)'
        OBVIOUS
      <3>1. PICK i \in DOMAIN outbox : outbox[i][1] = d /\ outbox[i][2] # "delta"
        BY DEF Ending
      <3>2. i # 1
        BY <1>3, <3>1
      <3>3. i - 1 \in DOMAIN outbox' /\ outbox'[i - 1] = outbox[i]
        BY <1>3, <3>2
      <3> QED
        BY <3>1, <3>3 DEF Ending
    <2> QED
      BY <1>2, <1>3, <2>1
  <1>7. CASE Listening(c)
    <2>1. chan' = [chan EXCEPT ![c] = Append(@, e)] /\ UNCHANGED <<active, exec>>
      BY <1>0, <1>7 DEF Flush, Delivered
    <2>2. /\ chan[c] \in Seq(Event) /\ Append(chan[c], e) \in Seq(Event)
          /\ Len(Append(chan[c], e)) = Len(chan[c]) + 1 /\ Len(chan[c]) \in Nat
          /\ \A i \in DOMAIN chan[c] : Append(chan[c], e)[i] = chan[c][i]
          /\ Append(chan[c], e)[Len(chan[c]) + 1] = e
          /\ DOMAIN Append(chan[c], e) = 1..(Len(chan[c]) + 1)
          /\ DOMAIN chan[c] = 1..Len(chan[c])
      BY <1>4, RangeOfAppend, HandlerTypes DEF IInv
    <2>3. /\ chan' \in [Clients -> Seq(Event)] /\ chan'[c] = Append(chan[c], e)
          /\ \A d \in Clients \ {c} : chan'[d] = chan[d]
      BY <1>4, <2>1, <2>2 DEF IInv, Types
    <2>4. Types'
      BY <1>1, <1>2, <2>1, <2>3 DEF IInv, Types
    <2>5. Loop' /\ Engine'
      BY <1>1, <2>1 DEF IInv, Loop, Engine
    <2>6. Fresh'
      <3>1. \A d \in Clients : FreshOk(d)'
        <4> TAKE d \in Clients
        <4>1. FreshOk(d)
          BY FreshAt
        <4>2. CASE d = c
          <5>1. ready[d] = "ok"
            BY <1>4, <4>2 DEF Known
          <5> QED
            BY <1>1, <4>1, <5>1 DEF FreshOk
        <4>3. CASE d # c
          <5>1. chan'[d] = chan[d]
            BY <2>3, <4>3
          <5>2. ready[d] # "ok" => \A i \in DOMAIN outbox' : outbox'[i][1] # d
            BY <1>6, <4>1, <4>3 DEF FreshOk
          <5> QED
            BY <1>1, <2>1, <4>1, <5>1, <5>2 DEF FreshOk
        <4> QED
          BY <4>2, <4>3
      <3>2. /\ \A i, j \in DOMAIN queue' : queue'[i] = queue'[j] => i = j
            /\ \A i \in DOMAIN queue' :
                 ready'[queue'[i]] = "none" /\ handler'[queue'[i]].pc \in {"ready", "gone"}
        BY <1>1 DEF IInv, Fresh
      <3> QED
        BY <3>1, <3>2 DEF Fresh, FreshOk
    <2>7. Answers'
      <3>1. \A d \in Clients : StreamOk(d)'
        <4> TAKE d \in Clients
        <4>0. StreamOk(d) /\ (Streaming(d)' <=> Streaming(d))
          BY <1>1, FreshAt DEF Streaming
        <4>1. CASE d # c
          <5>1. chan'[d] = chan[d] /\ handler'[d] = handler[d]
            BY <1>1, <2>3, <4>1
          <5>2. (Begun(d)' <=> Begun(d)) /\ (Told(d)' <=> Told(d))
            BY <5>1 DEF Begun, Told
          <5> QED
            BY <1>1, <1>6, <2>1, <4>0, <4>1, <5>2 DEF StreamOk
        <4>2. CASE d = c
          <5> SUFFICES ASSUME Streaming(c), ~ silent PROVE StreamOk(c)'
            BY <1>1, <4>0, <4>2 DEF StreamOk
          <5>1. Begun(c) /\ ((c \in active /\ worker # "failing") \/ Ending(c))
            BY <1>3, <4>0, <4>2 DEF StreamOk
          <5>2. /\ \A i \in DOMAIN chan[c] : chan[c][i] = "delta"
                /\ Deltas(handler'[c].got)
            BY <1>1, <5>1 DEF Begun, Deltas
          <5>3. CASE e = "delta"
            <6>1. Begun(c)'
              <7>1. \A i \in DOMAIN chan'[c] : i \in DOMAIN chan[c] \/ i = Len(chan[c]) + 1
                BY <2>2, <2>3
              <7>2. \A i \in DOMAIN chan'[c] : chan'[c][i] = "delta"
                BY <2>2, <2>3, <5>2, <5>3, <7>1
              <7> QED
                BY <5>2, <7>2 DEF Begun, Deltas
            <6>2. Ending(c) => Ending(c)'
              <7> SUFFICES ASSUME Ending(c) PROVE Ending(c)'
                OBVIOUS
              <7>1. PICK i \in DOMAIN outbox : outbox[i][1] = c /\ outbox[i][2] # "delta"
                BY DEF Ending
              <7>2. i # 1
                BY <1>3, <5>3, <7>1
              <7>3. i - 1 \in DOMAIN outbox' /\ outbox'[i - 1] = outbox[i]
                BY <1>3, <7>2
              <7> QED
                BY <7>1, <7>3 DEF Ending
            <6> QED
              BY <1>1, <2>1, <5>1, <6>1, <6>2 DEF StreamOk
          <5>4. CASE e # "delta"
            <6>1. Whole(chan'[c])
              <7>1. \A i \in 1..(Len(chan'[c]) - 1) : i \in DOMAIN chan[c]
                BY <2>2, <2>3
              <7>2. e \in {"finish", "error"}
                BY <1>4, <5>4 DEF Event
              <7>3. Len(chan'[c]) = Len(chan[c]) + 1 /\ chan'[c][Len(chan'[c])] = e /\ Len(chan'[c]) > 0
                BY <2>2, <2>3
              <7>4. \A i \in 1..(Len(chan'[c]) - 1) : chan'[c][i] = "delta"
                BY <2>2, <2>3, <5>2, <7>1
              <7> QED
                BY <7>2, <7>3, <7>4 DEF Whole
            <6>2. \A i \in DOMAIN outbox' : outbox'[i][1] # c
              <7> SUFFICES ASSUME NEW i \in DOMAIN outbox', outbox'[i][1] = c PROVE FALSE
                OBVIOUS
              <7>1. i + 1 \in DOMAIN outbox /\ 1 < i + 1 /\ outbox[i + 1][1] = c
                BY <1>2, <1>3
              <7>2. outbox[1][2] = "delta"
                BY <1>3, <7>1 DEF IInv, Answers
              <7> QED
                BY <1>3, <5>4, <7>2
            <6>3. c \in active => worker = "failing"
              BY <1>3, <5>4 DEF IInv, Answers
            <6> QED
              BY <1>1, <2>1, <5>2, <6>1, <6>2, <6>3 DEF StreamOk, Told
          <5> QED
            BY <5>3, <5>4
        <4> QED
          BY <4>1, <4>2
      <3> QED
        BY <1>1, <1>5, <2>1, <3>1 DEF Answers, StreamOk
    <2>8. AnswerComplete'
      BY <1>1, AnswerCompleteKept
    <2> QED
      BY <2>4, <2>5, <2>6, <2>7, <2>8 DEF IInv
  <1>8. CASE ~ Listening(c)
    <2>1. /\ UNCHANGED chan
          /\ \/ worker = "failing" /\ UNCHANGED <<active, exec>>
             \/ worker # "failing" /\ active' = active \ {c} /\ exec' = Without(exec, {c})
      BY <1>0, <1>8 DEF Flush
    <2>2. /\ active' \subseteq active /\ DOMAIN exec' \subseteq DOMAIN exec
          /\ \A d \in DOMAIN exec' : exec'[d] = exec[d]
          /\ exec' \in [DOMAIN exec' -> Request]
      <3>1. CASE worker = "failing" /\ UNCHANGED <<active, exec>>
        BY <3>1 DEF IInv, Types
      <3>2. CASE active' = active \ {c} /\ exec' = Without(exec, {c})
        <4>1. /\ DOMAIN exec' = DOMAIN exec \ {c}
              /\ \A d \in DOMAIN exec' : exec'[d] = exec[d]
              /\ exec' \in [DOMAIN exec' -> Request]
          BY <3>2, WithoutIs DEF IInv
        <4> QED
          BY <3>2, <4>1
      <3> QED
        BY <2>1, <3>1, <3>2
    <2>3. Types'
      BY <1>1, <1>2, <2>1, <2>2 DEF IInv, Types
    <2>4. Loop'
      BY <1>1, <2>2 DEF IInv, Loop
    <2>5. Engine'
      <3>1. CASE UNCHANGED <<active, exec>>
        BY <1>1, <3>1 DEF IInv, Engine
      <3>2. CASE active' = active \ {c} /\ DOMAIN exec' = DOMAIN exec \ {c}
        <4>1. worker # "step"
          BY <1>1 DEF IInv, Loop
        <4> QED
          BY <1>1, <3>2, <4>1 DEF IInv, Engine
      <3>3. \/ UNCHANGED <<active, exec>>
            \/ active' = active \ {c} /\ DOMAIN exec' = DOMAIN exec \ {c}
        BY <2>1, WithoutIs DEF IInv
      <3> QED
        BY <3>1, <3>2, <3>3
    <2>6. Fresh'
      <3>1. \A i \in DOMAIN outbox' : outbox'[i][1] \in Known
        BY <1>2, <1>3, AllKnown
      <3> QED
        BY <1>1, <2>1, <2>2, <3>1, FreshKept, AllKnown DEF Quiet
    <2>7. Answers'
      <3>1. \A d \in Clients : StreamOk(d)'
        <4> TAKE d \in Clients
        <4>0. StreamOk(d) /\ (Streaming(d)' <=> Streaming(d))
          BY <1>1, FreshAt DEF Streaming
        <4>1. CASE d = c
          BY <1>8, <4>0, <4>1 DEF StreamOk, Streaming, Listening
        <4>2. CASE d # c
          <5>1. (Begun(d)' <=> Begun(d)) /\ (Told(d)' <=> Told(d)) /\ (d \in active' <=> d \in active)
            BY <1>1, <2>1, <4>2 DEF Begun, Told
          <5> QED
            BY <1>1, <1>6, <4>0, <4>2, <5>1 DEF StreamOk
        <4> QED
          BY <4>1, <4>2
      <3> QED
        BY <1>1, <1>5, <2>2, <3>1 DEF Answers, StreamOk
    <2>8. AnswerComplete'
      BY <1>1, AnswerCompleteKept
    <2> QED
      BY <2>3, <2>4, <2>5, <2>6, <2>7, <2>8 DEF IInv
  <1> QED
    BY <1>7, <1>8

\* The job at the head of the channel: its client has been told nothing.
LEMMA HeadOfQueue ==
  ASSUME IInv, queue # <<>>, NEW c, c = Head(queue)
  PROVE  /\ c \in Clients /\ ready[c] = "none" /\ handler[c].pc \in {"ready", "gone"}
         /\ chan[c] = <<>> /\ (handler[c].pc = "ready" => handler[c].got = <<>>)
         /\ c \notin active /\ c \notin DOMAIN exec
         /\ c \notin Range(finished) /\ c \notin Range(failed)
         /\ Tail(queue) \in Seq(Clients)
         /\ \A i \in DOMAIN Tail(queue) :
              /\ i + 1 \in DOMAIN queue /\ Tail(queue)[i] = queue[i + 1]
              /\ Tail(queue)[i] \in Clients \ {c}
  <1>1. /\ c \in Clients /\ c = queue[1] /\ Tail(queue) \in Seq(Clients)
        /\ Len(queue) \in Nat /\ Len(queue) > 0 /\ DOMAIN queue = 1..Len(queue)
        /\ DOMAIN Tail(queue) = 1..(Len(queue) - 1)
        /\ \A i \in DOMAIN Tail(queue) : Tail(queue)[i] = queue[i + 1]
    BY RangeOfTail DEF IInv, Types
  <1>2. 1 \in DOMAIN queue /\ \A i \in DOMAIN Tail(queue) : i + 1 \in DOMAIN queue /\ i + 1 # 1
    BY <1>1
  <1>3. ready[c] = "none" /\ handler[c].pc \in {"ready", "gone"}
    BY <1>1, <1>2 DEF IInv, Fresh
  <1>4. FreshOk(c)
    BY <1>1, FreshAt
  <1>5. \A i \in DOMAIN Tail(queue) : queue[i + 1] \in Clients /\ queue[i + 1] # queue[1]
    <2>1. \A i, j \in DOMAIN queue : queue[i] = queue[j] => i = j
      BY DEF IInv, Fresh
    <2>2. \A i \in DOMAIN queue : queue[i] \in Clients
      BY DEF IInv, Types
    <2> QED
      BY <1>2, <2>1, <2>2
  <1> QED
    BY <1>1, <1>2, <1>3, <1>4, <1>5 DEF FreshOk

\* The job of c leaves the channel; whatever the worker holds afterwards belongs
\* to accepted jobs.
LEMMA FreshTaken ==
  ASSUME IInv, queue # <<>>, queue' = Tail(queue), NEW c, c = Head(queue),
         UNCHANGED <<handler, chan>>,
         \A d \in Clients \ {c} : ready'[d] = ready[d],
         NEW K, K = {d \in Clients : ready'[d] = "ok"},
         active' \subseteq K, DOMAIN exec' \subseteq K,
         Range(finished') \subseteq K, Range(failed') \subseteq K,
         \A i \in DOMAIN outbox' : outbox'[i][1] \in K
  PROVE  Fresh'
  <1>1. /\ c \in Clients /\ ready[c] = "none" /\ handler[c].pc \in {"ready", "gone"}
        /\ chan[c] = <<>>
        /\ \A i \in DOMAIN queue' :
             /\ i + 1 \in DOMAIN queue /\ queue'[i] = queue[i + 1]
             /\ queue'[i] \in Clients \ {c}
    BY HeadOfQueue
  <1>2. \A d \in Clients : FreshOk(d)'
    <2> TAKE d \in Clients
    <2>1. FreshOk(d)
      BY FreshAt
    <2>2. ready'[d] # "ok" => d \notin K
      OBVIOUS
    <2>3. CASE d = c
      BY <1>1, <2>1, <2>2, <2>3 DEF FreshOk
    <2>4. CASE d # c
      <3>1. ready'[d] = ready[d]
        BY <2>4
      <3> QED
        BY <2>1, <2>2, <3>1 DEF FreshOk
    <2> QED
      BY <2>3, <2>4
  <1>3. \A i \in DOMAIN queue' :
          ready'[queue'[i]] = "none" /\ handler'[queue'[i]].pc \in {"ready", "gone"}
    <2> TAKE i \in DOMAIN queue'
    <2>1. ready[queue[i + 1]] = "none" /\ handler[queue[i + 1]].pc \in {"ready", "gone"}
      BY <1>1 DEF IInv, Fresh
    <2> QED
      BY <1>1, <2>1
  <1>4. \A i, j \in DOMAIN queue' : queue'[i] = queue'[j] => i = j
    <2> TAKE i, j \in DOMAIN queue'
    <2>1. queue[i + 1] = queue[j + 1] => i + 1 = j + 1
      BY <1>1 DEF IInv, Fresh
    <2>2. i \in Nat /\ j \in Nat
      <3>1. queue' \in Seq(Clients)
        BY HeadOfQueue
      <3> QED
        BY <3>1
    <2> QED
      BY <1>1, <2>1, <2>2
  <1> QED
    BY <1>2, <1>3, <1>4 DEF Fresh, FreshOk

\* A job nobody listens to any more, or that is turned down.
LEMMA TurnedDown ==
  ASSUME IInv, queue # <<>>, queue' = Tail(queue), NEW c, c = Head(queue), outbox = <<>>,
         UNCHANGED <<mode, handler, chan, open, active, evars, outbox, faults, silent>>,
         ready' = ready \/ ready' = [ready EXCEPT ![c] = "bad"],
         worker \in {"idle", "drain"},
         worker' = worker \/ (worker' = "drain" /\ mode = "batch")
  PROVE  IInv'
  <1> USE DEF evars
  <1>1. /\ c \in Clients /\ ready[c] = "none" /\ Tail(queue) \in Seq(Clients)
    BY HeadOfQueue
  <1>2. /\ ready' \in [Clients -> {"none", "ok", "bad", "dropped"}]
        /\ \A d \in Clients \ {c} : ready'[d] = ready[d]
        /\ ready'[c] # "ok"
    BY <1>1 DEF IInv, Types
  <1>3. Types'
    BY <1>1, <1>2 DEF IInv, Types, Place
  <1>4. Loop' /\ Engine'
    BY DEF IInv, Loop, Engine
  <1>5. Fresh'
    <2> DEFINE K == {d \in Clients : ready'[d] = "ok"}
    <2>1. Known \subseteq K
      BY <1>1, <1>2 DEF Known
    <2>2. /\ active' \subseteq K /\ DOMAIN exec' \subseteq K
          /\ Range(finished') \subseteq K /\ Range(failed') \subseteq K
          /\ \A i \in DOMAIN outbox' : outbox'[i][1] \in K
      BY <2>1, AllKnown
    <2> QED
      BY <1>2, <2>2, FreshTaken
  <1>6. Answers'
    <2>1. \A d \in Clients : StreamOk(d)'
      <3> TAKE d \in Clients
      <3>1. StreamOk(d)
        BY FreshAt
      <3>2. Streaming(d)' => Streaming(d)
        BY <1>2 DEF Streaming
      <3> QED
        BY <3>1, <3>2 DEF StreamOk, Begun, Told, Ending
    <2> QED
      BY <2>1 DEF IInv, Answers, StreamOk
  <1>7. AnswerComplete'
    BY AnswerCompleteKept
  <1> QED
    BY <1>3, <1>4, <1>5, <1>6, <1>7 DEF IInv

\* A stream begins with one delta or nothing.
LEMMA BeginIs ==
  ASSUME NEW c \in Clients, NEW o \in Begin(c)
  PROVE  o = <<<<c, "delta">>>> \/ o = <<>>
  BY DEF Begin

\* An accepted job: its client has been told nothing yet.
LEMMA AnswersAccepted ==
  ASSUME IInv, queue # <<>>, NEW c, c = Head(queue), outbox = <<>>,
         UNCHANGED <<handler, chan, silent>>, ready' = [ready EXCEPT ![c] = "ok"],
         worker \in {"idle", "drain"}, worker' # "failing",
         active' = active \cup {c},
         \A i \in DOMAIN outbox' : outbox'[i][1] = c /\ outbox'[i][2] = "delta"
  PROVE  Answers'
  <1>1. /\ c \in Clients /\ ready[c] = "none" /\ handler[c].pc \in {"ready", "gone"}
        /\ chan[c] = <<>> /\ (handler[c].pc = "ready" => handler[c].got = <<>>)
    BY HeadOfQueue
  <1>2. DOMAIN outbox = {}
    OBVIOUS
  <1>3. \A d \in Clients : StreamOk(d)'
    <2> TAKE d \in Clients
    <2>1. CASE d = c
      <3>1. Streaming(d)' => Begun(d)'
        <4> SUFFICES ASSUME Streaming(c)' PROVE Begun(c)'
          BY <2>1
        <4>1. handler[c].pc = "ready"
          BY <1>1 DEF Streaming
        <4>2. handler'[c].got = <<>> /\ chan'[c] = <<>>
          BY <1>1, <4>1
        <4>3. DOMAIN <<>> = {}
          OBVIOUS
        <4> QED
          BY <4>2, <4>3 DEF Begun, Deltas
      <3> QED
        BY <2>1, <3>1 DEF StreamOk
    <2>2. CASE d # c
      <3>1. StreamOk(d) /\ ~ Ending(d)
        BY <1>2, FreshAt DEF Ending
      <3>2. ready'[d] = ready[d]
        BY <1>1, <2>2 DEF IInv, Types
      <3>3. /\ Streaming(d)' <=> Streaming(d)
            /\ Begun(d)' <=> Begun(d)
            /\ Told(d)' <=> Told(d)
        BY <3>2 DEF Streaming, Begun, Told
      <3> QED
        BY <2>2, <3>1, <3>3 DEF StreamOk
    <2> QED
      BY <2>1, <2>2
  <1> QED
    BY <1>3 DEF Answers, StreamOk

\* Action Receive preserves the invariant.
LEMMA ReceiveKeeps ==
  ASSUME IInv, Receive
  PROVE  IInv'
  <1>1. PICK c \in Clients : c = Head(queue)
    BY RangeOfTail DEF IInv, Types, Receive
  <1>2. /\ mode = "batch" /\ outbox = <<>> /\ queue # <<>> /\ worker \in {"idle", "drain"}
        /\ Admit(c) /\ queue' = Tail(queue) /\ worker' = "drain"
        /\ UNCHANGED <<mode, handler, chan, open, failed, report, stepped, faults, silent>>
    BY <1>1 DEF Receive
  <1>3. Cardinality(Pending) < MaxQueued
    <2>1. CASE worker = "drain"
      BY <2>1 DEF Receive, Room
    <2>2. CASE worker = "idle"
      <3>1. Pending = {}
        BY <2>2 DEF IInv, Loop, Pending
      <3> QED
        BY <3>1, FS_EmptySet, HttpAssumption
    <2> QED
      BY <1>2, <2>1, <2>2
  <1>4. ~ (Cardinality(Pending) >= MaxQueued)
    <2>1. IsFiniteSet(Pending)
      <3>1. Pending \subseteq Clients
        BY DEF IInv, Types, Pending
      <3> QED
        BY <3>1, FS_Subset, HttpAssumption
    <2>2. Cardinality(Pending) \in Nat /\ MaxQueued \in Nat
      BY <2>1, FS_CardinalityType, HttpAssumption
    <2> HIDE DEF Pending
    <2> QED
      BY <1>3, <2>2
  <1>5. CASE ~ Listening(c) /\ UNCHANGED <<ready, active, exec, finished, outbox>>
    BY <1>1, <1>2, <1>5, TurnedDown DEF evars
  <1>6. CASE ready' = [ready EXCEPT ![c] = "bad"] /\ UNCHANGED <<active, exec, finished, outbox>>
    BY <1>1, <1>2, <1>6, TurnedDown DEF evars
  <1>7. CASE /\ ready' = [ready EXCEPT ![c] = "ok"] /\ active' = active \cup {c}
             /\ outbox' \in Begin(c)
             /\ \/ finished' = Append(finished, c) /\ UNCHANGED exec
                \/ /\ \E n \in 1..MaxNew, st \in {"pending", "remote"} :
                        exec' = With(exec, c, [st |-> st, left |-> n])
                   /\ UNCHANGED finished
    <2>1. /\ ready[c] = "none" /\ c \notin active /\ c \notin DOMAIN exec
          /\ c \notin Range(finished) /\ c \notin Range(failed)
          /\ queue' \in Seq(Clients)
      BY <1>1, <1>2, HeadOfQueue
    <2>2. /\ outbox' \in Seq(Clients \X Event)
          /\ \A i \in DOMAIN outbox' : outbox'[i][1] = c /\ outbox'[i][2] = "delta"
      BY <1>7, BeginIs, DeltaIs
    <2>3. /\ ready' \in [Clients -> {"none", "ok", "bad", "dropped"}]
          /\ ready'[c] = "ok" /\ \A d \in Clients \ {c} : ready'[d] = ready[d]
      BY <1>7 DEF IInv, Types
    <2>4. /\ finished' \in Seq(Clients) /\ DOMAIN exec' \subseteq DOMAIN exec \cup {c}
          /\ DOMAIN exec \subseteq DOMAIN exec'
          /\ exec' \in [DOMAIN exec' -> Request]
          /\ \A d \in DOMAIN exec' : exec'[d].left > 0
          /\ Range(finished) \subseteq Range(finished')
          /\ Range(finished') \subseteq Range(finished) \cup {c}
          /\ c \in DOMAIN exec' \/ c \in Range(finished')
          /\ ~ (c \in DOMAIN exec' /\ c \in Range(finished'))
      <3>0. \A d \in DOMAIN exec : exec[d].left > 0
        BY <1>2 DEF IInv, Loop
      <3>1. CASE finished' = Append(finished, c) /\ UNCHANGED exec
        <4>1. finished' \in Seq(Clients) /\ Range(finished') = Range(finished) \cup {c}
          BY <3>1, RangeOfAppend DEF IInv, Types
        <4> QED
          BY <2>1, <3>0, <3>1, <4>1 DEF IInv, Types
      <3>2. CASE /\ \E n \in 1..MaxNew, st \in {"pending", "remote"} :
                        exec' = With(exec, c, [st |-> st, left |-> n])
                 /\ UNCHANGED finished
        <4>1. PICK n \in 1..MaxNew, st \in {"pending", "remote"} :
                exec' = With(exec, c, [st |-> st, left |-> n])
          BY <3>2
        <4> DEFINE v == [st |-> st, left |-> n]
        <4>2. v \in Request /\ v.left > 0
          BY HttpAssumption DEF Request
        <4>3. exec' = With(exec, c, v)
          BY <4>1
        <4> HIDE DEF v
        <4>4. /\ exec' = [x \in DOMAIN exec \cup {c} |-> IF x = c THEN v ELSE exec[x]]
              /\ DOMAIN exec' = DOMAIN exec \cup {c}
          BY <4>3 DEF With
        <4> QED
          BY <2>1, <3>0, <3>2, <4>2, <4>4 DEF IInv, Types
      <3> QED
        BY <1>7, <3>1, <3>2
    <2>5. Types'
      BY <1>2, <1>7, <2>1, <2>2, <2>3, <2>4 DEF IInv, Types, Place
    <2>6. Loop'
      BY <1>2, <2>4 DEF IInv, Loop
    <2>7. Engine'
      BY <1>2, <1>7, <2>1, <2>4 DEF IInv, Engine
    <2>8. Fresh'
      <3> DEFINE K == {d \in Clients : ready'[d] = "ok"}
      <3>1. Known \subseteq K /\ c \in K
        BY <2>1, <2>3 DEF Known
      <3>2. /\ active' \subseteq K /\ DOMAIN exec' \subseteq K
            /\ Range(finished') \subseteq K /\ Range(failed') \subseteq K
            /\ \A i \in DOMAIN outbox' : outbox'[i][1] \in K
        BY <1>2, <1>7, <2>2, <2>4, <3>1, AllKnown
      <3> QED
        BY <1>1, <1>2, <2>3, <3>2, FreshTaken
    <2>9. Answers'
      BY <1>1, <1>2, <1>7, <2>2, AnswersAccepted
    <2>10. AnswerComplete'
      BY <1>2, AnswerCompleteKept
    <2> QED
      BY <2>5, <2>6, <2>7, <2>8, <2>9, <2>10 DEF IInv
  <1> QED
    BY <1>2, <1>4, <1>5, <1>6, <1>7 DEF Admit

\* Action NativeReceive preserves the invariant.
LEMMA NativeReceiveKeeps ==
  ASSUME IInv, NativeReceive
  PROVE  IInv'
  <1>1. PICK c \in Clients : c = Head(queue)
    BY RangeOfTail DEF IInv, Types, NativeReceive
  <1>2. /\ mode = "native" /\ outbox = <<>> /\ queue # <<>> /\ worker = "idle"
        /\ queue' = Tail(queue)
        /\ UNCHANGED <<mode, handler, chan, open, finished, failed, report, stepped, faults, silent>>
    BY DEF NativeReceive
  <1>3. CASE ~ Listening(c) /\ UNCHANGED <<ready, active, exec, outbox, worker>>
    BY <1>1, <1>2, <1>3, TurnedDown DEF evars
  <1>4. CASE ready' = [ready EXCEPT ![c] = "bad"] /\ UNCHANGED <<active, exec, outbox, worker>>
    BY <1>1, <1>2, <1>4, TurnedDown DEF evars
  <1>5. CASE /\ ready' = [ready EXCEPT ![c] = "ok"] /\ active' = {c}
             /\ outbox' \in Begin(c) /\ worker' = "native"
             /\ \E n \in 0..MaxNew : exec' = With(<<>>, c, [st |-> "running", left |-> n])
    <2>1. /\ ready[c] = "none" /\ c \notin active /\ c \notin DOMAIN exec
          /\ c \notin Range(finished) /\ c \notin Range(failed)
          /\ queue' \in Seq(Clients)
      BY <1>1, <1>2, HeadOfQueue
    <2>2. /\ outbox' \in Seq(Clients \X Event)
          /\ \A i \in DOMAIN outbox' : outbox'[i][1] = c /\ outbox'[i][2] = "delta"
      BY <1>5, BeginIs, DeltaIs
    <2>3. /\ ready' \in [Clients -> {"none", "ok", "bad", "dropped"}]
          /\ ready'[c] = "ok" /\ \A d \in Clients \ {c} : ready'[d] = ready[d]
      BY <1>5 DEF IInv, Types
    <2>4. DOMAIN exec' = {c} /\ exec' \in [DOMAIN exec' -> Request]
      <3>1. PICK n \in 0..MaxNew : exec' = With(<<>>, c, [st |-> "running", left |-> n])
        BY <1>5
      <3> DEFINE v == [st |-> "running", left |-> n]
      <3>2. v \in Request
        BY HttpAssumption DEF Request
      <3>3. exec' = With(<<>>, c, v)
        BY <3>1
      <3> HIDE DEF v
      <3>4. DOMAIN <<>> = {}
        OBVIOUS
      <3>5. exec' = [x \in {c} |-> IF x = c THEN v ELSE <<>>[x]]
        BY <3>3, <3>4 DEF With
      <3> QED
        BY <3>2, <3>5
    <2>5. active = {} /\ active' = active \cup {c} /\ failed = <<>> /\ finished = <<>>
      BY <1>2, <1>5 DEF IInv, Loop
    <2>6. Types'
      BY <1>2, <1>5, <2>1, <2>2, <2>3, <2>4 DEF IInv, Types, Place
    <2>7. Loop'
      BY <1>2, <1>5, <2>5 DEF IInv, Loop
    <2>8. Engine'
      BY <1>2, <1>5, <2>1, <2>4, <2>5 DEF IInv, Engine
    <2>9. Fresh'
      <3> DEFINE K == {d \in Clients : ready'[d] = "ok"}
      <3>1. Known \subseteq K /\ c \in K
        BY <2>1, <2>3 DEF Known
      <3>2. /\ active' \subseteq K /\ DOMAIN exec' \subseteq K
            /\ Range(finished') \subseteq K /\ Range(failed') \subseteq K
            /\ \A i \in DOMAIN outbox' : outbox'[i][1] \in K
        BY <1>2, <1>5, <2>2, <2>4, <3>1, AllKnown
      <3> QED
        BY <1>1, <1>2, <2>3, <3>2, FreshTaken
    <2>10. Answers'
      BY <1>1, <1>2, <1>5, <2>2, <2>5, AnswersAccepted
    <2>11. AnswerComplete'
      BY <1>2, AnswerCompleteKept
    <2> QED
      BY <2>6, <2>7, <2>8, <2>9, <2>10, <2>11 DEF IInv
  <1> QED
    BY <1>1, <1>3, <1>4, <1>5 DEF NativeReceive

\* Action NativeStep preserves the invariant.
LEMMA NativeStepKeeps ==
  ASSUME IInv, NativeStep
  PROVE  IInv'
  <1> USE DEF hvars
  <1>1. /\ worker = "native" /\ outbox = <<>>
        /\ UNCHANGED <<mode, hvars, finished, failed, report, stepped, faults, silent>>
    BY DEF NativeStep
  <1>2. /\ mode = "native" /\ \A c, d \in active : c = d
        /\ finished = <<>> /\ failed = <<>> /\ Range(finished) = {} /\ Range(failed) = {}
    BY <1>1 DEF IInv, Loop, Range
  <1>3. /\ DOMAIN exec = active /\ active \subseteq Clients
        /\ exec \in [DOMAIN exec -> Request]
    BY <1>1, <1>2 DEF IInv, Engine, Types
  \* The request is over: the worker is idle again.
  <1>4. ASSUME active' = {}, exec' = <<>>, worker' = "idle", Answers',
               outbox' \in Seq(Clients \X Event),
               \A i \in DOMAIN outbox' : outbox'[i][1] \in Known
        PROVE  IInv'
    <2>1. DOMAIN exec' = {}
      BY <1>4
    <2>2. exec' \in [DOMAIN exec' -> Request]
      BY <1>4
    <2>3. Types'
      BY <1>1, <1>4, <2>1, <2>2 DEF IInv, Types, Place
    <2>4. Loop'
      BY <1>1, <1>2, <1>4, <2>1 DEF IInv, Loop
    <2>5. Engine'
      BY <1>4, <2>1 DEF Engine
    <2>6. Fresh'
      BY <1>1, <1>4, <2>1, FreshKept, AllKnown DEF Quiet
    <2>7. AnswerComplete'
      BY <1>1, AnswerCompleteKept
    <2> QED
      BY <1>4, <2>3, <2>4, <2>5, <2>6, <2>7 DEF IInv
  <1>5. CASE active = {}
    <2>1. active' = {} /\ exec' = <<>> /\ worker' = "idle" /\ outbox' = <<>>
      BY <1>5 DEF NativeStep, NativeDone
    <2>2. Answers'
      BY <1>1, <1>5, <2>1, AnswersKept
    <2>3. outbox' \in Seq(Clients \X Event) /\ DOMAIN outbox' = {}
      BY <2>1
    <2> QED
      BY <1>4, <2>1, <2>2, <2>3
  <1>6. CASE active # {}
    <2>1. PICK c \in active : c = CHOOSE x \in active : TRUE
      BY <1>6
    <2>2. active = {c} /\ c \in Clients /\ exec[c] \in Request
      BY <1>2, <1>3
    <2>3. CASE \E o : NativeDone(c, o) /\ (o \in FinishEvents(c) \/ o = <<<<c, "error">>>>)
      <3>1. PICK o : NativeDone(c, o) /\ (o \in FinishEvents(c) \/ o = <<<<c, "error">>>>)
        BY <2>3
      <3>2. /\ active' = {} /\ active' = active \ {c} /\ exec' = <<>> /\ worker' = "idle"
            /\ outbox' \in FinishEvents(c) \/ outbox' = <<<<c, "error">>>>
        BY <2>2, <3>1 DEF NativeDone
      <3>3. /\ Answers' /\ outbox' \in Seq(Clients \X Event)
            /\ \A i \in DOMAIN outbox' : outbox'[i][1] \in Known
        BY <1>1, <3>2, JobEnds
      <3> QED
        BY <1>4, <3>2, <3>3
    <2>4. CASE /\ exec[c].left > 0 /\ exec' = [exec EXCEPT ![c].left = @ - 1]
               /\ outbox' = <<<<c, "delta">>>> \/ outbox' = <<>>
               /\ UNCHANGED <<active, worker>>
      <3>1. /\ DOMAIN exec' = DOMAIN exec
            /\ exec' \in [DOMAIN exec' -> Request]
        <4>1. exec[c].left \in Nat /\ exec[c].left - 1 \in Nat
          BY <2>2, <2>4 DEF Request
        <4>2. [exec[c] EXCEPT !.left = @ - 1] \in Request
          BY <2>2, <4>1 DEF Request
        <4> QED
          BY <1>3, <2>4, <4>2
      <3>2. /\ Answers' /\ outbox' \in Seq(Clients \X Event)
            /\ \A i \in DOMAIN outbox' : outbox'[i][1] \in Known
        BY <1>1, <2>4, JobGoesOn
      <3>3. Types'
        BY <1>1, <2>4, <3>1, <3>2 DEF IInv, Types
      <3>4. Loop' /\ Engine'
        BY <1>1, <1>2, <2>4, <3>1 DEF IInv, Loop, Engine
      <3>5. Fresh'
        BY <1>1, <2>4, <3>1, <3>2, FreshKept, AllKnown DEF Quiet
      <3>6. AnswerComplete'
        BY <1>1, AnswerCompleteKept
      <3> QED
        BY <3>2, <3>3, <3>4, <3>5, <3>6 DEF IInv
    <2>5. \/ ~ Listening(c) /\ NativeDone(c, <<>>)
          \/ \E f \in FinishEvents(c) : NativeDone(c, f)
          \/ NativeDone(c, <<<<c, "error">>>>)
          \/ /\ exec[c].left > 0 /\ exec' = [exec EXCEPT ![c].left = @ - 1]
             /\ outbox' = <<<<c, "delta">>>> \/ outbox' = <<>>
             /\ UNCHANGED <<active, worker>>
      BY <1>6, <2>1 DEF NativeStep
    <2>6. ~ Listening(c) => <<>> \in FinishEvents(c)
      BY DEF FinishEvents
    <2>7. CASE ~ Listening(c) /\ NativeDone(c, <<>>)
      BY <2>3, <2>6, <2>7
    <2>8. CASE \E f \in FinishEvents(c) : NativeDone(c, f)
      BY <2>3, <2>8
    <2>9. CASE NativeDone(c, <<<<c, "error">>>>)
      <3> DEFINE o == <<<<c, "error">>>>
      <3>1. NativeDone(c, o) /\ o = <<<<c, "error">>>>
        BY <2>9
      <3> HIDE DEF o
      <3> QED
        BY <2>3, <3>1
    <2> QED
      BY <2>4, <2>5, <2>7, <2>8, <2>9
  <1> QED
    BY <1>5, <1>6

-----------------------------------------------------------------------------
(* The theorems                                                            *)

\* A new server satisfies the invariant.
LEMMA InitEstablishes ==
  ASSUME Init
  PROVE  IInv
  <1> USE DEF Init
  <1>0. /\ DOMAIN exec = {} /\ DOMAIN queue = {} /\ DOMAIN outbox = {}
        /\ Range(finished) = {} /\ Range(failed) = {}
    BY DEF Range
  <1>1. Types
    <2>1. [pc |-> "new", stream |-> FALSE, got |-> <<>>] \in HandlerState
      <3>1. <<>> \in Seq(Answer)
        OBVIOUS
      <3> QED
        BY <3>1 DEF HandlerState
    <2>2. handler \in [Clients -> HandlerState]
      BY <2>1
    <2>3. chan \in [Clients -> Seq(Event)] /\ exec \in [DOMAIN exec -> Request]
      BY <1>0
    <2>4. /\ queue \in Seq(Clients) /\ finished \in Seq(Clients) /\ failed \in Seq(Clients)
          /\ report \in Seq(Clients \X Tokens) /\ outbox \in Seq(Clients \X Event)
      OBVIOUS
    <2> QED
      BY <1>0, <2>2, <2>3, <2>4 DEF Types, Place
  <1>2. Loop /\ Engine
    BY <1>0 DEF Loop, Engine
  <1>3. Fresh
    BY <1>0 DEF Fresh
  <1>4. Answers
    BY <1>0 DEF Answers, Streaming
  <1>5. AnswerComplete
    BY DEF AnswerComplete
  <1> QED
    BY <1>1, <1>2, <1>3, <1>4, <1>5 DEF IInv

\* A stuttering step.
LEMMA StutterKeeps ==
  ASSUME IInv, UNCHANGED vars
  PROVE  IInv'
  <1> USE DEF vars, hvars, evars
  <1>1. Types' /\ Loop' /\ Engine'
    BY DEF IInv, Types, Loop, Engine
  <1>2. Fresh' /\ AnswerComplete'
    BY DEF IInv, Fresh, AnswerComplete
  <1>3. Answers'
    BY DEF IInv, Answers, Streaming, Begun, Told, Ending
  <1> QED
    BY <1>1, <1>2, <1>3 DEF IInv

\* Every step preserves the invariant.
LEMMA NextKeeps ==
  ASSUME IInv, [Next]_vars
  PROVE  IInv'
  <1>1. ASSUME NEW c \in Clients,
               Validate(c) \/ SendJob(c) \/ Prepared(c) \/ Read(c) \/ Leave(c) \/ RemoteAnswers(c)
        PROVE  IInv'
    BY <1>1, ValidateKeeps, SendJobKeeps, PreparedKeeps, ReadKeeps, LeaveKeeps, RemoteAnswersKeeps
  <1>2. CASE Shutdown
    BY <1>2, ShutdownKeeps
  <1>3. CASE Worker
    <2>1. CASE Start \/ Flush \/ Receive \/ DropDisconnected \/ Closed \/ Fail
      BY <2>1, StartKeeps, FlushKeeps, ReceiveKeeps, DropDisconnectedKeeps, ClosedKeeps, FailKeeps
    <2>2. CASE \E B \in SUBSET Clients : Step(B)
      BY <2>2, StepKeeps
    <2>3. CASE Poll \/ OnToken \/ PopFinished \/ PopFailed \/ LoopEnds
      BY <2>3, PollKeeps, OnTokenKeeps, PopFinishedKeeps, PopFailedKeeps, LoopEndsKeeps
    <2>4. CASE NativeReceive \/ NativeStep
      BY <2>4, NativeReceiveKeeps, NativeStepKeeps
    <2> QED
      BY <1>3, <2>1, <2>2, <2>3, <2>4 DEF Worker
  <1>4. CASE CancelFails \/ StepNone \/ StepFails
    BY <1>4, CancelFailsKeeps, StepNoneKeeps, StepFailsKeeps
  <1>5. CASE UNCHANGED vars
    BY <1>5, StutterKeeps
  <1> QED
    BY <1>1, <1>2, <1>3, <1>4, <1>5 DEF Next

\* The inductive invariant holds of every reachable state, for every set of
\* clients, channel capacity, executor and worker.
THEOREM Invariant == Spec => []IInv
  <1>1. Init => IInv
    BY InitEstablishes
  <1>2. IInv /\ [Next]_vars => IInv'
    BY NextKeeps
  <1> QED
    BY <1>1, <1>2, PTL DEF Spec

\* The invariant implies the property.
LEMMA EngineMatchesFrom ==
  ASSUME IInv
  PROVE  EngineMatchesActive
  <1>1. ActiveServed
    BY DEF IInv, Loop, Engine, ActiveServed, Range
  <1>2. NeverRefused
    BY DEF IInv, Types, NeverRefused
  <1> QED
    BY <1>1, <1>2 DEF IInv, EngineMatchesActive

\* serving/batch.rs, serving.rs: at the start of every round the executor holds
\* exactly the requests of the active jobs, the admission loop never takes a job
\* the executor then refuses, and a handler whose client stays gives a status or
\* a stream with one last event before its end marker (a worker that ended in a
\* failed cancel excepted).
THEOREM EngineMatches == Spec => []EngineMatchesActive
  <1>1. IInv => EngineMatchesActive
    BY EngineMatchesFrom
  <1> QED
    BY <1>1, Invariant, PTL

=============================================================================
