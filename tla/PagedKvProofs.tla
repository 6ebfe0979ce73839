---------------------------- MODULE PagedKvProofs ----------------------------
(***************************************************************************)
(* The safety of the paged KV cache manager, for every pool size, block    *)
(* size and set of requests and for every client that follows the          *)
(* protocol.  PagedKvOpsProofs shows that every operation preserves KvInv, *)
(* here the state machine of PagedKv is shown to preserve Inv, of which    *)
(* KvInv is a conjunct; the other conjuncts type what the client keeps,    *)
(* because Register passes a history and Commit and CommitPrefix extend    *)
(* one.  On top of Inv, Content says what the device memory holds: the     *)
(* committed tokens of every sequence, the blocks of the prefix cache and  *)
(* the tokens of every reservation that has been run; and Ordered says     *)
(* that no two evictable pages share a rank.                               *)
(***************************************************************************)
EXTENDS PagedKv, PagedKvOpsProofs

-----------------------------------------------------------------------------
(* The state machine                                                       *)

Work == [tokens : Seq(Token), state : {"reserved", "written", "failed"}]

\* A history for each live sequence.
HistOK == hist \in [Live(kv) -> Seq(Token)]

\* The tokens of each reservation, as many as it reserves.
WorkOK ==
    /\ work \in [DOMAIN kv.resv -> Work]
    /\ \A i \in DOMAIN kv.resv : Len(work[i].tokens) = kv.resv[i].count

Inv == KvInv(kv) /\ HistOK /\ WorkOK

-----------------------------------------------------------------------------
(* The inductive invariant                                                 *)

\* The manager starts empty.
LEMMA InitInv == Init => Inv
  <1> SUFFICES ASSUME Init PROVE Inv
    OBVIOUS
  <1>1. KvInv(kv)
    BY NewManagerInv DEF Init
  <1>2. Live(kv) = {} /\ DOMAIN kv.resv = {}
    BY DEF Init, NewManager, Live
  <1>3. hist \in [{} -> Seq(Token)] /\ work \in [{} -> Work]
    BY DEF Init
  <1> QED
    BY <1>1, <1>2, <1>3 DEF Inv, HistOK, WorkOK

\* Histories and work are typed as before while nothing they follow changes.
LEMMA SideUnchanged ==
    ASSUME HistOK, WorkOK, Live(kv') = Live(kv), kv'.resv = kv.resv,
           UNCHANGED <<hist, work>>
    PROVE  HistOK' /\ WorkOK'
  BY DEF HistOK, WorkOK

\* A step that touches no reservation keeps the client's record of them.
LEMMA WorkUnchanged ==
    ASSUME WorkOK, kv'.resv = kv.resv, UNCHANGED work
    PROVE  WorkOK'
  BY DEF WorkOK

\* Reservations that close leave the client's record.
LEMMA WorkClosed ==
    ASSUME WorkOK, NEW ids, Closed(kv, ids, kv'),
           work' = Restrict(work, DOMAIN work \ ids)
    PROVE  WorkOK'
  <1>1. /\ DOMAIN kv'.resv = DOMAIN kv.resv \ ids
        /\ \A i \in DOMAIN kv.resv \ ids : kv'.resv[i] = kv.resv[i]
    BY DEF Closed
  <1>2. /\ DOMAIN work = DOMAIN kv.resv
        /\ \A i \in DOMAIN kv.resv : work[i] \in Work
        /\ \A i \in DOMAIN kv.resv : Len(work[i].tokens) = kv.resv[i].count
    BY DEF WorkOK
  <1>3. work' = [i \in DOMAIN kv.resv \ ids |-> work[i]]
    BY <1>2 DEF Restrict
  <1>4. work' \in [DOMAIN kv'.resv -> Work]
    BY <1>1, <1>2, <1>3
  <1>5. \A i \in DOMAIN kv'.resv : Len(work'[i].tokens) = kv'.resv[i].count
    BY <1>1, <1>2, <1>3
  <1> QED
    BY <1>4, <1>5 DEF WorkOK

\* A new sequence has a history.
LEMMA HistAdded ==
    ASSUME HistOK, NEW r, NEW tokens \in Seq(Token), Live(kv') = Live(kv) \cup {r},
           hist' = WithHistory(r, tokens)
    PROVE  HistOK'
  <1>1. DOMAIN hist = Live(kv) /\ \A q \in Live(kv) : hist[q] \in Seq(Token)
    BY DEF HistOK
  <1>2. hist' \in [Live(kv) \cup {r} -> Seq(Token)]
    BY <1>1 DEF WithHistory
  <1> QED
    BY <1>2 DEF HistOK

\* A commit appends to histories the first tokens of its reservations.
LEMMA HistGrown ==
    ASSUME Inv, NEW ids \in SUBSET DOMAIN kv.resv, NEW consumed,
           \A i \in ids : consumed[i] \in 1 .. kv.resv[i].count,
           Live(kv') = Live(kv), hist' = Grown(ids, consumed)
    PROVE  HistOK'
  <1>1. DOMAIN hist = Live(kv) /\ \A q \in Live(kv) : hist[q] \in Seq(Token)
    BY DEF Inv, HistOK
  <1>2. ASSUME NEW q \in Live(kv), q \in Owned(kv, ids)
        PROVE  hist[q] \o SubSeq(work[kv.seqs[q].pending].tokens, 1,
                                 consumed[kv.seqs[q].pending]) \in Seq(Token)
    <2>1. PICK i \in ids : kv.resv[i].request = q
      BY <1>2 DEF Owned
    <2>2. kv.seqs[q].pending = i
      BY <2>1, LiveReservation DEF Inv
    <2> DEFINE t == work[i].tokens
               c == consumed[i]
    <2>3. t \in Seq(Token) /\ Len(t) = kv.resv[i].count
      BY DEF Inv, WorkOK, Work
    <2>4. c \in 1..Len(t)
      BY <2>3
    <2> HIDE DEF t, c
    <2>5. SubSeq(t, 1, c) \in Seq(Token)
      BY <2>3, <2>4
    <2>6. hist[q] \o SubSeq(t, 1, c) \in Seq(Token)
      BY <1>1, <2>5
    <2> QED
      BY <2>2, <2>6 DEF t, c
  <1>3. hist' \in [Live(kv) -> Seq(Token)]
    BY <1>1, <1>2 DEF Grown
  <1> QED
    BY <1>3 DEF HistOK

\* Every operation preserves the invariant.
LEMMA NextInv == Inv /\ [Next]_vars => Inv'
  <1> SUFFICES ASSUME Inv, [Next]_vars PROVE Inv'
    OBVIOUS
  <1>0. KvInv(kv) /\ ManagerType(kv) /\ HistOK /\ WorkOK
    BY DEF Inv, KvInv
  <1>1. ASSUME NEW enabled \in BOOLEAN, SetCaching(enabled) PROVE Inv'
    <2>1. KvInv(kv') /\ Live(kv') = Live(kv) /\ kv'.resv = kv.resv
      BY <1>0, <1>1, SetCachingPreserves, SetCachingTables DEF SetCaching
    <2> QED
      BY <1>0, <1>1, <2>1, SideUnchanged DEF Inv, SetCaching
  <1>2. ASSUME NEW r \in Request, Create(r) PROVE Inv'
    <2>1. r \in Request \ Live(kv)
      BY <1>2 DEF Create
    <2>2. KvInv(kv') /\ Live(kv') = Live(kv) \cup {r} /\ kv'.resv = kv.resv
      BY <1>0, <1>2, <2>1, CreatePreserves, CreateTables DEF Create
    <2>3. hist' = WithHistory(r, <<>>) /\ <<>> \in Seq(Token) /\ UNCHANGED work
      BY <1>2 DEF Create
    <2> QED
      BY <1>0, <2>2, <2>3, HistAdded, WorkUnchanged DEF Inv
  <1>3. ASSUME NEW r \in Request, NEW n \in 1..MaxSequenceLength,
               NEW tokens \in Tokens(n), CreateWithPrefix(r, tokens)
        PROVE  Inv'
    <2>1. r \in Request \ Live(kv) /\ tokens \in Seq(Token)
      BY <1>3 DEF CreateWithPrefix, Tokens
    <2>2. PICK m \in Matches(kv, tokens) :
             /\ kv' = CreateSequenceWithPrefix(kv, r, tokens, m)
             /\ hist' = WithHistory(r, BlockKey(tokens, m))
      BY <1>3 DEF CreateWithPrefix
    <2>3. KvInv(kv') /\ Live(kv') = Live(kv) \cup {r} /\ kv'.resv = kv.resv
      BY <1>0, <2>1, <2>2, CreateWithPrefixPreserves, CreateWithPrefixTables
    <2>4. BlockKey(tokens, m) \in Seq(Token)
      BY <2>1, MatchedBlocks, KeyLength
    <2>5. UNCHANGED work
      BY <1>3 DEF CreateWithPrefix
    <2> QED
      BY <1>0, <2>2, <2>3, <2>4, <2>5, HistAdded, WorkUnchanged DEF Inv
  <1>4. ASSUME NEW r \in Live(kv), NEW n \in 0..Len(hist[r]), Register(r, n) PROVE Inv'
    <2>1. hist[r] \in Seq(Token)
      BY <1>0 DEF HistOK
    <2>2. SubSeq(hist[r], 1, n) \in Seq(Token)
      BY <2>1
    <2>3. KvInv(kv') /\ Live(kv') = Live(kv) /\ kv'.resv = kv.resv
      BY <1>0, <1>4, <2>2, RegisterPreserves, RegisterTables DEF Register
    <2> QED
      BY <1>0, <1>4, <2>3, SideUnchanged DEF Inv, Register
  <1>5. ASSUME NEW r \in Live(kv), Remove(r) PROVE Inv'
    <2>1. KvInv(kv') /\ Live(kv') = Live(kv) \ {r} /\ kv'.resv = kv.resv
      BY <1>0, <1>5, RemovePreserves, RemoveTables DEF Remove
    <2>2. HistOK'
      <3>1. DOMAIN hist = Live(kv) /\ \A q \in Live(kv) : hist[q] \in Seq(Token)
        BY <1>0 DEF HistOK
      <3>2. hist' = [q \in Live(kv) \ {r} |-> hist[q]]
        BY <1>5, <3>1 DEF Remove, Restrict
      <3> QED
        BY <2>1, <3>1, <3>2 DEF HistOK
    <2>3. WorkOK'
      BY <1>0, <1>5, <2>1, WorkUnchanged DEF Remove
    <2> QED
      BY <2>1, <2>2, <2>3 DEF Inv
  <1>6. ASSUME NEW r \in Live(kv), NEW n \in 1..MaxSequenceLength,
               NEW tokens \in Tokens(n), Begin(r, tokens)
        PROVE  Inv'
    <2> DEFINE id == kv.nextResv
               len == Len(tokens)
    <2>1. tokens \in Seq(Token) /\ len \in Nat
      BY DEF Tokens
    <2>2. PICK new \in Allocations(kv, Additional(kv, r, kv.seqs[r].committed + len)) :
             kv' = BeginAppend(kv, r, len, new)
      BY <1>6 DEF Begin
    <2>3. KvInv(kv')
      BY <1>0, <1>6, <2>1, <2>2, BeginPreserves DEF Begin
    <2>4. /\ Live(kv') = Live(kv)
          /\ DOMAIN kv'.resv = DOMAIN kv.resv \cup {id}
          /\ kv'.resv[id].count = len
          /\ \A i \in DOMAIN kv.resv \ {id} : kv'.resv[i] = kv.resv[i]
      BY <1>0, <2>2, BeginTables
    <2>5. HistOK'
      BY <1>0, <1>6, <2>4 DEF HistOK, Begin
    <2> DEFINE entry == [tokens |-> tokens, state |-> "reserved"]
    <2>6. entry \in Work /\ entry.tokens = tokens
      BY <2>1 DEF Work
    <2> HIDE DEF entry
    <2>7. /\ DOMAIN work = DOMAIN kv.resv
          /\ \A i \in DOMAIN kv.resv : work[i] \in Work
          /\ \A i \in DOMAIN kv.resv : Len(work[i].tokens) = kv.resv[i].count
      BY <1>0 DEF WorkOK
    <2>8. work' = [i \in DOMAIN kv.resv \cup {id} |-> IF i = id THEN entry ELSE work[i]]
      BY <1>6, <2>7 DEF Begin, entry
    <2>9. work' \in [DOMAIN kv'.resv -> Work]
      BY <2>4, <2>6, <2>7, <2>8
    <2>10. \A i \in DOMAIN kv'.resv : Len(work'[i].tokens) = kv'.resv[i].count
      BY <2>4, <2>6, <2>7, <2>8
    <2> QED
      BY <2>3, <2>5, <2>9, <2>10 DEF Inv, WorkOK
  <1>7. ASSUME NEW id \in Reservations, NEW n \in 1..MaxSequenceLength,
               NEW extra \in Tokens(n), Extend(id, extra)
        PROVE  Inv'
    <2> DEFINE len == Len(extra)
               t == work[id].tokens
    <2>1. extra \in Seq(Token) /\ len \in Nat /\ id \in DOMAIN kv.resv
      BY DEF Tokens, Reservations
    <2>2. PICK new \in Allocations(kv, Additional(kv, kv.resv[id].request,
                          kv.resv[id].start + kv.resv[id].count + len)) :
             kv' = ExtendAppend(kv, id, len, new)
      BY <1>7 DEF Extend
    <2>3. KvInv(kv')
      BY <1>0, <1>7, <2>1, <2>2, ExtendPreserves DEF Extend
    <2>4. /\ Live(kv') = Live(kv)
          /\ DOMAIN kv'.resv = DOMAIN kv.resv
          /\ kv'.resv[id].count = kv.resv[id].count + len
          /\ \A i \in DOMAIN kv.resv \ {id} : kv'.resv[i] = kv.resv[i]
      BY <1>0, <2>1, <2>2, ExtendTables
    <2>5. HistOK'
      BY <1>0, <1>7, <2>4 DEF HistOK, Extend
    <2>6. /\ DOMAIN work = DOMAIN kv.resv
          /\ \A i \in DOMAIN kv.resv : work[i] \in Work
          /\ \A i \in DOMAIN kv.resv : Len(work[i].tokens) = kv.resv[i].count
      BY <1>0 DEF WorkOK
    <2>7. t \in Seq(Token) /\ work[id] \in Work /\ Len(t) = kv.resv[id].count
      BY <2>1, <2>6 DEF Work
    <2> DEFINE u == t \o extra
               w == [work[id] EXCEPT !.tokens = u]
    <2>8. u \in Seq(Token) /\ Len(u) = Len(t) + len
      <3> HIDE DEF t
      <3> QED
        BY <2>1, <2>7, ConcatProperties
    <2>9. work' = [work EXCEPT ![id] = w]
      BY <1>7 DEF Extend
    <2> HIDE DEF u
    <2>10. w \in Work /\ w.tokens = u
      BY <2>7, <2>8 DEF Work
    <2> HIDE DEF w, t, len
    <2>11. work' \in [DOMAIN kv'.resv -> Work]
      BY <2>1, <2>4, <2>6, <2>9, <2>10
    <2>12. \A i \in DOMAIN kv'.resv : Len(work'[i].tokens) = kv'.resv[i].count
      <3> SUFFICES ASSUME NEW i \in DOMAIN kv.resv
                   PROVE  Len(work'[i].tokens) = kv'.resv[i].count
        BY <2>4
      <3>1. CASE i = id
        BY <2>1, <2>4, <2>6, <2>7, <2>8, <2>9, <2>10, <3>1
      <3>2. CASE i # id
        BY <2>1, <2>4, <2>6, <2>9, <3>2
      <3> QED
        BY <3>1, <3>2
    <2> QED
      BY <2>3, <2>5, <2>11, <2>12 DEF Inv, WorkOK
  <1>8. ASSUME NEW id \in Reservations, NEW ok \in BOOLEAN, DeviceRun(id, ok) PROVE Inv'
    <2>1. kv' = kv /\ hist' = hist /\ id \in DOMAIN kv.resv
      BY <1>8 DEF DeviceRun, Reservations
    <2>2. HistOK'
      BY <1>0, <2>1 DEF HistOK
    <2> DEFINE st == IF ok THEN "written" ELSE "failed"
               w == [work[id] EXCEPT !.state = st]
    <2>3. work' = [work EXCEPT ![id] = w]
      BY <1>8 DEF DeviceRun
    <2>4. /\ DOMAIN work = DOMAIN kv.resv
          /\ \A i \in DOMAIN kv.resv : work[i] \in Work
          /\ \A i \in DOMAIN kv.resv : Len(work[i].tokens) = kv.resv[i].count
      BY <1>0 DEF WorkOK
    <2>5. st \in {"reserved", "written", "failed"}
      OBVIOUS
    <2> HIDE DEF st
    <2>6. w \in Work /\ w.tokens = work[id].tokens
      BY <2>1, <2>4, <2>5 DEF Work
    <2> HIDE DEF w
    <2>7. work' \in [DOMAIN kv.resv -> Work]
      BY <2>1, <2>3, <2>4, <2>6
    <2>8. \A i \in DOMAIN kv.resv : Len(work'[i].tokens) = kv.resv[i].count
      BY <2>1, <2>3, <2>4, <2>6
    <2> QED
      BY <1>0, <2>1, <2>2, <2>7, <2>8 DEF Inv, WorkOK
  <1>9. ASSUME NEW ids \in SUBSET Reservations, Commit(ids) PROVE Inv'
    <2> DEFINE consumed == [i \in ids |-> kv.resv[i].count]
    <2>1. ids \in SUBSET DOMAIN kv.resv
      BY DEF Reservations
    <2>2. KvInv(kv') /\ Closed(kv, ids, kv')
      BY <1>0, <1>9, <2>1, CommitPreserves, CommitTables DEF Commit
    <2>3. \A i \in ids : consumed[i] \in 1 .. kv.resv[i].count
      <3> TAKE i \in ids
      <3>1. kv.resv[i].count \in Nat \ {0}
        BY <1>0, <2>1, LiveReservation DEF ManagerType, ReservationState
      <3> QED
        BY <3>1
    <2>4. hist' = Grown(ids, consumed) /\ Live(kv') = Live(kv)
      BY <1>9, <2>2 DEF Commit, Closed
    <2> HIDE DEF consumed
    <2>5. HistOK'
      BY <2>1, <2>3, <2>4, HistGrown
    <2>6. WorkOK'
      BY <1>0, <1>9, <2>2, WorkClosed DEF Commit
    <2> QED
      BY <2>2, <2>5, <2>6 DEF Inv
  <1>10. ASSUME NEW ids \in SUBSET Reservations, NEW consumed \in Counts(ids),
                CommitPrefix(ids, consumed)
         PROVE  Inv'
    <2>1. ids \in SUBSET DOMAIN kv.resv
      BY DEF Reservations
    <2>2. \A i \in ids : consumed[i] \in 1 .. kv.resv[i].count
      BY <1>10 DEF CommitPrefix
    <2>3. KvInv(kv') /\ Closed(kv, ids, kv')
      BY <1>0, <1>10, <2>1, <2>2, CommitPrefixesPreserves, CommitPrefixTables
      DEF CommitPrefix
    <2>4. hist' = Grown(ids, consumed) /\ Live(kv') = Live(kv)
      BY <1>10, <2>3 DEF CommitPrefix, Closed
    <2>5. HistOK'
      BY <2>1, <2>2, <2>4, HistGrown
    <2>6. WorkOK'
      BY <1>0, <1>10, <2>3, WorkClosed DEF CommitPrefix
    <2> QED
      BY <2>3, <2>5, <2>6 DEF Inv
  <1>11. ASSUME NEW ids \in SUBSET Reservations, Cancel(ids) PROVE Inv'
    <2>1. ids \in SUBSET DOMAIN kv.resv
      BY DEF Reservations
    <2>2. KvInv(kv') /\ Closed(kv, ids, kv')
      BY <1>0, <1>11, <2>1, CancelPreserves, CancelTables DEF Cancel
    <2>3. HistOK'
      BY <1>0, <1>11, <2>2 DEF HistOK, Cancel, Closed
    <2>4. WorkOK'
      BY <1>0, <1>11, <2>2, WorkClosed DEF Cancel
    <2> QED
      BY <2>2, <2>3, <2>4 DEF Inv
  <1>12. CASE UNCHANGED vars
    <2>1. kv' = kv /\ hist' = hist /\ work' = work
      BY <1>12 DEF vars
    <2> QED
      BY <1>0, <2>1 DEF Inv, HistOK, WorkOK
  <1> QED
    BY <1>1, <1>2, <1>3, <1>4, <1>5, <1>6, <1>7, <1>8, <1>9, <1>10, <1>11, <1>12
    DEF Next

\* The inductive invariant.
LEMMA InvAlways == Spec => []Inv
  BY InitInv, NextInv, PTL DEF Spec

-----------------------------------------------------------------------------
(* Positions, pages and slots                                              *)

\* Position i lies in slot SlotOf(i) of page number q + 1, where q whole pages
\* come before it.
LEMMA PositionParts ==
    ASSUME NEW i \in Nat \ {0}
    PROVE  LET q == (i - 1) \div BlockSize
           IN  /\ q \in Nat /\ SlotOf(i) \in Slot
               /\ i = BlockSize * q + SlotOf(i)
  <1> DEFINE a == i - 1
             q == a \div BlockSize
             s == a % BlockSize
  <1>1. a \in Nat
    OBVIOUS
  <1> HIDE DEF a
  <1>2. q \in Int /\ BlockSize * q <= a /\ a < BlockSize * q + BlockSize
    BY <1>1, DivBounds
  <1>3. s \in 0 .. BlockSize - 1 /\ a = BlockSize * q + s
    BY <1>1, ConfigAssumption, SMT
  <1>4. ASSUME q < 0 PROVE FALSE
    <2>1. BlockSize * q + BlockSize <= BlockSize * 0
      BY <1>2, <1>4, MulGap
    <2>2. BlockSize * q \in Int
      BY <1>2, ConfigAssumption
    <2> HIDE DEF q, s
    <2> QED
      BY <1>1, <1>2, <2>1, <2>2, ConfigAssumption
  <1>5. q \in Nat /\ SlotOf(i) = s + 1 /\ BlockSize * q \in Int
    BY <1>2, <1>4, ConfigAssumption DEF SlotOf, a
  <1> HIDE DEF q, s
  <1>6. SlotOf(i) \in Slot /\ i = BlockSize * q + SlotOf(i)
    BY <1>1, <1>3, <1>5, ConfigAssumption DEF Slot, a
  <1> QED
    BY <1>5, <1>6 DEF q, a

\* Those parts determine the position.
LEMMA PartsUnique ==
    ASSUME NEW p \in Nat, NEW q \in Nat, NEW s \in Slot, NEW t \in Slot,
           BlockSize * p + s = BlockSize * q + t
    PROVE  p = q /\ s = t
  <1>0. /\ BlockSize * p \in Int /\ BlockSize * q \in Int
        /\ s \in Int /\ t \in Int /\ 1 <= s /\ s <= BlockSize /\ 1 <= t /\ t <= BlockSize
    BY ConfigAssumption DEF Slot
  <1>1. ASSUME p < q PROVE FALSE
    <2>1. BlockSize * p + BlockSize <= BlockSize * q
      BY <1>1, MulGap
    <2> QED
      BY <1>0, <2>1, ConfigAssumption
  <1>2. ASSUME q < p PROVE FALSE
    <2>1. BlockSize * q + BlockSize <= BlockSize * p
      BY <1>2, MulGap
    <2> QED
      BY <1>0, <2>1, ConfigAssumption
  <1>3. p = q
    BY <1>1, <1>2
  <1> QED
    BY <1>0, <1>3

\* The position of slot s after q whole pages.
LEMMA PositionOf ==
    ASSUME NEW q \in Nat, NEW s \in Slot
    PROVE  LET i == BlockSize * q + s
           IN  /\ i \in Nat \ {0} /\ SlotOf(i) = s
               /\ (i - 1) \div BlockSize = q
               /\ \A pages : PageOf(pages, i) = pages[q + 1]
  <1> DEFINE i == BlockSize * q + s
             p == (i - 1) \div BlockSize
  <1>1. BlockSize * q \in Nat /\ s \in Nat \ {0}
    BY ConfigAssumption DEF Slot
  <1>2. i \in Nat \ {0}
    <2> DEFINE x == BlockSize * q
    <2> HIDE DEF x
    <2>1. x \in Nat
      BY <1>1 DEF x
    <2>2. x + s \in Nat \ {0}
      BY <1>1, <2>1
    <2> QED
      BY <2>2 DEF x
  <1> HIDE DEF i
  <1>3. p \in Nat /\ SlotOf(i) \in Slot /\ i = BlockSize * p + SlotOf(i)
    BY <1>2, PositionParts
  <1> HIDE DEF p
  <1>4. p = q /\ SlotOf(i) = s
    BY <1>3, PartsUnique DEF i
  <1> QED
    BY <1>2, <1>4 DEF PageOf, p, i

\* The first n positions lie in the first PagesFor(n) pages.
LEMMA PositionWithin ==
    ASSUME NEW n \in Nat, NEW i \in 1..n
    PROVE  LET q == (i - 1) \div BlockSize IN q \in Nat /\ q + 1 \in 1..PagesFor(n)
  <1> DEFINE q == (i - 1) \div BlockSize
             x == BlockSize * q
             y == BlockSize * PagesFor(n)
  <1>1. i \in Nat \ {0}
    OBVIOUS
  <1>2. q \in Nat /\ SlotOf(i) \in Slot /\ i = x + SlotOf(i)
    BY <1>1, PositionParts
  <1>3. PagesFor(n) \in Nat /\ n <= y
    BY PagesForBounds
  <1> HIDE DEF q
  <1>4. x \in Int /\ y \in Int /\ SlotOf(i) >= 1 /\ SlotOf(i) \in Int
    BY <1>2, <1>3, ConfigAssumption DEF Slot
  <1>5. ASSUME PagesFor(n) <= q PROVE FALSE
    <2>1. y <= x
      BY <1>2, <1>3, <1>4, <1>5, BlocksWithin
    <2> HIDE DEF x, y
    <2> QED
      BY <1>2, <1>3, <1>4, <2>1
  <1> QED
    BY <1>2, <1>3, <1>5 DEF q

\* A position past the first n lies in a page that ends past them.
LEMMA PositionPast ==
    ASSUME NEW n \in Nat, NEW i \in Nat \ {0}, i > n
    PROVE  LET q == (i - 1) \div BlockSize IN (q + 1) * BlockSize > n
  <1> DEFINE q == (i - 1) \div BlockSize
             x == BlockSize * q
  <1>1. q \in Nat /\ SlotOf(i) \in Slot /\ i = x + SlotOf(i)
    BY PositionParts
  <1> HIDE DEF q
  <1>2. (q + 1) * BlockSize = x + BlockSize /\ x \in Int
    BY <1>1, ConfigAssumption
  <1> HIDE DEF x
  <1>3. (q + 1) * BlockSize > n
    BY <1>1, <1>2, ConfigAssumption DEF Slot
  <1> QED
    BY <1>3 DEF q

-----------------------------------------------------------------------------
(* Prefixes of token sequences                                             *)

\* A prefix of a prefix.
LEMMA PrefixOfPrefix ==
    ASSUME NEW t \in Seq(Token), NEW n \in 0..Len(t), NEW i \in 0..n
    PROVE  SubSeq(SubSeq(t, 1, n), 1, i) = SubSeq(t, 1, i)
  <1>1. CASE i = 0
    BY <1>1
  <1>2. CASE i # 0
    BY <1>2, SubSeqOfSubSeq
  <1> QED
    BY <1>1, <1>2

\* A prefix that ends before the appended text.
LEMMA PrefixOfConcat ==
    ASSUME NEW h \in Seq(Token), NEW t \in Seq(Token), NEW i \in 0..Len(h)
    PROVE  SubSeq(h \o t, 1, i) = SubSeq(h, 1, i)
  <1>1. CASE i = 0
    BY <1>1
  <1>2. CASE i # 0
    BY <1>2, SubSeqOfConcat1
  <1> QED
    BY <1>1, <1>2

\* A prefix of a text that a partial commit has grown.
LEMMA PrefixOfGrown ==
    ASSUME NEW h \in Seq(Token), NEW t \in Seq(Token), NEW c \in 0..Len(t),
           NEW i \in 0 .. Len(h) + c
    PROVE  SubSeq(h \o SubSeq(t, 1, c), 1, i) = SubSeq(h \o t, 1, i)
  <1> DEFINE u == SubSeq(t, 1, c)
             a == SubSeq(h \o u, 1, i)
             b == SubSeq(h \o t, 1, i)
  <1>1. u \in Seq(Token) /\ Len(u) = c /\ \A j \in 1..c : u[j] = t[j]
    BY SubSeqProperties
  <1>2. /\ h \o u \in Seq(Token) /\ Len(h \o u) = Len(h) + c
        /\ \A j \in 1 .. Len(h) + c : (h \o u)[j] = IF j <= Len(h) THEN h[j] ELSE u[j - Len(h)]
    BY <1>1, ConcatProperties
  <1>3. /\ h \o t \in Seq(Token) /\ Len(h \o t) = Len(h) + Len(t)
        /\ \A j \in 1 .. Len(h) + Len(t) : (h \o t)[j] = IF j <= Len(h) THEN h[j] ELSE t[j - Len(h)]
    BY ConcatProperties
  <1>4. /\ Len(h) \in Nat /\ Len(t) \in Nat /\ c \in Nat /\ c <= Len(t) /\ i \in Nat
        /\ i <= Len(h) + c
    OBVIOUS
  <1> HIDE DEF u
  <1>5. \A j \in 1..i : (h \o u)[j] = (h \o t)[j]
    <2> TAKE j \in 1..i
    <2>1. j \in 1 .. Len(h) + c /\ j \in 1 .. Len(h) + Len(t)
      BY <1>4
    <2>2. CASE j <= Len(h)
      BY <1>2, <1>3, <2>1, <2>2
    <2>3. CASE ~(j <= Len(h))
      <3>1. j - Len(h) \in 1..c
        BY <1>4, <2>1, <2>3
      <3> QED
        BY <1>1, <1>2, <1>3, <2>1, <2>3, <3>1
    <2> QED
      BY <2>2, <2>3
  <1>6. /\ a \in Seq(Token) /\ Len(a) = i /\ \A j \in 1..i : a[j] = (h \o u)[j]
        /\ b \in Seq(Token) /\ Len(b) = i /\ \A j \in 1..i : b[j] = (h \o t)[j]
    <2> DEFINE x == h \o u
               y == h \o t
    <2>1. \A j \in 1..i : x[j] \in Token /\ y[j] \in Token
      BY <1>2, <1>3, <1>4, <1>5, ElementOfSeq
    <2> HIDE DEF x, y
    <2>2. /\ SubSeq(x, 1, i) \in Seq(Token) /\ Len(SubSeq(x, 1, i)) = i
          /\ \A j \in 1..i : SubSeq(x, 1, i)[j] = x[j]
      BY <1>4, <2>1
    <2>3. /\ SubSeq(y, 1, i) \in Seq(Token) /\ Len(SubSeq(y, 1, i)) = i
          /\ \A j \in 1..i : SubSeq(y, 1, i)[j] = y[j]
      BY <1>4, <2>1
    <2> QED
      BY <2>2, <2>3 DEF x, y
  <1> HIDE DEF a, b
  <1>7. a = b
    BY <1>5, <1>6, SeqEqual
  <1> QED
    BY <1>7 DEF a, b, u

\* Blocks chained to a prefix give a longer prefix.
LEMMA PrefixChained ==
    ASSUME NEW t \in Seq(Token), NEW a \in 0..Len(t), NEW b \in a..Len(t)
    PROVE  SubSeq(t, 1, a) \o SubSeq(t, a + 1, b) = SubSeq(t, 1, b)
  BY ConcatAdjacentSubSeq, SMT

\* A whole number of blocks leaves no remainder.
LEMMA BlocksWhole ==
    ASSUME NEW b \in Nat
    PROVE  (b * BlockSize) % BlockSize = 0
  <1> DEFINE a == b * BlockSize
             q == a \div BlockSize
             s == a % BlockSize
  <1>1. a \in Nat /\ a = BlockSize * b
    BY ConfigAssumption
  <1> HIDE DEF a
  <1>2. s \in Int
    BY <1>1, ConfigAssumption, SMT
  <1>3. a + 1 \in Nat \ {0} /\ (a + 1) - 1 = a /\ SlotOf(a + 1) = s + 1
    BY <1>1 DEF SlotOf
  <1>4. q \in Nat /\ SlotOf(a + 1) \in Slot /\ a + 1 = BlockSize * q + SlotOf(a + 1)
    BY <1>3, PositionParts
  <1> HIDE DEF q, s
  <1>5. 1 \in Slot /\ BlockSize * q + SlotOf(a + 1) = BlockSize * b + 1
    BY <1>1, <1>4, ConfigAssumption DEF Slot
  <1>6. SlotOf(a + 1) = 1
    BY <1>4, <1>5, PartsUnique
  <1>7. s = 0
    BY <1>2, <1>3, <1>6
  <1> QED
    BY <1>7 DEF a, s

-----------------------------------------------------------------------------
(* What the device memory holds                                            *)

\* The committed tokens of a sequence are its text, memory holds them, and its
\* chain stands for its registered blocks.
SeqHolds(s, text, M) ==
    /\ Len(text) = s.committed
    /\ \A i \in 1..s.committed : Held(M, s.pages, i) = SubSeq(text, 1, i)
    /\ s.registered * BlockSize <= s.committed
    /\ s.chain = SubSeq(text, 1, s.registered * BlockSize)

HistoriesHold(m, h, M) == \A r \in Live(m) : SeqHolds(m.seqs[r], h[r], M)

\* A published page holds the last block of its key.
IndexHolds(m, M) ==
    \A k \in DOMAIN m.index :
        /\ Len(k) % BlockSize = 0
        /\ \A x \in Slot : M[m.index[k]][x] = SubSeq(k, 1, Len(k) - BlockSize + x)

\* Memory holds the tokens of reservation i after those of its sequence.
ReservationHolds(m, h, w, M, i) ==
    LET v == m.resv[i]
    IN  \A j \in v.start + 1 .. v.start + v.count :
            Held(M, m.seqs[v.request].pages, j)
               = SubSeq(h[v.request] \o w[i].tokens, 1, j)

WrittenHolds(m, h, w, M) ==
    \A i \in DOMAIN m.resv :
        w[i].state = "written" => ReservationHolds(m, h, w, M, i)

Content ==
    /\ HistoriesHold(kv, hist, mem)
    /\ IndexHolds(kv, mem)
    /\ WrittenHolds(kv, hist, work, mem)

\* The tables t and u map their first n positions to the same pages.
AgreeUpTo(t, u, n) == \A j \in 1..PagesFor(n) : u[j] = t[j]

\* Tables that agree lead to the same memory.
LEMMA HeldAgrees ==
    ASSUME NEW n \in Nat, NEW t, NEW u, AgreeUpTo(t, u, n), NEW M, NEW i \in 1..n
    PROVE  Held(M, u, i) = Held(M, t, i)
  <1>1. (i - 1) \div BlockSize + 1 \in 1..PagesFor(n)
    BY PositionWithin
  <1>2. PageOf(u, i) = PageOf(t, i)
    BY <1>1 DEF AgreeUpTo, PageOf
  <1> QED
    BY <1>2 DEF Held

\* A table that keeps the pages of the committed tokens keeps the content.
LEMMA SeqKept ==
    ASSUME NEW s \in SequenceState, NEW text, NEW M, SeqHolds(s, text, M), NEW z,
           z.committed = s.committed, z.registered = s.registered, z.chain = s.chain,
           AgreeUpTo(s.pages, z.pages, s.committed)
    PROVE  SeqHolds(z, text, M)
  <1>1. s.committed \in Nat
    BY DEF SequenceState
  <1>2. \A i \in 1..s.committed : Held(M, z.pages, i) = Held(M, s.pages, i)
    BY <1>1, HeldAgrees
  <1> QED
    BY <1>2 DEF SeqHolds

\* Cached content stays right while keys only leave the index.
LEMMA IndexKept ==
    ASSUME NEW m, NEW n, NEW M, IndexHolds(m, M), IndexShrinks(m, n)
    PROVE  IndexHolds(n, M)
  BY DEF IndexHolds, IndexShrinks

\* A written reservation that a step leaves alone keeps its content.
LEMMA WrittenKept ==
    ASSUME NEW m, NEW h, NEW w, NEW M, WrittenHolds(m, h, w, M), NEW n, NEW g, NEW x,
           \A i \in DOMAIN n.resv : x[i].state = "written" =>
              /\ i \in DOMAIN m.resv /\ n.resv[i] = m.resv[i]
              /\ w[i].state = "written" /\ x[i].tokens = w[i].tokens
              /\ n.seqs[m.resv[i].request].pages = m.seqs[m.resv[i].request].pages
              /\ g[m.resv[i].request] = h[m.resv[i].request]
    PROVE  WrittenHolds(n, g, x, M)
  <1> SUFFICES ASSUME NEW i \in DOMAIN n.resv, x[i].state = "written"
               PROVE  ReservationHolds(n, g, x, M, i)
    BY DEF WrittenHolds
  <1>1. ReservationHolds(m, h, w, M, i)
    BY DEF WrittenHolds
  <1> QED
    BY <1>1 DEF ReservationHolds

\* Committing the first c tokens of a written reservation extends the text.
LEMMA CommittedHolds ==
    ASSUME NEW s \in SequenceState, NEW h \in Seq(Token), NEW t \in Seq(Token), NEW M,
           SeqHolds(s, h, M),
           \A j \in s.committed + 1 .. s.committed + Len(t) :
              Held(M, s.pages, j) = SubSeq(h \o t, 1, j),
           NEW c \in 0..Len(t), NEW z,
           z.committed = s.committed + c, z.registered = s.registered, z.chain = s.chain,
           AgreeUpTo(s.pages, z.pages, s.committed + c)
    PROVE  SeqHolds(z, h \o SubSeq(t, 1, c), M)
  <1> DEFINE u == SubSeq(t, 1, c)
             k == s.committed
             e == s.registered * BlockSize
  <1>1. k \in Nat /\ c \in Nat /\ c <= Len(t) /\ Len(t) \in Nat /\ Len(h) = k /\ e \in Nat
    BY ConfigAssumption DEF SequenceState, SeqHolds
  <1>2. u \in Seq(Token) /\ Len(u) = c
    BY <1>1
  <1>3. Len(h \o u) = z.committed
    BY <1>1, <1>2, ConcatProperties
  <1>4. ASSUME NEW i \in 1..z.committed
        PROVE  Held(M, z.pages, i) = SubSeq(h \o u, 1, i)
    <2>1. k + c \in Nat /\ i \in 1 .. k + c
      BY <1>1
    <2>2. Held(M, z.pages, i) = Held(M, s.pages, i)
      BY <2>1, HeldAgrees
    <2>3. CASE i <= k
      <3>1. Held(M, s.pages, i) = SubSeq(h, 1, i)
        BY <1>1, <2>1, <2>3 DEF SeqHolds
      <3>2. SubSeq(h \o u, 1, i) = SubSeq(h, 1, i)
        <4>1. i \in 0..Len(h)
          BY <1>1, <2>1, <2>3
        <4> HIDE DEF u
        <4> QED
          BY <1>2, <4>1, PrefixOfConcat
      <3> QED
        BY <2>2, <3>1, <3>2
    <2>4. CASE ~(i <= k)
      <3>1. i \in s.committed + 1 .. s.committed + Len(t) /\ i \in 0 .. Len(h) + c
        BY <1>1, <2>1, <2>4
      <3>2. Held(M, s.pages, i) = SubSeq(h \o t, 1, i)
        BY <3>1
      <3>3. SubSeq(h \o u, 1, i) = SubSeq(h \o t, 1, i)
        BY <1>1, <3>1, PrefixOfGrown
      <3> QED
        BY <2>2, <3>2, <3>3
    <2> QED
      BY <2>3, <2>4
  <1>5. z.registered * BlockSize <= z.committed
    <2>1. e <= k
      BY DEF SeqHolds
    <2> QED
      BY <1>1, <2>1
  <1>6. z.chain = SubSeq(h \o u, 1, e)
    <2>1. e <= k /\ s.chain = SubSeq(h, 1, e)
      BY DEF SeqHolds
    <2>2. e \in 0..Len(h)
      BY <1>1, <2>1
    <2> HIDE DEF e, u
    <2>3. SubSeq(h \o u, 1, e) = SubSeq(h, 1, e)
      BY <1>2, <2>2, PrefixOfConcat
    <2> QED
      BY <2>1, <2>3
  <1> HIDE DEF u
  <1>7. SeqHolds(z, h \o u, M)
    BY <1>3, <1>4, <1>5, <1>6 DEF SeqHolds
  <1> QED
    BY <1>7 DEF u

-----------------------------------------------------------------------------
(* Running the device                                                      *)

\* Two of the first n positions of a table never share a slot.
LEMMA PositionsDistinct ==
    ASSUME NEW t \in Seq(Page), IsInjective(t), NEW n \in Nat, PagesFor(n) <= Len(t),
           NEW i \in 1..n, NEW k \in 1..n,
           PageOf(t, i) = PageOf(t, k), SlotOf(i) = SlotOf(k)
    PROVE  i = k
  <1> DEFINE p == (i - 1) \div BlockSize
             q == (k - 1) \div BlockSize
  <1>1. i \in Nat \ {0} /\ k \in Nat \ {0}
    OBVIOUS
  <1>2. /\ p \in Nat /\ SlotOf(i) \in Slot /\ i = BlockSize * p + SlotOf(i)
        /\ q \in Nat /\ SlotOf(k) \in Slot /\ k = BlockSize * q + SlotOf(k)
    BY <1>1, PositionParts
  <1>3. p + 1 \in 1..PagesFor(n) /\ q + 1 \in 1..PagesFor(n)
    BY PositionWithin
  <1>4. t[p + 1] = t[q + 1]
    BY DEF PageOf
  <1> HIDE DEF p, q
  <1>5. p + 1 \in DOMAIN t /\ q + 1 \in DOMAIN t
    <2>1. PagesFor(n) \in Nat
      BY PagesForBounds
    <2> QED
      BY <1>2, <1>3, <2>1
  <1>6. p + 1 = q + 1
    BY <1>4, <1>5 DEF IsInjective
  <1>7. p = q
    BY <1>2, <1>6
  <1> QED
    BY <1>2, <1>7

\* The positions that reservation id reserves.
Spot(m, id) == m.resv[id].start + 1 .. m.resv[id].start + m.resv[id].count

\* They lie in pages that only its sequence maps and that are not published.
LEMMA SpotExclusive ==
    ASSUME NEW m, KvInv(m), NEW id \in DOMAIN m.resv, NEW i \in Spot(m, id)
    PROVE  LET r == m.resv[id].request
               p == PageOf(m.seqs[r].pages, i)
           IN  /\ p \in Page /\ Owners(m, p) = {r} /\ m.block[p] = NoBlock
               /\ SlotOf(i) \in Slot
  <1> DEFINE r == m.resv[id].request
             t == m.seqs[r].pages
             c == m.seqs[r].committed
             n == m.resv[id].start + m.resv[id].count
             q == (i - 1) \div BlockSize
  <1>1. /\ r \in Live(m) /\ c = m.resv[id].start /\ Len(t) = PagesFor(n)
        /\ m.resv[id].start \in Nat /\ m.resv[id].count \in Nat
    BY LiveReservation
  <1>2. t \in Seq(Page)
    BY <1>1, LiveSequence
  <1>3. n \in Nat /\ c \in Nat /\ i \in 1..n /\ i \in Nat \ {0} /\ i > c
    BY <1>1 DEF Spot
  <1>4. q \in Nat /\ q + 1 \in 1..PagesFor(n)
    BY <1>3, PositionWithin
  <1>5. (q + 1) * BlockSize > c
    BY <1>3, PositionPast
  <1>6. SlotOf(i) \in Slot
    BY <1>3, PositionParts
  <1> HIDE DEF t, c, q
  <1>7. q + 1 \in DOMAIN t /\ t[q + 1] \in Page
    BY <1>1, <1>2, <1>4
  <1>8. Owners(m, t[q + 1]) = {r} /\ m.block[t[q + 1]] = NoBlock
    BY <1>1, <1>5, <1>7 DEF KvInv, ExclusiveTails, t, c
  <1> QED
    BY <1>6, <1>7, <1>8 DEF PageOf, t, q

\* The memory after the device has written text to those positions, or anything
\* (Garbage) when it failed.
WrittenMemory(m, id, text, ok, M) ==
    LET v     == m.resv[id]
        pages == m.seqs[v.request].pages
        spot  == v.start + 1 .. v.start + v.count
    IN  [p \in Page |-> [s \in Slot |->
            IF \E i \in spot : PageOf(pages, i) = p /\ SlotOf(i) = s
            THEN LET i == CHOOSE i \in spot : PageOf(pages, i) = p /\ SlotOf(i) = s
                 IN  IF ok THEN SubSeq(text, 1, i) ELSE Garbage
            ELSE M[p][s]]]

\* Every page that another sequence maps keeps its slots, and so does every
\* published page.
LEMMA WritesOwnPages ==
    ASSUME NEW m, KvInv(m), NEW id \in DOMAIN m.resv, NEW text, NEW ok \in BOOLEAN, NEW M,
           NEW p \in Page, NEW s \in Slot,
           Owners(m, p) # {m.resv[id].request} \/ m.block[p] # NoBlock
    PROVE  WrittenMemory(m, id, text, ok, M)[p][s] = M[p][s]
  <1> DEFINE pages == m.seqs[m.resv[id].request].pages
  <1>1. \A i \in Spot(m, id) : PageOf(pages, i) # p
    BY SpotExclusive
  <1> QED
    BY <1>1 DEF WrittenMemory, Spot

\* Of its own pages it leaves the committed positions alone.
LEMMA WritesPastCommitted ==
    ASSUME NEW m, KvInv(m), NEW id \in DOMAIN m.resv, NEW text, NEW ok \in BOOLEAN, NEW M,
           NEW k \in 1..m.resv[id].start
    PROVE  LET pages == m.seqs[m.resv[id].request].pages
           IN  Held(WrittenMemory(m, id, text, ok, M), pages, k) = Held(M, pages, k)
  <1> DEFINE r == m.resv[id].request
             t == m.seqs[r].pages
             n == m.resv[id].start + m.resv[id].count
             p == PageOf(t, k)
             s == SlotOf(k)
             q == (k - 1) \div BlockSize
  <1>1. /\ r \in Live(m) /\ Len(t) = PagesFor(n)
        /\ m.resv[id].start \in Nat /\ m.resv[id].count \in Nat
    BY LiveReservation
  <1>2. t \in Seq(Page) /\ IsInjective(t)
    BY <1>1, LiveSequence
  <1>3. n \in Nat /\ k \in 1..n /\ k \in Nat \ {0}
    BY <1>1
  <1>4. s \in Slot /\ q + 1 \in 1..PagesFor(n)
    BY <1>3, PositionParts, PositionWithin
  <1>5. p \in Page
    <2> HIDE DEF t, n, q
    <2>1. t[q + 1] \in Page
      BY <1>1, <1>2, <1>4
    <2> QED
      BY <2>1 DEF PageOf, q
  <1>6. PagesFor(n) <= Len(t)
    BY <1>1, <1>3, PagesForBounds
  <1>7. \A i \in Spot(m, id) : ~(PageOf(t, i) = p /\ SlotOf(i) = s)
    <2> SUFFICES ASSUME NEW i \in Spot(m, id), PageOf(t, i) = p, SlotOf(i) = s PROVE FALSE
      OBVIOUS
    <2>1. i \in 1..n /\ i # k
      BY <1>1 DEF Spot
    <2> QED
      BY <1>2, <1>3, <1>6, <2>1, PositionsDistinct
  <1> HIDE DEF p, s
  <1>8. WrittenMemory(m, id, text, ok, M)[p][s] = M[p][s]
    BY <1>4, <1>5, <1>7 DEF WrittenMemory, Spot
  <1> QED
    BY <1>8 DEF Held, p, s, t, r

\* What it leaves of position i.
Outcome(text, ok, i) == IF ok THEN SubSeq(text, 1, i) ELSE Garbage

\* It writes every reserved position.
LEMMA WritesReserved ==
    ASSUME NEW m, KvInv(m), NEW id \in DOMAIN m.resv, NEW text, NEW ok \in BOOLEAN, NEW M,
           NEW k \in Spot(m, id)
    PROVE  Held(WrittenMemory(m, id, text, ok, M), m.seqs[m.resv[id].request].pages, k)
              = Outcome(text, ok, k)
  <1> DEFINE r == m.resv[id].request
             t == m.seqs[r].pages
             n == m.resv[id].start + m.resv[id].count
             p == PageOf(t, k)
             s == SlotOf(k)
  <1>1. /\ r \in Live(m) /\ Len(t) = PagesFor(n)
        /\ m.resv[id].start \in Nat /\ m.resv[id].count \in Nat
    BY LiveReservation
  <1>2. t \in Seq(Page) /\ IsInjective(t)
    BY <1>1, LiveSequence
  <1>3. n \in Nat /\ \A i \in Spot(m, id) : i \in 1..n
    BY <1>1 DEF Spot
  <1>4. PagesFor(n) <= Len(t)
    BY <1>1, <1>3, PagesForBounds
  <1>5. p \in Page /\ s \in Slot
    BY SpotExclusive
  <1>6. \A i \in Spot(m, id) : PageOf(t, i) = p /\ SlotOf(i) = s => i = k
    BY <1>2, <1>3, <1>4, PositionsDistinct
  <1>7. (CHOOSE i \in Spot(m, id) : PageOf(t, i) = p /\ SlotOf(i) = s) = k
    BY <1>6
  <1>8. PageOf(t, k) = p /\ SlotOf(k) = s
    OBVIOUS
  <1> HIDE DEF p, s
  <1>9. WrittenMemory(m, id, text, ok, M)[p][s] = Outcome(text, ok, k)
    BY <1>5, <1>7, <1>8 DEF WrittenMemory, Spot, Outcome
  <1> QED
    BY <1>9 DEF Held, p, s, t, r

\* What any table of another sequence reads is unchanged.
LEMMA OthersRead ==
    ASSUME NEW m, KvInv(m), NEW id \in DOMAIN m.resv, NEW text, NEW ok \in BOOLEAN, NEW M,
           NEW r \in Live(m), r # m.resv[id].request,
           NEW n \in Nat, PagesFor(n) <= Len(m.seqs[r].pages), NEW k \in 1..n
    PROVE  Held(WrittenMemory(m, id, text, ok, M), m.seqs[r].pages, k)
              = Held(M, m.seqs[r].pages, k)
  <1> DEFINE t == m.seqs[r].pages
             q == (k - 1) \div BlockSize
             p == PageOf(t, k)
             s == SlotOf(k)
  <1>1. t \in Seq(Page)
    BY LiveSequence
  <1>2. k \in Nat \ {0}
    OBVIOUS
  <1>3. q + 1 \in 1..PagesFor(n) /\ s \in Slot
    BY <1>2, PositionWithin, PositionParts
  <1>4. t[q + 1] \in Page /\ q + 1 \in DOMAIN t
    <2> HIDE DEF t, q
    <2>1. PagesFor(n) <= Len(t)
      BY DEF t
    <2> QED
      BY <1>1, <1>3, <2>1, PagesForBounds
  <1>5. p \in Page /\ r \in Owners(m, p)
    BY <1>4 DEF PageOf, Owners, Range
  <1> HIDE DEF p, s
  <1>6. WrittenMemory(m, id, text, ok, M)[p][s] = M[p][s]
    BY <1>3, <1>5, WritesOwnPages
  <1> QED
    BY <1>6 DEF Held, p, s, t

\* DeviceRun keeps the content: what it writes is the reserved tokens.
LEMMA DeviceHolds ==
    ASSUME NEW m, KvInv(m), NEW id \in DOMAIN m.resv, NEW ok \in BOOLEAN, NEW M,
           NEW h, HistoriesHold(m, h, M), IndexHolds(m, M), NEW w, WrittenHolds(m, h, w, M),
           NEW x, x[id].tokens = w[id].tokens, x[id].state = "written" => ok,
           \A i \in DOMAIN m.resv \ {id} : x[i] = w[i],
           NEW N, N = WrittenMemory(m, id, h[m.resv[id].request] \o w[id].tokens, ok, M)
    PROVE  HistoriesHold(m, h, N) /\ IndexHolds(m, N) /\ WrittenHolds(m, h, x, N)
  <1> DEFINE r == m.resv[id].request
             text == h[r] \o w[id].tokens
  <1>0. /\ r \in Live(m) /\ m.seqs[r].pending = id
        /\ m.seqs[r].committed = m.resv[id].start
    BY LiveReservation
  <1>n. N = WrittenMemory(m, id, text, ok, M)
    OBVIOUS
  <1> HIDE DEF text
  <1>o. ASSUME NEW q \in Live(m), q # r, NEW n \in Nat, PagesFor(n) <= Len(m.seqs[q].pages),
               NEW k \in 1..n
        PROVE  Held(N, m.seqs[q].pages, k) = Held(M, m.seqs[q].pages, k)
    <2>1. Held(WrittenMemory(m, id, text, ok, M), m.seqs[q].pages, k) = Held(M, m.seqs[q].pages, k)
      BY <1>o, OthersRead
    <2> QED
      BY <1>n, <2>1
  <1>w. ASSUME NEW k \in Spot(m, id)
        PROVE  Held(N, m.seqs[r].pages, k) = Outcome(text, ok, k)
    <2>1. Held(WrittenMemory(m, id, text, ok, M), m.seqs[r].pages, k)
             = Outcome(text, ok, k)
      BY <1>w, WritesReserved
    <2> QED
      BY <1>n, <2>1
  <1>1. ASSUME NEW q \in Live(m) PROVE SeqHolds(m.seqs[q], h[q], N)
    <2>1. SeqHolds(m.seqs[q], h[q], M)
      BY DEF HistoriesHold
    <2>2. m.seqs[q].committed \in Nat /\ PagesFor(m.seqs[q].committed) <= Len(m.seqs[q].pages)
      BY LiveSequence
    <2>3. \A k \in 1..m.seqs[q].committed :
             Held(N, m.seqs[q].pages, k) = Held(M, m.seqs[q].pages, k)
      <3> TAKE k \in 1..m.seqs[q].committed
      <3>1. CASE q = r
        BY <1>0, <1>n, <3>1, WritesPastCommitted
      <3>2. CASE q # r
        <4> DEFINE n == m.seqs[q].committed
        <4>1. n \in Nat /\ PagesFor(n) <= Len(m.seqs[q].pages) /\ k \in 1..n
          BY <2>2
        <4> HIDE DEF n
        <4> QED
          BY <1>o, <3>2, <4>1
      <3> QED
        BY <3>1, <3>2
    <2> QED
      BY <2>1, <2>3 DEF SeqHolds
  <1>2. IndexHolds(m, N)
    <2> SUFFICES ASSUME NEW k \in DOMAIN m.index, NEW s \in Slot
                 PROVE  N[m.index[k]][s] = M[m.index[k]][s]
      BY DEF IndexHolds
    <2>1. m.index[k] \in Page /\ m.block[m.index[k]] # NoBlock
      BY DEF KvInv, ManagerType, Indexed
    <2> QED
      BY <1>n, <2>1, WritesOwnPages
  <1>3. ASSUME NEW i \in DOMAIN m.resv, x[i].state = "written"
        PROVE  ReservationHolds(m, h, x, N, i)
    <2> DEFINE v == m.resv[i]
               n == v.start + v.count
               pages == m.seqs[v.request].pages
    <2>1. CASE i = id
      <3>1. ok = TRUE
        BY <1>3, <2>1
      <3>2. \A j \in Spot(m, id) : Held(N, m.seqs[r].pages, j) = Outcome(text, ok, j)
        BY <1>w
      <3> QED
        BY <2>1, <3>1, <3>2 DEF ReservationHolds, Spot, Outcome, text
    <2>2. CASE i # id
      <3>1. /\ v.request \in Live(m) /\ m.seqs[v.request].pending = i
            /\ v.start \in Nat /\ v.count \in Nat /\ Len(pages) = PagesFor(n)
        BY LiveReservation
      <3>2. v.request # r
        BY <1>0, <2>2, <3>1
      <3>3. n \in Nat /\ PagesFor(n) <= Len(pages)
        <4>1. n \in Nat
          BY <3>1
        <4> HIDE DEF n, pages
        <4> QED
          BY <3>1, <4>1, PagesForBounds
      <3>4. x[i] = w[i] /\ ReservationHolds(m, h, w, M, i)
        BY <1>3, <2>2 DEF WrittenHolds
      <3>5. \A j \in v.start + 1 .. n : Held(N, pages, j) = Held(M, pages, j)
        <4> TAKE j \in v.start + 1 .. n
        <4>1. j \in 1..n
          BY <3>1
        <4> DEFINE q == v.request
        <4>2. q \in Live(m) /\ q # r /\ pages = m.seqs[q].pages
          BY <3>1, <3>2
        <4> HIDE DEF n, pages, q, v
        <4>3. Held(N, m.seqs[q].pages, j) = Held(M, m.seqs[q].pages, j)
          <5>1. PagesFor(n) <= Len(m.seqs[q].pages) /\ n \in Nat
            BY <3>3, <4>2
          <5> QED
            BY <1>o, <4>1, <4>2, <5>1
        <4> QED
          BY <4>2, <4>3
      <3> QED
        BY <3>4, <3>5 DEF ReservationHolds
    <2> QED
      BY <2>1, <2>2
  <1> QED
    BY <1>1, <1>2, <1>3 DEF HistoriesHold, WrittenHolds

-----------------------------------------------------------------------------
(* Publishing and sharing content                                          *)

\* The key of a block that register_prefix considers is the text up to the end
\* of that block.
LEMMA NextKeyPrefix ==
    ASSUME NEW s \in SequenceState, NEW text \in Seq(Token),
           s.registered * BlockSize <= Len(text),
           s.chain = SubSeq(text, 1, s.registered * BlockSize),
           NEW n \in 0..Len(text),
           NEW b \in s.registered + 1 .. CompleteBlocks(s, SubSeq(text, 1, n))
    PROVE  /\ b \in Nat \ {0} /\ b * BlockSize \in Nat
           /\ b * BlockSize <= s.committed /\ b * BlockSize <= Len(text)
           /\ NextKey(s, SubSeq(text, 1, n), b) = SubSeq(text, 1, b * BlockSize)
  <1> DEFINE tokens == SubSeq(text, 1, n)
             lo == s.registered * BlockSize
             hi == b * BlockSize
  <1>1. tokens \in Seq(Token) /\ Len(tokens) = n
    OBVIOUS
  <1> HIDE DEF tokens
  <1>2. /\ b \in Nat /\ b >= s.registered + 1 /\ s.registered \in Nat
        /\ BlockSize * b <= s.committed /\ BlockSize * b <= n
    BY <1>1, CompleteWithin DEF SequenceState, tokens
  <1>3. BlockSize * s.registered + BlockSize <= BlockSize * b
    BY <1>2, MulGap
  <1>4. /\ hi = BlockSize * b /\ lo = BlockSize * s.registered
        /\ hi \in Nat /\ lo \in Nat
    BY <1>2, ConfigAssumption
  <1> HIDE DEF lo, hi
  <1>5. lo < hi /\ hi <= n /\ hi <= s.committed /\ n <= Len(text) /\ n \in Nat /\ Len(text) \in Nat
    BY <1>2, <1>3, <1>4, ConfigAssumption
  <1>6. SubSeq(tokens, lo + 1, hi) = SubSeq(text, lo + 1, hi)
    <2>1. n \in 1..Len(text) /\ 1 \in 1..Len(text) /\ lo + 1 \in 1..n - 1 + 1 /\ hi \in 1..n - 1 + 1
      BY <1>4, <1>5
    <2>2. SubSeq(SubSeq(text, 1, n), lo + 1, hi) = SubSeq(text, 1 + (lo + 1) - 1, 1 + hi - 1)
      BY <2>1, SubSeqOfSubSeq
    <2>3. 1 + (lo + 1) - 1 = lo + 1 /\ 1 + hi - 1 = hi
      BY <1>4
    <2> QED
      BY <2>2, <2>3 DEF tokens
  <1>7. SubSeq(text, 1, lo) \o SubSeq(text, lo + 1, hi) = SubSeq(text, 1, hi)
    <2>1. lo \in 0..Len(text) /\ hi \in lo..Len(text)
      BY <1>4, <1>5
    <2> QED
      BY <2>1, PrefixChained
  <1>8. NextKey(s, tokens, b) = SubSeq(text, 1, hi)
    BY <1>6, <1>7 DEF NextKey, lo, hi
  <1>9. b \in Nat \ {0}
    BY <1>2
  <1> QED
    BY <1>4, <1>5, <1>8, <1>9 DEF hi, tokens

\* A page of a full block holds the last block of the text up to its end.
LEMMA BlockHolds ==
    ASSUME NEW s \in SequenceState, NEW text \in Seq(Token), NEW M, SeqHolds(s, text, M),
           NEW b \in Nat \ {0}, b * BlockSize <= s.committed
    PROVE  LET k == BlockKey(text, b)
           IN  /\ Len(k) = b * BlockSize
               /\ \A x \in Slot : M[s.pages[b]][x] = SubSeq(k, 1, Len(k) - BlockSize + x)
  <1> DEFINE e == b * BlockSize
             k == SubSeq(text, 1, e)
             a == b - 1
             d == BlockSize * a
  <1>1. a \in Nat /\ a + 1 = b /\ Len(text) = s.committed /\ s.committed \in Nat
    BY DEF SeqHolds, SequenceState
  <1>2. e \in Nat /\ d \in Nat /\ e = d + BlockSize
    BY <1>1, ConfigAssumption
  <1>3. Len(k) = e /\ e <= Len(text)
    <2> HIDE DEF e
    <2>1. e <= s.committed
      BY DEF e
    <2> QED
      BY <1>1, <1>2, <2>1
  <1>4. ASSUME NEW x \in Slot PROVE M[s.pages[b]][x] = SubSeq(k, 1, e - BlockSize + x)
    <2> DEFINE i == d + x
    <2>1. i \in Nat \ {0} /\ SlotOf(i) = x /\ PageOf(s.pages, i) = s.pages[b]
      BY <1>1, PositionOf
    <2>2. x \in Nat /\ 1 <= x /\ x <= BlockSize
      BY ConfigAssumption DEF Slot
    <2> HIDE DEF e, d
    <2>3. i \in 0..e /\ i \in 1..s.committed /\ e - BlockSize + x = i /\ e \in 0..Len(text)
      BY <1>1, <1>2, <1>3, <2>2, ConfigAssumption
    <2> HIDE DEF i
    <2>4. Held(M, s.pages, i) = SubSeq(text, 1, i)
      BY <2>3 DEF SeqHolds
    <2>5. Held(M, s.pages, i) = M[s.pages[b]][x]
      BY <2>1 DEF Held
    <2>6. SubSeq(k, 1, i) = SubSeq(text, 1, i)
      BY <2>3, PrefixOfPrefix
    <2> QED
      BY <2>3, <2>4, <2>5, <2>6
  <1> QED
    BY <1>3, <1>4 DEF e, k, BlockKey

\* register_prefix names pages by what they hold.
LEMMA RegisterHolds ==
    ASSUME NEW m, KvInv(m), NEW h, h \in [Live(m) -> Seq(Token)], NEW M,
           HistoriesHold(m, h, M), IndexHolds(m, M),
           NEW r \in Live(m), NEW c \in 0..Len(h[r])
    PROVE  LET n == RegisterPrefix(m, r, SubSeq(h[r], 1, c))
           IN  /\ HistoriesHold(n, h, M) /\ IndexHolds(n, M) /\ Live(n) = Live(m)
               /\ \A q \in Live(m) : /\ n.seqs[q].pages = m.seqs[q].pages
                                     /\ n.seqs[q].committed = m.seqs[q].committed
  <1> DEFINE text == h[r]
             tokens == SubSeq(text, 1, c)
             n == RegisterPrefix(m, r, tokens)
             s == m.seqs[r]
             done == CompleteBlocks(s, tokens)
             F == FreshBlocks(m, s, tokens)
             z == [s EXCEPT !.registered = done, !.chain = NextKey(s, tokens, done)]
  <1>1. /\ ManagerType(m) /\ text \in Seq(Token) /\ s \in SequenceState
        /\ SeqHolds(s, text, M)
    BY LiveSequence DEF KvInv, HistoriesHold
  <1>t. tokens \in Seq(Token)
    BY <1>1
  <1> HIDE DEF tokens
  <1>2. Live(n) = Live(m) /\ Registered(m, r, tokens, n)
    BY <1>1, RegisterTables
  <1> HIDE DEF n
  <1>3. CASE n = m
    BY <1>2, <1>3 DEF n, tokens
  <1>4. CASE n # m
    <2>0. /\ ~(done <= s.registered)
          /\ n.seqs = [m.seqs EXCEPT ![r] = z]
          /\ \A k \in DOMAIN n.index :
                \/ k \in DOMAIN m.index /\ n.index[k] = m.index[k]
                \/ \E b \in F : k = NextKey(s, tokens, b) /\ n.index[k] = s.pages[b]
      BY <1>2, <1>4 DEF Registered
    <2>1. /\ s.registered * BlockSize <= Len(text) /\ Len(text) = s.committed
          /\ s.chain = SubSeq(text, 1, s.registered * BlockSize)
      BY <1>1 DEF SeqHolds
    <2>2. \A b \in s.registered + 1 .. done :
             /\ b \in Nat \ {0} /\ b * BlockSize \in Nat
             /\ b * BlockSize <= s.committed /\ b * BlockSize <= Len(text)
             /\ NextKey(s, tokens, b) = SubSeq(text, 1, b * BlockSize)
      BY <1>1, <2>1, NextKeyPrefix DEF tokens
    <2>3. done \in s.registered + 1 .. done
      <3>1. s.registered \in Nat /\ s.committed \in Nat /\ Len(tokens) \in Nat
        BY <1>1, <1>t DEF SequenceState
      <3>2. (IF s.committed < Len(tokens) THEN s.committed ELSE Len(tokens)) \in Int
        BY <3>1
      <3>3. done \in Int
        BY <3>2, DivBounds DEF CompleteBlocks
      <3> HIDE DEF done
      <3> QED
        BY <2>0, <3>1, <3>3
    <2>4. /\ z.pages = s.pages /\ z.committed = s.committed
          /\ z.registered = done /\ z.chain = SubSeq(text, 1, done * BlockSize)
      <3>1. NextKey(s, tokens, done) = SubSeq(text, 1, done * BlockSize)
        BY <2>2, <2>3
      <3> HIDE DEF s, done
      <3> QED
        BY <1>1, <3>1 DEF SequenceState
    <2>5. done * BlockSize <= s.committed
      BY <2>2, <2>3
    <2> HIDE DEF z, done
    <2>6. SeqHolds(z, text, M)
      BY <1>1, <2>4, <2>5 DEF SeqHolds
    <2>7. /\ DOMAIN n.seqs = Live(m) /\ n.seqs[r] = z
          /\ \A q \in Live(m) \ {r} : n.seqs[q] = m.seqs[q]
      BY <2>0 DEF Live
    <2>8. HistoriesHold(n, h, M)
      BY <1>2, <2>6, <2>7 DEF HistoriesHold
    <2>9. IndexHolds(n, M)
      <3> SUFFICES ASSUME NEW k \in DOMAIN n.index
                   PROVE  /\ Len(k) % BlockSize = 0
                          /\ \A x \in Slot :
                                M[n.index[k]][x] = SubSeq(k, 1, Len(k) - BlockSize + x)
        BY DEF IndexHolds
      <3>1. CASE k \in DOMAIN m.index /\ n.index[k] = m.index[k]
        BY <3>1 DEF IndexHolds
      <3>2. CASE \E b \in F : k = NextKey(s, tokens, b) /\ n.index[k] = s.pages[b]
        <4>1. PICK b \in F : k = NextKey(s, tokens, b) /\ n.index[k] = s.pages[b]
          BY <3>2
        <4>2. b \in s.registered + 1 .. done
          BY DEF FreshBlocks, done
        <4>3. /\ b \in Nat \ {0} /\ b * BlockSize <= s.committed
              /\ k = BlockKey(text, b)
          BY <2>2, <4>1, <4>2 DEF BlockKey
        <4>4. /\ Len(k) = b * BlockSize
              /\ \A x \in Slot : M[s.pages[b]][x] = SubSeq(k, 1, Len(k) - BlockSize + x)
          BY <1>1, <4>3, BlockHolds
        <4>5. (b * BlockSize) % BlockSize = 0
          BY <4>3, BlocksWhole
        <4> QED
          BY <4>1, <4>4, <4>5
      <3> QED
        BY <2>0, <3>1, <3>2
    <2>10. \A q \in Live(m) : /\ n.seqs[q].pages = m.seqs[q].pages
                              /\ n.seqs[q].committed = m.seqs[q].committed
      BY <2>4, <2>7
    <2> QED
      BY <1>2, <2>8, <2>9, <2>10 DEF n, tokens
  <1> QED
    BY <1>3, <1>4

\* What create_sequence_with_prefix maps holds the tokens that it matched.
LEMMA SharedHolds ==
    ASSUME NEW m, KvInv(m), NEW M, IndexHolds(m, M), NEW tokens \in Seq(Token),
           NEW x \in Matches(m, tokens), NEW z,
           z.committed = x * BlockSize, z.registered = x, z.chain = BlockKey(tokens, x),
           z.pages = [b \in 1..x |-> m.index[BlockKey(tokens, b)]]
    PROVE  SeqHolds(z, BlockKey(tokens, x), M)
  <1> DEFINE text == BlockKey(tokens, x)
             e == x * BlockSize
  <1>1. /\ x \in Nat /\ BlockSize * x <= Len(tokens)
        /\ \A b \in 1..x : BlockKey(tokens, b) \in DOMAIN m.index
    BY MatchedBlocks
  <1>2. text \in Seq(Token) /\ Len(text) = e /\ e = BlockSize * x /\ e \in Nat
    BY <1>1, KeyLength, ConfigAssumption
  <1>3. PagesFor(e) = x
    BY <1>1, PagesForBlocks
  <1>4. ASSUME NEW i \in 1..e
        PROVE  Held(M, z.pages, i) = SubSeq(text, 1, i)
    <2> DEFINE q == (i - 1) \div BlockSize
               b == q + 1
               k == BlockKey(tokens, b)
               f == b * BlockSize
    <2>1. i \in Nat \ {0} /\ e \in Nat
      BY <1>2
    <2>2. q \in Nat /\ b \in 1..x /\ SlotOf(i) \in Slot /\ i = BlockSize * q + SlotOf(i)
      BY <1>2, <1>3, <2>1, PositionWithin, PositionParts
    <2>3. /\ f = BlockSize * b /\ f = BlockSize * q + BlockSize /\ f \in Nat
          /\ BlockSize * q \in Nat
      BY <2>2, ConfigAssumption
    <2>4. k \in DOMAIN m.index
      BY <1>1, <2>2
    <2>5. Held(M, z.pages, i) = M[m.index[k]][SlotOf(i)]
      BY <2>2 DEF Held, PageOf
    <2>6. M[m.index[k]][SlotOf(i)] = SubSeq(k, 1, Len(k) - BlockSize + SlotOf(i))
      BY <2>2, <2>4 DEF IndexHolds
    <2> HIDE DEF q
    <2>7. b \in Nat /\ BlockSize * b <= Len(tokens)
      BY <1>1, <2>2, BlocksWithin
    <2>8. Len(k) = f
      BY <2>3, <2>7, KeyLength
    <2>9. f <= Len(tokens) /\ Len(tokens) \in Nat /\ SlotOf(i) \in Nat /\ SlotOf(i) <= BlockSize
      BY <2>2, <2>3, <2>7, ConfigAssumption DEF Slot
    <2> HIDE DEF f
    <2>10. Len(k) - BlockSize + SlotOf(i) = i /\ f \in 0..Len(tokens) /\ i \in 0..f
      BY <2>1, <2>2, <2>3, <2>8, <2>9, ConfigAssumption
    <2>11. k = SubSeq(tokens, 1, f)
      BY DEF BlockKey, f
    <2>12. SubSeq(k, 1, i) = SubSeq(tokens, 1, i)
      BY <2>10, <2>11, PrefixOfPrefix
    <2>13. SubSeq(text, 1, i) = SubSeq(tokens, 1, i)
      <3>1. text = SubSeq(tokens, 1, e)
        BY DEF BlockKey
      <3> HIDE DEF e, text, k, b
      <3>2. e \in 0..Len(tokens) /\ i \in 0..e
        BY <1>1, <1>2, <2>1
      <3> QED
        BY <3>1, <3>2, PrefixOfPrefix
    <2> QED
      BY <2>5, <2>6, <2>10, <2>12, <2>13
  <1>5. SubSeq(text, 1, e) = text
    <2> HIDE DEF text, e
    <2> QED
      BY <1>2
  <1> HIDE DEF text
  <1>6. SeqHolds(z, text, M)
    <2>1. z.committed = e /\ e <= e
      BY <1>2
    <2>2. z.chain = SubSeq(text, 1, e)
      BY <1>5 DEF text
    <2> QED
      BY <1>2, <1>4, <2>1, <2>2 DEF SeqHolds
  <1> QED
    BY <1>6 DEF text

-----------------------------------------------------------------------------
(* What each operation leaves of the committed part of a sequence          *)

\* The sequences that stay live keep their committed tokens and the pages of
\* these.
Keeps(m, n) ==
    \A r \in Live(m) \cap Live(n) :
        /\ n.seqs[r].committed = m.seqs[r].committed
        /\ n.seqs[r].registered = m.seqs[r].registered
        /\ n.seqs[r].chain = m.seqs[r].chain
        /\ AgreeUpTo(m.seqs[r].pages, n.seqs[r].pages, m.seqs[r].committed)

\* Sequences that are unchanged keep their settled pages.
LEMMA SameKeeps ==
    ASSUME NEW m, NEW n, \A r \in Live(m) \cap Live(n) : n.seqs[r] = m.seqs[r]
    PROVE  Keeps(m, n)
  BY DEF Keeps, AgreeUpTo

\* A sequence that keeps its pages keeps its content.
LEMMA KeptHolds ==
    ASSUME NEW m, KvInv(m), NEW n, Keeps(m, n), NEW h, NEW M, HistoriesHold(m, h, M),
           NEW r \in Live(m), r \in Live(n)
    PROVE  SeqHolds(n.seqs[r], h[r], M)
  <1>1. m.seqs[r] \in SequenceState /\ SeqHolds(m.seqs[r], h[r], M)
    BY LiveSequence DEF HistoriesHold
  <1>2. /\ n.seqs[r].committed = m.seqs[r].committed
        /\ n.seqs[r].registered = m.seqs[r].registered
        /\ n.seqs[r].chain = m.seqs[r].chain
        /\ AgreeUpTo(m.seqs[r].pages, n.seqs[r].pages, m.seqs[r].committed)
    BY DEF Keeps
  <1> QED
    BY <1>1, <1>2, SeqKept

\* A table keeps its pages when others are appended.
LEMMA AppendedAgrees ==
    ASSUME NEW t \in Seq(Page), NEW k \in Nat, NEW new \in [1..k -> Page], NEW n \in Nat,
           PagesFor(n) <= Len(t)
    PROVE  AgreeUpTo(t, t \o new, n)
  <1>1. PagesFor(n) \in Nat
    BY PagesForBounds
  <1>2. \A j \in 1..Len(t) : (t \o new)[j] = t[j]
    BY ConcatTable
  <1> QED
    BY <1>1, <1>2 DEF AgreeUpTo

\* begin_append and extend_append.
LEMMA GrownKeeps ==
    ASSUME NEW m, KvInv(m), NEW r \in Live(m), NEW k, NEW new, Obtainable(m, k, new),
           NEW n, TableGrown(m, r, new, n)
    PROVE  Keeps(m, n)
  <1> DEFINE s == m.seqs[r]
  <1>1. /\ s.committed \in Nat /\ s.pages \in Seq(Page)
        /\ PagesFor(s.committed) <= Len(s.pages)
    BY LiveSequence
  <1>2. k \in Nat /\ new \in [1..k -> Page]
    BY DEF KvInv, Obtainable, Available, ManagerType
  <1>3. AgreeUpTo(s.pages, s.pages \o new, s.committed)
    BY <1>1, <1>2, AppendedAgrees
  <1>4. ASSUME NEW q \in Live(m)
        PROVE  /\ n.seqs[q].committed = m.seqs[q].committed
               /\ n.seqs[q].registered = m.seqs[q].registered
               /\ n.seqs[q].chain = m.seqs[q].chain
               /\ AgreeUpTo(m.seqs[q].pages, n.seqs[q].pages, m.seqs[q].committed)
    <2>1. CASE q = r
      BY <1>3, <2>1 DEF TableGrown
    <2>2. CASE q # r
      BY <2>2 DEF TableGrown, AgreeUpTo
    <2> QED
      BY <2>1, <2>2
  <1> QED
    BY <1>4 DEF Keeps

\* commit and cancel: the table of an owner still maps its settled tokens to
\* the same pages.
LEMMA SettledAgrees ==
    ASSUME NEW m, KvInv(m), NEW ids, NEW to, Settleable(m, ids, to), NEW n,
           SettledTo(m, ids, to, n), NEW r \in Owned(m, ids)
    PROVE  LET c == to[m.seqs[r].pending]
           IN  /\ m.seqs[r].pending \in ids /\ r \in Live(m)
               /\ n.seqs[r].committed = c
               /\ n.seqs[r].registered = m.seqs[r].registered
               /\ n.seqs[r].chain = m.seqs[r].chain
               /\ AgreeUpTo(m.seqs[r].pages, n.seqs[r].pages, c)
  <1>1. /\ n.seqs[r].committed = to[m.seqs[r].pending]
        /\ n.seqs[r].registered = m.seqs[r].registered
        /\ n.seqs[r].chain = m.seqs[r].chain
    BY DEF SettledTo
  <1> QED
    BY <1>1, OwnerSettles DEF AgreeUpTo

\* cancel settles at the tokens that were committed before.
LEMMA CancelledKeeps ==
    ASSUME NEW m, KvInv(m), NEW ids \in SUBSET DOMAIN m.resv, NEW to,
           \A i \in ids : to[i] = m.resv[i].start,
           NEW n, Settleable(m, ids, to), SettledTo(m, ids, to, n)
    PROVE  Keeps(m, n)
  <1>1. ASSUME NEW q \in Live(m)
        PROVE  /\ n.seqs[q].committed = m.seqs[q].committed
               /\ n.seqs[q].registered = m.seqs[q].registered
               /\ n.seqs[q].chain = m.seqs[q].chain
               /\ AgreeUpTo(m.seqs[q].pages, n.seqs[q].pages, m.seqs[q].committed)
    <2>1. CASE q \in Owned(m, ids)
      <3> DEFINE i == m.seqs[q].pending
      <3>1. /\ i \in ids /\ n.seqs[q].committed = to[i]
            /\ n.seqs[q].registered = m.seqs[q].registered
            /\ n.seqs[q].chain = m.seqs[q].chain
            /\ AgreeUpTo(m.seqs[q].pages, n.seqs[q].pages, to[i])
        BY <2>1, SettledAgrees
      <3>2. i \in DOMAIN m.resv /\ m.resv[i].request = q
        BY <2>1, OwnerSettles
      <3>3. m.seqs[q].committed = m.resv[i].start
        BY <3>2, LiveReservation
      <3> QED
        BY <3>1, <3>3
    <2>2. CASE q \notin Owned(m, ids)
      BY <2>2 DEF SettledTo, AgreeUpTo
    <2> QED
      BY <2>1, <2>2
  <1> QED
    BY <1>1 DEF Keeps

\* The sequence of a reservation outside ids owns none of ids.
LEMMA Unowned ==
    ASSUME NEW m, KvInv(m), NEW ids \in SUBSET DOMAIN m.resv,
           NEW i \in DOMAIN m.resv \ ids
    PROVE  m.resv[i].request \in Live(m) \ Owned(m, ids)
  <1>1. m.resv[i].request \in Live(m) /\ m.seqs[m.resv[i].request].pending = i
    BY LiveReservation
  <1>2. \A k \in ids : m.seqs[m.resv[k].request].pending = k
    BY LiveReservation
  <1> QED
    BY <1>1, <1>2 DEF Owned

\* Reservation i has been run, with the tokens it reserves.
Ran(m, w, i) ==
    /\ w[i].state = "written" /\ w[i].tokens \in Seq(Token)
    /\ Len(w[i].tokens) = m.resv[i].count

\* g is h with the first used[i] tokens of each reservation i of ids appended.
Lengthened(m, ids, used, h, w, g) ==
    /\ \A q \in Live(m) \ Owned(m, ids) : g[q] = h[q]
    /\ \A q \in Owned(m, ids) :
          g[q] = h[q] \o SubSeq(w[m.seqs[q].pending].tokens, 1, used[m.seqs[q].pending])

\* Committing written tokens extends the texts that memory holds.
LEMMA CommittedHistories ==
    ASSUME NEW m, KvInv(m), NEW ids \in SUBSET DOMAIN m.resv, NEW used,
           \A i \in ids : used[i] \in 1 .. m.resv[i].count,
           NEW to, \A i \in ids : to[i] = m.resv[i].start + used[i],
           NEW n, Settleable(m, ids, to), SettledTo(m, ids, to, n),
           NEW h, NEW w, NEW M, HistoriesHold(m, h, M), WrittenHolds(m, h, w, M),
           \A q \in Live(m) : h[q] \in Seq(Token),
           \A i \in ids : Ran(m, w, i),
           NEW g, Lengthened(m, ids, used, h, w, g)
    PROVE  HistoriesHold(n, g, M)
  <1>1. ASSUME NEW q \in Live(m)
        PROVE  SeqHolds(n.seqs[q], g[q], M)
    <2>1. CASE q \in Owned(m, ids)
      <3> DEFINE i == m.seqs[q].pending
                 s == m.seqs[q]
                 t == w[i].tokens
                 z == n.seqs[q]
      <3>1. /\ i \in ids /\ z.committed = to[i]
            /\ z.registered = s.registered /\ z.chain = s.chain
            /\ AgreeUpTo(s.pages, z.pages, to[i])
        BY <2>1, SettledAgrees
      <3>2. i \in DOMAIN m.resv /\ m.resv[i].request = q
        BY <2>1, OwnerSettles
      <3>3. /\ s.committed = m.resv[i].start /\ m.resv[i].count \in Nat
            /\ s \in SequenceState
        BY <3>2, LiveReservation, LiveSequence
      <3>4. /\ t \in Seq(Token) /\ Len(t) = m.resv[i].count
            /\ used[i] \in 0..Len(t) /\ to[i] = s.committed + used[i]
        BY <3>1, <3>3 DEF Ran
      <3>5. \A j \in s.committed + 1 .. s.committed + Len(t) :
               Held(M, s.pages, j) = SubSeq(h[q] \o t, 1, j)
        <4>1. ReservationHolds(m, h, w, M, i)
          BY <3>1, <3>2 DEF WrittenHolds, Ran
        <4> QED
          BY <4>1, <3>2, <3>3, <3>4 DEF ReservationHolds
      <3>6. h[q] \in Seq(Token) /\ SeqHolds(s, h[q], M)
        BY DEF HistoriesHold
      <3>7. g[q] = h[q] \o SubSeq(t, 1, used[i])
        BY <2>1 DEF Lengthened
      <3> HIDE DEF i, s, t, z
      <3>8. SeqHolds(z, h[q] \o SubSeq(t, 1, used[i]), M)
        BY <3>1, <3>3, <3>4, <3>5, <3>6, CommittedHolds
      <3> QED
        BY <3>7, <3>8 DEF z
    <2>2. CASE q \notin Owned(m, ids)
      BY <2>2 DEF SettledTo, HistoriesHold, Lengthened
    <2> QED
      BY <2>1, <2>2
  <1>2. Live(n) = Live(m)
    BY DEF SettledTo
  <1> QED
    BY <1>1, <1>2 DEF HistoriesHold

-----------------------------------------------------------------------------
(* Content is inductive                                                    *)

\* A sequence that a step creates, beside the others.
LEMMA AddedHolds ==
    ASSUME NEW m, NEW n, NEW h, NEW g, NEW M, HistoriesHold(m, h, M), NEW r,
           r \notin Live(m), Live(n) = Live(m) \cup {r},
           \A q \in Live(m) : n.seqs[q] = m.seqs[q] /\ g[q] = h[q],
           SeqHolds(n.seqs[r], g[r], M)
    PROVE  HistoriesHold(n, g, M)
  BY DEF HistoriesHold

\* It starts with no committed token and no block.
LEMMA EmptyHolds == ASSUME NEW M PROVE SeqHolds(NewSequence, <<>>, M)
  <1> DEFINE z == NewSequence
  <1>1. z.committed = 0 /\ z.registered = 0 /\ z.chain = <<>>
    BY DEF NewSequence
  <1>2. 0 * BlockSize = 0
    BY ConfigAssumption
  <1>3. SubSeq(<<>>, 1, 0) = <<>> /\ Len(<<>>) = 0
    OBVIOUS
  <1> HIDE DEF z
  <1>4. SeqHolds(z, <<>>, M)
    BY <1>1, <1>2, <1>3 DEF SeqHolds
  <1> QED
    BY <1>4 DEF z

\* A step that leaves memory and the committed tokens alone keeps the content.
LEMMA KeepingContent ==
    ASSUME Inv, KvInv(kv'), Content, Keeps(kv, kv'), IndexShrinks(kv, kv'), mem' = mem,
           \A r \in Live(kv') : r \in Live(kv) /\ hist'[r] = hist[r],
           \A i \in DOMAIN kv'.resv : work'[i].state = "written" =>
              /\ i \in DOMAIN kv.resv /\ kv'.resv[i] = kv.resv[i] /\ work'[i] = work[i]
              /\ kv'.seqs[kv.resv[i].request].pages = kv.seqs[kv.resv[i].request].pages
    PROVE  Content'
  <1>1. HistoriesHold(kv, hist, mem) /\ IndexHolds(kv, mem) /\ WrittenHolds(kv, hist, work, mem)
    BY DEF Content
  <1>2. HistoriesHold(kv', hist', mem')
    <2> SUFFICES ASSUME NEW r \in Live(kv') PROVE SeqHolds(kv'.seqs[r], hist'[r], mem)
      BY DEF HistoriesHold
    <2>1. SeqHolds(kv'.seqs[r], hist[r], mem)
      BY <1>1, KeptHolds DEF Inv
    <2> QED
      BY <2>1
  <1>3. IndexHolds(kv', mem')
    BY <1>1, IndexKept
  <1>4. WrittenHolds(kv', hist', work', mem')
    <2>1. \A i \in DOMAIN kv'.resv : kv'.resv[i].request \in Live(kv')
      BY LiveReservation
    <2>2. \A i \in DOMAIN kv'.resv : work'[i].state = "written" =>
             /\ i \in DOMAIN kv.resv /\ kv'.resv[i] = kv.resv[i]
             /\ work[i].state = "written" /\ work'[i].tokens = work[i].tokens
             /\ kv'.seqs[kv.resv[i].request].pages = kv.seqs[kv.resv[i].request].pages
             /\ hist'[kv.resv[i].request] = hist[kv.resv[i].request]
      BY <2>1
    <2>3. WrittenHolds(kv', hist', work', mem)
      BY <1>1, <2>2, WrittenKept
    <2> QED
      BY <2>3
  <1> QED
    BY <1>2, <1>3, <1>4 DEF Content

\* After a commit of the first used[i] tokens of each reservation i of ids.
LEMMA CommittingContent ==
    ASSUME Inv, Content, NEW ids \in SUBSET DOMAIN kv.resv, NEW used,
           \A i \in ids : used[i] \in 1 .. kv.resv[i].count,
           NEW to, \A i \in ids : to[i] = kv.resv[i].start + used[i],
           Settleable(kv, ids, to), SettledTo(kv, ids, to, kv'),
           Closed(kv, ids, kv'), IndexShrinks(kv, kv'),
           \A i \in ids : work[i].state = "written",
           hist' = Grown(ids, used), work' = Restrict(work, DOMAIN work \ ids), mem' = mem
    PROVE  Content'
  <1>1. HistoriesHold(kv, hist, mem) /\ IndexHolds(kv, mem) /\ WrittenHolds(kv, hist, work, mem)
    BY DEF Content
  <1>2. /\ DOMAIN hist = Live(kv) /\ \A q \in Live(kv) : hist[q] \in Seq(Token)
        /\ DOMAIN work = DOMAIN kv.resv
        /\ \A i \in DOMAIN kv.resv : /\ work[i].tokens \in Seq(Token)
                                     /\ Len(work[i].tokens) = kv.resv[i].count
    BY DEF Inv, HistOK, WorkOK, Work
  <1>3. /\ \A q \in Live(kv) \ Owned(kv, ids) : hist'[q] = hist[q]
        /\ \A q \in Owned(kv, ids) : q \in Live(kv)
        /\ \A q \in Owned(kv, ids) :
              hist'[q] = hist[q] \o SubSeq(work[kv.seqs[q].pending].tokens, 1,
                                           used[kv.seqs[q].pending])
    <2>1. \A q \in Owned(kv, ids) : q \in Live(kv)
      BY LiveReservation DEF Owned, Inv
    <2> QED
      BY <1>2, <2>1 DEF Grown
  <1>4. HistoriesHold(kv', hist', mem)
    <2> DEFINE n == kv'
               g == hist'
    <2>1. SettledTo(kv, ids, to, n) /\ KvInv(kv)
      BY DEF Inv
    <2>2. Lengthened(kv, ids, used, hist, work, g)
      BY <1>3 DEF Lengthened
    <2>3. \A i \in ids : Ran(kv, work, i)
      BY <1>2 DEF Ran
    <2> HIDE DEF n, g
    <2>4. HistoriesHold(n, g, mem)
      BY <1>1, <1>2, <2>1, <2>2, <2>3, CommittedHistories
    <2> QED
      BY <2>4 DEF n, g
  <1>5. IndexHolds(kv', mem)
    BY <1>1, IndexKept
  <1>6. \A i \in DOMAIN kv'.resv :
           /\ i \in DOMAIN kv.resv /\ kv'.resv[i] = kv.resv[i]
           /\ work'[i] = work[i]
           /\ kv.resv[i].request \in Live(kv) \ Owned(kv, ids)
    <2>1. \A i \in DOMAIN kv.resv \ ids : work'[i] = work[i]
      BY <1>2 DEF Restrict
    <2>2. \A i \in DOMAIN kv.resv \ ids : kv.resv[i].request \in Live(kv) \ Owned(kv, ids)
      BY Unowned DEF Inv
    <2> QED
      BY <2>1, <2>2 DEF Closed
  <1>7. \A i \in DOMAIN kv'.resv :
           /\ kv'.seqs[kv.resv[i].request] = kv.seqs[kv.resv[i].request]
           /\ hist'[kv.resv[i].request] = hist[kv.resv[i].request]
    BY <1>3, <1>6 DEF SettledTo
  <1>8. WrittenHolds(kv', hist', work', mem)
    <2> DEFINE n == kv'
               g == hist'
               x == work'
    <2>1. \A i \in DOMAIN n.resv : x[i].state = "written" =>
             /\ i \in DOMAIN kv.resv /\ n.resv[i] = kv.resv[i]
             /\ work[i].state = "written" /\ x[i].tokens = work[i].tokens
             /\ n.seqs[kv.resv[i].request].pages = kv.seqs[kv.resv[i].request].pages
             /\ g[kv.resv[i].request] = hist[kv.resv[i].request]
      BY <1>6, <1>7
    <2> HIDE DEF n, g, x
    <2>2. WrittenHolds(n, g, x, mem)
      BY <1>1, <2>1, WrittenKept
    <2> QED
      BY <2>2 DEF n, g, x
  <1> QED
    BY <1>4, <1>5, <1>8 DEF Content

\* Nothing is live or published at first.
LEMMA ContentInit == Init => Content
  <1> SUFFICES ASSUME Init PROVE Content
    OBVIOUS
  <1>1. Live(kv) = {} /\ DOMAIN kv.index = {} /\ DOMAIN kv.resv = {}
    BY DEF Init, NewManager, Live
  <1> QED
    BY <1>1 DEF Content, HistoriesHold, IndexHolds, WrittenHolds

\* Every operation keeps the content.
LEMMA ContentNext == Inv /\ Inv' /\ Content /\ [Next]_vars => Content'
  <1> SUFFICES ASSUME Inv, Inv', Content, [Next]_vars PROVE Content'
    OBVIOUS
  <1>0. /\ KvInv(kv) /\ KvInv(kv') /\ ManagerType(kv)
        /\ HistoriesHold(kv, hist, mem) /\ IndexHolds(kv, mem)
        /\ WrittenHolds(kv, hist, work, mem)
    BY DEF Inv, KvInv, Content
  <1>h. /\ DOMAIN hist = Live(kv) /\ hist \in [Live(kv) -> Seq(Token)]
        /\ \A r \in Live(kv) : hist[r] \in Seq(Token)
    BY DEF Inv, HistOK
  <1>w. /\ DOMAIN work = DOMAIN kv.resv
        /\ \A i \in DOMAIN kv.resv : work[i] \in Work
    BY DEF Inv, WorkOK
  <1>1. ASSUME NEW enabled \in BOOLEAN, SetCaching(enabled) PROVE Content'
    <2>1. /\ Live(kv') = Live(kv) /\ kv'.seqs = kv.seqs /\ kv'.resv = kv.resv
          /\ IndexShrinks(kv, kv')
      BY <1>0, <1>1, SetCachingTables DEF SetCaching
    <2>2. hist' = hist /\ work' = work /\ mem' = mem
      BY <1>1 DEF SetCaching
    <2>3. Keeps(kv, kv')
      BY <2>1, SameKeeps
    <2> QED
      BY <1>0, <2>1, <2>2, <2>3, KeepingContent
  <1>2. ASSUME NEW r \in Request, NEW text, r \notin Live(kv),
               Live(kv') = Live(kv) \cup {r}, kv'.resv = kv.resv, kv'.index = kv.index,
               \A q \in Live(kv) \ {r} : kv'.seqs[q] = kv.seqs[q],
               hist' = WithHistory(r, text), UNCHANGED <<work, mem>>,
               SeqHolds(kv'.seqs[r], text, mem)
        PROVE  Content'
    <2> DEFINE n == kv'
               g == hist'
    <2>1. g[r] = text /\ \A q \in Live(kv) : n.seqs[q] = kv.seqs[q] /\ g[q] = hist[q]
      BY <1>2, <1>h DEF WithHistory
    <2>2. SeqHolds(n.seqs[r], g[r], mem) /\ Live(n) = Live(kv) \cup {r}
      BY <1>2, <2>1
    <2>3. \A i \in DOMAIN n.resv : work'[i].state = "written" =>
             /\ i \in DOMAIN kv.resv /\ n.resv[i] = kv.resv[i]
             /\ work[i].state = "written" /\ work'[i].tokens = work[i].tokens
             /\ n.seqs[kv.resv[i].request].pages = kv.seqs[kv.resv[i].request].pages
             /\ g[kv.resv[i].request] = hist[kv.resv[i].request]
      BY <1>0, <1>2, <2>1, LiveReservation
    <2>4. IndexShrinks(kv, n)
      BY <1>2 DEF IndexShrinks
    <2> HIDE DEF n, g
    <2>5. HistoriesHold(n, g, mem)
      BY <1>0, <1>2, <2>1, <2>2, AddedHolds
    <2>6. IndexHolds(n, mem)
      BY <1>0, <2>4, IndexKept
    <2>7. WrittenHolds(n, g, work', mem)
      BY <1>0, <2>3, WrittenKept
    <2> QED
      BY <1>2, <2>5, <2>6, <2>7 DEF Content, n, g
  <1>3. ASSUME NEW r \in Request, Create(r) PROVE Content'
    <2>1. /\ r \notin Live(kv) /\ hist' = WithHistory(r, <<>>) /\ UNCHANGED <<work, mem>>
          /\ kv' = CreateSequence(kv, r)
      BY <1>3 DEF Create
    <2>2. /\ Live(kv') = Live(kv) \cup {r} /\ kv'.resv = kv.resv /\ kv'.index = kv.index
          /\ kv'.seqs[r] = NewSequence
          /\ \A q \in Live(kv) \ {r} : kv'.seqs[q] = kv.seqs[q]
      BY <1>0, <2>1, CreateTables
    <2>3. SeqHolds(kv'.seqs[r], <<>>, mem)
      BY <2>2, EmptyHolds
    <2> QED
      BY <1>2, <2>1, <2>2, <2>3
  <1>4. ASSUME NEW r \in Request, NEW n \in 1..MaxSequenceLength,
               NEW tokens \in Tokens(n), CreateWithPrefix(r, tokens)
        PROVE  Content'
    <2>1. r \notin Live(kv) /\ tokens \in Seq(Token) /\ UNCHANGED <<work, mem>>
      BY <1>4 DEF CreateWithPrefix, Tokens
    <2>2. PICK x \in Matches(kv, tokens) :
             /\ kv' = CreateSequenceWithPrefix(kv, r, tokens, x)
             /\ hist' = WithHistory(r, BlockKey(tokens, x))
      BY <1>4 DEF CreateWithPrefix
    <2>3. /\ Live(kv') = Live(kv) \cup {r} /\ kv'.resv = kv.resv /\ kv'.index = kv.index
          /\ Prefixed(kv, r, tokens, x, kv')
      BY <1>0, <2>2, CreateWithPrefixTables
    <2> DEFINE z == kv'.seqs[r]
    <2>4. /\ z.committed = x * BlockSize /\ z.registered = x
          /\ z.chain = BlockKey(tokens, x)
          /\ z.pages = [b \in 1..x |-> kv.index[BlockKey(tokens, b)]]
          /\ \A q \in Live(kv) \ {r} : kv'.seqs[q] = kv.seqs[q]
      BY <2>3 DEF Prefixed
    <2> HIDE DEF z
    <2>5. SeqHolds(z, BlockKey(tokens, x), mem)
      BY <1>0, <2>1, <2>4, SharedHolds
    <2> QED
      BY <1>2, <2>1, <2>2, <2>3, <2>4, <2>5 DEF z
  <1>5. ASSUME NEW r \in Live(kv), NEW c \in 0..Len(hist[r]), Register(r, c) PROVE Content'
    <2> DEFINE n == kv'
    <2>1. /\ n = RegisterPrefix(kv, r, SubSeq(hist[r], 1, c))
          /\ hist' = hist /\ work' = work /\ mem' = mem
      BY <1>5 DEF Register
    <2>2. SubSeq(hist[r], 1, c) \in Seq(Token)
      BY <1>h
    <2>3. n.resv = kv.resv
      BY <1>0, <2>1, <2>2, RegisterTables
    <2> HIDE DEF n
    <2>4. /\ HistoriesHold(n, hist, mem) /\ IndexHolds(n, mem)
          /\ \A q \in Live(kv) : n.seqs[q].pages = kv.seqs[q].pages
      BY <1>0, <1>h, <2>1, RegisterHolds
    <2>5. \A i \in DOMAIN n.resv : work[i].state = "written" =>
             /\ i \in DOMAIN kv.resv /\ n.resv[i] = kv.resv[i]
             /\ work[i].state = "written" /\ work[i].tokens = work[i].tokens
             /\ n.seqs[kv.resv[i].request].pages = kv.seqs[kv.resv[i].request].pages
             /\ hist[kv.resv[i].request] = hist[kv.resv[i].request]
      BY <1>0, <2>3, <2>4, LiveReservation
    <2>6. WrittenHolds(n, hist, work, mem)
      BY <1>0, <2>5, WrittenKept
    <2> QED
      BY <2>1, <2>4, <2>6 DEF Content, n
  <1>6. ASSUME NEW r \in Live(kv), Remove(r) PROVE Content'
    <2>1. /\ Live(kv') = Live(kv) \ {r} /\ kv'.resv = kv.resv /\ IndexShrinks(kv, kv')
          /\ \A q \in Live(kv') : kv'.seqs[q] = kv.seqs[q]
      BY <1>0, <1>6, RemoveTables DEF Remove
    <2>2. hist' = Restrict(hist, DOMAIN hist \ {r}) /\ work' = work /\ mem' = mem
      BY <1>6 DEF Remove
    <2>3. \A q \in Live(kv') : q \in Live(kv) /\ hist'[q] = hist[q]
      BY <1>h, <2>1, <2>2 DEF Restrict
    <2>4. Keeps(kv, kv')
      BY <2>1, SameKeeps
    <2>5. \A i \in DOMAIN kv'.resv : kv'.resv[i].request \in Live(kv')
      BY <1>0, LiveReservation
    <2> QED
      BY <1>0, <2>1, <2>2, <2>3, <2>4, <2>5, KeepingContent
  <1>7. ASSUME NEW r \in Live(kv), NEW n \in 1..MaxSequenceLength,
               NEW tokens \in Tokens(n), Begin(r, tokens)
        PROVE  Content'
    <2> DEFINE id == kv.nextResv
               len == Len(tokens)
    <2>1. tokens \in Seq(Token) /\ len \in Nat
      BY DEF Tokens
    <2>2. PICK new \in Allocations(kv, Additional(kv, r, kv.seqs[r].committed + len)) :
             kv' = BeginAppend(kv, r, len, new)
      BY <1>7 DEF Begin
    <2>3. TableGrown(kv, r, new, kv') /\ \E k : Obtainable(kv, k, new)
      BY <1>0, <1>7, <2>1, <2>2, BeginPreserves DEF Begin
    <2>4. /\ Live(kv') = Live(kv) /\ IndexShrinks(kv, kv')
          /\ DOMAIN kv'.resv = DOMAIN kv.resv \cup {id}
          /\ \A i \in DOMAIN kv.resv \ {id} : kv'.resv[i] = kv.resv[i]
      BY <1>0, <2>2, BeginTables
    <2>5. Keeps(kv, kv')
      BY <1>0, <2>3, GrownKeeps
    <2>6. /\ hist' = hist /\ mem' = mem /\ kv.seqs[r].pending = NoPending
          /\ work' = [i \in DOMAIN kv.resv \cup {id} |->
                        IF i = id THEN [tokens |-> tokens, state |-> "reserved"]
                        ELSE work[i]]
      BY <1>7, <1>w DEF Begin, CanBegin, CanAppend
    <2>7. ASSUME NEW i \in DOMAIN kv'.resv, work'[i].state = "written"
          PROVE  /\ i \in DOMAIN kv.resv /\ kv'.resv[i] = kv.resv[i] /\ work'[i] = work[i]
                 /\ kv'.seqs[kv.resv[i].request].pages = kv.seqs[kv.resv[i].request].pages
      <3>1. i # id
        BY <2>4, <2>6, <2>7
      <3>2. i \in DOMAIN kv.resv /\ kv'.resv[i] = kv.resv[i] /\ work'[i] = work[i]
        BY <2>4, <2>6, <3>1
      <3>3. /\ kv.resv[i].request \in Live(kv) /\ i # NoPending
            /\ kv.seqs[kv.resv[i].request].pending = i
        BY <1>0, <3>2, LiveReservation DEF NoPending
      <3>4. kv'.seqs[kv.resv[i].request] = kv.seqs[kv.resv[i].request]
        BY <2>3, <2>6, <3>3 DEF TableGrown
      <3> QED
        BY <3>2, <3>4
    <2> QED
      BY <1>0, <2>4, <2>5, <2>6, <2>7, KeepingContent
  <1>8. ASSUME NEW id \in Reservations, NEW n \in 1..MaxSequenceLength,
               NEW extra \in Tokens(n), Extend(id, extra)
        PROVE  Content'
    <2> DEFINE len == Len(extra)
               r == kv.resv[id].request
    <2>1. extra \in Seq(Token) /\ len \in Nat /\ id \in DOMAIN kv.resv
      BY DEF Tokens, Reservations
    <2>2. PICK new \in Allocations(kv, Additional(kv, kv.resv[id].request,
                          kv.resv[id].start + kv.resv[id].count + len)) :
             kv' = ExtendAppend(kv, id, len, new)
      BY <1>8 DEF Extend
    <2>3. TableGrown(kv, r, new, kv') /\ \E k : Obtainable(kv, k, new)
      BY <1>0, <1>8, <2>1, <2>2, ExtendPreserves DEF Extend
    <2>4. /\ Live(kv') = Live(kv) /\ IndexShrinks(kv, kv')
          /\ DOMAIN kv'.resv = DOMAIN kv.resv
          /\ \A i \in DOMAIN kv.resv \ {id} : kv'.resv[i] = kv.resv[i]
      BY <1>0, <2>1, <2>2, ExtendTables
    <2>5. r \in Live(kv) /\ kv.seqs[r].pending = id
      BY <1>0, <2>1, LiveReservation
    <2>6. Keeps(kv, kv')
      BY <1>0, <2>3, <2>5, GrownKeeps
    <2>7. hist' = hist /\ mem' = mem /\ work[id].state = "reserved"
      BY <1>8 DEF Extend
    <2> DEFINE u == work[id].tokens \o extra
    <2>8. /\ \A i \in DOMAIN kv.resv \ {id} : work'[i] = work[i]
          /\ work'[id].state = "reserved"
      <3>1. work' = [work EXCEPT ![id] = [work[id] EXCEPT !.tokens = u]]
        BY <1>8 DEF Extend
      <3>2. work[id] \in Work
        BY <1>w, <2>1
      <3> HIDE DEF u
      <3>3. [work[id] EXCEPT !.tokens = u].state = "reserved"
        BY <2>7, <3>2 DEF Work
      <3> QED
        BY <1>w, <2>1, <3>1, <3>3
    <2>9. ASSUME NEW i \in DOMAIN kv'.resv, work'[i].state = "written"
          PROVE  /\ i \in DOMAIN kv.resv /\ kv'.resv[i] = kv.resv[i] /\ work'[i] = work[i]
                 /\ kv'.seqs[kv.resv[i].request].pages = kv.seqs[kv.resv[i].request].pages
      <3>1. i # id
        BY <2>8, <2>9
      <3>2. i \in DOMAIN kv.resv /\ kv'.resv[i] = kv.resv[i] /\ work'[i] = work[i]
        BY <2>4, <2>8, <3>1
      <3>3. /\ kv.resv[i].request \in Live(kv)
            /\ kv.seqs[kv.resv[i].request].pending = i
        BY <1>0, <3>2, LiveReservation
      <3>4. kv'.seqs[kv.resv[i].request] = kv.seqs[kv.resv[i].request]
        BY <2>3, <2>5, <3>1, <3>3 DEF TableGrown
      <3> QED
        BY <3>2, <3>4
    <2> QED
      BY <1>0, <2>4, <2>6, <2>7, <2>9, KeepingContent
  <1>9. ASSUME NEW id \in Reservations, NEW ok \in BOOLEAN, DeviceRun(id, ok) PROVE Content'
    <2> DEFINE x == work'
               N == mem'
               text == hist[kv.resv[id].request] \o work[id].tokens
               st == IF ok THEN "written" ELSE "failed"
    <2>1. /\ kv' = kv /\ hist' = hist /\ id \in DOMAIN kv.resv
          /\ x = [work EXCEPT ![id] = [work[id] EXCEPT !.state = st]]
      BY <1>9 DEF DeviceRun, Reservations
    <2>2. N = WrittenMemory(kv, id, text, ok, mem)
      BY <1>9 DEF DeviceRun, WrittenMemory
    <2>3. st = "written" => ok
      OBVIOUS
    <2> HIDE DEF x, N, text, st
    <2>4. work[id] \in Work
      BY <1>w, <2>1
    <2>5. /\ x[id].tokens = work[id].tokens /\ x[id].state = st
          /\ \A i \in DOMAIN kv.resv \ {id} : x[i] = work[i]
      BY <1>w, <2>1, <2>4 DEF Work
    <2>6. HistoriesHold(kv, hist, N) /\ IndexHolds(kv, N) /\ WrittenHolds(kv, hist, x, N)
      BY <1>0, <2>1, <2>2, <2>3, <2>5, DeviceHolds DEF text
    <2> QED
      BY <2>1, <2>6 DEF Content, x, N
  <1>10. ASSUME NEW ids \in SUBSET Reservations, Commit(ids) PROVE Content'
    <2> DEFINE used == [i \in ids |-> kv.resv[i].count]
               to == [i \in ids |-> kv.resv[i].start + kv.resv[i].count]
    <2>1. ids \in SUBSET DOMAIN kv.resv
      BY DEF Reservations
    <2>2. /\ kv' = CommitAppends(kv, ids) /\ \A i \in ids : Consistent(kv, i)
          /\ \A i \in ids : work[i].state = "written"
          /\ hist' = Grown(ids, used) /\ work' = Restrict(work, DOMAIN work \ ids)
          /\ mem' = mem
      BY <1>10 DEF Commit
    <2>3. Settleable(kv, ids, to) /\ SettledTo(kv, ids, to, kv')
      BY <1>0, <2>1, <2>2, CommitPreserves
    <2>4. Closed(kv, ids, kv') /\ IndexShrinks(kv, kv')
      BY <1>0, <2>2, CommitTables DEF IndexShrinks
    <2>5. \A i \in ids : /\ used[i] \in 1 .. kv.resv[i].count
                         /\ to[i] = kv.resv[i].start + used[i]
      <3> TAKE i \in ids
      <3>1. kv.resv[i].count \in Nat \ {0}
        BY <1>0, <2>1, LiveReservation
      <3> QED
        BY <3>1
    <2> HIDE DEF used, to
    <2> QED
      BY <2>1, <2>2, <2>3, <2>4, <2>5, CommittingContent
  <1>11. ASSUME NEW ids \in SUBSET Reservations, NEW consumed \in Counts(ids),
                CommitPrefix(ids, consumed)
         PROVE  Content'
    <2> DEFINE to == [i \in ids |-> kv.resv[i].start + consumed[i]]
    <2>1. ids \in SUBSET DOMAIN kv.resv
      BY DEF Reservations
    <2>2. /\ kv' = CommitPrefixes(kv, ids, consumed) /\ \A i \in ids : Consistent(kv, i)
          /\ \A i \in ids : work[i].state = "written"
          /\ \A i \in ids : consumed[i] \in 1 .. kv.resv[i].count
          /\ hist' = Grown(ids, consumed) /\ work' = Restrict(work, DOMAIN work \ ids)
          /\ mem' = mem
      BY <1>11 DEF CommitPrefix
    <2>3. Settleable(kv, ids, to) /\ SettledTo(kv, ids, to, kv')
      BY <1>0, <2>1, <2>2, CommitPrefixesPreserves
    <2>4. Closed(kv, ids, kv') /\ IndexShrinks(kv, kv')
      BY <1>0, <2>1, <2>2, CommitPrefixTables
    <2>5. \A i \in ids : to[i] = kv.resv[i].start + consumed[i]
      OBVIOUS
    <2> HIDE DEF to
    <2> QED
      BY <2>1, <2>2, <2>3, <2>4, <2>5, CommittingContent
  <1>12. ASSUME NEW ids \in SUBSET Reservations, Cancel(ids) PROVE Content'
    <2> DEFINE to == [i \in ids |-> kv.resv[i].start]
    <2>1. ids \in SUBSET DOMAIN kv.resv
      BY DEF Reservations
    <2>2. /\ kv' = CancelAppends(kv, ids) /\ \A i \in ids : Consistent(kv, i)
          /\ hist' = hist /\ work' = Restrict(work, DOMAIN work \ ids) /\ mem' = mem
      BY <1>12 DEF Cancel
    <2>3. Settleable(kv, ids, to) /\ SettledTo(kv, ids, to, kv')
      BY <1>0, <2>1, <2>2, CancelPreserves
    <2>4. Closed(kv, ids, kv') /\ IndexShrinks(kv, kv')
      BY <1>0, <2>1, <2>2, CancelTables
    <2>5. \A i \in ids : to[i] = kv.resv[i].start
      OBVIOUS
    <2> HIDE DEF to
    <2>6. Keeps(kv, kv')
      BY <1>0, <2>1, <2>3, <2>5, CancelledKeeps
    <2>7. \A i \in DOMAIN kv'.resv :
             /\ i \in DOMAIN kv.resv \ ids /\ kv'.resv[i] = kv.resv[i]
             /\ work'[i] = work[i]
      BY <1>w, <2>2, <2>4 DEF Closed, Restrict
    <2>8. \A i \in DOMAIN kv'.resv :
             kv'.seqs[kv.resv[i].request] = kv.seqs[kv.resv[i].request]
      <3>1. \A i \in DOMAIN kv'.resv : kv.resv[i].request \in Live(kv) \ Owned(kv, ids)
        BY <1>0, <2>1, <2>7, Unowned
      <3> QED
        BY <2>3, <3>1 DEF SettledTo
    <2>9. Live(kv') = Live(kv)
      BY <2>4 DEF Closed
    <2> QED
      BY <1>0, <2>2, <2>4, <2>6, <2>7, <2>8, <2>9, KeepingContent
  <1>13. CASE UNCHANGED vars
    BY <1>13 DEF vars, Content
  <1> QED
    BY <1>1, <1>3, <1>4, <1>5, <1>6, <1>7, <1>8, <1>9, <1>10, <1>11, <1>12, <1>13
    DEF Next

\* What memory holds, as an invariant.
LEMMA ContentAlways == Spec => [](Inv /\ Content)
  <1>1. Init => Inv /\ Content
    BY InitInv, ContentInit
  <1>2. Inv /\ Content /\ [Next]_vars => (Inv /\ Content)'
    BY NextInv, ContentNext
  <1> QED
    BY <1>1, <1>2, PTL DEF Spec

-----------------------------------------------------------------------------
(* Committed tokens never move                                             *)

\* From m to n no live sequence loses a committed token or moves its page.
Stable(m, n) ==
    \A r \in Live(m) \cap Live(n) :
        /\ n.seqs[r].committed >= m.seqs[r].committed
        /\ \A j \in 1..PagesFor(m.seqs[r].committed) :
              j \in DOMAIN n.seqs[r].pages /\ n.seqs[r].pages[j] = m.seqs[r].pages[j]

\* A table still covers what was committed and maps it to the same pages.
LEMMA AgreeingStable ==
    ASSUME NEW m, KvInv(m), NEW n, KvInv(n),
           \A r \in Live(m) \cap Live(n) :
              /\ n.seqs[r].committed >= m.seqs[r].committed
              /\ AgreeUpTo(m.seqs[r].pages, n.seqs[r].pages, m.seqs[r].committed)
    PROVE  Stable(m, n)
  <1> SUFFICES ASSUME NEW r \in Live(m) \cap Live(n),
                      NEW j \in 1..PagesFor(m.seqs[r].committed)
               PROVE  /\ j \in DOMAIN n.seqs[r].pages
                      /\ n.seqs[r].pages[j] = m.seqs[r].pages[j]
    BY DEF Stable
  <1> DEFINE a == m.seqs[r].committed
             b == n.seqs[r].committed
             t == n.seqs[r].pages
  <1>1. /\ a \in Nat /\ b \in Nat /\ a <= b /\ t \in Seq(Page)
        /\ PagesFor(b) <= Len(t)
    BY LiveSequence
  <1>2. t[j] = m.seqs[r].pages[j]
    BY DEF AgreeUpTo
  <1> HIDE DEF a, b, t
  <1>3. PagesFor(a) \in Nat /\ PagesFor(b) \in Nat /\ PagesFor(a) <= PagesFor(b)
    BY <1>1, PagesForBounds, PagesForMonotonic
  <1>4. j \in 1..PagesFor(a)
    BY DEF a
  <1>5. j \in DOMAIN t
    BY <1>1, <1>3, <1>4
  <1> QED
    BY <1>2, <1>5 DEF t

\* Keeping the settled pages is what committed stability asks of a step.
LEMMA KeepsStable ==
    ASSUME NEW m, KvInv(m), NEW n, KvInv(n), Keeps(m, n)
    PROVE  Stable(m, n)
  <1>1. \A r \in Live(m) \cap Live(n) :
           /\ n.seqs[r].committed >= m.seqs[r].committed
           /\ AgreeUpTo(m.seqs[r].pages, n.seqs[r].pages, m.seqs[r].committed)
    <2> TAKE r \in Live(m) \cap Live(n)
    <2>1. m.seqs[r].committed \in Nat
      BY LiveSequence
    <2> QED
      BY <2>1 DEF Keeps
  <1> QED
    BY <1>1, AgreeingStable

\* Commit and cancel cut a table behind the tokens they settle.
LEMMA SettledStable ==
    ASSUME NEW m, KvInv(m), NEW n, KvInv(n), NEW ids, NEW to, Settleable(m, ids, to),
           SettledTo(m, ids, to, n)
    PROVE  Stable(m, n)
  <1>1. ASSUME NEW r \in Live(m)
        PROVE  /\ n.seqs[r].committed >= m.seqs[r].committed
               /\ AgreeUpTo(m.seqs[r].pages, n.seqs[r].pages, m.seqs[r].committed)
    <2> DEFINE a == m.seqs[r].committed
    <2>1. a \in Nat
      BY LiveSequence
    <2>2. CASE r \in Owned(m, ids)
      <3> DEFINE c == to[m.seqs[r].pending]
      <3>1. n.seqs[r].committed = c /\ AgreeUpTo(m.seqs[r].pages, n.seqs[r].pages, c)
        BY <2>2, SettledAgrees
      <3>2. c \in Nat /\ a <= c
        BY <2>2, OwnerSettles
      <3> HIDE DEF a, c
      <3>3. PagesFor(a) \in Nat /\ PagesFor(c) \in Nat /\ PagesFor(a) <= PagesFor(c)
        BY <2>1, <3>2, PagesForBounds, PagesForMonotonic
      <3>4. AgreeUpTo(m.seqs[r].pages, n.seqs[r].pages, a)
        BY <3>1, <3>3 DEF AgreeUpTo
      <3>5. n.seqs[r].committed >= a
        BY <2>1, <3>1, <3>2
      <3> QED
        BY <3>4, <3>5 DEF a
    <2>3. CASE r \notin Owned(m, ids)
      BY <2>1, <2>3 DEF SettledTo, AgreeUpTo
    <2> QED
      BY <2>2, <2>3
  <1> QED
    BY <1>1, AgreeingStable

\* Every operation is such a step.
LEMMA StableNext == Inv /\ Inv' /\ Content /\ [Next]_vars => Stable(kv, kv')
  <1> SUFFICES ASSUME Inv, Inv', Content, [Next]_vars PROVE Stable(kv, kv')
    OBVIOUS
  <1>0. /\ KvInv(kv) /\ KvInv(kv') /\ ManagerType(kv)
        /\ HistoriesHold(kv, hist, mem) /\ IndexHolds(kv, mem)
    BY DEF Inv, KvInv, Content
  <1>h. hist \in [Live(kv) -> Seq(Token)]
    BY DEF Inv, HistOK
  <1>s. ASSUME \A r \in Live(kv) \cap Live(kv') : kv'.seqs[r] = kv.seqs[r]
        PROVE  Stable(kv, kv')
    <2>1. Keeps(kv, kv')
      BY <1>s, SameKeeps
    <2> QED
      BY <1>0, <2>1, KeepsStable
  <1>1. ASSUME NEW enabled \in BOOLEAN, SetCaching(enabled) PROVE Stable(kv, kv')
    <2>1. kv'.seqs = kv.seqs
      BY <1>0, <1>1, SetCachingTables DEF SetCaching
    <2> QED
      BY <1>s, <2>1
  <1>2. ASSUME NEW r \in Request, Create(r) PROVE Stable(kv, kv')
    <2>1. r \notin Live(kv) /\ \A q \in Live(kv) \ {r} : kv'.seqs[q] = kv.seqs[q]
      BY <1>0, <1>2, CreateTables DEF Create
    <2> QED
      BY <1>s, <2>1
  <1>3. ASSUME NEW r \in Request, NEW n \in 1..MaxSequenceLength,
               NEW tokens \in Tokens(n), CreateWithPrefix(r, tokens)
        PROVE  Stable(kv, kv')
    <2>1. PICK x \in Matches(kv, tokens) : kv' = CreateSequenceWithPrefix(kv, r, tokens, x)
      BY <1>3 DEF CreateWithPrefix
    <2>2. r \notin Live(kv) /\ Prefixed(kv, r, tokens, x, kv')
      BY <1>0, <1>3, <2>1, CreateWithPrefixTables DEF CreateWithPrefix
    <2> QED
      BY <1>s, <2>2 DEF Prefixed
  <1>4. ASSUME NEW r \in Live(kv), NEW c \in 0..Len(hist[r]), Register(r, c)
        PROVE  Stable(kv, kv')
    <2> DEFINE n == kv'
    <2>1. n = RegisterPrefix(kv, r, SubSeq(hist[r], 1, c)) /\ KvInv(n)
      BY <1>0, <1>4 DEF Register
    <2> HIDE DEF n
    <2>2. /\ Live(n) = Live(kv)
          /\ \A q \in Live(kv) : /\ n.seqs[q].pages = kv.seqs[q].pages
                                 /\ n.seqs[q].committed = kv.seqs[q].committed
      BY <1>0, <1>h, <2>1, RegisterHolds
    <2>3. ASSUME NEW q \in Live(kv)
          PROVE  /\ n.seqs[q].committed >= kv.seqs[q].committed
                 /\ AgreeUpTo(kv.seqs[q].pages, n.seqs[q].pages, kv.seqs[q].committed)
      <3>1. kv.seqs[q].committed \in Nat
        BY <1>0, LiveSequence
      <3> QED
        BY <2>2, <3>1 DEF AgreeUpTo
    <2>4. Stable(kv, n)
      BY <1>0, <2>1, <2>3, AgreeingStable
    <2> QED
      BY <2>4 DEF n
  <1>5. ASSUME NEW r \in Live(kv), Remove(r) PROVE Stable(kv, kv')
    <2>1. \A q \in Live(kv') : kv'.seqs[q] = kv.seqs[q]
      BY <1>0, <1>5, RemoveTables DEF Remove
    <2> QED
      BY <1>s, <2>1
  <1>6. ASSUME NEW r \in Live(kv), NEW n \in 1..MaxSequenceLength,
               NEW tokens \in Tokens(n), Begin(r, tokens)
        PROVE  Stable(kv, kv')
    <2> DEFINE len == Len(tokens)
    <2>1. len \in Nat
      BY DEF Tokens
    <2>2. PICK new \in Allocations(kv, Additional(kv, r, kv.seqs[r].committed + len)) :
             kv' = BeginAppend(kv, r, len, new)
      BY <1>6 DEF Begin
    <2>3. TableGrown(kv, r, new, kv') /\ \E k : Obtainable(kv, k, new)
      BY <1>0, <1>6, <2>1, <2>2, BeginPreserves DEF Begin
    <2>4. Keeps(kv, kv')
      BY <1>0, <2>3, GrownKeeps
    <2> QED
      BY <1>0, <2>4, KeepsStable
  <1>7. ASSUME NEW id \in Reservations, NEW n \in 1..MaxSequenceLength,
               NEW extra \in Tokens(n), Extend(id, extra)
        PROVE  Stable(kv, kv')
    <2> DEFINE len == Len(extra)
               r == kv.resv[id].request
    <2>1. len \in Nat /\ id \in DOMAIN kv.resv
      BY DEF Tokens, Reservations
    <2>2. PICK new \in Allocations(kv, Additional(kv, kv.resv[id].request,
                          kv.resv[id].start + kv.resv[id].count + len)) :
             kv' = ExtendAppend(kv, id, len, new)
      BY <1>7 DEF Extend
    <2>3. TableGrown(kv, r, new, kv') /\ \E k : Obtainable(kv, k, new)
      BY <1>0, <1>7, <2>1, <2>2, ExtendPreserves DEF Extend
    <2>4. r \in Live(kv)
      BY <1>0, <2>1, LiveReservation
    <2>5. Keeps(kv, kv')
      BY <1>0, <2>3, <2>4, GrownKeeps
    <2> QED
      BY <1>0, <2>5, KeepsStable
  <1>8. ASSUME NEW id \in Reservations, NEW ok \in BOOLEAN, DeviceRun(id, ok)
        PROVE  Stable(kv, kv')
    BY <1>8, <1>s DEF DeviceRun
  <1>9. ASSUME NEW ids \in SUBSET Reservations, Commit(ids) PROVE Stable(kv, kv')
    <2> DEFINE to == [i \in ids |-> kv.resv[i].start + kv.resv[i].count]
    <2>1. Settleable(kv, ids, to) /\ SettledTo(kv, ids, to, kv')
      BY <1>0, <1>9, CommitPreserves DEF Commit, Reservations
    <2> HIDE DEF to
    <2> QED
      BY <1>0, <2>1, SettledStable
  <1>10. ASSUME NEW ids \in SUBSET Reservations, NEW consumed \in Counts(ids),
                CommitPrefix(ids, consumed)
         PROVE  Stable(kv, kv')
    <2> DEFINE to == [i \in ids |-> kv.resv[i].start + consumed[i]]
    <2>1. /\ kv' = CommitPrefixes(kv, ids, consumed) /\ ids \in SUBSET DOMAIN kv.resv
          /\ \A i \in ids : Consistent(kv, i) /\ consumed[i] \in 1 .. kv.resv[i].count
      BY <1>10 DEF CommitPrefix, Reservations
    <2>2. Settleable(kv, ids, to) /\ SettledTo(kv, ids, to, kv')
      BY <1>0, <2>1, CommitPrefixesPreserves
    <2> HIDE DEF to
    <2> QED
      BY <1>0, <2>2, SettledStable
  <1>11. ASSUME NEW ids \in SUBSET Reservations, Cancel(ids) PROVE Stable(kv, kv')
    <2> DEFINE to == [i \in ids |-> kv.resv[i].start]
    <2>1. Settleable(kv, ids, to) /\ SettledTo(kv, ids, to, kv')
      BY <1>0, <1>11, CancelPreserves DEF Cancel, Reservations
    <2> HIDE DEF to
    <2> QED
      BY <1>0, <2>1, SettledStable
  <1>12. CASE UNCHANGED vars
    BY <1>12, <1>s DEF vars
  <1> QED
    BY <1>1, <1>2, <1>3, <1>4, <1>5, <1>6, <1>7, <1>8, <1>9, <1>10, <1>11, <1>12
    DEF Next

-----------------------------------------------------------------------------
(* The order of eviction                                                   *)

\* A new manager has no evictable page.
LEMMA OrderedInit == Init => Ordered(kv)
  BY DEF Init, NewManager, Ordered, Cached

\* Every operation keeps the ranks distinct and evicts by them.
LEMMA OrderedNext == Inv /\ Ordered(kv) /\ [Next]_vars => Lru(kv, kv') /\ Ordered(kv')
  <1> SUFFICES ASSUME Inv, Ordered(kv), [Next]_vars PROVE Lru(kv, kv') /\ Ordered(kv')
    OBVIOUS
  <1>0. KvInv(kv)
    BY DEF Inv
  <1>1. ASSUME NEW enabled \in BOOLEAN, SetCaching(enabled)
        PROVE  Lru(kv, kv') /\ Ordered(kv')
    BY <1>0, <1>1, SetCachingLru DEF SetCaching
  <1>2. ASSUME NEW r \in Request, Create(r) PROVE Lru(kv, kv') /\ Ordered(kv')
    BY <1>0, <1>2, CreateLru DEF Create
  <1>3. ASSUME NEW r \in Request, NEW n \in 1..MaxSequenceLength,
               NEW tokens \in Tokens(n), CreateWithPrefix(r, tokens)
        PROVE  Lru(kv, kv') /\ Ordered(kv')
    BY <1>0, <1>3, CreateWithPrefixLru DEF CreateWithPrefix
  <1>4. ASSUME NEW r \in Live(kv), NEW c \in 0..Len(hist[r]), Register(r, c)
        PROVE  Lru(kv, kv') /\ Ordered(kv')
    BY <1>0, <1>4, RegisterLru DEF Register
  <1>5. ASSUME NEW r \in Live(kv), Remove(r) PROVE Lru(kv, kv') /\ Ordered(kv')
    BY <1>0, <1>5, RemoveLru DEF Remove
  <1>6. ASSUME NEW r \in Live(kv), NEW n \in 1..MaxSequenceLength,
               NEW tokens \in Tokens(n), Begin(r, tokens)
        PROVE  Lru(kv, kv') /\ Ordered(kv')
    BY <1>0, <1>6, BeginLru DEF Begin
  <1>7. ASSUME NEW id \in Reservations, NEW n \in 1..MaxSequenceLength,
               NEW extra \in Tokens(n), Extend(id, extra)
        PROVE  Lru(kv, kv') /\ Ordered(kv')
    BY <1>0, <1>7, ExtendLru DEF Extend
  <1>8. ASSUME NEW id \in Reservations, NEW ok \in BOOLEAN, DeviceRun(id, ok)
        PROVE  Lru(kv, kv') /\ Ordered(kv')
    BY <1>8, UntouchedLru DEF DeviceRun
  <1>9. ASSUME NEW ids \in SUBSET Reservations, Commit(ids)
        PROVE  Lru(kv, kv') /\ Ordered(kv')
    BY <1>0, <1>9, CommitLru DEF Commit
  <1>10. ASSUME NEW ids \in SUBSET Reservations, NEW consumed \in Counts(ids),
                CommitPrefix(ids, consumed)
         PROVE  Lru(kv, kv') /\ Ordered(kv')
    BY <1>0, <1>10, CommitPrefixesLru DEF CommitPrefix, Reservations
  <1>11. ASSUME NEW ids \in SUBSET Reservations, Cancel(ids)
         PROVE  Lru(kv, kv') /\ Ordered(kv')
    BY <1>0, <1>11, CancelLru DEF Cancel, Reservations
  <1>12. CASE UNCHANGED vars
    BY <1>12, UntouchedLru DEF vars
  <1> QED
    BY <1>1, <1>2, <1>3, <1>4, <1>5, <1>6, <1>7, <1>8, <1>9, <1>10, <1>11, <1>12
    DEF Next

-----------------------------------------------------------------------------
(* The theorems                                                            *)

\* The manager's fields and the client's histories keep their types.
THEOREM TypeCorrect == Spec => []TypeOK
  <1>1. Inv => TypeOK
    BY DEF Inv, HistOK, KvInv, TypeOK
  <1> QED
    BY <1>1, InvAlways, PTL

\* free_pages, page_refs and evictable always agree with the block tables: no
\* page leaks and none is handed out while a sequence maps it.
THEOREM NoPageLeaks == Spec => []PagesAccounted
  <1>1. Inv => PagesAccounted
    BY DEF Inv, KvInv, PagesAccounted
  <1> QED
    BY <1>1, InvAlways, PTL

\* block_index and page_blocks always are inverse to each other.
THEOREM IndexInverse == Spec => []IndexAgrees
  <1>1. Inv => IndexAgrees
    BY DEF Inv, KvInv, IndexAgrees
  <1> QED
    BY <1>1, InvAlways, PTL

\* A reservation always is its sequence's pending one and its table is as long
\* as it says: the `expect`s and split_offs of commit and cancel never panic.
THEOREM ReservationsConsistent == Spec => []ReservationsOwned
  <1>1. Inv => ReservationsOwned
    BY DEF Inv, KvInv, ReservationsOwned
  <1> QED
    BY <1>1, InvAlways, PTL

\* No position that the device may write lies in a shared or a published page.
THEOREM SharedNeverWritten == Spec => []TailUnpublished
  <1>1. Inv => TailUnpublished
    BY DEF Inv, KvInv, TailUnpublished
  <1> QED
    BY <1>1, InvAlways, PTL

\* Whatever was reserved, cancelled, partly accepted, shared or evicted, a
\* sequence's block table leads to the KV of exactly its own history, and a page
\* under a prefix-cache key holds the KV of that key's tokens.
THEOREM ContentAlwaysCorrect == Spec => []ContentCorrect
  <1>1. Inv /\ Content => ContentCorrect
    BY DEF Content, HistoriesHold, SeqHolds, IndexHolds, ContentCorrect
  <1> QED
    BY <1>1, ContentAlways, PTL

\* No operation moves the pages of a live sequence's committed tokens or takes
\* one of these back: split_off cuts behind them.
THEOREM CommittedNeverMoves == Spec => CommittedStable
  <1> DEFINE A == \A r \in Live(kv) \cap Live(kv)' :
                     LET before == kv.seqs[r] after == kv.seqs[r]'
                     IN  /\ after.committed >= before.committed
                         /\ \A j \in 1..PagesFor(before.committed) :
                               j \in DOMAIN after.pages /\ after.pages[j] = before.pages[j]
  <1>1. Stable(kv, kv') => A
    BY DEF Stable
  <1>2. Inv /\ Content /\ [Next]_vars => [A]_vars
    BY <1>1, NextInv, StableNext
  <1>3. CommittedStable <=> [][A]_vars
    BY DEF CommittedStable
  <1> HIDE DEF A
  <1> QED
    BY <1>2, <1>3, ContentAlways, PTL DEF Spec

\* While caching stays on, only an allocation that found no free page drops a
\* published block, and it drops the least recently released ones first.
THEOREM EvictsLeastRecent == Spec => EvictionIsLru
  <1> DEFINE A == kv.caching /\ kv'.caching =>
                     \A k \in DOMAIN kv.index \ DOMAIN kv'.index :
                         LET p == kv.index[k]
                         IN  /\ p \in Cached(kv)
                             /\ kv'.free = {}
                             /\ \A q \in Cached(kv)' :
                                   q \in Cached(kv) => kv.evictable[p] < kv.evictable[q]
             O == Ordered(kv)
  <1>1. Lru(kv, kv') => A
    BY DEF Lru, Cached
  <1>2. Init => O
    BY OrderedInit
  <1>3. Inv /\ O /\ [Next]_vars => O' /\ [A]_vars
    BY <1>1, OrderedNext DEF Ordered, Cached
  <1>4. EvictionIsLru <=> [][A]_vars
    BY DEF EvictionIsLru
  <1> HIDE DEF A, O
  <1> QED
    BY <1>2, <1>3, <1>4, InvAlways, PTL DEF Spec

=============================================================================
