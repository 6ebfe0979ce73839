------------------------ MODULE BatchSchedulerProofs -------------------------
(***************************************************************************)
(* Nothing leaks: every KV sequence belongs to an active request, every    *)
(* reservation to a row of the batch in flight, and no page is lost, for   *)
(* every pool, set of jobs, model and scheduling option.                   *)
(*                                                                         *)
(* The scheduler works on the whole state at once: schedule promotes       *)
(* requests, builds rows and preempts in one call, completing a batch      *)
(* folds over its rows.  So the inductive invariant IInv is stated of a    *)
(* scheduler s (SchedInv), each function of the module is shown to         *)
(* preserve it or a weaker form that holds half-way (Built: some rows      *)
(* reserved; Settling: some rows still in flight), and the folds are       *)
(* followed by induction on the number of rows, over the set of the        *)
(* numbers that have been reached (UpTo).  What one call does to the pages *)
(* comes from PagedKvOpsProofs.                                            *)
(***************************************************************************)
EXTENDS BatchScheduler, PagedKvOpsProofs, WellFoundedInduction

-----------------------------------------------------------------------------
(* Natural numbers and folds                                               *)

\* A nonempty set of natural numbers has a least element.
LEMMA LeastOf ==
    ASSUME NEW T \in SUBSET Nat, T # {}
    PROVE  \E x \in T : \A y \in T : x <= y
  <1>1. PICK x \in T : \A y \in T : ~ (<<y, x>> \in OpToRel(<, Nat))
    BY WFMin, NatLessThanWellFounded
  <1>2. \A y \in T : ~(y < x)
    BY <1>1 DEF OpToRel
  <1> QED
    BY <1>2, SMT

\* Induction up to n, over the set G of the numbers that have been reached.
LEMMA UpTo ==
    ASSUME NEW n \in Nat, NEW G, 0 \in G, \A k \in 1..n : k - 1 \in G => k \in G
    PROVE  n \in G
  <1> DEFINE T == {k \in 0..n : k \notin G}
  <1> SUFFICES ASSUME T # {} PROVE FALSE
    BY SMT
  <1>1. T \in SUBSET Nat
    BY SMT
  <1> HIDE DEF T
  <1>2. PICK x \in T : \A y \in T : x <= y
    BY <1>1, LeastOf
  <1>3. x \in 1..n /\ x \notin G
    BY <1>2, SMT DEF T
  <1>4. x - 1 \in 0..n /\ x - 1 \notin T
    BY <1>2, <1>3, SMT
  <1> QED
    BY <1>3, <1>4 DEF T

\* A nonempty set of natural numbers below n has a greatest element.
LEMMA GreatestOf ==
    ASSUME NEW n \in Nat, NEW T \in SUBSET (0..n), T # {}
    PROVE  \E x \in T : \A y \in T : y <= x
  <1> DEFINE U == {n - x : x \in T}
  <1>1. \A x \in T : n - x \in Nat
    BY SMT
  <1>2. PICK u \in U : \A v \in U : u <= v
    <2>1. U \in SUBSET Nat /\ U # {}
      BY <1>1
    <2> QED
      BY <2>1, LeastOf
  <1>3. PICK x \in T : u = n - x
    BY <1>2
  <1>4. \A y \in T : n - x <= n - y
    BY <1>2, <1>3
  <1> QED
    BY <1>4, SMT

\* Max of a nonempty bounded set of natural numbers is its greatest element.
LEMMA MaxWithin ==
    ASSUME NEW n \in Nat, NEW T \in SUBSET (0..n), T # {}
    PROVE  Max(T) \in T /\ \A y \in T : y <= Max(T)
  <1>1. PICK x \in T : \A y \in T : y <= x
    BY GreatestOf
  <1>2. \E z \in T : \A y \in T : z >= y
    BY <1>1, SMT
  <1>3. Max(T) \in T /\ \A y \in T : Max(T) >= y
    BY <1>2 DEF Max
  <1> DEFINE x0 == Max(T)
  <1>4. x0 \in T /\ \A y \in T : x0 >= y
    BY <1>3
  <1> HIDE DEF x0
  <1>5. \A y \in T : y <= x0
    BY <1>4, SMT
  <1> QED
    BY <1>4, <1>5 DEF x0

\* A fold over 1..n takes the greatest index off the set of those left.
LEMMA MaxUpTo ==
    ASSUME NEW k \in Nat, NEW T \in SUBSET (1..k), T # {}
    PROVE  T \ {Max(T)} \in SUBSET (1 .. k - 1)
  <1> DEFINE x == Max(T)
  <1>1. T \in SUBSET (0..k)
    BY SMT
  <1>2. x \in T /\ \A y \in T : y <= x
    BY <1>1, MaxWithin
  <1> HIDE DEF x
  <1>3. T \ {x} \in SUBSET (1 .. k - 1)
    BY <1>2, SMT
  <1> QED
    BY <1>3 DEF x

\* The greatest of 1..k is k: folds over 1..n take the numbers from n down.
LEMMA MaxRange ==
    ASSUME NEW n \in Nat, NEW k \in 1..n
    PROVE  /\ 1..k \in SUBSET (1..n) /\ 1..k # {}
           /\ Max(1..k) = k /\ (1..k) \ {Max(1..k)} = 1 .. k - 1
  <1>1. k \in Nat /\ k \in 1..k /\ 1..k \in SUBSET (0..k)
    BY SMT
  <1>2. Max(1..k) \in 1..k /\ \A y \in 1..k : y <= Max(1..k)
    BY <1>1, MaxWithin
  <1>3. Max(1..k) = k
    BY <1>1, <1>2, SMT
  <1>4. \A x \in 1..k : x \in 1..n
    BY SMT
  <1>5. (1..k) \ {k} = 1 .. k - 1
    BY <1>1, SMT
  <1> QED
    BY <1>1, <1>3, <1>4, <1>5

\* The states t[k] after k admissions of promote_pending.
LEMMA AdmitFold ==
    ASSUME NEW base, NEW ss, NEW n \in Nat, DOMAIN ss = 1..n
    PROVE  \E t : /\ t[0] = base
                  /\ \A k \in 1..n : t[k] = Admit(t[k - 1], ss[k])
                  /\ t[n] = FoldLeft(Admit, base, ss)
  <1> DEFINE Step(g, T) == Admit(g[T \ {Max(T)}], ss[Max(T)])
             Folds(g, k) == g = [T \in SUBSET (1..k) |-> IF T = {} THEN base ELSE Step(g, T)]
             G == {k \in 0..n : \E g : Folds(g, k)}
  <1>1. 0 \in G
    <2>1. Folds([T \in SUBSET (1..0) |-> base], 0)
      BY SMT
    <2>2. 0 \in 0..n
      BY SMT
    <2> QED
      BY <2>1, <2>2
  <1>2. ASSUME NEW k \in 1..n, k - 1 \in G PROVE k \in G
    <2>1. PICK g : Folds(g, k - 1)
      BY <1>2
    <2> DEFINE h == [T \in SUBSET (1..k) |-> IF T = {} THEN base ELSE Step(g, T)]
    <2>2. ASSUME NEW T \in SUBSET (1..k), T # {} PROVE h[T \ {Max(T)}] = g[T \ {Max(T)}]
      <3>1. T \ {Max(T)} \in SUBSET (1 .. k - 1) /\ T \ {Max(T)} \in SUBSET (1..k)
        <4>1. k \in Nat
          BY SMT
        <4>2. T \ {Max(T)} \in SUBSET (1 .. k - 1)
          BY <2>2, <4>1, MaxUpTo
        <4> QED
          BY <4>2
      <3> QED
        BY <2>1, <3>1
    <2>3. Folds(h, k)
      BY <2>2
    <2>4. k \in 0..n
      BY SMT
    <2> QED
      BY <2>3, <2>4
  <1>3. n \in G
    BY <1>1, <1>2, UpTo
  <1> DEFINE it == CHOOSE g : Folds(g, n)
  <1>4. Folds(it, n)
    BY <1>3
  <1>5. it[1..n] = FoldLeft(Admit, base, ss)
    BY DEF FoldLeft, MapThenFoldSet
  <1> HIDE DEF it
  <1>6. it[1..0] = base
    BY <1>4, SMT
  <1>7. ASSUME NEW k \in 1..n PROVE it[1..k] = Admit(it[1 .. k - 1], ss[k])
    <2>1. /\ 1..k \in SUBSET (1..n) /\ 1..k # {}
          /\ Max(1..k) = k /\ (1..k) \ {Max(1..k)} = 1 .. k - 1
      BY MaxRange
    <2> QED
      BY <1>4, <2>1
  <1> DEFINE t == [k \in 0..n |-> it[1..k]]
  <1>8. t[0] = base /\ (\A k \in 1..n : t[k] = Admit(t[k - 1], ss[k])) /\ t[n] = it[1..n]
    BY <1>6, <1>7, SMT
  <1> QED
    BY <1>5, <1>8

\* One candidate of BuildRows.
Build(tokens, limit, built, r) ==
    IF Len(built.rows) < limit /\ CanAppend(built.kv, r, Len(tokens[r]))
    THEN AddRow(built, r, tokens[r])
    ELSE built

BuildAll(tokens, limit, base, ss) ==
    FoldLeft(LAMBDA built, r :
                IF Len(built.rows) < limit /\ CanAppend(built.kv, r, Len(tokens[r]))
                THEN AddRow(built, r, tokens[r])
                ELSE built, base, ss)

\* What is built after k candidates.
LEMMA BuildFold ==
    ASSUME NEW tokens, NEW limit, NEW base, NEW ss, NEW e,
           e = BuildAll(tokens, limit, base, ss), NEW n \in Nat, DOMAIN ss = 1..n
    PROVE  \E t : /\ t[0] = base
                  /\ \A k \in 1..n : t[k] = Build(tokens, limit, t[k - 1], ss[k])
                  /\ t[n] = e
  <1> DEFINE Step(g, T) == Build(tokens, limit, g[T \ {Max(T)}], ss[Max(T)])
             Folds(g, k) == g = [T \in SUBSET (1..k) |-> IF T = {} THEN base ELSE Step(g, T)]
             G == {k \in 0..n : \E g : Folds(g, k)}
  <1>1. 0 \in G
    <2>1. Folds([T \in SUBSET (1..0) |-> base], 0)
      BY SMT
    <2>2. 0 \in 0..n
      BY SMT
    <2> QED
      BY <2>1, <2>2
  <1>2. ASSUME NEW k \in 1..n, k - 1 \in G PROVE k \in G
    <2>1. PICK g : Folds(g, k - 1)
      BY <1>2
    <2> DEFINE h == [T \in SUBSET (1..k) |-> IF T = {} THEN base ELSE Step(g, T)]
    <2>2. ASSUME NEW T \in SUBSET (1..k), T # {} PROVE h[T \ {Max(T)}] = g[T \ {Max(T)}]
      <3>1. T \ {Max(T)} \in SUBSET (1 .. k - 1) /\ T \ {Max(T)} \in SUBSET (1..k)
        <4>1. k \in Nat
          BY SMT
        <4>2. T \ {Max(T)} \in SUBSET (1 .. k - 1)
          BY <2>2, <4>1, MaxUpTo
        <4> QED
          BY <4>2
      <3> QED
        BY <2>1, <3>1
    <2>3. Folds(h, k)
      BY <2>2
    <2>4. k \in 0..n
      BY SMT
    <2> QED
      BY <2>3, <2>4
  <1>3. n \in G
    BY <1>1, <1>2, UpTo
  <1> DEFINE it == CHOOSE g : Folds(g, n)
  <1>4. Folds(it, n)
    BY <1>3
  <1>5. it[1..n] = BuildAll(tokens, limit, base, ss)
    BY DEF FoldLeft, MapThenFoldSet, BuildAll, Build
  <1> HIDE DEF it
  <1>6. it[1..0] = base
    BY <1>4, SMT
  <1>7. ASSUME NEW k \in 1..n PROVE it[1..k] = Build(tokens, limit, it[1 .. k - 1], ss[k])
    <2>1. /\ 1..k \in SUBSET (1..n) /\ 1..k # {}
          /\ Max(1..k) = k /\ (1..k) \ {Max(1..k)} = 1 .. k - 1
      BY MaxRange
    <2> QED
      BY <1>4, <2>1
  <1> DEFINE t == [k \in 0..n |-> it[1..k]]
  <1>8. t[0] = base /\ (\A k \in 1..n : t[k] = Build(tokens, limit, t[k - 1], ss[k])) /\ t[n] = it[1..n]
    BY <1>6, <1>7, SMT
  <1> QED
    BY <1>5, <1>8

\* The fold of build_rows over the candidates, oldest request first.
LEMMA BuildExpands ==
    ASSUME NEW s, NEW C, NEW tokens, NEW limit
    PROVE  BuildRows(s, C, tokens, limit)
             = BuildAll(tokens, limit, [kv |-> s.kv, rows |-> <<>>], Ids(C))
  BY DEF BuildRows, BuildAll

\* One row of reserve_lookahead.
Extend(a, row) == Extended(a, row, ExtraTokens(a.s, row, a.budget))
ExtendAll(base, ss) ==
    FoldLeft(LAMBDA a, row : Extended(a, row, ExtraTokens(a.s, row, a.budget)), base, ss)

\* What is extended after k rows.
LEMMA ExtendFold ==
    ASSUME NEW base, NEW ss, NEW n \in Nat, DOMAIN ss = 1..n
    PROVE  \E t : /\ t[0] = base
                  /\ \A k \in 1..n : t[k] = Extend(t[k - 1], ss[k])
                  /\ t[n] = ExtendAll(base, ss)
  <1> DEFINE Step(g, T) == Extend(g[T \ {Max(T)}], ss[Max(T)])
             Folds(g, k) == g = [T \in SUBSET (1..k) |-> IF T = {} THEN base ELSE Step(g, T)]
             G == {k \in 0..n : \E g : Folds(g, k)}
  <1>1. 0 \in G
    <2>1. Folds([T \in SUBSET (1..0) |-> base], 0)
      BY SMT
    <2>2. 0 \in 0..n
      BY SMT
    <2> QED
      BY <2>1, <2>2
  <1>2. ASSUME NEW k \in 1..n, k - 1 \in G PROVE k \in G
    <2>1. PICK g : Folds(g, k - 1)
      BY <1>2
    <2> DEFINE h == [T \in SUBSET (1..k) |-> IF T = {} THEN base ELSE Step(g, T)]
    <2>2. ASSUME NEW T \in SUBSET (1..k), T # {} PROVE h[T \ {Max(T)}] = g[T \ {Max(T)}]
      <3>1. T \ {Max(T)} \in SUBSET (1 .. k - 1) /\ T \ {Max(T)} \in SUBSET (1..k)
        <4>1. k \in Nat
          BY SMT
        <4>2. T \ {Max(T)} \in SUBSET (1 .. k - 1)
          BY <2>2, <4>1, MaxUpTo
        <4> QED
          BY <4>2
      <3> QED
        BY <2>1, <3>1
    <2>3. Folds(h, k)
      BY <2>2
    <2>4. k \in 0..n
      BY SMT
    <2> QED
      BY <2>3, <2>4
  <1>3. n \in G
    BY <1>1, <1>2, UpTo
  <1> DEFINE it == CHOOSE g : Folds(g, n)
  <1>4. Folds(it, n)
    BY <1>3
  <1>5. it[1..n] = ExtendAll(base, ss)
    BY DEF FoldLeft, MapThenFoldSet, ExtendAll, Extend
  <1> HIDE DEF it
  <1>6. it[1..0] = base
    BY <1>4, SMT
  <1>7. ASSUME NEW k \in 1..n PROVE it[1..k] = Extend(it[1 .. k - 1], ss[k])
    <2>1. /\ 1..k \in SUBSET (1..n) /\ 1..k # {}
          /\ Max(1..k) = k /\ (1..k) \ {Max(1..k)} = 1 .. k - 1
      BY MaxRange
    <2> QED
      BY <1>4, <2>1
  <1> DEFINE t == [k \in 0..n |-> it[1..k]]
  <1>8. t[0] = base /\ (\A k \in 1..n : t[k] = Extend(t[k - 1], ss[k])) /\ t[n] = it[1..n]
    BY <1>6, <1>7, SMT
  <1> QED
    BY <1>5, <1>8

\* The fold of reserve_lookahead over the rows of a decode batch.
LEMMA LookaheadExpands ==
    ASSUME NEW s, Lookahead # 0, s.inFlight.kind = "Decode"
    PROVE  ReserveLookahead(s)
             = ExtendAll([s |-> s, budget |-> s.batchTokens - Len(s.inFlight.rows)],
                         s.inFlight.rows).s
  BY DEF ReserveLookahead, ExtendAll

\* What is registered after k rows.
LEMMA RegisterFold ==
    ASSUME NEW base, NEW ss, NEW n \in Nat, DOMAIN ss = 1..n
    PROVE  \E t : /\ t[0] = base
                  /\ \A k \in 1..n : t[k] = Register(t[k - 1], ss[k])
                  /\ t[n] = FoldLeft(Register, base, ss)
  <1> DEFINE Step(g, T) == Register(g[T \ {Max(T)}], ss[Max(T)])
             Folds(g, k) == g = [T \in SUBSET (1..k) |-> IF T = {} THEN base ELSE Step(g, T)]
             G == {k \in 0..n : \E g : Folds(g, k)}
  <1>1. 0 \in G
    <2>1. Folds([T \in SUBSET (1..0) |-> base], 0)
      BY SMT
    <2>2. 0 \in 0..n
      BY SMT
    <2> QED
      BY <2>1, <2>2
  <1>2. ASSUME NEW k \in 1..n, k - 1 \in G PROVE k \in G
    <2>1. PICK g : Folds(g, k - 1)
      BY <1>2
    <2> DEFINE h == [T \in SUBSET (1..k) |-> IF T = {} THEN base ELSE Step(g, T)]
    <2>2. ASSUME NEW T \in SUBSET (1..k), T # {} PROVE h[T \ {Max(T)}] = g[T \ {Max(T)}]
      <3>1. T \ {Max(T)} \in SUBSET (1 .. k - 1) /\ T \ {Max(T)} \in SUBSET (1..k)
        <4>1. k \in Nat
          BY SMT
        <4>2. T \ {Max(T)} \in SUBSET (1 .. k - 1)
          BY <2>2, <4>1, MaxUpTo
        <4> QED
          BY <4>2
      <3> QED
        BY <2>1, <3>1
    <2>3. Folds(h, k)
      BY <2>2
    <2>4. k \in 0..n
      BY SMT
    <2> QED
      BY <2>3, <2>4
  <1>3. n \in G
    BY <1>1, <1>2, UpTo
  <1> DEFINE it == CHOOSE g : Folds(g, n)
  <1>4. Folds(it, n)
    BY <1>3
  <1>5. it[1..n] = FoldLeft(Register, base, ss)
    BY DEF FoldLeft, MapThenFoldSet
  <1> HIDE DEF it
  <1>6. it[1..0] = base
    BY <1>4, SMT
  <1>7. ASSUME NEW k \in 1..n PROVE it[1..k] = Register(it[1 .. k - 1], ss[k])
    <2>1. /\ 1..k \in SUBSET (1..n) /\ 1..k # {}
          /\ Max(1..k) = k /\ (1..k) \ {Max(1..k)} = 1 .. k - 1
      BY MaxRange
    <2> QED
      BY <1>4, <2>1
  <1> DEFINE t == [k \in 0..n |-> it[1..k]]
  <1>8. t[0] = base /\ (\A k \in 1..n : t[k] = Register(t[k - 1], ss[k])) /\ t[n] = it[1..n]
    BY <1>6, <1>7, SMT
  <1> QED
    BY <1>5, <1>8

\* One row of complete_batch.
Settle(s, n, row) ==
    LET a == s.active[row.request]
    IN  IF row.context < Len(a.history)
        THEN [n EXCEPT !.active[row.request].phase = "NeedsPrefill"]
        ELSE Advance(n, row.request, <<TokenAt(row, Len(row.tokens), a)>>)
SettleAll(s, base, ss) == FoldLeft(LAMBDA n1, row : Settle(s, n1, row), base, ss)

\* One row of complete_verify_batch.
KeepAccepted(n, row) ==
    [n EXCEPT !.kv = CommitPrefixes(@, {row.reservation},
                        [i \in {row.reservation} |-> Len(Produced(n.active[row.request], row))])]
Publish(n, r, tokens) == [n EXCEPT !.kv = RegisterPrefix(@, r, tokens)]
Verify(n, row) ==
    LET r == row.request
        produced == Produced(n.active[r], row)
    IN  Advance(Publish(KeepAccepted(n, row), r, n.active[r].history \o produced), r, produced)

\* What complete_batch has settled after k rows.
LEMMA SettleFold ==
    ASSUME NEW s, NEW base, NEW ss, NEW e, e = SettleAll(s, base, ss),
           NEW n \in Nat, DOMAIN ss = 1..n
    PROVE  \E t : /\ t[0] = base
                  /\ \A k \in 1..n : t[k] = Settle(s, t[k - 1], ss[k])
                  /\ t[n] = e
  <1> DEFINE Step(g, T) == Settle(s, g[T \ {Max(T)}], ss[Max(T)])
             Folds(g, k) == g = [T \in SUBSET (1..k) |-> IF T = {} THEN base ELSE Step(g, T)]
             G == {k \in 0..n : \E g : Folds(g, k)}
  <1>1. 0 \in G
    <2>1. Folds([T \in SUBSET (1..0) |-> base], 0)
      BY SMT
    <2>2. 0 \in 0..n
      BY SMT
    <2> QED
      BY <2>1, <2>2
  <1>2. ASSUME NEW k \in 1..n, k - 1 \in G PROVE k \in G
    <2>1. PICK g : Folds(g, k - 1)
      BY <1>2
    <2> DEFINE h == [T \in SUBSET (1..k) |-> IF T = {} THEN base ELSE Step(g, T)]
    <2>2. ASSUME NEW T \in SUBSET (1..k), T # {} PROVE h[T \ {Max(T)}] = g[T \ {Max(T)}]
      <3>1. T \ {Max(T)} \in SUBSET (1 .. k - 1) /\ T \ {Max(T)} \in SUBSET (1..k)
        <4>1. k \in Nat
          BY SMT
        <4>2. T \ {Max(T)} \in SUBSET (1 .. k - 1)
          BY <2>2, <4>1, MaxUpTo
        <4> QED
          BY <4>2
      <3> QED
        BY <2>1, <3>1
    <2>3. Folds(h, k)
      BY <2>2
    <2>4. k \in 0..n
      BY SMT
    <2> QED
      BY <2>3, <2>4
  <1>3. n \in G
    BY <1>1, <1>2, UpTo
  <1> DEFINE it == CHOOSE g : Folds(g, n)
  <1>4. Folds(it, n)
    BY <1>3
  <1>5. it[1..n] = SettleAll(s, base, ss)
    BY DEF FoldLeft, MapThenFoldSet, SettleAll
  <1> HIDE DEF it
  <1>6. it[1..0] = base
    BY <1>4, SMT
  <1>7. ASSUME NEW k \in 1..n PROVE it[1..k] = Settle(s, it[1 .. k - 1], ss[k])
    <2>1. /\ 1..k \in SUBSET (1..n) /\ 1..k # {}
          /\ Max(1..k) = k /\ (1..k) \ {Max(1..k)} = 1 .. k - 1
      BY MaxRange
    <2> QED
      BY <1>4, <2>1
  <1> DEFINE t == [k \in 0..n |-> it[1..k]]
  <1>8. t[0] = base /\ (\A k \in 1..n : t[k] = Settle(s, t[k - 1], ss[k])) /\ t[n] = it[1..n]
    BY <1>6, <1>7, SMT
  <1> QED
    BY <1>5, <1>8

\* What complete_verify_batch has settled after k rows.
LEMMA VerifyFold ==
    ASSUME NEW base, NEW ss, NEW n \in Nat, DOMAIN ss = 1..n
    PROVE  \E t : /\ t[0] = base
                  /\ \A k \in 1..n : t[k] = Verify(t[k - 1], ss[k])
                  /\ t[n] = FoldLeft(Verify, base, ss)
  <1> DEFINE Step(g, T) == Verify(g[T \ {Max(T)}], ss[Max(T)])
             Folds(g, k) == g = [T \in SUBSET (1..k) |-> IF T = {} THEN base ELSE Step(g, T)]
             G == {k \in 0..n : \E g : Folds(g, k)}
  <1>1. 0 \in G
    <2>1. Folds([T \in SUBSET (1..0) |-> base], 0)
      BY SMT
    <2>2. 0 \in 0..n
      BY SMT
    <2> QED
      BY <2>1, <2>2
  <1>2. ASSUME NEW k \in 1..n, k - 1 \in G PROVE k \in G
    <2>1. PICK g : Folds(g, k - 1)
      BY <1>2
    <2> DEFINE h == [T \in SUBSET (1..k) |-> IF T = {} THEN base ELSE Step(g, T)]
    <2>2. ASSUME NEW T \in SUBSET (1..k), T # {} PROVE h[T \ {Max(T)}] = g[T \ {Max(T)}]
      <3>1. T \ {Max(T)} \in SUBSET (1 .. k - 1) /\ T \ {Max(T)} \in SUBSET (1..k)
        <4>1. k \in Nat
          BY SMT
        <4>2. T \ {Max(T)} \in SUBSET (1 .. k - 1)
          BY <2>2, <4>1, MaxUpTo
        <4> QED
          BY <4>2
      <3> QED
        BY <2>1, <3>1
    <2>3. Folds(h, k)
      BY <2>2
    <2>4. k \in 0..n
      BY SMT
    <2> QED
      BY <2>3, <2>4
  <1>3. n \in G
    BY <1>1, <1>2, UpTo
  <1> DEFINE it == CHOOSE g : Folds(g, n)
  <1>4. Folds(it, n)
    BY <1>3
  <1>5. it[1..n] = FoldLeft(Verify, base, ss)
    BY DEF FoldLeft, MapThenFoldSet
  <1> HIDE DEF it
  <1>6. it[1..0] = base
    BY <1>4, SMT
  <1>7. ASSUME NEW k \in 1..n PROVE it[1..k] = Verify(it[1 .. k - 1], ss[k])
    <2>1. /\ 1..k \in SUBSET (1..n) /\ 1..k # {}
          /\ Max(1..k) = k /\ (1..k) \ {Max(1..k)} = 1 .. k - 1
      BY MaxRange
    <2> QED
      BY <1>4, <2>1
  <1> DEFINE t == [k \in 0..n |-> it[1..k]]
  <1>8. t[0] = base /\ (\A k \in 1..n : t[k] = Verify(t[k - 1], ss[k])) /\ t[n] = it[1..n]
    BY <1>6, <1>7, SMT
  <1> QED
    BY <1>5, <1>8

\* complete_batch commits all rows, registers their prefixes, then settles
\* each.
LEMMA CompleteExpands ==
    ASSUME NEW s
    PROVE  CompleteBatch(s)
             = Landed(SettleAll(s, FoldLeft(Register, CommittedBatch(s), s.inFlight.rows),
                                s.inFlight.rows))
  BY DEF CompleteBatch, SettleAll, Settle

\* complete_verify_batch settles one row after the other.
LEMMA VerifyExpands ==
    ASSUME NEW s
    PROVE  CompleteVerifyBatch(s) = Landed(FoldLeft(Verify, s, s.inFlight.rows))
  BY DEF CompleteVerifyBatch, Verify, Publish, KeepAccepted

-----------------------------------------------------------------------------
(* Choices that exist                                                      *)

\* A finite set of numbers has an increasing enumeration, so Ids is well
\* chosen.
LEMMA Enumerable ==
    ASSUME NEW n \in Nat, NEW S \in SUBSET Nat, IsFiniteSet(S), Cardinality(S) = n
    PROVE  \E f \in SetToSeqs(S) : \A i, j \in DOMAIN f : i < j => f[i] < f[j]
  <1> DEFINE Sorted(f) == \A i, j \in DOMAIN f : i < j => f[i] < f[j]
             Has(D) == \E f \in SetToSeqs(D) : Sorted(f)
             G == {k \in 0..n : \A D \in SUBSET S : Cardinality(D) = k => Has(D)}
  <1>1. 0 \in G
    <2>1. ASSUME NEW D \in SUBSET S, Cardinality(D) = 0 PROVE Has(D)
      <3>1. D = {}
        BY <2>1, FS_Subset, FS_EmptySet
      <3>2. <<>> \in SetToSeqs(D) /\ Sorted(<<>>)
        BY <2>1, <3>1 DEF SetToSeqs
      <3> QED
        BY <3>2
    <2>2. 0 \in 0..n
      BY SMT
    <2> QED
      BY <2>1, <2>2
  <1>2. ASSUME NEW k \in 1..n, k - 1 \in G PROVE k \in G
    <2>1. ASSUME NEW D \in SUBSET S, Cardinality(D) = k PROVE Has(D)
      <3>1. IsFiniteSet(D) /\ D \in SUBSET Nat
        BY FS_Subset
      <3>2. D # {}
        BY <2>1, FS_EmptySet, SMT
      <3>3. PICK x \in D : \A y \in D : x <= y
        BY <3>1, <3>2, LeastOf
      <3> DEFINE E == D \ {x}
      <3>4. Cardinality(E) = k - 1 /\ E \in SUBSET S
        <4>1. x \in D /\ Cardinality(E) = Cardinality(D) - 1
          BY <3>1, <3>3, FS_RemoveElement
        <4> QED
          BY <2>1, <4>1
      <3>5. PICK f \in SetToSeqs(E) : Sorted(f)
        BY <1>2, <3>4
      <3>6. /\ f \in [1 .. k - 1 -> E]
            /\ \A i, j \in 1 .. k - 1 : i # j => f[i] # f[j]
        BY <3>4, <3>5 DEF SetToSeqs
      <3> HIDE DEF E
      <3>7. \A y \in E : y \in D /\ x < y
        BY <3>1, <3>3, SMT DEF E
      <3> DEFINE g == [i \in 1..k |-> IF i = 1 THEN x ELSE f[i - 1]]
      <3>8. ASSUME NEW i \in 1..k, i # 1
            PROVE  g[i] = f[i - 1] /\ i - 1 \in 1 .. k - 1 /\ g[i] \in E /\ g[i] \in D /\ x < g[i]
        BY <3>6, <3>7, <3>8, SMT
      <3>9. g[1] = x /\ DOMAIN g = 1..k
        BY SMT
      <3>10. g \in [1..k -> D]
        BY <3>8, <3>9
      <3> HIDE DEF g
      <3>11. ASSUME NEW i \in 1..k, NEW j \in 1..k, i < j PROVE g[i] < g[j]
        <4>1. j # 1
          BY <3>11, SMT
        <4>2. CASE i = 1
          BY <4>1, <4>2, <3>8, <3>9
        <4>3. CASE i # 1
          <5>1. i - 1 < j - 1
            BY <3>11, SMT
          <5> QED
            BY <4>1, <4>3, <5>1, <3>5, <3>6, <3>8
        <4> QED
          BY <4>2, <4>3
      <3>12. \A i, j \in 1..k : i # j => g[i] # g[j]
        <4>1. \A i \in 1..k : g[i] \in Nat
          BY <3>1, <3>10
        <4>2. \A i, j \in 1..k : i # j => i < j \/ j < i
          BY SMT
        <4>3. \A a, b \in Nat : a < b => a # b /\ b # a
          BY SMT
        <4> QED
          BY <3>11, <4>1, <4>2, <4>3
      <3>13. g \in SetToSeqs(D)
        BY <2>1, <3>10, <3>12 DEF SetToSeqs
      <3> QED
        BY <3>9, <3>11, <3>13
    <2>2. k \in 0..n
      BY SMT
    <2> QED
      BY <2>1, <2>2
  <1>3. n \in G
    BY <1>1, <1>2, UpTo
  <1> QED
    BY <1>3

\* Ids lists each request of the set once.
LEMMA IdsList ==
    ASSUME NEW S \in SUBSET Request
    PROVE  /\ Cardinality(S) \in Nat
           /\ DOMAIN Ids(S) = 1..Cardinality(S)
           /\ \A k \in 1..Cardinality(S) : Ids(S)[k] \in S
  <1>1. S \in SUBSET Nat /\ IsFiniteSet(S)
    BY IdAssumption, RequestAssumption, FS_Subset
  <1>2. Cardinality(S) \in Nat
    BY <1>1, FS_CardinalityType
  <1>3. \E f \in SetToSeqs(S) : \A i, j \in DOMAIN f : i < j => f[i] < f[j]
    BY <1>1, <1>2, Enumerable
  <1>4. Ids(S) \in SetToSeqs(S)
    BY <1>3 DEF Ids
  <1> QED
    BY <1>2, <1>4 DEF SetToSeqs

\* The place of an available page in the order of allocation.
Key(m, p) == IF p \in m.free THEN p ELSE NumPages + m.evictable[p]

\* TakenBefore orders the available pages as the numbers Key gives them.
LEMMA KeyOrders ==
    ASSUME NEW m, KvInv(m), Ordered(m)
    PROVE  /\ \A p \in Available(m) : p \in Page /\ Key(m, p) \in Nat
           /\ \A p, q \in Available(m) : Key(m, p) = Key(m, q) => p = q
           /\ \A p, q \in Available(m) : TakenBefore(m, p, q) <=> Key(m, p) < Key(m, q)
  <1>1. /\ m.free \in SUBSET Page /\ Cached(m) \in SUBSET Page
        /\ m.evictable \in [Cached(m) -> Nat] /\ m.free \cap Cached(m) = {}
    BY DEF KvInv, ManagerType, Accounted
  <1>2. \A p \in Available(m) : \/ (p \in m.free /\ p \notin Cached(m) /\ Key(m, p) = p)
                               \/ (p \in Cached(m) /\ p \notin m.free
                                     /\ Key(m, p) = NumPages + m.evictable[p])
    <2> TAKE p \in Available(m)
    <2>1. p \in m.free \/ p \in Cached(m)
      BY DEF Available
    <2>2. CASE p \in m.free
      <3>1. p \notin Cached(m)
        BY <1>1, <2>2
      <3>2. Key(m, p) = p
        BY <2>2 DEF Key
      <3>3. p \in m.free /\ p \notin Cached(m) /\ Key(m, p) = p
        BY <2>2, <3>1, <3>2
      <3> QED
        BY <3>3, Zenon
    <2>3. CASE p \in Cached(m)
      BY <1>1, <2>3, Zenon DEF Key
    <2> QED
      BY <2>1, <2>2, <2>3
  <1>3. \A p \in Page : p \in Nat /\ p < NumPages
    BY ConfigAssumption, SMT DEF Page
  <1>4. \A p \in Cached(m) : m.evictable[p] \in Nat
    BY <1>1
  <1>5. \A p \in Available(m) : p \in Page
    BY <1>1 DEF Available
  <1>6. \A p, q \in Cached(m) : p # q => m.evictable[p] # m.evictable[q]
    BY DEF Ordered
  <1>7. \A p \in Available(m) : Key(m, p) \in Nat
    BY <1>2, <1>3, <1>4, <1>5, ConfigAssumption, SMT
  <1>8. ASSUME NEW p \in Available(m), NEW q \in Available(m), Key(m, p) = Key(m, q) PROVE p = q
    <2>1. CASE p \in m.free /\ q \in m.free
      BY <1>2, <1>8, <2>1
    <2>2. CASE p \in Cached(m) /\ q \in Cached(m)
      BY <1>2, <1>4, <1>6, <1>8, <2>2, ConfigAssumption, SMT
    <2>3. CASE ~(p \in m.free <=> q \in m.free)
      BY <1>2, <1>3, <1>4, <1>5, <1>8, <2>3, ConfigAssumption, SMT
    <2> QED
      BY <1>2, <2>1, <2>2, <2>3
  <1>9. ASSUME NEW p \in Available(m), NEW q \in Available(m)
        PROVE  TakenBefore(m, p, q) <=> Key(m, p) < Key(m, q)
    <2>1. CASE p \in m.free /\ q \in m.free
      BY <1>2, <2>1 DEF TakenBefore
    <2>2. CASE p \in m.free /\ q \in Cached(m)
      BY <1>2, <1>3, <1>4, <1>5, <2>2, ConfigAssumption, SMT DEF TakenBefore
    <2>3. CASE p \in Cached(m) /\ q \in m.free
      BY <1>2, <1>3, <1>4, <1>5, <2>3, ConfigAssumption, SMT DEF TakenBefore
    <2>4. CASE p \in Cached(m) /\ q \in Cached(m)
      BY <1>2, <1>4, <2>4, ConfigAssumption, SMT DEF TakenBefore
    <2> QED
      BY <1>2, <2>1, <2>2, <2>3, <2>4
  <1> QED
    BY <1>5, <1>7, <1>8, <1>9

\* allocate_page finds a page as long as one is available.
LEMMA AllocationsExist ==
    ASSUME NEW m, KvInv(m), Ordered(m), NEW n \in Nat, n <= AvailablePages(m)
    PROVE  Allocations(m, n) # {}
  <1> DEFINE A == Available(m)
             G == {k \in 0..n : Allocations(m, k) # {}}
  <1>1. IsFiniteSet(A) /\ Cardinality(A) \in Nat
    BY KeyOrders, PageFinite, FS_Subset, FS_CardinalityType
  <1>2. 0 \in G
    <2>1. <<>> \in [1..0 -> A] /\ IsInjective(<<>>)
      BY SMT DEF IsInjective
    <2>2. \A i \in 1..0 : FALSE
      BY SMT
    <2>3. <<>> \in Allocations(m, 0)
      BY <2>1, <2>2, Zenon DEF Allocations
    <2>4. 0 \in 0..n
      BY SMT
    <2> QED
      BY <2>3, <2>4
  <1>3. ASSUME NEW k \in 1..n, k - 1 \in G PROVE k \in G
    <2>1. PICK new \in Allocations(m, k - 1) : TRUE
      BY <1>3
    <2>2. /\ new \in [1 .. k - 1 -> A] /\ IsInjective(new)
          /\ \A i, j \in 1 .. k - 1 : i < j => TakenBefore(m, new[i], new[j])
          /\ \A i \in 1 .. k - 1, p \in A : TakenBefore(m, p, new[i]) => p \in Range(new)
      BY <2>1 DEF Allocations
    <2> DEFINE rest == A \ Range(new)
    <2>3. rest # {}
      <3> SUFFICES ASSUME A \subseteq Range(new) PROVE FALSE
        OBVIOUS
      <3>1. new \in Surjection(1 .. k - 1, A)
        BY <2>2 DEF Surjection, Range
      <3>2. ExistsSurjection(1 .. k - 1, A)
        BY <3>1 DEF ExistsSurjection
      <3>3. k - 1 \in Nat
        BY SMT
      <3>4. Cardinality(A) <= k - 1
        BY <3>2, <3>3, FS_SurjCardinalityBound
      <3> QED
        BY <3>4, <1>1, SMT DEF AvailablePages
    <2> DEFINE keys == {Key(m, p) : p \in rest}
    <2>4. PICK x \in keys : \A y \in keys : x <= y
      <3>1. keys \in SUBSET Nat /\ keys # {}
        BY <2>3, KeyOrders
      <3> QED
        BY <3>1, LeastOf
    <2>5. PICK p \in rest : Key(m, p) = x
      BY <2>4
    <2>6. \A q \in rest : Key(m, p) <= Key(m, q)
      BY <2>4, <2>5
    <2> DEFINE one == [i \in 1..k |-> IF i = k THEN p ELSE new[i]]
    <2>7. /\ DOMAIN one = 1..k /\ one[k] = p /\ k \in 1..k
          /\ \A i \in 1..k : i # k => i \in 1 .. k - 1 /\ one[i] = new[i]
      BY SMT
    <2> HIDE DEF one, rest, keys
    <2>8. p \in A /\ p \notin Range(new)
      BY <2>5 DEF rest
    <2>9. one \in [1..k -> A]
      BY <2>2, <2>7, <2>8, SMT DEF one
    <2>10. \A i \in 1 .. k - 1 : new[i] \in Range(new)
      BY <2>2 DEF Range
    <2>11. IsInjective(one)
      BY <2>2, <2>7, <2>8, <2>10 DEF IsInjective
    <2>12. ASSUME NEW i \in 1..k, NEW j \in 1..k, i < j PROVE TakenBefore(m, one[i], one[j])
      <3>1. i # k
        BY <2>12, SMT
      <3>2. CASE j # k
        BY <2>2, <2>7, <2>12, <3>1, <3>2
      <3>3. CASE j = k
        <4>1. new[i] \in A /\ new[i] # p /\ ~TakenBefore(m, p, new[i])
          BY <2>2, <2>7, <2>8, <2>10, <3>1
        <4>2. Key(m, new[i]) < Key(m, p)
          BY <4>1, <2>8, KeyOrders, SMT
        <4> QED
          BY <4>1, <4>2, <2>7, <2>8, <3>1, <3>3, KeyOrders
      <3> QED
        BY <3>2, <3>3
    <2>13. Range(one) = Range(new) \cup {p}
      BY <2>2, <2>7, SMT DEF Range
    <2>14. ASSUME NEW i \in 1..k, NEW q \in A, TakenBefore(m, q, one[i]) PROVE q \in Range(one)
      <3>1. CASE i # k
        BY <2>2, <2>7, <2>13, <2>14, <3>1
      <3>2. CASE i = k
        <4>1. Key(m, q) < Key(m, p)
          BY <2>7, <2>8, <2>14, <3>2, KeyOrders
        <4>2. Key(m, q) \in Nat /\ Key(m, p) \in Nat
          BY <2>8, KeyOrders
        <4>3. q \notin rest
          BY <4>1, <4>2, <2>6, SMT
        <4> QED
          BY <4>3, <2>13 DEF rest
      <3> QED
        BY <3>1, <3>2
    <2>15. one \in Allocations(m, k)
      BY <2>9, <2>11, <2>12, <2>14 DEF Allocations
    <2>16. k \in 0..n
      BY SMT
    <2> QED
      BY <2>15, <2>16
  <1>4. n \in G
    BY <1>2, <1>3, UpTo
  <1> QED
    BY <1>4

\* The loop of create_sequence_with_prefix stops at the first block that is
\* not cached, or at the last it may map.
LEMMA MatchesExist ==
    ASSUME NEW m, NEW tokens \in Seq(Token)
    PROVE  Matches(m, tokens) # {}
  <1>1. CASE ~m.caching \/ Len(tokens) <= 1
    BY <1>1 DEF Matches
  <1>2. CASE ~(~m.caching \/ Len(tokens) <= 1)
    <2> DEFINE U == UsableBlocks(tokens)
               hit(b) == BlockKey(tokens, b) \in DOMAIN m.index
               T == {x \in 0..U : x < U => ~hit(x + 1)}
    <2>1. U \in Nat
      <3>1. Len(tokens) - 1 \in Nat
        BY <1>2, LenProperties, SMT
      <3> QED
        BY <3>1, ConfigAssumption, SMT DEF UsableBlocks
    <2> HIDE DEF U, hit
    <2>2. U \in T
      BY <2>1, SMT
    <2>3. T \in SUBSET Nat
      BY <2>1, SMT
    <2>4. PICK x \in T : \A y \in T : x <= y
      BY <2>2, <2>3, LeastOf
    <2>5. ASSUME NEW b \in 1..x PROVE hit(b)
      <3>1. b - 1 \in 0..U /\ b - 1 < U /\ ~(x <= b - 1) /\ (b - 1) + 1 = b
        BY <2>1, <2>3, <2>4, SMT
      <3>2. b - 1 \notin T
        BY <2>4, <3>1
      <3> QED
        BY <3>1, <3>2
    <2>6. x \in 0..U /\ (x < U => ~hit(x + 1))
      BY <2>4
    <2>7. x \in Matches(m, tokens)
      BY <1>2, <2>5, <2>6 DEF Matches, U, hit
    <2> QED
      BY <2>7
  <1> QED
    BY <1>1, <1>2

-----------------------------------------------------------------------------
(* The inductive invariant                                                 *)

SchedulerField == {"kv", "pending", "active", "order", "finished", "inFlight",
                   "preferPrefill", "speculativeTurn", "batchTokens", "nextRequest"}

\* Texts the device holds.
Text == BoundedSeq(Token, MaxSequenceLength)

\* The jobs that submit queues.
QueuedJob ==
    {job \in Job : /\ job.prompt # <<>> /\ job.maxNew > 0
                   /\ Len(job.prompt) + job.maxNew <= MaxSequenceLength}
Queued == [request : Request, job : QueuedJob]

ActiveState ==
    [job : QueuedJob, history : Seq(Token),
     phase : {"NeedsPrefill", "AwaitingDecode", "InFlight"},
     token : Token \cup {NoToken}, draws : Nat]

RowState ==
    [request : Request, tokens : Seq(Token), start : Nat, context : Nat,
     table : Seq(Page), reservation : Nat]

BatchState == [kind : {"Prefill", "Decode", "Verify"}, rows : Seq(RowState)]

\* An active request has a token to generate, has drawn at most once for each
\* token it generated, and awaits its decode with a token of the vocabulary.
Growing(a) ==
    /\ Len(a.job.prompt) + a.draws <= Len(a.history)
    /\ Len(a.history) < Len(a.job.prompt) + a.job.maxNew
    /\ a.phase = "AwaitingDecode" => a.token \in Token

\* The manager is sound, and its sequences, the active requests and the order
\* of admission are the same requests, at most max_active_sequences.
Admitted(s) ==
    /\ DOMAIN s = SchedulerField
    /\ KvInv(s.kv) /\ Ordered(s.kv)
    /\ s.active \in [Live(s.kv) -> ActiveState]
    /\ s.order \in Seq(Live(s.kv)) /\ IsInjective(s.order) /\ Live(s.kv) \subseteq Range(s.order)
    /\ \A r \in Live(s.kv) : Growing(s.active[r]) /\ r < s.nextRequest
    /\ Cardinality(Live(s.kv)) <= MaxActive
    /\ s.batchTokens \in Nat \ {0} /\ s.nextRequest \in Nat

\* Pending requests are distinct, not active, and older than the next id.
Waiting(s) ==
    /\ s.pending \in Seq(Queued)
    /\ \A i \in DOMAIN s.pending :
          s.pending[i].request \notin Live(s.kv) /\ s.pending[i].request < s.nextRequest
    /\ \A i, j \in DOMAIN s.pending : s.pending[i].request = s.pending[j].request => i = j

\* Requests in flight are those of the set R.
PhasesIn(s, R) == \A r \in Live(s.kv) : s.active[r].phase = "InFlight" <=> r \in R

\* No batch is in flight: nothing is reserved.
Idle(s) ==
    /\ s.inFlight = NoBatch
    /\ DOMAIN s.kv.resv = {} /\ s.kv.nextResv = 1
    /\ PhasesIn(s, {})

\* Row i of a batch is what reservation i of the manager kv reserves, for at
\* least as many tokens as the row feeds.
RowHolds(kv, row, i) ==
    /\ row \in RowState /\ row.reservation = i /\ i \in DOMAIN kv.resv
    /\ kv.resv[i].request = row.request /\ kv.resv[i].start = row.start
    /\ 1 <= Len(row.tokens) /\ Len(row.tokens) <= kv.resv[i].count
    /\ row.context = row.start + Len(row.tokens) /\ row.context <= MaxSequenceLength
    /\ Len(row.table) = PagesFor(row.context)

\* A batch is in flight: its rows are the reservations, in order, and the
\* requests in phase InFlight.
Flying(s) ==
    LET rows == s.inFlight.rows
    IN  /\ s.inFlight \in BatchState /\ rows # <<>>
        /\ DOMAIN s.kv.resv = DOMAIN rows /\ s.kv.nextResv = Len(rows) + 1
        /\ \A i \in DOMAIN rows : RowHolds(s.kv, rows[i], i)
        /\ PhasesIn(s, RequestsOf(rows))

SchedInv(s) == Admitted(s) /\ Waiting(s) /\ (Idle(s) \/ Flying(s))

\* Before reserve_lookahead a row reserves exactly the tokens it feeds.
Exact(s) ==
    \A i \in DOMAIN s.inFlight.rows :
        s.kv.resv[i].count = Len(s.inFlight.rows[i].tokens)

\* The device memory holds texts.
MemInv == mem \in [Page -> [Slot -> Text]]

IInv == SchedInv(sched) /\ MemInv

-----------------------------------------------------------------------------
(* Consequences of the invariant                                           *)

\* What submit has checked of a job that is queued or active.
LEMMA JobParts ==
    ASSUME NEW job \in QueuedJob
    PROVE  /\ job \in Job /\ job.prompt \in Seq(Token) /\ job.maxNew \in Nat \ {0}
           /\ job.sampled \in BOOLEAN /\ Len(job.prompt) \in Nat \ {0}
           /\ Len(job.prompt) + job.maxNew <= MaxSequenceLength
  <1>1. job \in Job /\ job.prompt \in Seq(Token) /\ job.maxNew \in Nat
        /\ job.sampled \in BOOLEAN
    BY JobAssumption DEF QueuedJob
  <1>2. job.prompt # <<>> /\ job.maxNew > 0
        /\ Len(job.prompt) + job.maxNew <= MaxSequenceLength
    BY DEF QueuedJob
  <1>3. Len(job.prompt) \in Nat \ {0}
    BY <1>1, <1>2, EmptySeq
  <1> QED
    BY <1>1, <1>2, <1>3, SMT

\* What the invariant says of one active request.
LEMMA ActiveParts ==
    ASSUME NEW s, Admitted(s), NEW r \in Live(s.kv)
    PROVE  LET a == s.active[r]
           IN  /\ a \in ActiveState /\ a.job \in QueuedJob /\ a.history \in Seq(Token)
               /\ a.phase \in {"NeedsPrefill", "AwaitingDecode", "InFlight"}
               /\ a.token \in Token \cup {NoToken} /\ a.draws \in Nat
               /\ Growing(a) /\ r \in Request /\ r \in Nat
               /\ Len(a.history) \in Nat /\ a.draws <= MaxSequenceLength
               /\ Len(a.history) <= MaxSequenceLength
  <1> DEFINE a == s.active[r]
  <1>1. a \in ActiveState /\ Growing(a)
    BY DEF Admitted
  <1>2. /\ a.job \in QueuedJob /\ a.history \in Seq(Token)
        /\ a.phase \in {"NeedsPrefill", "AwaitingDecode", "InFlight"}
        /\ a.token \in Token \cup {NoToken} /\ a.draws \in Nat
    BY <1>1 DEF ActiveState
  <1>3. r \in Request /\ r \in Nat
    BY IdAssumption, LiveSequence DEF Admitted
  <1>4. /\ Len(a.job.prompt) + a.draws <= Len(a.history)
        /\ Len(a.history) < Len(a.job.prompt) + a.job.maxNew
    BY <1>1 DEF Growing
  <1>5. /\ Len(a.history) \in Nat
        /\ a.job.maxNew \in Nat \ {0} /\ Len(a.job.prompt) \in Nat \ {0}
        /\ Len(a.job.prompt) + a.job.maxNew <= MaxSequenceLength
    BY <1>2, LenProperties, JobParts
  <1>6. a.draws <= MaxSequenceLength /\ Len(a.history) <= MaxSequenceLength
    <2> DEFINE h == Len(a.history)  p == Len(a.job.prompt)  x == a.job.maxNew  d == a.draws
    <2>1. h \in Nat /\ p \in Nat /\ x \in Nat /\ d \in Nat /\ MaxSequenceLength \in Nat
      BY <1>2, <1>5, ConfigAssumption
    <2>2. p + d <= h /\ h < p + x /\ p + x <= MaxSequenceLength
      BY <1>4, <1>5
    <2> HIDE DEF h, p, x, d
    <2>3. d <= MaxSequenceLength /\ h <= MaxSequenceLength
      BY <2>1, <2>2, SMT
    <2> QED
      BY <2>3 DEF h, d
  <1> QED
    BY <1>1, <1>2, <1>3, <1>5, <1>6

\* Without reservations no sequence has an append pending.
LEMMA NothingPending ==
    ASSUME NEW m, KvInv(m), DOMAIN m.resv = {}, NEW r \in Live(m)
    PROVE  m.seqs[r].pending = NoPending
  BY LiveSequence

\* A reservation of a batch in flight, its sequence and its row.
LEMMA RowParts ==
    ASSUME NEW m, KvInv(m), NEW row, NEW i, RowHolds(m, row, i)
    PROVE  /\ row.request \in Live(m) /\ row.request \in Request
           /\ row.tokens \in Seq(Token) /\ Len(row.tokens) \in Nat \ {0}
           /\ row.start \in Nat /\ row.context \in Nat /\ row.table \in Seq(Page)
           /\ i \in DOMAIN m.resv /\ i \in Nat \ {0} /\ row.reservation = i
           /\ m.resv[i].request = row.request /\ m.resv[i].start = row.start
           /\ m.resv[i].count \in Nat \ {0} /\ Len(row.tokens) <= m.resv[i].count
           /\ m.seqs[row.request].pending = i
           /\ m.seqs[row.request].committed = row.start
           /\ Len(m.seqs[row.request].pages) = PagesFor(row.start + m.resv[i].count)
  <1>1. /\ row.request \in Request /\ row.tokens \in Seq(Token) /\ row.start \in Nat
        /\ row.context \in Nat /\ row.table \in Seq(Page)
    BY DEF RowHolds, RowState
  <1>2. /\ i \in DOMAIN m.resv /\ m.resv[i].request = row.request
        /\ m.resv[i].start = row.start /\ row.reservation = i
        /\ 1 <= Len(row.tokens) /\ Len(row.tokens) <= m.resv[i].count
    BY DEF RowHolds
  <1>3. Len(row.tokens) \in Nat
    BY <1>1, LenProperties
  <1>4. /\ i \in Nat \ {0} /\ m.resv[i].count \in Nat \ {0}
        /\ m.resv[i].request \in Live(m)
        /\ m.seqs[m.resv[i].request].pending = i
        /\ m.seqs[m.resv[i].request].committed = m.resv[i].start
        /\ Len(m.seqs[m.resv[i].request].pages)
             = PagesFor(m.resv[i].start + m.resv[i].count)
    BY <1>2, LiveReservation
  <1>5. Len(row.tokens) \in Nat \ {0}
    BY <1>2, <1>3, SMT
  <1> QED
    BY <1>1, <1>2, <1>4, <1>5

\* The rows of a batch in flight form a nonempty sequence.
LEMMA FlyingRows ==
    ASSUME NEW s, Flying(s)
    PROVE  /\ s.inFlight.rows \in Seq(RowState)
           /\ Len(s.inFlight.rows) \in Nat \ {0}
           /\ DOMAIN s.inFlight.rows = 1..Len(s.inFlight.rows)
           /\ s.inFlight.kind \in {"Prefill", "Decode", "Verify"}
           /\ InFlight(s)
  <1>1. s.inFlight.rows \in Seq(RowState) /\ s.inFlight.kind \in {"Prefill", "Decode", "Verify"}
    BY DEF Flying, BatchState
  <1>2. s.inFlight.rows # <<>>
    BY DEF Flying
  <1>3. InFlight(s)
    BY <1>1 DEF InFlight, NoBatch
  <1> QED
    BY <1>1, <1>2, <1>3, EmptySeq, LenProperties

\* A scheduler is idle exactly when it has no batch in flight.
LEMMA IdleNotFlying ==
    ASSUME NEW s, SchedInv(s)
    PROVE  Idle(s) <=> ~InFlight(s)
  BY FlyingRows DEF SchedInv, Idle, InFlight

\* NothingLeaks is a consequence.
LEMMA NoLeak ==
    ASSUME SchedInv(sched)
    PROVE  NothingLeaks
  <1> DEFINE s == sched
  <1>1. /\ KvInv(s.kv) /\ DOMAIN s.active = Live(s.kv)
        /\ s.order \in Seq(Live(s.kv)) /\ Live(s.kv) \subseteq Range(s.order)
    BY DEF SchedInv, Admitted
  <1>2. ToSet(s.order) = Live(s.kv)
    <2>1. \A i \in DOMAIN s.order : s.order[i] \in Live(s.kv)
      BY <1>1, LenProperties, ElementOfSeq
    <2> QED
      BY <1>1, <2>1 DEF ToSet, Range
  <1>3. DOMAIN s.kv.resv = Reservations(s) /\ InPhase(s, "InFlight") = RequestsOf(s.inFlight.rows)
    <2>1. CASE Idle(s)
      <3>1. DOMAIN s.inFlight.rows = {} /\ DOMAIN s.kv.resv = {} /\ PhasesIn(s, {})
        BY <2>1 DEF Idle, NoBatch
      <3> QED
        BY <1>1, <3>1 DEF Reservations, InPhase, RequestsOf, PhasesIn
    <2>2. CASE Flying(s)
      <3>1. /\ DOMAIN s.kv.resv = DOMAIN s.inFlight.rows
            /\ \A i \in DOMAIN s.inFlight.rows : s.inFlight.rows[i].reservation = i
            /\ \A i \in DOMAIN s.inFlight.rows : RowHolds(s.kv, s.inFlight.rows[i], i)
            /\ PhasesIn(s, RequestsOf(s.inFlight.rows))
        BY <2>2 DEF Flying, RowHolds
      <3>2. RequestsOf(s.inFlight.rows) \subseteq Live(s.kv)
        BY <1>1, <3>1, RowParts DEF RequestsOf
      <3>3. DOMAIN s.kv.resv = Reservations(s)
        BY <3>1 DEF Reservations
      <3> QED
        BY <1>1, <3>1, <3>2, <3>3 DEF InPhase, PhasesIn
    <2> QED
      BY <2>1, <2>2 DEF SchedInv
  <1>4. Accounted(s.kv) /\ Indexed(s.kv) /\ Reserved(s.kv) /\ ExclusiveTails(s.kv)
    BY <1>1 DEF KvInv
  <1> QED
    BY <1>1, <1>2, <1>3, <1>4 DEF NothingLeaks

-----------------------------------------------------------------------------
(* Fields of an updated scheduler                                          *)

\* Everything but the manager, the active requests, their order and the
\* results is kept.
SameQueue(s, n) ==
    /\ DOMAIN n = SchedulerField
    /\ n.pending = s.pending /\ n.inFlight = s.inFlight
    /\ n.batchTokens = s.batchTokens /\ n.nextRequest = s.nextRequest

\* Operations that leave the manager and the active requests alone.
LEMMA ManagerKept ==
    ASSUME NEW s, Admitted(s), NEW n, DOMAIN n = SchedulerField,
           n.kv = s.kv, n.active = s.active, n.order = s.order, n.inFlight = s.inFlight,
           n.batchTokens \in Nat \ {0}, n.nextRequest \in Nat, s.nextRequest <= n.nextRequest
    PROVE  /\ Admitted(n)
           /\ Idle(s) => Idle(n)
           /\ Flying(s) => Flying(n)
           /\ Exact(s) => Exact(n)
  <1>1. \A r \in Live(s.kv) : Growing(s.active[r]) /\ r < s.nextRequest /\ r \in Nat
    BY ActiveParts DEF Admitted
  <1>2. s.nextRequest \in Nat
    BY DEF Admitted
  <1>3. \A r \in Live(s.kv) : r < n.nextRequest
    BY <1>1, <1>2, SMT
  <1>4. Admitted(n)
    BY <1>1, <1>3 DEF Admitted
  <1>5. Idle(s) => Idle(n)
    BY DEF Idle, PhasesIn
  <1>6. Flying(s) => Flying(n)
    BY DEF Flying, PhasesIn
  <1>7. Exact(s) => Exact(n)
    BY DEF Exact
  <1> QED
    BY <1>4, <1>5, <1>6, <1>7

\* Whose turn is next does not matter to the invariant.
LEMMA TurnKept ==
    ASSUME NEW s, SchedInv(s), NEW x, NEW n,
           \/ n = [s EXCEPT !.preferPrefill = x]
           \/ n = [s EXCEPT !.speculativeTurn = x]
           \/ n = [s EXCEPT !.finished = x]
    PROVE  SchedInv(n) /\ (Exact(s) => Exact(n)) /\ (Idle(s) => Idle(n))
  <1>1. DOMAIN s = SchedulerField
    BY DEF SchedInv, Admitted
  <1>2. /\ DOMAIN n = SchedulerField
        /\ n.kv = s.kv /\ n.active = s.active /\ n.order = s.order
        /\ n.inFlight = s.inFlight /\ n.pending = s.pending
        /\ n.batchTokens = s.batchTokens /\ n.nextRequest = s.nextRequest
    BY <1>1 DEF SchedulerField
  <1>3. Admitted(s) /\ s.batchTokens \in Nat \ {0} /\ s.nextRequest \in Nat
    BY DEF SchedInv, Admitted
  <1>4. s.nextRequest <= n.nextRequest
    BY <1>2, <1>3
  <1>5. /\ Admitted(n)
        /\ Idle(s) => Idle(n)
        /\ Flying(s) => Flying(n)
        /\ Exact(s) => Exact(n)
    BY <1>2, <1>3, <1>4, ManagerKept
  <1>6. Waiting(n)
    BY <1>2 DEF SchedInv, Waiting
  <1> QED
    BY <1>5, <1>6 DEF SchedInv

-----------------------------------------------------------------------------
(* Submitting, and cancelling a queued request                             *)

\* RemoveAt drops one entry and keeps the order of the others.
LEMMA RemoveAtList ==
    ASSUME NEW S, NEW q \in Seq(S), NEW i \in DOMAIN q
    PROVE  /\ RemoveAt(q, i) \in Seq(S)
           /\ Len(RemoveAt(q, i)) = Len(q) - 1
           /\ \A j \in 1 .. Len(q) - 1 :
                 RemoveAt(q, i)[j] = IF j < i THEN q[j] ELSE q[j + 1]
  <1>1. i \in 1..Len(q) /\ Len(q) \in Nat
    BY LenProperties
  <1> DEFINE a == SubSeq(q, 1, i - 1)  b == SubSeq(q, i + 1, Len(q))
  <1>2. a \in Seq(S) /\ Len(a) = i - 1 /\ \A j \in 1 .. i - 1 : a[j] = q[j]
    BY <1>1, SubSeqProperties, SMT
  <1>3. b \in Seq(S) /\ Len(b) = Len(q) - i
        /\ \A j \in 1 .. Len(q) - i : b[j] = q[j + i]
    BY <1>1, SMT
  <1>4. RemoveAt(q, i) = a \o b
    BY DEF RemoveAt
  <1> HIDE DEF a, b
  <1>5. a \o b \in Seq(S) /\ Len(a \o b) = Len(q) - 1
        /\ \A j \in 1 .. Len(q) - 1 : (a \o b)[j] = IF j <= i - 1 THEN a[j] ELSE b[j - (i - 1)]
    BY <1>1, <1>2, <1>3, SMT
  <1>6. ASSUME NEW j \in 1 .. Len(q) - 1
        PROVE  (a \o b)[j] = IF j < i THEN q[j] ELSE q[j + 1]
    <2>1. CASE j < i
      <3>1. j <= i - 1 /\ j \in 1 .. i - 1
        BY <1>1, <2>1, SMT
      <3> QED
        BY <1>2, <1>5, <2>1, <3>1
    <2>2. CASE ~(j < i)
      <3>1. ~(j <= i - 1) /\ j - (i - 1) \in 1 .. Len(q) - i /\ (j - (i - 1)) + i = j + 1
        BY <1>1, <2>2, SMT
      <3> QED
        BY <1>3, <1>5, <2>2, <3>1
    <2> QED
      BY <2>1, <2>2
  <1> QED
    BY <1>4, <1>5, <1>6

\* submit appends a request that no queue has seen.
LEMMA SubmitInv ==
    ASSUME NEW s, SchedInv(s), NEW job \in Job, s.nextRequest \in Request, Acceptable(s, job)
    PROVE  SchedInv(Submit(s, job))
  <1> DEFINE id == s.nextRequest
             n == Submit(s, job)
             p == [request |-> id, job |-> job]
  <1>1. DOMAIN s = SchedulerField /\ id \in Nat /\ Admitted(s)
        /\ s.batchTokens \in Nat \ {0} /\ s.pending \in Seq(Queued)
    BY DEF SchedInv, Admitted, Waiting
  <1>2. /\ DOMAIN n = SchedulerField
        /\ n.kv = s.kv /\ n.active = s.active /\ n.order = s.order
        /\ n.inFlight = s.inFlight /\ n.batchTokens = s.batchTokens
        /\ n.nextRequest = id + 1
        /\ n.pending = IF job.maxNew = 0 THEN s.pending ELSE Append(s.pending, p)
    <2>1. CASE job.maxNew = 0
      BY <1>1, <2>1 DEF Submit, SchedulerField
    <2>2. CASE job.maxNew # 0
      BY <1>1, <2>2 DEF Submit, SchedulerField
    <2> QED
      BY <2>1, <2>2
  <1> HIDE DEF n
  <1>3. id <= n.nextRequest /\ n.nextRequest \in Nat
    BY <1>1, <1>2, SMT
  <1>4. Admitted(n) /\ (Idle(s) => Idle(n)) /\ (Flying(s) => Flying(n))
    BY <1>1, <1>2, <1>3, ManagerKept
  <1>5. /\ \A i \in DOMAIN s.pending :
              s.pending[i].request \notin Live(s.kv) /\ s.pending[i].request < id
        /\ \A i, j \in DOMAIN s.pending :
              s.pending[i].request = s.pending[j].request => i = j
    BY DEF SchedInv, Waiting
  <1>6. \A i \in DOMAIN s.pending : s.pending[i].request < n.nextRequest
    <2> TAKE i \in DOMAIN s.pending
    <2>1. s.pending[i] \in Queued
      BY <1>1, LenProperties, ElementOfSeq
    <2>2. s.pending[i].request \in Nat
      BY <2>1, IdAssumption DEF Queued
    <2> QED
      BY <1>1, <1>2, <1>5, <2>2, SMT
  <1>7. CASE job.maxNew = 0
    <2>1. Waiting(n)
      BY <1>1, <1>2, <1>5, <1>6, <1>7 DEF Waiting
    <2> QED
      BY <1>4, <2>1 DEF SchedInv, n
  <1>8. CASE job.maxNew # 0
    <2>1. job \in QueuedJob
      BY <1>8, JobAssumption, SMT DEF QueuedJob, Acceptable
    <2>2. p \in Queued
      BY <2>1 DEF Queued
    <2>3. /\ n.pending \in Seq(Queued) /\ Len(n.pending) = Len(s.pending) + 1
          /\ DOMAIN n.pending = 1 .. Len(s.pending) + 1
          /\ n.pending[Len(s.pending) + 1] = p
          /\ \A i \in 1..Len(s.pending) : n.pending[i] = s.pending[i]
      <3>1. n.pending = Append(s.pending, p)
        BY <1>2, <1>8
      <3> QED
        BY <1>1, <2>2, <3>1, AppendProperties, LenProperties
    <2>4. \A i \in DOMAIN n.pending :
             \/ i \in DOMAIN s.pending /\ n.pending[i] = s.pending[i]
             \/ i = Len(s.pending) + 1 /\ n.pending[i].request = id
      <3>1. Len(s.pending) \in Nat /\ DOMAIN s.pending = 1..Len(s.pending)
        BY <1>1, LenProperties
      <3> QED
        BY <2>3, <3>1, SMT
    <2>5. id \notin Live(s.kv) /\ id < n.nextRequest
      <3>1. \A r \in Live(s.kv) : r < id
        BY <1>1 DEF Admitted
      <3> QED
        BY <1>1, <1>2, <3>1, SMT
    <2>6. \A i \in DOMAIN s.pending : s.pending[i].request # id
      BY <1>1, <1>5, SMT
    <2>7. Waiting(n)
      <3>1. \A i \in DOMAIN n.pending :
               n.pending[i].request \notin Live(n.kv) /\ n.pending[i].request < n.nextRequest
        BY <1>2, <1>5, <1>6, <2>4, <2>5
      <3>2. ASSUME NEW i \in DOMAIN n.pending, NEW j \in DOMAIN n.pending,
                   n.pending[i].request = n.pending[j].request
            PROVE  i = j
        BY <1>5, <2>4, <2>6, <3>2
      <3> QED
        BY <2>3, <3>1, <3>2 DEF Waiting
    <2> QED
      BY <1>4, <2>7 DEF SchedInv, n
  <1> QED
    BY <1>7, <1>8

\* cancel of a queued request takes it out of the queue.
LEMMA CancelPendingInv ==
    ASSUME NEW s, SchedInv(s), NEW i \in DOMAIN s.pending
    PROVE  SchedInv([s EXCEPT !.pending = RemoveAt(@, i)])
  <1> DEFINE n == [s EXCEPT !.pending = RemoveAt(@, i)]
  <1>1. DOMAIN s = SchedulerField /\ s.nextRequest \in Nat /\ Admitted(s)
        /\ s.batchTokens \in Nat \ {0} /\ s.pending \in Seq(Queued)
    BY DEF SchedInv, Admitted, Waiting
  <1>2. /\ DOMAIN n = SchedulerField
        /\ n.kv = s.kv /\ n.active = s.active /\ n.order = s.order
        /\ n.inFlight = s.inFlight /\ n.batchTokens = s.batchTokens
        /\ n.nextRequest = s.nextRequest /\ n.pending = RemoveAt(s.pending, i)
    BY <1>1 DEF SchedulerField
  <1> HIDE DEF n
  <1>3. s.nextRequest <= n.nextRequest
    BY <1>1, <1>2
  <1>4. Admitted(n) /\ (Idle(s) => Idle(n)) /\ (Flying(s) => Flying(n))
    BY <1>1, <1>2, <1>3, ManagerKept
  <1>5. /\ n.pending \in Seq(Queued) /\ Len(n.pending) = Len(s.pending) - 1
        /\ \A j \in 1 .. Len(s.pending) - 1 :
              n.pending[j] = IF j < i THEN s.pending[j] ELSE s.pending[j + 1]
    BY <1>1, <1>2, RemoveAtList
  <1>6. /\ DOMAIN s.pending = 1..Len(s.pending) /\ Len(s.pending) \in Nat
        /\ DOMAIN n.pending = 1 .. Len(s.pending) - 1 /\ i \in 1..Len(s.pending)
    BY <1>1, <1>5, LenProperties
  <1> DEFINE from(j) == IF j < i THEN j ELSE j + 1
  <1>7. \A j \in DOMAIN n.pending :
           from(j) \in DOMAIN s.pending /\ n.pending[j] = s.pending[from(j)]
    BY <1>5, <1>6, SMT
  <1>8. \A j, k \in DOMAIN n.pending : from(j) = from(k) => j = k
    BY <1>6, SMT
  <1> HIDE DEF from
  <1>9. Waiting(n)
    BY <1>2, <1>5, <1>7, <1>8 DEF SchedInv, Waiting
  <1> QED
    BY <1>4, <1>9 DEF SchedInv, n

\* set_max_batch_tokens changes nothing a running batch depends on.
LEMMA LimitInv ==
    ASSUME NEW s, SchedInv(s), NEW limit \in TokenLimits
    PROVE  SchedInv([s EXCEPT !.batchTokens = limit])
  <1> DEFINE n == [s EXCEPT !.batchTokens = limit]
  <1>1. DOMAIN s = SchedulerField /\ s.nextRequest \in Nat /\ Admitted(s)
    BY DEF SchedInv, Admitted
  <1>2. /\ DOMAIN n = SchedulerField
        /\ n.kv = s.kv /\ n.active = s.active /\ n.order = s.order
        /\ n.inFlight = s.inFlight /\ n.batchTokens = limit
        /\ n.nextRequest = s.nextRequest /\ n.pending = s.pending
    BY <1>1 DEF SchedulerField
  <1> HIDE DEF n
  <1>3. s.nextRequest <= n.nextRequest /\ n.batchTokens \in Nat \ {0}
    BY <1>1, <1>2, SchedulerAssumption
  <1>4. Admitted(n) /\ (Idle(s) => Idle(n)) /\ (Flying(s) => Flying(n))
    BY <1>1, <1>2, <1>3, ManagerKept
  <1>5. Waiting(n)
    BY <1>2 DEF SchedInv, Waiting
  <1> QED
    BY <1>4, <1>5 DEF SchedInv, n

-----------------------------------------------------------------------------
(* The reservation counter of the manager                                  *)

\* remove_sequence hands out no reservation.
LEMMA RemoveCounter ==
    ASSUME NEW m, KvInv(m), NEW r \in Live(m)
    PROVE  RemoveSequence(m, r).nextResv = m.nextResv
  <1> DEFINE R == Range(m.seqs[r].pages)
             order == [p \in R |->
                         Len(m.seqs[r].pages)
                           - CHOOSE i \in DOMAIN m.seqs[r].pages : m.seqs[r].pages[i] = p]
             d == ReleasePages(m, R, order)
             S == Restrict(m.seqs, Live(m) \ {r})
  <1>1. m.seqs[r].pages \in Seq(Page) /\ ManagerType(m)
    BY LiveSequence DEF KvInv
  <1>2. R \in SUBSET Page
    BY <1>1, LenProperties, ElementOfSeq DEF Range
  <1> HIDE DEF order, R
  <1>3. SameTables(m, d)
    BY <1>1, <1>2, ReleaseFields
  <1>4. DOMAIN d = Field /\ d.nextResv = m.nextResv
    BY <1>3 DEF SameTables
  <1>5. RemoveSequence(m, r) = [d EXCEPT !.seqs = S]
    BY DEF RemoveSequence, order, R
  <1> HIDE DEF d, S
  <1> QED
    BY <1>4, <1>5, SeqsFields

\* create_sequence hands out no reservation.
LEMMA CreateCounter ==
    ASSUME NEW m, KvInv(m), NEW r
    PROVE  CreateSequence(m, r).nextResv = m.nextResv
  <1> DEFINE S == [q \in Live(m) \cup {r} |-> IF q = r THEN NewSequence ELSE m.seqs[q]]
  <1>1. DOMAIN m = Field
    BY DEF KvInv, ManagerType
  <1>2. CreateSequence(m, r) = [m EXCEPT !.seqs = S]
    BY DEF CreateSequence
  <1> HIDE DEF S
  <1> QED
    BY <1>1, <1>2, SeqsFields

\* create_sequence_with_prefix hands out no reservation.
LEMMA CreateWithPrefixCounter ==
    ASSUME NEW m, KvInv(m), NEW r, NEW tokens, NEW x
    PROVE  CreateSequenceWithPrefix(m, r, tokens, x).nextResv = m.nextResv
  <1> DEFINE pages == [b \in 1..x |-> m.index[BlockKey(tokens, b)]]
             new == [NewSequence EXCEPT !.committed = x * BlockSize, !.pages = pages,
                                        !.registered = x, !.chain = BlockKey(tokens, x)]
             d == AcquireCached(m, Range(pages))
             S == [q \in Live(m) \cup {r} |-> IF q = r THEN new ELSE m.seqs[q]]
  <1>1. ManagerType(m)
    BY DEF KvInv
  <1>2. SameTables(m, d)
    BY <1>1, AcquireFields
  <1>3. DOMAIN d = Field /\ d.nextResv = m.nextResv
    BY <1>2 DEF SameTables
  <1>4. CreateSequenceWithPrefix(m, r, tokens, x) = [d EXCEPT !.seqs = S]
    BY DEF CreateSequenceWithPrefix
  <1> HIDE DEF d, S, new
  <1> QED
    BY <1>3, <1>4, SeqsFields

\* register_prefix hands out no reservation and settles none.
LEMMA RegisterCounter ==
    ASSUME NEW m, KvInv(m), NEW r \in Live(m), NEW tokens
    PROVE  LET n == RegisterPrefix(m, r, tokens)
           IN  /\ n.nextResv = m.nextResv
               /\ \A q \in Live(m) : n.seqs[q].pending = m.seqs[q].pending
  <1> DEFINE n == RegisterPrefix(m, r, tokens)
             s == m.seqs[r]
             done == CompleteBlocks(s, tokens)
             S == [m.seqs EXCEPT ![r] =
                     [s EXCEPT !.registered = done, !.chain = NextKey(s, tokens, done)]]
  <1>1. CASE n = m
    BY <1>1
  <1>2. CASE n # m
    <2>1. ManagerType(m) /\ DOMAIN m = Field
      BY DEF KvInv, ManagerType
    <2>2. Registered(m, r, tokens, n)
      BY <2>1, RegisterTables
    <2>3. n.seqs = S
      BY <1>2, <2>2 DEF Registered
    <2>4. m.seqs[r] \in SequenceState /\ m.seqs \in [Live(m) -> SequenceState]
      BY <2>1 DEF ManagerType
    <2>5. \A q \in Live(m) : S[q].pending = m.seqs[q].pending
      BY <2>4 DEF SequenceState
    <2>6. n.nextResv = m.nextResv
      BY <2>1 DEF RegisterPrefix, Field
    <2> QED
      BY <2>3, <2>5, <2>6
  <1> QED
    BY <1>1, <1>2

-----------------------------------------------------------------------------
(* A request leaves                                                        *)

\* A request that leaves the order of admission leaves the others in it.
LEMMA RemoveFirstList ==
    ASSUME NEW S, NEW q \in Seq(S), IsInjective(q), S \subseteq Range(q), NEW e \in S
    PROVE  /\ RemoveFirst(q, e) \in Seq(S \ {e})
           /\ IsInjective(RemoveFirst(q, e))
           /\ S \ {e} \subseteq Range(RemoveFirst(q, e))
  <1>1. /\ DOMAIN q = 1..Len(q) /\ Len(q) \in Nat
        /\ \A i \in 1..Len(q) : q[i] \in S
        /\ \A i, j \in 1..Len(q) : q[i] = q[j] => i = j
    BY LenProperties, ElementOfSeq DEF IsInjective
  <1>2. PICK i \in 1..Len(q) : q[i] = e
    BY <1>1 DEF Range
  <1> DEFINE I == {k \in 1..Len(q) : q[k] = e}
  <1>3. I = {i}
    BY <1>1, <1>2
  <1>4. Min(I) = i
    BY <1>3 DEF Min
  <1>5. SelectInSeq(q, LAMBDA v : v = e) = i
    BY <1>3, <1>4 DEF SelectInSeq
  <1> DEFINE t == RemoveAt(q, i)
  <1>6. RemoveFirst(q, e) = t
    BY <1>2, <1>5 DEF RemoveFirst
  <1>7. /\ t \in Seq(S) /\ Len(t) = Len(q) - 1
        /\ \A j \in 1 .. Len(q) - 1 : t[j] = IF j < i THEN q[j] ELSE q[j + 1]
    <2>1. i \in DOMAIN q
      BY <1>1, <1>2
    <2> QED
      BY <2>1, RemoveAtList
  <1>8. DOMAIN t = 1 .. Len(q) - 1
    BY <1>7, LenProperties
  <1> HIDE DEF t
  <1> DEFINE from(j) == IF j < i THEN j ELSE j + 1
  <1>9. \A j \in DOMAIN t : from(j) \in 1..Len(q) /\ from(j) # i /\ t[j] = q[from(j)]
    BY <1>1, <1>2, <1>7, <1>8, SMT
  <1>10. \A j, k \in DOMAIN t : from(j) = from(k) => j = k
    BY <1>8, SMT
  <1>11. \A k \in 1..Len(q) : k # i => \E j \in DOMAIN t : from(j) = k
    <2> TAKE k \in 1..Len(q)
    <2> HAVE k # i
    <2> DEFINE j == IF k < i THEN k ELSE k - 1
    <2>1. j \in DOMAIN t /\ from(j) = k
      BY <1>1, <1>2, <1>8, SMT
    <2> QED
      BY <2>1
  <1> HIDE DEF from
  <1>12. \A j \in DOMAIN t : t[j] \in S \ {e}
    BY <1>1, <1>2, <1>9
  <1>13. t \in Seq(S \ {e})
    <2>1. \A j \in 1..Len(t) : t[j] \in S \ {e}
      BY <1>7, <1>8, <1>12, Zenon
    <2>2. Len(t) \in Nat /\ t = [j \in 1..Len(t) |-> t[j]]
      BY <1>7, LenProperties
    <2> QED
      BY <2>1, <2>2, SeqDef
  <1>14. IsInjective(t)
    BY <1>1, <1>9, <1>10 DEF IsInjective
  <1>15. ASSUME NEW x \in S \ {e} PROVE x \in Range(t)
    <2>1. PICK k \in 1..Len(q) : q[k] = x
      BY <1>1 DEF Range
    <2>2. k # i
      BY <1>2, <2>1
    <2>3. PICK j \in DOMAIN t : from(j) = k
      BY <1>11, <2>2
    <2> QED
      BY <1>9, <2>1, <2>3 DEF Range
  <1> QED
    BY <1>6, <1>13, <1>14, <1>15

\* A step of s that changes or drops only request r, which is not in flight
\* afterwards.
Touches(s, n, r) ==
    /\ SameQueue(s, n)
    /\ n.kv.resv = s.kv.resv /\ n.kv.nextResv = s.kv.nextResv
    /\ Live(n.kv) \subseteq Live(s.kv) /\ Live(s.kv) \ {r} \subseteq Live(n.kv)
    /\ \A q \in Live(s.kv) \ {r} :
          n.active[q] = s.active[q] /\ n.kv.seqs[q] = s.kv.seqs[q]
    /\ r \in Live(n.kv) => n.active[r].phase # "InFlight"

\* The sequences of the manager are finitely many requests.
LEMMA LiveFinite ==
    ASSUME NEW s, Admitted(s)
    PROVE  /\ Live(s.kv) \subseteq Request /\ IsFiniteSet(Live(s.kv))
           /\ Cardinality(Live(s.kv)) \in Nat
  <1>1. Live(s.kv) \subseteq Request
    BY DEF Admitted, KvInv, ManagerType
  <1> QED
    BY <1>1, RequestAssumption, FS_Subset, FS_CardinalityType

\* What drops a request: cancel and finish.
LEMMA DropInv ==
    ASSUME NEW s, Admitted(s), NEW r \in Live(s.kv), s.kv.seqs[r].pending = NoPending
    PROVE  LET n == Drop(s, r)
           IN  Admitted(n) /\ Touches(s, n, r) /\ Live(n.kv) = Live(s.kv) \ {r}
  <1> DEFINE n == Drop(s, r)
             K == RemoveSequence(s.kv, r)
             A == Restrict(s.active, DOMAIN s.active \ {r})
             O == RemoveFirst(s.order, r)
             L == Live(s.kv) \ {r}
  <1>1. /\ DOMAIN s = SchedulerField /\ KvInv(s.kv) /\ Ordered(s.kv)
        /\ s.active \in [Live(s.kv) -> ActiveState]
        /\ s.order \in Seq(Live(s.kv)) /\ IsInjective(s.order)
        /\ Live(s.kv) \subseteq Range(s.order)
        /\ \A q \in Live(s.kv) : Growing(s.active[q]) /\ q < s.nextRequest
        /\ Cardinality(Live(s.kv)) <= MaxActive
        /\ s.batchTokens \in Nat \ {0} /\ s.nextRequest \in Nat
    BY DEF Admitted
  <1>2. KvInv(K)
    BY <1>1, RemovePreserves DEF CanRemove
  <1>3. Ordered(K) /\ K.nextResv = s.kv.nextResv
    BY <1>1, RemoveLru, RemoveCounter
  <1>4. /\ Live(K) = L /\ K.resv = s.kv.resv
        /\ \A q \in L : K.seqs[q] = s.kv.seqs[q]
    BY <1>1, RemoveTables
  <1>5. A \in [L -> ActiveState] /\ \A q \in L : A[q] = s.active[q]
    BY <1>1 DEF Restrict
  <1>6. O \in Seq(L) /\ IsInjective(O) /\ L \subseteq Range(O)
    BY <1>1, RemoveFirstList
  <1>7. n = [s EXCEPT !.kv = K, !.active = A, !.order = O]
    BY DEF Drop
  <1> HIDE DEF n, K, A, O
  <1>8. SameQueue(s, n) /\ n.kv = K /\ n.active = A /\ n.order = O
    <2>1. DOMAIN s = SchedulerField
      BY <1>1
    <2> QED
      BY <2>1, <1>7 DEF SameQueue, SchedulerField
  <1>9. Cardinality(L) <= MaxActive
    <2>1. IsFiniteSet(Live(s.kv)) /\ Cardinality(Live(s.kv)) \in Nat
      BY LiveFinite
    <2>2. Cardinality(L) \in Nat /\ Cardinality(L) <= Cardinality(Live(s.kv))
      BY <2>1, FS_Subset, FS_CardinalityType
    <2> QED
      BY <1>1, <2>1, <2>2, SchedulerAssumption, SMT
  <1>10. Admitted(n)
    BY <1>1, <1>2, <1>3, <1>4, <1>5, <1>6, <1>8, <1>9 DEF Admitted, SameQueue
  <1>11. Touches(s, n, r)
    BY <1>3, <1>4, <1>5, <1>8 DEF Touches
  <1> QED
    BY <1>4, <1>8, <1>10, <1>11 DEF n

\* cancel of a request that is not in flight
LEMMA CancelActiveInv ==
    ASSUME NEW s, SchedInv(s), NEW r \in Live(s.kv), s.active[r].phase # "InFlight"
    PROVE  SchedInv(Drop(s, r))
  <1> DEFINE n == Drop(s, r)
  <1>1. Admitted(s) /\ KvInv(s.kv) /\ Waiting(s)
    BY DEF SchedInv, Admitted
  <1>2. s.kv.seqs[r].pending = NoPending
    <2>1. CASE Idle(s)
      BY <1>1, <2>1, NothingPending DEF Idle
    <2>2. CASE Flying(s)
      <3> SUFFICES ASSUME s.kv.seqs[r].pending # NoPending PROVE FALSE
        OBVIOUS
      <3> DEFINE i == s.kv.seqs[r].pending
      <3>1. i \in DOMAIN s.kv.resv /\ s.kv.resv[i].request = r
        BY <1>1, LiveSequence
      <3>2. i \in DOMAIN s.inFlight.rows /\ RowHolds(s.kv, s.inFlight.rows[i], i)
        BY <2>2, <3>1 DEF Flying
      <3>3. s.inFlight.rows[i].request = r
        BY <3>1, <3>2 DEF RowHolds
      <3>4. r \in RequestsOf(s.inFlight.rows)
        BY <3>2, <3>3 DEF RequestsOf
      <3> QED
        BY <2>2, <3>4 DEF Flying, PhasesIn
    <2> QED
      BY <2>1, <2>2 DEF SchedInv
  <1>3. Admitted(n) /\ Touches(s, n, r) /\ Live(n.kv) = Live(s.kv) \ {r}
    BY <1>1, <1>2, DropInv
  <1> HIDE DEF n
  <1>4. SameQueue(s, n) /\ n.kv.resv = s.kv.resv /\ n.kv.nextResv = s.kv.nextResv
    BY <1>3 DEF Touches
  <1>5. \A q \in Live(n.kv) : q \in Live(s.kv) /\ n.active[q] = s.active[q]
    BY <1>3 DEF Touches
  <1>6. Waiting(n)
    BY <1>1, <1>3, <1>4 DEF Waiting, SameQueue
  <1>7. Idle(s) => Idle(n)
    BY <1>4, <1>5 DEF Idle, PhasesIn, SameQueue
  <1>8. Flying(s) => Flying(n)
    <2> HAVE Flying(s)
    <2>1. n.inFlight = s.inFlight
      BY <1>4 DEF SameQueue
    <2>2. \A i \in DOMAIN s.inFlight.rows : RowHolds(n.kv, s.inFlight.rows[i], i)
      BY <1>4 DEF Flying, RowHolds
    <2>3. PhasesIn(n, RequestsOf(s.inFlight.rows))
      BY <1>5 DEF Flying, PhasesIn
    <2> QED
      BY <1>4, <2>1, <2>2, <2>3 DEF Flying
  <1> QED
    BY <1>3, <1>6, <1>7, <1>8 DEF SchedInv, n

-----------------------------------------------------------------------------
(* promote_pending                                                         *)

\* A request that is admitted joins the order of admission at its end.
LEMMA AppendList ==
    ASSUME NEW S, NEW q \in Seq(S), IsInjective(q), S \subseteq Range(q), NEW e, e \notin S
    PROVE  /\ Append(q, e) \in Seq(S \cup {e})
           /\ IsInjective(Append(q, e))
           /\ S \cup {e} \subseteq Range(Append(q, e))
  <1> DEFINE t == Append(q, e)  k == Len(q) + 1
  <1>1. /\ DOMAIN q = 1..Len(q) /\ Len(q) \in Nat
        /\ \A i \in 1..Len(q) : q[i] \in S
        /\ \A i, j \in 1..Len(q) : q[i] = q[j] => i = j
    BY LenProperties, ElementOfSeq DEF IsInjective
  <1>2. q \in Seq(S \cup {e})
    <2>1. Len(q) \in Nat /\ q = [i \in 1..Len(q) |-> q[i]]
      BY LenProperties
    <2>2. \A i \in 1..Len(q) : q[i] \in S \cup {e}
      BY <1>1
    <2> QED
      BY <2>1, <2>2, SeqDef
  <1>3. /\ t \in Seq(S \cup {e}) /\ Len(t) = k /\ DOMAIN t = 1..k
        /\ t[k] = e /\ \A i \in 1..Len(q) : t[i] = q[i]
    BY <1>2, AppendProperties, LenProperties
  <1> HIDE DEF t
  <1>4. \A i \in 1..k : i = k \/ i \in 1..Len(q)
    BY <1>1, SMT
  <1>5. IsInjective(t)
    <2>1. ASSUME NEW i \in 1..k, NEW j \in 1..k, t[i] = t[j] PROVE i = j
      <3>1. CASE i = k /\ j = k
        BY <3>1
      <3>2. CASE i = k /\ j \in 1..Len(q)
        BY <1>1, <1>3, <2>1, <3>2
      <3>3. CASE i \in 1..Len(q) /\ j = k
        BY <1>1, <1>3, <2>1, <3>3
      <3>4. CASE i \in 1..Len(q) /\ j \in 1..Len(q)
        BY <1>1, <1>3, <2>1, <3>4
      <3> QED
        BY <1>4, <3>1, <3>2, <3>3, <3>4
    <2> QED
      BY <1>3, <2>1 DEF IsInjective
  <1>6. S \cup {e} \subseteq Range(t)
    <2>1. k \in 1..k /\ \A i \in 1..Len(q) : i \in 1..k
      BY <1>1, SMT
    <2>2. e \in Range(t)
      BY <1>3, <2>1 DEF Range
    <2>3. \A x \in S : x \in Range(t)
      BY <1>1, <1>3, <2>1 DEF Range
    <2> QED
      BY <2>2, <2>3
  <1> QED
    BY <1>3, <1>5, <1>6 DEF t

\* Request r has become active, not in flight.
Joins(s, n, r) ==
    /\ SameQueue(s, n)
    /\ n.kv.resv = s.kv.resv /\ n.kv.nextResv = s.kv.nextResv
    /\ Live(n.kv) = Live(s.kv) \cup {r}
    /\ \A q \in Live(s.kv) : n.active[q] = s.active[q]
    /\ n.active[r].phase # "InFlight"

\* One turn of promote_pending: the request, its sequence and its place in the
\* order appear together.
LEMMA AdmitInv ==
    ASSUME NEW s, Admitted(s), NEW p \in Queued, p.request \notin Live(s.kv),
           p.request < s.nextRequest, Cardinality(Live(s.kv)) + 1 <= MaxActive
    PROVE  /\ Admitted(Admit(s, p)) /\ Joins(s, Admit(s, p), p.request)
           /\ Cardinality(Live(Admit(s, p).kv)) = Cardinality(Live(s.kv)) + 1
  <1> DEFINE n == Admit(s, p)
             r == p.request
             m == CHOOSE m \in Matches(s.kv, p.job.prompt) : TRUE
             K == CreateSequenceWithPrefix(s.kv, r, p.job.prompt, m)
             a == [job |-> p.job, history |-> p.job.prompt, phase |-> "NeedsPrefill",
                   token |-> NoToken, draws |-> 0]
             A == With(s.active, r, a)
             O == Append(s.order, r)
             L == Live(s.kv) \cup {r}
  <1>1. DOMAIN s = SchedulerField /\ KvInv(s.kv) /\ Ordered(s.kv) /\ ManagerType(s.kv)
    BY DEF Admitted, KvInv
  <1>2. /\ s.active \in [Live(s.kv) -> ActiveState]
        /\ s.order \in Seq(Live(s.kv)) /\ IsInjective(s.order)
        /\ Live(s.kv) \subseteq Range(s.order)
        /\ \A q \in Live(s.kv) : Growing(s.active[q]) /\ q < s.nextRequest
        /\ s.batchTokens \in Nat \ {0} /\ s.nextRequest \in Nat
    BY DEF Admitted
  <1>3. r \in Request /\ r \notin Live(s.kv) /\ p.job \in QueuedJob /\ r < s.nextRequest
    BY DEF Queued
  <1>4. p.job.prompt \in Seq(Token) /\ Len(p.job.prompt) \in Nat /\ p.job.maxNew \in Nat \ {0}
    BY <1>3, JobParts
  <1>5. m \in Matches(s.kv, p.job.prompt)
    BY <1>4, MatchesExist
  <1> HIDE DEF m
  <1>6. KvInv(K)
    BY <1>1, <1>3, <1>4, <1>5, CreateWithPrefixPreserves
  <1>7. Ordered(K) /\ K.nextResv = s.kv.nextResv
    BY <1>1, CreateWithPrefixLru, CreateWithPrefixCounter
  <1>8. Live(K) = L /\ K.resv = s.kv.resv
    BY <1>1, CreateWithPrefixTables
  <1>9. a \in ActiveState /\ Growing(a) /\ a.phase # "InFlight"
    <2>1. a \in ActiveState
      BY <1>3, <1>4 DEF ActiveState
    <2>2. Growing(a)
      BY <1>4, SMT DEF Growing
    <2> QED
      BY <2>1, <2>2
  <1> HIDE DEF a
  <1>10. A \in [L -> ActiveState] /\ A[r] = a /\ \A q \in Live(s.kv) : A[q] = s.active[q]
    BY <1>2, <1>3, <1>9 DEF With
  <1>11. O \in Seq(L) /\ IsInjective(O) /\ L \subseteq Range(O)
    BY <1>2, <1>3, AppendList
  <1>12. n = [s EXCEPT !.kv = K, !.active = A, !.order = O]
    BY DEF Admit, m, a
  <1> HIDE DEF n, K, A, O
  <1>13. SameQueue(s, n) /\ n.kv = K /\ n.active = A /\ n.order = O
    <2>1. DOMAIN s = SchedulerField
      BY <1>1
    <2> QED
      BY <2>1, <1>12 DEF SameQueue, SchedulerField
  <1>14. Cardinality(L) = Cardinality(Live(s.kv)) + 1
    BY <1>3, LiveFinite, FS_AddElement
  <1>15. \A q \in L : Growing(A[q]) /\ q < s.nextRequest
    BY <1>2, <1>3, <1>9, <1>10
  <1>16. Cardinality(L) <= MaxActive
    BY <1>14
  <1>17. Admitted(n)
    BY <1>2, <1>6, <1>7, <1>8, <1>10, <1>11, <1>13, <1>15, <1>16 DEF Admitted, SameQueue
  <1>18. Joins(s, n, r)
    BY <1>7, <1>8, <1>9, <1>10, <1>13 DEF Joins
  <1> QED
    BY <1>8, <1>13, <1>14, <1>17, <1>18 DEF n

\* How many requests are promoted.
LEMMA PromotableBounds ==
    ASSUME NEW s, Admitted(s), Waiting(s)
    PROVE  /\ Promotable(s) \in 0..Len(s.pending)
           /\ Promotable(s) = 0 \/ Cardinality(Live(s.kv)) + Promotable(s) <= MaxActive
  <1> DEFINE budget(k) == FoldLeft(LAMBDA sum, p : sum + PageBudget(p.job), 0,
                                   SubSeq(s.pending, 1, k))
             fits(k) == /\ Cardinality(DOMAIN s.active) + k <= MaxActive
                        /\ ReserveCapacity => budget(k) <= Unbudgeted(s)
             T == {k \in 0..Len(s.pending) : k = 0 \/ fits(k)}
  <1>1. Len(s.pending) \in Nat /\ DOMAIN s.active = Live(s.kv)
    BY LenProperties DEF Waiting, Admitted
  <1>2. Promotable(s) = Max(T)
    BY DEF Promotable
  <1>3. T \in SUBSET (0..Len(s.pending)) /\ 0 \in T
    <2>1. 0 \in 0..Len(s.pending)
      BY <1>1, SMT
    <2> QED
      BY <2>1
  <1>4. \A k \in T : k = 0 \/ Cardinality(Live(s.kv)) + k <= MaxActive
    BY <1>1
  <1> HIDE DEF T
  <1>5. Max(T) \in T
    BY <1>1, <1>3, MaxWithin
  <1> QED
    BY <1>2, <1>3, <1>4, <1>5

\* promote_pending reserves nothing, and keeps queued and active requests
\* apart.
LEMMA PromoteInv ==
    ASSUME NEW s, Admitted(s), Waiting(s), Idle(s)
    PROVE  LET n == PromotePending(s) IN Admitted(n) /\ Waiting(n) /\ Idle(n)
  <1> DEFINE k0 == Promotable(s)
             q == SubSeq(s.pending, 1, k0)
             rest == SubSeq(s.pending, k0 + 1, Len(s.pending))
             len == Len(s.pending)
  <1>1. /\ k0 \in Nat /\ k0 <= len /\ len \in Nat
        /\ k0 = 0 \/ Cardinality(Live(s.kv)) + k0 <= MaxActive
        /\ s.pending \in Seq(Queued) /\ DOMAIN s.pending = 1..len
    <2>1. s.pending \in Seq(Queued)
      BY DEF Waiting
    <2>2. len \in Nat /\ DOMAIN s.pending = 1..len
      BY <2>1, LenProperties
    <2> QED
      BY <2>1, <2>2, PromotableBounds, SMT
  <1> HIDE DEF k0
  <1>2. /\ DOMAIN q = 1..k0 /\ \A i \in 1..k0 : i \in 1..len /\ q[i] = s.pending[i]
    BY <1>1, SubSeqProperties, SMT
  <1>3. /\ rest \in Seq(Queued) /\ DOMAIN rest = 1 .. len - k0
        /\ \A i \in 1 .. len - k0 : k0 + i \in 1..len /\ rest[i] = s.pending[k0 + i]
    <2>1. k0 + 1 \in 1 .. len + 1 /\ len - k0 = (len - (k0 + 1)) + 1
      BY <1>1, SMT
    <2>2. /\ rest \in Seq(Queued) /\ Len(rest) = len - k0
          /\ \A i \in 1 .. len - k0 : rest[i] = s.pending[k0 + i]
      BY <1>1, SMT
    <2>3. DOMAIN rest = 1 .. len - k0
      BY <2>2, LenProperties
    <2>4. \A i \in 1 .. len - k0 : k0 + i \in 1..len
      BY <1>1, SMT
    <2> QED
      BY <2>2, <2>3, <2>4
  <1> HIDE DEF q, rest
  <1>4. PICK t : /\ t[0] = s
                 /\ \A k \in 1..k0 : t[k] = Admit(t[k - 1], q[k])
                 /\ t[k0] = FoldLeft(Admit, s, q)
    <2>1. DOMAIN q = 1..k0 /\ k0 \in Nat
      BY <1>1, <1>2
    <2> QED
      BY <2>1, AdmitFold
  <1>5. /\ \A i \in 1..len :
              /\ s.pending[i] \in Queued
              /\ s.pending[i].request \notin Live(s.kv)
              /\ s.pending[i].request < s.nextRequest
        /\ \A i, j \in 1..len : s.pending[i].request = s.pending[j].request => i = j
    BY <1>1, ElementOfSeq DEF Waiting
  <1> DEFINE Good(k) ==
               /\ Admitted(t[k]) /\ SameQueue(s, t[k])
               /\ t[k].kv.resv = s.kv.resv /\ t[k].kv.nextResv = s.kv.nextResv
               /\ Live(t[k].kv) = Live(s.kv) \cup {s.pending[i].request : i \in 1..k}
               /\ Cardinality(Live(t[k].kv)) = Cardinality(Live(s.kv)) + k
               /\ \A r \in Live(t[k].kv) : t[k].active[r].phase # "InFlight"
             G == {k \in 0..k0 : Good(k)}
  <1>6. 0 \in G
    <2>1. 0 \in 0..k0 /\ Cardinality(Live(s.kv)) + 0 = Cardinality(Live(s.kv))
      BY <1>1, LiveFinite, SMT
    <2>2. {s.pending[i].request : i \in 1..0} = {}
      BY SMT
    <2>3. SameQueue(s, s)
      BY DEF SameQueue, Admitted
    <2>4. \A r \in Live(s.kv) : s.active[r].phase # "InFlight"
      BY DEF Idle, PhasesIn
    <2>5. Good(0)
      BY <1>4, <2>1, <2>2, <2>3, <2>4
    <2> QED
      BY <2>1, <2>5
  <1>7. ASSUME NEW k \in 1..k0, k - 1 \in G PROVE k \in G
    <2> DEFINE b == t[k - 1]  p == s.pending[k]  n == t[k]
    <2>1. Good(k - 1)
      BY <1>7
    <2>2. k \in 1..len /\ p = q[k] /\ p \in Queued
      BY <1>2, <1>5
    <2>3. n = Admit(b, p)
      BY <1>4, <2>2
    <2> HIDE DEF b, n
    <2>4. /\ Admitted(b) /\ SameQueue(s, b)
          /\ b.kv.resv = s.kv.resv /\ b.kv.nextResv = s.kv.nextResv
          /\ Live(b.kv) = Live(s.kv) \cup {s.pending[i].request : i \in 1 .. k - 1}
          /\ Cardinality(Live(b.kv)) = Cardinality(Live(s.kv)) + (k - 1)
          /\ \A r \in Live(b.kv) : b.active[r].phase # "InFlight"
      BY <2>1 DEF b
    <2>5. p.request \notin Live(b.kv)
      <3>1. \A i \in 1 .. k - 1 : i \in 1..len /\ i # k
        BY <1>1, SMT
      <3> QED
        BY <1>5, <2>2, <2>4, <3>1
    <2>6. p.request < b.nextRequest
      BY <1>5, <2>2, <2>4 DEF SameQueue
    <2>7. Cardinality(Live(b.kv)) + 1 <= MaxActive
      BY <1>1, <2>4, LiveFinite, SchedulerAssumption, SMT
    <2>8. /\ Admitted(n) /\ Joins(b, n, p.request)
          /\ Cardinality(Live(n.kv)) = Cardinality(Live(b.kv)) + 1
      BY <2>2, <2>3, <2>4, <2>5, <2>6, <2>7, AdmitInv
    <2>9. /\ SameQueue(b, n) /\ n.kv.resv = b.kv.resv /\ n.kv.nextResv = b.kv.nextResv
          /\ Live(n.kv) = Live(b.kv) \cup {p.request}
          /\ \A r \in Live(b.kv) : n.active[r] = b.active[r]
          /\ n.active[p.request].phase # "InFlight"
      BY <2>8 DEF Joins
    <2>10. SameQueue(s, n)
      BY <2>4, <2>9 DEF SameQueue
    <2>11. Live(n.kv) = Live(s.kv) \cup {s.pending[i].request : i \in 1..k}
      <3>1. 1..k = (1 .. k - 1) \cup {k}
        BY <1>1, SMT
      <3> QED
        BY <2>4, <2>9, <3>1
    <2>12. Cardinality(Live(n.kv)) = Cardinality(Live(s.kv)) + k
      BY <1>1, <2>4, <2>8, LiveFinite, SMT
    <2>13. \A r \in Live(n.kv) : n.active[r].phase # "InFlight"
      BY <2>4, <2>9
    <2>14. Good(k)
      BY <2>4, <2>8, <2>9, <2>10, <2>11, <2>12, <2>13 DEF n
    <2>15. k \in 0..k0
      BY <1>1, SMT
    <2> QED
      BY <2>14, <2>15
  <1>8. k0 \in G
    BY <1>1, <1>6, <1>7, UpTo
  <1> DEFINE f == FoldLeft(Admit, s, q)
             n == [f EXCEPT !.pending = rest]
  <1>9. /\ Admitted(f) /\ SameQueue(s, f)
        /\ f.kv.resv = s.kv.resv /\ f.kv.nextResv = s.kv.nextResv
        /\ Live(f.kv) = Live(s.kv) \cup {s.pending[i].request : i \in 1..k0}
        /\ \A r \in Live(f.kv) : f.active[r].phase # "InFlight"
    BY <1>4, <1>8
  <1>10. PromotePending(s) = n
    BY DEF PromotePending, k0, q, rest
  <1> HIDE DEF f
  <1>11. DOMAIN f = SchedulerField
    BY <1>9 DEF Admitted
  <1>12. /\ DOMAIN n = SchedulerField /\ n.kv = f.kv /\ n.active = f.active
         /\ n.order = f.order /\ n.inFlight = f.inFlight
         /\ n.batchTokens = f.batchTokens /\ n.nextRequest = f.nextRequest
         /\ n.pending = rest
    BY <1>11 DEF SchedulerField
  <1> HIDE DEF n
  <1>13. f.batchTokens \in Nat \ {0} /\ f.nextRequest \in Nat
    BY <1>9 DEF Admitted
  <1>14. f.nextRequest <= n.nextRequest
    BY <1>12, <1>13
  <1>15. Admitted(n)
    BY <1>9, <1>12, <1>13, <1>14, ManagerKept
  <1>16. Idle(n)
    BY <1>9, <1>12 DEF Idle, PhasesIn, SameQueue
  <1>17. \A i \in 1 .. len - k0 :
           rest[i].request \notin Live(n.kv) /\ rest[i].request < n.nextRequest
    <2> TAKE i \in 1 .. len - k0
    <2>1. k0 + i \in 1..len /\ rest[i] = s.pending[k0 + i]
      BY <1>3
    <2>2. \A j \in 1..k0 : j \in 1..len /\ j # k0 + i
      BY <1>1, SMT
    <2>3. rest[i].request \notin Live(f.kv)
      BY <1>5, <1>9, <2>1, <2>2
    <2>4. rest[i].request < s.nextRequest /\ n.nextRequest = s.nextRequest
      BY <1>5, <1>9, <1>12, <2>1 DEF SameQueue
    <2> QED
      BY <1>12, <2>3, <2>4
  <1>18. \A i, j \in 1 .. len - k0 : rest[i].request = rest[j].request => i = j
    <2> TAKE i, j \in 1 .. len - k0
    <2> HAVE rest[i].request = rest[j].request
    <2>1. k0 + i = k0 + j
      BY <1>3, <1>5
    <2> QED
      BY <1>1, <2>1, SMT
  <1>19. Waiting(n)
    BY <1>3, <1>12, <1>17, <1>18 DEF Waiting
  <1> QED
    BY <1>10, <1>15, <1>16, <1>19

-----------------------------------------------------------------------------
(* Building a batch                                                        *)

\* begin_append names its reservation by the counter and starts it at the
\* committed length.
LEMMA BeginFields ==
    ASSUME NEW m, KvInv(m), NEW r \in Live(m), NEW count, NEW new
    PROVE  LET n == BeginAppend(m, r, count, new)
               id == m.nextResv
           IN  /\ n.nextResv = id + 1
               /\ n.seqs[r].pending = id
               /\ n.seqs[r].committed = m.seqs[r].committed
               /\ n.resv[id].request = r /\ n.resv[id].start = m.seqs[r].committed
               /\ n.resv[id].count = count
  <1> DEFINE d == Allocate(m, new)
             id == m.nextResv
             z == m.seqs[r]
             S == [m.seqs EXCEPT ![r] = [z EXCEPT !.pages = z.pages \o new, !.pending = id]]
             v == [request |-> r, previous |-> Len(z.pages),
                   start |-> z.committed, count |-> count]
             V == [i \in DOMAIN m.resv \cup {id} |-> IF i = id THEN v ELSE m.resv[i]]
             n == BeginAppend(m, r, count, new)
  <1>1. ManagerType(m) /\ z \in SequenceState /\ m.seqs \in [Live(m) -> SequenceState]
    BY LiveSequence DEF KvInv, ManagerType
  <1>2. DOMAIN d = Field
    BY <1>1, AllocateFields DEF SameTables
  <1>3. n = [d EXCEPT !.seqs = S, !.resv = V, !.nextResv = id + 1]
    BY DEF BeginAppend
  <1>4. V[id] = v
    OBVIOUS
  <1>5. S[r].pending = id /\ S[r].committed = z.committed
    BY <1>1 DEF SequenceState
  <1> HIDE DEF d, S, V, n
  <1>6. n.seqs = S /\ n.resv = V /\ n.nextResv = id + 1
    BY <1>2, <1>3 DEF Field
  <1> QED
    BY <1>4, <1>5, <1>6 DEF n

\* What BuildRows has built: a manager whose reservations are those of the
\* rows, for exactly the tokens that they feed.
Built(s, b) ==
    /\ KvInv(b.kv) /\ Ordered(b.kv) /\ Live(b.kv) = Live(s.kv)
    /\ b.rows \in Seq(RowState)
    /\ DOMAIN b.kv.resv = 1..Len(b.rows) /\ b.kv.nextResv = Len(b.rows) + 1
    /\ \A i \in 1..Len(b.rows) :
          RowHolds(b.kv, b.rows[i], i) /\ b.kv.resv[i].count = Len(b.rows[i].tokens)

\* One row more: its reservation is the next one, for exactly its tokens.
LEMMA AddRowBuilt ==
    ASSUME NEW s, NEW b, Built(s, b), NEW r \in Live(s.kv), NEW tokens \in Seq(Token),
           CanAppend(b.kv, r, Len(tokens)), Len(b.rows) + 1 < ReservationLimit
    PROVE  /\ Built(s, AddRow(b, r, tokens))
           /\ Len(AddRow(b, r, tokens).rows) = Len(b.rows) + 1
  <1> DEFINE m == b.kv
             z == m.seqs[r]
             count == Len(tokens)
             end == z.committed + count
             new == NewPages(m, r, end)
             n == BeginAppend(m, r, count, new)
             id == Len(b.rows) + 1
             row == Row(n, r, tokens)
             rows == Append(b.rows, row)
  <1>1. /\ KvInv(m) /\ Ordered(m) /\ r \in Live(m) /\ b.rows \in Seq(RowState)
        /\ DOMAIN m.resv = 1..Len(b.rows) /\ m.nextResv = id /\ Len(b.rows) \in Nat
        /\ Live(m) = Live(s.kv)
    BY LenProperties DEF Built
  <1>2. AddRow(b, r, tokens) = [kv |-> n, rows |-> rows]
    BY DEF AddRow, WithRow
  <1>3. /\ count \in Nat /\ count > 0 /\ z.pending = NoPending
        /\ end <= MaxSequenceLength /\ Additional(m, r, end) <= AvailablePages(m)
    BY LenProperties DEF CanAppend
  <1>4. /\ z \in SequenceState /\ z.committed \in Nat /\ z.pages \in Seq(Page) /\ r \in Request
        /\ ManagerType(m)
    BY <1>1, LiveSequence DEF KvInv
  <1>5. end \in Nat /\ z.committed <= end
    BY <1>3, <1>4, SMT
  <1>6. Len(z.pages) = PagesFor(z.committed)
    BY <1>1, <1>3 DEF KvInv, Reserved
  <1>7. /\ Additional(m, r, end) \in Nat
        /\ Len(z.pages) + Additional(m, r, end) = PagesFor(end)
    BY <1>1, <1>4, <1>5, <1>6, AdditionalPages
  <1>8. new \in Allocations(m, Additional(m, r, end))
    BY <1>1, <1>3, <1>7, AllocationsExist DEF NewPages
  <1>9. CanBegin(m, r, count)
    BY <1>1 DEF CanBegin
  <1> HIDE DEF new
  <1>10. KvInv(n)
    BY <1>1, <1>3, <1>8, <1>9, BeginPreserves
  <1>11. Ordered(n)
    BY <1>1, <1>8, BeginLru
  <1>12. /\ n.nextResv = id + 1 /\ n.seqs[r].pending = id
         /\ n.seqs[r].committed = z.committed
         /\ n.resv[id].request = r /\ n.resv[id].start = z.committed
         /\ n.resv[id].count = count
    BY <1>1, BeginFields
  <1>13. /\ Live(n) = Live(m) /\ DOMAIN n.resv = DOMAIN m.resv \cup {id}
         /\ \A i \in DOMAIN m.resv \ {id} : n.resv[i] = m.resv[i]
    BY <1>1, <1>4, BeginTables
  <1> HIDE DEF n, m
  <1>14. DOMAIN n.resv = 1..id /\ \A i \in 1..Len(b.rows) : n.resv[i] = m.resv[i] /\ i # id
    BY <1>1, <1>13, SMT
  <1>15. /\ row.request = r /\ row.tokens = tokens /\ row.start = z.committed
         /\ row.context = z.committed + count /\ row.table = n.seqs[r].pages
         /\ row.reservation = id
    BY <1>12 DEF Row
  <1>16. id \in 1..id /\ id \in DOMAIN n.resv
    BY <1>1, <1>14, SMT
  <1>17. /\ n.seqs[r].pages \in Seq(Page)
         /\ Len(n.seqs[r].pages) = PagesFor(z.committed + count)
    <2>1. n.resv[id].request \in Live(n)
      BY <1>10, <1>16, LiveReservation
    <2>2. r \in Live(n)
      BY <2>1, <1>12
    <2>3. n.seqs[r].pages \in Seq(Page)
      BY <1>10, <2>2, LiveSequence
    <2>4. Len(n.seqs[n.resv[id].request].pages) = PagesFor(n.resv[id].start + n.resv[id].count)
      BY <1>10, <1>16, LiveReservation
    <2> HIDE DEF count, id, z
    <2> QED
      BY <2>3, <2>4, <1>12
  <1>18. row \in RowState
    BY <1>4, <1>5, <1>1, <1>12, <1>17 DEF Row, RowState
  <1> HIDE DEF row
  <1>19. RowHolds(n, row, id) /\ n.resv[id].count = Len(row.tokens)
    BY <1>3, <1>12, <1>15, <1>16, <1>17, <1>18 DEF RowHolds
  <1>20. /\ rows \in Seq(RowState) /\ Len(rows) = id /\ rows[id] = row
         /\ \A i \in 1..Len(b.rows) : rows[i] = b.rows[i]
    BY <1>1, <1>18, AppendProperties, LenProperties
  <1> HIDE DEF rows
  <1>21. ASSUME NEW i \in 1..Len(rows)
         PROVE  RowHolds(n, rows[i], i) /\ n.resv[i].count = Len(rows[i].tokens)
    <2>1. CASE i = id
      BY <1>19, <1>20, <2>1
    <2>2. CASE i # id
      <3>1. i \in 1..Len(b.rows) /\ i \in DOMAIN n.resv
        BY <1>1, <1>14, <1>20, <2>2, SMT
      <3>2. RowHolds(m, b.rows[i], i) /\ m.resv[i].count = Len(b.rows[i].tokens)
        BY <3>1 DEF Built, m
      <3> QED
        BY <1>14, <1>20, <3>1, <3>2 DEF RowHolds
    <2> QED
      BY <2>1, <2>2
  <1> DEFINE c == AddRow(b, r, tokens)
  <1>22. c.kv = n /\ c.rows = rows
    BY <1>2
  <1> HIDE DEF c
  <1>23. Built(s, c)
    BY <1>1, <1>10, <1>11, <1>12, <1>13, <1>14, <1>20, <1>21, <1>22 DEF Built
  <1> QED
    BY <1>20, <1>22, <1>23 DEF c

\* The rows build_rows returns are the reservations it made, whatever
\* candidates did not fit.
LEMMA BuildRowsBuilt ==
    ASSUME NEW s, Admitted(s), Idle(s), NEW C \in SUBSET Live(s.kv), NEW tokens,
           \A r \in C : tokens[r] \in Seq(Token), NEW limit
    PROVE  Built(s, BuildRows(s, C, tokens, limit))
  <1> DEFINE base == [kv |-> s.kv, rows |-> <<>>]
             N == Cardinality(C)
             ids == Ids(C)
  <1>1. /\ N \in Nat /\ N <= MaxActive /\ DOMAIN ids = 1..N /\ \A k \in 1..N : ids[k] \in C
    <2>1. /\ IsFiniteSet(Live(s.kv)) /\ Live(s.kv) \subseteq Request
          /\ Cardinality(Live(s.kv)) \in Nat /\ Cardinality(Live(s.kv)) <= MaxActive
      BY LiveFinite DEF Admitted
    <2>2. N <= Cardinality(Live(s.kv))
      BY <2>1, FS_Subset
    <2>3. C \in SUBSET Request
      BY <2>1
    <2>4. N \in Nat /\ DOMAIN ids = 1..N /\ \A k \in 1..N : ids[k] \in C
      BY <2>3, IdsList
    <2> QED
      BY <2>1, <2>2, <2>4, SchedulerAssumption, SMT
  <1> HIDE DEF ids, N
  <1>2. PICK t : /\ t[0] = base
                 /\ \A k \in 1..N : t[k] = Build(tokens, limit, t[k - 1], ids[k])
                 /\ t[N] = BuildAll(tokens, limit, base, ids)
    <2> DEFINE e == BuildAll(tokens, limit, base, ids)
    <2>1. e = BuildAll(tokens, limit, base, ids)
      OBVIOUS
    <2>2. N \in Nat /\ DOMAIN ids = 1..N
      BY <1>1
    <2> HIDE DEF base, e
    <2> QED
      BY <2>1, <2>2, BuildFold
  <1>3. BuildRows(s, C, tokens, limit) = t[N]
    BY <1>2, BuildExpands DEF ids
  <1> DEFINE G == {k \in 0..N : Built(s, t[k]) /\ Len(t[k].rows) <= k}
  <1>4. 0 \in G
    <2>1. Built(s, base)
      <3>1. KvInv(s.kv) /\ Ordered(s.kv) /\ DOMAIN s.kv.resv = {} /\ s.kv.nextResv = 1
        BY DEF Admitted, Idle
      <3>2. <<>> \in Seq(RowState) /\ Len(<<>>) = 0 /\ 1..0 = {}
        BY EmptySeq, SMT
      <3> QED
        BY <3>1, <3>2 DEF Built
    <2>2. Len(base.rows) <= 0 /\ 0 \in 0..N
      BY <1>1, SMT
    <2> QED
      BY <1>2, <2>1, <2>2
  <1>5. ASSUME NEW k \in 1..N, k - 1 \in G PROVE k \in G
    <2> DEFINE b == t[k - 1]  r == ids[k]
    <2>1. Built(s, b) /\ Len(b.rows) <= k - 1
      BY <1>5
    <2>2. t[k] = Build(tokens, limit, b, r) /\ r \in C
      BY <1>1, <1>2
    <2> HIDE DEF b
    <2>3. b.rows \in Seq(RowState)
      BY <2>1 DEF Built
    <2>4. Len(b.rows) \in Nat
      BY <2>3, LenProperties
    <2>5. k \in 0..N /\ Len(b.rows) <= k /\ Len(b.rows) + 1 <= k
      BY <1>1, <2>1, <2>4, SMT
    <2>6. Len(b.rows) + 1 < ReservationLimit
      BY <1>1, <2>4, <2>5, IdAssumption, ConfigAssumption, SchedulerAssumption, SMT
    <2>7. CASE Len(b.rows) < limit /\ CanAppend(b.kv, r, Len(tokens[r]))
      <3>1. t[k] = AddRow(b, r, tokens[r])
        BY <2>2, <2>7 DEF Build
      <3>2. tokens[r] \in Seq(Token) /\ r \in Live(s.kv)
        BY <2>2
      <3>3. Built(s, t[k]) /\ Len(t[k].rows) = Len(b.rows) + 1
        BY <2>1, <2>6, <2>7, <3>1, <3>2, AddRowBuilt
      <3> QED
        BY <2>5, <3>3
    <2>8. CASE ~(Len(b.rows) < limit /\ CanAppend(b.kv, r, Len(tokens[r])))
      <3>1. t[k] = b
        BY <2>2, <2>8 DEF Build
      <3> QED
        BY <2>1, <2>5, <3>1
    <2> QED
      BY <2>7, <2>8
  <1>6. N \in G
    BY <1>1, <1>4, <1>5, UpTo
  <1> QED
    BY <1>3, <1>6

\* Scheduled: the batch that a scheduler value has in flight reserves exactly
\* the tokens it feeds.
LEMMA FinishScheduleInv ==
    ASSUME NEW s, Admitted(s), Waiting(s), Idle(s), NEW b, Built(s, b),
           NEW kind \in {"Prefill", "Decode", "Verify"}
    PROVE  LET n == FinishSchedule(s, kind, b)
           IN  SchedInv(n) /\ Exact(n) /\ (InFlight(n) \/ n = s)
  <1> DEFINE n == FinishSchedule(s, kind, b)
             R == RequestsOf(b.rows)
             B == [kind |-> kind, rows |-> b.rows]
             A == [r \in DOMAIN s.active |->
                     IF r \in R
                     THEN [s.active[r] EXCEPT !.phase = "InFlight", !.token = NoToken]
                     ELSE s.active[r]]
  <1>1. CASE b.rows = <<>>
    <2>1. n = s
      BY <1>1 DEF FinishSchedule
    <2>2. Exact(s)
      BY DEF Exact, Idle, NoBatch
    <2> QED
      BY <2>1, <2>2 DEF SchedInv
  <1>2. CASE b.rows # <<>>
    <2>1. DOMAIN s = SchedulerField
      BY DEF Admitted
    <2>2. n = [s EXCEPT !.kv = b.kv, !.inFlight = B, !.active = A]
      BY <1>2 DEF FinishSchedule
    <2> HIDE DEF n, B, A
    <2>3. /\ DOMAIN n = SchedulerField
          /\ n.kv = b.kv /\ n.inFlight = B /\ n.active = A
          /\ n.order = s.order /\ n.pending = s.pending
          /\ n.batchTokens = s.batchTokens /\ n.nextRequest = s.nextRequest
      BY <2>1, <2>2 DEF SchedulerField
    <2>4. /\ KvInv(b.kv) /\ Ordered(b.kv) /\ Live(b.kv) = Live(s.kv)
          /\ b.rows \in Seq(RowState)
          /\ DOMAIN b.kv.resv = 1..Len(b.rows) /\ b.kv.nextResv = Len(b.rows) + 1
          /\ \A i \in 1..Len(b.rows) :
                RowHolds(b.kv, b.rows[i], i) /\ b.kv.resv[i].count = Len(b.rows[i].tokens)
      BY DEF Built
    <2>5. s.active \in [Live(s.kv) -> ActiveState] /\ \A r \in Live(s.kv) : Growing(s.active[r])
      BY DEF Admitted
    <2>6. ASSUME NEW r \in Live(s.kv)
          PROVE  /\ A[r] \in ActiveState /\ Growing(A[r])
                 /\ A[r].phase = "InFlight" <=> r \in R
      <3> DEFINE a == s.active[r]
      <3>1. a \in ActiveState /\ Growing(a) /\ a.phase # "InFlight"
        BY <2>5 DEF Idle, PhasesIn
      <3>2. CASE r \in R
        <4>1. A[r] = [a EXCEPT !.phase = "InFlight", !.token = NoToken]
          BY <2>5, <3>2 DEF A
        <4> HIDE DEF a
        <4>2. A[r] \in ActiveState /\ A[r].phase = "InFlight" /\ A[r].job = a.job
              /\ A[r].history = a.history /\ A[r].draws = a.draws
          BY <3>1, <4>1 DEF ActiveState
        <4>3. Growing(A[r])
          BY <3>1, <4>2 DEF Growing
        <4> QED
          BY <3>2, <4>2, <4>3
      <3>3. CASE r \notin R
        <4>1. A[r] = a
          BY <2>5, <3>3 DEF A
        <4> QED
          BY <3>1, <3>3, <4>1
      <3> QED
        BY <3>2, <3>3
    <2>7. DOMAIN A = Live(s.kv)
      BY <2>5 DEF A
    <2>8. A \in [Live(s.kv) -> ActiveState]
      <3>1. A = [r \in Live(s.kv) |-> A[r]]
        BY <2>5 DEF A
      <3> QED
        BY <2>6, <3>1, Zenon
    <2>9. /\ s.order \in Seq(Live(s.kv)) /\ IsInjective(s.order)
          /\ Live(s.kv) \subseteq Range(s.order)
          /\ \A q \in Live(s.kv) : q < s.nextRequest
          /\ Cardinality(Live(s.kv)) <= MaxActive
          /\ s.batchTokens \in Nat \ {0} /\ s.nextRequest \in Nat
      BY DEF Admitted
    <2>10. Admitted(n)
      BY <2>3, <2>4, <2>6, <2>8, <2>9 DEF Admitted
    <2>11. Waiting(n)
      BY <2>3, <2>4 DEF Waiting
    <2>12. n.inFlight.rows = b.rows /\ n.inFlight \in BatchState
      BY <2>3, <2>4 DEF B, BatchState
    <2>13. PhasesIn(n, R)
      BY <2>3, <2>4, <2>6 DEF PhasesIn
    <2>14. DOMAIN b.rows = 1..Len(b.rows)
      BY <2>4, LenProperties
    <2>15. Flying(n)
      BY <1>2, <2>3, <2>4, <2>12, <2>13, <2>14 DEF Flying
    <2>16. Exact(n)
      BY <2>3, <2>4, <2>12, <2>14 DEF Exact
    <2>17. InFlight(n)
      BY <2>15, FlyingRows
    <2> QED
      BY <2>10, <2>11, <2>15, <2>16, <2>17 DEF SchedInv, n
  <1> QED
    BY <1>1, <1>2

-----------------------------------------------------------------------------
(* Scheduling                                                              *)

\* What an attempt to schedule leads to.
Ready(s) == SchedInv(s) /\ Exact(s)

\* A scheduler without a batch has nothing reserved.
LEMMA IdleReady ==
    ASSUME NEW s, Admitted(s), Waiting(s), Idle(s)
    PROVE  Ready(s)
  BY DEF Ready, SchedInv, Exact, Idle, NoBatch

\* schedule_decode: the batch and the phases of its requests appear together.
LEMMA ScheduleDecodeInv ==
    ASSUME NEW s, Admitted(s), Waiting(s), Idle(s)
    PROVE  Ready(ScheduleDecode(s))
  <1> DEFINE C == InPhase(s, "AwaitingDecode")
             tokens == [r \in C |-> <<s.active[r].token>>]
             b == BuildRows(s, C, tokens, s.batchTokens)
  <1>1. DOMAIN s.active = Live(s.kv)
    BY DEF Admitted
  <1>2. C \in SUBSET Live(s.kv) /\ \A r \in C : s.active[r].phase = "AwaitingDecode"
    BY <1>1 DEF InPhase
  <1>3. \A r \in C : tokens[r] \in Seq(Token)
    <2> TAKE r \in C
    <2>1. Growing(s.active[r]) /\ s.active[r].phase = "AwaitingDecode"
      BY <1>2 DEF Admitted
    <2>2. s.active[r].token \in Token
      BY <2>1 DEF Growing
    <2>3. tokens[r] = <<s.active[r].token>>
      OBVIOUS
    <2> QED
      BY <2>2, <2>3
  <1> HIDE DEF C, tokens
  <1>4. Built(s, b)
    BY <1>2, <1>3, BuildRowsBuilt
  <1>5. ScheduleDecode(s) = FinishSchedule(s, "Decode", b)
    BY DEF ScheduleDecode, C, tokens
  <1> HIDE DEF b
  <1>6. SchedInv(FinishSchedule(s, "Decode", b)) /\ Exact(FinishSchedule(s, "Decode", b))
    BY <1>4, FinishScheduleInv
  <1> QED
    BY <1>5, <1>6 DEF Ready

\* A chunk of prefill_chunk lies within the history.
LEMMA ChunkWithin ==
    ASSUME NEW s, Admitted(s), NEW r \in Live(s.kv), ChunkLength(s, r) > 0
    PROVE  /\ s.kv.seqs[r].committed \in Nat /\ ChunkLength(s, r) \in Nat
           /\ s.kv.seqs[r].committed + ChunkLength(s, r) <= Len(s.active[r].history)
  <1> DEFINE c == s.kv.seqs[r].committed
             h == Len(s.active[r].history)
             remaining == h - c
             chunk == IF ChunkTokens = 0 THEN remaining ELSE Least(remaining, ChunkTokens)
  <1>1. c \in Nat /\ h \in Nat
    BY ActiveParts, LiveSequence DEF Admitted
  <1>2. s.batchTokens \in Nat /\ ChunkTokens \in Nat
    BY SchedulerAssumption DEF Admitted
  <1>3. ChunkLength(s, r) = IF remaining < 0 THEN 0 ELSE Least(chunk, s.batchTokens)
    BY DEF ChunkLength
  <1> HIDE DEF c, h
  <1>4. chunk \in Int /\ chunk <= remaining
    BY <1>1, <1>2, SMT DEF Least
  <1> HIDE DEF chunk
  <1>5. CASE remaining < 0
    BY <1>3, <1>5, SMT
  <1>6. CASE ~(remaining < 0)
    <2>1. ChunkLength(s, r) = Least(chunk, s.batchTokens)
      BY <1>3, <1>6
    <2>2. Least(chunk, s.batchTokens) \in Int /\ Least(chunk, s.batchTokens) <= remaining
      BY <1>1, <1>2, <1>4, SMT DEF Least
    <2>3. ChunkLength(s, r) \in Nat /\ c + ChunkLength(s, r) <= h
      BY <1>1, <2>1, <2>2, SMT
    <2> QED
      BY <1>1, <2>3 DEF c, h
  <1> QED
    BY <1>5, <1>6

\* One width of schedule_prefill, the same way.
LEMMA PrefillBucketInv ==
    ASSUME NEW s, Admitted(s), Waiting(s), Idle(s), NEW b
    PROVE  Ready(PrefillBucket(s, b))
  <1> DEFINE C == Bucketed(s, b)
             tokens == [r \in C |-> SubSeq(s.active[r].history, s.kv.seqs[r].committed + 1,
                                           s.kv.seqs[r].committed + b[1])]
             limit == s.batchTokens \div b[1]
             x == BuildRows(s, C, tokens, limit)
  <1>1. DOMAIN s.active = Live(s.kv)
    BY DEF Admitted
  <1>2. /\ C \in SUBSET Live(s.kv)
        /\ \A r \in C : ChunkLength(s, r) > 0 /\ Bucket(s, r) = b
    BY <1>1 DEF Bucketed, Prefillable, InPhase
  <1>3. \A r \in C : tokens[r] \in Seq(Token)
    <2> TAKE r \in C
    <2> DEFINE c == s.kv.seqs[r].committed  h == s.active[r].history  k == ChunkLength(s, r)
    <2>1. b[1] = k
      BY <1>2 DEF Bucket
    <2>2. tokens[r] = SubSeq(h, c + 1, c + k)
      BY <2>1
    <2>3. /\ c \in Nat /\ k \in Nat /\ c + k <= Len(h)
          /\ h \in Seq(Token) /\ Len(h) \in Nat
      BY <1>2, ChunkWithin, ActiveParts
    <2> HIDE DEF c, h, k, tokens
    <2>4. SubSeq(h, c + 1, c + k) \in Seq(Token)
      <3>1. \A i \in c + 1 .. c + k : i \in 1..Len(h)
        BY <2>3, SMT
      <3>2. \A i \in c + 1 .. c + k : h[i] \in Token
        BY <2>3, <3>1, ElementOfSeq
      <3> QED
        BY <2>3, <3>2, SMT
    <2> QED
      BY <2>2, <2>4
  <1> HIDE DEF C, tokens, limit
  <1>4. Built(s, x)
    BY <1>2, <1>3, BuildRowsBuilt
  <1>5. PrefillBucket(s, b) = FinishSchedule(s, "Prefill", x)
    BY DEF PrefillBucket, C, tokens, limit
  <1> HIDE DEF x
  <1>6. SchedInv(FinishSchedule(s, "Prefill", x)) /\ Exact(FinishSchedule(s, "Prefill", x))
    BY <1>4, FinishScheduleInv
  <1> QED
    BY <1>5, <1>6 DEF Ready

\* schedule_prefill, whichever widths have rows that fit.
LEMMA SchedulePrefillInv ==
    ASSUME NEW s, Admitted(s), Waiting(s), Idle(s)
    PROVE  Ready(SchedulePrefill(s))
  <1>1. CASE Prefillable(s) = {}
    BY <1>1, IdleReady DEF SchedulePrefill
  <1>2. CASE Prefillable(s) # {}
    <2> DEFINE b == Fullest(s, {Bucket(s, r) : r \in Prefillable(s)})
    <2>1. SchedulePrefill(s) = PrefillBucket(s, b)
      BY <1>2 DEF SchedulePrefill
    <2> HIDE DEF b
    <2> QED
      BY <2>1, PrefillBucketInv
  <1> QED
    BY <1>1, <1>2

\* The draft of ngram_draft is part of the history.
LEMMA DraftTokensOfVocabulary ==
    ASSUME NEW h \in Seq(Token), NgramDraft(h) # <<>>, DraftTokens # 0
    PROVE  /\ NgramDraft(h) \in Seq(Token) /\ Len(NgramDraft(h)) \in Nat \ {0}
  <1> DEFINE later(x, y) == y[1] < x[1] \/ (y[1] = x[1] /\ y[2] <= x[2])
             after(x) == SubSeq(h, x[2] + x[1] + 1, Least(x[2] + x[1] + DraftTokens, Len(h)))
             O == Occurrences(h)
             x0 == CHOOSE x \in O : \A y \in O : later(x, y)
             n == Len(h)
  <1>1. n \in Nat /\ Ngram \in Nat /\ DraftTokens \in Nat \ {0}
    BY LenProperties, SchedulerAssumption
  <1>2. O # {} /\ NgramDraft(h) = after(x0)
    BY DEF NgramDraft
  <1>3. \A x \in O : x[1] \in 1..n /\ x[2] \in 0..n /\ x[2] + x[1] < n
    <2> TAKE x \in O
    <2>1. x \in (1 .. Least(Ngram, n - 1)) \X (0 .. n - 1) /\ x[2] + x[1] < n
      BY DEF Occurrences
    <2>2. x[1] \in 1 .. Least(Ngram, n - 1) /\ x[2] \in 0 .. n - 1
      BY <2>1
    <2>3. Least(Ngram, n - 1) \in Int /\ Least(Ngram, n - 1) <= n - 1
      BY <1>1, SMT DEF Least
    <2> QED
      BY <1>1, <2>1, <2>2, <2>3, SMT
  <1> HIDE DEF O
  <1>4. \E x \in O : \A y \in O : later(x, y)
    <2> DEFINE T == {x[1] : x \in O}
    <2>1. T \in SUBSET (0..n) /\ T # {}
      <3>1. \A x \in O : x[1] \in 0..n
        BY <1>1, <1>3, SMT
      <3> QED
        BY <1>2, <3>1
    <2> HIDE DEF T
    <2>2. PICK a \in T : \A c \in T : c <= a
      BY <1>1, <2>1, GreatestOf
    <2> DEFINE U == {x[2] : x \in {y \in O : y[1] = a}}
    <2>3. U \in SUBSET (0..n) /\ U # {}
      BY <1>3, <2>2 DEF T
    <2> HIDE DEF U
    <2>4. PICK b \in U : \A c \in U : c <= b
      BY <1>1, <2>3, GreatestOf
    <2>5. PICK x \in O : x[1] = a /\ x[2] = b
      BY <2>4 DEF U
    <2>6. ASSUME NEW y \in O PROVE later(x, y)
      <3>1. y[1] \in T /\ y[1] <= a
        BY <2>2 DEF T
      <3>2. y[1] = a => y[2] \in U
        BY DEF U
      <3>3. y[1] = a => y[2] <= b
        BY <2>4, <3>2
      <3>4. y[1] \in Int /\ a \in Int
        BY <1>1, <1>3, <2>5, SMT
      <3>5. y[1] < a \/ y[1] = a
        BY <3>1, <3>4, SMT
      <3> QED
        BY <2>5, <3>3, <3>5
    <2> QED
      BY <2>6
  <1>5. x0 \in O
    BY <1>4
  <1> HIDE DEF x0
  <1> DEFINE lo == x0[2] + x0[1] + 1  hi == Least(x0[2] + x0[1] + DraftTokens, n)
  <1>6. lo \in 1..n /\ hi \in 1..n /\ lo <= hi
    BY <1>1, <1>3, <1>5, SMT DEF Least
  <1>7. after(x0) = SubSeq(h, lo, hi)
    OBVIOUS
  <1> HIDE DEF lo, hi, n
  <1>8. \A i \in lo..hi : h[i] \in Token
    <2>1. \A i \in lo..hi : i \in 1..Len(h)
      BY <1>1, <1>6, SMT DEF n
    <2> QED
      BY <2>1, ElementOfSeq
  <1>9. SubSeq(h, lo, hi) \in Seq(Token) /\ Len(SubSeq(h, lo, hi)) = hi - lo + 1
    BY <1>1, <1>6, <1>8, SMT
  <1>10. hi - lo + 1 \in Nat \ {0}
    BY <1>1, <1>6, SMT
  <1> QED
    BY <1>2, <1>7, <1>9, <1>10

\* A verified row feeds the sampled token and the draft from the history.
LEMMA VerifyRowTokens ==
    ASSUME NEW a, a.token \in Token, a.history \in Seq(Token),
           NgramDraft(a.history) # <<>>, DraftTokens # 0
    PROVE  VerifyTokens(a) \in Seq(Token)
  <1> DEFINE d == NgramDraft(a.history)  p == Padded(d)
  <1>1. d \in Seq(Token) /\ Len(d) \in Nat \ {0}
    BY DraftTokensOfVocabulary
  <1> HIDE DEF d
  <1>2. DraftTokens \in Nat
    BY SchedulerAssumption
  <1>3. \A i \in 1..DraftTokens : d[Least(i, Len(d))] \in Token
    <2> TAKE i \in 1..DraftTokens
    <2>1. Least(i, Len(d)) \in 1..Len(d)
      BY <1>1, <1>2, SMT DEF Least
    <2> QED
      BY <1>1, <2>1, ElementOfSeq
  <1>4. p \in Seq(Token)
    BY <1>2, <1>3, SeqDef DEF Padded
  <1>5. <<a.token>> \in Seq(Token)
    OBVIOUS
  <1>6. VerifyTokens(a) = <<a.token>> \o p
    BY DEF VerifyTokens, d
  <1> HIDE DEF p
  <1> QED
    BY <1>4, <1>5, <1>6, ConcatProperties

\* schedule_verify, or decode when there is no draft.
LEMMA ScheduleVerifyInv ==
    ASSUME NEW s, Admitted(s), Waiting(s), Idle(s)
    PROVE  Ready(ScheduleVerify(s))
  <1> DEFINE C == Verifiable(s)
             tokens == [r \in C |-> VerifyTokens(s.active[r])]
             limit == s.batchTokens \div (DraftTokens + 1)
             b == BuildRows(s, C, tokens, limit)
  <1>1. CASE DraftTokens = 0 \/ limit = 0
    BY <1>1, IdleReady DEF ScheduleVerify
  <1>2. CASE ~(DraftTokens = 0 \/ limit = 0)
    <2>1. ScheduleVerify(s) = FinishSchedule(s, "Verify", b)
      BY <1>2 DEF ScheduleVerify
    <2>2. DOMAIN s.active = Live(s.kv)
      BY DEF Admitted
    <2>3. /\ C \in SUBSET Live(s.kv)
          /\ \A r \in C : /\ s.active[r].phase = "AwaitingDecode"
                          /\ NgramDraft(s.active[r].history) # <<>>
      BY <2>2 DEF Verifiable, InPhase
    <2>4. \A r \in C : tokens[r] \in Seq(Token)
      <3> TAKE r \in C
      <3>1. Growing(s.active[r]) /\ s.active[r].history \in Seq(Token)
        BY <2>3, ActiveParts
      <3>2. s.active[r].token \in Token
        BY <2>3, <3>1 DEF Growing
      <3>3. VerifyTokens(s.active[r]) \in Seq(Token)
        BY <1>2, <2>3, <3>1, <3>2, VerifyRowTokens
      <3> QED
        BY <3>3
    <2> HIDE DEF C, tokens, limit
    <2>5. Built(s, b)
      BY <2>3, <2>4, BuildRowsBuilt
    <2> HIDE DEF b
    <2>6. SchedInv(FinishSchedule(s, "Verify", b)) /\ Exact(FinishSchedule(s, "Verify", b))
      BY <2>5, FinishScheduleInv
    <2> QED
      BY <2>1, <2>6 DEF Ready
  <1> QED
    BY <1>1, <1>2

\* Turns between prefill and decode touch no request.
LEMMA PreferringReady ==
    ASSUME NEW s, Ready(s), NEW x
    PROVE  Ready(Preferring(s, x))
  <1>1. CASE InFlight(s)
    <2> DEFINE n == [s EXCEPT !.preferPrefill = x]
    <2>1. SchedInv(n) /\ Exact(n)
      BY TurnKept DEF Ready
    <2> QED
      BY <1>1, <2>1 DEF Preferring, Ready
  <1>2. CASE ~InFlight(s)
    BY <1>2 DEF Preferring
  <1> QED
    BY <1>1, <1>2

\* The second choice is taken from the same scheduler.
LEMMA OrElseReady ==
    ASSUME NEW a, NEW b, Ready(a), Ready(b)
    PROVE  Ready(OrElse(a, b))
  BY DEF OrElse

\* try_schedule, whatever kind of batch it settles on.
LEMMA TryScheduleInv ==
    ASSUME NEW s, Admitted(s), Waiting(s), Idle(s)
    PROVE  Ready(TrySchedule(s))
  <1> DEFINE turned == [s EXCEPT !.speculativeTurn = ~@]
             v == IF turned.speculativeTurn THEN ScheduleVerify(turned) ELSE turned
             w == IF s.preferPrefill THEN SchedulePrefill(s) ELSE s
  <1>1. Ready(s) /\ SchedInv(s)
    BY IdleReady DEF Ready
  <1>2. SchedInv(turned) /\ Idle(turned)
    BY <1>1, TurnKept
  <1>3. Admitted(turned) /\ Waiting(turned)
    BY <1>2 DEF SchedInv
  <1>4. TrySchedule(s) = OrElse(Preferring(w, FALSE), TryDecode(turned))
    BY DEF TrySchedule
  <1> HIDE DEF turned
  <1>5. Ready(v)
    BY <1>2, <1>3, IdleReady, ScheduleVerifyInv
  <1>6. TryDecode(turned)
          = OrElse(Preferring(OrElse(v, ScheduleDecode(turned)), TRUE),
                   Preferring(SchedulePrefill(turned), FALSE))
    BY DEF TryDecode
  <1> HIDE DEF v
  <1>7. Ready(ScheduleDecode(turned)) /\ Ready(SchedulePrefill(turned))
    BY <1>2, <1>3, ScheduleDecodeInv, SchedulePrefillInv
  <1>8. Ready(TryDecode(turned))
    BY <1>5, <1>6, <1>7, PreferringReady, OrElseReady
  <1>9. Ready(w)
    BY <1>1, SchedulePrefillInv
  <1> HIDE DEF w
  <1> QED
    BY <1>4, <1>8, <1>9, PreferringReady, OrElseReady

-----------------------------------------------------------------------------
(* Preemption                                                              *)

\* preempt_newest finds a request that holds pages.
LEMMA NewestHolds ==
    ASSUME NEW s, Admitted(s), CanPreempt(s)
    PROVE  Newest(s) \in Holders(s) /\ Newest(s) \in Live(s.kv)
  <1> DEFINE H == Holders(s)
             I == {i \in 1..Len(s.order) : s.order[i] \in H}
  <1>1. /\ DOMAIN s.active = Live(s.kv) /\ s.order \in Seq(Live(s.kv))
        /\ Live(s.kv) \subseteq Range(s.order)
    BY DEF Admitted
  <1>2. H \subseteq Live(s.kv)
    BY <1>1 DEF Holders
  <1>3. H # {}
    <2>1. Cardinality(H) > 1
      BY DEF CanPreempt
    <2> SUFFICES ASSUME H = {} PROVE FALSE
      OBVIOUS
    <2>2. Cardinality({}) = 0
      BY FS_EmptySet
    <2> QED
      BY <2>1, <2>2
  <1> HIDE DEF H
  <1>4. DOMAIN s.order = 1..Len(s.order) /\ Len(s.order) \in Nat
    BY <1>1, LenProperties
  <1>5. I # {} /\ I \in SUBSET (0..Len(s.order))
    <2>1. PICK r \in H : TRUE
      BY <1>3
    <2>2. PICK i \in 1..Len(s.order) : s.order[i] = r
      BY <1>1, <1>2, <1>4, <2>1 DEF Range
    <2>3. I \in SUBSET (0..Len(s.order))
      BY <1>4, SMT
    <2> QED
      BY <2>1, <2>2, <2>3
  <1>6. Newest(s) = s.order[Max(I)]
    BY <1>5 DEF Newest, SelectLastInSeq, H
  <1>7. \A i \in I : s.order[i] \in H
    OBVIOUS
  <1> HIDE DEF I
  <1>8. Max(I) \in I
    BY <1>4, <1>5, MaxWithin
  <1> QED
    BY <1>2, <1>6, <1>7, <1>8 DEF H

\* Preempting the newest request gives its pages back and leaves it with the
\* text it had.
LEMMA PreemptInv ==
    ASSUME NEW s, Admitted(s), Waiting(s), Idle(s), CanPreempt(s)
    PROVE  LET n == Preempt(s, Newest(s)) IN Admitted(n) /\ Waiting(n) /\ Idle(n)
  <1> DEFINE r == Newest(s)
             m == RemoveSequence(s.kv, r)
             K == CreateSequence(m, r)
             n == Preempt(s, r)
  <1>1. r \in Live(s.kv)
    BY NewestHolds
  <1> HIDE DEF r
  <1>2. /\ DOMAIN s = SchedulerField /\ KvInv(s.kv) /\ Ordered(s.kv)
        /\ s.active \in [Live(s.kv) -> ActiveState]
        /\ s.order \in Seq(Live(s.kv)) /\ IsInjective(s.order)
        /\ Live(s.kv) \subseteq Range(s.order)
        /\ \A q \in Live(s.kv) : Growing(s.active[q]) /\ q < s.nextRequest
        /\ Cardinality(Live(s.kv)) <= MaxActive
        /\ s.batchTokens \in Nat \ {0} /\ s.nextRequest \in Nat
    BY DEF Admitted
  <1>3. DOMAIN s.kv.resv = {} /\ s.kv.nextResv = 1 /\ s.inFlight = NoBatch
    BY DEF Idle
  <1>4. s.kv.seqs[r].pending = NoPending
    BY <1>1, <1>2, <1>3, NothingPending
  <1>5. KvInv(m)
    BY <1>1, <1>2, <1>4, RemovePreserves DEF CanRemove
  <1>6. Ordered(m) /\ m.nextResv = 1 /\ Live(m) = Live(s.kv) \ {r} /\ DOMAIN m.resv = {}
    BY <1>1, <1>2, <1>3, RemoveLru, RemoveTables, RemoveCounter
  <1> HIDE DEF m
  <1>7. r \in Request \ Live(m)
    BY <1>1, <1>2, <1>6, LiveSequence
  <1>8. KvInv(K)
    BY <1>5, <1>7, CreatePreserves
  <1>9. Ordered(K) /\ K.nextResv = 1
    BY <1>5, <1>6, CreateLru, CreateCounter
  <1>10. Live(K) = Live(s.kv) /\ DOMAIN K.resv = {}
    <2>1. ManagerType(m)
      BY <1>5 DEF KvInv
    <2>2. Live(K) = Live(m) \cup {r} /\ K.resv = m.resv
      BY <2>1, CreateTables
    <2> QED
      BY <1>1, <1>6, <2>2
  <1> HIDE DEF K
  <1>11. /\ DOMAIN n = SchedulerField /\ n.kv = K
         /\ n.order = s.order /\ n.inFlight = s.inFlight /\ n.pending = s.pending
         /\ n.batchTokens = s.batchTokens /\ n.nextRequest = s.nextRequest
    BY <1>2 DEF Preempt, Restarted, SchedulerField, K, m
  <1>12. n.active = [s.active EXCEPT ![r].phase = "NeedsPrefill", ![r].token = NoToken]
    BY <1>2 DEF Preempt, Restarted, SchedulerField
  <1> HIDE DEF n
  <1> DEFINE a == s.active[r]
  <1>13. a \in ActiveState /\ Growing(a)
    BY <1>1, <1>2
  <1>14. /\ DOMAIN n.active = Live(s.kv)
         /\ n.active[r] = [a EXCEPT !.phase = "NeedsPrefill", !.token = NoToken]
         /\ \A q \in Live(s.kv) \ {r} : n.active[q] = s.active[q]
    BY <1>1, <1>2, <1>12
  <1> HIDE DEF a
  <1>15. /\ n.active[r] \in ActiveState /\ n.active[r].phase = "NeedsPrefill"
         /\ n.active[r].job = a.job /\ n.active[r].history = a.history
         /\ n.active[r].draws = a.draws
    BY <1>13, <1>14 DEF ActiveState
  <1>16. Growing(n.active[r])
    BY <1>13, <1>15 DEF Growing
  <1>17. \A q \in Live(s.kv) : n.active[q] \in ActiveState /\ Growing(n.active[q])
    BY <1>2, <1>14, <1>15, <1>16
  <1>18. n.active \in [Live(s.kv) -> ActiveState]
    <2>1. n.active = [q \in Live(s.kv) |-> n.active[q]]
      BY <1>2, <1>12, <1>14
    <2> QED
      BY <1>17, <2>1, Zenon
  <1>19. Admitted(n)
    BY <1>2, <1>8, <1>9, <1>10, <1>11, <1>17, <1>18 DEF Admitted
  <1>20. Waiting(n)
    BY <1>10, <1>11 DEF Waiting
  <1>21. Idle(n)
    <2>1. \A q \in Live(s.kv) : n.active[q].phase # "InFlight"
      BY <1>14, <1>15 DEF Idle, PhasesIn
    <2> QED
      BY <1>3, <1>9, <1>10, <1>11, <2>1 DEF Idle, PhasesIn
  <1> QED
    BY <1>19, <1>20, <1>21 DEF n, r

\* One round of schedule after the result `last` of the round before.
Round(s, k, last) ==
    IF k > 0 /\ Settled(last)
    THEN last
    ELSE TrySchedule(IF k = 0 THEN PromotePending(s) ELSE Preempt(last, Newest(last)))

\* The rounds of schedule.
LEMMA ScheduleRounds ==
    ASSUME NEW s
    PROVE  \E t : /\ t[0] = TrySchedule(PromotePending(s))
                  /\ \A k \in 1..MaxActive : t[k] = Round(s, k, t[k - 1])
                  /\ Schedule(s) = t[MaxActive]
  <1> DEFINE Rounds(f, n) == f = [k \in 0..n |-> Round(s, k, f[k - 1])]
             G == {n \in 0..MaxActive : \E f : Rounds(f, n)}
  <1>1. MaxActive \in Nat
    BY SchedulerAssumption
  <1>2. 0 \in G
    <2> DEFINE f == [k \in 0..0 |-> TrySchedule(PromotePending(s))]
    <2>1. \A k \in 0..0 : Round(s, k, f[k - 1]) = TrySchedule(PromotePending(s))
      BY SMT DEF Round
    <2>2. Rounds(f, 0)
      BY <2>1
    <2>3. 0 \in 0..MaxActive
      BY <1>1, SMT
    <2> QED
      BY <2>2, <2>3
  <1>3. ASSUME NEW n \in 1..MaxActive, n - 1 \in G PROVE n \in G
    <2>1. PICK f : Rounds(f, n - 1)
      BY <1>3
    <2> DEFINE g == [k \in 0..n |-> Round(s, k, f[k - 1])]
    <2>2. ASSUME NEW k \in 0..n PROVE g[k] = Round(s, k, g[k - 1])
      <3>1. CASE k = 0
        BY <3>1 DEF Round
      <3>2. CASE k # 0
        <4>1. k - 1 \in 0..n /\ k - 1 \in 0 .. n - 1
          BY <1>1, <3>2, SMT
        <4>2. g[k - 1] = f[k - 1]
          BY <2>1, <4>1
        <4> QED
          BY <4>2
      <3> QED
        BY <3>1, <3>2
    <2>3. g = [k \in 0..n |-> g[k]]
      OBVIOUS
    <2>4. Rounds(g, n)
      BY <2>2, <2>3, Zenon
    <2>5. n \in 0..MaxActive
      BY <1>1, SMT
    <2> QED
      BY <2>4, <2>5
  <1>4. MaxActive \in G
    BY <1>1, <1>2, <1>3, UpTo
  <1> DEFINE t == CHOOSE f : Rounds(f, MaxActive)
  <1>5. Rounds(t, MaxActive)
    BY <1>4
  <1>6. Schedule(s) = t[MaxActive]
    BY DEF Schedule, Round
  <1> HIDE DEF t
  <1>7. t[0] = TrySchedule(PromotePending(s))
    <2>1. 0 \in 0..MaxActive
      BY <1>1, SMT
    <2> QED
      BY <1>5, <2>1 DEF Round
  <1>8. \A k \in 1..MaxActive : t[k] = Round(s, k, t[k - 1])
    <2>1. \A k \in 1..MaxActive : k \in 0..MaxActive
      BY SMT
    <2> QED
      BY <1>5, <2>1
  <1> QED
    BY <1>6, <1>7, <1>8

\* schedule: promotion, the batch, and preemption until one is found.
LEMMA ScheduleInv ==
    ASSUME NEW s, SchedInv(s), Idle(s)
    PROVE  Ready(Schedule(s))
  <1>1. PICK t : /\ t[0] = TrySchedule(PromotePending(s))
                 /\ \A k \in 1..MaxActive : t[k] = Round(s, k, t[k - 1])
                 /\ Schedule(s) = t[MaxActive]
    BY ScheduleRounds
  <1> DEFINE G == {k \in 0..MaxActive : Ready(t[k])}
  <1>2. MaxActive \in Nat
    BY SchedulerAssumption
  <1>3. 0 \in G
    <2> DEFINE p == PromotePending(s)
    <2>1. Admitted(p) /\ Waiting(p) /\ Idle(p)
      BY PromoteInv DEF SchedInv
    <2> HIDE DEF p
    <2>2. Ready(TrySchedule(p))
      BY <2>1, TryScheduleInv
    <2>3. 0 \in 0..MaxActive
      BY <1>2, SMT
    <2> QED
      BY <1>1, <2>2, <2>3 DEF p
  <1>4. ASSUME NEW k \in 1..MaxActive, k - 1 \in G PROVE k \in G
    <2> DEFINE last == t[k - 1]
    <2>1. Ready(last)
      BY <1>4
    <2>2. k > 0 /\ k # 0 /\ k \in 0..MaxActive
      BY <1>2, SMT
    <2>3. t[k] = Round(s, k, last)
      BY <1>1
    <2> HIDE DEF last
    <2>4. CASE Settled(last)
      BY <2>1, <2>2, <2>3, <2>4 DEF Round
    <2>5. CASE ~Settled(last)
      <3> DEFINE p == Preempt(last, Newest(last))
      <3>1. ~InFlight(last) /\ CanPreempt(last) /\ SchedInv(last)
        BY <2>1, <2>5 DEF Settled, Ready
      <3>2. Idle(last) /\ Admitted(last) /\ Waiting(last)
        BY <3>1, IdleNotFlying DEF SchedInv
      <3>3. Admitted(p) /\ Waiting(p) /\ Idle(p)
        BY <3>1, <3>2, PreemptInv
      <3>4. t[k] = TrySchedule(p)
        BY <2>2, <2>3, <2>5 DEF Round
      <3> HIDE DEF p
      <3>5. Ready(t[k])
        BY <3>3, <3>4, TryScheduleInv
      <3> QED
        BY <2>2, <3>5
    <2> QED
      BY <2>4, <2>5
  <1>5. MaxActive \in G
    BY <1>2, <1>3, <1>4, UpTo
  <1> QED
    BY <1>1, <1>5

-----------------------------------------------------------------------------
(* reserve_lookahead                                                       *)

\* Min of four bounds is within each.
LEMMA MinFour ==
    ASSUME NEW a \in Int, NEW b \in Int, NEW c \in Int, NEW d \in Int
    PROVE  LET x == Min({a, b, c, d}) IN x \in Int /\ x <= a /\ x <= b /\ x <= c /\ x <= d
  <1> DEFINE S == {a, b, c, d}
  <1>1. \E x \in S : x <= a /\ x <= b /\ x <= c /\ x <= d
    <2>1. \/ a <= b /\ a <= c /\ a <= d
          \/ b <= a /\ b <= c /\ b <= d
          \/ c <= a /\ c <= b /\ c <= d
          \/ d <= a /\ d <= b /\ d <= c
      BY SMT
    <2>2. a <= a /\ b <= b /\ c <= c /\ d <= d
      BY SMT
    <2> QED
      BY <2>1, <2>2
  <1>2. \E x \in S : \A y \in S : x <= y
    BY <1>1
  <1>3. Min(S) \in S /\ \A y \in S : Min(S) <= y
    BY <1>2 DEF Min
  <1> QED
    BY <1>3

\* extend_append keeps the owner and the start of the reservation.
LEMMA ExtendFields ==
    ASSUME NEW m, KvInv(m), NEW id \in DOMAIN m.resv, NEW extra, NEW new
    PROVE  LET n == ExtendAppend(m, id, extra, new)
           IN  /\ n.nextResv = m.nextResv
               /\ n.resv[id].request = m.resv[id].request
               /\ n.resv[id].start = m.resv[id].start
  <1> DEFINE d == Allocate(m, new)
             v == m.resv[id]
             z == m.seqs[v.request]
             S == [m.seqs EXCEPT ![v.request] = [z EXCEPT !.pages = z.pages \o new]]
             V == [m.resv EXCEPT ![id] = [v EXCEPT !.count = v.count + extra]]
             n == ExtendAppend(m, id, extra, new)
  <1>1. ManagerType(m)
    BY DEF KvInv
  <1>2. DOMAIN d = Field /\ d.nextResv = m.nextResv
    BY <1>1, AllocateFields DEF SameTables
  <1>3. n = [d EXCEPT !.seqs = S, !.resv = V]
    BY DEF ExtendAppend
  <1>4. v \in ReservationState /\ m.resv \in [DOMAIN m.resv -> ReservationState]
    BY <1>1 DEF ManagerType
  <1>5. V[id].request = v.request /\ V[id].start = v.start
    BY <1>4 DEF ReservationState
  <1> HIDE DEF d, S, V, n
  <1>6. n.resv = V /\ n.nextResv = m.nextResv
    BY <1>2, <1>3 DEF Field
  <1> QED
    BY <1>5, <1>6 DEF n

\* The tokens that extend a row fit its sequence and the pool.
LEMMA ExtraFits ==
    ASSUME NEW s, Admitted(s), NEW i, NEW row, RowHolds(s.kv, row, i),
           s.kv.resv[i].count = Len(row.tokens), NEW budget \in Int,
           ExtraTokens(s, row, budget) # 0
    PROVE  LET extra == ExtraTokens(s, row, budget)
               v == s.kv.resv[i]
               end == v.start + v.count + extra
           IN  /\ extra \in Nat \ {0} /\ CanExtend(s.kv, i, extra)
               /\ end = row.context + extra
               /\ NewPages(s.kv, row.request, row.context + extra)
                     \in Allocations(s.kv, Additional(s.kv, v.request, end))
  <1> DEFINE extra == ExtraTokens(s, row, budget)
             v == s.kv.resv[i]
             end == row.context + extra
             rest == Remaining(s.active[row.request]) - 1
             room == MaxSequenceLength - row.context
             most == Min({Lookahead, budget, rest, room})
  <1>1. KvInv(s.kv) /\ Ordered(s.kv)
    BY DEF Admitted
  <1>2. /\ row.request \in Live(s.kv) /\ row.start \in Nat /\ row.context \in Nat
        /\ row.tokens \in Seq(Token) /\ i \in DOMAIN s.kv.resv
        /\ v.request = row.request /\ v.start = row.start
        /\ Len(s.kv.seqs[row.request].pages) = PagesFor(row.start + v.count)
    BY <1>1, RowParts
  <1>3. row.context = row.start + Len(row.tokens) /\ Len(row.table) = PagesFor(row.context)
    BY DEF RowHolds
  <1>4. rest \in Int
    <2> DEFINE a == s.active[row.request]
    <2>1. a.job \in QueuedJob /\ a.history \in Seq(Token)
      BY <1>2, ActiveParts
    <2>2. /\ a.job.maxNew \in Nat /\ Len(a.history) \in Nat /\ Len(a.job.prompt) \in Nat
          /\ a.history \in Seq(Token)
      BY <2>1, JobParts, LenProperties
    <2> DEFINE p == Len(a.job.prompt)  h == Len(a.history)
    <2>3. p \in Nat /\ h \in Nat
      BY <2>2
    <2>4. Generated(a) \in Seq(Token)
      <3> HIDE DEF p, h
      <3>1. \A k \in p + 1 .. h : k \in 1..h
        BY <2>3, SMT
      <3>2. \A k \in p + 1 .. h : a.history[k] \in Token
        BY <2>1, <3>1, ElementOfSeq DEF h
      <3>3. SubSeq(a.history, p + 1, h) \in Seq(Token)
        BY <2>2, <2>3, <3>2, SMT
      <3> QED
        BY <3>3 DEF Generated, p, h
    <2>5. Len(Generated(a)) \in Nat
      BY <2>4, LenProperties
    <2> QED
      BY <2>2, <2>5, SMT DEF Remaining
  <1>5. room \in Int /\ Lookahead \in Int
    BY <1>2, ConfigAssumption, SchedulerAssumption, SMT
  <1> HIDE DEF rest, v
  <1>6. most \in Int /\ most <= room
    BY <1>4, <1>5, MinFour
  <1>7. /\ extra = most /\ most > 0
        /\ PagesFor(row.context + most) - Len(row.table) <= AvailablePages(s.kv)
    BY DEF ExtraTokens, rest
  <1> HIDE DEF most, extra
  <1>8. extra \in Nat \ {0} /\ end \in Nat /\ end <= MaxSequenceLength /\ row.context <= end
    BY <1>2, <1>6, <1>7, ConfigAssumption, SMT
  <1>9. v.start + v.count + extra = end /\ v.start + v.count = row.context
        /\ Len(s.kv.seqs[row.request].pages) = PagesFor(row.context)
    BY <1>2, <1>3 DEF v
  <1>10. /\ Additional(s.kv, row.request, end) \in Nat
         /\ Len(s.kv.seqs[row.request].pages) + Additional(s.kv, row.request, end)
               = PagesFor(end)
    BY <1>1, <1>2, <1>8, <1>9, AdditionalPages
  <1>11. AvailablePages(s.kv) \in Nat
    <2>1. IsFiniteSet(Available(s.kv))
      <3>1. Available(s.kv) \subseteq Page
        BY <1>1 DEF KvInv, ManagerType, Available
      <3> QED
        BY <3>1, PageFinite, FS_Subset
    <2> QED
      BY <2>1, FS_CardinalityType DEF AvailablePages
  <1>12. Additional(s.kv, row.request, end) <= AvailablePages(s.kv)
    <2> DEFINE p == PagesFor(end)  q == PagesFor(row.context)
    <2>1. p \in Nat /\ q \in Nat
      BY <1>2, <1>8, PagesForBounds
    <2>2. p - q <= AvailablePages(s.kv)
      BY <1>3, <1>7
    <2> HIDE DEF p, q
    <2>3. q + Additional(s.kv, row.request, end) = p
      BY <1>9, <1>10 DEF p, q
    <2> QED
      BY <1>10, <1>11, <2>1, <2>2, <2>3, SMT
  <1>13. Consistent(s.kv, i)
    BY <1>1, <1>2 DEF KvInv, Reserved
  <1>14. CanExtend(s.kv, i, extra)
    BY <1>2, <1>8, <1>9, <1>12, <1>13 DEF CanExtend, v
  <1>15. NewPages(s.kv, row.request, end)
            \in Allocations(s.kv, Additional(s.kv, row.request, end))
    BY <1>1, <1>10, <1>12, AllocationsExist DEF NewPages
  <1> QED
    BY <1>2, <1>8, <1>9, <1>14, <1>15 DEF v, extra

\* Extending a row leaves the other rows alone.
LEMMA ExtendInv ==
    ASSUME NEW a, Admitted(a.s), Flying(a.s), a.budget \in Int,
           NEW i \in DOMAIN a.s.inFlight.rows,
           a.s.kv.resv[i].count = Len(a.s.inFlight.rows[i].tokens)
    PROVE  LET n == Extend(a, a.s.inFlight.rows[i])
           IN  /\ Admitted(n.s) /\ Flying(n.s) /\ n.budget \in Int
               /\ SameQueue(a.s, n.s) /\ Live(n.s.kv) = Live(a.s.kv)
               /\ \A j \in DOMAIN a.s.inFlight.rows \ {i} : n.s.kv.resv[j] = a.s.kv.resv[j]
  <1> DEFINE s == a.s
             rows == s.inFlight.rows
             row == rows[i]
             extra == ExtraTokens(s, row, a.budget)
             n == Extend(a, row)
  <1>1. n = Extended(a, row, extra)
    BY DEF Extend
  <1>2. CASE extra = 0
    <2>1. n = a
      BY <1>1, <1>2 DEF Extended
    <2>2. SameQueue(s, s)
      BY DEF SameQueue, Admitted
    <2> QED
      BY <2>1, <2>2
  <1>3. CASE extra # 0
    <2> DEFINE m == s.kv
               v == m.resv[i]
               new == NewPages(m, row.request, row.context + extra)
               K == ExtendAppend(m, i, extra, new)
    <2>1. /\ DOMAIN s = SchedulerField /\ KvInv(m) /\ Ordered(m) /\ ManagerType(m)
      BY DEF Admitted, KvInv
    <2>2. RowHolds(m, row, i) /\ row.reservation = i /\ i \in DOMAIN m.resv
      BY DEF Flying, RowHolds
    <2> HIDE DEF extra
    <2>3. /\ extra \in Nat \ {0} /\ CanExtend(m, i, extra)
          /\ new \in Allocations(m, Additional(m, v.request, v.start + v.count + extra))
      BY <1>3, <2>2, ExtraFits DEF extra
    <2> HIDE DEF new
    <2>4. KvInv(K)
      BY <2>1, <2>3, ExtendPreserves
    <2>5. Ordered(K)
      BY <2>1, <2>3, ExtendLru
    <2>6. /\ Live(K) = Live(m) /\ DOMAIN K.resv = DOMAIN m.resv
          /\ K.resv[i].count = v.count + extra
          /\ \A j \in DOMAIN m.resv \ {i} : K.resv[j] = m.resv[j]
      BY <2>1, <2>2, ExtendTables
    <2>7. /\ K.nextResv = m.nextResv /\ K.resv[i].request = v.request
          /\ K.resv[i].start = v.start
      BY <2>1, <2>2, ExtendFields
    <2>8. n.s = [s EXCEPT !.kv = K] /\ n.budget = a.budget - extra
      BY <1>1, <1>3, <2>2 DEF Extended, new
    <2> HIDE DEF n, K
    <2>9. SameQueue(s, n.s) /\ n.s.kv = K /\ n.s.active = s.active /\ n.s.order = s.order
      BY <2>1, <2>8 DEF SameQueue, SchedulerField
    <2>10. n.budget \in Int
      BY <2>3, <2>8, SMT
    <2>11. Admitted(n.s)
      BY <2>4, <2>5, <2>6, <2>9 DEF Admitted, SameQueue
    <2>12. v.count \in Nat /\ v.count <= v.count + extra
      BY <2>1, <2>2, <2>3, LiveReservation, SMT
    <2>13. ASSUME NEW j \in DOMAIN rows PROVE RowHolds(K, rows[j], j)
      <3>1. RowHolds(m, rows[j], j) /\ j \in DOMAIN m.resv
        BY DEF Flying
      <3>2. CASE j = i
        <4>1. Len(row.tokens) <= v.count /\ Len(row.tokens) \in Nat
          BY <2>1, <2>2, RowParts
        <4>2. Len(row.tokens) <= K.resv[i].count
          BY <2>3, <2>6, <2>12, <4>1, SMT
        <4> QED
          BY <2>2, <2>6, <2>7, <3>2, <4>2 DEF RowHolds
      <3>3. CASE j # i
        BY <2>6, <3>1, <3>3 DEF RowHolds
      <3> QED
        BY <3>2, <3>3
    <2>14. Flying(n.s)
      <3>1. n.s.inFlight = s.inFlight
        BY <2>9 DEF SameQueue
      <3>2. PhasesIn(n.s, RequestsOf(rows))
        BY <2>6, <2>9 DEF Flying, PhasesIn
      <3> QED
        BY <2>6, <2>7, <2>9, <2>13, <3>1, <3>2 DEF Flying
    <2>15. \A j \in DOMAIN rows \ {i} : n.s.kv.resv[j] = s.kv.resv[j]
      BY <2>6, <2>9 DEF Flying
    <2> QED
      BY <2>6, <2>9, <2>10, <2>11, <2>14, <2>15 DEF n
  <1> QED
    BY <1>2, <1>3

\* reserve_lookahead only grows the reservations of the rows.
LEMMA ReserveLookaheadInv ==
    ASSUME NEW s, Ready(s)
    PROVE  SchedInv(ReserveLookahead(s))
  <1>1. SchedInv(s) /\ Exact(s)
    BY DEF Ready
  <1>2. CASE Lookahead = 0 \/ s.inFlight.kind # "Decode"
    BY <1>1, <1>2 DEF ReserveLookahead
  <1>3. CASE ~(Lookahead = 0 \/ s.inFlight.kind # "Decode")
    <2> DEFINE rows == s.inFlight.rows
               base == [s |-> s, budget |-> s.batchTokens - Len(rows)]
               N == Len(rows)
    <2>1. ~Idle(s)
      BY <1>3 DEF Idle, NoBatch
    <2>2. Admitted(s) /\ Flying(s) /\ Waiting(s)
      BY <1>1, <2>1 DEF SchedInv
    <2>3. N \in Nat /\ DOMAIN rows = 1..N
      BY <2>2, FlyingRows
    <2>4. ReserveLookahead(s) = ExtendAll(base, rows).s
      BY <1>3, LookaheadExpands
    <2>5. PICK t : /\ t[0] = base
                   /\ \A k \in 1..N : t[k] = Extend(t[k - 1], rows[k])
                   /\ t[N] = ExtendAll(base, rows)
      <3> HIDE DEF base, rows
      <3> QED
        BY <2>3, ExtendFold
    <2> DEFINE Good(k) ==
                 /\ Admitted(t[k].s) /\ Flying(t[k].s) /\ t[k].budget \in Int
                 /\ SameQueue(s, t[k].s) /\ Live(t[k].s.kv) = Live(s.kv)
                 /\ \A j \in k + 1 .. N : t[k].s.kv.resv[j] = s.kv.resv[j]
               G == {k \in 0..N : Good(k)}
    <2>6. 0 \in G
      <3>1. base.budget \in Int
        BY <2>2, <2>3, SMT DEF Admitted
      <3>2. SameQueue(s, s)
        BY <2>2 DEF SameQueue, Admitted
      <3>3. Good(0)
        BY <2>2, <2>5, <3>1, <3>2
      <3>4. 0 \in 0..N
        BY <2>3, SMT
      <3> QED
        BY <3>3, <3>4
    <2>7. ASSUME NEW k \in 1..N, k - 1 \in G PROVE k \in G
      <3> DEFINE a == t[k - 1]  n == t[k]
      <3>1. Good(k - 1) /\ (k - 1) + 1 = k /\ k \in k..N /\ k \in 0..N
        BY <2>3, <2>7, SMT
      <3>2. /\ Admitted(a.s) /\ Flying(a.s) /\ a.budget \in Int
            /\ SameQueue(s, a.s) /\ Live(a.s.kv) = Live(s.kv)
            /\ \A j \in k..N : a.s.kv.resv[j] = s.kv.resv[j]
        BY <3>1
      <3>3. n = Extend(a, rows[k])
        BY <2>5
      <3> HIDE DEF a, n
      <3>4. a.s.inFlight = s.inFlight
        BY <3>2 DEF SameQueue
      <3>5. k \in DOMAIN a.s.inFlight.rows
        BY <2>3, <3>4
      <3>6. a.s.kv.resv[k].count = Len(a.s.inFlight.rows[k].tokens)
        <4>1. s.kv.resv[k].count = Len(rows[k].tokens)
          BY <1>1, <2>3 DEF Exact
        <4> QED
          BY <3>1, <3>2, <3>4, <4>1
      <3>7. n = Extend(a, a.s.inFlight.rows[k])
        BY <3>3, <3>4
      <3>8. /\ Admitted(n.s) /\ Flying(n.s) /\ n.budget \in Int
            /\ SameQueue(a.s, n.s) /\ Live(n.s.kv) = Live(a.s.kv)
            /\ \A j \in DOMAIN a.s.inFlight.rows \ {k} : n.s.kv.resv[j] = a.s.kv.resv[j]
        BY <3>2, <3>5, <3>6, <3>7, ExtendInv
      <3>9. SameQueue(s, n.s)
        BY <3>2, <3>8 DEF SameQueue
      <3>10. \A j \in k + 1 .. N : n.s.kv.resv[j] = s.kv.resv[j]
        <4>1. \A j \in k + 1 .. N : j \in k..N /\ j \in 1..N /\ j # k
          BY <2>3, SMT
        <4> QED
          BY <2>3, <3>2, <3>4, <3>8, <4>1
      <3>11. Good(k)
        BY <3>2, <3>8, <3>9, <3>10 DEF n
      <3> QED
        BY <3>1, <3>11
    <2>8. N \in G
      BY <2>3, <2>6, <2>7, UpTo
    <2> DEFINE n == ReserveLookahead(s)
    <2>9. Admitted(n) /\ Flying(n) /\ SameQueue(s, n) /\ Live(n.kv) = Live(s.kv)
      BY <2>4, <2>5, <2>8
    <2> HIDE DEF n
    <2>10. Waiting(n)
      BY <2>2, <2>9 DEF Waiting, SameQueue
    <2> QED
      BY <2>9, <2>10 DEF SchedInv, n
  <1> QED
    BY <1>2, <1>3

-----------------------------------------------------------------------------
(* The device                                                              *)

\* The texts are the sequences of tokens up to max_sequence_length.
LEMMA TextMember ==
    ASSUME NEW t
    PROVE  t \in Text <=> t \in Seq(Token) /\ Len(t) <= MaxSequenceLength
  <1>1. MaxSequenceLength \in Nat
    BY ConfigAssumption
  <1>2. Text = UNION {[1..m -> Token] : m \in 0..MaxSequenceLength}
    BY DEF Text, BoundedSeq, SeqOf
  <1>3. ASSUME t \in Text PROVE t \in Seq(Token) /\ Len(t) <= MaxSequenceLength
    <2>1. PICK m \in 0..MaxSequenceLength : t \in [1..m -> Token]
      BY <1>2, <1>3
    <2>2. m \in Nat /\ m <= MaxSequenceLength
      BY <1>1, SMT
    <2>3. t \in Seq(Token)
      BY <2>1, <2>2, SeqDef
    <2>4. DOMAIN t = 1..m
      BY <2>1
    <2>5. Len(t) = m
      BY <2>2, <2>3, <2>4, LenProperties, SMT
    <2> QED
      BY <2>2, <2>3, <2>5
  <1>4. ASSUME t \in Seq(Token), Len(t) <= MaxSequenceLength PROVE t \in Text
    <2>1. Len(t) \in Nat /\ t \in [1..Len(t) -> Token]
      BY <1>4, LenProperties, ElementOfSeq
    <2>2. Len(t) \in 0..MaxSequenceLength
      BY <1>1, <1>4, <2>1, SMT
    <2> QED
      BY <1>2, <2>1, <2>2
  <1> QED
    BY <1>3, <1>4

\* The texts a page holds before anything is written to it.
LEMMA EmptyText == <<>> \in Text /\ Garbage \in Text
  <1>1. <<>> \in Seq(Token) /\ Len(<<>>) = 0 /\ 0 <= MaxSequenceLength
    BY EmptySeq, ConfigAssumption, SMT
  <1> QED
    BY <1>1, TextMember DEF Garbage

\* Memory holds a text at every position that a table covers.
LEMMA HeldText ==
    ASSUME MemInv, NEW table \in Seq(Page), NEW i \in Nat \ {0}, PagesFor(i) <= Len(table)
    PROVE  Held(mem, table, i) \in Text
  <1> DEFINE q == (i - 1) \div BlockSize
             P == PagesFor(i)
  <1>1. BlockSize \in Nat \ {0} /\ i - 1 \in Nat
    BY ConfigAssumption, SMT
  <1>2. q \in Int /\ BlockSize * q <= i - 1 /\ i - 1 < BlockSize * q + BlockSize
    BY <1>1, DivBounds
  <1>3. P \in Nat /\ i <= BlockSize * P
    BY PagesForBounds
  <1> HIDE DEF q, P
  <1>4. q >= 0
    <2> SUFFICES ASSUME q < 0 PROVE FALSE
      BY <1>2, SMT
    <2>1. BlockSize * q + BlockSize <= BlockSize * 0
      BY <1>2, MulGap
    <2>2. BlockSize * q + BlockSize \in Int /\ BlockSize * 0 = 0
      BY <1>1, <1>2, SMT
    <2> QED
      BY <1>1, <1>2, <2>1, <2>2, SMT
  <1>5. q < P
    <2> SUFFICES ASSUME P <= q PROVE FALSE
      BY <1>2, <1>3, SMT
    <2>1. q \in Nat /\ BlockSize * q \in Int /\ BlockSize * P \in Int /\ BlockSize * q <= BlockSize * q
      BY <1>1, <1>2, <1>3, <1>4, SMT
    <2>2. BlockSize * P <= BlockSize * q
      BY <1>3, <2>1, BlocksWithin
    <2> QED
      BY <1>2, <1>3, <2>1, <2>2, SMT
  <1>6. q + 1 \in 1..Len(table)
    <2>1. Len(table) \in Nat /\ P <= Len(table)
      BY LenProperties DEF P
    <2> QED
      BY <1>2, <1>3, <1>4, <1>5, <2>1, SMT
  <1>7. PageOf(table, i) \in Page
    <2>1. table[q + 1] \in Page
      BY <1>6, ElementOfSeq
    <2> QED
      BY <2>1 DEF PageOf, q
  <1>8. SlotOf(i) \in Slot
    BY <1>1, SMT DEF SlotOf, Slot
  <1> QED
    BY <1>7, <1>8 DEF Held, MemInv

\* What attention sees of a row is a text as long as what is committed.
LEMMA ContextText ==
    ASSUME MemInv, NEW m, NEW row, NEW i, RowHolds(m, row, i)
    PROVE  /\ Context(row) \in Seq(Token)
           /\ Len(Context(row)) <= row.start
  <1>1. /\ row.table \in Seq(Page) /\ row.start \in Nat /\ row.context \in Nat
        /\ row.tokens \in Seq(Token)
    BY DEF RowHolds, RowState
  <1>2. row.context = row.start + Len(row.tokens) /\ Len(row.table) = PagesFor(row.context)
    BY DEF RowHolds
  <1>3. <<>> \in Seq(Token) /\ Len(<<>>) = 0
    BY EmptySeq
  <1>4. CASE row.start = 0
    BY <1>1, <1>3, <1>4 DEF Context
  <1>5. CASE row.start # 0
    <2> DEFINE text == Held(mem, row.table, row.start)
               ok == /\ Len(text) = row.start
                     /\ \A k \in 1..row.start : Held(mem, row.table, k) = SubSeq(text, 1, k)
    <2>1. row.start \in Nat \ {0} /\ row.start <= row.context
      <3>1. Len(row.tokens) \in Nat
        BY <1>1, LenProperties
      <3> QED
        BY <1>1, <1>2, <1>5, <3>1, SMT
    <2>2. PagesFor(row.start) <= Len(row.table)
      BY <1>1, <1>2, <2>1, PagesForMonotonic
    <2>3. text \in Text
      BY <1>1, <2>1, <2>2, HeldText
    <2>4. text \in Seq(Token)
      BY <2>3, TextMember
    <2>5. Context(row) = IF ok THEN text ELSE Garbage
      BY <1>5 DEF Context
    <2>6. CASE ok
      <3>1. Context(row) = text /\ Len(text) = row.start
        BY <2>5, <2>6
      <3> HIDE DEF text, ok
      <3> QED
        BY <1>1, <2>4, <3>1, SMT
    <2>7. CASE ~ok
      <3>1. Context(row) = <<>>
        BY <2>5, <2>7 DEF Garbage
      <3> QED
        BY <1>1, <1>3, <3>1, SMT
    <2> QED
      BY <2>6, <2>7
  <1> QED
    BY <1>4, <1>5

\* What the device attends to in row k of a batch is a text.
LEMMA TextAtText ==
    ASSUME MemInv, NEW m, NEW row, NEW i, RowHolds(m, row, i), NEW k \in 1..Len(row.tokens)
    PROVE  TextAt(row, k) \in Text
  <1>1. /\ row.tokens \in Seq(Token) /\ Len(row.tokens) \in Nat /\ row.start \in Nat
        /\ row.context = row.start + Len(row.tokens) /\ row.context <= MaxSequenceLength
    BY LenProperties DEF RowHolds, RowState
  <1> DEFINE c == Context(row)  u == SubSeq(row.tokens, 1, k)
  <1>2. c \in Seq(Token) /\ Len(c) <= row.start /\ Len(c) \in Nat
    BY ContextText, LenProperties
  <1>3. u \in Seq(Token) /\ Len(u) = k
    <2>1. k \in Nat /\ 1 <= k /\ k <= Len(row.tokens)
      BY <1>1, SMT
    <2>2. \A j \in 1..k : row.tokens[j] \in Token
      <3>1. \A j \in 1..k : j \in 1..Len(row.tokens)
        BY <1>1, <2>1, SMT
      <3> QED
        BY <1>1, <3>1, ElementOfSeq
    <2> QED
      BY <1>1, <2>1, <2>2, SMT
  <1>4. TextAt(row, k) = IF row.start > 0 /\ c = Garbage THEN Garbage ELSE c \o u
    BY DEF TextAt
  <1> HIDE DEF c, u
  <1>5. c \o u \in Seq(Token) /\ Len(c \o u) = Len(c) + k
    BY <1>2, <1>3, ConcatProperties
  <1>6. Len(c) + k <= MaxSequenceLength
    BY <1>1, <1>2, ConfigAssumption, SMT
  <1>7. c \o u \in Text
    BY <1>5, <1>6, TextMember
  <1> QED
    BY <1>4, <1>7, EmptyText

\* The model samples a token for every row.
LEMMA TokenAtToken ==
    ASSUME MemInv, NEW m, NEW row, NEW i, RowHolds(m, row, i), NEW k \in 1..Len(row.tokens),
           NEW a, a.draws \in Nat, a.draws <= MaxSequenceLength
    PROVE  TokenAt(row, k, a) \in Token
  <1>1. TextAt(row, k) \in BoundedSeq(Token, MaxSequenceLength)
    BY TextAtText DEF Text
  <1> DEFINE d == IF a.job.sampled THEN a.draws ELSE 0
  <1>2. d \in 0..MaxSequenceLength
    BY ConfigAssumption, SMT
  <1>3. TokenAt(row, k, a) = Predict(TextAt(row, k), d)
    BY DEF TokenAt
  <1> HIDE DEF d
  <1> QED
    BY <1>1, <1>2, <1>3, ModelAssumption

\* Whatever the device leaves behind are texts.
LEMMA WrittenTexts ==
    ASSUME MemInv, NEW s, Flying(s), NEW ok
    PROVE  Written(s, ok) \in [Page -> [Slot -> Text]]
  <1> DEFINE rows  == s.inFlight.rows
             end(i) == rows[i].start + s.kv.resv[rows[i].reservation].count
             table(i) == s.kv.seqs[rows[i].request].pages
             places == {x \in (DOMAIN rows) \X (1..MaxSequenceLength) :
                           rows[x[1]].start < x[2] /\ x[2] <= end(x[1])}
             at(p, t) == {x \in places : PageOf(table(x[1]), x[2]) = p /\ SlotOf(x[2]) = t}
             value(p, t) ==
               IF at(p, t) = {} THEN mem[p][t]
               ELSE LET x   == CHOOSE x \in at(p, t) : TRUE
                        row == rows[x[1]]
                    IN  IF ok /\ x[2] <= row.context
                        THEN TextAt(row, x[2] - row.start) ELSE Garbage
  <1>1. Written(s, ok) = [p \in Page |-> [t \in Slot |-> value(p, t)]]
    BY DEF Written
  <1>2. ASSUME NEW p \in Page, NEW t \in Slot PROVE value(p, t) \in Text
    <2>1. CASE at(p, t) = {}
      <3>1. mem[p][t] \in Text
        BY DEF MemInv
      <3> QED
        BY <2>1, <3>1
    <2>2. CASE at(p, t) # {}
      <3> DEFINE x == CHOOSE x \in at(p, t) : TRUE
                 row == rows[x[1]]
                 k == x[2] - row.start
      <3>1. x \in places
        <4>1. x \in at(p, t)
          BY <2>2
        <4> QED
          BY <4>1
      <3>2. value(p, t) = IF ok /\ x[2] <= row.context THEN TextAt(row, k) ELSE Garbage
        BY <2>2
      <3> HIDE DEF x, value, at
      <3>7. x \in (DOMAIN rows) \X (1..MaxSequenceLength) /\ rows[x[1]].start < x[2]
        BY <3>1
      <3> HIDE DEF places
      <3>3. x[1] \in DOMAIN rows /\ x[2] \in 1..MaxSequenceLength /\ row.start < x[2]
        BY <3>7
      <3>4. RowHolds(s.kv, row, x[1])
        BY <3>3 DEF Flying
      <3>5. CASE ok /\ x[2] <= row.context
        <4>1. /\ row.start \in Nat /\ Len(row.tokens) \in Nat
              /\ row.context = row.start + Len(row.tokens)
          BY <3>4, LenProperties DEF RowHolds, RowState
        <4> HIDE DEF row
        <4>2. k \in 1..Len(row.tokens)
          BY <3>3, <3>5, <4>1, ConfigAssumption, SMT
        <4>3. TextAt(row, k) \in Text
          BY <3>4, <4>2, TextAtText
        <4> QED
          BY <3>2, <3>5, <4>3
      <3>6. CASE ~(ok /\ x[2] <= row.context)
        BY <3>2, <3>6, EmptyText
      <3> QED
        BY <3>5, <3>6
    <2> QED
      BY <2>1, <2>2
  <1> HIDE DEF value
  <1> QED
    BY <1>1, <1>2

-----------------------------------------------------------------------------
(* A row that produced tokens; the end of a batch                          *)

\* One active request gets another state.
ActiveWith(s, r, b) == [s EXCEPT !.active = [s.active EXCEPT ![r] = b]]

\* A request that changes its own state leaves the others alone.
LEMMA ReplaceActive ==
    ASSUME NEW s, Admitted(s), NEW r \in Live(s.kv), NEW b \in ActiveState, Growing(b),
           NEW n, n = ActiveWith(s, r, b)
    PROVE  /\ Admitted(n) /\ SameQueue(s, n) /\ n.kv = s.kv
           /\ n.active[r] = b
           /\ \A q \in Live(s.kv) \ {r} : n.active[q] = s.active[q]
  <1> DEFINE A == [s.active EXCEPT ![r] = b]
  <1>1. /\ DOMAIN s = SchedulerField /\ KvInv(s.kv) /\ Ordered(s.kv)
        /\ s.active \in [Live(s.kv) -> ActiveState]
        /\ s.order \in Seq(Live(s.kv)) /\ IsInjective(s.order)
        /\ Live(s.kv) \subseteq Range(s.order)
        /\ \A q \in Live(s.kv) : Growing(s.active[q]) /\ q < s.nextRequest
        /\ Cardinality(Live(s.kv)) <= MaxActive
        /\ s.batchTokens \in Nat \ {0} /\ s.nextRequest \in Nat
    BY DEF Admitted
  <1>2. /\ A \in [Live(s.kv) -> ActiveState] /\ A[r] = b
        /\ \A q \in Live(s.kv) \ {r} : A[q] = s.active[q]
    BY <1>1
  <1>3. n = [s EXCEPT !.active = A]
    BY DEF ActiveWith
  <1> HIDE DEF A
  <1>4. SameQueue(s, n) /\ n.active = A /\ n.kv = s.kv /\ n.order = s.order
    <2>1. DOMAIN s = SchedulerField
      BY <1>1
    <2> QED
      BY <2>1, <1>3 DEF SameQueue, SchedulerField
  <1>5. \A q \in Live(s.kv) : Growing(A[q])
    <2> TAKE q \in Live(s.kv)
    <2>1. CASE q = r
      BY <1>2, <2>1
    <2>2. CASE q # r
      BY <1>1, <1>2, <2>2
    <2> QED
      BY <2>1, <2>2
  <1>6. Admitted(n)
    BY <1>1, <1>2, <1>4, <1>5 DEF Admitted, SameQueue
  <1> QED
    BY <1>2, <1>4, <1>6

\* Lengths after k tokens more, and when the last one is reached.
LEMMA GrowthBounds ==
    ASSUME NEW p \in Nat, NEW d \in Nat, NEW h \in Nat, NEW k \in Nat \ {0}, p + d <= h,
           NEW g \in Nat, g = h + k
    PROVE  /\ p <= g /\ p + d <= g /\ p + d + 1 <= g /\ g - p \in Nat
           /\ \A x \in Nat : ~(g - p >= x) => g < p + x
  BY SMT

\* A request that produced tokens finishes or awaits its next decode.
LEMMA AdvanceInv ==
    ASSUME NEW s, Admitted(s), NEW r \in Live(s.kv), s.kv.seqs[r].pending = NoPending,
           NEW produced \in Seq(Token), produced # <<>>
    PROVE  LET n == Advance(s, r, produced) IN Admitted(n) /\ Touches(s, n, r)
  <1> DEFINE a == s.active[r]
             done == [a EXCEPT !.history = a.history \o produced]
             ends == Last(produced) \in a.job.eos \/ Len(Generated(done)) >= a.job.maxNew
             out == [request |-> r, job |-> a.job, output |-> Generated(done)]
             d == Drop(s, r)
             b == [done EXCEPT !.phase = "AwaitingDecode", !.token = Last(produced),
                               !.draws = IF a.job.sampled THEN done.draws + 1 ELSE done.draws]
             n == Advance(s, r, produced)
  <1>1. CASE ends
    <2>1. Admitted(d) /\ Touches(s, d, r) /\ Live(d.kv) = Live(s.kv) \ {r}
      BY DropInv
    <2>2. n = [d EXCEPT !.finished = Append(d.finished, out)]
      BY <1>1 DEF Advance
    <2> HIDE DEF n, d, out
    <2>3. DOMAIN d = SchedulerField /\ d.batchTokens \in Nat \ {0} /\ d.nextRequest \in Nat
      BY <2>1 DEF Admitted
    <2> DEFINE y == Append(d.finished, out)
    <2>4. n = [d EXCEPT !.finished = y]
      BY <2>2
    <2> HIDE DEF y
    <2>5. /\ SameQueue(d, n) /\ n.kv = d.kv /\ n.active = d.active /\ n.order = d.order
      <3>1. DOMAIN d = SchedulerField
        BY <2>3
      <3> QED
        BY <3>1, <2>4 DEF SameQueue, SchedulerField
    <2>6. Admitted(n)
      <3>1. d.nextRequest <= n.nextRequest /\ n.nextRequest \in Nat
            /\ n.batchTokens \in Nat \ {0} /\ n.inFlight = d.inFlight
            /\ DOMAIN n = SchedulerField
        BY <2>3, <2>5 DEF SameQueue
      <3> QED
        BY <2>1, <2>5, <3>1, ManagerKept
    <2>7. Touches(s, n, r)
      BY <2>1, <2>5 DEF Touches, SameQueue
    <2> QED
      BY <2>6, <2>7 DEF n
  <1>2. CASE ~ends
    <2>1. /\ a \in ActiveState /\ a.job \in QueuedJob /\ a.history \in Seq(Token)
          /\ a.draws \in Nat /\ Growing(a) /\ Len(a.history) \in Nat
      BY ActiveParts
    <2>2. a.job.prompt \in Seq(Token) /\ Len(a.job.prompt) \in Nat /\ a.job.maxNew \in Nat
          /\ a.job.sampled \in BOOLEAN
      BY <2>1, JobParts
    <2> DEFINE h == a.history \o produced
               t == Last(produced)
               w == IF a.job.sampled THEN a.draws + 1 ELSE a.draws
    <2>3. h \in Seq(Token) /\ Len(h) = Len(a.history) + Len(produced)
          /\ Len(produced) \in Nat \ {0}
      BY <2>1, ConcatProperties, EmptySeq, LenProperties
    <2>4. t \in Token
      <3>1. Len(produced) \in 1..Len(produced)
        BY <2>3, SMT
      <3> QED
        BY <3>1, ElementOfSeq DEF Last
    <2>5. w \in Nat /\ w <= a.draws + 1
      BY <2>1, SMT
    <2>6. /\ done.history = h /\ done.job = a.job /\ done.draws = a.draws
          /\ done \in ActiveState
      BY <2>1, <2>3 DEF ActiveState
    <2>8. n = ActiveWith(s, r, b)
      BY <1>2 DEF Advance, ActiveWith
    <2>15. ~(Len(Generated(done)) >= a.job.maxNew)
      BY <1>2
    <2> DEFINE p == Len(a.job.prompt)
               x == a.job.maxNew
               lh == Len(h)
    <2>16. p \in Nat /\ a.draws \in Nat /\ lh \in Nat /\ x \in Nat
           /\ Len(a.history) \in Nat /\ Len(produced) \in Nat \ {0}
           /\ lh = Len(a.history) + Len(produced)
      BY <2>1, <2>2, <2>3, LenProperties
    <2>17. p + a.draws <= Len(a.history)
      BY <2>1 DEF Growing
    <2> HIDE DEF done, n
    <2>7. b = [job |-> a.job, history |-> h, phase |-> "AwaitingDecode",
               token |-> t, draws |-> w]
      <3>1. done = [job |-> a.job, history |-> h, phase |-> done.phase,
                    token |-> done.token, draws |-> a.draws]
        <4>1. done \in ActiveState
          BY <2>6
        <4>2. done = [job |-> done.job, history |-> done.history, phase |-> done.phase,
                      token |-> done.token, draws |-> done.draws]
          BY <4>1 DEF ActiveState
        <4> QED
          BY <2>6, <4>2
      <3>2. b = [done EXCEPT !.phase = "AwaitingDecode", !.token = t, !.draws = w]
        BY <2>6
      <3> HIDE DEF b, t, w, h
      <3>3. PICK y, z : done = [job |-> a.job, history |-> h, phase |-> y,
                                token |-> z, draws |-> a.draws]
        BY <3>1
      <3> HIDE DEF a
      <3> QED
        BY <3>2, <3>3
    <2>9. Generated(done) = SubSeq(h, p + 1, lh)
      BY <2>6 DEF Generated
    <2> HIDE DEF b, h, t, w, p, x, lh
    <2>18. /\ p <= lh /\ p + a.draws <= lh /\ p + a.draws + 1 <= lh
           /\ ~(lh - p >= x) => lh < p + x
      BY <2>16, <2>17, GrowthBounds
    <2>19. Len(SubSeq(h, p + 1, lh)) = lh - p
      <3>1. h \in Seq(Token) /\ lh = Len(h) /\ p \in Nat /\ p <= lh /\ lh \in Nat
        BY <2>3, <2>16, <2>18 DEF lh
      <3> QED
        BY <3>1, SMT
    <2>20. lh < p + x
      BY <2>9, <2>15, <2>18, <2>19 DEF x
    <2>21. p + w <= lh
      <3>1. w = a.draws + 1 \/ w = a.draws
        BY DEF w
      <3> QED
        BY <3>1, <2>16, <2>18, SMT
    <2>10. b \in ActiveState
      BY <2>1, <2>3, <2>4, <2>5, <2>7 DEF ActiveState
    <2>11. Growing(b)
      BY <2>4, <2>7, <2>20, <2>21 DEF Growing, p, x, lh
    <2>12. /\ Admitted(n) /\ SameQueue(s, n) /\ n.kv = s.kv
           /\ n.active[r] = b
           /\ \A q \in Live(s.kv) \ {r} : n.active[q] = s.active[q]
      BY <2>8, <2>10, <2>11, ReplaceActive
    <2>13. n.active[r].phase # "InFlight"
      BY <2>7, <2>12
    <2>14. Touches(s, n, r)
      BY <2>12, <2>13 DEF Touches
    <2> QED
      BY <2>12, <2>14 DEF n
  <1> QED
    BY <1>1, <1>2

\* Without reservations the counter may start again: land resets the ids.
LEMMA NextResvKept ==
    ASSUME NEW m, KvInv(m), Ordered(m), DOMAIN m.resv = {},
           NEW n, n = [m EXCEPT !.nextResv = 1]
    PROVE  /\ KvInv(n) /\ Ordered(n) /\ Live(n) = Live(m)
           /\ n.seqs = m.seqs /\ n.resv = m.resv /\ n.nextResv = 1
  <1>1. ManagerType(m) /\ DOMAIN m = Field
    BY DEF KvInv, ManagerType
  <1>2. /\ DOMAIN n = Field /\ SamePages(n, m) /\ n.seqs = m.seqs
        /\ n.resv = m.resv /\ n.nextResv = 1
    <2>1. DOMAIN m = Field
      BY <1>1
    <2> QED
      BY <2>1 DEF Field, SamePages
  <1>3. Live(n) = Live(m) /\ Cached(n) = Cached(m) /\ Available(n) = Available(m)
    BY <1>2 DEF Live, Cached, Available, SamePages
  <1>4. \A p : Owners(n, p) = Owners(m, p)
    BY <1>2, <1>3 DEF Owners
  <1>5. ManagerType(n)
    <2>1. PagesType(n)
      BY <1>1, <1>2, <1>3, TypeParts DEF PagesType, SamePages
    <2>2. TablesType(n)
      <3>1. TablesType(m) /\ 1 \in Nat \ {0}
        BY <1>1, TypeParts
      <3> QED
        BY <1>2, <1>3, <3>1 DEF TablesType
    <2> QED
      BY <1>2, <2>1, <2>2, TypeParts
  <1>6. Accounted(n)
    BY <1>2, <1>3, <1>4 DEF KvInv, Accounted, SamePages
  <1>7. Indexed(n)
    BY <1>2, <1>3 DEF KvInv, Indexed, SamePages
  <1>8. Reserved(n)
    BY <1>2, <1>3 DEF KvInv, Reserved
  <1>9. ExclusiveTails(n)
    BY <1>2, <1>3, <1>4 DEF KvInv, ExclusiveTails, SamePages
  <1>10. Ordered(n)
    BY <1>2, <1>3 DEF Ordered, SamePages
  <1> QED
    BY <1>2, <1>3, <1>5, <1>6, <1>7, <1>8, <1>9, <1>10 DEF KvInv

\* take_batch: nothing is left in flight.
LEMMA LandedInv ==
    ASSUME NEW s, Admitted(s), Waiting(s), DOMAIN s.kv.resv = {}, PhasesIn(s, {})
    PROVE  SchedInv(Landed(s))
  <1> DEFINE K == [s.kv EXCEPT !.nextResv = 1]
             n == Landed(s)
  <1>1. /\ DOMAIN s = SchedulerField /\ KvInv(s.kv) /\ Ordered(s.kv)
        /\ s.active \in [Live(s.kv) -> ActiveState]
        /\ s.order \in Seq(Live(s.kv)) /\ IsInjective(s.order)
        /\ Live(s.kv) \subseteq Range(s.order)
        /\ \A q \in Live(s.kv) : Growing(s.active[q]) /\ q < s.nextRequest
        /\ Cardinality(Live(s.kv)) <= MaxActive
        /\ s.batchTokens \in Nat \ {0} /\ s.nextRequest \in Nat
    BY DEF Admitted
  <1>2. /\ KvInv(K) /\ Ordered(K) /\ Live(K) = Live(s.kv)
        /\ K.seqs = s.kv.seqs /\ K.resv = s.kv.resv /\ K.nextResv = 1
    BY <1>1, NextResvKept
  <1>3. n = [s EXCEPT !.inFlight = NoBatch, !.kv = K]
    BY DEF Landed
  <1> HIDE DEF n, K
  <1>4. /\ DOMAIN n = SchedulerField /\ n.kv = K /\ n.inFlight = NoBatch
        /\ n.active = s.active /\ n.order = s.order /\ n.pending = s.pending
        /\ n.batchTokens = s.batchTokens /\ n.nextRequest = s.nextRequest
    <2>1. DOMAIN s = SchedulerField
      BY <1>1
    <2> QED
      BY <2>1, <1>3 DEF SchedulerField
  <1>5. Admitted(n)
    BY <1>1, <1>2, <1>4 DEF Admitted
  <1>6. Waiting(n)
    BY <1>2, <1>4 DEF Waiting
  <1>7. Idle(n)
    BY <1>2, <1>4 DEF Idle, PhasesIn
  <1> QED
    BY <1>5, <1>6, <1>7 DEF SchedInv, n

-----------------------------------------------------------------------------
(* complete_batch                                                          *)

\* The manager does something that keeps its sequences.
LEMMA KvReplaced ==
    ASSUME NEW s, Admitted(s), NEW K, KvInv(K), Ordered(K), Live(K) = Live(s.kv),
           NEW n, n = [s EXCEPT !.kv = K]
    PROVE  Admitted(n) /\ SameQueue(s, n) /\ n.kv = K /\ n.active = s.active
  <1>1. /\ DOMAIN s = SchedulerField
        /\ s.active \in [Live(s.kv) -> ActiveState]
        /\ s.order \in Seq(Live(s.kv)) /\ IsInjective(s.order)
        /\ Live(s.kv) \subseteq Range(s.order)
        /\ \A q \in Live(s.kv) : Growing(s.active[q]) /\ q < s.nextRequest
        /\ Cardinality(Live(s.kv)) <= MaxActive
        /\ s.batchTokens \in Nat \ {0} /\ s.nextRequest \in Nat
    BY DEF Admitted
  <1>2. SameQueue(s, n) /\ n.kv = K /\ n.active = s.active /\ n.order = s.order
    <2>1. DOMAIN s = SchedulerField
      BY <1>1
    <2> QED
      BY <2>1 DEF SameQueue, SchedulerField
  <1> QED
    BY <1>1, <1>2 DEF Admitted, SameQueue

\* Each row of a batch is of another request, which is active and in flight.
LEMMA RowsDistinct ==
    ASSUME NEW s, Admitted(s), Flying(s)
    PROVE  LET rows == s.inFlight.rows
           IN  /\ \A i \in DOMAIN rows :
                     /\ RowHolds(s.kv, rows[i], i) /\ rows[i].request \in Live(s.kv)
                     /\ i \in Nat \ {0} /\ rows[i].reservation = i
               /\ \A i, j \in DOMAIN rows : rows[i].request = rows[j].request => i = j
  <1> DEFINE rows == s.inFlight.rows
  <1>1. \A i \in DOMAIN rows : RowHolds(s.kv, rows[i], i)
    BY DEF Flying
  <1>2. KvInv(s.kv)
    BY DEF Admitted
  <1> HIDE DEF rows
  <1>3. \A i \in DOMAIN rows :
           /\ rows[i].request \in Live(s.kv) /\ i \in Nat \ {0} /\ rows[i].reservation = i
           /\ s.kv.seqs[rows[i].request].pending = i
    BY <1>1, <1>2, RowParts
  <1> QED
    BY <1>1, <1>3 DEF rows

\* n is what s becomes when all rows are settled but those of the requests R.
Settling(s, R, n) ==
    /\ Admitted(n) /\ SameQueue(s, n)
    /\ Live(n.kv) \subseteq Live(s.kv) /\ R \subseteq Live(n.kv)
    /\ \A r \in R : n.active[r] = s.active[r]
    /\ PhasesIn(n, R)

\* Settling one row leaves the rows after it in flight.
LEMMA SettlingStep ==
    ASSUME NEW s, NEW R, NEW m, Settling(s, R, m), NEW r \in R, NEW n, Admitted(n),
           Touches(m, n, r)
    PROVE  Settling(s, R \ {r}, n)
  <1>1. /\ SameQueue(s, m) /\ Live(m.kv) \subseteq Live(s.kv) /\ R \subseteq Live(m.kv)
        /\ \A q \in R : m.active[q] = s.active[q]
        /\ \A q \in Live(m.kv) : m.active[q].phase = "InFlight" <=> q \in R
    BY DEF Settling, PhasesIn
  <1>2. /\ SameQueue(m, n) /\ Live(n.kv) \subseteq Live(m.kv)
        /\ Live(m.kv) \ {r} \subseteq Live(n.kv)
        /\ \A q \in Live(m.kv) \ {r} : n.active[q] = m.active[q]
        /\ r \in Live(n.kv) => n.active[r].phase # "InFlight"
    BY DEF Touches
  <1>3. SameQueue(s, n)
    BY <1>1, <1>2 DEF SameQueue
  <1>4. \A q \in Live(n.kv) : n.active[q].phase = "InFlight" <=> q \in R \ {r}
    <2> TAKE q \in Live(n.kv)
    <2>1. CASE q = r
      BY <1>2, <2>1
    <2>2. CASE q # r
      BY <1>1, <1>2, <2>2
    <2> QED
      BY <2>1, <2>2
  <1> QED
    BY <1>1, <1>2, <1>3, <1>4 DEF Settling, PhasesIn

\* When no row is left the batch has landed.
LEMMA SettlingEnds ==
    ASSUME NEW s, Waiting(s), NEW n, Settling(s, {}, n), DOMAIN n.kv.resv = {}
    PROVE  SchedInv(Landed(n))
  <1>1. Waiting(n)
    BY DEF Waiting, Settling, SameQueue
  <1> QED
    BY <1>1, LandedInv DEF Settling

\* The requests of the rows after the k-th.
RestOf(rows, k) == {rows[j].request : j \in k + 1 .. Len(rows)}

\* Rows are of different requests, so each row is settled once.
LEMMA RestSteps ==
    ASSUME NEW rows, NEW N \in Nat, Len(rows) = N, DOMAIN rows = 1..N,
           \A i, j \in DOMAIN rows : rows[i].request = rows[j].request => i = j
    PROVE  /\ RestOf(rows, 0) = RequestsOf(rows) /\ RestOf(rows, N) = {}
           /\ \A k \in 1..N : /\ rows[k].request \in RestOf(rows, k - 1)
                              /\ RestOf(rows, k) = RestOf(rows, k - 1) \ {rows[k].request}
  <1>1. 0 + 1 .. N = 1..N /\ N + 1 .. N = {}
    BY SMT
  <1>2. RestOf(rows, 0) = RequestsOf(rows)
    BY <1>1 DEF RestOf, RequestsOf
  <1>3. RestOf(rows, N) = {}
    BY <1>1 DEF RestOf
  <1>4. ASSUME NEW k \in 1..N
        PROVE  /\ rows[k].request \in RestOf(rows, k - 1)
               /\ RestOf(rows, k) = RestOf(rows, k - 1) \ {rows[k].request}
    <2>1. (k - 1) + 1 .. N = (k + 1 .. N) \cup {k} /\ k \notin k + 1 .. N
          /\ \A j \in k + 1 .. N : j \in 1..N
      BY SMT
    <2>2. RestOf(rows, k - 1) = {rows[j].request : j \in (k + 1 .. N) \cup {k}}
      BY <2>1 DEF RestOf
    <2>3. \A j \in k + 1 .. N : rows[j].request # rows[k].request
      BY <2>1
    <2> QED
      BY <2>2, <2>3 DEF RestOf
  <1> QED
    BY <1>2, <1>3, <1>4

\* Every row's own tokens are committed and nothing stays reserved.
LEMMA CommittedInv ==
    ASSUME NEW s, Admitted(s), Flying(s)
    PROVE  LET n == CommittedBatch(s)
           IN  /\ Admitted(n) /\ SameQueue(s, n) /\ n.active = s.active
               /\ Live(n.kv) = Live(s.kv) /\ DOMAIN n.kv.resv = {}
  <1> DEFINE rows == s.inFlight.rows
             I == Reservations(s)
             consumed == [i \in I |->
                            Len((CHOOSE row \in Range(rows) : row.reservation = i).tokens)]
             K == CommitPrefixes(s.kv, I, consumed)
             n == CommittedBatch(s)
  <1>1. \A i \in DOMAIN rows : RowHolds(s.kv, rows[i], i) /\ rows[i].reservation = i
    BY RowsDistinct
  <1>2. I = DOMAIN rows /\ DOMAIN s.kv.resv = DOMAIN rows
    BY <1>1 DEF Reservations, Flying
  <1>3. KvInv(s.kv) /\ Ordered(s.kv)
    BY DEF Admitted
  <1>4. ASSUME NEW i \in I PROVE consumed[i] \in 1 .. s.kv.resv[i].count
    <2> DEFINE w == CHOOSE row \in Range(rows) : row.reservation = i
    <2>1. i \in DOMAIN rows
      BY <1>2
    <2>2. w \in Range(rows) /\ w.reservation = i
      BY <1>1, <2>1 DEF Range
    <2>3. consumed[i] = Len(w.tokens)
      OBVIOUS
    <2> HIDE DEF w, consumed
    <2>4. PICK j \in DOMAIN rows : w = rows[j]
      BY <2>2 DEF Range
    <2>5. RowHolds(s.kv, rows[i], i) /\ w = rows[i]
      BY <1>1, <2>1, <2>2, <2>4
    <2>6. /\ Len(rows[i].tokens) \in Nat \ {0} /\ s.kv.resv[i].count \in Nat \ {0}
          /\ Len(rows[i].tokens) <= s.kv.resv[i].count
      BY <1>3, <2>5, RowParts
    <2>7. Len(rows[i].tokens) \in 1 .. s.kv.resv[i].count
      BY <2>6, SMT
    <2> QED
      BY <2>3, <2>5, <2>7
  <1>5. I \in SUBSET DOMAIN s.kv.resv
    BY <1>2
  <1>6. n = [s EXCEPT !.kv = K]
    BY DEF CommittedBatch
  <1> HIDE DEF n, consumed, I, rows
  <1>7. KvInv(K) /\ Ordered(K) /\ Closed(s.kv, I, K)
    BY <1>3, <1>4, <1>5, CommitPrefixesPreserves, CommitPrefixTables, CommitPrefixesLru
  <1>8. Live(K) = Live(s.kv) /\ DOMAIN K.resv = {}
    BY <1>2, <1>7 DEF Closed
  <1> HIDE DEF K
  <1>9. Admitted(n) /\ SameQueue(s, n) /\ n.kv = K /\ n.active = s.active
    BY <1>6, <1>7, <1>8, KvReplaced
  <1> QED
    BY <1>8, <1>9 DEF n

\* register_prefix keeps the reservations and what is pending.
LEMMA PublishInv ==
    ASSUME NEW s, Admitted(s), NEW r \in Live(s.kv), NEW tokens \in Seq(Token)
    PROVE  LET n == Publish(s, r, tokens)
           IN  /\ Admitted(n) /\ SameQueue(s, n) /\ n.active = s.active
               /\ Live(n.kv) = Live(s.kv) /\ n.kv.resv = s.kv.resv
               /\ \A q \in Live(s.kv) : n.kv.seqs[q].pending = s.kv.seqs[q].pending
  <1> DEFINE K == RegisterPrefix(s.kv, r, tokens)
             n == Publish(s, r, tokens)
  <1>1. KvInv(s.kv) /\ Ordered(s.kv) /\ ManagerType(s.kv)
    BY DEF Admitted, KvInv
  <1>2. KvInv(K) /\ Ordered(K)
    BY <1>1, RegisterPreserves, RegisterLru
  <1>3. Live(K) = Live(s.kv) /\ K.resv = s.kv.resv
    BY <1>1, RegisterTables
  <1>4. \A q \in Live(s.kv) : K.seqs[q].pending = s.kv.seqs[q].pending
    BY <1>1, RegisterCounter
  <1>5. n = [s EXCEPT !.kv = K]
    BY DEF Publish
  <1> HIDE DEF n, K
  <1>6. Admitted(n) /\ SameQueue(s, n) /\ n.kv = K /\ n.active = s.active
    BY <1>2, <1>3, <1>5, KvReplaced
  <1> QED
    BY <1>3, <1>4, <1>6 DEF n

\* complete_batch publishes the blocks of every row.
LEMMA RegisteredInv ==
    ASSUME NEW s, Admitted(s), Flying(s)
    PROVE  LET n == FoldLeft(Register, CommittedBatch(s), s.inFlight.rows)
           IN  Settling(s, RequestsOf(s.inFlight.rows), n) /\ DOMAIN n.kv.resv = {}
  <1> DEFINE rows == s.inFlight.rows
             N == Len(rows)
             Good(n) == /\ Admitted(n) /\ SameQueue(s, n) /\ n.active = s.active
                        /\ Live(n.kv) = Live(s.kv) /\ DOMAIN n.kv.resv = {}
  <1>1. N \in Nat /\ DOMAIN rows = 1..N
    BY FlyingRows
  <1>2. \A i \in DOMAIN rows : rows[i].request \in Live(s.kv)
    BY RowsDistinct
  <1>3. PICK t : /\ t[0] = CommittedBatch(s)
                 /\ \A k \in 1..N : t[k] = Register(t[k - 1], rows[k])
                 /\ t[N] = FoldLeft(Register, CommittedBatch(s), rows)
    BY <1>1, RegisterFold
  <1> DEFINE G == {k \in 0..N : Good(t[k])}
  <1>4. 0 \in G
    <2>1. 0 \in 0..N
      BY <1>1, SMT
    <2> QED
      BY <1>3, <2>1, CommittedInv
  <1>5. ASSUME NEW k \in 1..N, k - 1 \in G PROVE k \in G
    <2> DEFINE m == t[k - 1]
               r == rows[k].request
               h == m.active[r].history
    <2>1. Good(m) /\ k \in 0..N
      BY <1>1, <1>5, SMT
    <2>2. r \in Live(m.kv)
      BY <1>1, <1>2, <2>1
    <2>3. h \in Seq(Token)
      BY <2>1, <2>2, ActiveParts
    <2>4. t[k] = Publish(m, r, h)
      BY <1>3 DEF Register, Publish
    <2> HIDE DEF m, r, h
    <2>5. /\ Admitted(t[k]) /\ SameQueue(m, t[k]) /\ t[k].active = m.active
          /\ Live(t[k].kv) = Live(m.kv) /\ t[k].kv.resv = m.kv.resv
      <3> DEFINE n == Publish(m, r, h)
      <3>1. Admitted(m)
        BY <2>1
      <3>2. /\ Admitted(n) /\ SameQueue(m, n) /\ n.active = m.active
            /\ Live(n.kv) = Live(m.kv) /\ n.kv.resv = m.kv.resv
        BY <3>1, <2>2, <2>3, PublishInv
      <3>3. t[k] = n
        BY <2>4
      <3> HIDE DEF n
      <3> QED
        BY <3>2, <3>3
    <2>6. SameQueue(s, t[k])
      BY <2>1, <2>5 DEF SameQueue
    <2>7. Good(t[k])
      BY <2>1, <2>5, <2>6
    <2> QED
      BY <2>1, <2>7
  <1>6. Good(t[N])
    <2> HIDE DEF G
    <2>1. N \in G
      BY <1>1, <1>4, <1>5, UpTo
    <2> QED
      BY <2>1 DEF G
  <1>7. RequestsOf(rows) \subseteq Live(s.kv)
    BY <1>2 DEF RequestsOf
  <1>8. PhasesIn(s, RequestsOf(rows))
    BY DEF Flying
  <1>9. Settling(s, RequestsOf(rows), t[N])
    BY <1>6, <1>7, <1>8 DEF Settling, PhasesIn
  <1> QED
    BY <1>3, <1>6, <1>9

\* A row that has not reached the end of its history prefills on; another one
\* produces a token.
LEMMA SettleInv ==
    ASSUME MemInv, NEW s, Admitted(s), Flying(s), NEW k \in DOMAIN s.inFlight.rows,
           NEW R, NEW m, Settling(s, R, m), DOMAIN m.kv.resv = {},
           s.inFlight.rows[k].request \in R
    PROVE  LET row == s.inFlight.rows[k]
               n == Settle(s, m, row)
           IN  Settling(s, R \ {row.request}, n) /\ DOMAIN n.kv.resv = {}
  <1> DEFINE row == s.inFlight.rows[k]
             r == row.request
             a == s.active[r]
             n == Settle(s, m, row)
  <1>1. /\ Admitted(m) /\ r \in Live(m.kv) /\ r \in Live(s.kv)
        /\ m.active[r] = a /\ KvInv(m.kv)
    BY DEF Settling, Admitted
  <1>2. m.kv.seqs[r].pending = NoPending
    BY <1>1, NothingPending
  <1>3. /\ a \in ActiveState /\ Growing(a) /\ a.draws \in Nat /\ a.draws <= MaxSequenceLength
    BY <1>1, ActiveParts
  <1>4. RowHolds(s.kv, row, k) /\ KvInv(s.kv)
    BY DEF Flying, Admitted
  <1>5. Len(row.tokens) \in Nat \ {0}
    BY <1>4, RowParts
  <1>6. Admitted(n) /\ Touches(m, n, r)
    <2>1. CASE row.context < Len(a.history)
      <3> DEFINE b == [a EXCEPT !.phase = "NeedsPrefill"]
      <3>1. n = ActiveWith(m, r, b)
        BY <1>1, <2>1 DEF Settle, ActiveWith
      <3>2. /\ b \in ActiveState /\ b.phase = "NeedsPrefill"
            /\ b.job = a.job /\ b.history = a.history /\ b.draws = a.draws
        BY <1>3 DEF ActiveState
      <3> HIDE DEF n, b, a, r, row
      <3>3. Growing(b)
        BY <1>3, <3>2 DEF Growing
      <3>4. /\ Admitted(n) /\ SameQueue(m, n) /\ n.kv = m.kv
            /\ n.active[r] = b
            /\ \A q \in Live(m.kv) \ {r} : n.active[q] = m.active[q]
        BY <1>1, <3>1, <3>2, <3>3, ReplaceActive
      <3>5. n.active[r].phase # "InFlight"
        BY <3>2, <3>4
      <3> QED
        BY <3>4, <3>5 DEF Touches
    <2>2. CASE ~(row.context < Len(a.history))
      <3> DEFINE x == TokenAt(row, Len(row.tokens), a)
                 produced == <<x>>
      <3>1. n = Advance(m, r, produced)
        BY <2>2 DEF Settle
      <3>2. x \in Token
        <4>1. Len(row.tokens) \in 1..Len(row.tokens)
          BY <1>5, SMT
        <4> HIDE DEF row, a
        <4> QED
          BY <1>3, <1>4, <4>1, TokenAtToken
      <3> HIDE DEF x
      <3>3. produced \in Seq(Token) /\ produced # <<>>
        BY <3>2
      <3> HIDE DEF n, produced, r
      <3> QED
        BY <1>1, <1>2, <3>1, <3>3, AdvanceInv
    <2> QED
      BY <2>1, <2>2
  <1> HIDE DEF n
  <1>7. Settling(s, R \ {r}, n)
    BY <1>6, SettlingStep
  <1>8. DOMAIN n.kv.resv = {}
    BY <1>6 DEF Touches
  <1> QED
    BY <1>7, <1>8 DEF n

\* complete_batch: every row commits its reservation, then continues or
\* leaves.
LEMMA CompleteInv ==
    ASSUME MemInv, NEW s, SchedInv(s), Flying(s)
    PROVE  SchedInv(CompleteBatch(s))
  <1> DEFINE rows == s.inFlight.rows
             N == Len(rows)
             base == FoldLeft(Register, CommittedBatch(s), rows)
             Good(k, n) == Settling(s, RestOf(rows, k), n) /\ DOMAIN n.kv.resv = {}
  <1>1. Admitted(s) /\ Waiting(s)
    BY DEF SchedInv
  <1>2. N \in Nat /\ DOMAIN rows = 1..N
    BY FlyingRows
  <1>3. \A i, j \in DOMAIN rows : rows[i].request = rows[j].request => i = j
    BY <1>1, RowsDistinct
  <1>4. Settling(s, RequestsOf(rows), base) /\ DOMAIN base.kv.resv = {}
    BY <1>1, RegisteredInv
  <1>5. CompleteBatch(s) = Landed(SettleAll(s, base, rows))
    BY CompleteExpands
  <1> HIDE DEF base
  <1>6. PICK t : /\ t[0] = base
                 /\ \A k \in 1..N : t[k] = Settle(s, t[k - 1], rows[k])
                 /\ t[N] = SettleAll(s, base, rows)
    <2> DEFINE e == SettleAll(s, base, rows)
    <2>3. e = SettleAll(s, base, rows)
      OBVIOUS
    <2> HIDE DEF rows, N, e
    <2>1. N \in Nat
      BY <1>2
    <2>2. DOMAIN rows = 1..N
      BY <1>2
    <2> QED
      BY <2>1, <2>2, <2>3, SettleFold
  <1>7. /\ RestOf(rows, 0) = RequestsOf(rows) /\ RestOf(rows, N) = {}
        /\ \A k \in 1..N : /\ rows[k].request \in RestOf(rows, k - 1)
                           /\ RestOf(rows, k) = RestOf(rows, k - 1) \ {rows[k].request}
    BY <1>2, <1>3, RestSteps
  <1> DEFINE G == {k \in 0..N : Good(k, t[k])}
  <1>8. 0 \in G
    <2>1. 0 \in 0..N
      BY <1>2, SMT
    <2> QED
      BY <1>4, <1>6, <1>7, <2>1
  <1>9. ASSUME NEW k \in 1..N, k - 1 \in G PROVE k \in G
    <2> DEFINE m == t[k - 1]
               R == RestOf(rows, k - 1)
               n == Settle(s, m, rows[k])
    <2>1. Settling(s, R, m) /\ DOMAIN m.kv.resv = {} /\ k \in 0..N /\ k \in DOMAIN rows
      BY <1>2, <1>9, SMT
    <2>2. t[k] = n
      BY <1>6
    <2>3. rows[k].request \in R /\ RestOf(rows, k) = R \ {rows[k].request}
      BY <1>7
    <2> HIDE DEF m, R
    <2>4. Settling(s, R \ {rows[k].request}, n) /\ DOMAIN n.kv.resv = {}
      BY <1>1, <2>1, <2>3, SettleInv
    <2>5. Good(k, t[k])
      BY <2>2, <2>3, <2>4
    <2> QED
      BY <2>1, <2>5
  <1>10. Good(N, t[N])
    <2> HIDE DEF G
    <2>1. N \in G
      BY <1>2, <1>8, <1>9, UpTo
    <2> QED
      BY <2>1 DEF G
  <1>11. Settling(s, {}, t[N]) /\ DOMAIN t[N].kv.resv = {}
    BY <1>7, <1>10
  <1>12. SchedInv(Landed(t[N]))
    BY <1>1, <1>11, SettlingEnds
  <1> QED
    BY <1>5, <1>6, <1>12

-----------------------------------------------------------------------------
(* complete_verify_batch and fail_batch                                    *)

\* A verify row yields at least one token, and no more than it fed.
LEMMA ProducedInv ==
    ASSUME MemInv, NEW m, NEW row, NEW i, RowHolds(m, row, i),
           NEW a, a.draws \in Nat, a.draws <= MaxSequenceLength
    PROVE  /\ Produced(a, row) \in Seq(Token) /\ Produced(a, row) # <<>>
           /\ Len(Produced(a, row)) \in 1..Len(row.tokens)
  <1> DEFINE guess(k) == TokenAt(row, k, a)
             stop(k) == \/ k = Remaining(a)
                        \/ guess(k) \in a.job.eos
                        \/ k + 1 > Len(row.tokens)
                        \/ row.tokens[k + 1] # guess(k)
             T == {k \in DOMAIN row.tokens : stop(k)}
             L == Len(row.tokens)
             x == Min(T)
             produced == [k \in 1..x |-> guess(k)]
  <1>1. row.tokens \in Seq(Token) /\ L \in Nat /\ 1 <= L /\ DOMAIN row.tokens = 1..L
    BY LenProperties DEF RowHolds, RowState
  <1>2. L \in T
    <2>1. L \in 1..L /\ L + 1 > L
      BY <1>1, SMT
    <2> QED
      BY <1>1, <2>1
  <1>3. T \subseteq 1..L
    BY <1>1
  <1>4. Produced(a, row) = produced
    BY DEF Produced
  <1>5. ASSUME NEW k \in 1..L PROVE guess(k) \in Token
    BY TokenAtToken
  <1> HIDE DEF T, L, guess
  <1>6. x \in T
    <2>1. T \in SUBSET Nat
      BY <1>3, SMT
    <2>2. \E z \in T : \A y \in T : z <= y
      BY <1>2, <2>1, LeastOf
    <2> QED
      BY <2>2 DEF Min
  <1> HIDE DEF x
  <1>7. x \in 1..L
    BY <1>3, <1>6
  <1>8. x \in Nat /\ \A k \in 1..x : k \in 1..L
    BY <1>1, <1>7, SMT
  <1>9. produced \in [1..x -> Token]
    BY <1>5, <1>8
  <1> HIDE DEF produced
  <1>10. produced \in Seq(Token) /\ Len(produced) = x
    BY <1>8, <1>9, SeqDef, LenProperties
  <1>11. produced # <<>>
    BY <1>1, <1>7, <1>10, EmptySeq, SMT
  <1> QED
    BY <1>4, <1>7, <1>10, <1>11 DEF L

\* Of the requests R that m has left, n settled row k and its reservation.
RowSettled(s, R, m, k, n) ==
    /\ Settling(s, R \ {s.inFlight.rows[k].request}, n)
    /\ DOMAIN n.kv.resv = DOMAIN m.kv.resv \ {k}
    /\ \A j \in DOMAIN n.kv.resv : n.kv.resv[j] = m.kv.resv[j]

\* One row: commit what was accepted, publish it, advance the request.
LEMMA VerifyInv ==
    ASSUME MemInv, NEW s, Admitted(s), Flying(s), NEW k \in DOMAIN s.inFlight.rows,
           NEW R, NEW m, Settling(s, R, m), s.inFlight.rows[k].request \in R,
           k \in DOMAIN m.kv.resv, m.kv.resv[k] = s.kv.resv[k]
    PROVE  RowSettled(s, R, m, k, Verify(m, s.inFlight.rows[k]))
  <1> DEFINE row == s.inFlight.rows[k]
             r == row.request
             a == m.active[r]
             produced == Produced(a, row)
             consumed == [i \in {k} |-> Len(produced)]
             K == CommitPrefixes(m.kv, {k}, consumed)
             kept == KeepAccepted(m, row)
             p == Publish(kept, r, a.history \o produced)
             n == Verify(m, row)
  <1>1. Admitted(m) /\ r \in Live(m.kv) /\ KvInv(m.kv) /\ Ordered(m.kv)
    BY DEF Settling, Admitted
  <1>2. RowHolds(m.kv, row, k)
    <2>1. RowHolds(s.kv, row, k)
      BY DEF Flying
    <2> HIDE DEF row
    <2> QED
      BY <2>1 DEF RowHolds
  <1>3. a.history \in Seq(Token) /\ a.draws \in Nat /\ a.draws <= MaxSequenceLength
    BY <1>1, ActiveParts
  <1> HIDE DEF row
  <1>4. /\ row.reservation = k /\ Len(row.tokens) \in Nat \ {0} /\ m.kv.resv[k].request = r
        /\ m.kv.resv[k].count \in Nat \ {0} /\ Len(row.tokens) <= m.kv.resv[k].count
    BY <1>1, <1>2, RowParts
  <1> HIDE DEF a
  <1>5. produced \in Seq(Token) /\ produced # <<>> /\ Len(produced) \in 1..Len(row.tokens)
    BY <1>2, <1>3, ProducedInv
  <1>6. kept = [m EXCEPT !.kv = K]
    BY <1>4 DEF KeepAccepted, a
  <1>7. n = Advance(p, r, produced)
    BY DEF Verify, a
  <1> HIDE DEF produced, n, p, kept
  <1>8. \A i \in {k} : consumed[i] \in 1 .. m.kv.resv[i].count
    BY <1>4, <1>5, SMT
  <1>9. {k} \in SUBSET DOMAIN m.kv.resv
    OBVIOUS
  <1> DEFINE to == [i \in {k} |-> m.kv.resv[i].start + consumed[i]]
  <1> HIDE DEF consumed
  <1>10. KvInv(K) /\ SettledTo(m.kv, {k}, to, K)
    BY <1>1, <1>8, <1>9, CommitPrefixesPreserves
  <1>11. Ordered(K) /\ Closed(m.kv, {k}, K)
    BY <1>1, <1>8, <1>9, CommitPrefixTables, CommitPrefixesLru
  <1> HIDE DEF K, to
  <1>12. K.seqs[r].pending = NoPending
    <2>1. r \in Owned(m.kv, {k})
      BY <1>4 DEF Owned
    <2> QED
      BY <1>10, <2>1 DEF SettledTo
  <1>13. /\ Live(K) = Live(m.kv) /\ DOMAIN K.resv = DOMAIN m.kv.resv \ {k}
         /\ \A j \in DOMAIN K.resv : K.resv[j] = m.kv.resv[j]
    BY <1>11 DEF Closed
  <1>14. Admitted(kept) /\ SameQueue(m, kept) /\ kept.kv = K /\ kept.active = m.active
    BY <1>1, <1>6, <1>10, <1>11, <1>13, KvReplaced
  <1>15. /\ Admitted(p) /\ SameQueue(kept, p) /\ p.active = kept.active
         /\ Live(p.kv) = Live(kept.kv) /\ p.kv.resv = kept.kv.resv
         /\ \A q \in Live(kept.kv) : p.kv.seqs[q].pending = kept.kv.seqs[q].pending
    <2>1. r \in Live(kept.kv)
      BY <1>1, <1>13, <1>14
    <2>2. a.history \o produced \in Seq(Token)
      BY <1>3, <1>5, ConcatProperties
    <2> QED
      BY <1>14, <2>1, <2>2, PublishInv DEF p
  <1>16. /\ p.kv.seqs[r].pending = NoPending /\ p.kv.resv = K.resv
         /\ Live(p.kv) = Live(m.kv) /\ p.active = m.active /\ r \in Live(p.kv)
    BY <1>1, <1>12, <1>13, <1>14, <1>15
  <1>17. Settling(s, R, p)
    <2>1. SameQueue(s, p)
      BY <1>14, <1>15 DEF SameQueue, Settling
    <2> QED
      BY <1>15, <1>16, <2>1 DEF Settling, PhasesIn
  <1>18. Admitted(n) /\ Touches(p, n, r)
    BY <1>5, <1>7, <1>15, <1>16, AdvanceInv
  <1>19. Settling(s, R \ {r}, n)
    <2>1. r \in R
      BY DEF row
    <2> QED
      BY <1>17, <1>18, <2>1, SettlingStep
  <1>20. n.kv.resv = K.resv
    BY <1>16, <1>18 DEF Touches
  <1> QED
    BY <1>13, <1>19, <1>20 DEF n, row, RowSettled

\* complete_verify_batch: every row commits what was accepted, then continues
\* or leaves.
LEMMA CompleteVerifyInv ==
    ASSUME MemInv, NEW s, SchedInv(s), Flying(s)
    PROVE  SchedInv(CompleteVerifyBatch(s))
  <1> DEFINE rows == s.inFlight.rows
             N == Len(rows)
             Good(k, n) == /\ Settling(s, RestOf(rows, k), n)
                           /\ DOMAIN n.kv.resv = k + 1 .. N
                           /\ \A j \in k + 1 .. N : n.kv.resv[j] = s.kv.resv[j]
  <1>1. Admitted(s) /\ Waiting(s)
    BY DEF SchedInv
  <1>2. N \in Nat /\ DOMAIN rows = 1..N
    BY FlyingRows
  <1>3. \A i, j \in DOMAIN rows : rows[i].request = rows[j].request => i = j
    BY <1>1, RowsDistinct
  <1>4. CompleteVerifyBatch(s) = Landed(FoldLeft(Verify, s, rows))
    BY VerifyExpands
  <1>5. PICK t : /\ t[0] = s
                 /\ \A k \in 1..N : t[k] = Verify(t[k - 1], rows[k])
                 /\ t[N] = FoldLeft(Verify, s, rows)
    BY <1>2, VerifyFold
  <1>6. /\ RestOf(rows, 0) = RequestsOf(rows) /\ RestOf(rows, N) = {}
        /\ \A k \in 1..N : /\ rows[k].request \in RestOf(rows, k - 1)
                           /\ RestOf(rows, k) = RestOf(rows, k - 1) \ {rows[k].request}
    BY <1>2, <1>3, RestSteps
  <1> DEFINE G == {k \in 0..N : Good(k, t[k])}
  <1>7. 0 \in G
    <2>1. 0 \in 0..N /\ 0 + 1 .. N = 1..N
      BY <1>2, SMT
    <2>2. DOMAIN s.kv.resv = DOMAIN rows /\ PhasesIn(s, RequestsOf(rows))
      BY DEF Flying
    <2>3. RequestsOf(rows) \subseteq Live(s.kv)
      BY <1>1, RowsDistinct DEF RequestsOf
    <2>4. SameQueue(s, s)
      BY <1>1 DEF SameQueue, Admitted
    <2>5. Settling(s, RequestsOf(rows), s)
      BY <1>1, <2>2, <2>3, <2>4 DEF Settling
    <2>6. Good(0, s)
      BY <1>2, <1>6, <2>1, <2>2, <2>5
    <2> QED
      BY <1>5, <2>1, <2>6
  <1>8. ASSUME NEW k \in 1..N, k - 1 \in G PROVE k \in G
    <2> DEFINE m == t[k - 1]
               R == RestOf(rows, k - 1)
               n == Verify(m, rows[k])
    <2>1. /\ (k - 1) + 1 .. N = k..N /\ k \in k..N /\ k \in 0..N /\ k \in 1..N
          /\ k..N \ {k} = k + 1 .. N /\ \A j \in k + 1 .. N : j \in k..N
      BY <1>2, SMT
    <2>2. /\ Settling(s, R, m) /\ DOMAIN m.kv.resv = k..N
          /\ \A j \in k..N : m.kv.resv[j] = s.kv.resv[j]
      BY <1>8, <2>1
    <2>3. t[k] = n
      BY <1>5
    <2>4. rows[k].request \in R /\ RestOf(rows, k) = R \ {rows[k].request}
      BY <1>6
    <2>5. k \in DOMAIN rows /\ k \in DOMAIN m.kv.resv /\ m.kv.resv[k] = s.kv.resv[k]
      BY <1>2, <2>1, <2>2
    <2> HIDE DEF m, R
    <2>6. /\ Settling(s, R \ {rows[k].request}, n)
          /\ DOMAIN n.kv.resv = DOMAIN m.kv.resv \ {k}
          /\ \A j \in DOMAIN n.kv.resv : n.kv.resv[j] = m.kv.resv[j]
      <3>1. Admitted(s) /\ Settling(s, R, m)
        BY <1>1, <2>2
      <3>2. /\ k \in DOMAIN s.inFlight.rows /\ s.inFlight.rows[k].request \in R
            /\ k \in DOMAIN m.kv.resv /\ m.kv.resv[k] = s.kv.resv[k]
        BY <2>4, <2>5
      <3>3. RowSettled(s, R, m, k, Verify(m, s.inFlight.rows[k]))
        BY <3>1, <3>2, VerifyInv
      <3>4. RowSettled(s, R, m, k, n)
        BY <3>3
      <3> HIDE DEF n
      <3> QED
        BY <3>4 DEF RowSettled
    <2> HIDE DEF n
    <2>7. Good(k, n)
      BY <2>1, <2>2, <2>4, <2>6
    <2> QED
      BY <2>1, <2>3, <2>7
  <1>9. Good(N, t[N])
    <2> HIDE DEF G
    <2>1. N \in G
      BY <1>2, <1>7, <1>8, UpTo
    <2> QED
      BY <2>1 DEF G
  <1>10. N + 1 .. N = {}
    BY <1>2, SMT
  <1>11. Settling(s, {}, t[N]) /\ DOMAIN t[N].kv.resv = {}
    BY <1>6, <1>9, <1>10
  <1>12. SchedInv(Landed(t[N]))
    BY <1>1, <1>11, SettlingEnds
  <1> QED
    BY <1>4, <1>5, <1>12

\* fail_batch: the reservations are cancelled and every row's phase restored.
LEMMA FailInv ==
    ASSUME NEW s, SchedInv(s), Flying(s)
    PROVE  SchedInv(FailBatch(s))
  <1> DEFINE rows == s.inFlight.rows
             I == Reservations(s)
             K == CancelAppends(s.kv, I)
             row(r) == CHOOSE x \in Range(rows) : x.request = r
             b(r) == IF r \notin RequestsOf(rows) THEN s.active[r]
                     ELSE IF s.inFlight.kind = "Prefill"
                     THEN [s.active[r] EXCEPT !.phase = "NeedsPrefill"]
                     ELSE [s.active[r] EXCEPT !.phase = "AwaitingDecode",
                                              !.token = row(r).tokens[1]]
             A == [r \in DOMAIN s.active |-> b(r)]
             n == [s EXCEPT !.kv = K, !.active = A]
  <1>1. Admitted(s) /\ Waiting(s)
    BY DEF SchedInv
  <1>2. /\ DOMAIN s = SchedulerField /\ KvInv(s.kv) /\ Ordered(s.kv)
        /\ s.active \in [Live(s.kv) -> ActiveState]
        /\ s.order \in Seq(Live(s.kv)) /\ IsInjective(s.order)
        /\ Live(s.kv) \subseteq Range(s.order)
        /\ \A q \in Live(s.kv) : Growing(s.active[q]) /\ q < s.nextRequest
        /\ Cardinality(Live(s.kv)) <= MaxActive
        /\ s.batchTokens \in Nat \ {0} /\ s.nextRequest \in Nat
    BY <1>1 DEF Admitted
  <1>3. FailBatch(s) = Landed(n)
    BY DEF FailBatch
  <1>4. \A i \in DOMAIN rows : RowHolds(s.kv, rows[i], i) /\ rows[i].reservation = i
    BY <1>1, RowsDistinct
  <1>5. I = DOMAIN s.kv.resv
    BY <1>4 DEF Reservations, Flying
  <1>6. PhasesIn(s, RequestsOf(rows))
    BY DEF Flying
  <1>7. ASSUME NEW r \in RequestsOf(rows) PROVE row(r).tokens[1] \in Token
    <2> DEFINE w == row(r)
    <2>1. \E x \in Range(rows) : x.request = r
      BY <1>7 DEF RequestsOf, Range
    <2>2. w \in Range(rows)
      BY <2>1
    <2> HIDE DEF w
    <2>3. PICK i \in DOMAIN rows : w = rows[i]
      BY <2>2 DEF Range
    <2>4. w.tokens \in Seq(Token) /\ Len(w.tokens) \in Nat \ {0}
      <3>1. RowHolds(s.kv, w, i)
        BY <1>4, <2>3
      <3> QED
        BY <1>2, <3>1, RowParts
    <2>5. 1 \in 1..Len(w.tokens)
      BY <2>4, SMT
    <2>6. w.tokens[1] \in Token
      BY <2>4, <2>5, ElementOfSeq
    <2> QED
      BY <2>6 DEF w
  <1> HIDE DEF row, rows, I
  <1>8. KvInv(K) /\ Ordered(K) /\ Closed(s.kv, I, K)
    <2>1. I \in SUBSET DOMAIN s.kv.resv
      BY <1>5
    <2> QED
      BY <1>2, <2>1, CancelPreserves, CancelTables, CancelLru
  <1>9. Live(K) = Live(s.kv) /\ DOMAIN K.resv = {}
    BY <1>5, <1>8 DEF Closed
  <1> HIDE DEF K
  <1>10. ASSUME NEW r \in Live(s.kv)
         PROVE  b(r) \in ActiveState /\ Growing(b(r)) /\ b(r).phase # "InFlight"
    <2> DEFINE a == s.active[r]
    <2>1. a \in ActiveState /\ Growing(a) /\ (a.phase = "InFlight" <=> r \in RequestsOf(rows))
      BY <1>2, <1>6 DEF PhasesIn
    <2>2. CASE r \notin RequestsOf(rows)
      BY <2>1, <2>2
    <2>3. CASE r \in RequestsOf(rows) /\ s.inFlight.kind = "Prefill"
      <3> DEFINE c == [a EXCEPT !.phase = "NeedsPrefill"]
      <3>1. /\ c \in ActiveState /\ c.phase = "NeedsPrefill"
            /\ c.job = a.job /\ c.history = a.history /\ c.draws = a.draws
        BY <2>1 DEF ActiveState
      <3>2. b(r) = c
        BY <2>3
      <3> HIDE DEF c, a, b
      <3>3. Growing(c)
        BY <2>1, <3>1 DEF Growing
      <3> QED
        BY <3>1, <3>2, <3>3
    <2>4. CASE r \in RequestsOf(rows) /\ s.inFlight.kind # "Prefill"
      <3> DEFINE x == row(r).tokens[1]
                 c == [a EXCEPT !.phase = "AwaitingDecode", !.token = x]
      <3>1. x \in Token
        BY <1>7, <2>4
      <3>2. b(r) = c
        BY <2>4
      <3> HIDE DEF x, b
      <3>3. /\ c \in ActiveState /\ c.phase = "AwaitingDecode" /\ c.token = x
            /\ c.job = a.job /\ c.history = a.history /\ c.draws = a.draws
        BY <2>1, <3>1 DEF ActiveState
      <3> HIDE DEF c, a
      <3>4. Growing(c)
        BY <2>1, <3>1, <3>3 DEF Growing
      <3> QED
        BY <3>2, <3>3, <3>4
    <2> QED
      BY <2>2, <2>3, <2>4
  <1>11. DOMAIN s.active = Live(s.kv)
    BY <1>2
  <1> HIDE DEF b
  <1>12. /\ A \in [Live(s.kv) -> ActiveState]
         /\ \A q \in Live(s.kv) : Growing(A[q]) /\ A[q].phase # "InFlight"
    BY <1>10, <1>11
  <1> HIDE DEF A
  <1>13. SameQueue(s, n) /\ n.kv = K /\ n.active = A /\ n.order = s.order
    <2>1. DOMAIN s = SchedulerField
      BY <1>2
    <2> QED
      BY <2>1 DEF SameQueue, SchedulerField
  <1> HIDE DEF n
  <1>14. Admitted(n)
    BY <1>2, <1>8, <1>9, <1>12, <1>13 DEF Admitted, SameQueue
  <1>15. Settling(s, {}, n)
    BY <1>9, <1>12, <1>13, <1>14 DEF Settling, PhasesIn
  <1>16. SchedInv(Landed(n))
    BY <1>1, <1>9, <1>13, <1>15, SettlingEnds
  <1> QED
    BY <1>3, <1>16

-----------------------------------------------------------------------------
(* The theorems                                                            *)

\* A new scheduler has nothing.
LEMMA InitInv == Init => IInv
  <1> SUFFICES ASSUME Init PROVE IInv
    OBVIOUS
  <1> DEFINE s == NewScheduler
             m == NewManager
             K == SetPrefixCaching(m, Caching)
  <1>1. sched = s /\ mem = NewMemory
    BY DEF Init
  <1>2. Caching \in BOOLEAN /\ BatchTokens \in Nat \ {0} /\ MaxActive \in Nat
    BY SchedulerAssumption
  <1>3. KvInv(m) /\ ManagerType(m) /\ Ordered(m)
    <2>1. Cached(m) = {}
      BY DEF NewManager, Cached
    <2> QED
      BY <2>1, NewManagerInv DEF KvInv, Ordered
  <1>4. Live(m) = {} /\ DOMAIN m.resv = {} /\ m.nextResv = 1
    BY DEF NewManager, Live
  <1>5. KvInv(K) /\ Ordered(K) /\ Live(K) = Live(m) /\ K.resv = m.resv
    BY <1>2, <1>3, SetCachingPreserves, SetCachingTables, SetCachingLru
  <1>6. K.nextResv = 1
    <2>1. DOMAIN m = Field /\ m.nextResv = 1
      BY <1>3, <1>4 DEF ManagerType
    <2> HIDE DEF m
    <2>2. CASE Caching
      BY <2>1, <2>2 DEF SetPrefixCaching, Field
    <2>3. CASE ~Caching
      <3> DEFINE d == DropCachedBlocks(m, Cached(m))
      <3>1. DOMAIN d = Field /\ d.nextResv = 1
        BY <1>3, <2>1, DropFields
      <3>2. K = [d EXCEPT !.caching = FALSE, !.free = m.free \cup Cached(m),
                          !.evictable = [p \in {} |-> 0]]
        BY <2>3 DEF SetPrefixCaching
      <3> HIDE DEF d, K
      <3> QED
        BY <3>1, <3>2 DEF Field
    <2> QED
      BY <2>2, <2>3
  <1>7. /\ DOMAIN s = SchedulerField /\ s.kv = K /\ s.pending = <<>>
        /\ s.active = [r \in {} |-> 0] /\ s.order = <<>> /\ s.inFlight = NoBatch
        /\ s.batchTokens = BatchTokens /\ s.nextRequest = 1
    BY DEF NewScheduler, SchedulerField
  <1> HIDE DEF s, K, m
  <1>8. Live(s.kv) = {} /\ DOMAIN s.kv.resv = {} /\ s.kv.nextResv = 1
    BY <1>4, <1>5, <1>6, <1>7
  <1>9. Admitted(s)
    <2>1. s.active \in [Live(s.kv) -> ActiveState]
      BY <1>7, <1>8
    <2>2. s.order \in Seq(Live(s.kv)) /\ IsInjective(s.order) /\ Live(s.kv) \subseteq Range(s.order)
      <3>1. <<>> \in Seq({}) /\ DOMAIN <<>> = {}
        BY EmptySeq
      <3> QED
        BY <1>7, <1>8, <3>1 DEF IsInjective
    <2>3. Cardinality(Live(s.kv)) <= MaxActive
      <3>1. Cardinality({}) = 0
        BY FS_EmptySet
      <3> QED
        BY <1>2, <1>8, <3>1, SMT
    <2> QED
      BY <1>2, <1>5, <1>7, <1>8, <2>1, <2>2, <2>3 DEF Admitted
  <1>10. Waiting(s)
    <2>1. <<>> \in Seq(Queued) /\ DOMAIN <<>> = {}
      BY EmptySeq
    <2> QED
      BY <1>7, <2>1 DEF Waiting
  <1>11. Idle(s)
    BY <1>7, <1>8 DEF Idle, PhasesIn
  <1>12. NewMemory \in [Page -> [Slot -> Text]]
    BY EmptyText DEF NewMemory
  <1> QED
    BY <1>1, <1>9, <1>10, <1>11, <1>12 DEF IInv, SchedInv, MemInv

\* Every call on the scheduler preserves the invariant.
LEMMA NextInv == IInv /\ [Next]_vars => IInv'
  <1> SUFFICES ASSUME IInv, [Next]_vars PROVE IInv'
    OBVIOUS
  <1>1. SchedInv(sched) /\ MemInv
    BY DEF IInv
  <1>2. Live(sched.kv) = DOMAIN sched.active
    BY <1>1 DEF SchedInv, Admitted
  <1>3. ASSUME SchedInv(sched'), UNCHANGED mem PROVE IInv'
    BY <1>1, <1>3 DEF IInv, MemInv
  <1>4. ASSUME NEW job \in Job, SubmitJob(job) PROVE IInv'
    <2>1. SchedInv(Submit(sched, job))
      BY <1>1, <1>4, SubmitInv DEF SubmitJob
    <2> QED
      BY <1>3, <1>4, <2>1 DEF SubmitJob
  <1>5. ASSUME StartBatch PROVE IInv'
    <2>1. Idle(sched)
      BY <1>1, <1>5, IdleNotFlying DEF StartBatch
    <2>2. Ready(Schedule(sched))
      BY <1>1, <2>1, ScheduleInv
    <2>3. SchedInv(ReserveLookahead(Schedule(sched)))
      BY <2>2, ReserveLookaheadInv
    <2> QED
      BY <1>3, <1>5, <2>3 DEF StartBatch
  <1>6. ASSUME InFlight(sched) PROVE Flying(sched)
    BY <1>1, <1>6, IdleNotFlying DEF SchedInv
  <1>7. ASSUME FinishBatch PROVE IInv'
    <2>1. Flying(sched)
      BY <1>6, <1>7 DEF FinishBatch
    <2>2. SchedInv(CompleteBatch(sched)) /\ SchedInv(CompleteVerifyBatch(sched))
      BY <1>1, <2>1, CompleteInv, CompleteVerifyInv
    <2>3. SchedInv(sched')
      BY <1>7, <2>2 DEF FinishBatch
    <2>4. mem' \in [Page -> [Slot -> Text]]
      BY <1>1, <1>7, <2>1, WrittenTexts DEF FinishBatch
    <2> QED
      BY <2>3, <2>4 DEF IInv, MemInv
  <1>8. ASSUME LoseBatch PROVE IInv'
    <2>1. Flying(sched)
      BY <1>6, <1>8 DEF LoseBatch
    <2>2. SchedInv(sched')
      BY <1>1, <1>8, <2>1, FailInv DEF LoseBatch
    <2>3. mem' \in [Page -> [Slot -> Text]]
      BY <1>1, <1>8, <2>1, WrittenTexts DEF LoseBatch
    <2> QED
      BY <2>2, <2>3 DEF IInv, MemInv
  <1>9. ASSUME NEW i \in DOMAIN sched.pending, CancelPending(i) PROVE IInv'
    <2>1. SchedInv([sched EXCEPT !.pending = RemoveAt(@, i)])
      BY <1>1, CancelPendingInv
    <2> QED
      BY <1>3, <1>9, <2>1 DEF CancelPending
  <1>10. ASSUME NEW r \in DOMAIN sched.active, CancelActive(r) PROVE IInv'
    <2>1. SchedInv(Drop(sched, r))
      BY <1>1, <1>2, <1>10, CancelActiveInv DEF CancelActive
    <2> QED
      BY <1>3, <1>10, <2>1 DEF CancelActive
  <1>11. ASSUME PopFinished PROVE IInv'
    <2>1. SchedInv(sched')
      BY <1>1, <1>11, TurnKept DEF PopFinished
    <2> QED
      BY <1>3, <1>11, <2>1 DEF PopFinished
  <1>12. ASSUME NEW limit \in TokenLimits, SetBatchTokenLimit(limit) PROVE IInv'
    <2>1. SchedInv([sched EXCEPT !.batchTokens = limit])
      BY <1>1, LimitInv
    <2> QED
      BY <1>3, <1>12, <2>1 DEF SetBatchTokenLimit
  <1>13. ASSUME UNCHANGED vars PROVE IInv'
    BY <1>1, <1>13 DEF vars, IInv, MemInv
  <1> QED
    BY <1>4, <1>5, <1>7, <1>8, <1>9, <1>10, <1>11, <1>12, <1>13 DEF Next, Cancel

\* The inductive invariant holds of every reachable state, for every pool,
\* block size, limit, set of jobs, model and scheduling option.
THEOREM SchedulerInvariant == Spec => []IInv
  <1> QED
    BY InitInv, NextInv, PTL DEF Spec

\* No KV sequence, page or reservation ever outlives or misses its request,
\* whatever is submitted, batched, preempted, verified, failed or cancelled.
THEOREM NeverLeaks == Spec => []NothingLeaks
  <1>1. IInv => NothingLeaks
    BY NoLeak DEF IInv
  <1> QED
    BY <1>1, SchedulerInvariant, PTL

=============================================================================
