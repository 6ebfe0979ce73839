-------------------------- MODULE PagedKvOpsProofs ---------------------------
(***************************************************************************)
(* What the operations of the paged KV cache manager preserve, for every   *)
(* pool size, block size and set of requests: KvInv, that the manager's    *)
(* pages, prefix cache, reservations and tails are sound, and Ordered,     *)
(* that no two evictable pages share a rank.  The lemmas are about one     *)
(* manager value m and the value n an operation makes of it; PagedKvProofs *)
(* and BatchSchedulerProofs apply them to the managers of their machines.  *)
(***************************************************************************)
EXTENDS PagedKvOps, FiniteSetTheorems, SequenceTheorems, TLAPS

-----------------------------------------------------------------------------
(* The invariant and the allocation of pages                               *)

\* What the operations preserve.
KvInv(m) ==
    /\ ManagerType(m)
    /\ Accounted(m)
    /\ Indexed(m)
    /\ Reserved(m)
    /\ ExclusiveTails(m)

-----------------------------------------------------------------------------
(* Pages and tokens                                                        *)

\* Euclidean division by the block size.
LEMMA DivBounds ==
    ASSUME NEW a \in Int
    PROVE  /\ a \div BlockSize \in Int
           /\ BlockSize * (a \div BlockSize) <= a
           /\ a < BlockSize * (a \div BlockSize) + BlockSize
  BY ConfigAssumption, SMT

\* Multiplication by the block size is strictly monotonic, by whole blocks.
LEMMA MulGap ==
    ASSUME NEW a \in Int, NEW b \in Int, a < b
    PROVE  BlockSize * a + BlockSize <= BlockSize * b
  <1>1. b - a - 1 \in Nat
    BY SMT
  <1>2. PICK c \in Nat : b = a + 1 + c
    BY <1>1, SMT
  <1>3. BlockSize * b = BlockSize * a + BlockSize + BlockSize * c
    BY <1>2, ConfigAssumption, SMT
  <1>4. BlockSize * c >= 0 /\ BlockSize * b \in Int /\ BlockSize * a \in Int /\ BlockSize * c \in Int
    BY ConfigAssumption, SMT
  <1> QED
    BY <1>3, <1>4, ConfigAssumption, SMT

\* PagesFor(n) is the least number of pages whose slots hold n tokens.
LEMMA PagesForBounds ==
    ASSUME NEW n \in Nat
    PROVE  /\ PagesFor(n) \in Nat
           /\ n <= BlockSize * PagesFor(n)
           /\ BlockSize * PagesFor(n) < n + BlockSize
  <1>1. n + BlockSize - 1 \in Nat
    BY ConfigAssumption, SMT
  <1>2. /\ PagesFor(n) \in Int
        /\ BlockSize * PagesFor(n) <= n + BlockSize - 1
        /\ n + BlockSize - 1 < BlockSize * PagesFor(n) + BlockSize
    BY <1>1, DivBounds DEF PagesFor, DivCeil
  <1>3. BlockSize * PagesFor(n) \in Int
    BY <1>2, ConfigAssumption, SMT
  <1>4. ASSUME PagesFor(n) < 0 PROVE FALSE
    <2>1. BlockSize * PagesFor(n) + BlockSize <= BlockSize * 0
      BY <1>2, <1>4, MulGap
    <2> QED
      BY <2>1, <1>2, <1>3, ConfigAssumption, SMT
  <1> QED
    BY <1>2, <1>3, <1>4, ConfigAssumption, SMT

\* A page index past PagesFor(n) lies wholly past the n tokens.
LEMMA PagesForBeyond ==
    ASSUME NEW n \in Nat, NEW j \in Nat, j > PagesFor(n)
    PROVE  j * BlockSize > n
  <1>1. BlockSize * PagesFor(n) + BlockSize <= BlockSize * j
    BY PagesForBounds, MulGap
  <1>2. j * BlockSize = BlockSize * j /\ BlockSize * j \in Int /\ BlockSize * PagesFor(n) \in Int
    BY PagesForBounds, ConfigAssumption, SMT
  <1> QED
    BY <1>1, <1>2, PagesForBounds, ConfigAssumption, SMT

\* A block that ends within the n tokens has a page among PagesFor(n).
LEMMA PagesForWithin ==
    ASSUME NEW n \in Nat, NEW j \in Nat, j * BlockSize <= n
    PROVE  j <= PagesFor(n)
  <1>1. ASSUME PagesFor(n) < j PROVE FALSE
    BY <1>1, PagesForBeyond, ConfigAssumption, SMT
  <1> QED
    BY <1>1, PagesForBounds, SMT

\* More tokens need no fewer pages.
LEMMA PagesForMonotonic ==
    ASSUME NEW a \in Nat, NEW b \in Nat, a <= b
    PROVE  PagesFor(a) <= PagesFor(b)
  <1>1. ASSUME PagesFor(b) < PagesFor(a) PROVE FALSE
    <2>1. BlockSize * PagesFor(b) + BlockSize <= BlockSize * PagesFor(a)
      BY <1>1, PagesForBounds, MulGap
    <2>2. BlockSize * PagesFor(b) \in Int /\ BlockSize * PagesFor(a) \in Int
      BY PagesForBounds, ConfigAssumption, SMT
    <2> QED
      BY <2>1, <2>2, PagesForBounds, ConfigAssumption, SMT
  <1> QED
    BY <1>1, PagesForBounds, SMT

\* Full blocks need exactly as many pages.
LEMMA PagesForBlocks ==
    ASSUME NEW m \in Nat
    PROVE  m * BlockSize \in Nat /\ PagesFor(m * BlockSize) = m
  <1>1. m * BlockSize \in Nat /\ BlockSize * m = m * BlockSize
    BY ConfigAssumption, SMT
  <1>2. m <= PagesFor(m * BlockSize)
    BY <1>1, PagesForWithin
  <1>3. ASSUME m < PagesFor(m * BlockSize) PROVE FALSE
    <2>1. BlockSize * m + BlockSize <= BlockSize * PagesFor(m * BlockSize)
      BY <1>1, <1>3, PagesForBounds, MulGap
    <2>2. BlockSize * PagesFor(m * BlockSize) \in Int
      BY <1>1, PagesForBounds, ConfigAssumption, SMT
    <2> QED
      BY <1>1, <2>1, <2>2, PagesForBounds, ConfigAssumption, SMT
  <1> QED
    BY <1>1, <1>2, <1>3, PagesForBounds, SMT

-----------------------------------------------------------------------------
(* The page-level operations, field by field                               *)

\* The pool is finite.
LEMMA PageFinite == IsFiniteSet(Page)
  BY FS_Interval, ConfigAssumption DEF Page

\* Ranks are natural numbers.
LEMMA RankedType ==
    ASSUME NEW D \in SUBSET Page, NEW t, DOMAIN t = D
    PROVE  DOMAIN Ranked(t) = D /\ Ranked(t) \in [D -> Nat]
  <1>1. ASSUME NEW p \in D
        PROVE  Cardinality({q \in D : t[q] < t[p]}) \in Nat
    <2>1. {q \in D : t[q] < t[p]} \subseteq Page
      OBVIOUS
    <2> QED
      BY <2>1, PageFinite, FS_Subset, FS_CardinalityType
  <1> QED
    BY <1>1 DEF Ranked

\* What release_page of the pages of R makes of the page-level fields.
ReleasedFrom(m, R, n) ==
    /\ n.free = m.free \cup Freed(m, R)
    /\ n.refs \in [Page -> Int]
    /\ \A p \in Page : n.refs[p] = IF p \in R THEN m.refs[p] - 1 ELSE m.refs[p]
    /\ n.block = BlockWithout(m, Freed(m, R))
    /\ n.index = IndexWithout(m, Freed(m, R))
    /\ Cached(n) = Cached(m) \cup Retained(m, R)
    /\ n.evictable \in [Cached(n) -> Nat]
    /\ n.caching = m.caching

\* What the calls of allocate_page that return `new` make of them.
AllocatedFrom(m, new, n) ==
    /\ n.free = m.free \ Range(new)
    /\ n.refs \in [Page -> Int]
    /\ \A p \in Page : n.refs[p] = IF p \in Range(new) THEN 1 ELSE m.refs[p]
    /\ n.block = BlockWithout(m, Evicted(m, new))
    /\ n.index = IndexWithout(m, Evicted(m, new))
    /\ Cached(n) = Cached(m) \ Range(new)
    /\ n.evictable \in [Cached(n) -> Nat]
    /\ n.caching = m.caching

\* What acquire_cached of the pages of `hit` makes of them.
AcquiredFrom(m, hit, n) ==
    /\ n.refs \in [Page -> Int]
    /\ \A p \in Page : n.refs[p] = IF p \in hit THEN m.refs[p] + 1 ELSE m.refs[p]
    /\ Cached(n) = Cached(m) \ hit
    /\ n.evictable \in [Cached(n) -> Nat]
    /\ n.free = m.free /\ n.block = m.block /\ n.index = m.index
    /\ n.caching = m.caching

\* A record of the manager's fields whose tables and reservations are m's.
SameTables(m, n) ==
    /\ DOMAIN n = Field
    /\ n.seqs = m.seqs /\ n.resv = m.resv /\ n.nextResv = m.nextResv

\* drop_cached_block touches the index and the blocks only.
LEMMA DropFields ==
    ASSUME NEW m, ManagerType(m), NEW gone
    PROVE  LET n == DropCachedBlocks(m, gone) IN
           /\ DOMAIN n = Field
           /\ n.block = BlockWithout(m, gone)
           /\ n.index = IndexWithout(m, gone)
           /\ n.free = m.free /\ n.refs = m.refs /\ n.evictable = m.evictable
           /\ n.caching = m.caching /\ n.seqs = m.seqs /\ n.resv = m.resv
           /\ n.nextResv = m.nextResv
  <1> DEFINE n == DropCachedBlocks(m, gone)
             i == IndexWithout(m, gone)
             b == BlockWithout(m, gone)
  <1>1. DOMAIN m = Field
    BY DEF ManagerType
  <1>2. n = [m EXCEPT !.index = i, !.block = b]
    BY DEF DropCachedBlocks
  <1> HIDE DEF n, i, b
  <1>3. /\ DOMAIN n = Field
        /\ n.block = b /\ n.index = i
        /\ n.free = m.free /\ n.refs = m.refs /\ n.evictable = m.evictable
        /\ n.caching = m.caching /\ n.seqs = m.seqs /\ n.resv = m.resv
        /\ n.nextResv = m.nextResv
    BY <1>1, <1>2, Zenon DEF Field
  <1> QED
    BY <1>3 DEF n, i, b

\* release_page of a set of pages.
LEMMA ReleaseFields ==
    ASSUME NEW m, ManagerType(m), NEW R \in SUBSET Page, NEW order
    PROVE  /\ ReleasedFrom(m, R, ReleasePages(m, R, order))
           /\ SameTables(m, ReleasePages(m, R, order))
  <1> DEFINE n == ReleasePages(m, R, order)
             tick == [p \in Cached(m) \cup Retained(m, R) |->
                        IF p \in Retained(m, R) THEN NumPages + order[p] ELSE m.evictable[p]]
             e == Ranked(tick)
             d == DropCachedBlocks(m, Freed(m, R))
             F == m.free \cup Freed(m, R)
             C == [p \in Page |-> IF p \in R THEN m.refs[p] - 1 ELSE m.refs[p]]
  <1>1. Cached(m) \cup Retained(m, R) \in SUBSET Page
    BY DEF Retained, Dying, ManagerType
  <1>2. DOMAIN e = Cached(m) \cup Retained(m, R) /\ e \in [Cached(m) \cup Retained(m, R) -> Nat]
    BY <1>1, RankedType
  <1>3. n = [d EXCEPT !.free = F, !.evictable = e, !.refs = C]
    BY DEF ReleasePages
  <1>4. /\ DOMAIN d = Field
        /\ d.block = BlockWithout(m, Freed(m, R))
        /\ d.index = IndexWithout(m, Freed(m, R))
        /\ d.caching = m.caching /\ d.seqs = m.seqs /\ d.resv = m.resv
        /\ d.nextResv = m.nextResv
    BY DropFields
  <1>c. C \in [Page -> Int]
    BY DEF ManagerType
  <1> HIDE DEF n, tick, e, d, F, C
  <1>5. /\ DOMAIN n = Field
        /\ n.free = F /\ n.evictable = e /\ n.refs = C
        /\ n.block = d.block /\ n.index = d.index
        /\ n.caching = d.caching /\ n.seqs = d.seqs /\ n.resv = d.resv
        /\ n.nextResv = d.nextResv
    BY <1>3, <1>4, SMT DEF Field
  <1> QED
    BY <1>2, <1>4, <1>5, <1>c DEF n, F, C, ReleasedFrom, SameTables, Cached

\* The calls of allocate_page that return `new`.
LEMMA AllocateFields ==
    ASSUME NEW m, ManagerType(m), NEW new
    PROVE  /\ AllocatedFrom(m, new, Allocate(m, new))
           /\ SameTables(m, Allocate(m, new))
  <1> DEFINE n == Allocate(m, new)
             tick == [p \in Cached(m) \ Range(new) |-> m.evictable[p]]
             e == Ranked(tick)
             d == DropCachedBlocks(m, Evicted(m, new))
             F == m.free \ Range(new)
             C == [p \in Page |-> IF p \in Range(new) THEN 1 ELSE m.refs[p]]
  <1>1. Cached(m) \ Range(new) \in SUBSET Page
    BY DEF ManagerType
  <1>2. DOMAIN e = Cached(m) \ Range(new) /\ e \in [Cached(m) \ Range(new) -> Nat]
    BY <1>1, RankedType
  <1>3. n = [d EXCEPT !.free = F, !.evictable = e, !.refs = C]
    BY DEF Allocate
  <1>4. /\ DOMAIN d = Field
        /\ d.block = BlockWithout(m, Evicted(m, new))
        /\ d.index = IndexWithout(m, Evicted(m, new))
        /\ d.caching = m.caching /\ d.seqs = m.seqs /\ d.resv = m.resv
        /\ d.nextResv = m.nextResv
    BY DropFields
  <1>c. C \in [Page -> Int]
    BY DEF ManagerType
  <1> HIDE DEF n, tick, e, d, F, C
  <1>5. /\ DOMAIN n = Field
        /\ n.free = F /\ n.evictable = e /\ n.refs = C
        /\ n.block = d.block /\ n.index = d.index
        /\ n.caching = d.caching /\ n.seqs = d.seqs /\ n.resv = d.resv
        /\ n.nextResv = d.nextResv
    BY <1>3, <1>4, SMT DEF Field
  <1> QED
    BY <1>2, <1>4, <1>5, <1>c DEF n, F, C, AllocatedFrom, SameTables, Cached

\* acquire_cached of a set of pages.
LEMMA AcquireFields ==
    ASSUME NEW m, ManagerType(m), NEW hit
    PROVE  /\ AcquiredFrom(m, hit, AcquireCached(m, hit))
           /\ SameTables(m, AcquireCached(m, hit))
  <1> DEFINE n == AcquireCached(m, hit)
             tick == [p \in Cached(m) \ hit |-> m.evictable[p]]
             e == Ranked(tick)
             C == [p \in Page |-> IF p \in hit THEN m.refs[p] + 1 ELSE m.refs[p]]
  <1>1. Cached(m) \ hit \in SUBSET Page
    BY DEF ManagerType
  <1>2. DOMAIN e = Cached(m) \ hit /\ e \in [Cached(m) \ hit -> Nat]
    BY <1>1, RankedType
  <1>3. DOMAIN m = Field /\ n = [m EXCEPT !.evictable = e, !.refs = C]
    BY DEF AcquireCached, ManagerType
  <1>c. C \in [Page -> Int]
    BY DEF ManagerType
  <1> HIDE DEF n, tick, e, C
  <1>4. /\ DOMAIN n = Field
        /\ n.evictable = e /\ n.refs = C
        /\ n.free = m.free /\ n.block = m.block /\ n.index = m.index
        /\ n.caching = m.caching /\ n.seqs = m.seqs /\ n.resv = m.resv
        /\ n.nextResv = m.nextResv
    BY <1>3, SMT DEF Field
  <1> QED
    BY <1>2, <1>4, <1>c DEF n, C, AcquiredFrom, SameTables, Cached

-----------------------------------------------------------------------------
(* Owners and the index                                                    *)

\* The places that hold a page are finitely many, so they can be counted.
LEMMA OwnersFinite ==
    ASSUME NEW m, ManagerType(m), NEW p
    PROVE  IsFiniteSet(Owners(m, p))
  <1>1. Owners(m, p) \subseteq Request
    BY DEF Owners, ManagerType
  <1> QED
    BY <1>1, RequestAssumption, FS_Subset

\* A page that can be allocated is mapped by nobody.
LEMMA AvailableUnowned ==
    ASSUME NEW m, ManagerType(m), Accounted(m), NEW p \in Available(m)
    PROVE  p \in Page /\ Owners(m, p) = {}
  <1>1. p \in Page
    BY DEF ManagerType, Available
  <1>2. Cardinality(Owners(m, p)) = 0
    BY <1>1 DEF Accounted
  <1> QED
    BY <1>1, <1>2, OwnersFinite, FS_EmptySet

\* drop_cached_block removes exactly the entries of the dropped pages.
LEMMA IndexWithoutPages ==
    ASSUME NEW m, ManagerType(m), Indexed(m), NEW gone
    PROVE  /\ DOMAIN IndexWithout(m, gone) = {k \in DOMAIN m.index : m.index[k] \notin gone}
           /\ \A k \in DOMAIN IndexWithout(m, gone) : IndexWithout(m, gone)[k] = m.index[k]
  BY DEF IndexWithout, Indexed, Restrict

\* The index and the blocks are inverse to each other, and well typed.
Inverted(n) ==
    /\ \A k \in DOMAIN n.index : k # NoBlock /\ n.block[n.index[k]] = k
    /\ \A p \in Page : n.block[p] # NoBlock =>
          n.block[p] \in DOMAIN n.index /\ n.index[n.block[p]] = p
    /\ n.block \in [Page -> Seq(Token)]
    /\ DOMAIN n.index \subseteq Seq(Token) /\ n.index \in [DOMAIN n.index -> Page]

\* Dropping the blocks of some pages keeps index and blocks inverse.
LEMMA DropIndexed ==
    ASSUME NEW m, ManagerType(m), Indexed(m), NEW gone, NEW n,
           n.block = BlockWithout(m, gone), n.index = IndexWithout(m, gone)
    PROVE  Inverted(n)
  <1>1. /\ DOMAIN n.index = {k \in DOMAIN m.index : m.index[k] \notin gone}
        /\ \A k \in DOMAIN n.index : n.index[k] = m.index[k]
    BY IndexWithoutPages, SMTT(30)
  <1>2. /\ \A k \in DOMAIN m.index : k # NoBlock /\ m.block[m.index[k]] = k /\ m.index[k] \in Page
        /\ \A p \in Page : m.block[p] # NoBlock =>
              m.block[p] \in DOMAIN m.index /\ m.index[m.block[p]] = p
        /\ \A p \in Page : m.block[p] \in Seq(Token)
        /\ DOMAIN m.index \subseteq Seq(Token)
    BY DEF Indexed, ManagerType
  <1>3. /\ n.block = [p \in Page |-> n.block[p]]
        /\ \A p \in Page : n.block[p] = IF p \in gone THEN NoBlock ELSE m.block[p]
    BY DEF BlockWithout
  <1>4. NoBlock \in Seq(Token)
    BY DEF NoBlock
  <1>5. n.index = [k \in DOMAIN n.index |-> n.index[k]]
    BY DEF IndexWithout, Restrict
  <1>6. n.index \in [DOMAIN n.index -> Page]
    BY <1>1, <1>2, <1>5
  <1>7. n.block \in [Page -> Seq(Token)]
    BY <1>2, <1>3, <1>4
  <1>8. \A k \in DOMAIN n.index : k # NoBlock /\ n.block[n.index[k]] = k
    BY <1>1, <1>2, <1>3
  <1>9. \A p \in Page : n.block[p] # NoBlock =>
           n.block[p] \in DOMAIN n.index /\ n.index[n.block[p]] = p
    BY <1>1, <1>2, <1>3
  <1> QED
    BY <1>1, <1>2, <1>6, <1>7, <1>8, <1>9 DEF Inverted

\* A prefix of a block table.
LEMMA PrefixTable ==
    ASSUME NEW s \in Seq(Page), NEW t \in Seq(Page), Len(s) <= Len(t),
           \A j \in 1..Len(s) : s[j] = t[j]
    PROVE  /\ IsInjective(t) => IsInjective(s)
           /\ \A j \in DOMAIN s : /\ j \in DOMAIN t /\ j \in Nat
                                 /\ t[j] = s[j] /\ s[j] \in Page
  BY DEF IsInjective

\* The page-level fields of two managers agree.
SamePages(n, d) ==
    /\ n.free = d.free /\ n.refs = d.refs /\ n.block = d.block
    /\ n.index = d.index /\ n.evictable = d.evictable /\ n.caching = d.caching

\* Every table of n is a prefix of m's, for at least as many committed tokens.
TablesShrink(m, n) ==
    /\ Live(n) \subseteq Live(m)
    /\ \A r \in Live(n) :
          /\ n.seqs[r] \in SequenceState
          /\ n.seqs[r].committed >= m.seqs[r].committed
          /\ Len(n.seqs[r].pages) <= Len(m.seqs[r].pages)
          /\ \A j \in 1..Len(n.seqs[r].pages) : n.seqs[r].pages[j] = m.seqs[r].pages[j]

\* Exactly the pages of R lose an owner, one each.
OwnersLeave(m, n, R) ==
    /\ \A p \in R : \E x \in Owners(m, p) : Owners(n, p) = Owners(m, p) \ {x}
    /\ \A p \in Page \ R : Owners(n, p) = Owners(m, p)

\* Releasing pages: n shortens or drops tables of m and releases each page of
\* R once, on behalf of one owner.
LEMMA ShrinkPreserves ==
    ASSUME NEW m, KvInv(m), NEW R \in SUBSET Page, NEW order,
           NEW n, SamePages(n, ReleasePages(m, R, order)),
           TablesShrink(m, n), OwnersLeave(m, n, R)
    PROVE  /\ Accounted(n) /\ Indexed(n) /\ ExclusiveTails(n)
           /\ n.free \in SUBSET Page
           /\ n.refs \in [Page -> Nat]
           /\ n.block \in [Page -> Seq(Token)]
           /\ DOMAIN n.index \subseteq Seq(Token) /\ n.index \in [DOMAIN n.index -> Page]
           /\ Cached(n) \subseteq Page /\ n.evictable \in [Cached(n) -> Nat]
           /\ n.caching \in BOOLEAN
  <1>0. ManagerType(m) /\ Accounted(m) /\ Indexed(m) /\ ExclusiveTails(m)
    BY DEF KvInv
  <1>r. ReleasedFrom(m, R, n)
    <2>1. ReleasedFrom(m, R, ReleasePages(m, R, order))
      BY <1>0, ReleaseFields
    <2> QED
      BY <2>1 DEF ReleasedFrom, SamePages, Cached
  <1>1. /\ n.free = m.free \cup Freed(m, R)
        /\ n.refs \in [Page -> Int]
        /\ \A p \in Page : n.refs[p] = IF p \in R THEN m.refs[p] - 1 ELSE m.refs[p]
        /\ n.block = BlockWithout(m, Freed(m, R))
        /\ n.index = IndexWithout(m, Freed(m, R))
        /\ Cached(n) = Cached(m) \cup Retained(m, R)
        /\ n.evictable \in [Cached(n) -> Nat]
        /\ n.caching = m.caching
    BY <1>r DEF ReleasedFrom
  <1>2. /\ m.free \subseteq Page /\ Cached(m) \subseteq Page
        /\ Freed(m, R) \subseteq R /\ Retained(m, R) \subseteq R
        /\ \A p \in R : m.refs[p] = 1 <=> p \in Freed(m, R) \cup Retained(m, R)
        /\ Freed(m, R) \cap Retained(m, R) = {}
        /\ \A p \in Retained(m, R) : m.block[p] # NoBlock
    BY <1>0 DEF ManagerType, Freed, Retained, Dying
  <1>3. \A p \in Page : m.refs[p] \in Nat /\ m.refs[p] = Cardinality(Owners(m, p))
    BY <1>0 DEF ManagerType, Accounted
  <1>4. \A p \in R : m.refs[p] >= 1 /\ Cardinality(Owners(n, p)) = m.refs[p] - 1
    <2> TAKE p \in R
    <2>1. PICK x \in Owners(m, p) : Owners(n, p) = Owners(m, p) \ {x}
      BY DEF OwnersLeave
    <2>2. IsFiniteSet(Owners(m, p))
      BY <1>0, OwnersFinite
    <2>3. Cardinality(Owners(m, p) \ {x}) = Cardinality(Owners(m, p)) - 1
      BY <2>1, <2>2, FS_RemoveElement
    <2>4. IsFiniteSet(Owners(m, p) \ {x}) /\ Cardinality(Owners(m, p) \ {x}) \in Nat
      BY <2>1, <2>2, FS_RemoveElement, FS_CardinalityType
    <2> QED
      BY <1>3, <2>1, <2>3, <2>4
  <1>5. \A p \in Page : n.refs[p] = Cardinality(Owners(n, p)) /\ n.refs[p] \in Nat
    <2> TAKE p \in Page
    <2>1. CASE p \in R
      BY <1>1, <1>3, <1>4, <2>1
    <2>2. CASE p \notin R
      BY <1>1, <1>3, <2>2 DEF OwnersLeave
    <2> QED
      BY <2>1, <2>2
  <1>6. /\ \A p \in Page : m.refs[p] = 0 <=> p \in m.free \cup Cached(m)
        /\ m.free \cap Cached(m) = {}
    BY <1>0 DEF Accounted, Available
  <1>7. \A p \in Page : n.refs[p] = 0 <=> p \in n.free \cup Cached(n)
    <2> TAKE p \in Page
    <2>1. CASE p \in R
      <3>1. n.refs[p] = 0 <=> m.refs[p] = 1
        BY <1>1, <1>3, <2>1
      <3>2. p \notin m.free \cup Cached(m)
        BY <1>3, <1>4, <1>6, <2>1
      <3> QED
        BY <1>1, <1>2, <2>1, <3>1, <3>2
    <2>2. CASE p \notin R
      <3>1. n.refs[p] = m.refs[p]
        BY <1>1, <2>2
      <3> QED
        BY <1>1, <1>2, <1>6, <2>2, <3>1
    <2> QED
      BY <2>1, <2>2
  <1>8. n.free \cap Cached(n) = {}
    <2>1. \A p \in R : p \notin m.free /\ p \notin Cached(m)
      BY <1>3, <1>4, <1>6
    <2> QED
      BY <1>1, <1>2, <1>6, <2>1
  <1>9. \A r \in Live(n) : IsInjective(n.seqs[r].pages)
    <2> TAKE r \in Live(n)
    <2>1. m.seqs[r] \in SequenceState /\ n.seqs[r] \in SequenceState /\ r \in Live(m)
      BY <1>0 DEF ManagerType, TablesShrink
    <2>2. n.seqs[r].pages \in Seq(Page) /\ m.seqs[r].pages \in Seq(Page)
      BY <2>1 DEF SequenceState
    <2>3. IsInjective(m.seqs[r].pages)
      BY <1>0, <2>1 DEF Accounted
    <2>4. /\ Len(n.seqs[r].pages) <= Len(m.seqs[r].pages)
          /\ \A i \in 1..Len(n.seqs[r].pages) : n.seqs[r].pages[i] = m.seqs[r].pages[i]
      BY DEF TablesShrink
    <2> QED
      BY <2>2, <2>3, <2>4, PrefixTable
  <1>10. Accounted(n)
    BY <1>5, <1>7, <1>8, <1>9 DEF Accounted, Available
  <1>11. Inverted(n)
    <2>1. /\ n.block = BlockWithout(m, Freed(m, R))
          /\ n.index = IndexWithout(m, Freed(m, R))
      BY <1>1
    <2> QED
      BY <1>0, <2>1, DropIndexed
  <1>12. /\ \A p \in n.free : n.block[p] = NoBlock
         /\ \A p \in Cached(n) : n.block[p] # NoBlock
    <2>1. /\ \A p \in m.free : m.block[p] = NoBlock
          /\ \A p \in Cached(m) : m.block[p] # NoBlock
      BY <1>0 DEF Indexed
    <2>2. \A p \in R : p \notin Cached(m)
      BY <1>3, <1>4, <1>6
    <2>3. /\ \A p \in Freed(m, R) : n.block[p] = NoBlock
          /\ \A p \in Page \ Freed(m, R) : n.block[p] = m.block[p]
      BY <1>1, <1>2 DEF BlockWithout
    <2>4. \A p \in n.free : n.block[p] = NoBlock
      BY <1>1, <1>2, <2>1, <2>3
    <2>5. \A p \in Cached(n) : p \notin Freed(m, R) /\ p \in Page
      BY <1>1, <1>2, <2>2
    <2> QED
      BY <1>1, <1>2, <2>1, <2>3, <2>4, <2>5
  <1>13. Indexed(n)
    BY <1>11, <1>12 DEF Indexed, Inverted
  <1>14. ExclusiveTails(n)
    <2> SUFFICES ASSUME NEW r \in Live(n), NEW j \in DOMAIN n.seqs[r].pages,
                        j * BlockSize > n.seqs[r].committed
                 PROVE  /\ Owners(n, n.seqs[r].pages[j]) = {r}
                        /\ n.block[n.seqs[r].pages[j]] = NoBlock
      BY DEF ExclusiveTails
    <2>1. /\ m.seqs[r] \in SequenceState /\ n.seqs[r] \in SequenceState /\ r \in Live(m)
          /\ n.seqs[r].committed >= m.seqs[r].committed
      BY <1>0 DEF ManagerType, TablesShrink
    <2>2. /\ n.seqs[r].pages \in Seq(Page) /\ m.seqs[r].pages \in Seq(Page)
          /\ n.seqs[r].committed \in Nat /\ m.seqs[r].committed \in Nat
      BY <2>1 DEF SequenceState
    <2>3. /\ j \in DOMAIN m.seqs[r].pages /\ j \in Nat
          /\ m.seqs[r].pages[j] = n.seqs[r].pages[j] /\ n.seqs[r].pages[j] \in Page
      <3>1. /\ Len(n.seqs[r].pages) <= Len(m.seqs[r].pages)
            /\ \A i \in 1..Len(n.seqs[r].pages) : n.seqs[r].pages[i] = m.seqs[r].pages[i]
        BY DEF TablesShrink
      <3>2. \A i \in DOMAIN n.seqs[r].pages :
               /\ i \in DOMAIN m.seqs[r].pages /\ i \in Nat
               /\ m.seqs[r].pages[i] = n.seqs[r].pages[i] /\ n.seqs[r].pages[i] \in Page
        BY <2>2, <3>1, PrefixTable, SMTT(30)
      <3> QED
        BY <3>2
    <2>4. j * BlockSize > m.seqs[r].committed
      BY <2>1, <2>2, <2>3, ConfigAssumption
    <2>5. /\ Owners(m, n.seqs[r].pages[j]) = {r}
          /\ m.block[n.seqs[r].pages[j]] = NoBlock
      BY <1>0, <2>1, <2>3, <2>4 DEF ExclusiveTails
    <2>6. r \in Owners(n, n.seqs[r].pages[j])
      BY <2>2 DEF Owners, Range
    <2>7. Owners(n, n.seqs[r].pages[j]) \subseteq Owners(m, n.seqs[r].pages[j])
      BY <2>3 DEF OwnersLeave
    <2>8. n.block[n.seqs[r].pages[j]] = NoBlock
      BY <1>1, <2>3, <2>5 DEF BlockWithout
    <2> QED
      BY <2>5, <2>6, <2>7, <2>8
  <1> QED
    BY <1>1, <1>2, <1>5, <1>10, <1>11, <1>13, <1>14, <1>0 DEF ManagerType, Inverted

-----------------------------------------------------------------------------
(* Tables and reservations                                                 *)

\* The fields of a manager of which only the tables are replaced.
LEMMA SeqsFields ==
    ASSUME NEW d, DOMAIN d = Field, NEW S, NEW n, n = [d EXCEPT !.seqs = S]
    PROVE  /\ DOMAIN n = Field /\ SamePages(n, d) /\ n.seqs = S
           /\ n.resv = d.resv /\ n.nextResv = d.nextResv
  <1>1. /\ DOMAIN n = Field /\ n.seqs = S
        /\ n.resv = d.resv /\ n.nextResv = d.nextResv
        /\ n.free = d.free /\ n.refs = d.refs /\ n.block = d.block
        /\ n.index = d.index /\ n.evictable = d.evictable /\ n.caching = d.caching
    BY SMT DEF Field
  <1> QED
    BY <1>1 DEF SamePages

\* The types of the page-level fields, as ManagerType states them.
PagesType(n) ==
    /\ n.free \in SUBSET Page
    /\ n.refs \in [Page -> Nat]
    /\ n.block \in [Page -> Seq(Token)]
    /\ DOMAIN n.index \subseteq Seq(Token) /\ n.index \in [DOMAIN n.index -> Page]
    /\ Cached(n) \subseteq Page /\ n.evictable \in [Cached(n) -> Nat]
    /\ n.caching \in BOOLEAN

\* The types of the tables and the reservations.
TablesType(n) ==
    /\ Live(n) \subseteq Request /\ n.seqs \in [Live(n) -> SequenceState]
    /\ DOMAIN n.resv \subseteq Nat \ {0} /\ n.resv \in [DOMAIN n.resv -> ReservationState]
    /\ n.nextResv \in Nat \ {0}

\* The type of the manager is the one of its pages and the one of its tables.
LEMMA TypeParts ==
    ASSUME NEW n
    PROVE  ManagerType(n) <=> DOMAIN n = Field /\ PagesType(n) /\ TablesType(n)
  BY DEF ManagerType, PagesType, TablesType

\* What the invariant says of a live sequence.
LEMMA LiveSequence ==
    ASSUME NEW m, KvInv(m), NEW r \in Live(m)
    PROVE  /\ r \in Request /\ m.seqs[r] \in SequenceState
           /\ m.seqs[r].committed \in Nat /\ m.seqs[r].pages \in Seq(Page)
           /\ m.seqs[r].pending \in Nat /\ m.seqs[r].registered \in Nat
           /\ m.seqs[r].chain \in Seq(Token)
           /\ IsInjective(m.seqs[r].pages)
           /\ PagesFor(m.seqs[r].committed) <= Len(m.seqs[r].pages)
           /\ m.seqs[r].pending # NoPending =>
                 /\ m.seqs[r].pending \in DOMAIN m.resv
                 /\ m.resv[m.seqs[r].pending].request = r
  <1>1. /\ r \in Request /\ m.seqs[r] \in SequenceState /\ IsInjective(m.seqs[r].pages)
        /\ DOMAIN m.resv \subseteq Nat \ {0}
        /\ m.resv \in [DOMAIN m.resv -> ReservationState]
    BY DEF KvInv, ManagerType, Accounted
  <1>2. /\ m.seqs[r].committed \in Nat /\ m.seqs[r].pages \in Seq(Page)
        /\ m.seqs[r].pending \in Nat /\ m.seqs[r].registered \in Nat
        /\ m.seqs[r].chain \in Seq(Token)
    BY <1>1 DEF SequenceState
  <1>3. IF m.seqs[r].pending = NoPending
        THEN Len(m.seqs[r].pages) = PagesFor(m.seqs[r].committed)
        ELSE /\ m.seqs[r].pending \in DOMAIN m.resv
             /\ m.resv[m.seqs[r].pending].request = r
    BY DEF KvInv, Reserved
  <1>4. CASE m.seqs[r].pending = NoPending
    <2>1. Len(m.seqs[r].pages) = PagesFor(m.seqs[r].committed)
      BY <1>3, <1>4
    <2>2. PagesFor(m.seqs[r].committed) \in Nat
      BY <1>2, PagesForBounds
    <2> QED
      BY <1>1, <1>2, <1>4, <2>1, <2>2
  <1>5. CASE m.seqs[r].pending # NoPending
    <2> DEFINE i == m.seqs[r].pending
    <2>1. i \in DOMAIN m.resv /\ m.resv[i].request = r /\ m.resv[i] \in ReservationState
      BY <1>1, <1>3, <1>5
    <2>2. /\ m.seqs[r].committed = m.resv[i].start
          /\ Len(m.seqs[r].pages) = PagesFor(m.resv[i].start + m.resv[i].count)
      BY <2>1 DEF KvInv, Reserved, Consistent
    <2>3. m.resv[i].start \in Nat /\ m.resv[i].count \in Nat
      BY <2>1 DEF ReservationState
    <2>4. PagesFor(m.resv[i].start) <= PagesFor(m.resv[i].start + m.resv[i].count)
      BY <2>3, PagesForMonotonic
    <2> QED
      BY <1>1, <1>2, <2>1, <2>2, <2>4
  <1> QED
    BY <1>4, <1>5

\* What it says of a reservation.
LEMMA LiveReservation ==
    ASSUME NEW m, KvInv(m), NEW i \in DOMAIN m.resv
    PROVE  /\ i \in Nat \ {0} /\ m.resv[i] \in ReservationState /\ i < m.nextResv
           /\ m.resv[i].start \in Nat /\ m.resv[i].count \in Nat \ {0}
           /\ m.resv[i].previous = PagesFor(m.resv[i].start)
           /\ m.resv[i].request \in Live(m)
           /\ m.seqs[m.resv[i].request].pending = i
           /\ m.seqs[m.resv[i].request].committed = m.resv[i].start
           /\ Len(m.seqs[m.resv[i].request].pages)
                = PagesFor(m.resv[i].start + m.resv[i].count)
  <1>1. i \in Nat \ {0} /\ m.resv[i] \in ReservationState
    BY DEF KvInv, ManagerType
  <1>2. m.resv[i].start \in Nat /\ m.resv[i].count \in Nat \ {0}
    BY <1>1 DEF ReservationState
  <1> QED
    BY <1>1, <1>2 DEF KvInv, Reserved, Consistent

-----------------------------------------------------------------------------
(* Releasing                                                               *)

\* remove_sequence.
LEMMA RemovePreserves ==
    ASSUME NEW m, KvInv(m), NEW r, CanRemove(m, r)
    PROVE  KvInv(RemoveSequence(m, r))
  <1> DEFINE n == RemoveSequence(m, r)
             R == Range(m.seqs[r].pages)
             order == [p \in R |-> Len(m.seqs[r].pages)
                          - CHOOSE i \in DOMAIN m.seqs[r].pages : m.seqs[r].pages[i] = p]
             d == ReleasePages(m, R, order)
             S == Restrict(m.seqs, Live(m) \ {r})
  <1>0. r \in Live(m) /\ m.seqs[r].pending = NoPending /\ ManagerType(m)
    BY DEF CanRemove, KvInv
  <1>1. m.seqs[r].pages \in Seq(Page) /\ R \in SUBSET Page
    <2>1. m.seqs[r].pages \in Seq(Page)
      BY <1>0, LiveSequence
    <2> QED
      BY <2>1 DEF Range
  <1>2. n = [d EXCEPT !.seqs = S]
    BY DEF RemoveSequence
  <1>3. DOMAIN d = Field /\ d.resv = m.resv /\ d.nextResv = m.nextResv
    BY <1>0, <1>1, ReleaseFields DEF SameTables
  <1> HIDE DEF n, d, order
  <1>4. /\ DOMAIN n = Field /\ SamePages(n, d) /\ n.seqs = S
        /\ n.resv = m.resv /\ n.nextResv = m.nextResv
    BY <1>2, <1>3, SeqsFields
  <1>5. /\ Live(n) = Live(m) \ {r}
        /\ \A q \in Live(n) : n.seqs[q] = m.seqs[q]
    BY <1>4 DEF Live, Restrict
  <1>6. TablesShrink(m, n)
    <2> SUFFICES ASSUME NEW q \in Live(n)
                 PROVE  /\ n.seqs[q] \in SequenceState
                        /\ n.seqs[q].committed >= m.seqs[q].committed
                        /\ Len(n.seqs[q].pages) <= Len(m.seqs[q].pages)
                        /\ \A j \in 1..Len(n.seqs[q].pages) : n.seqs[q].pages[j] = m.seqs[q].pages[j]
      BY <1>5 DEF TablesShrink
    <2>1. q \in Live(m) /\ n.seqs[q] = m.seqs[q]
      BY <1>5
    <2>2. /\ m.seqs[q] \in SequenceState /\ m.seqs[q].committed \in Nat
          /\ m.seqs[q].pages \in Seq(Page)
      BY <2>1, LiveSequence
    <2> QED
      BY <2>1, <2>2
  <1>7. OwnersLeave(m, n, R)
    <2>1. ASSUME NEW p PROVE Owners(n, p) = Owners(m, p) \ {r}
      BY <1>5 DEF Owners
    <2>2. \A p \in R : r \in Owners(m, p)
      BY <1>0 DEF Owners
    <2>3. \A p \in Page \ R : r \notin Owners(m, p)
      BY <1>0 DEF Owners
    <2> QED
      BY <2>1, <2>2, <2>3 DEF OwnersLeave
  <1>8. Accounted(n) /\ Indexed(n) /\ ExclusiveTails(n) /\ PagesType(n)
    BY <1>1, <1>4, <1>6, <1>7, ShrinkPreserves DEF d, PagesType
  <1>9. \A i \in DOMAIN m.resv : m.resv[i].request \in Live(n)
    BY <1>0, <1>5, LiveReservation DEF NoPending
  <1>10. Reserved(n)
    <2>1. Reserved(m)
      BY DEF KvInv
    <2>2. ASSUME NEW i \in DOMAIN n.resv
          PROVE  /\ Consistent(n, i)
                 /\ i < n.nextResv
                 /\ n.resv[i].previous = PagesFor(n.resv[i].start)
                 /\ Len(n.seqs[n.resv[i].request].pages)
                      = PagesFor(n.resv[i].start + n.resv[i].count)
      <3>1. /\ i \in DOMAIN m.resv /\ n.resv[i] = m.resv[i]
            /\ n.seqs[n.resv[i].request] = m.seqs[m.resv[i].request]
            /\ n.resv[i].request \in Live(n)
        BY <1>4, <1>5, <1>9
      <3> QED
        BY <1>4, <2>1, <3>1 DEF Reserved, Consistent
    <2>3. ASSUME NEW q \in Live(n)
          PROVE  IF n.seqs[q].pending = NoPending
                 THEN Len(n.seqs[q].pages) = PagesFor(n.seqs[q].committed)
                 ELSE /\ n.seqs[q].pending \in DOMAIN n.resv
                      /\ n.resv[n.seqs[q].pending].request = q
      <3>1. q \in Live(m) /\ n.seqs[q] = m.seqs[q] /\ n.resv = m.resv
        BY <1>4, <1>5
      <3> QED
        BY <2>1, <3>1 DEF Reserved
    <2> QED
      BY <2>2, <2>3 DEF Reserved
  <1>11. TablesType(n)
    <2>1. n.seqs \in [Live(n) -> SequenceState]
      BY <1>0, <1>4, <1>5 DEF ManagerType, Live, Restrict
    <2> QED
      BY <1>0, <1>4, <1>5, <2>1 DEF ManagerType, TablesType
  <1>12. ManagerType(n)
    BY <1>4, <1>8, <1>11, TypeParts
  <1> QED
    BY <1>8, <1>10, <1>12 DEF KvInv, n


\* n has settled the reservations of ids: to[i] tokens are committed for the
\* owner of i, whose table keeps the pages these need.
SettledTo(m, ids, to, n) ==
    /\ DOMAIN n = Field
    /\ Live(n) = Live(m) /\ n.seqs = [r \in Live(m) |-> n.seqs[r]]
    /\ \A r \in Live(m) \ Owned(m, ids) : n.seqs[r] = m.seqs[r]
    /\ \A r \in Owned(m, ids) :
          LET c == to[m.seqs[r].pending]
          IN  /\ n.seqs[r] \in SequenceState
              /\ n.seqs[r].committed = c
              /\ n.seqs[r].pages = SubSeq(m.seqs[r].pages, 1, PagesFor(c))
              /\ n.seqs[r].pending = NoPending
              /\ n.seqs[r].registered = m.seqs[r].registered
              /\ n.seqs[r].chain = m.seqs[r].chain
    /\ n.resv = Restrict(m.resv, DOMAIN m.resv \ ids)
    /\ n.nextResv = m.nextResv

\* Lengths that reservations may be settled to.
Settleable(m, ids, to) ==
    /\ ids \subseteq DOMAIN m.resv
    /\ \A i \in ids : /\ to[i] \in Nat
                      /\ m.resv[i].start <= to[i]
                      /\ to[i] <= m.resv[i].start + m.resv[i].count

\* The owner of a settled reservation, and what its table keeps.
LEMMA OwnerSettles ==
    ASSUME NEW m, KvInv(m), NEW ids, NEW to, Settleable(m, ids, to), NEW n,
           SettledTo(m, ids, to, n), NEW r \in Owned(m, ids)
    PROVE  LET i == m.seqs[r].pending IN
           /\ i \in ids /\ i \in DOMAIN m.resv /\ m.resv[i].request = r /\ r \in Live(m)
           /\ to[i] \in Nat /\ m.seqs[r].committed <= to[i]
           /\ PagesFor(to[i]) \in Nat /\ PagesFor(to[i]) <= Len(m.seqs[r].pages)
           /\ n.seqs[r].pages \in Seq(Page) /\ Len(n.seqs[r].pages) = PagesFor(to[i])
           /\ \A j \in 1..PagesFor(to[i]) : n.seqs[r].pages[j] = m.seqs[r].pages[j]
  <1> DEFINE i == m.seqs[r].pending
  <1>1. PICK k \in ids : m.resv[k].request = r
    BY DEF Owned
  <1>2. k \in DOMAIN m.resv
    BY DEF Settleable
  <1>3. /\ k = i /\ r \in Live(m) /\ m.seqs[r].committed = m.resv[k].start
        /\ Len(m.seqs[r].pages) = PagesFor(m.resv[k].start + m.resv[k].count)
        /\ m.resv[k].start \in Nat /\ m.resv[k].count \in Nat
    BY <1>1, <1>2, LiveReservation
  <1>4. /\ to[i] \in Nat /\ m.seqs[r].committed <= to[i]
        /\ to[i] <= m.resv[k].start + m.resv[k].count
    BY <1>1, <1>3 DEF Settleable
  <1>5. /\ PagesFor(to[i]) \in Nat
        /\ PagesFor(to[i]) <= PagesFor(m.resv[k].start + m.resv[k].count)
    <2>0. m.resv[k].start \in Nat /\ m.resv[k].count \in Nat
      BY <1>3
    <2>1. m.resv[k].start + m.resv[k].count \in Nat
      BY <2>0, SMT
    <2> QED
      BY <1>4, <2>1, PagesForBounds, PagesForMonotonic
  <1>6. m.seqs[r].pages \in Seq(Page)
    BY <1>3, LiveSequence
  <1>7. n.seqs[r].pages = SubSeq(m.seqs[r].pages, 1, PagesFor(to[i]))
    BY DEF SettledTo
  <1> HIDE DEF i
  <1>8. /\ n.seqs[r].pages \in Seq(Page) /\ Len(n.seqs[r].pages) = PagesFor(to[i])
        /\ \A j \in 1..PagesFor(to[i]) : n.seqs[r].pages[j] = m.seqs[r].pages[j]
    <2> DEFINE t == m.seqs[r].pages
               c == PagesFor(to[i])
    <2>1. t \in Seq(Page) /\ c \in Nat /\ c <= Len(t)
      BY <1>3, <1>5, <1>6
    <2> HIDE DEF t, c
    <2>2. /\ SubSeq(t, 1, c) \in Seq(Page) /\ Len(SubSeq(t, 1, c)) = c
          /\ \A j \in 1..c : SubSeq(t, 1, c)[j] = t[j]
      BY <2>1, SMT
    <2> QED
      BY <1>7, <2>2 DEF t, c
  <1> QED
    BY <1>1, <1>2, <1>3, <1>4, <1>5, <1>8 DEF i

\* Settling only shortens tables.
LEMMA SettledShrinks ==
    ASSUME NEW m, KvInv(m), NEW ids, NEW to, Settleable(m, ids, to), NEW n,
           SettledTo(m, ids, to, n)
    PROVE  TablesShrink(m, n)
  <1>1. Live(n) = Live(m)
    BY DEF SettledTo
  <1>2. ASSUME NEW r \in Live(n)
        PROVE  /\ n.seqs[r] \in SequenceState
               /\ n.seqs[r].committed >= m.seqs[r].committed
               /\ Len(n.seqs[r].pages) <= Len(m.seqs[r].pages)
               /\ \A j \in 1..Len(n.seqs[r].pages) : n.seqs[r].pages[j] = m.seqs[r].pages[j]
    <2>1. CASE r \in Owned(m, ids)
      <3>1. n.seqs[r] \in SequenceState /\ n.seqs[r].committed = to[m.seqs[r].pending]
        BY <2>1 DEF SettledTo
      <3>2. m.seqs[r].committed \in Nat
        BY <1>1, LiveSequence
      <3> QED
        BY <2>1, <3>1, <3>2, OwnerSettles
    <2>2. CASE r \notin Owned(m, ids)
      <3>1. n.seqs[r] = m.seqs[r]
        BY <1>1, <2>2 DEF SettledTo
      <3>2. /\ m.seqs[r] \in SequenceState /\ m.seqs[r].committed \in Nat
            /\ m.seqs[r].pages \in Seq(Page)
        BY <1>1, LiveSequence
      <3> QED
        BY <3>1, <3>2
    <2> QED
      BY <2>1, <2>2
  <1> QED
    BY <1>1, <1>2 DEF TablesShrink

\* Settling leaves tables and reservations in order.
LEMMA SettledReserved ==
    ASSUME NEW m, KvInv(m), NEW ids, NEW to, Settleable(m, ids, to), NEW n,
           SettledTo(m, ids, to, n)
    PROVE  Reserved(n) /\ TablesType(n)
  <1>1. /\ Live(n) = Live(m) /\ n.nextResv = m.nextResv
        /\ DOMAIN n.resv = DOMAIN m.resv \ ids
        /\ \A i \in DOMAIN n.resv : n.resv[i] = m.resv[i]
        /\ n.resv = [i \in DOMAIN n.resv |-> n.resv[i]]
    BY DEF SettledTo, Restrict
  <1>2. ASSUME NEW i \in DOMAIN n.resv
        PROVE  /\ Consistent(n, i)
               /\ i < n.nextResv
               /\ n.resv[i].previous = PagesFor(n.resv[i].start)
               /\ Len(n.seqs[n.resv[i].request].pages)
                    = PagesFor(n.resv[i].start + n.resv[i].count)
    <2> DEFINE r == m.resv[i].request
    <2>1. /\ i \in DOMAIN m.resv /\ i \notin ids /\ n.resv[i] = m.resv[i]
          /\ r \in Live(m) /\ m.seqs[r].pending = i
      BY <1>1, LiveReservation
    <2>2. r \notin Owned(m, ids)
      BY <2>1, OwnerSettles
    <2>3. n.seqs[r] = m.seqs[r]
      BY <2>1, <2>2 DEF SettledTo
    <2>4. Reserved(m)
      BY DEF KvInv
    <2> QED
      BY <1>1, <2>1, <2>3, <2>4, SMTT(30) DEF Reserved, Consistent
  <1>3. ASSUME NEW r \in Live(n)
        PROVE  IF n.seqs[r].pending = NoPending
               THEN Len(n.seqs[r].pages) = PagesFor(n.seqs[r].committed)
               ELSE /\ n.seqs[r].pending \in DOMAIN n.resv
                    /\ n.resv[n.seqs[r].pending].request = r
    <2>1. CASE r \in Owned(m, ids)
      <3>1. /\ n.seqs[r].committed = to[m.seqs[r].pending]
            /\ n.seqs[r].pending = NoPending
        BY <2>1 DEF SettledTo
      <3>2. Len(n.seqs[r].pages) = PagesFor(to[m.seqs[r].pending])
        BY <2>1, OwnerSettles
      <3> QED
        BY <3>1, <3>2
    <2>2. CASE r \notin Owned(m, ids)
      <3>1. n.seqs[r] = m.seqs[r] /\ r \in Live(m)
        BY <1>1, <2>2 DEF SettledTo
      <3>2. CASE m.seqs[r].pending = NoPending
        BY <3>1, <3>2 DEF KvInv, Reserved
      <3>3. CASE m.seqs[r].pending # NoPending
        <4>1. /\ m.seqs[r].pending \in DOMAIN m.resv
              /\ m.resv[m.seqs[r].pending].request = r
          BY <3>1, <3>3, LiveSequence
        <4>2. m.seqs[r].pending \notin ids
          BY <2>2, <4>1 DEF Owned
        <4> QED
          BY <1>1, <3>1, <3>3, <4>1, <4>2
      <3> QED
        BY <3>2, <3>3
    <2> QED
      BY <2>1, <2>2
  <1>4. Reserved(n)
    BY <1>2, <1>3 DEF Reserved
  <1>5. \A r \in Live(n) : n.seqs[r] \in SequenceState
    BY SettledShrinks DEF TablesShrink
  <1>6. n.seqs \in [Live(n) -> SequenceState]
    BY <1>1, <1>5 DEF SettledTo
  <1>7. /\ Live(m) \subseteq Request /\ DOMAIN m.resv \subseteq Nat \ {0}
        /\ \A i \in DOMAIN m.resv : m.resv[i] \in ReservationState
        /\ m.nextResv \in Nat \ {0}
    BY DEF KvInv, ManagerType
  <1>8. n.resv \in [DOMAIN n.resv -> ReservationState]
    BY <1>1, <1>7
  <1> QED
    BY <1>1, <1>4, <1>6, <1>7, <1>8 DEF TablesType

\* Shorter tables have fewer owners.
LEMMA ShrinkOwners ==
    ASSUME NEW m, KvInv(m), NEW n, TablesShrink(m, n), NEW p
    PROVE  Owners(n, p) \subseteq Owners(m, p)
  <1> SUFFICES ASSUME NEW q \in Owners(n, p) PROVE q \in Owners(m, p)
    OBVIOUS
  <1> DEFINE s == n.seqs[q].pages
             t == m.seqs[q].pages
  <1>1. q \in Live(n) /\ q \in Live(m) /\ n.seqs[q] \in SequenceState
    BY DEF Owners, TablesShrink
  <1>2. s \in Seq(Page) /\ t \in Seq(Page)
    BY <1>1, LiveSequence DEF SequenceState
  <1>3. Len(s) <= Len(t) /\ \A j \in 1..Len(s) : s[j] = t[j]
    BY <1>1 DEF TablesShrink
  <1>4. PICK k \in DOMAIN s : s[k] = p
    BY DEF Owners, Range
  <1> HIDE DEF s, t
  <1>5. k \in DOMAIN t /\ t[k] = p
    BY <1>2, <1>3, <1>4
  <1>6. p \in Range(t)
    BY <1>5 DEF Range
  <1> QED
    BY <1>1, <1>6 DEF Owners, t

\* Releasing the tails of the settled reservations takes one owner from each
\* released page.
LEMMA TailsLeave ==
    ASSUME NEW m, KvInv(m), NEW ids, NEW to, Settleable(m, ids, to), NEW n,
           SettledTo(m, ids, to, n), NEW keep, \A i \in ids : keep[i] = PagesFor(to[i])
    PROVE  /\ Tails(m, ids, keep) \in SUBSET Page
           /\ OwnersLeave(m, n, Tails(m, ids, keep))
  <1> DEFINE R == Tails(m, ids, keep)
  <1>a. R = UNION {TailPages(m.seqs[m.resv[i].request].pages, PagesFor(to[i])) : i \in ids}
    BY DEF Tails
  <1> HIDE DEF R
  <1>0. \A i \in ids : /\ i \in DOMAIN m.resv
                       /\ m.resv[i].request \in Owned(m, ids)
                       /\ m.seqs[m.resv[i].request].pending = i
    <2> TAKE i \in ids
    <2>1. i \in DOMAIN m.resv
      BY DEF Settleable
    <2> QED
      BY <2>1, LiveReservation DEF Owned
  <1>1. ASSUME NEW p \in R
        PROVE  p \in Page /\ \E x \in Owners(m, p) : Owners(n, p) = Owners(m, p) \ {x}
    <2>1. PICK i \in ids : p \in TailPages(m.seqs[m.resv[i].request].pages, PagesFor(to[i]))
      BY <1>a
    <2> DEFINE r == m.resv[i].request
               t == m.seqs[r].pages
               c == PagesFor(to[i])
    <2>2. PICK j \in c + 1 .. Len(t) : p = t[j]
      BY <2>1 DEF TailPages
    <2>3. r \in Owned(m, ids) /\ m.seqs[r].pending = i
      BY <1>0
    <2> DEFINE u == n.seqs[r].pages
               h == m.seqs[r].committed
    <2>4. /\ r \in Live(m) /\ to[i] \in Nat /\ h <= to[i]
          /\ c \in Nat /\ Len(u) = c /\ u \in Seq(Page)
          /\ \A k \in 1..c : u[k] = t[k]
          /\ c <= Len(t)
      <3> HIDE DEF r
      <3> QED
        BY <2>3, OwnerSettles
    <2>5. t \in Seq(Page) /\ IsInjective(t) /\ h \in Nat
      BY <2>4, LiveSequence
    <2>6. /\ j \in Nat /\ j > c /\ j \in DOMAIN t /\ p \in Page
      <3> HIDE DEF c, t
      <3> QED
        BY <2>2, <2>4, <2>5
    <2>7. j * BlockSize > to[i]
      BY <2>4, <2>6, PagesForBeyond
    <2>8. j * BlockSize > h
      <3> HIDE DEF h
      <3>1. j * BlockSize \in Int
        BY <2>6, ConfigAssumption
      <3> QED
        BY <2>4, <2>5, <2>7, <3>1, SMTT(30)
    <2>9. Owners(m, p) = {r}
      BY <2>2, <2>4, <2>6, <2>8 DEF KvInv, ExclusiveTails
    <2>10. p \notin Range(u)
      <3>1. ASSUME NEW k \in DOMAIN u, u[k] = p PROVE FALSE
        <4> HIDE DEF u, t, c
        <4>1. k \in 1..c /\ k \in DOMAIN t /\ t[k] = t[j]
          BY <2>2, <2>4, <2>5, <3>1
        <4>2. k = j
          BY <2>5, <2>6, <4>1 DEF IsInjective
        <4> QED
          BY <2>4, <2>6, <4>1, <4>2
      <3> QED
        BY <3>1 DEF Range
    <2>11. Owners(n, p) \subseteq Owners(m, p) /\ r \notin Owners(n, p)
      BY <2>10, SettledShrinks, ShrinkOwners DEF Owners
    <2>12. Owners(n, p) = Owners(m, p) \ {r} /\ r \in Owners(m, p)
      BY <2>9, <2>11
    <2> QED
      BY <2>6, <2>12
  <1>2. ASSUME NEW p \in Page \ R
        PROVE  Owners(n, p) = Owners(m, p)
    <2>1. Owners(n, p) \subseteq Owners(m, p)
      BY SettledShrinks, ShrinkOwners
    <2>2. ASSUME NEW q \in Owners(m, p) PROVE q \in Owners(n, p)
      <3>1. q \in Live(m) /\ q \in Live(n)
        BY DEF Owners, SettledTo
      <3>2. PICK k \in DOMAIN m.seqs[q].pages : m.seqs[q].pages[k] = p
        BY DEF Owners, Range
      <3>3. CASE q \notin Owned(m, ids)
        BY <3>1, <3>3 DEF Owners, SettledTo
      <3>4. CASE q \in Owned(m, ids)
        <4> DEFINE i == m.seqs[q].pending
                   c == PagesFor(to[i])
        <4>1. /\ i \in ids /\ m.resv[i].request = q /\ c \in Nat
              /\ n.seqs[q].pages \in Seq(Page) /\ Len(n.seqs[q].pages) = c
              /\ \A j \in 1..c : n.seqs[q].pages[j] = m.seqs[q].pages[j]
          BY <3>4, OwnerSettles
        <4>2. m.seqs[q].pages \in Seq(Page)
          BY <3>1, LiveSequence
        <4>3. k <= c
          <5>1. ASSUME k > c PROVE FALSE
            <6>1. k \in c + 1 .. Len(m.seqs[q].pages)
              BY <3>2, <4>1, <4>2, <5>1
            <6>2. p \in TailPages(m.seqs[m.resv[i].request].pages, PagesFor(to[i]))
              BY <3>2, <4>1, <6>1 DEF TailPages
            <6> QED
              BY <1>a, <4>1, <6>2
          <5> QED
            BY <3>2, <4>1, <4>2, <5>1
        <4> DEFINE u == n.seqs[q].pages
                   t == m.seqs[q].pages
        <4>4. k \in DOMAIN u /\ u[k] = p
          <5> HIDE DEF u, t, c
          <5> QED
            BY <3>2, <4>1, <4>2, <4>3 DEF u, t
        <4>5. p \in Range(u)
          BY <4>4 DEF Range
        <4> QED
          BY <3>1, <4>5 DEF Owners
      <3> QED
        BY <3>3, <3>4
    <2> QED
      BY <2>1, <2>2
  <1> QED
    BY <1>1, <1>2 DEF OwnersLeave, R


\* Settling reservations and releasing their tails.
LEMMA SettlePreserves ==
    ASSUME NEW m, KvInv(m), NEW ids, NEW to, Settleable(m, ids, to), NEW n,
           SettledTo(m, ids, to, n), NEW keep, \A i \in ids : keep[i] = PagesFor(to[i]),
           SamePages(n, ReleaseTails(m, ids, keep))
    PROVE  KvInv(n)
  <1> DEFINE R == Tails(m, ids, keep)
             order == [p \in R |-> 0]
  <1>1. R \in SUBSET Page /\ OwnersLeave(m, n, R)
    BY TailsLeave
  <1>3. SamePages(n, ReleasePages(m, R, order))
    BY DEF ReleaseTails
  <1> HIDE DEF R, order
  <1>4. TablesShrink(m, n)
    BY SettledShrinks
  <1>5. Accounted(n) /\ Indexed(n) /\ ExclusiveTails(n) /\ PagesType(n)
    BY <1>1, <1>3, <1>4, ShrinkPreserves DEF PagesType
  <1>6. Reserved(n) /\ TablesType(n) /\ DOMAIN n = Field
    <2>1. Reserved(n) /\ TablesType(n)
      BY SettledReserved
    <2>2. DOMAIN n = Field
      BY DEF SettledTo
    <2> QED
      BY <2>1, <2>2
  <1> QED
    BY <1>5, <1>6, TypeParts DEF KvInv

\* The pages of a release keep the record's fields.
LEMMA ReleaseTailsFields ==
    ASSUME NEW m, KvInv(m), NEW ids, NEW keep, ids \subseteq DOMAIN m.resv,
           \A i \in ids : keep[i] \in Nat
    PROVE  /\ SameTables(m, ReleaseTails(m, ids, keep))
           /\ \E gone : ReleaseTails(m, ids, keep).index = IndexWithout(m, gone)
  <1> DEFINE R == Tails(m, ids, keep)
  <1>1. ASSUME NEW i \in ids
        PROVE  TailPages(m.seqs[m.resv[i].request].pages, keep[i]) \subseteq Page
    <2> DEFINE t == m.seqs[m.resv[i].request].pages
    <2>1. m.resv[i].request \in Live(m)
      BY LiveReservation
    <2>2. t \in Seq(Page)
      BY <2>1, LiveSequence
    <2> HIDE DEF t
    <2>3. TailPages(t, keep[i]) \subseteq Page
      BY <2>2 DEF TailPages
    <2> QED
      BY <2>3 DEF t
  <1>2. R \in SUBSET Page
    BY <1>1 DEF Tails
  <1>3. ReleaseTails(m, ids, keep) = ReleasePages(m, R, [p \in R |-> 0])
    BY DEF ReleaseTails
  <1>4. ManagerType(m)
    BY DEF KvInv
  <1> HIDE DEF R
  <1>5. /\ SameTables(m, ReleaseTails(m, ids, keep))
        /\ ReleasedFrom(m, R, ReleaseTails(m, ids, keep))
    BY <1>2, <1>3, <1>4, ReleaseFields
  <1> QED
    BY <1>5 DEF ReleasedFrom

\* commit_append_prefixes and commit_append_partial.
LEMMA CommitPrefixesPreserves ==
    ASSUME NEW m, KvInv(m), NEW ids \in SUBSET DOMAIN m.resv, NEW consumed,
           \A i \in ids : consumed[i] \in 1 .. m.resv[i].count
    PROVE  LET n == CommitPrefixes(m, ids, consumed)
               to == [i \in ids |-> m.resv[i].start + consumed[i]]
           IN  KvInv(n) /\ Settleable(m, ids, to) /\ SettledTo(m, ids, to, n)
  <1> DEFINE n == CommitPrefixes(m, ids, consumed)
             keep == [i \in ids |-> KeptPages(m, i, consumed[i])]
             to == [i \in ids |-> m.resv[i].start + consumed[i]]
             d == ReleaseTails(m, ids, keep)
             S == [r \in Live(m) |->
                     IF r \in Owned(m, ids)
                     THEN [m.seqs[r] EXCEPT !.committed = m.resv[m.seqs[r].pending].start
                                                            + consumed[m.seqs[r].pending],
                                            !.pages = SubSeq(@, 1, keep[m.seqs[r].pending]),
                                            !.pending = NoPending]
                     ELSE m.seqs[r]]
             V == Restrict(m.resv, DOMAIN m.resv \ ids)
  <1>1. ASSUME NEW i \in ids
        PROVE  /\ to[i] \in Nat /\ m.resv[i].start <= to[i]
               /\ to[i] <= m.resv[i].start + m.resv[i].count
               /\ keep[i] = PagesFor(to[i]) /\ keep[i] \in Nat
    <2>1. i \in DOMAIN m.resv /\ m.resv[i].start \in Nat /\ m.resv[i].count \in Nat
      BY LiveReservation
    <2>2. to[i] \in Nat /\ m.resv[i].start <= to[i] /\ to[i] <= m.resv[i].start + m.resv[i].count
      BY <2>1
    <2>3. keep[i] = PagesFor(to[i])
      BY DEF KeptPages
    <2> QED
      BY <2>2, <2>3, PagesForBounds
  <1>2. Settleable(m, ids, to)
    BY <1>1 DEF Settleable
  <1>3. n = [d EXCEPT !.seqs = S, !.resv = V]
    BY DEF CommitPrefixes
  <1>4. SameTables(m, d)
    BY <1>1, ReleaseTailsFields
  <1>5. /\ DOMAIN n = Field /\ SamePages(n, d) /\ n.seqs = S
        /\ n.resv = V /\ n.nextResv = m.nextResv
    <2>1. DOMAIN d = Field /\ d.nextResv = m.nextResv
      BY <1>4 DEF SameTables
    <2> HIDE DEF n, d, S, V
    <2> QED
      BY <1>3, <2>1, SMT DEF Field, SamePages
  <1>6. ASSUME NEW r \in Owned(m, ids)
        PROVE  LET i == m.seqs[r].pending IN
               /\ r \in Live(m) /\ i \in ids
               /\ n.seqs[r] \in SequenceState
               /\ n.seqs[r].committed = to[i]
               /\ n.seqs[r].pages = SubSeq(m.seqs[r].pages, 1, PagesFor(to[i]))
               /\ n.seqs[r].pending = NoPending
               /\ n.seqs[r].registered = m.seqs[r].registered
               /\ n.seqs[r].chain = m.seqs[r].chain
    <2> DEFINE i == m.seqs[r].pending
               t == m.seqs[r].pages
    <2>1. PICK k \in ids : m.resv[k].request = r
      BY DEF Owned
    <2>2. /\ k = i /\ i \in ids /\ r \in Live(m)
          /\ Len(t) = PagesFor(m.resv[i].start + m.resv[i].count)
          /\ m.resv[i].start + m.resv[i].count \in Nat
      BY <2>1, LiveReservation, SMTT(30)
    <2>3. m.seqs[r] \in SequenceState /\ t \in Seq(Page)
      BY <2>2, LiveSequence
    <2>4. to[i] \in Nat /\ keep[i] = PagesFor(to[i]) /\ keep[i] \in Nat /\ keep[i] <= Len(t)
      BY <1>1, <2>2, PagesForMonotonic, SMTT(30)
    <2>5. n.seqs[r] = [m.seqs[r] EXCEPT !.committed = to[i],
                                        !.pages = SubSeq(t, 1, keep[i]),
                                        !.pending = NoPending]
      BY <1>5, <2>2
    <2> HIDE DEF keep, to, n, t, i
    <2>6. SubSeq(t, 1, keep[i]) \in Seq(Page)
      BY <2>3, <2>4
    <2>7. NoPending \in Nat
      BY DEF NoPending
    <2> QED
      BY <2>2, <2>3, <2>4, <2>5, <2>6, <2>7 DEF SequenceState, i, t
  <1>7. SettledTo(m, ids, to, n)
    <2>1. /\ Live(n) = Live(m) /\ n.seqs = [r \in Live(m) |-> n.seqs[r]]
          /\ \A r \in Live(m) \ Owned(m, ids) : n.seqs[r] = m.seqs[r]
      BY <1>5 DEF Live
    <2> HIDE DEF n, to
    <2> QED
      BY <1>5, <1>6, <2>1 DEF SettledTo
  <1>8. /\ \A i \in ids : keep[i] = PagesFor(to[i])
        /\ SamePages(n, ReleaseTails(m, ids, keep))
    BY <1>1, <1>5
  <1> HIDE DEF n, d, to, keep
  <1>9. KvInv(n)
    BY <1>2, <1>7, <1>8, SettlePreserves
  <1> QED
    BY <1>2, <1>7, <1>9 DEF n, to


\* cancel_appends and cancel_append.
LEMMA CancelPreserves ==
    ASSUME NEW m, KvInv(m), NEW ids \in SUBSET DOMAIN m.resv
    PROVE  LET n == CancelAppends(m, ids)
               to == [i \in ids |-> m.resv[i].start]
           IN  KvInv(n) /\ Settleable(m, ids, to) /\ SettledTo(m, ids, to, n)
  <1> DEFINE n == CancelAppends(m, ids)
             keep == [i \in ids |-> PreviousPages(m, i)]
             to == [i \in ids |-> m.resv[i].start]
             d == ReleaseTails(m, ids, keep)
             S == [r \in Live(m) |->
                     IF r \in Owned(m, ids)
                     THEN [m.seqs[r] EXCEPT !.pages = SubSeq(@, 1, keep[m.seqs[r].pending]),
                                            !.pending = NoPending]
                     ELSE m.seqs[r]]
             V == Restrict(m.resv, DOMAIN m.resv \ ids)
  <1>1. ASSUME NEW i \in ids
        PROVE  /\ to[i] \in Nat /\ m.resv[i].start <= to[i]
               /\ to[i] <= m.resv[i].start + m.resv[i].count
               /\ keep[i] = PagesFor(to[i]) /\ keep[i] \in Nat
    <2>1. /\ i \in DOMAIN m.resv /\ m.resv[i].start \in Nat /\ m.resv[i].count \in Nat
          /\ m.resv[i].previous = PagesFor(m.resv[i].start)
      BY LiveReservation
    <2>2. to[i] \in Nat /\ m.resv[i].start <= to[i] /\ to[i] <= m.resv[i].start + m.resv[i].count
      BY <2>1
    <2>3. keep[i] = PagesFor(to[i])
      BY <2>1 DEF PreviousPages
    <2> QED
      BY <2>2, <2>3, PagesForBounds
  <1>2. Settleable(m, ids, to)
    BY <1>1 DEF Settleable
  <1>3. n = [d EXCEPT !.seqs = S, !.resv = V]
    BY DEF CancelAppends
  <1>4. SameTables(m, d)
    BY <1>1, ReleaseTailsFields
  <1>5. /\ DOMAIN n = Field /\ SamePages(n, d) /\ n.seqs = S
        /\ n.resv = V /\ n.nextResv = m.nextResv
    <2>1. DOMAIN d = Field /\ d.nextResv = m.nextResv
      BY <1>4 DEF SameTables
    <2> HIDE DEF n, d, S, V
    <2> QED
      BY <1>3, <2>1, SMT DEF Field, SamePages
  <1>6. ASSUME NEW r \in Owned(m, ids)
        PROVE  LET i == m.seqs[r].pending IN
               /\ r \in Live(m) /\ i \in ids
               /\ n.seqs[r] \in SequenceState
               /\ n.seqs[r].committed = to[i]
               /\ n.seqs[r].pages = SubSeq(m.seqs[r].pages, 1, PagesFor(to[i]))
               /\ n.seqs[r].pending = NoPending
               /\ n.seqs[r].registered = m.seqs[r].registered
               /\ n.seqs[r].chain = m.seqs[r].chain
    <2> DEFINE i == m.seqs[r].pending
               t == m.seqs[r].pages
    <2>1. PICK k \in ids : m.resv[k].request = r
      BY DEF Owned
    <2>2. /\ k = i /\ i \in ids /\ r \in Live(m)
          /\ Len(t) = PagesFor(m.resv[i].start + m.resv[i].count)
          /\ m.resv[i].start + m.resv[i].count \in Nat
      BY <2>1, LiveReservation, SMTT(30)
    <2>a. m.seqs[r].committed = to[i]
      BY <2>1, <2>2, LiveReservation, SMTT(30)
    <2>3. m.seqs[r] \in SequenceState /\ t \in Seq(Page)
      BY <2>2, LiveSequence
    <2>4. to[i] \in Nat /\ keep[i] = PagesFor(to[i]) /\ keep[i] \in Nat /\ keep[i] <= Len(t)
      BY <1>1, <2>2, PagesForMonotonic
    <2>5. n.seqs[r] = [m.seqs[r] EXCEPT !.pages = SubSeq(t, 1, keep[i]),
                                        !.pending = NoPending]
      BY <1>5, <2>2
    <2> HIDE DEF keep, to, n, t, i
    <2>6. SubSeq(t, 1, keep[i]) \in Seq(Page)
      BY <2>3, <2>4
    <2>7. NoPending \in Nat
      BY DEF NoPending
    <2> QED
      BY <2>a, <2>2, <2>3, <2>4, <2>5, <2>6, <2>7 DEF SequenceState, i, t
  <1>7. SettledTo(m, ids, to, n)
    <2>1. /\ Live(n) = Live(m) /\ n.seqs = [r \in Live(m) |-> n.seqs[r]]
          /\ \A r \in Live(m) \ Owned(m, ids) : n.seqs[r] = m.seqs[r]
      BY <1>5 DEF Live
    <2> HIDE DEF n, to
    <2> QED
      BY <1>5, <1>6, <2>1 DEF SettledTo
  <1>8. /\ \A i \in ids : keep[i] = PagesFor(to[i])
        /\ SamePages(n, ReleaseTails(m, ids, keep))
    BY <1>1, <1>5
  <1> HIDE DEF n, d, to, keep
  <1>9. KvInv(n)
    BY <1>2, <1>7, <1>8, SettlePreserves
  <1> QED
    BY <1>2, <1>7, <1>9 DEF n, to

-----------------------------------------------------------------------------
(* Operations that leave every page where it is                            *)

\* The tables of n are m's, with at least as many committed tokens, and maybe
\* some empty ones.
TablesKeep(m, n) ==
    /\ Live(m) \subseteq Live(n)
    /\ \A r \in Live(m) : /\ n.seqs[r].pages = m.seqs[r].pages
                          /\ n.seqs[r].committed \in Nat
                          /\ n.seqs[r].committed >= m.seqs[r].committed
    /\ \A r \in Live(n) \ Live(m) : n.seqs[r].pages = <<>>

\* Changing only lengths and reservations leaves pages, index and tails sound.
LEMMA KeepPreserves ==
    ASSUME NEW m, KvInv(m), NEW n, SamePages(n, m), TablesKeep(m, n)
    PROVE  Accounted(n) /\ Indexed(n) /\ ExclusiveTails(n) /\ PagesType(n)
  <1>0. /\ ManagerType(m) /\ Accounted(m) /\ Indexed(m) /\ ExclusiveTails(m)
        /\ n.free = m.free /\ n.refs = m.refs /\ n.block = m.block
        /\ n.index = m.index /\ n.evictable = m.evictable /\ n.caching = m.caching
        /\ Cached(n) = Cached(m)
    BY DEF KvInv, SamePages, Cached
  <1>1. \A p : Owners(n, p) = Owners(m, p)
    <2> TAKE p
    <2>1. \A r \in Live(n) \ Live(m) : p \notin Range(n.seqs[r].pages)
      BY DEF TablesKeep, Range
    <2> QED
      BY <2>1 DEF Owners, TablesKeep
  <1>2. \A r \in Live(n) : IsInjective(n.seqs[r].pages)
    <2> TAKE r \in Live(n)
    <2>1. CASE r \in Live(m)
      BY <1>0, <2>1 DEF Accounted, TablesKeep
    <2>2. CASE r \notin Live(m)
      BY <2>2 DEF IsInjective, TablesKeep
    <2> QED
      BY <2>1, <2>2
  <1>3. Accounted(n)
    BY <1>0, <1>1, <1>2 DEF Accounted, Available
  <1>4. Indexed(n)
    BY <1>0 DEF Indexed
  <1>5. ExclusiveTails(n)
    <2> SUFFICES ASSUME NEW r \in Live(n), NEW j \in DOMAIN n.seqs[r].pages,
                        j * BlockSize > n.seqs[r].committed
                 PROVE  /\ Owners(n, n.seqs[r].pages[j]) = {r}
                        /\ n.block[n.seqs[r].pages[j]] = NoBlock
      BY DEF ExclusiveTails
    <2>1. r \in Live(m)
      BY DEF TablesKeep
    <2>2. /\ n.seqs[r].pages = m.seqs[r].pages /\ n.seqs[r].committed \in Nat
          /\ n.seqs[r].committed >= m.seqs[r].committed
      BY <2>1 DEF TablesKeep
    <2>3. m.seqs[r].committed \in Nat /\ m.seqs[r].pages \in Seq(Page)
      BY <2>1, LiveSequence
    <2>4. j \in Nat
      BY <2>2, <2>3
    <2>5. j * BlockSize \in Int
      BY <2>4, ConfigAssumption
    <2>6. j * BlockSize > m.seqs[r].committed
      BY <2>2, <2>3, <2>5
    <2> QED
      BY <1>0, <1>1, <2>1, <2>2, <2>6 DEF ExclusiveTails
  <1> QED
    BY <1>0, <1>3, <1>4, <1>5 DEF ManagerType, PagesType

\* commit_appends and commit_append.
LEMMA CommitPreserves ==
    ASSUME NEW m, KvInv(m), NEW ids \in SUBSET DOMAIN m.resv
    PROVE  LET n == CommitAppends(m, ids)
               to == [i \in ids |-> m.resv[i].start + m.resv[i].count]
           IN  KvInv(n) /\ Settleable(m, ids, to) /\ SettledTo(m, ids, to, n)
  <1> DEFINE n == CommitAppends(m, ids)
             to == [i \in ids |-> m.resv[i].start + m.resv[i].count]
             S == [r \in Live(m) |->
                     IF r \in Owned(m, ids)
                     THEN [m.seqs[r] EXCEPT !.committed = m.resv[m.seqs[r].pending].start
                                                            + m.resv[m.seqs[r].pending].count,
                                            !.pending = NoPending]
                     ELSE m.seqs[r]]
             V == Restrict(m.resv, DOMAIN m.resv \ ids)
  <1>1. Settleable(m, ids, to)
    <2>1. ASSUME NEW i \in ids
          PROVE  m.resv[i].start \in Nat /\ m.resv[i].count \in Nat
      BY LiveReservation
    <2> QED
      BY <2>1 DEF Settleable
  <1>2. n = [m EXCEPT !.seqs = S, !.resv = V]
    BY DEF CommitAppends
  <1>3. /\ DOMAIN n = Field /\ SamePages(n, m) /\ n.seqs = S
        /\ n.resv = V /\ n.nextResv = m.nextResv
    <2>1. DOMAIN m = Field
      BY DEF KvInv, ManagerType
    <2> HIDE DEF n, S, V
    <2> QED
      BY <1>2, <2>1, SMT DEF Field, SamePages
  <1>4. ASSUME NEW r \in Owned(m, ids)
        PROVE  LET i == m.seqs[r].pending IN
               /\ r \in Live(m) /\ i \in ids
               /\ n.seqs[r] \in SequenceState
               /\ n.seqs[r].committed = to[i] /\ to[i] \in Nat
               /\ to[i] >= m.seqs[r].committed
               /\ n.seqs[r].pages = m.seqs[r].pages
               /\ n.seqs[r].pages = SubSeq(m.seqs[r].pages, 1, PagesFor(to[i]))
               /\ n.seqs[r].pending = NoPending
               /\ n.seqs[r].registered = m.seqs[r].registered
               /\ n.seqs[r].chain = m.seqs[r].chain
    <2> DEFINE i == m.seqs[r].pending
               t == m.seqs[r].pages
    <2>1. PICK k \in ids : m.resv[k].request = r
      BY DEF Owned
    <2>2. /\ k = i /\ i \in ids /\ r \in Live(m)
          /\ m.resv[i].start \in Nat /\ m.resv[i].count \in Nat
          /\ m.seqs[r].committed = m.resv[i].start
          /\ Len(t) = PagesFor(to[i])
      BY <2>1, LiveReservation, SMTT(30)
    <2>3. m.seqs[r] \in SequenceState /\ t \in Seq(Page)
      BY <2>2, LiveSequence
    <2>4. to[i] \in Nat /\ to[i] >= m.seqs[r].committed
      <3>1. to[i] = m.resv[i].start + m.resv[i].count
        BY <2>2
      <3> HIDE DEF to, i, t, n, S, V
      <3> QED
        BY <2>2, <3>1
    <2>5. n.seqs[r] = [m.seqs[r] EXCEPT !.committed = to[i], !.pending = NoPending]
      BY <1>3, <2>2
    <2> HIDE DEF to, n, t, i
    <2>6. t = SubSeq(t, 1, PagesFor(to[i]))
      BY <2>2, <2>3
    <2>7. NoPending \in Nat
      BY DEF NoPending
    <2>8. n.seqs[r].pages = t
      BY <2>3, <2>5 DEF SequenceState, t
    <2>9. /\ n.seqs[r] \in SequenceState /\ n.seqs[r].committed = to[i]
          /\ n.seqs[r].pending = NoPending
          /\ n.seqs[r].registered = m.seqs[r].registered
          /\ n.seqs[r].chain = m.seqs[r].chain
      BY <2>3, <2>4, <2>5, <2>7 DEF SequenceState
    <2> QED
      BY <2>2, <2>4, <2>6, <2>8, <2>9 DEF i, t
  <1>5. Live(n) = Live(m) /\ n.seqs = [r \in Live(m) |-> n.seqs[r]]
    BY <1>3 DEF Live
  <1>6. \A r \in Live(m) \ Owned(m, ids) : n.seqs[r] = m.seqs[r]
    BY <1>3
  <1> HIDE DEF n, to
  <1>7. SettledTo(m, ids, to, n)
    BY <1>3, <1>4, <1>5, <1>6 DEF SettledTo
  <1>8. Reserved(n) /\ TablesType(n)
    BY <1>1, <1>7, SettledReserved
  <1>9. TablesKeep(m, n)
    <2> SUFFICES ASSUME NEW r \in Live(m)
                 PROVE  /\ n.seqs[r].pages = m.seqs[r].pages
                        /\ n.seqs[r].committed \in Nat
                        /\ n.seqs[r].committed >= m.seqs[r].committed
      BY <1>5 DEF TablesKeep
    <2>1. CASE r \in Owned(m, ids)
      BY <1>4, <2>1
    <2>2. CASE r \notin Owned(m, ids)
      <3>1. n.seqs[r] = m.seqs[r] /\ m.seqs[r].committed \in Nat
        BY <1>6, <2>2, LiveSequence
      <3> QED
        BY <3>1
    <2> QED
      BY <2>1, <2>2
  <1>10. Accounted(n) /\ Indexed(n) /\ ExclusiveTails(n) /\ PagesType(n)
    BY <1>3, <1>9, KeepPreserves
  <1>11. KvInv(n)
    BY <1>3, <1>8, <1>10, TypeParts DEF KvInv
  <1> QED
    BY <1>1, <1>7, <1>11 DEF n, to


\* A sequence added to a manager in order: the tables and reservations stay so.
LEMMA AddedReserved ==
    ASSUME NEW m, KvInv(m), NEW r \in Request \ Live(m), NEW n, NEW new \in SequenceState,
           new.pending = NoPending, Len(new.pages) = PagesFor(new.committed),
           n.seqs = [q \in Live(m) \cup {r} |-> IF q = r THEN new ELSE m.seqs[q]],
           n.resv = m.resv, n.nextResv = m.nextResv
    PROVE  Reserved(n) /\ TablesType(n)
  <1>1. /\ Live(n) = Live(m) \cup {r} /\ n.seqs[r] = new
        /\ \A q \in Live(m) : n.seqs[q] = m.seqs[q]
    BY DEF Live
  <1>2. ASSUME NEW i \in DOMAIN n.resv
        PROVE  /\ Consistent(n, i)
               /\ i < n.nextResv
               /\ n.resv[i].previous = PagesFor(n.resv[i].start)
               /\ Len(n.seqs[n.resv[i].request].pages)
                    = PagesFor(n.resv[i].start + n.resv[i].count)
    <2>1. /\ i \in DOMAIN m.resv /\ n.resv[i] = m.resv[i]
          /\ m.resv[i].request \in Live(m)
      BY LiveReservation
    <2>2. n.seqs[n.resv[i].request] = m.seqs[m.resv[i].request]
      BY <1>1, <2>1
    <2>3. Reserved(m)
      BY DEF KvInv
    <2> QED
      BY <1>1, <2>1, <2>2, <2>3, SMTT(30) DEF Reserved, Consistent
  <1>3. ASSUME NEW q \in Live(n)
        PROVE  IF n.seqs[q].pending = NoPending
               THEN Len(n.seqs[q].pages) = PagesFor(n.seqs[q].committed)
               ELSE /\ n.seqs[q].pending \in DOMAIN n.resv
                    /\ n.resv[n.seqs[q].pending].request = q
    <2>1. CASE q = r
      BY <1>1, <2>1
    <2>2. CASE q \in Live(m)
      BY <1>1, <2>2 DEF KvInv, Reserved
    <2> QED
      BY <1>1, <2>1, <2>2
  <1>4. Reserved(n)
    BY <1>2, <1>3 DEF Reserved
  <1>5. /\ Live(m) \subseteq Request /\ m.seqs \in [Live(m) -> SequenceState]
        /\ DOMAIN m.resv \subseteq Nat \ {0} /\ m.resv \in [DOMAIN m.resv -> ReservationState]
        /\ m.nextResv \in Nat \ {0}
    BY DEF KvInv, ManagerType
  <1>6. n.seqs \in [Live(n) -> SequenceState]
    BY <1>1, <1>5
  <1> QED
    BY <1>1, <1>4, <1>5, <1>6 DEF TablesType

\* create_sequence.
LEMMA CreatePreserves ==
    ASSUME NEW m, KvInv(m), NEW r \in Request \ Live(m)
    PROVE  KvInv(CreateSequence(m, r))
  <1> DEFINE n == CreateSequence(m, r)
             S == [q \in Live(m) \cup {r} |-> IF q = r THEN NewSequence ELSE m.seqs[q]]
  <1>1. n = [m EXCEPT !.seqs = S]
    BY DEF CreateSequence
  <1>2. DOMAIN m = Field
    BY DEF KvInv, ManagerType
  <1> HIDE DEF n
  <1>3. /\ DOMAIN n = Field /\ SamePages(n, m) /\ n.seqs = S
        /\ n.resv = m.resv /\ n.nextResv = m.nextResv
    BY <1>1, <1>2, SeqsFields
  <1>4. /\ NewSequence \in SequenceState /\ NewSequence.pending = NoPending
        /\ NewSequence.pages = <<>> /\ NewSequence.committed = 0
    BY DEF NewSequence, SequenceState, NoPending
  <1>5. Len(NewSequence.pages) = PagesFor(NewSequence.committed)
    <2>1. PagesFor(0 * BlockSize) = 0 /\ 0 * BlockSize = 0
      BY PagesForBlocks, ConfigAssumption
    <2> QED
      BY <1>4, <2>1
  <1>6. Reserved(n) /\ TablesType(n)
    BY <1>3, <1>4, <1>5, AddedReserved
  <1>7. TablesKeep(m, n)
    <2>1. Live(n) = Live(m) \cup {r} /\ n.seqs[r] = NewSequence
      BY <1>3 DEF Live
    <2>2. \A q \in Live(m) : n.seqs[q] = m.seqs[q] /\ m.seqs[q].committed \in Nat
      BY <1>3, LiveSequence
    <2> QED
      BY <1>4, <2>1, <2>2 DEF TablesKeep
  <1>8. Accounted(n) /\ Indexed(n) /\ ExclusiveTails(n) /\ PagesType(n)
    BY <1>3, <1>7, KeepPreserves
  <1>9. KvInv(n)
    BY <1>3, <1>6, <1>8, TypeParts DEF KvInv
  <1> QED
    BY <1>9 DEF n


-----------------------------------------------------------------------------
(* The prefix cache                                                        *)

\* With the same tables and reservations, their part of the invariant holds.
LEMMA SameTablesReserved ==
    ASSUME NEW m, KvInv(m), NEW n, SameTables(m, n)
    PROVE  /\ Reserved(n) /\ TablesType(n)
           /\ Live(n) = Live(m) /\ n.seqs = m.seqs
           /\ \A p : Owners(n, p) = Owners(m, p)
  <1>1. n.seqs = m.seqs /\ n.resv = m.resv /\ n.nextResv = m.nextResv
    BY DEF SameTables
  <1>2. Live(n) = Live(m)
    BY <1>1 DEF Live
  <1>3. \A p : Owners(n, p) = Owners(m, p)
    BY <1>1, <1>2 DEF Owners
  <1>4. Reserved(m) /\ ManagerType(m)
    BY DEF KvInv
  <1>5. Reserved(n)
    BY <1>1, <1>2, <1>4 DEF Reserved, Consistent
  <1>6. TablesType(n)
    BY <1>1, <1>2, <1>4 DEF ManagerType, TablesType
  <1> QED
    BY <1>1, <1>2, <1>3, <1>5, <1>6

\* set_prefix_caching: switching it on changes nothing else; switching it off
\* frees the evictable pages and forgets their blocks.
LEMMA SetCachingPreserves ==
    ASSUME NEW m, KvInv(m), NEW enabled \in BOOLEAN
    PROVE  KvInv(SetPrefixCaching(m, enabled))
  <1> DEFINE n == SetPrefixCaching(m, enabled)
  <1>0. ManagerType(m) /\ Accounted(m) /\ Indexed(m) /\ ExclusiveTails(m) /\ DOMAIN m = Field
    BY DEF KvInv, ManagerType
  <1>1. CASE enabled
    <2>1. n = [m EXCEPT !.caching = TRUE]
      BY <1>1 DEF SetPrefixCaching
    <2> HIDE DEF n
    <2>2. /\ DOMAIN n = Field /\ n.caching = TRUE
          /\ n.free = m.free /\ n.refs = m.refs /\ n.block = m.block
          /\ n.index = m.index /\ n.evictable = m.evictable
          /\ n.seqs = m.seqs /\ n.resv = m.resv /\ n.nextResv = m.nextResv
      BY <1>0, <2>1, SMT DEF Field
    <2>3. SameTables(m, n)
      BY <2>2 DEF SameTables
    <2>4. /\ Reserved(n) /\ TablesType(n)
          /\ Live(n) = Live(m) /\ \A p : Owners(n, p) = Owners(m, p)
      BY <2>3, SameTablesReserved
    <2>5. Cached(n) = Cached(m)
      BY <2>2 DEF Cached
    <2>6. Accounted(n) /\ Indexed(n)
      BY <1>0, <2>2, <2>4, <2>5 DEF Accounted, Indexed, Available
    <2>7. ExclusiveTails(n)
      BY <1>0, <2>2, <2>4 DEF ExclusiveTails
    <2>8. PagesType(n)
      BY <1>0, <2>2, <2>5 DEF ManagerType, PagesType
    <2>9. KvInv(n)
      BY <2>2, <2>4, <2>6, <2>7, <2>8, TypeParts DEF KvInv
    <2> QED
      BY <2>9 DEF n
  <1>2. CASE ~enabled
    <2> DEFINE d == DropCachedBlocks(m, Cached(m))
               F == m.free \cup Cached(m)
               e == [p \in {} |-> 0]
    <2>1. n = [d EXCEPT !.caching = FALSE, !.free = F, !.evictable = e]
      BY <1>2 DEF SetPrefixCaching
    <2>2. /\ DOMAIN d = Field
          /\ d.block = BlockWithout(m, Cached(m)) /\ d.index = IndexWithout(m, Cached(m))
          /\ d.refs = m.refs /\ d.seqs = m.seqs /\ d.resv = m.resv
          /\ d.nextResv = m.nextResv
      BY <1>0, DropFields
    <2>3. DOMAIN e = {} /\ e \in [{} -> Nat]
      OBVIOUS
    <2> HIDE DEF n, d, F, e
    <2>4. /\ DOMAIN n = Field /\ n.caching = FALSE
          /\ n.free = F /\ n.refs = d.refs /\ n.block = d.block
          /\ n.index = d.index /\ n.evictable = e
          /\ n.seqs = d.seqs /\ n.resv = d.resv /\ n.nextResv = d.nextResv
      BY <2>1, <2>2, SMT DEF Field
    <2>5. SameTables(m, n)
      BY <2>2, <2>4 DEF SameTables
    <2>6. /\ Reserved(n) /\ TablesType(n) /\ n.seqs = m.seqs
          /\ Live(n) = Live(m) /\ \A p : Owners(n, p) = Owners(m, p)
      BY <2>5, SameTablesReserved
    <2>7. Cached(n) = {} /\ n.free = m.free \cup Cached(m) /\ n.refs = m.refs
      BY <2>2, <2>3, <2>4 DEF Cached, F
    <2>8. Accounted(n)
      BY <1>0, <2>6, <2>7 DEF Accounted, Available
    <2>9. n.block = BlockWithout(m, Cached(m)) /\ n.index = IndexWithout(m, Cached(m))
      BY <2>2, <2>4
    <2>10. Inverted(n)
      BY <1>0, <2>9, DropIndexed
    <2>11. \A p \in Page : n.block[p] = IF p \in Cached(m) THEN NoBlock ELSE m.block[p]
      BY <2>9 DEF BlockWithout
    <2>12. Indexed(n)
      <3>1. m.free \subseteq Page /\ Cached(m) \subseteq Page
        BY <1>0 DEF ManagerType
      <3>2. \A p \in n.free : n.block[p] = NoBlock
        BY <1>0, <2>7, <2>11, <3>1 DEF Indexed
      <3> QED
        BY <2>7, <2>10, <3>2 DEF Indexed, Inverted
    <2>13. ExclusiveTails(n)
      <3> SUFFICES ASSUME NEW r \in Live(n), NEW j \in DOMAIN n.seqs[r].pages,
                          j * BlockSize > n.seqs[r].committed
                   PROVE  /\ Owners(n, n.seqs[r].pages[j]) = {r}
                          /\ n.block[n.seqs[r].pages[j]] = NoBlock
        BY DEF ExclusiveTails
      <3>1. /\ Owners(m, m.seqs[r].pages[j]) = {r}
            /\ m.block[m.seqs[r].pages[j]] = NoBlock
        BY <1>0, <2>6 DEF ExclusiveTails
      <3>2. m.seqs[r].pages[j] \in Page
        <4>1. m.seqs[r].pages \in Seq(Page)
          BY <2>6, LiveSequence
        <4> QED
          BY <2>6, <4>1
      <3> QED
        BY <2>6, <2>11, <3>1, <3>2
    <2>14. PagesType(n)
      <3>1. n.free \in SUBSET Page /\ n.refs \in [Page -> Nat]
        BY <1>0, <2>7 DEF ManagerType
      <3>2. n.caching \in BOOLEAN /\ Cached(n) \subseteq Page /\ n.evictable \in [Cached(n) -> Nat]
        BY <2>3, <2>4, <2>7
      <3> QED
        BY <2>10, <3>1, <3>2 DEF Inverted, PagesType
    <2>15. KvInv(n)
      BY <2>4, <2>6, <2>8, <2>12, <2>13, <2>14, TypeParts DEF KvInv
    <2> QED
      BY <2>15 DEF n
  <1> QED
    BY <1>1, <1>2


-----------------------------------------------------------------------------
(* Reserving                                                               *)

\* Concatenation of tables.
LEMMA ConcatTable ==
    ASSUME NEW t \in Seq(Page), NEW k \in Nat, NEW new \in [1..k -> Page]
    PROVE  /\ new \in Seq(Page) /\ Len(new) = k
           /\ t \o new \in Seq(Page) /\ Len(t \o new) = Len(t) + k
           /\ DOMAIN (t \o new) = 1 .. Len(t) + k
           /\ \A j \in 1..Len(t) : (t \o new)[j] = t[j]
           /\ \A j \in Len(t) + 1 .. Len(t) + k :
                 j - Len(t) \in 1..k /\ (t \o new)[j] = new[j - Len(t)]
           /\ \A j \in 1..k : (t \o new)[Len(t) + j] = new[j]
  <1>1. new \in Seq(Page) /\ Len(new) = k
    OBVIOUS
  <1> QED
    BY <1>1

\* The table of r has grown by the pages of new.
TableGrown(m, r, new, n) ==
    /\ Live(n) = Live(m)
    /\ \A q \in Live(m) \ {r} : n.seqs[q] = m.seqs[q]
    /\ n.seqs[r].pages = m.seqs[r].pages \o new
    /\ n.seqs[r].committed = m.seqs[r].committed
    /\ n.seqs[r].registered = m.seqs[r].registered
    /\ n.seqs[r].chain = m.seqs[r].chain

\* Pages that the allocator may return.
Obtainable(m, k, new) ==
    k \in Nat /\ new \in [1..k -> Available(m)] /\ IsInjective(new)

\* begin_append and extend_append hand out pages that nobody maps, without
\* their old blocks.
LEMMA GrowPreserves ==
    ASSUME NEW m, KvInv(m), NEW r \in Live(m), NEW k, NEW new, Obtainable(m, k, new),
           NEW n, SamePages(n, Allocate(m, new)), TableGrown(m, r, new, n)
    PROVE  Accounted(n) /\ Indexed(n) /\ ExclusiveTails(n) /\ PagesType(n)
  <1>0. ManagerType(m) /\ Accounted(m) /\ Indexed(m) /\ ExclusiveTails(m)
    BY DEF KvInv
  <1> DEFINE N == Range(new)
             t == m.seqs[r].pages
             u == n.seqs[r].pages
  <1>1. AllocatedFrom(m, new, n)
    <2>1. AllocatedFrom(m, new, Allocate(m, new))
      BY <1>0, AllocateFields
    <2> QED
      BY <2>1 DEF AllocatedFrom, SamePages, Cached
  <1>2. /\ n.free = m.free \ N
        /\ n.refs \in [Page -> Int]
        /\ \A p \in Page : n.refs[p] = IF p \in N THEN 1 ELSE m.refs[p]
        /\ n.block = BlockWithout(m, Evicted(m, new))
        /\ n.index = IndexWithout(m, Evicted(m, new))
        /\ Cached(n) = Cached(m) \ N
        /\ n.evictable \in [Cached(n) -> Nat]
        /\ n.caching = m.caching
    BY <1>1 DEF AllocatedFrom
  <1>3. k \in Nat /\ new \in [1..k -> Page] /\ IsInjective(new) /\ N \subseteq Available(m)
    <2>1. Available(m) \subseteq Page
      BY <1>0 DEF Available, ManagerType
    <2> QED
      BY <2>1 DEF Obtainable, Range
  <1>4. \A p \in N : p \in Page /\ Owners(m, p) = {}
    BY <1>0, <1>3, AvailableUnowned
  <1>5. t \in Seq(Page) /\ IsInjective(t) /\ u = t \o new
    BY LiveSequence DEF TableGrown
  <1>6. /\ u \in Seq(Page) /\ DOMAIN u = 1 .. Len(t) + k /\ Len(t) \in Nat
        /\ \A j \in 1..Len(t) : u[j] = t[j]
        /\ \A j \in Len(t) + 1 .. Len(t) + k :
              j - Len(t) \in 1..k /\ u[j] = new[j - Len(t)]
        /\ \A j \in 1..k : u[Len(t) + j] = new[j]
        /\ DOMAIN t = 1..Len(t) /\ DOMAIN new = 1..k
    <2> HIDE DEF t, u
    <2> QED
      BY <1>3, <1>5, ConcatTable
  <1>7. Range(u) = Range(t) \cup N
    <2> HIDE DEF t, u
    <2>1. \A j \in DOMAIN u : u[j] \in Range(t) \cup N
      <3> TAKE j \in DOMAIN u
      <3>1. CASE j <= Len(t)
        BY <1>6, <3>1 DEF Range
      <3>2. CASE j > Len(t)
        BY <1>6, <3>2 DEF Range
      <3> QED
        BY <1>6, <3>1, <3>2
    <2>2. \A j \in 1..Len(t) : j \in DOMAIN u /\ u[j] = t[j]
      BY <1>3, <1>6
    <2>3. \A j \in 1..k : Len(t) + j \in DOMAIN u /\ u[Len(t) + j] = new[j]
      BY <1>3, <1>6
    <2> QED
      BY <1>6, <2>1, <2>2, <2>3 DEF Range
  <1>8. /\ \A p \in N : Owners(n, p) = {r}
        /\ \A p : p \notin N => Owners(n, p) = Owners(m, p)
    <2>1. ASSUME NEW p, NEW q \in Live(m), q # r
          PROVE  q \in Owners(n, p) <=> q \in Owners(m, p)
      BY <2>1 DEF Owners, TableGrown
    <2>2. ASSUME NEW p
          PROVE  r \in Owners(n, p) <=> p \in N \/ r \in Owners(m, p)
      BY <1>7 DEF Owners, TableGrown
    <2>3. \A p : Owners(n, p) \subseteq Live(m) /\ Owners(m, p) \subseteq Live(m)
      BY DEF Owners, TableGrown
    <2>4. ASSUME NEW p \in N PROVE Owners(n, p) = {r}
      <3>1. \A q \in Live(m) : q # r => q \notin Owners(n, p)
        BY <1>4, <2>1
      <3>2. r \in Owners(n, p)
        BY <2>2
      <3> QED
        BY <2>3, <3>1, <3>2
    <2>5. ASSUME NEW p, p \notin N PROVE Owners(n, p) = Owners(m, p)
      <3>1. \A q \in Live(m) : q \in Owners(n, p) <=> q \in Owners(m, p)
        BY <2>1, <2>2, <2>5
      <3> QED
        BY <2>3, <3>1
    <2> QED
      BY <2>4, <2>5
  <1>9. IsInjective(u)
    <2> SUFFICES ASSUME NEW i \in DOMAIN u, NEW j \in DOMAIN u, u[i] = u[j], i < j
                 PROVE  FALSE
      <3> HIDE DEF u
      <3> QED
        BY <1>6 DEF IsInjective
    <2> HIDE DEF u
    <2>1. CASE j <= Len(t)
      <3>1. i \in DOMAIN t /\ j \in DOMAIN t /\ t[i] = t[j]
        BY <1>6, <2>1
      <3> QED
        BY <1>5, <1>6, <3>1, SMTT(30) DEF IsInjective
    <2>2. CASE i > Len(t)
      <3>1. /\ i - Len(t) \in DOMAIN new /\ j - Len(t) \in DOMAIN new
            /\ new[i - Len(t)] = new[j - Len(t)]
            /\ i \in Int /\ j \in Int /\ Len(t) \in Int
        <4> HIDE DEF t
        <4> QED
          BY <1>3, <1>6, <2>2
      <3>2. i - Len(t) = j - Len(t)
        BY <1>3, <3>1 DEF IsInjective
      <3> HIDE DEF t
      <3> QED
        BY <3>1, <3>2
    <2>3. CASE i <= Len(t) /\ j > Len(t)
      <3>1. i \in DOMAIN t /\ u[i] = t[i]
        BY <1>6, <2>3
      <3>2. j - Len(t) \in DOMAIN new /\ u[j] = new[j - Len(t)]
        <4> HIDE DEF t
        <4> QED
          BY <1>3, <1>6, <2>3
      <3>3. u[j] \in N /\ u[j] \in Range(t)
        BY <3>1, <3>2 DEF Range
      <3>4. r \in Owners(m, u[j])
        BY <3>3 DEF Owners
      <3> QED
        BY <1>4, <3>3, <3>4
    <2> QED
      BY <1>3, <1>6, <2>1, <2>2, <2>3
  <1>10. \A q \in Live(n) : IsInjective(n.seqs[q].pages)
    BY <1>0, <1>9 DEF TableGrown, Accounted
  <1>11. /\ \A p \in Page : m.refs[p] \in Nat /\ m.refs[p] = Cardinality(Owners(m, p))
         /\ \A p \in Page : m.refs[p] = 0 <=> p \in m.free \cup Cached(m)
         /\ m.free \cap Cached(m) = {}
         /\ m.free \subseteq Page /\ Cached(m) \subseteq Page
    BY <1>0 DEF ManagerType, Accounted, Available
  <1>12. \A p \in Page : n.refs[p] = Cardinality(Owners(n, p)) /\ n.refs[p] \in Nat
    <2> TAKE p \in Page
    <2>1. CASE p \in N
      <3>1. Owners(n, p) = {r} /\ n.refs[p] = 1
        BY <1>2, <1>8, <2>1
      <3>2. Cardinality({r}) = 1
        BY FS_Singleton
      <3> QED
        BY <3>1, <3>2
    <2>2. CASE p \notin N
      BY <1>2, <1>8, <1>11, <2>2
    <2> QED
      BY <2>1, <2>2
  <1>13. \A p \in Page : n.refs[p] = 0 <=> p \in n.free \cup Cached(n)
    BY <1>2, <1>11
  <1>14. n.free \cap Cached(n) = {}
    BY <1>2, <1>11
  <1>15. Accounted(n)
    BY <1>10, <1>12, <1>13, <1>14 DEF Accounted, Available
  <1>16. Inverted(n)
    BY <1>0, <1>2, DropIndexed
  <1>17. \A p \in Page : n.block[p] = IF p \in N \cap Cached(m) THEN NoBlock ELSE m.block[p]
    BY <1>2 DEF BlockWithout, Evicted
  <1>18. /\ \A p \in m.free : m.block[p] = NoBlock
         /\ \A p \in Cached(m) : m.block[p] # NoBlock
    BY <1>0 DEF Indexed
  <1>19. \A p \in N : n.block[p] = NoBlock
    BY <1>3, <1>4, <1>17, <1>18 DEF Available
  <1>20. Indexed(n)
    <2>1. /\ \A p \in n.free : n.block[p] = NoBlock
          /\ \A p \in Cached(n) : n.block[p] # NoBlock
      BY <1>2, <1>11, <1>17, <1>18
    <2> QED
      BY <1>16, <2>1 DEF Indexed, Inverted
  <1>21. ExclusiveTails(n)
    <2> SUFFICES ASSUME NEW q \in Live(n), NEW j \in DOMAIN n.seqs[q].pages,
                        j * BlockSize > n.seqs[q].committed
                 PROVE  /\ Owners(n, n.seqs[q].pages[j]) = {q}
                        /\ n.block[n.seqs[q].pages[j]] = NoBlock
      BY DEF ExclusiveTails
    <2>0. q \in Live(m) /\ n.seqs[q].committed = m.seqs[q].committed
      BY DEF TableGrown
    <2>1. ASSUME j \in DOMAIN m.seqs[q].pages, n.seqs[q].pages[j] = m.seqs[q].pages[j]
          PROVE  /\ Owners(n, n.seqs[q].pages[j]) = {q}
                 /\ n.block[n.seqs[q].pages[j]] = NoBlock
      <3> DEFINE p == m.seqs[q].pages[j]
      <3>1. Owners(m, p) = {q} /\ m.block[p] = NoBlock
        BY <1>0, <2>0, <2>1 DEF ExclusiveTails
      <3>2. p \notin N
        BY <1>4, <3>1
      <3>3. p \in Page
        <4>1. m.seqs[q].pages \in Seq(Page)
          BY <2>0, LiveSequence
        <4> QED
          BY <2>1, <4>1
      <3> QED
        BY <1>8, <1>17, <2>1, <3>1, <3>2, <3>3
    <2>2. CASE q # r
      BY <2>0, <2>1, <2>2 DEF TableGrown
    <2>3. CASE q = r /\ j <= Len(t)
      <3>1. j \in DOMAIN t /\ u[j] = t[j]
        <4> HIDE DEF t
        <4> QED
          BY <1>6, <2>3
      <3> QED
        BY <2>1, <2>3, <3>1
    <2>4. CASE q = r /\ j > Len(t)
      <3>1. j - Len(t) \in DOMAIN new /\ u[j] = new[j - Len(t)]
        <4> HIDE DEF t
        <4> QED
          BY <1>3, <1>6, <2>4
      <3>2. u[j] \in N
        BY <3>1 DEF Range
      <3> QED
        BY <1>8, <1>19, <2>4, <3>2
    <2> QED
      <3>1. q = r => j \in Int /\ Len(t) \in Int
        <4> HIDE DEF t
        <4> QED
          BY <1>3, <1>6
      <3> QED
        BY <2>2, <2>3, <2>4, <3>1
  <1>22. n.refs \in [Page -> Nat]
    BY <1>2, <1>12
  <1> QED
    BY <1>0, <1>2, <1>11, <1>15, <1>16, <1>20, <1>21, <1>22 DEF ManagerType, PagesType, Inverted


\* The pages an append needs, for a table that holds what fewer tokens need.
LEMMA AdditionalPages ==
    ASSUME NEW m, KvInv(m), NEW r \in Live(m), NEW held \in Nat, NEW end \in Nat,
           held <= end, Len(m.seqs[r].pages) = PagesFor(held)
    PROVE  /\ Additional(m, r, end) \in Nat
           /\ Len(m.seqs[r].pages) + Additional(m, r, end) = PagesFor(end)
  <1> DEFINE l == Len(m.seqs[r].pages)
             e == PagesFor(end)
  <1>1. l \in Nat /\ e \in Nat /\ l <= e
    BY PagesForBounds, PagesForMonotonic
  <1>2. Additional(m, r, end) = IF e - l > 0 THEN e - l ELSE 0
    BY DEF Additional
  <1> HIDE DEF l, e
  <1>3. Additional(m, r, end) \in Nat /\ l + Additional(m, r, end) = e
    BY <1>1, <1>2
  <1> QED
    BY <1>3 DEF l, e

\* What allocate_page returns is obtainable.
LEMMA AllocationsObtainable ==
    ASSUME NEW m, NEW k \in Nat, NEW new \in Allocations(m, k)
    PROVE  Obtainable(m, k, new)
  BY DEF Allocations, Obtainable

\* A table that grew by obtainable pages.
LEMMA GrownTable ==
    ASSUME NEW m, KvInv(m), NEW r \in Live(m), NEW k, NEW new, Obtainable(m, k, new)
    PROVE  /\ m.seqs[r].pages \o new \in Seq(Page)
           /\ Len(m.seqs[r].pages \o new) = Len(m.seqs[r].pages) + k
  <1>1. Available(m) \subseteq Page
    BY DEF KvInv, Available, ManagerType
  <1>2. k \in Nat /\ new \in [1..k -> Page]
    BY <1>1 DEF Obtainable
  <1>3. m.seqs[r].pages \in Seq(Page)
    BY LiveSequence
  <1> QED
    BY <1>2, <1>3, ConcatTable

\* begin_append.
LEMMA BeginPreserves ==
    ASSUME NEW m, KvInv(m), NEW r, NEW count \in Nat, CanBegin(m, r, count),
           NEW new \in Allocations(m, Additional(m, r, m.seqs[r].committed + count))
    PROVE  LET n == BeginAppend(m, r, count, new)
           IN  /\ KvInv(n) /\ TableGrown(m, r, new, n)
               /\ \E k : Obtainable(m, k, new)
  <1> DEFINE n == BeginAppend(m, r, count, new)
             s == m.seqs[r]
             id == m.nextResv
             d == Allocate(m, new)
             k == Additional(m, r, s.committed + count)
             g == [s EXCEPT !.pages = s.pages \o new, !.pending = id]
             v == [request |-> r, previous |-> Len(s.pages), start |-> s.committed, count |-> count]
             S == [m.seqs EXCEPT ![r] = g]
             V == [i \in DOMAIN m.resv \cup {id} |-> IF i = id THEN v ELSE m.resv[i]]
  <1>1. r \in Live(m) /\ count > 0 /\ s.pending = NoPending
    BY DEF CanBegin, CanAppend
  <1>2. /\ r \in Request /\ s \in SequenceState /\ s.committed \in Nat /\ s.pages \in Seq(Page)
    BY <1>1, LiveSequence
  <1>3. ManagerType(m) /\ Reserved(m)
    BY DEF KvInv
  <1>4. /\ id \in Nat \ {0} /\ m.seqs \in [Live(m) -> SequenceState] /\ Live(m) \subseteq Request
        /\ DOMAIN m.resv \subseteq Nat \ {0} /\ m.resv \in [DOMAIN m.resv -> ReservationState]
    BY <1>3 DEF ManagerType
  <1>5. Len(s.pages) = PagesFor(s.committed)
    BY <1>1, <1>3 DEF Reserved
  <1>6. k \in Nat /\ Len(s.pages) + k = PagesFor(s.committed + count)
    <2>1. s.committed + count \in Nat /\ s.committed <= s.committed + count
      BY <1>2, SMT
    <2> QED
      BY <1>1, <1>2, <1>5, <2>1, AdditionalPages
  <1>7. Obtainable(m, k, new)
    BY <1>6, AllocationsObtainable
  <1>8. /\ s.pages \o new \in Seq(Page)
        /\ Len(s.pages \o new) = PagesFor(s.committed + count)
    BY <1>1, <1>6, <1>7, GrownTable
  <1>9. n = [d EXCEPT !.seqs = S, !.resv = V, !.nextResv = id + 1]
    BY DEF BeginAppend
  <1>10. DOMAIN d = Field
    BY <1>3, AllocateFields DEF SameTables
  <1>11. /\ DOMAIN n = Field /\ SamePages(n, d) /\ n.seqs = S
         /\ n.resv = V /\ n.nextResv = id + 1
    <2> HIDE DEF n, d, S, V, id
    <2> QED
      BY <1>9, <1>10, SMT DEF Field, SamePages
  <1>12. /\ g \in SequenceState /\ g.pages = s.pages \o new
         /\ g.committed = s.committed /\ g.pending = id
         /\ g.registered = s.registered /\ g.chain = s.chain
    <2> DEFINE w == s.pages \o new
    <2>1. w \in Seq(Page) /\ id \in Nat /\ s \in SequenceState
      BY <1>2, <1>4, <1>8
    <2> HIDE DEF s, w, id
    <2>2. [s EXCEPT !.pages = w, !.pending = id] \in SequenceState
      BY <2>1 DEF SequenceState
    <2>3. /\ [s EXCEPT !.pages = w, !.pending = id].pages = w
          /\ [s EXCEPT !.pages = w, !.pending = id].committed = s.committed
          /\ [s EXCEPT !.pages = w, !.pending = id].pending = id
          /\ [s EXCEPT !.pages = w, !.pending = id].registered = s.registered
          /\ [s EXCEPT !.pages = w, !.pending = id].chain = s.chain
      BY <2>1 DEF SequenceState
    <2> QED
      BY <2>2, <2>3 DEF w
  <1> HIDE DEF g
  <1>13. /\ Live(n) = Live(m) /\ n.seqs[r] = g /\ n.seqs \in [Live(n) -> SequenceState]
         /\ \A q \in Live(m) \ {r} : n.seqs[q] = m.seqs[q]
    BY <1>1, <1>4, <1>11, <1>12 DEF Live
  <1>14. TableGrown(m, r, new, n)
    BY <1>12, <1>13 DEF TableGrown
  <1>15. Accounted(n) /\ Indexed(n) /\ ExclusiveTails(n) /\ PagesType(n)
    <2> HIDE DEF n, k
    <2> QED
      BY <1>1, <1>7, <1>11, <1>14, GrowPreserves
  <1>16. v \in ReservationState
    BY <1>1, <1>2 DEF ReservationState
  <1>17. /\ DOMAIN n.resv = DOMAIN m.resv \cup {id} /\ n.resv[id] = v
         /\ \A i \in DOMAIN m.resv : i < id /\ n.resv[i] = m.resv[i]
    <2>1. \A i \in DOMAIN m.resv : i < id
      BY LiveReservation
    <2>2. id \notin DOMAIN m.resv
      BY <1>4, <2>1
    <2> HIDE DEF v, id
    <2> QED
      BY <1>11, <2>1, <2>2
  <1>18. TablesType(n)
    <2>1. n.resv \in [DOMAIN n.resv -> ReservationState]
      BY <1>4, <1>11, <1>16
    <2>2. id + 1 \in Nat \ {0}
      BY <1>4
    <2> HIDE DEF n
    <2> QED
      BY <1>4, <1>11, <1>13, <1>17, <2>1, <2>2 DEF TablesType
  <1>19. Reserved(n)
    <2>1. ASSUME NEW i \in DOMAIN n.resv
          PROVE  /\ Consistent(n, i)
                 /\ i < n.nextResv
                 /\ n.resv[i].previous = PagesFor(n.resv[i].start)
                 /\ Len(n.seqs[n.resv[i].request].pages)
                      = PagesFor(n.resv[i].start + n.resv[i].count)
      <3>1. CASE i = id
        <4>1. /\ n.resv[i].request = r /\ n.resv[i].start = s.committed
              /\ n.resv[i].count = count /\ n.resv[i].previous = Len(s.pages)
          BY <1>17, <3>1
        <4>2. Len(g.pages) >= Len(s.pages) /\ Len(g.pages) = PagesFor(s.committed + count)
          BY <1>2, <1>6, <1>8, <1>12
        <4>3. id < n.nextResv
          BY <1>4, <1>11
        <4> HIDE DEF n
        <4> QED
          BY <1>1, <1>5, <1>12, <1>13, <3>1, <4>1, <4>2, <4>3 DEF Consistent
      <3>2. CASE i # id
        <4>1. i \in DOMAIN m.resv /\ n.resv[i] = m.resv[i] /\ i < id
          BY <1>17, <3>2
        <4>2. /\ m.resv[i].request \in Live(m) /\ m.seqs[m.resv[i].request].pending = i /\ i # 0
          BY <4>1, LiveReservation
        <4>3. m.resv[i].request # r
          BY <1>1, <4>2 DEF NoPending
        <4>4. n.seqs[m.resv[i].request] = m.seqs[m.resv[i].request]
          BY <1>13, <4>2, <4>3
        <4>5. i < n.nextResv
          BY <1>4, <1>11, <4>1
        <4> HIDE DEF n
        <4> QED
          BY <1>3, <1>13, <4>1, <4>2, <4>4, <4>5, SMTT(30) DEF Reserved, Consistent
      <3> QED
        BY <3>1, <3>2
    <2>2. ASSUME NEW q \in Live(n)
          PROVE  IF n.seqs[q].pending = NoPending
                 THEN Len(n.seqs[q].pages) = PagesFor(n.seqs[q].committed)
                 ELSE /\ n.seqs[q].pending \in DOMAIN n.resv
                      /\ n.resv[n.seqs[q].pending].request = q
      <3>1. CASE q = r
        <4>1. n.seqs[q].pending = id /\ id # NoPending
          BY <1>4, <1>12, <1>13, <3>1 DEF NoPending
        <4>2. id \in DOMAIN n.resv /\ n.resv[id].request = r
          BY <1>17
        <4> HIDE DEF n
        <4> QED
          BY <3>1, <4>1, <4>2
      <3>2. CASE q # r
        <4>1. q \in Live(m) /\ n.seqs[q] = m.seqs[q]
          BY <1>13, <3>2
        <4> HIDE DEF n
        <4> QED
          BY <1>3, <1>17, <4>1 DEF Reserved
      <3> QED
        BY <3>1, <3>2
    <2> HIDE DEF n
    <2> QED
      BY <2>1, <2>2 DEF Reserved
  <1> HIDE DEF n
  <1>20. KvInv(n)
    BY <1>11, <1>15, <1>18, <1>19, TypeParts DEF KvInv
  <1> QED
    BY <1>7, <1>14, <1>20 DEF n


\* extend_append.
LEMMA ExtendPreserves ==
    ASSUME NEW m, KvInv(m), NEW id, NEW extra \in Nat, CanExtend(m, id, extra),
           NEW new \in Allocations(m, Additional(m, m.resv[id].request,
                                     m.resv[id].start + m.resv[id].count + extra))
    PROVE  LET n == ExtendAppend(m, id, extra, new)
           IN  /\ KvInv(n) /\ TableGrown(m, m.resv[id].request, new, n)
               /\ \E k : Obtainable(m, k, new)
  <1> DEFINE n == ExtendAppend(m, id, extra, new)
             v == m.resv[id]
             r == v.request
             s == m.seqs[r]
             d == Allocate(m, new)
             end == v.start + v.count + extra
             k == Additional(m, r, end)
             g == [s EXCEPT !.pages = s.pages \o new]
             w == [v EXCEPT !.count = v.count + extra]
             S == [m.seqs EXCEPT ![r] = g]
             V == [m.resv EXCEPT ![id] = w]
  <1>1. id \in DOMAIN m.resv
    BY DEF CanExtend, Consistent
  <1>2. /\ id \in Nat \ {0} /\ v \in ReservationState /\ id < m.nextResv
        /\ v.start \in Nat /\ v.count \in Nat \ {0}
        /\ v.previous = PagesFor(v.start)
        /\ r \in Live(m) /\ s.pending = id /\ s.committed = v.start
        /\ Len(s.pages) = PagesFor(v.start + v.count)
    BY <1>1, LiveReservation
  <1>3. ManagerType(m) /\ Reserved(m)
    BY DEF KvInv
  <1>4. /\ m.seqs \in [Live(m) -> SequenceState] /\ Live(m) \subseteq Request
        /\ DOMAIN m.resv \subseteq Nat \ {0} /\ m.resv \in [DOMAIN m.resv -> ReservationState]
        /\ m.nextResv \in Nat \ {0}
    BY <1>3 DEF ManagerType
  <1>5. s \in SequenceState /\ s.pages \in Seq(Page)
    BY <1>2, LiveSequence
  <1>6. k \in Nat /\ Len(s.pages) + k = PagesFor(end)
    <2>1. v.start + v.count \in Nat /\ end \in Nat /\ v.start + v.count <= end
      <3> HIDE DEF v
      <3> QED
        BY <1>2
    <2> QED
      BY <1>2, <2>1, AdditionalPages
  <1>7. Obtainable(m, k, new)
    BY <1>6, AllocationsObtainable
  <1>8. /\ s.pages \o new \in Seq(Page)
        /\ Len(s.pages \o new) = PagesFor(end)
    <2> HIDE DEF r, k, end
    <2> QED
      BY <1>2, <1>6, <1>7, GrownTable
  <1>9. n = [d EXCEPT !.seqs = S, !.resv = V]
    BY DEF ExtendAppend
  <1>10. DOMAIN d = Field /\ d.nextResv = m.nextResv
    BY <1>3, AllocateFields DEF SameTables
  <1>11. /\ DOMAIN n = Field /\ SamePages(n, d) /\ n.seqs = S
         /\ n.resv = V /\ n.nextResv = m.nextResv
    <2> HIDE DEF n, d, S, V
    <2> QED
      BY <1>9, <1>10, SMT DEF Field, SamePages
  <1>12. /\ g \in SequenceState /\ g.pages = s.pages \o new
         /\ g.committed = s.committed /\ g.pending = id
         /\ g.registered = s.registered /\ g.chain = s.chain
    <2> DEFINE x == s.pages \o new
    <2>1. x \in Seq(Page) /\ s.pending = id /\ s \in SequenceState
      BY <1>2, <1>5, <1>8
    <2> HIDE DEF s, x
    <2>2. [s EXCEPT !.pages = x] \in SequenceState
      BY <2>1 DEF SequenceState
    <2>3. /\ [s EXCEPT !.pages = x].pages = x
          /\ [s EXCEPT !.pages = x].committed = s.committed
          /\ [s EXCEPT !.pages = x].pending = s.pending
          /\ [s EXCEPT !.pages = x].registered = s.registered
          /\ [s EXCEPT !.pages = x].chain = s.chain
      BY <2>1 DEF SequenceState
    <2> QED
      BY <2>1, <2>2, <2>3 DEF x
  <1>13. /\ w \in ReservationState /\ w.request = r /\ w.start = v.start
         /\ w.previous = v.previous /\ w.start + w.count = end
    <2> DEFINE c == v.count + extra
    <2>1. /\ c \in Nat \ {0} /\ v \in ReservationState /\ v.start \in Nat
          /\ v.start + c = end
      <3> HIDE DEF v
      <3> QED
        BY <1>2
    <2> HIDE DEF v, c
    <2>2. [v EXCEPT !.count = c] \in ReservationState
      BY <2>1 DEF ReservationState
    <2>3. /\ [v EXCEPT !.count = c].request = v.request
          /\ [v EXCEPT !.count = c].start = v.start
          /\ [v EXCEPT !.count = c].previous = v.previous
          /\ [v EXCEPT !.count = c].count = c
      BY <2>1 DEF ReservationState
    <2> QED
      BY <2>1, <2>2, <2>3 DEF c
  <1> HIDE DEF g, w
  <1>14. /\ Live(n) = Live(m) /\ n.seqs[r] = g /\ n.seqs \in [Live(n) -> SequenceState]
         /\ \A q \in Live(m) \ {r} : n.seqs[q] = m.seqs[q]
    <2> HIDE DEF n, r
    <2> QED
      BY <1>2, <1>4, <1>11, <1>12 DEF Live
  <1>15. /\ DOMAIN n.resv = DOMAIN m.resv /\ n.resv[id] = w
         /\ n.resv \in [DOMAIN n.resv -> ReservationState]
         /\ \A i \in DOMAIN m.resv \ {id} : n.resv[i] = m.resv[i]
    BY <1>1, <1>4, <1>11, <1>13
  <1>16. TableGrown(m, r, new, n)
    BY <1>12, <1>14 DEF TableGrown
  <1>17. Accounted(n) /\ Indexed(n) /\ ExclusiveTails(n) /\ PagesType(n)
    <2> HIDE DEF n, k, r
    <2> QED
      BY <1>2, <1>7, <1>11, <1>16, GrowPreserves
  <1> HIDE DEF n
  <1>18. TablesType(n)
    BY <1>4, <1>11, <1>14, <1>15 DEF TablesType
  <1>19. Reserved(n)
    <2>1. ASSUME NEW i \in DOMAIN n.resv
          PROVE  /\ Consistent(n, i)
                 /\ i < n.nextResv
                 /\ n.resv[i].previous = PagesFor(n.resv[i].start)
                 /\ Len(n.seqs[n.resv[i].request].pages)
                      = PagesFor(n.resv[i].start + n.resv[i].count)
      <3>1. CASE i = id
        <4>1. /\ n.resv[i] = w /\ n.seqs[n.resv[i].request] = g
          BY <1>13, <1>14, <1>15, <3>1
        <4>2. Len(g.pages) = PagesFor(end) /\ Len(g.pages) >= v.previous
          <5>1. PagesFor(v.start) <= PagesFor(v.start + v.count)
            <6>1. v.start \in Nat /\ v.start + v.count \in Nat /\ v.start <= v.start + v.count
              <7> HIDE DEF v
              <7> QED
                BY <1>2
            <6> QED
              BY <6>1, PagesForMonotonic
          <5>2. PagesFor(v.start) \in Nat /\ Len(s.pages) \in Nat
            <6>1. Len(s.pages) \in Nat
              <7> HIDE DEF s
              <7> QED
                BY <1>5
            <6>2. v.start \in Nat
              BY <1>2
            <6> QED
              BY <6>1, <6>2, PagesForBounds
          <5>3. Len(g.pages) = PagesFor(end) /\ Len(s.pages) + k = PagesFor(end)
            BY <1>6, <1>8, <1>12
          <5> HIDE DEF k, s, end
          <5> QED
            BY <1>2, <1>6, <5>1, <5>2, <5>3
        <4>3. w.request \in Live(n) /\ id \in DOMAIN n.resv
          BY <1>1, <1>2, <1>13, <1>14, <1>15
        <4>4. /\ g.pending = id /\ g.committed = w.start /\ Len(g.pages) >= w.previous
              /\ w.previous = PagesFor(w.start) /\ Len(g.pages) = PagesFor(w.start + w.count)
              /\ id < n.nextResv
          BY <1>2, <1>11, <1>12, <1>13, <4>2
        <4> QED
          BY <3>1, <4>1, <4>3, <4>4 DEF Consistent
      <3>2. CASE i # id
        <4>1. i \in DOMAIN m.resv /\ n.resv[i] = m.resv[i]
          BY <1>15, <3>2
        <4>2. m.resv[i].request \in Live(m) /\ m.seqs[m.resv[i].request].pending = i
          BY <4>1, LiveReservation
        <4>3. m.resv[i].request # r
          BY <1>2, <3>2, <4>2
        <4>4. n.seqs[m.resv[i].request] = m.seqs[m.resv[i].request]
          BY <1>14, <4>2, <4>3
        <4> HIDE DEF r
        <4> QED
          BY <1>3, <1>11, <1>14, <4>1, <4>2, <4>4, SMTT(30) DEF Reserved, Consistent
      <3> QED
        BY <3>1, <3>2
    <2>2. ASSUME NEW q \in Live(n)
          PROVE  IF n.seqs[q].pending = NoPending
                 THEN Len(n.seqs[q].pages) = PagesFor(n.seqs[q].committed)
                 ELSE /\ n.seqs[q].pending \in DOMAIN n.resv
                      /\ n.resv[n.seqs[q].pending].request = q
      <3>1. CASE q = r
        <4>1. n.seqs[q].pending = id /\ id # NoPending
          BY <1>2, <1>12, <1>14, <3>1 DEF NoPending
        <4>2. id \in DOMAIN n.resv /\ n.resv[id].request = r
          BY <1>1, <1>13, <1>15
        <4> QED
          BY <3>1, <4>1, <4>2
      <3>2. CASE q # r
        <4>1. q \in Live(m) /\ n.seqs[q] = m.seqs[q]
          BY <1>14, <3>2
        <4>2. CASE m.seqs[q].pending = NoPending
          BY <1>3, <4>1, <4>2 DEF Reserved
        <4>3. CASE m.seqs[q].pending # NoPending
          <5>1. m.seqs[q].pending \in DOMAIN m.resv /\ m.resv[m.seqs[q].pending].request = q
            BY <4>1, <4>3, LiveSequence
          <5>2. m.seqs[q].pending # id
            BY <3>2, <5>1
          <5> QED
            BY <1>15, <4>1, <4>3, <5>1, <5>2
        <4> QED
          BY <4>2, <4>3
      <3> QED
        BY <3>1, <3>2
    <2> QED
      BY <2>1, <2>2 DEF Reserved
  <1>20. KvInv(n)
    BY <1>11, <1>17, <1>18, <1>19, TypeParts DEF KvInv
  <1> QED
    BY <1>7, <1>16, <1>20 DEF n, r


-----------------------------------------------------------------------------
(* Sharing                                                                 *)

\* A sequence is added whose table maps the published pages of `pages`.
Shared(m, r, pages, n) ==
    /\ Live(n) = Live(m) \cup {r}
    /\ \A q \in Live(m) : n.seqs[q] = m.seqs[q]
    /\ n.seqs[r].pages = pages
    /\ n.seqs[r].committed = Len(pages) * BlockSize

\* create_sequence_with_prefix counts one more owner for each mapped page and
\* takes it out of the evictable ones.
LEMMA SharePreserves ==
    ASSUME NEW m, KvInv(m), NEW r, r \notin Live(m), NEW pages \in Seq(Page),
           IsInjective(pages), \A p \in Range(pages) : m.block[p] # NoBlock,
           NEW n, SamePages(n, AcquireCached(m, Range(pages))), Shared(m, r, pages, n)
    PROVE  Accounted(n) /\ Indexed(n) /\ ExclusiveTails(n) /\ PagesType(n)
  <1> DEFINE H == Range(pages)
  <1>0. ManagerType(m) /\ Accounted(m) /\ Indexed(m) /\ ExclusiveTails(m)
    BY DEF KvInv
  <1>1. AcquiredFrom(m, H, n)
    <2>1. AcquiredFrom(m, H, AcquireCached(m, H))
      BY <1>0, AcquireFields
    <2> QED
      BY <2>1 DEF AcquiredFrom, SamePages, Cached
  <1>2. /\ n.refs \in [Page -> Int]
        /\ \A p \in Page : n.refs[p] = IF p \in H THEN m.refs[p] + 1 ELSE m.refs[p]
        /\ Cached(n) = Cached(m) \ H
        /\ n.evictable \in [Cached(n) -> Nat]
        /\ n.free = m.free /\ n.block = m.block /\ n.index = m.index
        /\ n.caching = m.caching
    BY <1>1 DEF AcquiredFrom
  <1>3. H \subseteq Page /\ H \cap m.free = {}
    BY <1>0 DEF Range, Indexed
  <1>4. /\ \A p \in Page : m.refs[p] \in Nat /\ m.refs[p] = Cardinality(Owners(m, p))
        /\ \A p \in Page : m.refs[p] = 0 <=> p \in m.free \cup Cached(m)
        /\ m.free \cap Cached(m) = {}
        /\ m.free \subseteq Page /\ Cached(m) \subseteq Page
    BY <1>0 DEF ManagerType, Accounted, Available
  <1>5. /\ \A p \in H : Owners(n, p) = Owners(m, p) \cup {r}
        /\ \A p : p \notin H => Owners(n, p) = Owners(m, p)
        /\ \A p : r \notin Owners(m, p)
    BY DEF Owners, Shared
  <1>6. \A p \in Page : n.refs[p] = Cardinality(Owners(n, p)) /\ n.refs[p] \in Nat
    <2> TAKE p \in Page
    <2>1. CASE p \in H
      <3>1. IsFiniteSet(Owners(m, p)) /\ r \notin Owners(m, p)
        BY <1>0, <1>5, OwnersFinite
      <3>2. Cardinality(Owners(m, p) \cup {r}) = Cardinality(Owners(m, p)) + 1
        BY <3>1, FS_AddElement
      <3>3. n.refs[p] = m.refs[p] + 1 /\ Owners(n, p) = Owners(m, p) \cup {r}
        BY <1>2, <1>5, <2>1
      <3>4. m.refs[p] \in Nat /\ m.refs[p] = Cardinality(Owners(m, p))
        BY <1>4
      <3> HIDE DEF H
      <3> QED
        BY <3>2, <3>3, <3>4
    <2>2. CASE p \notin H
      BY <1>2, <1>4, <1>5, <2>2
    <2> QED
      BY <2>1, <2>2
  <1>7. \A p \in Page : n.refs[p] = 0 <=> p \in n.free \cup Cached(n)
    <2> TAKE p \in Page
    <2>1. CASE p \in H
      <3>1. n.refs[p] # 0
        BY <1>2, <1>4, <2>1
      <3> QED
        BY <1>2, <1>3, <2>1, <3>1
    <2>2. CASE p \notin H
      BY <1>2, <1>4, <2>2
    <2> QED
      BY <2>1, <2>2
  <1>8. \A q \in Live(n) : IsInjective(n.seqs[q].pages)
    BY <1>0 DEF Shared, Accounted
  <1>9. Accounted(n)
    BY <1>2, <1>4, <1>6, <1>7, <1>8 DEF Accounted, Available
  <1>10. Indexed(n)
    BY <1>0, <1>2 DEF Indexed
  <1>11. ExclusiveTails(n)
    <2> SUFFICES ASSUME NEW q \in Live(n), NEW j \in DOMAIN n.seqs[q].pages,
                        j * BlockSize > n.seqs[q].committed
                 PROVE  /\ Owners(n, n.seqs[q].pages[j]) = {q}
                        /\ n.block[n.seqs[q].pages[j]] = NoBlock
      BY DEF ExclusiveTails
    <2>1. CASE q = r
      <3>1. j \in Int /\ j <= Len(pages) /\ j * BlockSize > Len(pages) * BlockSize
        BY <2>1 DEF Shared
      <3>2. ASSUME j < Len(pages) PROVE FALSE
        <4>1. BlockSize * j + BlockSize <= BlockSize * Len(pages)
          BY <3>1, <3>2, MulGap
        <4>2. /\ BlockSize * j = j * BlockSize /\ BlockSize * Len(pages) = Len(pages) * BlockSize
              /\ j * BlockSize \in Int /\ Len(pages) * BlockSize \in Int
          BY <3>1, ConfigAssumption
        <4> QED
          BY <3>1, <4>1, <4>2, ConfigAssumption
      <3>3. j = Len(pages)
        BY <3>1, <3>2
      <3>4. Len(pages) * BlockSize \in Int
        BY ConfigAssumption
      <3> QED
        BY <3>1, <3>3, <3>4
    <2>2. CASE q # r
      <3>1. q \in Live(m) /\ n.seqs[q] = m.seqs[q]
        BY <2>2 DEF Shared
      <3>2. /\ Owners(m, m.seqs[q].pages[j]) = {q}
            /\ m.block[m.seqs[q].pages[j]] = NoBlock
        BY <1>0, <3>1 DEF ExclusiveTails
      <3> QED
        BY <1>2, <1>5, <3>1, <3>2
    <2> QED
      BY <2>1, <2>2
  <1>12. n.refs \in [Page -> Nat]
    BY <1>2, <1>6
  <1>13. PagesType(n)
    BY <1>0, <1>2, <1>4, <1>12 DEF ManagerType, PagesType
  <1> QED
    BY <1>9, <1>10, <1>11, <1>13

\* The key of a block that lies within the tokens.
LEMMA KeyLength ==
    ASSUME NEW tokens \in Seq(Token), NEW b \in Nat, BlockSize * b <= Len(tokens)
    PROVE  /\ BlockKey(tokens, b) \in Seq(Token)
           /\ Len(BlockKey(tokens, b)) = BlockSize * b
  <1> DEFINE e == b * BlockSize
  <1>1. e = BlockSize * b /\ e \in Nat /\ e <= Len(tokens)
    BY ConfigAssumption
  <1> HIDE DEF e
  <1>2. SubSeq(tokens, 1, e) \in Seq(Token) /\ Len(SubSeq(tokens, 1, e)) = e
    BY <1>1
  <1> QED
    BY <1>1, <1>2 DEF BlockKey, e

\* Blocks of different numbers end at different positions.
LEMMA BlocksDiffer ==
    ASSUME NEW a \in Nat, NEW b \in Nat, BlockSize * a = BlockSize * b
    PROVE  a = b
  <1>0. BlockSize * a \in Int /\ BlockSize * b \in Int
    BY ConfigAssumption
  <1>1. ASSUME a < b PROVE FALSE
    BY <1>0, <1>1, MulGap, ConfigAssumption
  <1>2. ASSUME b < a PROVE FALSE
    BY <1>0, <1>2, MulGap, ConfigAssumption
  <1> QED
    BY <1>1, <1>2

\* Blocks up to one that lies within n positions lie within them too.
LEMMA BlocksWithin ==
    ASSUME NEW a \in Nat, NEW b \in Nat, a <= b, NEW n \in Int, BlockSize * b <= n
    PROVE  BlockSize * a <= n
  <1>0. BlockSize * a \in Int /\ BlockSize * b \in Int
    BY ConfigAssumption
  <1>1. CASE a < b
    BY <1>0, <1>1, MulGap, ConfigAssumption
  <1>2. CASE a = b
    BY <1>2
  <1> QED
    BY <1>1, <1>2

\* What the loop of create_sequence_with_prefix matched.
LEMMA MatchedBlocks ==
    ASSUME NEW m, NEW tokens \in Seq(Token), NEW x \in Matches(m, tokens)
    PROVE  /\ x \in Nat /\ BlockSize * x <= Len(tokens)
           /\ \A b \in 1..x : BlockKey(tokens, b) \in DOMAIN m.index
  <1>1. CASE ~m.caching \/ Len(tokens) <= 1
    <2>1. x = 0
      BY <1>1 DEF Matches
    <2> QED
      BY <2>1, ConfigAssumption
  <1>2. CASE ~(~m.caching \/ Len(tokens) <= 1)
    <2>1. x \in 0..UsableBlocks(tokens) /\ \A b \in 1..x : BlockKey(tokens, b) \in DOMAIN m.index
      BY <1>2 DEF Matches
    <2>2. /\ UsableBlocks(tokens) \in Int
          /\ BlockSize * UsableBlocks(tokens) <= Len(tokens) - 1
      BY DivBounds DEF UsableBlocks
    <2>3. x \in Nat /\ UsableBlocks(tokens) \in Nat /\ x <= UsableBlocks(tokens)
      BY <2>1, <2>2
    <2>4. BlockSize * x <= Len(tokens) - 1
      BY <2>2, <2>3, BlocksWithin
    <2>5. BlockSize * x \in Int
      BY <2>3, ConfigAssumption
    <2> QED
      BY <2>1, <2>3, <2>4, <2>5
  <1> QED
    BY <1>1, <1>2

\* create_sequence_with_prefix.
LEMMA CreateWithPrefixPreserves ==
    ASSUME NEW m, KvInv(m), NEW r \in Request \ Live(m), NEW tokens \in Seq(Token),
           NEW x \in Matches(m, tokens)
    PROVE  KvInv(CreateSequenceWithPrefix(m, r, tokens, x))
  <1> DEFINE n == CreateSequenceWithPrefix(m, r, tokens, x)
             pages == [b \in 1..x |-> m.index[BlockKey(tokens, b)]]
             new == [NewSequence EXCEPT !.committed = x * BlockSize,
                                        !.pages = pages,
                                        !.registered = x,
                                        !.chain = BlockKey(tokens, x)]
             d == AcquireCached(m, Range(pages))
             S == [q \in Live(m) \cup {r} |-> IF q = r THEN new ELSE m.seqs[q]]
  <1>0. ManagerType(m) /\ Indexed(m)
    BY DEF KvInv
  <1>1. /\ x \in Nat /\ BlockSize * x <= Len(tokens)
        /\ \A b \in 1..x : BlockKey(tokens, b) \in DOMAIN m.index
    BY MatchedBlocks
  <1>2. \A b \in 1..x : /\ pages[b] \in Page
                        /\ m.block[pages[b]] = BlockKey(tokens, b)
                        /\ m.block[pages[b]] # NoBlock
    BY <1>0, <1>1 DEF Indexed, ManagerType
  <1>3. pages \in Seq(Page) /\ Len(pages) = x /\ DOMAIN pages = 1..x
    BY <1>1, <1>2
  <1>4. \A b \in 1..x : Len(BlockKey(tokens, b)) = BlockSize * b
    <2> TAKE b \in 1..x
    <2>1. b \in Nat /\ b <= x
      BY <1>1
    <2>2. BlockSize * b <= Len(tokens)
      BY <1>1, <2>1, BlocksWithin
    <2> QED
      BY <2>1, <2>2, KeyLength
  <1>5. IsInjective(pages)
    <2> SUFFICES ASSUME NEW a \in 1..x, NEW b \in 1..x, pages[a] = pages[b]
                 PROVE  a = b
      BY <1>3 DEF IsInjective
    <2>1. BlockKey(tokens, a) = BlockKey(tokens, b)
      BY <1>2
    <2>2. BlockSize * a = BlockSize * b
      BY <1>4, <2>1
    <2>3. a \in Nat /\ b \in Nat
      BY <1>1
    <2> QED
      BY <2>2, <2>3, BlocksDiffer
  <1>6. \A p \in Range(pages) : m.block[p] # NoBlock
    BY <1>2, <1>3 DEF Range
  <1>7. n = [d EXCEPT !.seqs = S]
    BY DEF CreateSequenceWithPrefix
  <1>8. DOMAIN d = Field /\ d.resv = m.resv /\ d.nextResv = m.nextResv
    BY <1>0, AcquireFields DEF SameTables
  <1>9. BlockKey(tokens, x) \in Seq(Token)
    BY <1>1, KeyLength
  <1> HIDE DEF pages
  <1>10. /\ new \in SequenceState /\ new.pending = NoPending
         /\ new.pages = pages /\ new.committed = x * BlockSize
    <2>1. x * BlockSize \in Nat
      BY <1>1, PagesForBlocks
    <2> QED
      BY <1>1, <1>3, <1>9, <2>1 DEF NewSequence, SequenceState, NoPending
  <1>11. Len(new.pages) = PagesFor(new.committed)
    BY <1>1, <1>3, <1>10, PagesForBlocks
  <1> HIDE DEF n, d, new, S
  <1>12. /\ DOMAIN n = Field /\ SamePages(n, d) /\ n.seqs = S
         /\ n.resv = m.resv /\ n.nextResv = m.nextResv
    BY <1>7, <1>8, SMT DEF Field, SamePages
  <1>13. Reserved(n) /\ TablesType(n)
    BY <1>10, <1>11, <1>12, AddedReserved DEF S
  <1>14. Shared(m, r, pages, n)
    BY <1>3, <1>10, <1>12 DEF Shared, Live, S
  <1>15. Accounted(n) /\ Indexed(n) /\ ExclusiveTails(n) /\ PagesType(n)
    BY <1>3, <1>5, <1>6, <1>12, <1>14, SharePreserves DEF d
  <1>16. KvInv(n)
    BY <1>12, <1>13, <1>15, TypeParts DEF KvInv
  <1> QED
    BY <1>16 DEF n

-----------------------------------------------------------------------------
(* Publishing                                                              *)

\* A block that register_prefix considers lies within the committed tokens and
\* within the ones the caller passed.
LEMMA CompleteWithin ==
    ASSUME NEW s \in SequenceState, NEW tokens \in Seq(Token),
           NEW b \in s.registered + 1 .. CompleteBlocks(s, tokens)
    PROVE  /\ b \in Nat /\ b >= s.registered + 1
           /\ BlockSize * b <= s.committed /\ BlockSize * b <= Len(tokens)
  <1> DEFINE c == IF s.committed < Len(tokens) THEN s.committed ELSE Len(tokens)
             q == c \div BlockSize
  <1>1. s.committed \in Nat /\ s.registered \in Nat /\ Len(tokens) \in Nat
    BY DEF SequenceState
  <1>2. c \in Nat /\ c <= s.committed /\ c <= Len(tokens)
    BY <1>1
  <1>3. q = CompleteBlocks(s, tokens)
    BY DEF CompleteBlocks
  <1> HIDE DEF c
  <1>4. q \in Int /\ BlockSize * q <= c
    BY <1>2, DivBounds
  <1> HIDE DEF q
  <1>5. b \in Nat /\ q \in Nat /\ b <= q /\ b >= s.registered + 1
    BY <1>1, <1>3, <1>4
  <1>6. BlockSize * b <= c /\ BlockSize * b \in Int
    BY <1>2, <1>4, <1>5, BlocksWithin, ConfigAssumption
  <1> QED
    BY <1>1, <1>2, <1>5, <1>6

\* Its key is as long as the registered chain and the blocks since.
LEMMA NextKeyLength ==
    ASSUME NEW s \in SequenceState, NEW tokens \in Seq(Token),
           NEW b \in s.registered + 1 .. CompleteBlocks(s, tokens)
    PROVE  /\ NextKey(s, tokens, b) \in Seq(Token)
           /\ Len(NextKey(s, tokens, b))
                 = Len(s.chain) + BlockSize * b - BlockSize * s.registered
           /\ NextKey(s, tokens, b) # NoBlock
  <1> DEFINE lo == s.registered * BlockSize
             hi == b * BlockSize
             x == SubSeq(tokens, lo + 1, hi)
             chain == s.chain
  <1>1. /\ s.registered \in Nat /\ b \in Nat /\ s.registered < b
        /\ BlockSize * b <= Len(tokens) /\ chain \in Seq(Token)
    BY CompleteWithin DEF SequenceState
  <1>2. /\ lo = BlockSize * s.registered /\ hi = BlockSize * b
        /\ lo \in Nat /\ hi \in Nat /\ hi <= Len(tokens)
    BY <1>1, ConfigAssumption
  <1>3. BlockSize * s.registered + BlockSize <= BlockSize * b
    BY <1>1, MulGap
  <1>4. lo < hi
    <2> HIDE DEF lo, hi
    <2> QED
      BY <1>2, <1>3, ConfigAssumption
  <1>5. NextKey(s, tokens, b) = chain \o x
    BY DEF NextKey
  <1> HIDE DEF lo, hi, chain
  <1>6. x \in Seq(Token) /\ Len(x) = hi - lo
    BY <1>2, <1>4
  <1> HIDE DEF x
  <1>7. chain \o x \in Seq(Token) /\ Len(chain \o x) = Len(chain) + (hi - lo)
    <2>1. chain \in Seq(Token) /\ x \in Seq(Token)
      BY <1>1, <1>6
    <2>2. chain \o x \in Seq(Token) /\ Len(chain \o x) = Len(chain) + Len(x)
      BY <2>1, ConcatProperties
    <2> QED
      BY <1>6, <2>2
  <1>8. Len(chain \o x) > 0 /\ Len(chain \o x) = Len(chain) + hi - lo
    BY <1>1, <1>2, <1>4, <1>7
  <1>9. chain \o x # NoBlock
    BY <1>8 DEF NoBlock
  <1> QED
    BY <1>2, <1>5, <1>7, <1>8, <1>9 DEF chain

\* What register_prefix publishes: the blocks of F of sequence r, block b under
\* the key K[b].
Publishable(m, r, F, K) ==
    /\ F \subseteq DOMAIN m.seqs[r].pages
    /\ \A b \in F : /\ K[b] \in Seq(Token) /\ K[b] # NoBlock
                    /\ K[b] \notin DOMAIN m.index
                    /\ m.block[m.seqs[r].pages[b]] = NoBlock
                    /\ b * BlockSize <= m.seqs[r].committed
    /\ \A a, b \in F : K[a] = K[b] => a = b

PublishedTo(m, r, F, K, n) ==
    /\ n.free = m.free /\ n.refs = m.refs
    /\ n.evictable = m.evictable /\ n.caching = m.caching
    /\ n.index \in [DOMAIN n.index -> Page] /\ n.block \in [Page -> Seq(Token)]
    /\ DOMAIN n.index = DOMAIN m.index \cup {K[b] : b \in F}
    /\ \A k \in DOMAIN m.index : n.index[k] = m.index[k]
    /\ \A b \in F : n.index[K[b]] = m.seqs[r].pages[b]
    /\ \A b \in F : n.block[m.seqs[r].pages[b]] = K[b]
    /\ \A p \in Page \ {m.seqs[r].pages[b] : b \in F} : n.block[p] = m.block[p]

\* Every table is as before.
SameBlockTables(m, n) ==
    /\ Live(n) = Live(m)
    /\ \A q \in Live(m) : /\ n.seqs[q].pages = m.seqs[q].pages
                          /\ n.seqs[q].committed = m.seqs[q].committed
                          /\ n.seqs[q].pending = m.seqs[q].pending

\* Publishing blocks of a sequence under free keys leaves pages, index and
\* tails sound.
LEMMA PublishPreserves ==
    ASSUME NEW m, KvInv(m), NEW r \in Live(m), NEW F, NEW K, Publishable(m, r, F, K),
           NEW n, PublishedTo(m, r, F, K, n), SameBlockTables(m, n)
    PROVE  Accounted(n) /\ Indexed(n) /\ ExclusiveTails(n) /\ PagesType(n)
  <1> DEFINE t == m.seqs[r].pages
  <1>0. ManagerType(m) /\ Accounted(m) /\ Indexed(m) /\ ExclusiveTails(m)
    BY DEF KvInv
  <1>1. t \in Seq(Page) /\ IsInjective(t)
    BY LiveSequence
  <1>2. \A p : Owners(n, p) = Owners(m, p)
    BY DEF Owners, SameBlockTables
  <1>3. \A b \in F : b \in DOMAIN t /\ t[b] \in Page /\ r \in Owners(m, t[b])
    <2> TAKE b \in F
    <2>1. b \in DOMAIN t
      BY DEF Publishable
    <2>2. t[b] \in Page /\ t[b] \in Range(t)
      BY <1>1, <2>1 DEF Range
    <2> QED
      BY <2>1, <2>2 DEF Owners
  <1>4. \A b \in F : t[b] \notin m.free /\ t[b] \notin Cached(m)
    BY <1>0, <1>3, AvailableUnowned DEF Available
  <1>5. Available(n) = Available(m) /\ Cached(n) = Cached(m) /\ n.free = m.free
    BY DEF Available, Cached, PublishedTo
  <1>6. Accounted(n)
    BY <1>0, <1>2, <1>5 DEF Accounted, PublishedTo, SameBlockTables
  <1>7. \A k \in DOMAIN n.index : k # NoBlock /\ n.block[n.index[k]] = k
    <2> TAKE k \in DOMAIN n.index
    <2>1. CASE k \in DOMAIN m.index
      <3>1. k # NoBlock /\ m.index[k] \in Page /\ m.block[m.index[k]] = k
        BY <1>0, <2>1 DEF Indexed, ManagerType
      <3>2. \A b \in F : t[b] # m.index[k]
        BY <3>1 DEF Publishable
      <3> QED
        BY <2>1, <3>1, <3>2 DEF PublishedTo
    <2>2. CASE k \notin DOMAIN m.index
      <3>1. PICK b \in F : k = K[b]
        BY <2>2 DEF PublishedTo
      <3> QED
        BY <3>1 DEF PublishedTo, Publishable
    <2> QED
      BY <2>1, <2>2
  <1>8. \A p \in Page : n.block[p] # NoBlock =>
           n.block[p] \in DOMAIN n.index /\ n.index[n.block[p]] = p
    <2> TAKE p \in Page
    <2>1. CASE \E b \in F : p = t[b]
      BY <2>1, SMTT(30) DEF PublishedTo
    <2>2. CASE \A b \in F : p # t[b]
      <3>1. n.block[p] = m.block[p]
        BY <2>2 DEF PublishedTo
      <3>2. m.block[p] # NoBlock =>
               m.block[p] \in DOMAIN m.index /\ m.index[m.block[p]] = p
        BY <1>0 DEF Indexed
      <3> QED
        BY <3>1, <3>2 DEF PublishedTo
    <2> QED
      BY <2>1, <2>2
  <1>9. /\ \A p \in n.free : n.block[p] = NoBlock
        /\ \A p \in Cached(n) : n.block[p] # NoBlock
    <2>1. m.free \subseteq Page /\ Cached(m) \subseteq Page
      BY <1>0 DEF ManagerType
    <2>2. \A p \in m.free \cup Cached(m) : n.block[p] = m.block[p]
      BY <1>4, <2>1 DEF PublishedTo
    <2> QED
      BY <1>0, <1>5, <2>2 DEF Indexed
  <1>10. Indexed(n)
    BY <1>7, <1>8, <1>9 DEF Indexed
  <1>11. ExclusiveTails(n)
    <2> SUFFICES ASSUME NEW q \in Live(m), NEW j \in DOMAIN m.seqs[q].pages,
                        j * BlockSize > m.seqs[q].committed
                 PROVE  /\ Owners(m, m.seqs[q].pages[j]) = {q}
                        /\ n.block[m.seqs[q].pages[j]] = NoBlock
      BY <1>2 DEF ExclusiveTails, SameBlockTables
    <2> DEFINE p == m.seqs[q].pages[j]
    <2>1. Owners(m, p) = {q} /\ m.block[p] = NoBlock /\ p \in Page
      <3>1. m.seqs[q].pages \in Seq(Page)
        BY LiveSequence
      <3> QED
        BY <1>0, <3>1 DEF ExclusiveTails
    <2>2. \A b \in F : p # t[b]
      <3> SUFFICES ASSUME NEW b \in F, p = t[b] PROVE FALSE
        OBVIOUS
      <3>1. q = r
        BY <1>3, <2>1
      <3>2. j = b
        BY <1>1, <1>3, <3>1 DEF IsInjective
      <3>3. b * BlockSize <= m.seqs[r].committed /\ b * BlockSize > m.seqs[r].committed
        BY <3>1, <3>2 DEF Publishable
      <3>4. m.seqs[r].committed \in Int /\ b \in Int
        BY <1>1, <1>3, LiveSequence, SMTT(30)
      <3>5. b * BlockSize \in Int
        BY <3>4, ConfigAssumption
      <3> QED
        BY <3>3, <3>4, <3>5
    <2> QED
      BY <2>1, <2>2 DEF PublishedTo
  <1>12. PagesType(n)
    <2>1. DOMAIN n.index \subseteq Seq(Token)
      BY <1>0 DEF ManagerType, PublishedTo, Publishable
    <2> QED
      BY <1>0, <1>5, <2>1 DEF ManagerType, PagesType, PublishedTo
  <1> QED
    BY <1>6, <1>10, <1>11, <1>12

\* register_prefix.
LEMMA RegisterPreserves ==
    ASSUME NEW m, KvInv(m), NEW r \in Live(m), NEW tokens \in Seq(Token)
    PROVE  KvInv(RegisterPrefix(m, r, tokens))
  <1> DEFINE n == RegisterPrefix(m, r, tokens)
             s == m.seqs[r]
             t == s.pages
             done == CompleteBlocks(s, tokens)
             F == FreshBlocks(m, s, tokens)
             newKeys == {NextKey(s, tokens, b) : b \in F}
             newPages == {t[b] : b \in F}
             I == [k \in DOMAIN m.index \cup newKeys |->
                     IF k \in newKeys
                     THEN t[CHOOSE b \in F : NextKey(s, tokens, b) = k]
                     ELSE m.index[k]]
             B == [p \in Page |-> IF p \in newPages
                     THEN NextKey(s, tokens, CHOOSE b \in F : t[b] = p)
                     ELSE m.block[p]]
             g == [s EXCEPT !.registered = done, !.chain = NextKey(s, tokens, done)]
             T == [m.seqs EXCEPT ![r] = g]
             K == [b \in F |-> NextKey(s, tokens, b)]
  <1>0. /\ ManagerType(m) /\ Reserved(m) /\ DOMAIN m = Field
        /\ Indexed(m) /\ TablesType(m)
    BY TypeParts DEF KvInv, ManagerType
  <1>1. CASE ~m.caching \/ done <= s.registered
    <2>1. RegisterPrefix(m, r, tokens) = m
      BY <1>1 DEF RegisterPrefix
    <2> QED
      BY <2>1
  <1>2. CASE ~(~m.caching \/ done <= s.registered)
    <2>1. n = [m EXCEPT !.index = I, !.block = B, !.seqs = T]
      BY <1>2 DEF RegisterPrefix
    <2>2. /\ s \in SequenceState /\ t \in Seq(Page) /\ IsInjective(t)
          /\ s.committed \in Nat /\ s.registered \in Nat
          /\ PagesFor(s.committed) <= Len(t)
      BY LiveSequence
    <2>3. \A b \in F : /\ b \in s.registered + 1 .. done
                       /\ NextKey(s, tokens, b) \notin DOMAIN m.index
                       /\ m.block[t[b]] = NoBlock
      BY DEF FreshBlocks
    <2>4. \A b \in F : /\ b \in Nat /\ b >= 1 /\ b * BlockSize <= s.committed
      <3> TAKE b \in F
      <3>1. b \in Nat /\ b >= s.registered + 1 /\ BlockSize * b <= s.committed
        BY <2>2, <2>3, CompleteWithin
      <3>2. BlockSize * b = b * BlockSize
        BY <3>1, ConfigAssumption
      <3> HIDE DEF s, F
      <3> QED
        BY <2>2, <3>1, <3>2
    <2>5. F \subseteq DOMAIN t
      <3> SUFFICES ASSUME NEW b \in F PROVE b \in DOMAIN t
        OBVIOUS
      <3>1. b <= PagesFor(s.committed)
        BY <2>2, <2>4, PagesForWithin
      <3>2. PagesFor(s.committed) \in Nat
        BY <2>2, PagesForBounds
      <3>3. b \in 1..Len(t)
        <4> HIDE DEF s, t, F
        <4> QED
          BY <2>2, <2>4, <3>1, <3>2
      <3> QED
        BY <2>2, <3>3
    <2>6. \A b \in F : /\ NextKey(s, tokens, b) \in Seq(Token)
                       /\ NextKey(s, tokens, b) # NoBlock
      BY <2>2, <2>3, NextKeyLength
    <2>7. \A a, b \in F : NextKey(s, tokens, a) = NextKey(s, tokens, b) => a = b
      <3> SUFFICES ASSUME NEW a \in F, NEW b \in F,
                          NextKey(s, tokens, a) = NextKey(s, tokens, b)
                   PROVE  a = b
        OBVIOUS
      <3>1. /\ Len(NextKey(s, tokens, a))
                 = Len(s.chain) + BlockSize * a - BlockSize * s.registered
            /\ Len(NextKey(s, tokens, b))
                 = Len(s.chain) + BlockSize * b - BlockSize * s.registered
        BY <2>2, <2>3, NextKeyLength
      <3>2. /\ a \in Nat /\ b \in Nat /\ Len(s.chain) \in Nat /\ s.registered \in Nat
        BY <2>2, <2>4, LiveSequence
      <3>3. BlockSize * a \in Int /\ BlockSize * b \in Int /\ BlockSize * s.registered \in Int
        BY <3>2, ConfigAssumption
      <3>4. BlockSize * a = BlockSize * b
        <4> HIDE DEF s, F
        <4> QED
          BY <3>1, <3>2, <3>3, SMTT(30)
      <3> QED
        BY <3>2, <3>4, BlocksDiffer
    <2>8. Publishable(m, r, F, K)
      BY <2>3, <2>4, <2>5, <2>6, <2>7 DEF Publishable
    <2>9. \A a, b \in F : t[a] = t[b] => a = b
      BY <2>2, <2>5 DEF IsInjective
    <2>10. \A b \in F : (CHOOSE a \in F : NextKey(s, tokens, a) = NextKey(s, tokens, b)) = b
      BY <2>7
    <2>11. \A b \in F : (CHOOSE a \in F : t[a] = t[b]) = b
      BY <2>9
    <2>12. /\ DOMAIN I = DOMAIN m.index \cup {K[b] : b \in F}
           /\ \A k \in DOMAIN m.index : I[k] = m.index[k]
           /\ \A b \in F : I[K[b]] = t[b]
      <3>1. newKeys = {K[b] : b \in F} /\ newKeys \cap DOMAIN m.index = {}
        BY <2>3
      <3>2. \A b \in F : K[b] = NextKey(s, tokens, b) /\ K[b] \in newKeys
        OBVIOUS
      <3>3. \A b \in F : (CHOOSE a \in F : NextKey(s, tokens, a) = K[b]) = b
        BY <2>10, <3>2
      <3> HIDE DEF newKeys, K, F, s, t
      <3>4. DOMAIN I = DOMAIN m.index \cup {K[b] : b \in F}
        BY <3>1
      <3>5. \A k \in DOMAIN m.index : I[k] = m.index[k]
        BY <3>1
      <3>6. \A b \in F : I[K[b]] = t[b]
        BY <3>2, <3>3
      <3> QED
        BY <3>4, <3>5, <3>6
    <2>13. I \in [DOMAIN I -> Page]
      <3>1. \A k \in DOMAIN m.index : m.index[k] \in Page
        BY <1>0 DEF ManagerType
      <3>2. \A b \in F : t[b] \in Page
        BY <2>2, <2>5
      <3>3. \A k \in DOMAIN I : I[k] \in Page
        BY <2>12, <3>1, <3>2
      <3> QED
        BY <3>3
    <2>14. /\ \A b \in F : B[t[b]] = K[b]
           /\ \A p \in Page \ {t[b] : b \in F} : B[p] = m.block[p]
      <3>1. \A b \in F : t[b] \in Page /\ t[b] \in newPages /\ K[b] = NextKey(s, tokens, b)
        BY <2>2, <2>5
      <3> HIDE DEF K, F, s, t
      <3> QED
        BY <2>11, <3>1
    <2>15. B \in [Page -> Seq(Token)]
      <3>1. \A p \in Page : m.block[p] \in Seq(Token)
        BY <1>0 DEF ManagerType
      <3>2. \A p \in Page : B[p] \in Seq(Token)
        BY <2>6, <2>14, <3>1
      <3> QED
        BY <3>2
    <2>16. NextKey(s, tokens, done) \in Seq(Token) /\ done \in Nat
      <3>1. done \in Int
        <4>1. Len(tokens) \in Nat
          OBVIOUS
        <4>2. (IF s.committed < Len(tokens) THEN s.committed ELSE Len(tokens)) \in Int
          BY <2>2, <4>1
        <4> QED
          BY <4>2, DivBounds DEF CompleteBlocks
      <3>2. done \in s.registered + 1 .. done
        <4> HIDE DEF s, done
        <4> QED
          BY <1>2, <2>2, <3>1
      <3> QED
        BY <2>2, <3>2, NextKeyLength, CompleteWithin
    <2>17. /\ g \in SequenceState
           /\ g.pages = s.pages /\ g.committed = s.committed /\ g.pending = s.pending
      <3> HIDE DEF s, done
      <3> QED
        BY <2>2, <2>16 DEF SequenceState
    <2> HIDE DEF n, I, B, T, F, K, g
    <2>18. /\ DOMAIN n = Field /\ n.index = I /\ n.block = B /\ n.seqs = T
           /\ n.resv = m.resv /\ n.nextResv = m.nextResv /\ n.free = m.free
           /\ n.refs = m.refs /\ n.evictable = m.evictable /\ n.caching = m.caching
      BY <1>0, <2>1, SMT DEF Field
    <2>19. PublishedTo(m, r, F, K, n)
      BY <2>12, <2>13, <2>14, <2>15, <2>18 DEF PublishedTo
    <2>20. /\ DOMAIN T = Live(m) /\ T \in [Live(m) -> SequenceState]
           /\ T[r] = g /\ \A q \in Live(m) \ {r} : T[q] = m.seqs[q]
      BY <1>0, <2>17 DEF T, Live, TablesType
    <2>21. SameBlockTables(m, n)
      BY <2>17, <2>18, <2>20 DEF SameBlockTables, Live
    <2>22. Accounted(n) /\ Indexed(n) /\ ExclusiveTails(n) /\ PagesType(n)
      BY <2>8, <2>19, <2>21, PublishPreserves
    <2>23. TablesType(n)
      BY <1>0, <2>18, <2>20 DEF TablesType, Live
    <2>24. Reserved(n)
      <3>1. n.resv = m.resv /\ n.nextResv = m.nextResv /\ Live(n) = Live(m)
        BY <2>18, <2>21 DEF SameBlockTables
      <3>2. \A i \in DOMAIN m.resv : m.resv[i].request \in Live(m)
        BY LiveReservation
      <3>3. \A q \in Live(m) : /\ n.seqs[q].pages = m.seqs[q].pages
                               /\ n.seqs[q].committed = m.seqs[q].committed
                               /\ n.seqs[q].pending = m.seqs[q].pending
        BY <2>21 DEF SameBlockTables
      <3> QED
        BY <1>0, <3>1, <3>2, <3>3, SMTT(30) DEF Reserved, Consistent
    <2>25. KvInv(n)
      BY <2>18, <2>22, <2>23, <2>24, TypeParts DEF KvInv
    <2> QED
      BY <2>25 DEF n
  <1> QED
    BY <1>1, <1>2

-----------------------------------------------------------------------------
(* The sequences and the reservations after each operation                 *)

\* drop_cached_block only removes entries of block_index.
IndexShrinks(m, n) ==
    /\ DOMAIN n.index \subseteq DOMAIN m.index
    /\ \A k \in DOMAIN n.index : n.index[k] = m.index[k]

\* Dropping blocks only takes keys out of the index.
LEMMA IndexShrunk ==
    ASSUME NEW m, NEW gone, NEW n, n.index = IndexWithout(m, gone)
    PROVE  IndexShrinks(m, n)
  BY DEF IndexShrinks, IndexWithout, Restrict

\* set_prefix_caching changes no sequence and no reservation.
LEMMA SetCachingTables ==
    ASSUME NEW m, ManagerType(m), NEW enabled \in BOOLEAN
    PROVE  LET n == SetPrefixCaching(m, enabled)
           IN  Live(n) = Live(m) /\ n.seqs = m.seqs /\ n.resv = m.resv /\ IndexShrinks(m, n)
  <1>1. DOMAIN m = Field
    BY DEF ManagerType
  <1>2. CASE enabled
    <2> DEFINE n == SetPrefixCaching(m, enabled)
    <2>1. n = [m EXCEPT !.caching = TRUE]
      BY <1>2 DEF SetPrefixCaching
    <2> HIDE DEF n
    <2>2. n.seqs = m.seqs /\ n.resv = m.resv /\ n.index = m.index
      BY <1>1, <2>1, SMT DEF Field
    <2> QED
      BY <2>2 DEF n, Live, IndexShrinks
  <1>3. CASE ~enabled
    <2> DEFINE d == DropCachedBlocks(m, Cached(m))
               n == SetPrefixCaching(m, enabled)
               f == m.free \cup Cached(m)
               e == [p \in {} |-> 0]
    <2>1. /\ DOMAIN d = Field /\ d.seqs = m.seqs /\ d.resv = m.resv
          /\ d.index = IndexWithout(m, Cached(m))
      BY DropFields DEF SameTables
    <2>2. n = [d EXCEPT !.caching = FALSE, !.free = f, !.evictable = e]
      BY <1>3 DEF SetPrefixCaching
    <2> HIDE DEF d, n, f, e
    <2>3. n.seqs = d.seqs /\ n.resv = d.resv /\ n.index = d.index
      BY <2>1, <2>2, SMT DEF Field
    <2>4. IndexShrinks(m, n)
      BY <2>1, <2>3, IndexShrunk
    <2> QED
      BY <2>1, <2>3, <2>4 DEF n, Live
  <1> QED
    BY <1>2, <1>3

\* create_sequence adds one empty sequence.
LEMMA CreateTables ==
    ASSUME NEW m, ManagerType(m), NEW r
    PROVE  LET n == CreateSequence(m, r)
           IN  /\ Live(n) = Live(m) \cup {r} /\ n.resv = m.resv /\ n.index = m.index
               /\ n.seqs[r] = NewSequence
               /\ \A q \in Live(m) \ {r} : n.seqs[q] = m.seqs[q]
  <1> DEFINE n == CreateSequence(m, r)
             S == [q \in Live(m) \cup {r} |-> IF q = r THEN NewSequence ELSE m.seqs[q]]
  <1>1. DOMAIN m = Field /\ n = [m EXCEPT !.seqs = S] /\ DOMAIN S = Live(m) \cup {r}
    BY DEF ManagerType, CreateSequence
  <1>2. S[r] = NewSequence /\ \A q \in Live(m) \ {r} : S[q] = m.seqs[q]
    OBVIOUS
  <1> HIDE DEF n, S
  <1>3. n.seqs = S /\ n.resv = m.resv /\ n.index = m.index
    BY <1>1, SeqsFields DEF SamePages
  <1> QED
    BY <1>1, <1>2, <1>3 DEF n, Live

\* create_sequence_with_prefix maps the pages found under the first x keys of
\* tokens.
Prefixed(m, r, tokens, x, n) ==
    LET z == n.seqs[r]
    IN  /\ z.committed = x * BlockSize
        /\ z.pages = [b \in 1..x |-> m.index[BlockKey(tokens, b)]]
        /\ z.registered = x
        /\ z.chain = BlockKey(tokens, x)
        /\ \A q \in Live(m) \ {r} : n.seqs[q] = m.seqs[q]

\* create_sequence_with_prefix adds one sequence, on the cached pages of its
\* prefix.
LEMMA CreateWithPrefixTables ==
    ASSUME NEW m, ManagerType(m), NEW r, NEW tokens, NEW x
    PROVE  LET n == CreateSequenceWithPrefix(m, r, tokens, x)
           IN  /\ Live(n) = Live(m) \cup {r} /\ n.resv = m.resv /\ n.index = m.index
               /\ Prefixed(m, r, tokens, x, n)
  <1> DEFINE n == CreateSequenceWithPrefix(m, r, tokens, x)
             pages == [b \in 1..x |-> m.index[BlockKey(tokens, b)]]
             new == [NewSequence EXCEPT !.committed = x * BlockSize,
                                        !.pages = pages,
                                        !.registered = x,
                                        !.chain = BlockKey(tokens, x)]
             d == AcquireCached(m, Range(pages))
             S == [q \in Live(m) \cup {r} |-> IF q = r THEN new ELSE m.seqs[q]]
  <1>1. n = [d EXCEPT !.seqs = S] /\ DOMAIN S = Live(m) \cup {r}
    BY DEF CreateSequenceWithPrefix
  <1>2. DOMAIN d = Field /\ d.resv = m.resv /\ d.index = m.index
    BY AcquireFields DEF SameTables, AcquiredFrom
  <1>3. /\ new.committed = x * BlockSize /\ new.pages = pages
        /\ new.registered = x /\ new.chain = BlockKey(tokens, x)
    <2> HIDE DEF pages
    <2> QED
      BY DEF NewSequence
  <1> HIDE DEF n, d, S
  <1>4. n.seqs = S /\ n.resv = m.resv /\ n.index = m.index
    BY <1>1, <1>2, SMT DEF Field
  <1> HIDE DEF new
  <1>5. Live(n) = Live(m) \cup {r} /\ n.seqs[r] = new
    BY <1>1, <1>4 DEF S, Live
  <1>6. \A q \in Live(m) \ {r} : n.seqs[q] = m.seqs[q]
    BY <1>4 DEF S
  <1>7. Prefixed(m, r, tokens, x, n)
    BY <1>3, <1>5, <1>6 DEF Prefixed
  <1> QED
    BY <1>4, <1>5, <1>7 DEF n

\* register_prefix either does nothing or publishes blocks under their keys and
\* moves the chain of the sequence on.
Registered(m, r, tokens, n) ==
    LET s == m.seqs[r]
        done == CompleteBlocks(s, tokens)
    IN  \/ n = m
        \/ /\ ~(done <= s.registered)
           /\ n.seqs = [m.seqs EXCEPT ![r] =
                 [s EXCEPT !.registered = done, !.chain = NextKey(s, tokens, done)]]
           /\ \A k \in DOMAIN n.index :
                 \/ k \in DOMAIN m.index /\ n.index[k] = m.index[k]
                 \/ \E b \in FreshBlocks(m, s, tokens) :
                       k = NextKey(s, tokens, b) /\ n.index[k] = s.pages[b]

\* register_prefix changes chain and blocks of its sequence only.
LEMMA RegisterTables ==
    ASSUME NEW m, ManagerType(m), NEW r \in Live(m), NEW tokens
    PROVE  LET n == RegisterPrefix(m, r, tokens)
           IN  Live(n) = Live(m) /\ n.resv = m.resv /\ Registered(m, r, tokens, n)
  <1> DEFINE n == RegisterPrefix(m, r, tokens)
             s == m.seqs[r]
             done == CompleteBlocks(s, tokens)
             F == FreshBlocks(m, s, tokens)
             K(b) == NextKey(s, tokens, b)
             newKeys == {K(b) : b \in F}
             newPages == {s.pages[b] : b \in F}
             I == [k \in DOMAIN m.index \cup newKeys |->
                     IF k \in newKeys
                     THEN s.pages[CHOOSE b \in F : K(b) = k]
                     ELSE m.index[k]]
             B == [p \in Page |-> IF p \in newPages
                     THEN K(CHOOSE b \in F : s.pages[b] = p)
                     ELSE m.block[p]]
             g == [s EXCEPT !.registered = done, !.chain = NextKey(s, tokens, done)]
             T == [m.seqs EXCEPT ![r] = g]
  <1>1. CASE ~m.caching \/ done <= s.registered
    BY <1>1 DEF RegisterPrefix, Registered
  <1>2. CASE ~(~m.caching \/ done <= s.registered)
    <2>1. n = [m EXCEPT !.index = I, !.block = B, !.seqs = T]
      BY <1>2 DEF RegisterPrefix
    <2>2. DOMAIN m = Field
      BY DEF ManagerType
    <2>3. \A k \in DOMAIN I :
             \/ k \in DOMAIN m.index /\ I[k] = m.index[k]
             \/ \E b \in F : k = K(b) /\ I[k] = s.pages[b]
      <3> TAKE k \in DOMAIN I
      <3>1. CASE k \in newKeys
        <4>1. (CHOOSE b \in F : K(b) = k) \in F /\ K(CHOOSE b \in F : K(b) = k) = k
          BY <3>1
        <4>2. I[k] = s.pages[CHOOSE b \in F : K(b) = k]
          BY <3>1
        <4> QED
          BY <4>1, <4>2
      <3>2. CASE k \notin newKeys
        BY <3>2
      <3> QED
        BY <3>1, <3>2
    <2>4. DOMAIN T = Live(m)
      BY DEF Live
    <2> HIDE DEF n, I, B, T
    <2>5. n.seqs = T /\ n.resv = m.resv /\ n.index = I
      BY <2>1, <2>2, SMT DEF Field
    <2>6. Live(n) = Live(m)
      BY <2>4, <2>5 DEF Live
    <2>7. \A k \in DOMAIN n.index :
             \/ k \in DOMAIN m.index /\ n.index[k] = m.index[k]
             \/ \E b \in F : k = K(b) /\ n.index[k] = s.pages[b]
      BY <2>3, <2>5
    <2>8. Registered(m, r, tokens, n)
      BY <1>2, <2>5, <2>7 DEF Registered, T
    <2> QED
      BY <2>5, <2>6, <2>8 DEF n
  <1> QED
    BY <1>1, <1>2

\* remove_sequence takes one sequence away.
LEMMA RemoveTables ==
    ASSUME NEW m, KvInv(m), NEW r \in Live(m)
    PROVE  LET n == RemoveSequence(m, r)
           IN  /\ Live(n) = Live(m) \ {r} /\ n.resv = m.resv /\ IndexShrinks(m, n)
               /\ \A q \in Live(n) : n.seqs[q] = m.seqs[q]
  <1> DEFINE n == RemoveSequence(m, r)
             pages == m.seqs[r].pages
             order == [p \in Range(pages) |->
                         Len(pages) - CHOOSE i \in DOMAIN pages : pages[i] = p]
             d == ReleasePages(m, Range(pages), order)
             S == Restrict(m.seqs, Live(m) \ {r})
  <1>1. /\ n = [d EXCEPT !.seqs = S] /\ DOMAIN S = Live(m) \ {r}
        /\ \A q \in DOMAIN S : S[q] = m.seqs[q]
    BY DEF RemoveSequence, Restrict
  <1>2. Range(pages) \in SUBSET Page
    <2>1. pages \in Seq(Page)
      BY LiveSequence
    <2> QED
      BY <2>1 DEF Range
  <1>3. /\ DOMAIN d = Field /\ d.resv = m.resv
        /\ d.index = IndexWithout(m, Freed(m, Range(pages)))
    <2>1. ManagerType(m)
      BY DEF KvInv
    <2>2. ReleasedFrom(m, Range(pages), d) /\ SameTables(m, d)
      BY <1>2, <2>1, ReleaseFields
    <2> QED
      BY <2>2 DEF SameTables, ReleasedFrom
  <1> HIDE DEF n, d, S
  <1>4. n.seqs = S /\ n.resv = m.resv /\ n.index = d.index
    BY <1>1, <1>3, SMT DEF Field
  <1>5. IndexShrinks(m, n)
    BY <1>3, <1>4, IndexShrunk
  <1> QED
    BY <1>1, <1>4, <1>5 DEF n, Live

\* begin_append adds one reservation.
LEMMA BeginTables ==
    ASSUME NEW m, ManagerType(m), NEW r \in Live(m), NEW count, NEW new
    PROVE  LET n == BeginAppend(m, r, count, new)
           IN  /\ Live(n) = Live(m) /\ IndexShrinks(m, n)
               /\ DOMAIN n.resv = DOMAIN m.resv \cup {m.nextResv}
               /\ n.resv[m.nextResv].count = count
               /\ \A i \in DOMAIN m.resv \ {m.nextResv} : n.resv[i] = m.resv[i]
  <1> DEFINE n == BeginAppend(m, r, count, new)
             s == m.seqs[r]
             id == m.nextResv
             d == Allocate(m, new)
             g == [s EXCEPT !.pages = s.pages \o new, !.pending = id]
             T == [m.seqs EXCEPT ![r] = g]
             v == [request |-> r, previous |-> Len(s.pages),
                   start |-> s.committed, count |-> count]
             V == [i \in DOMAIN m.resv \cup {id} |-> IF i = id THEN v ELSE m.resv[i]]
             next == id + 1
  <1>1. n = [d EXCEPT !.seqs = T, !.resv = V, !.nextResv = next]
    BY DEF BeginAppend
  <1>2. DOMAIN d = Field /\ d.index = IndexWithout(m, Evicted(m, new))
    BY AllocateFields DEF SameTables, AllocatedFrom
  <1>3. v.count = count
    OBVIOUS
  <1> HIDE DEF v, g
  <1>4. /\ DOMAIN T = DOMAIN m.seqs /\ DOMAIN V = DOMAIN m.resv \cup {id} /\ V[id] = v
        /\ \A i \in DOMAIN m.resv \ {id} : V[i] = m.resv[i]
    OBVIOUS
  <1> HIDE DEF n, d, T, V, next
  <1>5. n.seqs = T /\ n.resv = V /\ n.index = d.index
    BY <1>1, <1>2, SMT DEF Field
  <1>6. IndexShrinks(m, n)
    BY <1>2, <1>5, IndexShrunk
  <1> QED
    BY <1>3, <1>4, <1>5, <1>6 DEF n, Live

\* extend_append enlarges one reservation.
LEMMA ExtendTables ==
    ASSUME NEW m, ManagerType(m), NEW id \in DOMAIN m.resv, NEW extra, NEW new
    PROVE  LET n == ExtendAppend(m, id, extra, new)
           IN  /\ Live(n) = Live(m) /\ IndexShrinks(m, n)
               /\ DOMAIN n.resv = DOMAIN m.resv
               /\ n.resv[id].count = m.resv[id].count + extra
               /\ \A i \in DOMAIN m.resv \ {id} : n.resv[i] = m.resv[i]
  <1> DEFINE n == ExtendAppend(m, id, extra, new)
             v == m.resv[id]
             s == m.seqs[v.request]
             d == Allocate(m, new)
             g == [s EXCEPT !.pages = s.pages \o new]
             T == [m.seqs EXCEPT ![v.request] = g]
             c == v.count + extra
             w == [v EXCEPT !.count = c]
             V == [m.resv EXCEPT ![id] = w]
  <1>1. n = [d EXCEPT !.seqs = T, !.resv = V]
    BY DEF ExtendAppend
  <1>2. DOMAIN d = Field /\ d.index = IndexWithout(m, Evicted(m, new))
    BY AllocateFields DEF SameTables, AllocatedFrom
  <1>3. w.count = c
    <2>1. v \in ReservationState
      BY DEF ManagerType
    <2> HIDE DEF v, c
    <2> QED
      BY <2>1 DEF ReservationState
  <1> HIDE DEF w, g
  <1>4. /\ DOMAIN T = DOMAIN m.seqs /\ DOMAIN V = DOMAIN m.resv /\ V[id] = w
        /\ \A i \in DOMAIN m.resv \ {id} : V[i] = m.resv[i]
    OBVIOUS
  <1> HIDE DEF n, d, T, V
  <1>5. n.seqs = T /\ n.resv = V /\ n.index = d.index
    BY <1>1, <1>2, SMT DEF Field
  <1>6. IndexShrinks(m, n)
    BY <1>2, <1>5, IndexShrunk
  <1> QED
    BY <1>3, <1>4, <1>5, <1>6 DEF n, Live

\* What commit and cancel leave of the reservations.
Closed(m, ids, n) ==
    /\ Live(n) = Live(m)
    /\ DOMAIN n.resv = DOMAIN m.resv \ ids
    /\ \A i \in DOMAIN m.resv \ ids : n.resv[i] = m.resv[i]

\* commit_appends closes its reservations and publishes nothing.
LEMMA CommitTables ==
    ASSUME NEW m, ManagerType(m), NEW ids
    PROVE  LET n == CommitAppends(m, ids)
           IN  /\ Closed(m, ids, n) /\ n.index = m.index
  <1> DEFINE n == CommitAppends(m, ids)
             S == [r \in Live(m) |->
                     IF r \in Owned(m, ids)
                     THEN LET v == m.resv[m.seqs[r].pending]
                          IN  [m.seqs[r] EXCEPT !.committed = v.start + v.count,
                                                !.pending = NoPending]
                     ELSE m.seqs[r]]
             V == Restrict(m.resv, DOMAIN m.resv \ ids)
  <1>1. n = [m EXCEPT !.seqs = S, !.resv = V] /\ DOMAIN m = Field
    BY DEF CommitAppends, ManagerType
  <1>2. /\ DOMAIN S = Live(m) /\ DOMAIN V = DOMAIN m.resv \ ids
        /\ \A i \in DOMAIN m.resv \ ids : V[i] = m.resv[i]
    BY DEF Restrict
  <1> HIDE DEF n, S, V
  <1>3. n.seqs = S /\ n.resv = V /\ n.index = m.index
    BY <1>1, SMT DEF Field
  <1> QED
    BY <1>2, <1>3 DEF n, Live, Closed

\* commit_append_prefixes closes its reservations.
LEMMA CommitPrefixTables ==
    ASSUME NEW m, KvInv(m), NEW ids \in SUBSET DOMAIN m.resv, NEW consumed,
           \A i \in ids : consumed[i] \in 1 .. m.resv[i].count
    PROVE  LET n == CommitPrefixes(m, ids, consumed)
           IN  /\ Closed(m, ids, n) /\ IndexShrinks(m, n)
  <1> DEFINE n == CommitPrefixes(m, ids, consumed)
             keep == [i \in ids |-> KeptPages(m, i, consumed[i])]
             d == ReleaseTails(m, ids, keep)
             S == [r \in Live(m) |->
                     IF r \in Owned(m, ids)
                     THEN LET i == m.seqs[r].pending
                          IN  [m.seqs[r] EXCEPT !.committed = m.resv[i].start + consumed[i],
                                                !.pages = SubSeq(@, 1, keep[i]),
                                                !.pending = NoPending]
                     ELSE m.seqs[r]]
             V == Restrict(m.resv, DOMAIN m.resv \ ids)
  <1>1. n = [d EXCEPT !.seqs = S, !.resv = V]
    BY DEF CommitPrefixes
  <1>2. /\ DOMAIN S = Live(m) /\ DOMAIN V = DOMAIN m.resv \ ids
        /\ \A i \in DOMAIN m.resv \ ids : V[i] = m.resv[i]
    BY DEF Restrict
  <1>3. DOMAIN d = Field /\ \E gone : d.index = IndexWithout(m, gone)
    <2>1. \A i \in ids : keep[i] \in Nat
      <3> TAKE i \in ids
      <3>1. m.resv[i].start \in Nat /\ m.resv[i].count \in Nat
        BY LiveReservation
      <3>2. m.resv[i].start + consumed[i] \in Nat
        BY <3>1
      <3> QED
        BY <3>2, PagesForBounds DEF KeptPages
    <2> HIDE DEF keep
    <2> QED
      BY <2>1, ReleaseTailsFields DEF SameTables
  <1> HIDE DEF n, d, S, V
  <1>4. n.seqs = S /\ n.resv = V /\ n.index = d.index
    BY <1>1, <1>3, SMT DEF Field
  <1>5. IndexShrinks(m, n)
    BY <1>3, <1>4, IndexShrunk
  <1> QED
    BY <1>2, <1>4, <1>5 DEF n, Live, Closed

\* cancel_appends closes its reservations.
LEMMA CancelTables ==
    ASSUME NEW m, KvInv(m), NEW ids \in SUBSET DOMAIN m.resv
    PROVE  LET n == CancelAppends(m, ids)
           IN  /\ Closed(m, ids, n) /\ IndexShrinks(m, n)
  <1> DEFINE n == CancelAppends(m, ids)
             keep == [i \in ids |-> PreviousPages(m, i)]
             d == ReleaseTails(m, ids, keep)
             S == [r \in Live(m) |->
                     IF r \in Owned(m, ids)
                     THEN [m.seqs[r] EXCEPT
                             !.pages = SubSeq(@, 1, keep[m.seqs[r].pending]),
                             !.pending = NoPending]
                     ELSE m.seqs[r]]
             V == Restrict(m.resv, DOMAIN m.resv \ ids)
  <1>1. n = [d EXCEPT !.seqs = S, !.resv = V]
    BY DEF CancelAppends
  <1>2. /\ DOMAIN S = Live(m) /\ DOMAIN V = DOMAIN m.resv \ ids
        /\ \A i \in DOMAIN m.resv \ ids : V[i] = m.resv[i]
    BY DEF Restrict
  <1>3. DOMAIN d = Field /\ \E gone : d.index = IndexWithout(m, gone)
    <2>1. \A i \in ids : keep[i] \in Nat
      BY DEF PreviousPages, KvInv, ManagerType, ReservationState
    <2> HIDE DEF keep
    <2> QED
      BY <2>1, ReleaseTailsFields DEF SameTables
  <1> HIDE DEF n, d, S, V
  <1>4. n.seqs = S /\ n.resv = V /\ n.index = d.index
    BY <1>1, <1>3, SMT DEF Field
  <1>5. IndexShrinks(m, n)
    BY <1>3, <1>4, IndexShrunk
  <1> QED
    BY <1>2, <1>4, <1>5 DEF n, Live, Closed


\* The manager starts empty.
LEMMA NewManagerInv == KvInv(NewManager)
  <1> DEFINE m == NewManager
  <1>1. /\ m.free = Page /\ m.refs = [p \in Page |-> 0] /\ m.block = [p \in Page |-> NoBlock]
        /\ m.caching = FALSE /\ m.nextResv = 1
        /\ DOMAIN m.index = {} /\ Cached(m) = {} /\ Live(m) = {} /\ DOMAIN m.resv = {}
        /\ DOMAIN m = Field
    BY DEF NewManager, Cached, Live, Field
  <1>2. /\ m.index \in [{} -> Page] /\ m.evictable \in [{} -> Nat]
        /\ m.seqs \in [{} -> SequenceState] /\ m.resv \in [{} -> ReservationState]
    BY DEF NewManager
  <1> HIDE DEF m
  <1>3. ManagerType(m)
    <2>1. m.refs \in [Page -> Nat] /\ m.block \in [Page -> Seq(Token)]
      BY <1>1 DEF NoBlock
    <2>2. PagesType(m)
      BY <1>1, <1>2, <2>1 DEF PagesType
    <2>3. TablesType(m)
      BY <1>1, <1>2 DEF TablesType
    <2> QED
      BY <1>1, <2>2, <2>3, TypeParts
  <1>4. Accounted(m)
    <2>1. \A p : Owners(m, p) = {}
      BY <1>1 DEF Owners
    <2>2. Cardinality({}) = 0
      BY FS_EmptySet
    <2> QED
      BY <1>1, <2>1, <2>2 DEF Accounted, Available
  <1>5. Indexed(m)
    BY <1>1 DEF Indexed
  <1>6. Reserved(m) /\ ExclusiveTails(m)
    BY <1>1 DEF Reserved, ExclusiveTails
  <1> QED
    BY <1>3, <1>4, <1>5, <1>6 DEF KvInv, m

-----------------------------------------------------------------------------
(* The order of eviction                                                   *)

\* Evictable pages are ranked: no two share a rank.
Ordered(m) ==
    /\ \A p \in Cached(m) : m.evictable[p] < NumPages
    /\ \A p, q \in Cached(m) : p # q => m.evictable[p] # m.evictable[q]

\* Ranking anew keeps eviction times distinct and below the number of pages.
LEMMA RankedOrder ==
    ASSUME NEW D \in SUBSET Page, NEW t \in [D -> Nat],
           \A p, q \in D : p # q => t[p] # t[q]
    PROVE  /\ \A p \in D : Ranked(t)[p] < NumPages
           /\ \A p, q \in D : p # q => Ranked(t)[p] # Ranked(t)[q]
  <1> DEFINE S(p) == {q \in D : t[q] < t[p]}
  <1>1. /\ \A p \in D : Ranked(t)[p] = Cardinality(S(p))
        /\ \A p \in D : t[p] \in Nat
    BY DEF Ranked
  <1>2. IsFiniteSet(Page) /\ Cardinality(Page) = NumPages
    BY FS_Interval, ConfigAssumption DEF Page
  <1>3. \A p \in D : S(p) \subseteq Page /\ p \notin S(p)
    BY <1>1
  <1>4. \A p \in D : IsFiniteSet(S(p)) /\ Cardinality(S(p)) \in Nat
    BY <1>2, <1>3, FS_Subset, FS_CardinalityType
  <1>5. ASSUME NEW p \in D PROVE Cardinality(S(p)) < NumPages
    <2>1. /\ IsFiniteSet(Page \ {p}) /\ Cardinality(Page \ {p}) = NumPages - 1
      BY <1>2, FS_RemoveElement
    <2>2. S(p) \in SUBSET (Page \ {p})
      BY <1>3
    <2> HIDE DEF S
    <2>3. Cardinality(S(p)) <= NumPages - 1
      BY <2>1, <2>2, FS_Subset
    <2> QED
      BY <1>4, <2>3, ConfigAssumption
  <1>6. ASSUME NEW p \in D, NEW q \in D, t[p] < t[q]
        PROVE  Cardinality(S(p)) < Cardinality(S(q))
    <2>1. S(p) \cup {p} \in SUBSET S(q)
      <3>1. \A x \in S(p) : x \in S(q)
        BY <1>1, <1>6
      <3>2. p \in S(q)
        BY <1>6
      <3> QED
        BY <3>1, <3>2
    <2>2. p \notin S(p) /\ IsFiniteSet(S(p)) /\ IsFiniteSet(S(q))
      BY <1>3, <1>4
    <2>3. Cardinality(S(p)) \in Nat /\ Cardinality(S(q)) \in Nat
      BY <1>4
    <2> HIDE DEF S
    <2>4. Cardinality(S(p) \cup {p}) = Cardinality(S(p)) + 1
      BY <2>2, FS_AddElement
    <2>5. Cardinality(S(p) \cup {p}) <= Cardinality(S(q))
      BY <2>1, <2>2, FS_Subset
    <2> QED
      BY <2>3, <2>4, <2>5
  <1> HIDE DEF S
  <1>7. ASSUME NEW p \in D, NEW q \in D, p # q
        PROVE  Cardinality(S(p)) # Cardinality(S(q))
    <2>1. t[p] < t[q] \/ t[q] < t[p]
      BY <1>1, <1>7
    <2> QED
      BY <1>4, <1>6, <2>1
  <1> QED
    BY <1>1, <1>5, <1>7

\* While caching stays on, an entry of the prefix cache is dropped only when no
\* page is free, and no page that stays evictable was released before its page.
Lru(m, n) ==
    m.caching /\ n.caching =>
        \A k \in DOMAIN m.index \ DOMAIN n.index :
            LET p == m.index[k]
            IN  /\ p \in Cached(m)
                /\ n.free = {}
                /\ \A q \in Cached(n) :
                      q \in Cached(m) => m.evictable[p] < m.evictable[q]

\* Both only look at the page-level fields.
LEMMA SamePagesLru ==
    ASSUME NEW m, NEW d, Lru(m, d), Ordered(d), NEW n, SamePages(n, d)
    PROVE  Lru(m, n) /\ Ordered(n)
  BY DEF Lru, Ordered, SamePages, Cached

\* A step that neither drops entries nor touches the order.
LEMMA UntouchedLru ==
    ASSUME NEW m, Ordered(m), NEW n, DOMAIN m.index \subseteq DOMAIN n.index,
           n.evictable = m.evictable
    PROVE  Lru(m, n) /\ Ordered(n)
  BY DEF Lru, Ordered, Cached

\* allocate_page.
LEMMA AllocateLru ==
    ASSUME NEW m, KvInv(m), Ordered(m), NEW k, NEW new \in Allocations(m, k)
    PROVE  LET d == Allocate(m, new) IN Lru(m, d) /\ Ordered(d)
  <1> DEFINE d == Allocate(m, new)
             D == Cached(m) \ Range(new)
             t == [p \in D |-> m.evictable[p]]
  <1>0. ManagerType(m) /\ Indexed(m)
    BY DEF KvInv
  <1>1. /\ AllocatedFrom(m, new, d) /\ SameTables(m, d)
    BY <1>0, AllocateFields
  <1>2. Cached(m) \subseteq Page /\ \A p \in Cached(m) : m.evictable[p] \in Nat
    BY <1>0 DEF ManagerType
  <1>3. d.evictable = Ranked(t)
    <2> DEFINE x == DropCachedBlocks(m, Evicted(m, new))
               F == m.free \ Range(new)
               C == [p \in Page |-> IF p \in Range(new) THEN 1 ELSE m.refs[p]]
               e == Ranked(t)
    <2>1. d = [x EXCEPT !.free = F, !.evictable = e, !.refs = C]
      BY DEF Allocate
    <2>2. DOMAIN x = Field
      BY <1>0, DropFields
    <2> HIDE DEF d, x, F, C, e
    <2>3. d.evictable = e
      BY <2>1, <2>2, SMT DEF Field
    <2> QED
      BY <2>3 DEF e
  <1>4. Cached(d) = D
    BY <1>1 DEF AllocatedFrom
  <1>5. Ordered(d)
    <2>1. D \in SUBSET Page /\ t \in [D -> Nat] /\ \A p, q \in D : p # q => t[p] # t[q]
      BY <1>2 DEF Ordered
    <2> HIDE DEF D, t, d
    <2>2. /\ \A p \in D : Ranked(t)[p] < NumPages
          /\ \A p, q \in D : p # q => Ranked(t)[p] # Ranked(t)[q]
      BY <2>1, RankedOrder
    <2> QED
      BY <1>3, <1>4, <2>2 DEF Ordered
  <1>6. Lru(m, d)
    <2> SUFFICES ASSUME NEW c \in DOMAIN m.index \ DOMAIN d.index
                 PROVE  /\ m.index[c] \in Cached(m)
                        /\ d.free = {}
                        /\ \A q \in Cached(d) :
                              q \in Cached(m) => m.evictable[m.index[c]] < m.evictable[q]
      BY DEF Lru
    <2> DEFINE p == m.index[c]
    <2>1. p \in Range(new) /\ p \in Cached(m)
      <3>1. d.index = IndexWithout(m, Evicted(m, new))
        BY <1>1 DEF AllocatedFrom
      <3>2. DOMAIN d.index = {x \in DOMAIN m.index : m.index[x] \notin Evicted(m, new)}
        BY <1>0, <3>1, IndexWithoutPages
      <3> QED
        BY <3>2 DEF Evicted
    <2>2. PICK i \in 1..k : new[i] = p
      BY <2>1 DEF Allocations, Range
    <2>3. \A x \in Available(m) : TakenBefore(m, x, p) => x \in Range(new)
      BY <2>2 DEF Allocations
    <2>4. d.free = {}
      <3>1. \A f \in m.free : f \in Range(new)
        BY <2>1, <2>3 DEF TakenBefore, Available
      <3> QED
        BY <1>1, <3>1 DEF AllocatedFrom
    <2>5. ASSUME NEW q \in Cached(d) PROVE m.evictable[p] < m.evictable[q]
      <3>1. q \in Cached(m) /\ q \notin Range(new)
        BY <1>4
      <3>2. ~(m.evictable[q] < m.evictable[p])
        BY <2>1, <2>3, <3>1 DEF TakenBefore, Available
      <3>3. m.evictable[q] # m.evictable[p]
        BY <2>1, <3>1 DEF Ordered
      <3>4. m.evictable[q] \in Nat /\ m.evictable[p] \in Nat
        BY <1>2, <2>1, <3>1
      <3> QED
        BY <3>2, <3>3, <3>4
    <2> QED
      BY <2>1, <2>4, <2>5
  <1> QED
    BY <1>5, <1>6

\* acquire_cached.
LEMMA AcquireLru ==
    ASSUME NEW m, KvInv(m), Ordered(m), NEW hit
    PROVE  LET d == AcquireCached(m, hit) IN Lru(m, d) /\ Ordered(d)
  <1> DEFINE d == AcquireCached(m, hit)
             D == Cached(m) \ hit
             t == [p \in D |-> m.evictable[p]]
  <1>0. ManagerType(m)
    BY DEF KvInv
  <1>1. AcquiredFrom(m, hit, d)
    BY <1>0, AcquireFields
  <1>2. Cached(m) \subseteq Page /\ \A p \in Cached(m) : m.evictable[p] \in Nat
    BY <1>0 DEF ManagerType
  <1>3. d.evictable = Ranked(t)
    <2> DEFINE C == [p \in Page |-> IF p \in hit THEN m.refs[p] + 1 ELSE m.refs[p]]
               e == Ranked(t)
    <2>1. d = [m EXCEPT !.evictable = e, !.refs = C] /\ DOMAIN m = Field
      BY <1>0 DEF AcquireCached, ManagerType
    <2> HIDE DEF d, C, e
    <2>2. d.evictable = e
      BY <2>1, SMT DEF Field
    <2> QED
      BY <2>2 DEF e
  <1>4. Cached(d) = D /\ d.index = m.index
    BY <1>1 DEF AcquiredFrom
  <1>5. Ordered(d)
    <2>1. D \in SUBSET Page /\ t \in [D -> Nat] /\ \A p, q \in D : p # q => t[p] # t[q]
      BY <1>2 DEF Ordered
    <2> HIDE DEF D, t, d
    <2>2. /\ \A p \in D : Ranked(t)[p] < NumPages
          /\ \A p, q \in D : p # q => Ranked(t)[p] # Ranked(t)[q]
      BY <2>1, RankedOrder
    <2> QED
      BY <1>3, <1>4, <2>2 DEF Ordered
  <1>6. Lru(m, d)
    BY <1>4 DEF Lru
  <1> QED
    BY <1>5, <1>6

\* release_page: what it frees carries no block while caching is on, and what it
\* retains is ranked behind the pages that were evictable before.
LEMMA ReleaseLru ==
    ASSUME NEW m, KvInv(m), Ordered(m), NEW R \in SUBSET Page, NEW order,
           \A p \in Retained(m, R) : order[p] \in Nat,
           \A p, q \in Retained(m, R) : p # q => order[p] # order[q]
    PROVE  LET d == ReleasePages(m, R, order) IN Lru(m, d) /\ Ordered(d)
  <1> DEFINE d == ReleasePages(m, R, order)
             K == Retained(m, R)
             D == Cached(m) \cup K
             t == [p \in D |-> IF p \in K THEN NumPages + order[p] ELSE m.evictable[p]]
  <1>0. ManagerType(m) /\ Indexed(m)
    BY DEF KvInv
  <1>1. ReleasedFrom(m, R, d)
    BY <1>0, ReleaseFields
  <1>2. /\ Cached(m) \subseteq Page /\ \A p \in Cached(m) : m.evictable[p] \in Nat
        /\ K \subseteq Page
    BY <1>0 DEF ManagerType, Retained, Dying
  <1>3. d.evictable = Ranked(t)
    <2> DEFINE x == DropCachedBlocks(m, Freed(m, R))
               F == m.free \cup Freed(m, R)
               C == [p \in Page |-> IF p \in R THEN m.refs[p] - 1 ELSE m.refs[p]]
               e == Ranked(t)
    <2>1. d = [x EXCEPT !.free = F, !.evictable = e, !.refs = C]
      BY DEF ReleasePages
    <2>2. DOMAIN x = Field
      BY <1>0, DropFields
    <2> HIDE DEF d, x, F, C, e
    <2>3. d.evictable = e
      BY <2>1, <2>2, SMT DEF Field
    <2> QED
      BY <2>3 DEF e
  <1>4. Cached(d) = D
    BY <1>1 DEF ReleasedFrom
  <1>5. Ordered(d)
    <2>0. /\ \A p \in Cached(m) : m.evictable[p] < NumPages
          /\ \A p, q \in Cached(m) : p # q => m.evictable[p] # m.evictable[q]
      BY DEF Ordered
    <2>a. \A p \in K : order[p] \in Nat /\ \A q \in K : p # q => order[p] # order[q]
      OBVIOUS
    <2> HIDE DEF K, d
    <2>1. D \in SUBSET Page /\ \A p \in D : t[p] \in Nat
      BY <1>2, <2>a, ConfigAssumption
    <2>2. ASSUME NEW p \in D, NEW q \in D, p # q PROVE t[p] # t[q]
      <3>1. CASE p \in K /\ q \in K
        BY <2>2, <2>a, <3>1, ConfigAssumption
      <3>2. CASE p \in K /\ q \notin K
        <4>1. t[p] = NumPages + order[p] /\ t[q] = m.evictable[q] /\ q \in Cached(m)
          BY <3>2
        <4> QED
          BY <1>2, <2>0, <2>a, <3>2, <4>1, ConfigAssumption
      <3>3. CASE p \notin K /\ q \in K
        <4>1. t[q] = NumPages + order[q] /\ t[p] = m.evictable[p] /\ p \in Cached(m)
          BY <3>3
        <4> QED
          BY <1>2, <2>0, <2>a, <3>3, <4>1, ConfigAssumption
      <3>4. CASE p \notin K /\ q \notin K
        BY <2>0, <2>2, <3>4
      <3> QED
        BY <3>1, <3>2, <3>3, <3>4
    <2>3. t \in [D -> Nat]
      BY <2>1
    <2> HIDE DEF D, t
    <2>4. /\ \A p \in D : Ranked(t)[p] < NumPages
          /\ \A p, q \in D : p # q => Ranked(t)[p] # Ranked(t)[q]
      BY <2>1, <2>2, <2>3, RankedOrder
    <2> QED
      BY <1>3, <1>4, <2>4 DEF Ordered
  <1>6. Lru(m, d)
    <2> SUFFICES ASSUME m.caching PROVE DOMAIN m.index \subseteq DOMAIN d.index
      BY DEF Lru
    <2>1. d.index = IndexWithout(m, Freed(m, R))
      BY <1>1 DEF ReleasedFrom
    <2>2. DOMAIN d.index = {x \in DOMAIN m.index : m.index[x] \notin Freed(m, R)}
      BY <1>0, <2>1, IndexWithoutPages
    <2>3. \A x \in DOMAIN m.index : m.block[m.index[x]] # NoBlock
      BY <1>0 DEF Indexed
    <2>4. \A p \in Freed(m, R) : m.block[p] = NoBlock
      BY DEF Freed, Retained
    <2> QED
      BY <2>2, <2>3, <2>4
  <1> QED
    BY <1>5, <1>6

\* The fields of a manager of which tables and reservations are replaced.
LEMMA TablesReplaced ==
    ASSUME NEW d, DOMAIN d = Field, NEW S, NEW V, NEW x, NEW n,
           \/ n = [d EXCEPT !.seqs = S]
           \/ n = [d EXCEPT !.seqs = S, !.resv = V]
           \/ n = [d EXCEPT !.seqs = S, !.resv = V, !.nextResv = x]
    PROVE  SamePages(n, d)
  <1>1. CASE n = [d EXCEPT !.seqs = S]
    BY <1>1, SeqsFields
  <1>2. CASE n = [d EXCEPT !.seqs = S, !.resv = V]
    <2>1. /\ n.free = d.free /\ n.refs = d.refs /\ n.block = d.block
          /\ n.index = d.index /\ n.evictable = d.evictable /\ n.caching = d.caching
      BY <1>2, SMT DEF Field
    <2> QED
      BY <2>1 DEF SamePages
  <1>3. CASE n = [d EXCEPT !.seqs = S, !.resv = V, !.nextResv = x]
    <2>1. /\ n.free = d.free /\ n.refs = d.refs /\ n.block = d.block
          /\ n.index = d.index /\ n.evictable = d.evictable /\ n.caching = d.caching
      BY <1>3, SMT DEF Field
    <2> QED
      BY <2>1 DEF SamePages
  <1> QED
    BY <1>1, <1>2, <1>3

\* set_prefix_caching empties the cache when it turns it off.
LEMMA SetCachingLru ==
    ASSUME NEW m, KvInv(m), Ordered(m), NEW enabled \in BOOLEAN
    PROVE  LET n == SetPrefixCaching(m, enabled) IN Lru(m, n) /\ Ordered(n)
  <1> DEFINE n == SetPrefixCaching(m, enabled)
  <1>0. ManagerType(m) /\ DOMAIN m = Field
    BY DEF KvInv, ManagerType
  <1>1. CASE enabled
    <2>1. n = [m EXCEPT !.caching = TRUE]
      BY <1>1 DEF SetPrefixCaching
    <2> HIDE DEF n
    <2>2. n.index = m.index /\ n.evictable = m.evictable
      BY <1>0, <2>1, SMT DEF Field
    <2>3. Lru(m, n) /\ Ordered(n)
      BY <2>2, UntouchedLru
    <2> QED
      BY <2>3 DEF n
  <1>2. CASE ~enabled
    <2> DEFINE d == DropCachedBlocks(m, Cached(m))
               f == m.free \cup Cached(m)
               e == [p \in {} |-> 0]
    <2>1. n = [d EXCEPT !.caching = FALSE, !.free = f, !.evictable = e] /\ DOMAIN d = Field
      BY <1>0, <1>2, DropFields DEF SetPrefixCaching
    <2>2. DOMAIN e = {}
      OBVIOUS
    <2> HIDE DEF d, f, e, n
    <2>3. n.caching = FALSE /\ n.evictable = e
      BY <2>1, SMT DEF Field
    <2>4. Lru(m, n) /\ Ordered(n)
      BY <2>2, <2>3 DEF Lru, Ordered, Cached
    <2> QED
      BY <2>4 DEF n
  <1> QED
    BY <1>1, <1>2

\* create_sequence.
LEMMA CreateLru ==
    ASSUME NEW m, KvInv(m), Ordered(m), NEW r
    PROVE  LET n == CreateSequence(m, r) IN Lru(m, n) /\ Ordered(n)
  <1> DEFINE n == CreateSequence(m, r)
             S == [q \in Live(m) \cup {r} |-> IF q = r THEN NewSequence ELSE m.seqs[q]]
  <1>1. DOMAIN m = Field /\ n = [m EXCEPT !.seqs = S]
    BY DEF KvInv, ManagerType, CreateSequence
  <1> HIDE DEF n, S
  <1>2. n.index = m.index /\ n.evictable = m.evictable
    BY <1>1, SeqsFields DEF SamePages
  <1>3. Lru(m, n) /\ Ordered(n)
    BY <1>2, UntouchedLru
  <1> QED
    BY <1>3 DEF n

\* create_sequence_with_prefix.
LEMMA CreateWithPrefixLru ==
    ASSUME NEW m, KvInv(m), Ordered(m), NEW r, NEW tokens, NEW x
    PROVE  LET n == CreateSequenceWithPrefix(m, r, tokens, x) IN Lru(m, n) /\ Ordered(n)
  <1> DEFINE n == CreateSequenceWithPrefix(m, r, tokens, x)
             pages == [b \in 1..x |-> m.index[BlockKey(tokens, b)]]
             new == [NewSequence EXCEPT !.committed = x * BlockSize,
                                        !.pages = pages,
                                        !.registered = x,
                                        !.chain = BlockKey(tokens, x)]
             d == AcquireCached(m, Range(pages))
             S == [q \in Live(m) \cup {r} |-> IF q = r THEN new ELSE m.seqs[q]]
  <1>1. n = [d EXCEPT !.seqs = S]
    BY DEF CreateSequenceWithPrefix
  <1>2. DOMAIN d = Field
    BY AcquireFields DEF SameTables, KvInv
  <1>3. Lru(m, d) /\ Ordered(d)
    BY AcquireLru
  <1> HIDE DEF n, S, d
  <1>4. SamePages(n, d)
    BY <1>1, <1>2, TablesReplaced
  <1>5. Lru(m, n) /\ Ordered(n)
    BY <1>3, <1>4, SamePagesLru
  <1> QED
    BY <1>5 DEF n

\* register_prefix only adds entries.
LEMMA RegisterLru ==
    ASSUME NEW m, KvInv(m), Ordered(m), NEW r, NEW tokens
    PROVE  LET n == RegisterPrefix(m, r, tokens) IN Lru(m, n) /\ Ordered(n)
  <1> DEFINE n == RegisterPrefix(m, r, tokens)
             s == m.seqs[r]
             done == CompleteBlocks(s, tokens)
             F == FreshBlocks(m, s, tokens)
             K(b) == NextKey(s, tokens, b)
             newKeys == {K(b) : b \in F}
             newPages == {s.pages[b] : b \in F}
             I == [k \in DOMAIN m.index \cup newKeys |->
                     IF k \in newKeys
                     THEN s.pages[CHOOSE b \in F : K(b) = k]
                     ELSE m.index[k]]
             B == [p \in Page |-> IF p \in newPages
                     THEN K(CHOOSE b \in F : s.pages[b] = p)
                     ELSE m.block[p]]
             g == [s EXCEPT !.registered = done, !.chain = NextKey(s, tokens, done)]
             T == [m.seqs EXCEPT ![r] = g]
  <1>1. DOMAIN m.index \subseteq DOMAIN n.index /\ n.evictable = m.evictable
    <2>1. CASE ~m.caching \/ done <= s.registered
      BY <2>1 DEF RegisterPrefix
    <2>2. CASE ~(~m.caching \/ done <= s.registered)
      <3>1. n = [m EXCEPT !.index = I, !.block = B, !.seqs = T]
        BY <2>2 DEF RegisterPrefix
      <3>2. DOMAIN m = Field
        BY DEF KvInv, ManagerType
      <3>3. DOMAIN m.index \subseteq DOMAIN I
        OBVIOUS
      <3> HIDE DEF n, I, B, T
      <3>4. n.index = I /\ n.evictable = m.evictable
        BY <3>1, <3>2, SMT DEF Field
      <3> QED
        BY <3>3, <3>4
    <2> QED
      BY <2>1, <2>2
  <1> HIDE DEF n
  <1>2. Lru(m, n) /\ Ordered(n)
    BY <1>1, UntouchedLru
  <1> QED
    BY <1>2 DEF n

\* remove_sequence releases the tail first: a page's order is how far from the
\* end of the table it stands.
LEMMA RemoveLru ==
    ASSUME NEW m, KvInv(m), Ordered(m), NEW r \in Live(m)
    PROVE  LET n == RemoveSequence(m, r) IN Lru(m, n) /\ Ordered(n)
  <1> DEFINE n == RemoveSequence(m, r)
             pages == m.seqs[r].pages
             R == Range(pages)
             at(p) == CHOOSE i \in DOMAIN pages : pages[i] = p
             order == [p \in R |-> Len(pages) - at(p)]
             d == ReleasePages(m, R, order)
             S == Restrict(m.seqs, Live(m) \ {r})
  <1>0. ManagerType(m) /\ pages \in Seq(Page)
    BY LiveSequence DEF KvInv
  <1>1. n = [d EXCEPT !.seqs = S]
    BY DEF RemoveSequence
  <1>2. R \in SUBSET Page
    BY <1>0 DEF Range
  <1>3. \A p \in R : at(p) \in DOMAIN pages /\ pages[at(p)] = p
    BY DEF Range
  <1>4. DOMAIN pages = 1..Len(pages) /\ Len(pages) \in Nat
    BY <1>0
  <1> HIDE DEF at, pages
  <1>5. \A p \in R : order[p] \in Nat /\ order[p] = Len(pages) - at(p)
    BY <1>3, <1>4
  <1>6. \A p, q \in R : p # q => order[p] # order[q]
    BY <1>3, <1>4, <1>5
  <1>7. Retained(m, R) \subseteq R
    BY DEF Retained, Dying
  <1> HIDE DEF order, R
  <1>8. Lru(m, d) /\ Ordered(d)
    BY <1>2, <1>5, <1>6, <1>7, ReleaseLru
  <1>9. DOMAIN d = Field
    BY <1>0, <1>2, ReleaseFields DEF SameTables
  <1> HIDE DEF n, S, d
  <1>10. SamePages(n, d)
    BY <1>1, <1>9, TablesReplaced
  <1>11. Lru(m, n) /\ Ordered(n)
    BY <1>8, <1>10, SamePagesLru
  <1> QED
    BY <1>11 DEF n

\* begin_append.
LEMMA BeginLru ==
    ASSUME NEW m, KvInv(m), Ordered(m), NEW r, NEW count, NEW k, NEW new \in Allocations(m, k)
    PROVE  LET n == BeginAppend(m, r, count, new) IN Lru(m, n) /\ Ordered(n)
  <1> DEFINE n == BeginAppend(m, r, count, new)
             s == m.seqs[r]
             id == m.nextResv
             d == Allocate(m, new)
             S == [m.seqs EXCEPT ![r] = [s EXCEPT !.pages = s.pages \o new, !.pending = id]]
             v == [request |-> r, previous |-> Len(s.pages),
                   start |-> s.committed, count |-> count]
             V == [i \in DOMAIN m.resv \cup {id} |-> IF i = id THEN v ELSE m.resv[i]]
             x == id + 1
  <1>1. n = [d EXCEPT !.seqs = S, !.resv = V, !.nextResv = x]
    BY DEF BeginAppend
  <1>2. DOMAIN d = Field
    BY AllocateFields DEF SameTables, KvInv
  <1>3. Lru(m, d) /\ Ordered(d)
    BY AllocateLru
  <1> HIDE DEF n, S, V, d, x
  <1>4. SamePages(n, d)
    BY <1>1, <1>2, TablesReplaced
  <1>5. Lru(m, n) /\ Ordered(n)
    BY <1>3, <1>4, SamePagesLru
  <1> QED
    BY <1>5 DEF n

\* extend_append.
LEMMA ExtendLru ==
    ASSUME NEW m, KvInv(m), Ordered(m), NEW id, NEW extra, NEW k, NEW new \in Allocations(m, k)
    PROVE  LET n == ExtendAppend(m, id, extra, new) IN Lru(m, n) /\ Ordered(n)
  <1> DEFINE n == ExtendAppend(m, id, extra, new)
             v == m.resv[id]
             s == m.seqs[v.request]
             d == Allocate(m, new)
             S == [m.seqs EXCEPT ![v.request] = [s EXCEPT !.pages = s.pages \o new]]
             V == [m.resv EXCEPT ![id] = [v EXCEPT !.count = v.count + extra]]
  <1>1. n = [d EXCEPT !.seqs = S, !.resv = V]
    BY DEF ExtendAppend
  <1>2. DOMAIN d = Field
    BY AllocateFields DEF SameTables, KvInv
  <1>3. Lru(m, d) /\ Ordered(d)
    BY AllocateLru
  <1> HIDE DEF n, S, V, d
  <1>4. SamePages(n, d)
    BY <1>1, <1>2, TablesReplaced
  <1>5. Lru(m, n) /\ Ordered(n)
    BY <1>3, <1>4, SamePagesLru
  <1> QED
    BY <1>5 DEF n

\* commit_appends.
LEMMA CommitLru ==
    ASSUME NEW m, KvInv(m), Ordered(m), NEW ids
    PROVE  LET n == CommitAppends(m, ids) IN Lru(m, n) /\ Ordered(n)
  <1> DEFINE n == CommitAppends(m, ids)
             S == [r \in Live(m) |->
                     IF r \in Owned(m, ids)
                     THEN LET v == m.resv[m.seqs[r].pending]
                          IN  [m.seqs[r] EXCEPT !.committed = v.start + v.count,
                                                !.pending = NoPending]
                     ELSE m.seqs[r]]
             V == Restrict(m.resv, DOMAIN m.resv \ ids)
  <1>1. n = [m EXCEPT !.seqs = S, !.resv = V] /\ DOMAIN m = Field
    BY DEF CommitAppends, KvInv, ManagerType
  <1> HIDE DEF n, S, V
  <1>2. n.index = m.index /\ n.evictable = m.evictable
    BY <1>1, SMT DEF Field
  <1>3. Lru(m, n) /\ Ordered(n)
    BY <1>2, UntouchedLru
  <1> QED
    BY <1>3 DEF n

\* The tails of reservations carry no block, so a release of them retains
\* nothing.
LEMMA TailsLru ==
    ASSUME NEW m, KvInv(m), Ordered(m), NEW ids \in SUBSET DOMAIN m.resv, NEW keep, NEW to,
           \A i \in ids : /\ to[i] \in Nat /\ m.resv[i].start <= to[i]
                          /\ keep[i] = PagesFor(to[i])
    PROVE  LET d == ReleaseTails(m, ids, keep)
           IN  Lru(m, d) /\ Ordered(d) /\ DOMAIN d = Field
  <1> DEFINE R == Tails(m, ids, keep)
             order == [p \in R |-> 0]
             d == ReleaseTails(m, ids, keep)
  <1>1. ASSUME NEW p \in R PROVE p \in Page /\ m.block[p] = NoBlock
    <2>1. PICK i \in ids : p \in TailPages(m.seqs[m.resv[i].request].pages, keep[i])
      BY DEF Tails
    <2> DEFINE r == m.resv[i].request
               t == m.seqs[r].pages
               c == m.seqs[r].committed
               k == keep[i]
    <2>2. PICK j \in k + 1 .. Len(t) : p = t[j]
      BY <2>1 DEF TailPages
    <2>3. /\ r \in Live(m) /\ c = m.resv[i].start /\ c <= to[i] /\ to[i] \in Nat
          /\ k = PagesFor(to[i])
      BY LiveReservation
    <2>4. t \in Seq(Page) /\ c \in Nat /\ k \in Nat
      BY <2>3, LiveSequence, PagesForBounds
    <2>5. j \in Nat /\ j > k /\ j \in DOMAIN t
      <3> HIDE DEF t, k
      <3> QED
        BY <2>2, <2>4
    <2>6. j * BlockSize > to[i]
      BY <2>3, <2>5, PagesForBeyond
    <2>7. j * BlockSize > c
      <3>1. j * BlockSize \in Int
        BY <2>5, ConfigAssumption
      <3> QED
        BY <2>3, <2>4, <2>6, <3>1
    <2>8. m.block[t[j]] = NoBlock
      BY <2>3, <2>5, <2>7 DEF KvInv, ExclusiveTails
    <2> HIDE DEF t
    <2>9. t[j] \in Page
      BY <2>4, <2>5
    <2> QED
      BY <2>2, <2>8, <2>9
  <1>2. R \in SUBSET Page /\ Retained(m, R) = {}
    BY <1>1 DEF Retained, Dying
  <1>3. d = ReleasePages(m, R, order)
    BY DEF ReleaseTails
  <1>4. ManagerType(m)
    BY DEF KvInv
  <1> HIDE DEF R, order, d
  <1>5. Lru(m, d) /\ Ordered(d)
    BY <1>2, <1>3, ReleaseLru
  <1>6. DOMAIN d = Field
    BY <1>2, <1>3, <1>4, ReleaseFields DEF SameTables
  <1> QED
    BY <1>5, <1>6 DEF d

\* commit_append_prefixes and commit_append_partial.
LEMMA CommitPrefixesLru ==
    ASSUME NEW m, KvInv(m), Ordered(m), NEW ids \in SUBSET DOMAIN m.resv, NEW consumed,
           \A i \in ids : consumed[i] \in 1 .. m.resv[i].count
    PROVE  LET n == CommitPrefixes(m, ids, consumed) IN Lru(m, n) /\ Ordered(n)
  <1> DEFINE n == CommitPrefixes(m, ids, consumed)
             keep == [i \in ids |-> KeptPages(m, i, consumed[i])]
             to == [i \in ids |-> m.resv[i].start + consumed[i]]
             d == ReleaseTails(m, ids, keep)
             S == [r \in Live(m) |->
                     IF r \in Owned(m, ids)
                     THEN LET i == m.seqs[r].pending
                          IN  [m.seqs[r] EXCEPT !.committed = m.resv[i].start + consumed[i],
                                                !.pages = SubSeq(@, 1, keep[i]),
                                                !.pending = NoPending]
                     ELSE m.seqs[r]]
             V == Restrict(m.resv, DOMAIN m.resv \ ids)
  <1>1. n = [d EXCEPT !.seqs = S, !.resv = V]
    BY DEF CommitPrefixes
  <1>2. \A i \in ids : /\ to[i] \in Nat /\ m.resv[i].start <= to[i]
                       /\ keep[i] = PagesFor(to[i])
    <2> TAKE i \in ids
    <2>1. m.resv[i].start \in Nat /\ m.resv[i].count \in Nat
      BY LiveReservation
    <2> QED
      BY <2>1 DEF KeptPages
  <1> HIDE DEF n, S, V, keep, to
  <1>3. Lru(m, d) /\ Ordered(d) /\ DOMAIN d = Field
    BY <1>2, TailsLru
  <1> HIDE DEF d
  <1>4. SamePages(n, d)
    BY <1>1, <1>3, TablesReplaced
  <1>5. Lru(m, n) /\ Ordered(n)
    BY <1>3, <1>4, SamePagesLru
  <1> QED
    BY <1>5 DEF n

\* cancel_appends.
LEMMA CancelLru ==
    ASSUME NEW m, KvInv(m), Ordered(m), NEW ids \in SUBSET DOMAIN m.resv
    PROVE  LET n == CancelAppends(m, ids) IN Lru(m, n) /\ Ordered(n)
  <1> DEFINE n == CancelAppends(m, ids)
             keep == [i \in ids |-> PreviousPages(m, i)]
             to == [i \in ids |-> m.resv[i].start]
             d == ReleaseTails(m, ids, keep)
             S == [r \in Live(m) |->
                     IF r \in Owned(m, ids)
                     THEN [m.seqs[r] EXCEPT
                             !.pages = SubSeq(@, 1, keep[m.seqs[r].pending]),
                             !.pending = NoPending]
                     ELSE m.seqs[r]]
             V == Restrict(m.resv, DOMAIN m.resv \ ids)
  <1>1. n = [d EXCEPT !.seqs = S, !.resv = V]
    BY DEF CancelAppends
  <1>2. \A i \in ids : /\ to[i] \in Nat /\ m.resv[i].start <= to[i]
                       /\ keep[i] = PagesFor(to[i])
    <2> TAKE i \in ids
    <2>1. m.resv[i].start \in Nat /\ m.resv[i].previous = PagesFor(m.resv[i].start)
      BY LiveReservation
    <2> QED
      BY <2>1 DEF PreviousPages
  <1> HIDE DEF n, S, V, keep, to
  <1>3. Lru(m, d) /\ Ordered(d) /\ DOMAIN d = Field
    BY <1>2, TailsLru
  <1> HIDE DEF d
  <1>4. SamePages(n, d)
    BY <1>1, <1>3, TablesReplaced
  <1>5. Lru(m, n) /\ Ordered(n)
    BY <1>3, <1>4, SamePagesLru
  <1> QED
    BY <1>5 DEF n

=============================================================================
