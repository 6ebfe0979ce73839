----------------------------- MODULE PagedKvOps -----------------------------
(***************************************************************************)
(* The paged KV cache manager of src/paged_kv.rs, as pure operators on one *)
(* value `kv` that holds the manager's fields.  PagedKv gives it a state   *)
(* machine; BatchScheduler composes the same operators with the scheduler. *)
(*                                                                         *)
(* Data abstractions:                                                      *)
(*  - a chain hash is the token prefix it was computed from, so the key of *)
(*    a block (parent hash, block tokens) is the token prefix up to the    *)
(*    end of that block (no 64-bit hash collision);                        *)
(*  - LRU ticks are kept as ranks: only their order is ever observed.      *)
(***************************************************************************)
EXTENDS Integers, Sequences, FiniteSets, Functions

CONSTANTS NumPages,          \* config.num_pages
          BlockSize,         \* config.block_size
          MaxSequenceLength, \* config.max_sequence_length
          ReservationLimit,  \* the largest reservation id (u64::MAX in the code)
          Request,           \* request ids
          Token              \* token ids

ASSUME ConfigAssumption ==
    /\ NumPages \in Nat \ {0}
    /\ BlockSize \in Nat \ {0}
    /\ MaxSequenceLength \in Nat \ {0}
    /\ ReservationLimit \in Nat \ {0}

ASSUME RequestAssumption == IsFiniteSet(Request)

Page == 0 .. NumPages - 1

NoBlock == <<>>              \* page_blocks[page] = None; a key is never empty
NoPending == 0               \* SequenceState.pending = None; ids start at 1

\* usize::div_ceil
DivCeil(a, b) == (a + b - 1) \div b

\* pages a sequence of n tokens occupies
PagesFor(n) == DivCeil(n, BlockSize)

-----------------------------------------------------------------------------
(* State                                                                   *)

NewManager ==
    [free        |-> Page,
     refs        |-> [p \in Page |-> 0],
     block       |-> [p \in Page |-> NoBlock],
     index       |-> [k \in {} |-> 0],
     evictable   |-> [p \in {} |-> 0],
     caching     |-> FALSE,
     seqs        |-> [r \in {} |-> 0],
     resv        |-> [i \in {} |-> 0],
     nextResv    |-> 1]

NewSequence ==
    [committed |-> 0, pages |-> <<>>, pending |-> NoPending,
     registered |-> 0, chain |-> <<>>]

Live(kv) == DOMAIN kv.seqs
Cached(kv) == DOMAIN kv.evictable

\* Pages an allocation can obtain right now.
Available(kv) == kv.free \cup Cached(kv)
AvailablePages(kv) == Cardinality(Available(kv))

-----------------------------------------------------------------------------
(* Pages                                                                   *)

\* Ticks reduced to their ranks.
Ranked(tick) ==
    [p \in DOMAIN tick |-> Cardinality({q \in DOMAIN tick : tick[q] < tick[p]})]

\* block_index without the entries that drop_cached_block removes for `gone`.
IndexWithout(kv, gone) ==
    Restrict(kv.index,
             {k \in DOMAIN kv.index :
                 ~(kv.index[k] \in gone /\ kv.block[kv.index[k]] = k)})

\* page_blocks with the entries of `gone` taken.
BlockWithout(kv, gone) ==
    [p \in Page |-> IF p \in gone THEN NoBlock ELSE kv.block[p]]

\* Mutant: the page forgets its block but the index still names the page.
DropCachedBlocks_StaleIndex(kv, gone) ==
    [kv EXCEPT !.block = BlockWithout(kv, gone)]

\* drop_cached_block for every page of `gone`.
DropCachedBlocks(kv, gone) ==
    [kv EXCEPT !.index = IndexWithout(kv, gone), !.block = BlockWithout(kv, gone)]

\* Mutant: the most recently released cached page is evicted first.
TakenBefore_NewestFirst(kv, p, q) ==
    \/ p \in kv.free /\ q \in kv.free /\ p < q
    \/ p \in kv.free /\ q \in Cached(kv)
    \/ p \in Cached(kv) /\ q \in Cached(kv) /\ kv.evictable[p] > kv.evictable[q]

\* allocate_page takes the smallest free page, or else the least recently
\* released cached one.
TakenBefore(kv, p, q) ==
    \/ p \in kv.free /\ q \in kv.free /\ p < q
    \/ p \in kv.free /\ q \in Cached(kv)
    \/ p \in Cached(kv) /\ q \in Cached(kv) /\ kv.evictable[p] < kv.evictable[q]

\* The pages that n calls of allocate_page return (a singleton set whenever
\* n <= AvailablePages(kv)).
Allocations(kv, n) ==
    {new \in [1..n -> Available(kv)] :
        /\ IsInjective(new)
        /\ \A i, j \in 1..n : i < j => TakenBefore(kv, new[i], new[j])
        /\ \A i \in 1..n, p \in Available(kv) :
              TakenBefore(kv, p, new[i]) => p \in Range(new)}

\* Mutant: allocate_page reuses a cached page without drop_cached_block.
Evicted_KeepsBlock(kv, new) == {}

\* The cached pages among `new`, which lose their block.
Evicted(kv, new) == Range(new) \cap Cached(kv)

\* The effect of the calls of allocate_page that returned `new`.
Allocate(kv, new) ==
    LET taken == Range(new)
        left  == Cached(kv) \ taken
    IN  [DropCachedBlocks(kv, Evicted(kv, new)) EXCEPT
            !.free = kv.free \ taken,
            !.evictable = Ranked([p \in left |-> kv.evictable[p]]),
            !.refs = [p \in Page |-> IF p \in taken THEN 1 ELSE kv.refs[p]]]

\* Mutant: a cached page that a sequence maps again stays evictable.
AcquireCached_StillEvictable(kv, hit) ==
    [kv EXCEPT
        !.refs = [p \in Page |-> IF p \in hit THEN kv.refs[p] + 1 ELSE kv.refs[p]]]

\* acquire_cached for every page of the set `hit`.
AcquireCached(kv, hit) ==
    [kv EXCEPT
        !.evictable = Ranked([p \in Cached(kv) \ hit |-> kv.evictable[p]]),
        !.refs = [p \in Page |-> IF p \in hit THEN kv.refs[p] + 1 ELSE kv.refs[p]]]

\* Pages of the set whose last reference is released.
Dying(kv, pages) == {p \in pages : kv.refs[p] = 1}

\* Of those, the published ones stay in the cache; the others become free.
Retained(kv, pages) == {p \in Dying(kv, pages) : kv.caching /\ kv.block[p] # NoBlock}
Freed(kv, pages) == Dying(kv, pages) \ Retained(kv, pages)

\* release_page for every page of the set `pages`, in increasing `order`.
ReleasePages(kv, pages, order) ==
    [DropCachedBlocks(kv, Freed(kv, pages)) EXCEPT
        !.free = kv.free \cup Freed(kv, pages),
        !.evictable = Ranked([p \in Cached(kv) \cup Retained(kv, pages) |->
                                IF p \in Retained(kv, pages)
                                THEN NumPages + order[p]
                                ELSE kv.evictable[p]]),
        !.refs = [p \in Page |-> IF p \in pages THEN kv.refs[p] - 1 ELSE kv.refs[p]]]

-----------------------------------------------------------------------------
(* Sequences and the prefix cache                                          *)

\* set_prefix_caching
SetPrefixCaching(kv, enabled) ==
    IF enabled
    THEN [kv EXCEPT !.caching = TRUE]
    ELSE [DropCachedBlocks(kv, Cached(kv)) EXCEPT
             !.caching = FALSE,
             !.free = kv.free \cup Cached(kv),
             !.evictable = [p \in {} |-> 0]]

\* create_sequence; r is not live
CreateSequence(kv, r) ==
    [kv EXCEPT !.seqs = [q \in Live(kv) \cup {r} |->
                            IF q = r THEN NewSequence ELSE kv.seqs[q]]]

\* The key of block b (from 1) of a token sequence.
BlockKey(tokens, b) == SubSeq(tokens, 1, b * BlockSize)

\* The blocks create_sequence_with_prefix may map: never the whole prompt.
UsableBlocks(tokens) == (Len(tokens) - 1) \div BlockSize

\* The number of leading cached blocks (the set is a singleton).
Matches(kv, tokens) ==
    IF ~kv.caching \/ Len(tokens) <= 1
    THEN {0}
    ELSE {m \in 0..UsableBlocks(tokens) :
            /\ \A b \in 1..m : BlockKey(tokens, b) \in DOMAIN kv.index
            /\ m < UsableBlocks(tokens)
                  => BlockKey(tokens, m + 1) \notin DOMAIN kv.index}

\* create_sequence_with_prefix where the loop matched m blocks
CreateSequenceWithPrefix(kv, r, tokens, m) ==
    LET pages == [b \in 1..m |-> kv.index[BlockKey(tokens, b)]]
        new   == [NewSequence EXCEPT !.committed = m * BlockSize,
                                     !.pages = pages,
                                     !.registered = m,
                                     !.chain = BlockKey(tokens, m)]
    IN  [AcquireCached(kv, Range(pages)) EXCEPT
            !.seqs = [q \in Live(kv) \cup {r} |->
                        IF q = r THEN new ELSE kv.seqs[q]]]

\* Full blocks among the committed tokens.
CompleteBlocks(s, tokens) ==
    (IF s.committed < Len(tokens) THEN s.committed ELSE Len(tokens)) \div BlockSize

\* Mutant: the key of a block leaves out the blocks before it.
NextKey_NoParent(s, tokens, b) ==
    SubSeq(tokens, (b - 1) * BlockSize + 1, b * BlockSize)

\* The key of block b of sequence s, chained from its registered blocks.
NextKey(s, tokens, b) ==
    s.chain \o SubSeq(tokens, s.registered * BlockSize + 1, b * BlockSize)

\* The blocks that register_prefix publishes: complete, not yet registered,
\* under a key and in a page that are both still unpublished.
FreshBlocks(kv, s, tokens) ==
    {b \in s.registered + 1 .. CompleteBlocks(s, tokens) :
        /\ NextKey(s, tokens, b) \notin DOMAIN kv.index
        /\ kv.block[s.pages[b]] = NoBlock}

\* register_prefix: publish every newly completed full block of `tokens`
RegisterPrefix(kv, r, tokens) ==
    LET s     == kv.seqs[r]
        done  == CompleteBlocks(s, tokens)
        fresh == FreshBlocks(kv, s, tokens)
        key(b) == NextKey(s, tokens, b)
        newKeys  == {key(b) : b \in fresh}
        newPages == {s.pages[b] : b \in fresh}
    IN  IF ~kv.caching \/ done <= s.registered
        THEN kv
        ELSE [kv EXCEPT
                !.index = [k \in DOMAIN kv.index \cup newKeys |->
                             IF k \in newKeys
                             THEN s.pages[CHOOSE b \in fresh : key(b) = k]
                             ELSE kv.index[k]],
                !.block = [p \in Page |->
                             IF p \in newPages
                             THEN key(CHOOSE b \in fresh : s.pages[b] = p)
                             ELSE kv.block[p]],
                !.seqs = [kv.seqs EXCEPT ![r] =
                            [s EXCEPT !.registered = done, !.chain = key(done)]]]

\* remove_sequence: the tail is released first
RemoveSequence(kv, r) ==
    LET pages == kv.seqs[r].pages
        order == [p \in Range(pages) |->
                    Len(pages) - CHOOSE i \in DOMAIN pages : pages[i] = p]
    IN  [ReleasePages(kv, Range(pages), order) EXCEPT
            !.seqs = Restrict(kv.seqs, Live(kv) \ {r})]

CanRemove(kv, r) == r \in Live(kv) /\ kv.seqs[r].pending = NoPending

-----------------------------------------------------------------------------
(* Appends: reserve, extend, commit, cancel                                *)

\* additional pages that r needs to hold `end` tokens
Additional(kv, r, end) ==
    LET need == PagesFor(end) - Len(kv.seqs[r].pages)
    IN  IF need > 0 THEN need ELSE 0

\* can_append
CanAppend(kv, r, n) ==
    LET s == kv.seqs[r]
    IN  /\ n > 0
        /\ s.pending = NoPending
        /\ s.committed + n <= MaxSequenceLength
        /\ Additional(kv, r, s.committed + n) <= AvailablePages(kv)

\* begin_append succeeds
CanBegin(kv, r, n) ==
    r \in Live(kv) /\ CanAppend(kv, r, n) /\ kv.nextResv < ReservationLimit

\* begin_append where allocate_page returned `new`
BeginAppend(kv, r, n, new) ==
    LET s  == kv.seqs[r]
        id == kv.nextResv
    IN  [Allocate(kv, new) EXCEPT
            !.seqs = [kv.seqs EXCEPT ![r] =
                        [s EXCEPT !.pages = s.pages \o new, !.pending = id]],
            !.resv = [i \in DOMAIN kv.resv \cup {id} |->
                        IF i = id
                        THEN [request |-> r, previous |-> Len(s.pages),
                              start |-> s.committed, count |-> n]
                        ELSE kv.resv[i]],
            !.nextResv = id + 1]

\* validate_reservation
Consistent(kv, id) ==
    /\ id \in DOMAIN kv.resv
    /\ kv.resv[id].request \in Live(kv)
    /\ LET s == kv.seqs[kv.resv[id].request]
       IN  /\ s.pending = id
           /\ s.committed = kv.resv[id].start
           /\ Len(s.pages) >= kv.resv[id].previous

\* extend_append succeeds
CanExtend(kv, id, extra) ==
    /\ Consistent(kv, id)
    /\ LET v   == kv.resv[id]
           end == v.start + v.count + extra
       IN  /\ end <= MaxSequenceLength
           /\ Additional(kv, v.request, end) <= AvailablePages(kv)

\* extend_append where allocate_page returned `new`
ExtendAppend(kv, id, extra, new) ==
    LET v == kv.resv[id]
        s == kv.seqs[v.request]
    IN  [Allocate(kv, new) EXCEPT
            !.seqs = [kv.seqs EXCEPT ![v.request] = [s EXCEPT !.pages = s.pages \o new]],
            !.resv = [kv.resv EXCEPT ![id] = [v EXCEPT !.count = v.count + extra]]]

\* The requests that own the reservations of the set `ids`.
Owned(kv, ids) == {kv.resv[i].request : i \in ids}

\* Mutant: the split keeps one page too many out of the release.
TailPages_OffByOne(pages, keep) == {pages[j] : j \in keep + 2 .. Len(pages)}

\* pages.split_off(keep)
TailPages(pages, keep) == {pages[j] : j \in keep + 1 .. Len(pages)}

\* What the owners of the reservations hold past keep[id] pages.
Tails(kv, ids, keep) ==
    UNION {TailPages(kv.seqs[kv.resv[i].request].pages, keep[i]) : i \in ids}

\* Release these pages.  A reservation's tail carries no cached block, so the
\* order of its release never reaches the eviction order (TailUnpublished of
\* PagedKv).
ReleaseTails(kv, ids, keep) ==
    LET gone == Tails(kv, ids, keep)
    IN  ReleasePages(kv, gone, [p \in gone |-> 0])

\* commit_appends (commit_append when ids is a singleton)
CommitAppends(kv, ids) ==
    [kv EXCEPT
        !.seqs = [r \in Live(kv) |->
            IF r \in Owned(kv, ids)
            THEN LET v == kv.resv[kv.seqs[r].pending]
                 IN  [kv.seqs[r] EXCEPT !.committed = v.start + v.count,
                                        !.pending = NoPending]
            ELSE kv.seqs[r]],
        !.resv = Restrict(kv.resv, DOMAIN kv.resv \ ids)]

\* Mutant: the lookahead pages stay in the table.
KeptPages_Reserved(kv, id, n) == PagesFor(kv.resv[id].start + kv.resv[id].count)

\* Pages left to reservation id when its first n inputs are committed.
KeptPages(kv, id, n) == PagesFor(kv.resv[id].start + n)

\* commit_append_prefixes: consumed[id] inputs of each reservation are kept
\* (commit_append_partial when there is one)
CommitPrefixes(kv, ids, consumed) ==
    LET keep == [i \in ids |-> KeptPages(kv, i, consumed[i])]
    IN  [ReleaseTails(kv, ids, keep) EXCEPT
            !.seqs = [r \in Live(kv) |->
                IF r \in Owned(kv, ids)
                THEN LET i == kv.seqs[r].pending
                     IN  [kv.seqs[r] EXCEPT !.committed = kv.resv[i].start + consumed[i],
                                            !.pages = SubSeq(@, 1, keep[i]),
                                            !.pending = NoPending]
                ELSE kv.seqs[r]],
            !.resv = Restrict(kv.resv, DOMAIN kv.resv \ ids)]

\* Mutant: the partly filled last page is cut off as well.
PreviousPages_FullOnly(kv, id) == kv.resv[id].start \div BlockSize

PreviousPages(kv, id) == kv.resv[id].previous

\* cancel_appends (cancel_append when ids is a singleton)
CancelAppends(kv, ids) ==
    LET keep == [i \in ids |-> PreviousPages(kv, i)]
    IN  [ReleaseTails(kv, ids, keep) EXCEPT
            !.seqs = [r \in Live(kv) |->
                IF r \in Owned(kv, ids)
                THEN [kv.seqs[r] EXCEPT
                        !.pages = SubSeq(@, 1, keep[kv.seqs[r].pending]),
                        !.pending = NoPending]
                ELSE kv.seqs[r]],
            !.resv = Restrict(kv.resv, DOMAIN kv.resv \ ids)]

-----------------------------------------------------------------------------
(* Device memory: what slot s of page p holds is the token prefix whose KV *)
(* was last written to it.  KV at a position depends on every token before *)
(* it, so two slots are interchangeable exactly when their prefixes are    *)
(* equal.                                                                  *)

Garbage == <<>>
Slot == 1..BlockSize

NewMemory == [p \in Page |-> [s \in Slot |-> Garbage]]

\* Where the attention kernels address position i (from 1) of a sequence.
PageOf(pages, i) == pages[(i - 1) \div BlockSize + 1]
SlotOf(i) == ((i - 1) % BlockSize) + 1

\* What memory holds of position i.
Held(mem, pages, i) == mem[PageOf(pages, i)][SlotOf(i)]

-----------------------------------------------------------------------------
(* What holds of a manager value between two operations; PagedKv and       *)
(* BatchScheduler check these of the value they keep.                      *)

SequenceState ==
    [committed : Nat, pages : Seq(Page), pending : Nat,
     registered : Nat, chain : Seq(Token)]
ReservationState ==
    [request : Request, previous : Nat, start : Nat, count : Nat \ {0}]

Field == {"free", "refs", "block", "index", "evictable",
          "caching", "seqs", "resv", "nextResv"}

\* The fields of PagedKvCacheManager have their declared types.
ManagerType(kv) ==
    /\ DOMAIN kv = Field
    /\ kv.free \in SUBSET Page
    /\ kv.refs \in [Page -> Nat]
    /\ kv.block \in [Page -> Seq(Token)]
    /\ DOMAIN kv.index \subseteq Seq(Token) /\ kv.index \in [DOMAIN kv.index -> Page]
    /\ Cached(kv) \subseteq Page /\ kv.evictable \in [Cached(kv) -> Nat]
    /\ kv.caching \in BOOLEAN
    /\ Live(kv) \subseteq Request /\ kv.seqs \in [Live(kv) -> SequenceState]
    /\ DOMAIN kv.resv \subseteq Nat \ {0} /\ kv.resv \in [DOMAIN kv.resv -> ReservationState]
    /\ kv.nextResv \in Nat \ {0}

\* Sequences whose block table maps page p.
Owners(kv, p) == {r \in Live(kv) : p \in Range(kv.seqs[r].pages)}

\* A page's reference count is the number of block tables that map it, each at
\* most once; it is 0 exactly for free and evictable pages, which are disjoint.
Accounted(kv) ==
    /\ \A r \in Live(kv) : IsInjective(kv.seqs[r].pages)
    /\ \A p \in Page : kv.refs[p] = Cardinality(Owners(kv, p))
    /\ \A p \in Page : kv.refs[p] = 0 <=> p \in Available(kv)
    /\ kv.free \cap Cached(kv) = {}

\* block_index and page_blocks are inverse to each other; no free page has a
\* block and every evictable one has.
Indexed(kv) ==
    /\ \A k \in DOMAIN kv.index : k # NoBlock /\ kv.block[kv.index[k]] = k
    /\ \A p \in Page : kv.block[p] # NoBlock =>
          kv.block[p] \in DOMAIN kv.index /\ kv.index[kv.block[p]] = p
    /\ \A p \in kv.free : kv.block[p] = NoBlock
    /\ \A p \in Cached(kv) : kv.block[p] # NoBlock

\* A reservation is its sequence's pending one, and a table holds the pages
\* that its committed or reserved tokens need and no other.
Reserved(kv) ==
    /\ \A i \in DOMAIN kv.resv :
          /\ Consistent(kv, i)
          /\ i < kv.nextResv
          /\ kv.resv[i].previous = PagesFor(kv.resv[i].start)
          /\ Len(kv.seqs[kv.resv[i].request].pages)
                = PagesFor(kv.resv[i].start + kv.resv[i].count)
    /\ \A r \in Live(kv) :
          IF kv.seqs[r].pending = NoPending
          THEN Len(kv.seqs[r].pages) = PagesFor(kv.seqs[r].committed)
          ELSE /\ kv.seqs[r].pending \in DOMAIN kv.resv
               /\ kv.resv[kv.seqs[r].pending].request = r

\* A page past the committed tokens of a sequence is mapped by no other
\* sequence and carries no published block.
ExclusiveTails(kv) ==
    \A r \in Live(kv) : \A j \in DOMAIN kv.seqs[r].pages :
        j * BlockSize > kv.seqs[r].committed =>
            /\ Owners(kv, kv.seqs[r].pages[j]) = {r}
            /\ kv.block[kv.seqs[r].pages[j]] = NoBlock

=============================================================================
