------------------------------ MODULE PagedKv ------------------------------
(***************************************************************************)
(* The paged KV cache manager as a state machine: one action per public    *)
(* operation, called by a client that follows the documented protocol      *)
(* (reserve, run the device, then commit or cancel).                       *)
(*                                                                         *)
(* `kv` is the manager.  The other variables observe what the manager is   *)
(* for: hist[r] is the token history committed for r, work[id] the tokens  *)
(* and the device outcome of reservation id, and mem the device memory.    *)
(***************************************************************************)
EXTENDS PagedKvOps

LOCAL INSTANCE TLC

VARIABLES kv, hist, work, mem

vars == <<kv, hist, work, mem>>

\* Requests and tokens are interchangeable: the manager orders neither.
Symmetry == Permutations(Request) \cup Permutations(Token)

Tokens(n) == [1..n -> Token]

Init ==
    /\ kv = NewManager
    /\ hist = [r \in {} |-> <<>>]
    /\ work = [i \in {} |-> <<>>]
    /\ mem = NewMemory

-----------------------------------------------------------------------------
(* Sequences                                                               *)

SetCaching(enabled) ==
    /\ kv' = SetPrefixCaching(kv, enabled)
    /\ UNCHANGED <<hist, work, mem>>

\* hist with entry r set to tokens
WithHistory(r, tokens) ==
    [q \in DOMAIN hist \cup {r} |-> IF q = r THEN tokens ELSE hist[q]]

Create(r) ==
    /\ r \notin Live(kv)
    /\ kv' = CreateSequence(kv, r)
    /\ hist' = WithHistory(r, <<>>)
    /\ UNCHANGED <<work, mem>>

CreateWithPrefix(r, tokens) ==
    /\ r \notin Live(kv)
    /\ \E m \in Matches(kv, tokens) :
          /\ kv' = CreateSequenceWithPrefix(kv, r, tokens, m)
          /\ hist' = WithHistory(r, BlockKey(tokens, m))
    /\ UNCHANGED <<work, mem>>

\* The caller passes its history, which starts with the committed tokens.
Register(r, n) ==
    /\ r \in Live(kv)
    /\ kv' = RegisterPrefix(kv, r, SubSeq(hist[r], 1, n))
    /\ UNCHANGED <<hist, work, mem>>

Remove(r) ==
    /\ CanRemove(kv, r)
    /\ kv' = RemoveSequence(kv, r)
    /\ hist' = Restrict(hist, DOMAIN hist \ {r})
    /\ UNCHANGED <<work, mem>>

-----------------------------------------------------------------------------
(* Appends                                                                 *)

Begin(r, tokens) ==
    /\ CanBegin(kv, r, Len(tokens))
    /\ \E new \in Allocations(kv, Additional(kv, r, kv.seqs[r].committed + Len(tokens))) :
          kv' = BeginAppend(kv, r, Len(tokens), new)
    /\ work' = [i \in DOMAIN work \cup {kv.nextResv} |->
                  IF i = kv.nextResv
                  THEN [tokens |-> tokens, state |-> "reserved"]
                  ELSE work[i]]
    /\ UNCHANGED <<hist, mem>>

Extend(id, extra) ==
    /\ CanExtend(kv, id, Len(extra))
    /\ work[id].state = "reserved"
    /\ \E new \in Allocations(kv, Additional(kv, kv.resv[id].request,
                     kv.resv[id].start + kv.resv[id].count + Len(extra))) :
          kv' = ExtendAppend(kv, id, Len(extra), new)
    /\ work' = [work EXCEPT ![id].tokens = @ \o extra]
    /\ UNCHANGED <<hist, mem>>

\* The device runs a reservation: it writes the KV of every reserved position
\* through the block table, or fails after leaving anything there.
DeviceRun(id, ok) ==
    LET v     == kv.resv[id]
        pages == kv.seqs[v.request].pages
        text  == hist[v.request] \o work[id].tokens
        spot  == v.start + 1 .. v.start + v.count
    IN  /\ work[id].state = "reserved"
        /\ work' = [work EXCEPT ![id].state = IF ok THEN "written" ELSE "failed"]
        /\ mem' = [p \in Page |-> [s \in Slot |->
                     IF \E i \in spot : PageOf(pages, i) = p /\ SlotOf(i) = s
                     THEN LET i == CHOOSE i \in spot : PageOf(pages, i) = p /\ SlotOf(i) = s
                          IN  IF ok THEN SubSeq(text, 1, i) ELSE Garbage
                     ELSE mem[p][s]]]
        /\ UNCHANGED <<kv, hist>>

\* Histories after consumed[id] inputs of every reservation of ids committed.
Grown(ids, consumed) ==
    [r \in DOMAIN hist |->
        IF r \in Owned(kv, ids)
        THEN LET i == kv.seqs[r].pending
             IN  hist[r] \o SubSeq(work[i].tokens, 1, consumed[i])
        ELSE hist[r]]

Commit(ids) ==
    /\ \A i \in ids : Consistent(kv, i) /\ work[i].state = "written"
    /\ kv' = CommitAppends(kv, ids)
    /\ hist' = Grown(ids, [i \in ids |-> kv.resv[i].count])
    /\ work' = Restrict(work, DOMAIN work \ ids)
    /\ UNCHANGED mem

CommitPrefix(ids, consumed) ==
    /\ \A i \in ids : /\ Consistent(kv, i)
                      /\ work[i].state = "written"
                      /\ consumed[i] \in 1 .. kv.resv[i].count
    /\ kv' = CommitPrefixes(kv, ids, consumed)
    /\ hist' = Grown(ids, consumed)
    /\ work' = Restrict(work, DOMAIN work \ ids)
    /\ UNCHANGED mem

Cancel(ids) ==
    /\ \A i \in ids : Consistent(kv, i)
    /\ kv' = CancelAppends(kv, ids)
    /\ work' = Restrict(work, DOMAIN work \ ids)
    /\ UNCHANGED <<hist, mem>>

Reservations == DOMAIN kv.resv
Counts(ids) == [ids -> 1..MaxSequenceLength]

Next ==
    \/ \E enabled \in BOOLEAN : SetCaching(enabled)
    \/ \E r \in Request : Create(r)
    \/ \E r \in Request, n \in 1..MaxSequenceLength :
          \E tokens \in Tokens(n) : CreateWithPrefix(r, tokens)
    \/ \E r \in Live(kv) : \E n \in 0..Len(hist[r]) : Register(r, n)
    \/ \E r \in Live(kv) : Remove(r)
    \/ \E r \in Live(kv), n \in 1..MaxSequenceLength :
          \E tokens \in Tokens(n) : Begin(r, tokens)
    \/ \E id \in Reservations, n \in 1..MaxSequenceLength :
          \E extra \in Tokens(n) : Extend(id, extra)
    \/ \E id \in Reservations, ok \in BOOLEAN : DeviceRun(id, ok)
    \/ \E ids \in SUBSET Reservations \ {{}} : Commit(ids)
    \/ \E ids \in SUBSET Reservations \ {{}} :
          \E consumed \in Counts(ids) : CommitPrefix(ids, consumed)
    \/ \E ids \in SUBSET Reservations \ {{}} : Cancel(ids)

Spec == Init /\ [][Next]_vars

-----------------------------------------------------------------------------
(* Properties                                                              *)

\* The fields of PagedKvCacheManager have their declared types, and so have
\* the caller's histories.
TypeOK ==
    /\ ManagerType(kv)
    /\ hist \in [Live(kv) -> Seq(Token)]

\* No page leaks and none is handed out twice: a page's reference count is the
\* number of block tables that map it (each at most once), it is referenced
\* exactly when it is neither free nor evictable, and those two are disjoint
\* (free_pages, page_refs and evictable of the manager).
PagesAccounted == Accounted(kv)

\* block_index and page_blocks stay inverse to each other, so drop_cached_block
\* always finds its entry, acquire_cached never meets an indexed page without
\* its block, and two keys never name one page.
IndexAgrees == Indexed(kv)

\* Every reservation owns its sequence's pending state and a table holds
\* exactly the pages its committed or reserved tokens need, so the `expect`s
\* after validate_reservations and the split_offs never panic.
ReservationsOwned == Reserved(kv)

\* "Shared pages are never written": a position past the committed tokens lies
\* in a page that no other sequence maps and no prefix-cache entry names.
TailUnpublished == ExclusiveTails(kv)

\* Reading a sequence's committed positions through its block table finds the
\* KV of exactly its own history, whatever was reserved, cancelled, partly
\* accepted, shared or evicted meanwhile; and a page found under a prefix-cache
\* key holds the KV of that key's tokens, so a match needs no recomputation.
ContentCorrect ==
    /\ \A r \in Live(kv) :
          /\ Len(hist[r]) = kv.seqs[r].committed
          /\ \A i \in 1..kv.seqs[r].committed :
                Held(mem, kv.seqs[r].pages, i) = SubSeq(hist[r], 1, i)
    /\ \A k \in DOMAIN kv.index :
          /\ Len(k) % BlockSize = 0
          /\ \A s \in Slot :
                mem[kv.index[k]][s] = SubSeq(k, 1, Len(k) - BlockSize + s)

\* While a sequence stays live its committed length never decreases and the
\* pages that hold its committed tokens never move.
CommittedStable ==
    [][\A r \in Live(kv) \cap Live(kv)' :
          LET before == kv.seqs[r] after == kv.seqs[r]'
          IN  /\ after.committed >= before.committed
              /\ \A j \in 1..PagesFor(before.committed) :
                    j \in DOMAIN after.pages /\ after.pages[j] = before.pages[j]]_vars

\* While caching stays on, a published block is forgotten only to satisfy an
\* allocation that found no free page, and the least recently released blocks
\* go first ("least recently released first").
EvictionIsLru ==
    [][kv.caching /\ kv'.caching =>
          \A k \in DOMAIN kv.index \ DOMAIN kv'.index :
              LET p == kv.index[k]
              IN  /\ p \in Cached(kv)
                  /\ kv'.free = {}
                  /\ \A q \in Cached(kv)' :
                        q \in Cached(kv) => kv.evictable[p] < kv.evictable[q]]_vars

=============================================================================
