---------------------------- MODULE PagedRotary ----------------------------
(***************************************************************************)
(* The rotary bookkeeping of the paged engine (paged_engine/rotary.rs) and *)
(* the runner step that drives it (paged_engine.rs).  Keys on a page are   *)
(* rotated with a context length that depends on how far the request had   *)
(* got; a shared page must be continued with the contexts it was written   *)
(* with, a recomputed one with the request's first ones.                   *)
(*                                                                         *)
(* Every request has the same text, so a full block is known by its index; *)
(* `keys` is the device memory: the context each slot was rotated with.    *)
(* The scheduler is reduced to what decides pages and positions.           *)
(***************************************************************************)
EXTENDS Integers, FiniteSetsExt, SequencesExt

CONSTANTS Request, Page, Block,
          Prompt,    \* tokens of every prompt
          MaxTokens, \* BOUND: tokens of a sequence
          Dynamic,   \* dynamic NTK scaling; else the long/short switch
          Original   \* original_length

\* What a configuration must satisfy.
RotaryAssumption ==
  /\ Block \in Nat \ {0} /\ Prompt \in 1..MaxTokens /\ Dynamic \in BOOLEAN /\ Original \in Nat \ {0}

VARIABLES
  state,    \* per request: "new", "active" or "done"
  table,    \* pages of each sequence
  committed,\* committed tokens of each sequence
  index,    \* prefix cache: block number -> page
  keys,     \* contexts on the device, by page and offset
  slots, requests, pending  \* the fields of PagedRotaryCache

vars == <<state, table, committed, index, keys, slots, requests, pending>>

NoRows == <<>>

Slot == Page \X (0..(Block - 1))

SlotOf(pages, p) == <<pages[(p \div Block) + 1], p % Block>>

With(f, x, v) == [y \in DOMAIN f \cup {x} |-> IF y = x THEN v ELSE f[y]]

Without(f, x) == [y \in DOMAIN f \ {x} |-> f[y]]

Held == UNION {Range(table[r]) : r \in Request}
        \cup UNION {Range(pending[r].pages) : r \in DOMAIN pending}

\* Slots whose key some sequence may still read.
Live(tables, done, cache) ==
  UNION {{SlotOf(tables[r], p) : p \in 0..(done[r] - 1)} : r \in Request}
  \cup {<<cache[b], o>> : b \in DOMAIN cache, o \in 0..(Block - 1)}

\* Memory that nothing reads is not told apart.
Settle == keys' = [s \in Slot |-> IF s \in Live(table', committed', index') THEN keys[s] ELSE 0]

PagesFor(n) == (n + Block - 1) \div Block

Init ==
  /\ state = [r \in Request |-> "new"]
  /\ table = [r \in Request |-> <<>>] /\ committed = [r \in Request |-> 0]
  /\ index = <<>> /\ keys = [s \in Slot |-> 0]
  /\ slots = [s \in Slot |-> 0] /\ requests = <<>> /\ pending = NoRows

\* create_sequence_with_prefix: the cached blocks before the last prompt token.
Admit(r) ==
  /\ state[r] = "new" /\ pending = NoRows
  /\ LET n == Max({k \in 0..((Prompt - 1) \div Block) : 1..k \subseteq DOMAIN index})
     IN /\ table' = [table EXCEPT ![r] = [b \in 1..n |-> index[b]]]
        /\ committed' = [committed EXCEPT ![r] = n * Block]
  /\ state' = [state EXCEPT ![r] = "active"]
  /\ UNCHANGED <<index, keys, slots, requests, pending>>

\* Pages come from those no sequence holds; a cached one leaves the index.
Reserved(r, n, fresh) ==
  /\ Len(fresh) = PagesFor(committed[r] + n) - Len(table[r])
  /\ IsInjective(fresh) /\ Range(fresh) \cap Held = {}

\* paged_context
Context(previous, end) ==
  LET base == IF previous = 0 THEN Original ELSE previous
      grown == IF end > base THEN end ELSE base
  IN IF ~Dynamic THEN end ELSE IF end < Original THEN Original ELSE grown

\* prepare: the request's own history first, then what the shared pages say.
History(r, pages) ==
  LET own == IF r \in DOMAIN requests THEN requests[r] ELSE <<>>
      n   == Max({Len(own), committed[r]})
  IN [p \in 1..n |-> IF p <= Len(own) THEN own[p] ELSE slots[SlotOf(pages, p - 1)]]

\* The contexts of all positions up to the end of the row.
Contexts(r, pages, end) ==
  LET history == History(r, pages)
      context == Context(IF history = <<>> THEN 0 ELSE Last(history), end)
  IN [p \in 1..Max({Len(history), end}) |-> IF p <= Len(history) THEN history[p] ELSE context]

\* schedule, execute_positions and the writes of the kernel.
Execute(r, n, fresh) ==
  LET pages == table[r] \o fresh
      end   == committed[r] + n
      row   == [start |-> committed[r], n |-> n, pages |-> pages, contexts |-> Contexts(r, pages, end)]
  IN /\ state[r] = "active" /\ end <= MaxTokens
     /\ pending = NoRows \/ \A q \in DOMAIN pending : pending[q].n = n
     /\ r \notin DOMAIN pending /\ Reserved(r, n, fresh)
     /\ pending' = With(pending, r, row)
     /\ keys' = [s \in Slot |->
          IF \E p \in committed[r]..(end - 1) : SlotOf(pages, p) = s
          THEN row.contexts[(CHOOSE p \in committed[r]..(end - 1) : SlotOf(pages, p) = s) + 1]
          ELSE keys[s]]
     /\ index' = [b \in {b \in DOMAIN index : index[b] \notin Range(fresh)} |-> index[b]]
     /\ UNCHANGED <<state, table, committed, slots, requests>>

\* Only the accepted positions of a row are published.
Published(row, count) == row.start..(row.start + count - 1)

\* Mutant: the history of a recomputed request is cut to its new tokens.
Recorded_Cut(r, row, count) == SubSeq(row.contexts, 1, row.start + count)

\* commit keeps what the request already knew past the accepted end.
Recorded(r, row, count) ==
  LET old == IF r \in DOMAIN requests THEN requests[r] ELSE <<>>
      end == row.start + count
  IN [p \in 1..Max({Len(old), end}) |-> IF p <= end THEN row.contexts[p] ELSE old[p]]

\* Newly completed blocks enter the prefix cache unless one is there.
Registered(tables, done) ==
  LET full == {<<r, b>> \in Request \X (1..MaxTokens) : b * Block <= done[r] /\ b <= Len(tables[r])}
      new  == {rb \in full : rb[2] \notin DOMAIN index /\ rb[1] \in DOMAIN pending
                             /\ 1..(rb[2] - 1) \subseteq DOMAIN index \cup {x[2] : x \in full}}
  IN [b \in DOMAIN index \cup {x[2] : x \in new} |->
        IF b \in DOMAIN index THEN index[b]
        ELSE tables[Min({x[1] : x \in {y \in new : y[2] = b}})][b]]

\* The scheduler completes the batch, a verify row with some of its drafts
\* rejected, and the engine commits the same counts.
Commit(counts) ==
  LET rows == DOMAIN pending
      end(r) == pending[r].start + counts[r]
  IN /\ rows # {}
     /\ \A r \in rows : counts[r] \in 1..pending[r].n
     /\ committed' = [r \in Request |-> IF r \in rows THEN end(r) ELSE committed[r]]
     /\ table' = [r \in Request |-> IF r \in rows
                    THEN SubSeq(pending[r].pages, 1, PagesFor(end(r))) ELSE table[r]]
     /\ slots' = [s \in Slot |->
          IF \E r \in rows : \E p \in Published(pending[r], counts[r]) : SlotOf(pending[r].pages, p) = s
          THEN LET r == CHOOSE q \in rows : \E p \in Published(pending[q], counts[q]) : SlotOf(pending[q].pages, p) = s
                   p == CHOOSE p \in Published(pending[r], counts[r]) : SlotOf(pending[r].pages, p) = s
               IN pending[r].contexts[p + 1]
          ELSE slots[s]]
     /\ requests' = [r \in DOMAIN requests \cup rows |->
                       IF r \in rows THEN Recorded(r, pending[r], counts[r]) ELSE requests[r]]
     /\ index' = Registered(table', committed')
     /\ pending' = NoRows /\ Settle
     /\ UNCHANGED state

\* run_batch failed: the engine rolls back, then the scheduler does.
Fail ==
  /\ pending # NoRows /\ pending' = NoRows
  /\ UNCHANGED <<state, table, committed, index, slots, requests>> /\ Settle

\* preempt_newest: the pages go, the history stays.
Preempt(r) ==
  /\ pending = NoRows /\ state[r] = "active" /\ table[r] # <<>>
  /\ table' = [table EXCEPT ![r] = <<>>] /\ committed' = [committed EXCEPT ![r] = 0]
  /\ UNCHANGED <<state, index, slots, requests, pending>> /\ Settle

\* A finished or cancelled request is forgotten; its pages may stay cached.
Leave(r) ==
  /\ pending = NoRows /\ state[r] = "active"
  /\ state' = [state EXCEPT ![r] = "done"]
  /\ table' = [table EXCEPT ![r] = <<>>] /\ committed' = [committed EXCEPT ![r] = 0]
  /\ requests' = Without(requests, r)
  /\ UNCHANGED <<index, slots, pending>> /\ Settle

Next ==
  \/ \E r \in Request : Admit(r) \/ Preempt(r) \/ Leave(r)
  \/ \E r \in Request, n \in 1..MaxTokens, fresh \in SeqOf(Page, PagesFor(MaxTokens)) : Execute(r, n, fresh)
  \/ \E counts \in [DOMAIN pending -> 1..MaxTokens] : Commit(counts)
  \/ Fail

Spec == Init /\ [][Next]_vars

\* The recorded context of every committed or cached slot is the one its key
\* was rotated with, so a request that shares the page continues it correctly
\* and prepare never meets a shared prefix without a rotary history.
SlotsMatchKeys == \A s \in Live(table, committed, index) : slots[s] # 0 /\ slots[s] = keys[s]

\* Once a request has a context for a position it keeps it: recomputation
\* after a preemption rotates every key as it was rotated the first time.
ContextsKept ==
  \A r \in DOMAIN requests \cap DOMAIN requests' :
    IsPrefix(requests[r], requests'[r])

\* The engine's history and the pages of a request agree on every position.
OwnHistoryMatches ==
  \A r \in DOMAIN requests : \A p \in 1..committed[r] :
    p <= Len(requests[r]) /\ requests[r][p] = keys[SlotOf(table[r], p - 1)]
=============================================================================
