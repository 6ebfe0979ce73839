------------------------- MODULE TieredPrefixCache -------------------------
(***************************************************************************)
(* The session prefix cache (prefix_cache.rs).  It keeps one entry per     *)
(* token prefix, on the device, serialised on the host or in a file,       *)
(* demotes the least recently used entry when a tier is over budget and    *)
(* counts what every tier holds.                                           *)
(*                                                                         *)
(* A process that uses the cache is a record of its memory; the files      *)
(* outlive it.  The directory is not locked: two processes that serve the  *)
(* same model share the files, and a process that dies while it writes     *)
(* leaves an incomplete file behind.                                       *)
(***************************************************************************)
EXTENDS Integers, Sequences, SequencesExt, FiniteSetsExt, Functions

CONSTANTS
  Process,         \* operating system processes that open the directory
  Prompts,         \* the prompts they prefill
  BlockTokens, DeviceEntries, HostBytes, DiskBytes,   \* PrefixCacheConfig
  PayloadBytes(_), \* bytes of a serialised prefix
  MaxTick,         \* bound on the LRU clock of one process
  MaxFaults        \* bound on failed device, file and process steps

\* What a configuration must satisfy.
ConfigAssumption ==
  /\ BlockTokens \in Nat \ {0}
  /\ DeviceEntries \in Nat /\ HostBytes \in Nat /\ DiskBytes \in Nat

VARIABLES
  mem,    \* process |-> its memory: program counter, entries, counters
  files,  \* path |-> what the file holds
  faults  \* failures so far

vars == <<mem, files, faults>>

Empty == <<>>

\* Memory of a process that has not opened the cache.
Down == [pc |-> "down", entries |-> Empty, tick |-> 0, dev |-> 0, host |-> 0,
         disk |-> 0, put |-> Empty, prompt |-> <<>>, cache |-> <<>>]

Enabled == DeviceEntries > 0 \/ HostBytes > 0 \/ DiskBytes > 0

InTier(entries, tier) == {k \in DOMAIN entries : entries[k].tier = tier}

\* The least recently used entry of a tier: min_by_key(used).
Oldest(entries, tier) ==
  CHOOSE k \in InTier(entries, tier) :
    \A j \in InTier(entries, tier) : entries[k].used <= entries[j].used

Without(entries, key) == Restrict(entries, DOMAIN entries \ {key})

With(entries, key, tier, used, path, size) ==
  (key :> [tier |-> tier, used |-> used, path |-> path, size |-> size]) @@ entries

SumSizes(S, Size(_)) == MapThenSumSet(Size, S)

TierBytes(p, tier) ==
  SumSizes(InTier(mem[p].entries, tier), LAMBDA k : mem[p].entries[k].size)

\* The longest entry the prompt starts with.
Matching(p) == {k \in DOMAIN mem[p].entries : IsPrefix(k, mem[p].prompt)}
Longest(p)  == CHOOSE k \in Matching(p) : \A j \in Matching(p) : Len(j) <= Len(k)

Fault == faults < MaxFaults /\ faults' = faults + 1

\* An insert that returns, with or without an error: prefill only logs it.
Inserted(m) == [m EXCEPT !.pc = "compute", !.put = Empty]

----------------------------------------------------------------------------
(* insert: a new entry enters on the device, then both loops demote.       *)

InsertEntry(m) ==
  IF ~Enabled THEN m
  ELSE IF m.cache \in DOMAIN m.entries
       THEN [m EXCEPT !.tick = @ + 1, !.entries[m.cache].used = m.tick + 1]
       ELSE [m EXCEPT !.tick = @ + 1, !.dev = @ + 1, !.pc = "device",
                      !.entries = With(@, m.cache, "device", m.tick + 1, <<>>, 0)]

\* The over-budget device entry is dropped, kept on the host or handed to
\* put_disk; "Spill" decides.
Demote(p, key) ==
  LET m    == mem[p]
      size == PayloadBytes(key)
      rest == [m EXCEPT !.dev = @ - 1, !.entries = Without(@, key)]
  IN IF HostBytes = 0 /\ DiskBytes = 0 THEN rest
     ELSE IF size <= HostBytes
          THEN [rest EXCEPT !.host = @ + size,
                  !.entries = With(@, key, "host", m.entries[key].used, <<>>, size)]
          ELSE [rest EXCEPT !.pc = "put",
                  !.put = [key |-> key, used |-> m.entries[key].used, back |-> "device"]]

DeviceOver(p) == mem[p].pc = "device" /\ mem[p].dev > DeviceEntries

DeviceDone(p) ==
  /\ mem[p].pc = "device" /\ mem[p].dev <= DeviceEntries
  /\ mem' = [mem EXCEPT ![p].pc = "host"]
  /\ UNCHANGED <<files, faults>>

\* The host loop: the oldest serialised entry leaves for the disk.
HostEvict(p) ==
  /\ mem[p].pc = "host" /\ mem[p].host > HostBytes
  /\ LET key == Oldest(mem[p].entries, "host")
     IN mem' = [mem EXCEPT ![p] = [@ EXCEPT
          !.host = @ - mem[p].entries[key].size, !.entries = Without(@, key),
          !.pc = "put", !.put = [key |-> key, used |-> mem[p].entries[key].used, back |-> "host"]]]
  /\ UNCHANGED <<files, faults>>

HostDone(p) ==
  /\ mem[p].pc = "host" /\ mem[p].host <= HostBytes
  /\ mem' = [mem EXCEPT ![p] = Inserted(@)]
  /\ UNCHANGED <<files, faults>>

----------------------------------------------------------------------------
(* The driver of a cache: look a prompt up, compute what is missing block  *)
(* by block, insert each block.                                            *)

StartPrefill(p) ==
  /\ mem[p].pc = "idle" /\ mem[p].tick < MaxTick
  /\ \E prompt \in Prompts :
       mem' = [mem EXCEPT ![p] = [@ EXCEPT !.pc = "lookup", !.prompt = prompt,
                                           !.cache = <<>>, !.tick = @ + 1]]
  /\ UNCHANGED <<files, faults>>

LookupMiss(p) ==
  /\ mem[p].pc = "lookup" /\ Matching(p) = {}
  /\ mem' = [mem EXCEPT ![p].pc = "compute"]
  /\ UNCHANGED <<files, faults>>

BlockEnd(p) ==
  LET start == Len(mem[p].cache) IN
  IF ~Enabled THEN Len(mem[p].prompt)
  ELSE Min({(start \div BlockTokens + 1) * BlockTokens, Len(mem[p].prompt)})

\* One forward pass over the next block, then insert of the longer prefix.
Compute(p) ==
  /\ mem[p].pc = "compute" /\ Len(mem[p].cache) < Len(mem[p].prompt)
  /\ mem' = [mem EXCEPT ![p] = InsertEntry([@ EXCEPT
               !.cache = @ \o SubSeq(mem[p].prompt, Len(@) + 1, BlockEnd(p))])]
  /\ UNCHANGED <<files, faults>>

ComputeFails(p) ==
  /\ mem[p].pc = "compute" /\ Len(mem[p].cache) < Len(mem[p].prompt)
  /\ Fault
  /\ mem' = [mem EXCEPT ![p].pc = "idle"]
  /\ UNCHANGED files

FinishPrefill(p) ==
  /\ mem[p].pc = "compute" /\ Len(mem[p].cache) = Len(mem[p].prompt)
  /\ mem' = [mem EXCEPT ![p].pc = "idle"]
  /\ UNCHANGED <<files, faults>>

\* The process dies; what it was writing stays as it is.
Crash(p) ==
  /\ mem[p].pc # "down"
  /\ Fault
  /\ mem' = [mem EXCEPT ![p] = Down]
  /\ UNCHANGED files

-----------------------------------------------------------------------------
Whole == {f \in DOMAIN files : files[f].whole}

Size(f) == PayloadBytes(files[f].key)

\* reopen_disk: the complete files in directory order; the second file of a
\* prefix is deleted, incomplete files are left alone.
Opened(order) ==
  LET first == {i \in DOMAIN order :
                  \A j \in 1..(i - 1) : files[order[j]].key # files[order[i]].key}
      keys  == {files[order[i]].key : i \in first}
      At(k) == CHOOSE i \in first : files[order[i]].key = k
  IN [Down EXCEPT !.pc = "opening", !.tick = Len(order),
        !.disk = SumSizes(first, LAMBDA i : Size(order[i])),
        !.entries = [k \in keys |-> [tier |-> "disk", used |-> At(k),
                                     path |-> order[At(k)], size |-> PayloadBytes(k)]]]

Open(p) ==
  /\ mem[p].pc = "down"
  /\ IF DiskBytes = 0
     THEN mem' = [mem EXCEPT ![p] = [Down EXCEPT !.pc = "idle"]] /\ UNCHANGED files
     ELSE \E order \in SetToSeqs(Whole) :
            /\ mem' = [mem EXCEPT ![p] = Opened(order)]
            /\ files' = Restrict(files, (DOMAIN files \ Whole) \cup
                 {Opened(order).entries[k].path : k \in DOMAIN Opened(order).entries})
  /\ UNCHANGED faults

\* evict_disk: remove_file comes first, so a file that another process already
\* deleted is an error that changes nothing.
Evictable(p) ==
  /\ InTier(mem[p].entries, "disk") # {}
  /\ mem[p].entries[Oldest(mem[p].entries, "disk")].path \in DOMAIN files

EvictDisk(p) ==
  LET key == Oldest(mem[p].entries, "disk")
      old == mem[p].entries[key]
  IN /\ mem' = [mem EXCEPT ![p] = [@ EXCEPT !.disk = @ - old.size, !.entries = Without(@, key)]]
     /\ files' = Restrict(files, DOMAIN files \ {old.path})

OpenEvict(p) ==
  /\ mem[p].pc = "opening" /\ mem[p].disk > DiskBytes /\ Evictable(p)
  /\ EvictDisk(p)
  /\ UNCHANGED faults

\* new() returns the error of evict_disk: the process has no cache.
OpenFails(p) ==
  /\ mem[p].pc = "opening" /\ mem[p].disk > DiskBytes /\ ~Evictable(p)
  /\ mem' = [mem EXCEPT ![p] = Down]
  /\ UNCHANGED <<files, faults>>

OpenDone(p) ==
  /\ mem[p].pc = "opening" /\ mem[p].disk <= DiskBytes
  /\ mem' = [mem EXCEPT ![p].pc = "idle"]
  /\ UNCHANGED <<files, faults>>

\* What restore finds for an entry: the prefix in memory or the one the file
\* at the entry's path holds now; no value when there is no complete file.
Payloads(p, key) ==
  LET e == mem[p].entries[key] IN
  IF e.tier # "disk" THEN {key}
  ELSE {files[f].key : f \in {e.path} \cap Whole}

\* Mutant: the file is trusted.
Restorable_Trusted(p, key, payload) == TRUE

\* validate: the payload must be a prefix of the prompt, and its position must
\* be the length of the key it was found under.
Restorable(p, key, payload) ==
  IsPrefix(payload, mem[p].prompt) /\ Len(payload) = Len(key)

LookupHit(p) ==
  /\ mem[p].pc = "lookup" /\ Matching(p) # {}
  /\ \E payload \in Payloads(p, Longest(p)) :
       /\ Restorable(p, Longest(p), payload)
       /\ mem' = [mem EXCEPT ![p] = [@ EXCEPT !.pc = "compute", !.cache = payload,
                                       !.entries[Longest(p)].used = mem[p].tick]]
  /\ UNCHANGED <<files, faults>>

\* Mutant: the file's bytes are given back although the file stays.
Forgotten_FreesDisk(m, key) ==
  [m EXCEPT !.entries = Without(@, key),
            !.host = IF m.entries[key].tier = "host" THEN @ - m.entries[key].size ELSE @,
            !.disk = IF m.entries[key].tier = "disk" THEN @ - m.entries[key].size ELSE @]

\* A failed restore forgets the entry.  Its file stays, and stays counted.
Forgotten(m, key) ==
  [m EXCEPT !.entries = Without(@, key),
            !.dev  = IF m.entries[key].tier = "device" THEN @ - 1 ELSE @,
            !.host = IF m.entries[key].tier = "host" THEN @ - m.entries[key].size ELSE @]

LookupFails(p) ==
  /\ mem[p].pc = "lookup" /\ Matching(p) # {}
  /\ \/ /\ \A payload \in Payloads(p, Longest(p)) : ~Restorable(p, Longest(p), payload)
        /\ UNCHANGED faults
     \/ mem[p].entries[Longest(p)].tier # "device" /\ Fault
  /\ mem' = [mem EXCEPT ![p] = Forgotten(@, Longest(p))]
  /\ UNCHANGED files

DeviceEvict(p) ==
  /\ DeviceOver(p)
  /\ mem' = [mem EXCEPT ![p] = Demote(p, Oldest(mem[p].entries, "device"))]
  /\ UNCHANGED <<files, faults>>

\* capture fails: the entry goes back to the device, over budget, and insert
\* returns the error.
CaptureFails(p) ==
  /\ DeviceOver(p) /\ HostBytes + DiskBytes > 0
  /\ Fault
  /\ mem' = [mem EXCEPT ![p] = Inserted(@)]
  /\ UNCHANGED files

----------------------------------------------------------------------------
(* put_disk                                                                *)

PutBytes(p) == PayloadBytes(mem[p].put.key)

PutSkips(p) ==
  /\ mem[p].pc = "put" /\ (PutBytes(p) > DiskBytes \/ DiskBytes = 0)
  /\ mem' = [mem EXCEPT ![p] = [@ EXCEPT !.pc = mem[p].put.back, !.put = Empty]]
  /\ UNCHANGED <<files, faults>>

PutFull(p) ==
  /\ mem[p].pc = "put" /\ PutBytes(p) <= DiskBytes
  /\ mem[p].disk + PutBytes(p) > DiskBytes

PutEvicts(p) ==
  /\ PutFull(p) /\ Evictable(p)
  /\ EvictDisk(p)
  /\ UNCHANGED faults

PutStuck(p) ==
  /\ PutFull(p) /\ ~Evictable(p)
  /\ mem' = [mem EXCEPT ![p] = Inserted(@)]
  /\ UNCHANGED <<files, faults>>

\* create_new: the first free name of this process from the clock upwards.
Serial(p) == CHOOSE s \in mem[p].tick..(mem[p].tick + Cardinality(DOMAIN files)) :
               /\ <<p, s>> \notin DOMAIN files
               /\ \A r \in mem[p].tick..(s - 1) : <<p, r>> \in DOMAIN files

PutCreates(p) ==
  /\ mem[p].pc = "put" /\ PutBytes(p) <= DiskBytes /\ DiskBytes > 0
  /\ mem[p].disk + PutBytes(p) <= DiskBytes
  /\ files' = (<<p, Serial(p)>> :> [key |-> mem[p].put.key, whole |-> FALSE]) @@ files
  /\ mem' = [mem EXCEPT ![p] = [@ EXCEPT !.pc = "write",
               !.put = [key |-> @.key, used |-> @.used, back |-> @.back, path |-> <<p, Serial(p)>>]]]
  /\ UNCHANGED faults

PutWrites(p) ==
  /\ mem[p].pc = "write"
  /\ files' = [files EXCEPT ![mem[p].put.path].whole = TRUE]
  /\ mem' = [mem EXCEPT ![p] = [@ EXCEPT !.pc = mem[p].put.back, !.put = Empty,
               !.disk = @ + PutBytes(p),
               !.entries = With(@, mem[p].put.key, "disk", mem[p].put.used, mem[p].put.path, PutBytes(p))]]
  /\ UNCHANGED faults

PutFails(p) ==
  /\ mem[p].pc = "write"
  /\ Fault
  /\ files' = Restrict(files, DOMAIN files \ {mem[p].put.path})
  /\ mem' = [mem EXCEPT ![p] = Inserted(@)]

----------------------------------------------------------------------------
Init == mem = [p \in Process |-> Down] /\ files = Empty /\ faults = 0

\* Every step the code takes by itself once it has been called.
Step(p) ==
  \/ OpenEvict(p) \/ OpenFails(p) \/ OpenDone(p)
  \/ LookupMiss(p) \/ LookupHit(p) \/ LookupFails(p) \/ Compute(p) \/ ComputeFails(p) \/ FinishPrefill(p)
  \/ DeviceEvict(p) \/ CaptureFails(p) \/ DeviceDone(p) \/ HostEvict(p) \/ HostDone(p)
  \/ PutSkips(p) \/ PutEvicts(p) \/ PutStuck(p) \/ PutCreates(p) \/ PutWrites(p) \/ PutFails(p)

Next == \E p \in Process : Open(p) \/ StartPrefill(p) \/ Step(p) \/ Crash(p)

\* A thread that is running the cache's code goes on running it.
Spec == Init /\ [][Next]_vars /\ \A p \in Process : WF_vars(Step(p))

----------------------------------------------------------------------------
\* Whatever tier a restored prefix came from, and whatever other processes did
\* to its file meanwhile, the state a prefill continues from is a state of its
\* own prompt: prefill never extends another prompt's KV cache.
ContinuesOwnPrompt ==
  \A p \in Process : IsPrefix(mem[p].cache, mem[p].prompt)

\* The counters that drive eviction are exact for the memory tiers, and never
\* below what the process' disk entries take.
CountersExact ==
  \A p \in Process :
    /\ mem[p].dev = Cardinality(InTier(mem[p].entries, "device"))
    /\ mem[p].host = TierBytes(p, "host")
    /\ mem[p].disk >= TierBytes(p, "disk")

\* With one process on the directory, what put_disk believes is on disk is
\* what is there: the complete files never exceed disk_bytes, through crashes,
\* failed writes and restores that fail and leave their file behind.
DiskWithinBudget ==
  \A p \in Process : mem[p].pc \notin {"down", "opening"} =>
    /\ mem[p].disk = SumSizes(Whole, Size)
    /\ mem[p].disk <= DiskBytes

\* The clock orders entries without ties, so the least recently used entry is
\* unique in every tier.
ClockOrders ==
  \A p \in Process : \A j, k \in DOMAIN mem[p].entries :
    mem[p].entries[j].used = mem[p].entries[k].used => j = k

\* A prefill that started returns (or its process dies): no eviction or
\* restore loop runs forever, even when other processes delete its files.
PrefillReturns ==
  \A p \in Process : (mem[p].pc \notin {"idle", "down"}) ~> (mem[p].pc \in {"idle", "down"})

=============================================================================
