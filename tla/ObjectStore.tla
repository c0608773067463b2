------------------------------ MODULE ObjectStore ------------------------------
(* The store of timestamped payloads (pj_datastore's ObjectStore): per topic a *)
(* series of entries in stamp order, each with a UID that is never reused, a   *)
(* byte count, two revisions and one warm value for latestAt.  Producers push  *)
(* in and out of stamp order, retention evicts from the front, a refill moves  *)
(* the entries aside and back, a GUI reader resolves with no lock held, and a  *)
(* video decoder keeps an index of the packets by following the revisions.     *)
(*                                                                            *)
(* An action is one section of the store's locks: with the store mutex shared  *)
(* and the series mutex exclusive, or the store mutex exclusive.  A payload is *)
(* its charge in bytes and the slot of the resident pool that seeds it; the    *)
(* topics are those of one dataset.  `content` and `rewrite` are drawn from    *)
(* one counter, as in the code, once per operation.                            *)
EXTENDS ResidentPool

CONSTANTS Topics,        \* the topics of the dataset
          Stamps,        \* the timestamps producers push
          Payloads,      \* the bytes an entry may be charged; 0: its closure re-reads
          Budgets,       \* the retention budgets a topic may be given
          NoSlot,        \* an entry that is not seeded
          Video,         \* the topic the decoder follows
          MaxUid,        \* bound: entries pushed
          MaxChanges     \* bound: operations that move a revision

ASSUME StoreAssumption ==
  /\ Stamps \subseteq Nat \ {0}
  /\ Payloads \subseteq Nat
  /\ Budgets \subseteq [window : Nat, bytes : Nat, entries : Nat]
  /\ NoSlot \notin Slots
  /\ Video \in Topics
  /\ MaxUid \in Nat
  /\ MaxChanges \in Nat

VARIABLES live,          \* the registered topics
          series,        \* per topic: entries, cached UID (0: none), memory, revisions, budget
          nextUid, nextRev,
          aside,         \* what detachDataset moved out: [valid, prior, held, memory, budget]
          push,          \* pushLazyWithSeed between its three lock sections
          look,          \* latestAt between its lookup and its memo
          index          \* the decoder's updateKeyframeIndex

storeVars == <<live, series, nextUid, nextRev, aside>>
vars == <<poolVars, storeVars, push, look, index>>

UidsOf(entries) == {entries[i].uid : i \in DOMAIN entries}

(* The bytes the entries are charged, counted one by one. *)
BytesOf(entries) == Cardinality(UNION {{i} \X (1..entries[i].bytes) : i \in DOMAIN entries})

Spare == nextRev < MaxChanges

Unlimited == [window |-> 0, bytes |-> 0, entries |-> 0]

NewSeries(rev) ==
  [entries |-> <<>>, cached |-> 0, memory |-> 0, content |-> rev, rewrite |-> rev, budget |-> Unlimited]

NothingAside ==
  [valid |-> FALSE, prior |-> {}, held |-> [t \in Topics |-> <<>>],
   memory |-> [t \in Topics |-> 0], budget |-> [t \in Topics |-> Unlimited]]

-------------------------------------------------------------------------------
(* OrderedEntries and the accounting around it, on one series record *)

(* applyRetention: what is left of the front fits the window that ends at the *)
(* newest stamp, the bytes and the number of entries; 0 is no limit.          *)
Fits(rest, newest, memory, budget) ==
  /\ budget.window > 0 /\ rest # <<>> => rest[1].ts >= newest - budget.window
  /\ budget.bytes > 0 /\ rest # <<>> => memory <= budget.bytes
  /\ budget.entries > 0 => Len(rest) <= budget.entries

Without(entries, n) == SubSeq(entries, n + 1, Len(entries))

(* How many of the front to evict: the fewest that make the rest fit. *)
Expired(s) ==
  LET newest == s.entries[Len(s.entries)].ts
      memory(n) == s.memory - BytesOf(SubSeq(s.entries, 1, n))
  IN Min({n \in 0..Len(s.entries) : Fits(Without(s.entries, n), newest, memory(n), s.budget)})

(* accountRemoved: the bytes of the removed entries leave the series' count,  *)
(* and the warm value leaves with its entry.                                  *)
Settled(s, kept) ==
  [s EXCEPT !.entries = kept,
            !.memory = s.memory - (BytesOf(s.entries) - BytesOf(kept)),
            !.cached = IF s.cached \in UidsOf(kept) THEN s.cached ELSE 0]

(* evictFront of n entries: an append-or-eviction change, not a rewrite. *)
EvictFront(s, n, rev) ==
  IF n = 0 THEN s ELSE [Settled(s, Without(s.entries, n)) EXCEPT !.content = rev]

(* How many of a series' entries are at or before the stamp: indexAtOrBefore, *)
(* and the place a new entry takes, after those of an equal stamp.            *)
AtOrBefore(entries, ts) == Cardinality({i \in DOMAIN entries : entries[i].ts <= ts})

(* compact: what is left when the entries of a plan are removed, in order. *)
Survivors(entries, drop) ==
  LET at == {i \in DOMAIN entries : entries[i] \notin drop}
  IN [k \in 1..Cardinality(at) |-> entries[CHOOSE i \in at : Cardinality({j \in at : j < i}) = k - 1]]

(* Only a removal counts as a rewrite: an out-of-order insert is an append. *)
RewrittenByRemoval(s, kept, place) == kept.entries # s.entries

(* Whether a push is a rewrite: entries were removed, or it is not at the end. *)
Rewritten(s, kept, place) == kept.entries # s.entries \/ place < Len(kept.entries)

(* insertLocked with the removal planned by a bundle's `drop` ({} for a push): *)
(* compact, place the entry in stamp order, charge it, drop the warm value    *)
(* when the insert was not at the end, evict what the budget expires.         *)
Insert(s, e, drop, rev) ==
  LET kept == Settled(s, Survivors(s.entries, drop))
      place == AtOrBefore(kept.entries, e.ts)
      atEnd == place = Len(kept.entries)
      whole == [kept EXCEPT !.entries = InsertAt(kept.entries, place + 1, e),
                            !.memory = kept.memory + e.bytes,
                            !.cached = IF atEnd THEN kept.cached ELSE 0,
                            !.content = rev,
                            !.rewrite = IF Rewritten(s, kept, place) THEN rev ELSE s.rewrite]
  IN EvictFront(whole, Expired(whole), rev)

(* clearEntriesLocked *)
Cleared(s, rev) ==
  [s EXCEPT !.entries = <<>>, !.memory = 0, !.cached = 0, !.content = rev, !.rewrite = rev]

-------------------------------------------------------------------------------
(* Producers *)

NewEntry(ts, bytes, slot) == [ts |-> ts, uid |-> nextUid, bytes |-> bytes, slot |-> slot]

PushEntry(t, ts, bytes, slot) ==
  /\ series' = [series EXCEPT ![t] = Insert(series[t], NewEntry(ts, bytes, slot), {}, nextRev)]
  /\ nextUid' = nextUid + 1
  /\ nextRev' = nextRev + 1
  /\ UNCHANGED <<live, aside>>

(* pushOwned, and pushLazy with the bytes its closure pins (0: it re-reads). *)
Push(t, ts, bytes) ==
  /\ Spare /\ nextUid <= MaxUid
  /\ t \in live
  /\ PushEntry(t, ts, bytes, NoSlot)
  /\ UNCHANGED <<poolVars, push, look, index>>

(* pushOwnedBundle: writes to distinct topics under the exclusive store lock, *)
(* each removing the entries its `drop` selects and, unless it only prunes,   *)
(* appending one; `grown` is the topic that is appended to (at most one).     *)
Bundle(drops, grown, ts, bytes) ==
  /\ Spare /\ nextUid <= MaxUid
  /\ DOMAIN drops \subseteq live /\ grown \subseteq DOMAIN drops
  /\ \A x \in DOMAIN drops : drops[x] \subseteq Range(series[x].entries)
  /\ series' =
       [x \in Topics |->
          IF x \in grown THEN Insert(series[x], NewEntry(ts, bytes, NoSlot), drops[x], nextRev)
          ELSE IF x \in DOMAIN drops /\ drops[x] # {}
          THEN [Settled(series[x], Survivors(series[x].entries, drops[x]))
                  EXCEPT !.content = nextRev, !.rewrite = nextRev]
          ELSE series[x]]
  /\ nextUid' = nextUid + Cardinality(grown)
  /\ nextRev' = nextRev + 1
  /\ UNCHANGED <<live, aside, poolVars, push, look, index>>

NoPush == [pc |-> "idle", t |-> Video, ts |-> 0, slot |-> NoSlot]

(* pushLazyWithSeed, 1: the topic is known (store lock), so the seed may evict. *)
SeedCheck(t, ts) ==
  /\ push.pc = "idle"
  /\ Spare /\ nextUid <= MaxUid
  /\ t \in live
  /\ push' = [pc |-> "admit", t |-> t, ts |-> ts, slot |-> NoSlot]
  /\ UNCHANGED <<poolVars, storeVars, look, index>>

(* 2: the pool admits the seed, or the push goes on without one. *)
SeedAdmit(bytes) ==
  /\ push.pc = "admit"
  /\ IF Admissible(bytes)
     THEN \E s \in Slots : Admit(s, bytes) /\ push' = [push EXCEPT !.pc = "insert", !.slot = s]
     ELSE push' = [push EXCEPT !.pc = "insert"] /\ UNCHANGED poolVars
  /\ UNCHANGED <<storeVars, look, index>>

(* 3: pushLazyEntry looks the topic up again; it may be gone. *)
SeedInsert ==
  /\ push.pc = "insert"
  /\ IF push.t \in live
     THEN Spare /\ nextUid <= MaxUid /\ PushEntry(push.t, push.ts, 0, push.slot)
     ELSE UNCHANGED storeVars
  /\ push' = NoPush
  /\ UNCHANGED <<poolVars, look, index>>

(* setRetentionBudget takes effect with the next insert. *)
SetRetentionBudget(t, budget) ==
  /\ t \in live /\ series[t].budget # budget
  /\ series' = [series EXCEPT ![t].budget = budget]
  /\ UNCHANGED <<live, nextUid, nextRev, aside, poolVars, push, look, index>>

(* evictBefore *)
EvictBefore(t, threshold) ==
  LET n == AtOrBefore(series[t].entries, threshold - 1)
  IN /\ Spare
     /\ t \in live /\ n > 0
     /\ series' = [series EXCEPT ![t] = EvictFront(series[t], n, nextRev)]
     /\ nextRev' = nextRev + 1
     /\ UNCHANGED <<live, nextUid, aside, poolVars, push, look, index>>

-------------------------------------------------------------------------------
(* The dataset's lifecycle *)

(* registerTopic: a new series, whose revisions repeat none. *)
RegisterTopic(t) ==
  /\ Spare
  /\ t \notin live
  /\ live' = live \cup {t}
  /\ series' = [series EXCEPT ![t] = NewSeries(nextRev)]
  /\ nextRev' = nextRev + 1
  /\ UNCHANGED <<nextUid, aside, poolVars, push, look, index>>

(* removeTopic: its id is not that of a topic registered later, so a snapshot *)
(* of it finds nothing to return to.                                          *)
RemoveTopic(t) ==
  /\ t \in live
  /\ live' = live \ {t}
  /\ series' = [series EXCEPT ![t] = NewSeries(0)]
  /\ aside' = [aside EXCEPT !.prior = @ \ {t}]
  /\ UNCHANGED <<nextUid, nextRev, poolVars, push, look, index>>

(* clearDataset *)
ClearDataset ==
  /\ Spare
  /\ \E t \in live : series[t].entries # <<>>
  /\ series' = [t \in Topics |-> IF t \in live THEN Cleared(series[t], nextRev) ELSE series[t]]
  /\ nextRev' = nextRev + 1
  /\ UNCHANGED <<live, nextUid, aside, poolVars, push, look, index>>

(* detachDataset: a refill moves the entries aside. *)
DetachDataset ==
  /\ Spare
  /\ ~aside.valid /\ live # {}
  /\ aside' = [valid |-> TRUE, prior |-> live,
               held |-> [t \in Topics |-> series[t].entries],
               memory |-> [t \in Topics |-> series[t].memory],
               budget |-> [t \in Topics |-> series[t].budget]]
  /\ series' = [t \in Topics |-> IF t \in live THEN Cleared(series[t], nextRev) ELSE series[t]]
  /\ nextRev' = nextRev + 1
  /\ UNCHANGED <<live, nextUid, poolVars, push, look, index>>

(* The refill is committed: the snapshot dies. *)
CommitRefill ==
  /\ aside.valid
  /\ aside' = NothingAside
  /\ UNCHANGED <<live, series, nextUid, nextRev, poolVars, push, look, index>>

(* reattachDataset: the topics the refill added are erased, the prior ones get *)
(* their entries, UIDs and all, and their budgets back; those removed          *)
(* meanwhile get nothing.                                                     *)
ReattachDataset ==
  /\ Spare
  /\ aside.valid
  /\ live' = live \cap aside.prior
  /\ series' = [t \in Topics |->
                  IF t \notin live THEN series[t]
                  ELSE IF t \notin aside.prior THEN NewSeries(0)
                  ELSE [Cleared(series[t], nextRev) EXCEPT !.entries = aside.held[t],
                                                           !.memory = aside.memory[t],
                                                           !.budget = aside.budget[t]]]
  /\ nextRev' = nextRev + 1
  /\ aside' = NothingAside
  /\ UNCHANGED <<nextUid, poolVars, push, look, index>>

-------------------------------------------------------------------------------
(* latestAt, a reader beside the producers *)

NoEntry == [ts |-> 0, uid |-> 0, bytes |-> 0, slot |-> NoSlot]

NoLook == [pc |-> "idle", t |-> Video, e |-> NoEntry]

(* Under the locks: a warm hit returns at once, else the entry is copied. *)
LatestAt(t, ts) ==
  LET n == AtOrBefore(series[t].entries, ts)
  IN /\ look.pc = "idle"
     /\ t \in live /\ n > 0
     /\ series[t].entries[n].uid # series[t].cached
     /\ look' = [pc |-> "resolve", t |-> t, e |-> series[t].entries[n]]
     /\ UNCHANGED <<poolVars, storeVars, push, index>>

Served(e) == e.slot # NoSlot /\ status[e.slot] = "held"

(* resolveEntry with no lock held: the resident bytes, or the fetch, which a  *)
(* lazy entry's source may fail.  Neither a failure nor a resident hit is     *)
(* memoized.                                                                  *)
Resolve(fetched) ==
  /\ look.pc = "resolve"
  /\ look.e.bytes > 0 => fetched
  /\ look' = IF fetched /\ ~Served(look.e) THEN [look EXCEPT !.pc = "memo"] ELSE NoLook
  /\ UNCHANGED <<poolVars, storeVars, push, index>>

(* The re-lookup only asks whether the topic is there. *)
MemoizeUnchecked ==
  /\ look.pc = "memo"
  /\ series' = IF look.t \in live
               THEN [series EXCEPT ![look.t].cached = look.e.uid]
               ELSE series
  /\ look' = NoLook
  /\ UNCHANGED <<live, nextUid, nextRev, aside, poolVars, push, index>>

(* The entry is memoized if the topic still holds it. *)
Memoize ==
  /\ look.pc = "memo"
  /\ series' = IF look.t \in live /\ look.e.uid \in UidsOf(series[look.t].entries)
               THEN [series EXCEPT ![look.t].cached = look.e.uid]
               ELSE series
  /\ look' = NoLook
  /\ UNCHANGED <<live, nextUid, nextRev, aside, poolVars, push, index>>

-------------------------------------------------------------------------------
(* StreamingVideoDecoder::updateKeyframeIndex, one store call per step; the    *)
(* last look at the front (firstSequentialUID, then indexOf of the packets at *)
(* the floor) is one step.                                                    *)

Identity(t) ==
  IF t \in live THEN [content |-> series[t].content, rewrite |-> series[t].rewrite]
  ELSE [content |-> 0, rewrite |-> 0]

NoIdentity == [content |-> 0, rewrite |-> 0]

Packet(e) == [dts |-> e.ts, uid |-> e.uid]

Packets(entries) == {Packet(entries[i]) : i \in DOMAIN entries}

FrontStamp(t) == IF t \in live /\ series[t].entries # <<>> THEN series[t].entries[1].ts ELSE 0

FirstUid(t) ==
  IF t \in live /\ series[t].entries # <<>> THEN Min(UidsOf(series[t].entries)) ELSE 0

Forgotten ==
  [index EXCEPT !.packets = {}, !.skipped = {}, !.pruned = <<0, 0>>, !.cursor = 0, !.seen = NoIdentity]

(* An unchanged identity scans nothing; a rewrite forgets the whole index. *)
IndexIdentity ==
  /\ index.pc = "idle"
  /\ Identity(Video) # index.seen
  /\ index' = [(IF Identity(Video).rewrite # index.seen.rewrite THEN Forgotten ELSE index)
                 EXCEPT !.pc = "count", !.identity = Identity(Video)]
  /\ UNCHANGED <<poolVars, storeVars, push, look>>

(* An empty topic resets the index. *)
IndexCount ==
  /\ index.pc = "count"
  /\ index' = IF Video \notin live \/ series[Video].entries = <<>>
              THEN [Forgotten EXCEPT !.pc = "idle", !.seen = index.identity, !.identity = NoIdentity]
              ELSE [index EXCEPT !.pc = "front"]
  /\ UNCHANGED <<poolVars, storeVars, push, look>>

IndexFront ==
  /\ index.pc = "front"
  /\ index' = [index EXCEPT !.pc = "prune", !.floor = FrontStamp(Video)]
  /\ UNCHANGED <<poolVars, storeVars, push, look>>

(* Packets below the floor are pruned, and those at it that the store no      *)
(* longer finds, but only when the floor or the smallest UID moved.           *)
IndexPrune ==
  LET front == <<index.floor, FirstUid(Video)>>
      stored == IF Video \in live THEN UidsOf(series[Video].entries) ELSE {}
      evicted == {p \in index.packets : p.dts < index.floor \/ (p.dts = index.floor /\ p.uid \notin stored)}
  IN /\ index.pc = "prune"
     /\ index' = IF front = index.pruned THEN [index EXCEPT !.pc = "drain"]
                 ELSE [index EXCEPT !.pc = "drain", !.pruned = front, !.packets = @ \ evicted]
     /\ UNCHANGED <<poolVars, storeVars, push, look>>

(* The drain starts from the first retained UID, which the cursor excludes. *)
ArrivalsPastFirst ==
  IF Video \in live THEN {p \in Packets(series[Video].entries) : p.uid > Max({index.cursor, FirstUid(Video)})} ELSE {}

(* drainNewSince: the entries above the cursor, copied in one section. *)
Arrivals == IF Video \in live THEN {p \in Packets(series[Video].entries) : p.uid > index.cursor} ELSE {}

(* A packet that cannot be extracted is skipped, and the cursor moves on past *)
(* it: `skipped`, which no variable of the code holds, remembers which.        *)
IndexDrain ==
  /\ index.pc = "drain"
  /\ \E failed \in SUBSET Arrivals :
       index' = [index EXCEPT !.pc = "idle", !.floor = 0, !.identity = NoIdentity,
                              !.packets = @ \cup (Arrivals \ failed),
                              !.skipped = @ \cup failed,
                              !.cursor = Max({p.uid : p \in Arrivals} \cup {@}),
                              !.seen = index.identity]
  /\ UNCHANGED <<poolVars, storeVars, push, look>>

-------------------------------------------------------------------------------
(* The slots' owners: entries, copies being read or pushed, a snapshot. *)
Owned(s) ==
  \/ \E t \in Topics : \E i \in DOMAIN series[t].entries : series[t].entries[i].slot = s
  \/ \E t \in Topics : \E i \in DOMAIN aside.held[t] : aside.held[t][i].slot = s
  \/ look.pc = "resolve" /\ look.e.slot = s
  \/ push.slot = s

LoseSlot(s) ==
  /\ ~Owned(s)
  /\ SlotDies(s)
  /\ UNCHANGED <<storeVars, push, look, index>>

SettleSlot(s) ==
  /\ SlotSettles(s)
  /\ UNCHANGED <<storeVars, push, look, index>>

TrimPool ==
  /\ Trim
  /\ UNCHANGED <<storeVars, push, look, index>>

-------------------------------------------------------------------------------
Idle == [pc |-> "idle", packets |-> {}, skipped |-> {}, pruned |-> <<0, 0>>, cursor |-> 0,
         seen |-> NoIdentity, identity |-> NoIdentity, floor |-> 0]

(* An execution has either latestAt, with the seeds it may be served from, or *)
(* the decoder: they share only the series, and neither changes in it what    *)
(* the other reads.                                                           *)
Init ==
  /\ PoolInit
  /\ live = {}
  /\ series = [t \in Topics |-> NewSeries(0)]
  /\ nextUid = 1
  /\ nextRev = 1
  /\ aside = NothingAside
  /\ \/ push = NoPush /\ look = NoLook /\ index = [Idle EXCEPT !.pc = "off"]
     \/ push = [NoPush EXCEPT !.pc = "off"] /\ look = [NoLook EXCEPT !.pc = "off"] /\ index = Idle

Produce ==
  \/ \E t \in Topics, ts \in Stamps, bytes \in Payloads : Push(t, ts, bytes)
  \/ \E T \in SUBSET live \ {{}} : \E drops \in [T -> SUBSET UNION {Range(series[x].entries) : x \in T}] :
       \/ \E t \in T, ts \in Stamps, bytes \in Payloads \ {0} : Bundle(drops, {t}, ts, bytes)
       \/ Bundle(drops, {}, 0, 0)

Seed ==
  \/ \E t \in Topics, ts \in Stamps : SeedCheck(t, ts)
  \/ \E bytes \in Sizes : SeedAdmit(bytes)
  \/ SeedInsert

Manage ==
  \/ \E t \in Topics, budget \in Budgets : SetRetentionBudget(t, budget)
  \/ \E t \in Topics, ts \in Stamps : EvictBefore(t, ts)
  \/ \E t \in Topics : RegisterTopic(t) \/ RemoveTopic(t)
  \/ ClearDataset \/ DetachDataset \/ CommitRefill \/ ReattachDataset

Read ==
  \/ \E t \in Topics, ts \in Stamps : LatestAt(t, ts)
  \/ \E fetched \in BOOLEAN : Resolve(fetched)
  \/ Memoize

Follow == IndexIdentity \/ IndexCount \/ IndexFront \/ IndexPrune \/ IndexDrain

Reside == TrimPool \/ \E s \in Slots : LoseSlot(s) \/ SettleSlot(s)

Next == Produce \/ Seed \/ Manage \/ Read \/ Follow \/ Reside

Spec == Init /\ [][Next]_vars

-------------------------------------------------------------------------------
(* The warm value of a topic is always an entry the topic holds, although it  *)
(* is written by a reader that held no lock while it resolved: an evicted or  *)
(* cleared payload never comes back, nor stays pinned, through the cache      *)
(* (latestAt's re-lookup, accountRemoved, clearEntriesLocked).                *)
NoGhostCache == \A t \in Topics : series[t].cached # 0 => series[t].cached \in UidsOf(series[t].entries)

MemoryExact == \A t \in Topics : series[t].memory = BytesOf(series[t].entries)

(* The bytes both budgets are checked against are exact, whatever is pushed,  *)
(* dropped, moved aside and back, and whichever of the pool and a dying entry *)
(* empties a slot first; and the payloads the pool serves fit its budget, the *)
(* small ones their reservation, of which a large one may borrow what they    *)
(* leave unused, though slots that are dying leave their FIFO without a       *)
(* credit.                                                                    *)
BytesAccounted == MemoryExact /\ ChargedOnce /\ HeldFits

(* `content` is the entries' identity, and while `rewrite` stays, the entries *)
(* only lost some of the front and gained newer UIDs at the end: what a UID   *)
(* cursor and a timestamp floor can follow (OrderedEntries::ContentIdentity). *)
Followable(old, new) ==
  \E lost \in 0..Len(old) :
    LET kept == Without(old, lost)
    IN /\ IsPrefix(kept, new)
       /\ \A i \in Len(kept) + 1 .. Len(new) :
            /\ \A j \in DOMAIN old : old[j].uid < new[i].uid /\ old[j].ts <= new[i].ts
            /\ kept # new

RevisionsTell ==
  [][\A t \in live \cap live' :
       /\ series'[t].content = series[t].content => series'[t].entries = series[t].entries
       /\ series'[t].rewrite = series[t].rewrite => Followable(series[t].entries, series'[t].entries)]_vars

(* A decoder whose index is up to date by the revisions has every packet of   *)
(* the topic, though the topic changed between any two of the store calls     *)
(* that built the index, but for those it could not extract when they came:   *)
(* they are never tried again until a rewrite or an empty topic makes it      *)
(* start afresh.                                                              *)
Followed == index.pc = "idle" /\ index.seen = Identity(Video)

IndexMissesNothing ==
  Followed /\ Video \in live => Packets(series[Video].entries) \subseteq index.packets \cup index.skipped

(* "Evicted packets are pruned against the store front (timeRange().first,    *)
(* firstSequentialUID) when it moves" (pj_scene2D/docs/ARCHITECTURE.md:523):   *)
(* an up-to-date index holds no packet the store has evicted.                 *)
IndexHoldsNoEvicted ==
  Followed /\ Video \in live => index.packets \subseteq Packets(series[Video].entries)
===============================================================================
