------------------------- MODULE NodeResultsProofs --------------------------
(***************************************************************************)
(* Proofs about the results NodeScheduler keeps and shows, on the          *)
(* invariants of NodeSchedulerProofs.                                      *)
(*                                                                         *)
(* Stocked: what a ring holds, and what a run whose result will be taken   *)
(* was staged from, is of the recipes and the epoch of now, stamped by its *)
(* newest input. Settling: a settlement still in the agenda is of a run    *)
(* that is what its node's request asks for now, whatever is served before *)
(* it. Anchored: a set of results, among them every one shown or to come,  *)
(* is closed under having an input at the same stamp that still stands; so *)
(* that no result is newer than what its node is staged from now.          *)
(* Answered: what a settled node was told of its display holds, unless a   *)
(* call will serve it again.                                               *)
(*                                                                         *)
(* With them: no foreign result is kept, a failed node shows none, a ready *)
(* one shows one, and the display only moves forward.                      *)
(***************************************************************************)
EXTENDS NodeSchedulerProofs

-----------------------------------------------------------------------------
(* What a history holds: its order, and the meaning of its keys. *)

IsResult(e) == e.key.inputs # {}

(* A ring has one entry at a place, each filed where its stamp goes; and no *)
(* tombstone is available.                                                  *)
Ordered(n, h) ==
  /\ \A e, f \in h.ring : e.at = f.at \/ e.uid = f.uid => e = f
  /\ \A e \in h.ring : /\ e.at = At(n, e.stamp) /\ e.uid[2] <= h.uids
                       /\ IsResult(e) \/ ~e.available
                       /\ PinnedAt[n] # NoTime => e.stamp <= PinnedAt[n]
  /\ \A r \in h.late : IsResult(r)

(* A key under the meaning and the epoch of now. *)
OfNow(n, key) ==
  /\ key.revision = revision[n] /\ key.epoch = epoch
  /\ \A input \in key.inputs : input[1] \in Nodes => input[1] \in UpstreamsOf(n) /\ revision[input[1]] \in {input[2][1], 0}

Meant(n, h) ==
  /\ \A e \in h.ring : e.uid[1] = revision[n] /\ OfNow(n, e.key)
  /\ \A r \in h.late : OfNow(n, r.key)

(* A history that goes on from the node's: what is new has a new uid. *)
Follows(n, h) ==
  /\ history[n].uids <= h.uids
  /\ \A e \in h.ring : e \in history[n].ring \/ e.uid[2] > history[n].uids

Sound(n, h) == Ordered(n, h) /\ Meant(n, h) /\ Follows(n, h)

LEMMA SameSound ==
  ASSUME TypeOK, NEW n \in Nodes, Ordered(n, history[n]), Meant(n, history[n])
  PROVE  Sound(n, history[n])
<1>1. history[n].uids \in Nat
  BY HistoryTypes DEF TypeOK
<1> QED BY <1>1 DEF Sound, Follows

LEMMA PublishedShape ==
  ASSUME NEW n \in Nodes, history[n] \in Histories, NEW stamp, NEW key, NEW available, NEW cacheOnly
  PROVE  LET h == Published(n, stamp, key, available, cacheOnly)
             same == {e \in history[n].ring : e.at = At(n, stamp)}
             result == [stamp |-> stamp, key |-> key, available |-> available]
             entry == [at |-> At(n, stamp), stamp |-> stamp, key |-> key, available |-> available,
                       uid |-> <<revision[n], history[n].uids + 1>>]
         IN  \/ h.ring = history[n].ring /\ h.late = history[n].late /\ h.uids = history[n].uids /\ \E e \in same : e.key = key
             \/ cacheOnly /\ h.ring = history[n].ring /\ h.late = history[n].late \cup {result} /\ h.uids = history[n].uids
             \/ /\ h.ring = (history[n].ring \ same) \cup {entry} /\ h.late = history[n].late \ {result} /\ h.uids = history[n].uids + 1
                /\ cacheOnly => same = {}
<1> DEFINE h == Published(n, stamp, key, available, cacheOnly)
           g == history[n]
           same == {e \in history[n].ring : e.at = At(n, stamp)}
           result == [stamp |-> stamp, key |-> key, available |-> available]
           entry == [at |-> At(n, stamp), stamp |-> stamp, key |-> key, available |-> available,
                     uid |-> <<revision[n], history[n].uids + 1>>]
           one == \E e \in same : e.key = key
           two == cacheOnly /\ same # {} /\ (\A e \in same : e.key # key)
           x == [g EXCEPT !.dropped = FALSE]
           y == [g EXCEPT !.late = @ \cup {result}, !.dropped = FALSE]
           z == [ring |-> (g.ring \ same) \cup {entry}, late |-> g.late \ {result}, dropped |-> FALSE, uids |-> g.uids + 1]
<1>1. h = CASE one -> x [] two -> y [] OTHER -> z
  BY DEF Published
<1>2. ~(one /\ two)
  OBVIOUS
<1>2a. one => \E e \in same : e.key = key
  OBVIOUS
<1>3. /\ x.ring = g.ring /\ x.late = g.late /\ x.uids = g.uids
      /\ y.ring = g.ring /\ y.late = g.late \cup {result} /\ y.uids = g.uids
      /\ z.ring = (g.ring \ same) \cup {entry} /\ z.late = g.late \ {result} /\ z.uids = g.uids + 1
  BY DEF Histories
<1>4. /\ two => cacheOnly
      /\ ~one /\ ~two /\ cacheOnly => same = {}
  OBVIOUS
<1> HIDE DEF h, same, result, entry, x, y, z, g, one, two
<1>5. (h = x /\ one) \/ (h = y /\ two) \/ (h = z /\ ~one /\ ~two)
  <2>1. CASE one
    BY <1>1, <1>2, <2>1
  <2>2. CASE two
    BY <1>1, <1>2, <2>2
  <2>3. CASE ~one /\ ~two
    BY <1>1, <2>3
  <2> QED BY <2>1, <2>2, <2>3
<1> QED BY <1>2a, <1>3, <1>4, <1>5 DEF h, g, same, result, entry

(* A result published, or a tombstone put in the ring, keeps the shelf. *)
LEMMA PublishedSound ==
  ASSUME TypeOK, NEW n \in Nodes, NEW stamp \in Nat, NEW key \in Keys, NEW available \in BOOLEAN, NEW cacheOnly \in BOOLEAN,
         Ordered(n, history[n]), Meant(n, history[n]), OfNow(n, key),
         key.inputs # {} \/ (~available /\ ~cacheOnly), PinnedAt[n] # NoTime => stamp <= PinnedAt[n]
  PROVE  Sound(n, Published(n, stamp, key, available, cacheOnly))
<1> DEFINE h == Published(n, stamp, key, available, cacheOnly)
           g == history[n]
           same == {e \in history[n].ring : e.at = At(n, stamp)}
           result == [stamp |-> stamp, key |-> key, available |-> available]
           uid == <<revision[n], g.uids + 1>>
           entry == [at |-> At(n, stamp), stamp |-> stamp, key |-> key, available |-> available, uid |-> uid]
<1>1. g \in Histories /\ g.uids \in Nat /\ h \in Histories /\ \A e \in g.ring : e.uid \in Nat \X Nat /\ e.at \in Nat
  BY HistoryTypes, PublishedTypes DEF TypeOK
<1>2. \/ h.ring = g.ring /\ h.late = g.late /\ h.uids = g.uids
      \/ cacheOnly /\ h.ring = g.ring /\ h.late = g.late \cup {result} /\ h.uids = g.uids
      \/ h.ring = (g.ring \ same) \cup {entry} /\ h.late = g.late \ {result} /\ h.uids = g.uids + 1
  BY <1>1, PublishedShape
<1>3. /\ result.key = key /\ entry.at = At(n, stamp) /\ entry.stamp = stamp /\ entry.key = key /\ entry.available = available
      /\ entry.uid = uid /\ uid[1] = revision[n] /\ uid[2] = g.uids + 1
  OBVIOUS
<1>4. same = {e \in g.ring : e.at = At(n, stamp)}
  OBVIOUS
<1> HIDE DEF h, g, same, result, entry, uid
<1>5. Ordered(n, g) /\ Meant(n, g)
  BY DEF g
<1>6. CASE h.ring = g.ring /\ h.late = g.late /\ h.uids = g.uids
  BY <1>1, <1>5, <1>6 DEF Sound, Ordered, Meant, Follows, g, h
<1>7. CASE cacheOnly /\ h.ring = g.ring /\ h.late = g.late \cup {result} /\ h.uids = g.uids
  <2>1. IsResult(result) /\ OfNow(n, result.key)
    BY <1>3, <1>7 DEF IsResult
  <2>2. Ordered(n, h)
    BY <1>5, <1>7, <2>1 DEF Ordered
  <2>3. Meant(n, h)
    BY <1>5, <1>7, <2>1 DEF Meant
  <2>4. Follows(n, h)
    BY <1>1, <1>7 DEF Follows, g
  <2> QED BY <2>2, <2>3, <2>4 DEF Sound, h
<1>8. CASE h.ring = (g.ring \ same) \cup {entry} /\ h.late = g.late \ {result} /\ h.uids = g.uids + 1
  <2>1. \A e \in h.ring : e = entry \/ (e \in g.ring /\ e.at # entry.at /\ e.uid # entry.uid /\ e.uid[2] <= g.uids)
    <3>1. \A e \in g.ring : e.uid[2] <= g.uids /\ e.uid[2] \in Nat
      BY <1>1, <1>5 DEF Ordered
    <3>2. \A e \in g.ring : e.uid # uid
      BY <1>1, <1>3, <3>1
    <3> QED BY <1>3, <1>4, <1>8, <3>1, <3>2
  <2>2. \A e, f \in h.ring : e.at = f.at \/ e.uid = f.uid => e = f
    BY <1>5, <2>1 DEF Ordered
  <2>3. IsResult(entry) \/ ~entry.available
    BY <1>3 DEF IsResult
  <2>4. \A e \in h.ring : /\ e.at = At(n, e.stamp) /\ e.uid[2] <= h.uids
                          /\ IsResult(e) \/ ~e.available
                          /\ PinnedAt[n] # NoTime => e.stamp <= PinnedAt[n]
    <3>1. ASSUME NEW e \in h.ring, e = entry
          PROVE  /\ e.at = At(n, e.stamp) /\ e.uid[2] <= h.uids
                 /\ IsResult(e) \/ ~e.available
                 /\ PinnedAt[n] # NoTime => e.stamp <= PinnedAt[n]
      BY <1>1, <1>3, <1>8, <2>3, <3>1
    <3>2. ASSUME NEW e \in h.ring, e \in g.ring
          PROVE  /\ e.at = At(n, e.stamp) /\ e.uid[2] <= h.uids
                 /\ IsResult(e) \/ ~e.available
                 /\ PinnedAt[n] # NoTime => e.stamp <= PinnedAt[n]
      <4>1. e.uid[2] \in Nat
        BY <1>1, <3>2
      <4> QED BY <1>1, <1>5, <1>8, <3>2, <4>1 DEF Ordered
    <3> QED BY <2>1, <3>1, <3>2
  <2>5. Ordered(n, h)
    BY <1>5, <1>8, <2>2, <2>4 DEF Ordered
  <2>6. Meant(n, h)
    BY <1>3, <1>5, <1>8, <2>1 DEF Meant
  <2>7. Follows(n, h)
    <3>1. \A e \in h.ring : e \in g.ring \/ e.uid[2] > g.uids
      BY <1>1, <1>3, <2>1
    <3> QED BY <1>1, <1>8, <3>1 DEF Follows, g
  <2> QED BY <2>5, <2>6, <2>7 DEF Sound, h
<1> QED BY <1>2, <1>6, <1>7, <1>8

(* clearShown leaves no result at the stamp, or there was none to draw. *)
LEMMA ClearedShape ==
  ASSUME NEW n \in Nodes, NEW stamp
  PROVE  \/ Cleared(n, stamp) = Published(n, stamp, Key(n, {}), FALSE, FALSE)
         \/ Cleared(n, stamp) = history[n] /\ ~ShowsAvailable(history[n], stamp)
<1> DEFINE shown == ShownAt(history[n], stamp)
           drawn == IF shown # {} THEN ShowsAvailable(history[n], stamp) ELSE history[n].dropped
           p == Published(n, stamp, Key(n, {}), FALSE, FALSE)
<1>1. Cleared(n, stamp) = IF drawn THEN p ELSE history[n]
  BY DEF Cleared
<1>2. ~drawn => ~ShowsAvailable(history[n], stamp)
  BY DEF ShowsAvailable
<1> HIDE DEF drawn, p, shown
<1>3. Cleared(n, stamp) = p \/ (Cleared(n, stamp) = history[n] /\ ~drawn)
  BY <1>1
<1> QED BY <1>2, <1>3 DEF p

LEMMA ClearedSound ==
  ASSUME TypeOK, NEW n \in Nodes, NEW stamp \in Nat,
         Ordered(n, history[n]), Meant(n, history[n]), PinnedAt[n] # NoTime => stamp <= PinnedAt[n]
  PROVE  Sound(n, Cleared(n, stamp))
<1> DEFINE key == Key(n, {})
<1>1. key \in Keys /\ OfNow(n, key)
  <2>1. {} \in SUBSET Identity
    OBVIOUS
  <2>2. key \in Keys
    BY <2>1, KeyInKeys
  <2>3. key.revision = revision[n] /\ key.epoch = epoch /\ key.inputs = {}
    BY KeyOf
  <2> QED BY <2>2, <2>3 DEF OfNow
<1>2. FALSE \in BOOLEAN /\ (key.inputs # {} \/ (~FALSE /\ ~FALSE))
  OBVIOUS
<1> HIDE DEF key
<1>3. Sound(n, Published(n, stamp, key, FALSE, FALSE))
  BY <1>1, <1>2, PublishedSound, Zenon
<1>4. Sound(n, history[n])
  BY SameSound
<1> QED BY <1>3, <1>4, ClearedShape DEF key

LEMMA SupersededShape ==
  ASSUME NEW n \in Nodes, NEW h \in Histories, NEW stamp
  PROVE  LET s == TombstonesSuperseded(n, h, stamp) IN
         /\ s.ring \subseteq h.ring /\ s.late = h.late /\ s.uids = h.uids
         /\ PinnedAt[n] # NoTime => s.ring = h.ring
         /\ PinnedAt[n] = NoTime => s.ring = {e \in h.ring : ~(stamp < e.at /\ e.at <= slot[n].cursor /\ e.key.inputs = {})}
<1> DEFINE kept == {e \in h.ring : ~(stamp < e.at /\ e.at <= slot[n].cursor /\ e.key.inputs = {})}
           s == TombstonesSuperseded(n, h, stamp)
<1>1. PinnedAt[n] = NoTime => s = [h EXCEPT !.ring = kept]
  BY DEF TombstonesSuperseded
<1>2. PinnedAt[n] # NoTime => s = h
  BY DEF TombstonesSuperseded
<1>3. kept \subseteq h.ring
  OBVIOUS
<1> HIDE DEF s, kept
<1>4. [h EXCEPT !.ring = kept].ring = kept /\ [h EXCEPT !.ring = kept].late = h.late /\ [h EXCEPT !.ring = kept].uids = h.uids
  BY DEF Histories
<1> QED BY <1>1, <1>2, <1>3, <1>4 DEF s, kept

LEMMA FewerSound ==
  ASSUME NEW n, NEW h, NEW s, Sound(n, h), s.ring \subseteq h.ring, s.late \subseteq h.late, s.uids = h.uids
  PROVE  Sound(n, s)
BY DEF Sound, Ordered, Meant, Follows

-----------------------------------------------------------------------------
(* The ways a serve settles its node, or leaves it pending. *)
Hit(n, h) ==
  \/ h = history[n] /\ RingHits(n) # {}
  \/ \E r \in CacheHits(n) : h = Published(n, Staged(n).stamp, r.key, r.available, FALSE)

Way(n, status, h) ==
  \/ status = "pending" /\ h = history[n]
  \/ Servable(n) /\ status = "missing" /\ h = Cleared(n, slot[n].cursor)
  \/ Servable(n) /\ status = "ready" /\ h = history[n] /\ PinnedAt[n] # NoTime /\ ShowsAvailable(h, slot[n].cursor)
  \/ Servable(n) /\ Staged(n).ok /\ status = "error" /\ h = Cleared(n, Staged(n).stamp)
  \/ Servable(n) /\ Staged(n).ok /\ status = "ready" /\ \E g : Hit(n, g) /\ h = TombstonesSuperseded(n, g, Staged(n).stamp)

ConcludesSo(n) ==
  \E wait \in Waits, status \in Statuses : \E h :
    Conclude(n, wait, status, h, Unused) /\ Way(n, status, h)

LEMMA MissingWay ==
  ASSUME NEW n, Servable(n), NEW keep, SettleMissing(n, keep)
  PROVE  ConcludesSo(n)
<1>1. \/ Conclude(n, "none", "ready", history[n], Unused) /\ PinnedAt[n] # NoTime /\ ShowsAvailable(history[n], slot[n].cursor)
      \/ Conclude(n, "none", "missing", Cleared(n, slot[n].cursor), Unused)
  BY DEF SettleMissing
<1>2. "none" \in Waits /\ "ready" \in Statuses /\ "missing" \in Statuses
  BY DEF Waits, Statuses
<1>3. CASE Conclude(n, "none", "ready", history[n], Unused) /\ PinnedAt[n] # NoTime /\ ShowsAvailable(history[n], slot[n].cursor)
  <2>1. Way(n, "ready", history[n])
    BY <1>3 DEF Way
  <2> QED BY <1>2, <1>3, <2>1 DEF ConcludesSo
<1>4. CASE Conclude(n, "none", "missing", Cleared(n, slot[n].cursor), Unused)
  <2>1. Way(n, "missing", Cleared(n, slot[n].cursor))
    BY DEF Way
  <2> QED BY <1>2, <1>4, <2>1 DEF ConcludesSo
<1> QED BY <1>1, <1>3, <1>4

LEMMA ServeWays ==
  ASSUME Typed, ServeStep
  PROVE  /\ Calls("serve") /\ Callee \in Nodes /\ ~Idle /\ TypeOK'
         /\ \/ ServeWithdrawn
            \/ ServeRun
            \/ \E wait \in Waits, status \in Statuses, h \in Histories :
                  Conclude(Callee, wait, status, h, Unused) /\ Way(Callee, status, h)
<1>1. Calls("serve") /\ Callee \in Nodes /\ ~Idle
  BY ServeShape DEF Calls
<1>2. Typed' /\ TypeOK'
  BY TypedServe DEF Typed
<1> SUFFICES ASSUME ~ServeWithdrawn, ~ServeRun
             PROVE \E wait \in Waits, status \in Statuses, h \in Histories :
                     Conclude(Callee, wait, status, h, Unused) /\ Way(Callee, status, h)
  BY <1>1, <1>2
<1>3. PICK n : n = Callee
  OBVIOUS
<1>4. "none" \in Waits /\ "upstream" \in Waits /\ "run" \in Waits /\ "room" \in Waits
      /\ "pending" \in Statuses /\ "error" \in Statuses /\ "ready" \in Statuses
  BY DEF Waits, Statuses
<1>5. ConcludesSo(n)
  <2>1. CASE ServeHeld \/ ServeBehindUpstream \/ ServeWhileRunning \/ ServeFull
    <3>1. \E wait \in Waits : Conclude(n, wait, "pending", history[n], Unused)
      <4>1. CASE ServeHeld
        BY <1>3, <1>4, <4>1 DEF ServeHeld
      <4>2. CASE ServeBehindUpstream
        BY <1>3, <1>4, <4>2 DEF ServeBehindUpstream
      <4>3. CASE ServeWhileRunning
        BY <1>3, <1>4, <4>3 DEF ServeWhileRunning
      <4>4. CASE ServeFull
        <5>1. Conclude(n, "room", "pending", history[n], <<>>) /\ Unused = <<>>
          BY <1>3, <4>4 DEF ServeFull, Unused
        <5> QED BY <1>4, <5>1
      <4> QED BY <2>1, <4>1, <4>2, <4>3, <4>4
    <3>2. Way(n, "pending", history[n])
      BY DEF Way
    <3> QED BY <1>4, <3>1, <3>2 DEF ConcludesSo
  <2>2. CASE ServeBelowMissing
    <3>1. Servable(n) /\ \E keep : SettleMissing(n, keep)
      BY <1>3, <2>2 DEF ServeBelowMissing
    <3> QED BY <3>1, MissingWay
  <2>3. CASE ServeMissing
    <3>1. Servable(n) /\ \E keep : SettleMissing(n, keep)
      BY <1>3, <2>3 DEF ServeMissing, Staging
    <3> QED BY <3>1, MissingWay
  <2>4. CASE ServeFailure
    <3>1. Servable(n) /\ Staged(n).ok /\ Conclude(n, "none", "error", Cleared(n, Staged(n).stamp), Unused)
      BY <1>3, <2>4 DEF ServeFailure, Staging
    <3>2. Way(n, "error", Cleared(n, Staged(n).stamp))
      BY <3>1 DEF Way
    <3> QED BY <1>4, <3>1, <3>2 DEF ConcludesSo
  <2>5. CASE ServeHit
    <3> DEFINE shown == IF RingHits(n) # {} THEN {history[n]}
                      ELSE {Published(n, Staged(n).stamp, r.key, r.available, FALSE) : r \in CacheHits(n)}
    <3>1. PICK g \in shown : Conclude(n, "none", "ready", TombstonesSuperseded(n, g, Staged(n).stamp), Unused)
      BY <1>3, <2>5 DEF ServeHit
    <3>2. Servable(n) /\ Staged(n).ok
      BY <1>3, <2>5 DEF ServeHit, Staging
    <3>3. Hit(n, g)
      <4>1. CASE RingHits(n) # {}
        BY <4>1 DEF Hit
      <4>2. CASE RingHits(n) = {}
        <5>1. g \in {Published(n, Staged(n).stamp, r.key, r.available, FALSE) : r \in CacheHits(n)}
          BY <4>2
        <5>2. \E r \in CacheHits(n) : g = Published(n, Staged(n).stamp, r.key, r.available, FALSE)
          BY <5>1, Zenon
        <5> QED BY <5>2, Zenon DEF Hit
      <4> QED BY <4>1, <4>2
    <3> HIDE DEF shown
    <3>4. Way(n, "ready", TombstonesSuperseded(n, g, Staged(n).stamp))
      BY <3>2, <3>3 DEF Way
    <3> QED BY <1>4, <3>1, <3>4 DEF ConcludesSo
  <2> QED BY <1>1, <2>1, <2>2, <2>3, <2>4, <2>5 DEF ServeStep
<1>a. PICK wait \in Waits, status \in Statuses : \E h : Conclude(n, wait, status, h, Unused) /\ Way(n, status, h)
  BY <1>5 DEF ConcludesSo
<1>6. PICK h : Conclude(n, wait, status, h, Unused) /\ Way(n, status, h)
  BY <1>a
<1>7. h \in Histories
  <2>1. history' = [history EXCEPT ![n] = h] /\ n \in Nodes
    BY <1>1, <1>3, <1>6 DEF Conclude
  <2>2. history \in [Nodes -> Histories] /\ history' \in [Nodes -> Histories]
    BY <1>2 DEF Typed, TypeOK
  <2> QED BY <2>1, <2>2
<1> QED BY <1>3, <1>6, <1>7

-----------------------------------------------------------------------------
(* The runs in flight, and what they were staged from: Stocked. *)

(* The stamp of a result is its newest input's, as long as that is shown. *)
StampedBy(inputs, stamp) ==
  /\ \A input \in inputs :
       /\ input[1] = Topic => input[2] <= stamp
       /\ input[1] \in Nodes => \A e \in history[input[1]].ring : e.uid = input[2] => e.stamp <= stamp
  /\ \E input \in inputs :
       /\ input[1] = Topic => input[2] = stamp
       /\ input[1] \in Nodes => \A e \in history[input[1]].ring : e.uid = input[2] => e.stamp = stamp

JobGood(n, job) ==
  /\ job.key.clock = NoTime
  /\ job.stamp <= job.t /\ (PinnedAt[n] # NoTime => job.t = PinnedAt[n])
  /\ \A input \in job.key.inputs : input[1] \in Nodes =>
       /\ input[1] \in UpstreamsOf(n)
       /\ input[2][1] = revision[input[1]] /\ revision[input[1]] > 0
       /\ input[2][2] <= history[input[1]].uids
  /\ StampedBy(job.key.inputs, job.stamp)

(* A run whose result will be taken. *)
Live(n) ==
  LET job == slot[n].running
  IN  /\ job # NoRun /\ ~job.cancelled /\ job.key.revision = revision[n] /\ job.key.epoch = epoch
      /\ ~To("supersede", n)

Shelf == \A n \in Nodes : Ordered(n, history[n]) /\ Meant(n, history[n])
JobsSound == \A n \in Nodes : Live(n) => JobGood(n, slot[n].running)
Under == held > 0 => \A n \in Nodes : history[n].ring = {} /\ history[n].late = {} /\ ~Live(n)
Stocked == Shelf /\ JobsSound /\ Under

(* An input is an identity: a number for the topic's entry, a pair for a node's result. *)
LEMMA IdentityFacts ==
  ASSUME NEW input \in Identity
  PROVE  /\ input[1] = Topic => input[2] \in Nat
         /\ input[1] \in Nodes => input[2][1] \in Nat /\ input[2][2] \in Nat
         /\ input[1] = Topic \/ input[1] \in Nodes
<1>1. Topic \notin Nodes
  BY ConstantFacts
<1> QED BY <1>1 DEF Identity

LEMMA JobKept ==
  ASSUME TypeOK, TypeOK', NEW n \in Nodes, NEW job \in Jobs, JobGood(n, job),
         \A u \in UpstreamsOf(n) : revision'[u] = revision[u] /\ Follows(u, history'[u])
  PROVE  JobGood(n, job)'
<1>1. job.key.inputs \subseteq Identity
  BY JobTypes, KeyTypes
<1>2. ASSUME NEW input \in job.key.inputs, input[1] \in Nodes
      PROVE  /\ input[1] \in UpstreamsOf(n)
             /\ input[2][1] = revision'[input[1]] /\ revision'[input[1]] > 0
             /\ input[2][2] <= history'[input[1]].uids
             /\ \A e \in history'[input[1]].ring : e.uid = input[2] => e \in history[input[1]].ring
  <2> DEFINE u == input[1]
  <2>1. /\ u \in UpstreamsOf(n) /\ input[2][1] = revision[u] /\ revision[u] > 0 /\ input[2][2] <= history[u].uids
    BY <1>2 DEF JobGood
  <2>2. input[2][2] \in Nat /\ history[u].uids \in Nat /\ history'[u].uids \in Nat
    BY <1>1, <1>2, IdentityFacts, HistoryTypes DEF TypeOK
  <2>3. revision'[u] = revision[u] /\ history[u].uids <= history'[u].uids
        /\ \A e \in history'[u].ring : e \in history[u].ring \/ e.uid[2] > history[u].uids
    BY <2>1 DEF Follows
  <2>4. input[2][2] <= history'[u].uids /\ ~(input[2][2] > history[u].uids)
    BY <2>1, <2>2, <2>3
  <2> HIDE DEF u
  <2>5. \A e \in history'[u].ring : e.uid = input[2] => e \in history[u].ring
    BY <2>3, <2>4
  <2> QED BY <2>1, <2>3, <2>4, <2>5 DEF u
<1>3. StampedBy(job.key.inputs, job.stamp)'
  <2>1. StampedBy(job.key.inputs, job.stamp)
    BY DEF JobGood
  <2>2. \A input \in job.key.inputs :
       /\ input[1] = Topic => input[2] <= job.stamp
       /\ input[1] \in Nodes => \A e \in history'[input[1]].ring : e.uid = input[2] => e.stamp <= job.stamp
    BY <1>2, <2>1 DEF StampedBy
  <2>3. \E input \in job.key.inputs :
       /\ input[1] = Topic => input[2] = job.stamp
       /\ input[1] \in Nodes => \A e \in history'[input[1]].ring : e.uid = input[2] => e.stamp = job.stamp
    BY <1>2, <2>1 DEF StampedBy
  <2> QED BY <2>2, <2>3 DEF StampedBy
<1>4. \A input \in job.key.inputs : input[1] \in Nodes =>
       /\ input[1] \in UpstreamsOf(n)
       /\ input[2][1] = revision'[input[1]] /\ revision'[input[1]] > 0
       /\ input[2][2] <= history'[input[1]].uids
  BY <1>2
<1> QED BY <1>3, <1>4 DEF JobGood

-----------------------------------------------------------------------------
(* A step under the same meanings and epoch. *)
Stays(m) == Sound(m, history'[m]) /\ (held > 0 => history'[m].ring = {} /\ history'[m].late = {})

LEMMA StaysSame ==
  ASSUME Typed, Stocked, NEW m \in Nodes, history'[m] = history[m]
  PROVE  Stays(m)
<1>1. Sound(m, history[m])
  BY SameSound DEF Typed, Stocked, Shelf
<1>2. held > 0 => history[m].ring = {} /\ history[m].late = {}
  BY DEF Stocked, Under
<1> QED BY <1>1, <1>2 DEF Stays

LiveStays(m) == Live(m) /\ slot'[m].running = slot[m].running

LEMMA StockedKept ==
  ASSUME Typed, TypeOK', Stocked, graph' = graph, epoch' = epoch, held' = held, \A m \in Nodes : Stays(m),
         \A m \in Nodes : Live(m)' => LiveStays(m) \/ (~(held > 0) /\ JobGood(m, slot'[m].running))
  PROVE  Stocked'
<1>0. revision' = revision
  BY DEF revision
<1>1. Shelf'
  <2>1. ASSUME NEW m \in Nodes PROVE Ordered(m, history'[m]) /\ Meant(m, history[m])'
    <3>1. Ordered(m, history'[m]) /\ Meant(m, history'[m])
      BY DEF Stays, Sound
    <3> QED BY <1>0, <3>1 DEF Meant, OfNow
  <2>2. \A m \in Nodes : Ordered(m, history[m])'
    BY <2>1 DEF Ordered
  <2> QED BY <2>1, <2>2 DEF Shelf
<1>2. JobsSound'
  <2>1. ASSUME NEW m \in Nodes, Live(m)' PROVE JobGood(m, slot[m].running)'
    <3>1. PICK job : job = slot'[m].running
      OBVIOUS
    <3>2. job \in Jobs
      <4>1. job \in Jobs \cup {NoRun} /\ job # NoRun
        BY <2>1, <3>1, SlotFields DEF Live, TypeOK
      <4> QED BY <4>1
    <3>3. JobGood(m, job)
      BY <2>1, <3>1 DEF LiveStays, Stocked, JobsSound
    <3>4. \A u \in UpstreamsOf(m) : revision'[u] = revision[u] /\ Follows(u, history'[u])
      BY <1>0, UpstreamNodes DEF Stays, Sound
    <3>5. JobGood(m, job)'
      BY <3>2, <3>3, <3>4, JobKept DEF Typed
    <3> QED BY <3>1, <3>5 DEF JobGood, StampedBy
  <2> QED BY <2>1 DEF JobsSound
<1>3. Under'
  <2>1. ASSUME held' > 0, NEW m \in Nodes PROVE ~Live(m)'
    BY <2>1 DEF Stocked, Under, LiveStays
  <2> QED BY <2>1 DEF Under, Stays
<1> QED BY <1>1, <1>2, <1>3 DEF Stocked

LEMMA LiveKept ==
  ASSUME graph' = graph, epoch' = epoch, NEW m \in Nodes, Live(m)', slot'[m].running = slot[m].running,
         \A c \in Members(agenda) : c.call = "supersede" /\ c.node = m => c \in Members(agenda')
  PROVE  LiveStays(m)
<1>1. revision' = revision
  BY DEF revision
<1>2. To("supersede", m) => To("supersede", m)'
  BY DEF To
<1> QED BY <1>1, <1>2 DEF Live, LiveStays

(* What a staging takes: the topic's entry, or what an upstream shows. *)
LEMMA TakenKinds ==
  ASSUME Typed, Shelf, NEW n \in Nodes, slot[n].cursor \in Times, NEW input \in Taken(n)
  PROVE  \/ /\ input[1] = Topic /\ input[2] = input[3] /\ n \in RawNodes
            /\ input[3] \in Nat /\ input[3] <= data.newest /\ input[3] <= slot[n].cursor
         \/ \E u \in UpstreamsOf(n) : \E e \in ShownAt(history[u], slot[n].cursor) :
              /\ u \in Nodes /\ e \in history[u].ring /\ e.available
              /\ input[1] = u /\ input[2] = e.uid /\ input[3] = e.stamp
              /\ e.uid \in Nat \X Nat /\ e.stamp \in Nat /\ e.stamp <= slot[n].cursor
              /\ e.uid[1] = revision[u] /\ e.uid[2] <= history[u].uids /\ revision[u] > 0
<1>1. CASE input \in TakenRaw(n)
  <2>1. /\ input = <<Topic, input[2], input[2]>> /\ n \in RawNodes /\ input[2] \in Nat /\ input[2] <= slot[n].cursor
        /\ input[2] \in data.oldest .. data.newest
    BY <1>1, TakenFacts DEF Typed
  <2>2. data.oldest \in Nat /\ data.newest \in Nat
    BY DEF Typed, TypeOK
  <2>3. input[1] = Topic /\ input[3] = input[2]
    <3>1. PICK s : input = <<Topic, s, s>>
      BY <2>1, Zenon
    <3> QED BY <3>1
  <2>4. input[2] <= data.newest
    BY <2>1, <2>2
  <2> QED BY <2>1, <2>3, <2>4
<1>2. CASE input \notin TakenRaw(n)
  <2>1. PICK u \in UpstreamsOf(n) : input \in TakenFrom(u, slot[n].cursor)
    BY <1>2 DEF Taken
  <2>2. u \in Nodes
    BY UpstreamNodes
  <2>3. PICK e \in ShownAt(history[u], slot[n].cursor) :
          /\ e.available /\ e \in history[u].ring /\ input = <<u, e.uid, e.stamp>>
          /\ e.uid \in Nat \X Nat /\ e.stamp \in Nat /\ e.stamp <= slot[n].cursor
    BY <2>1, TakenFacts DEF Typed
  <2>4. input[1] = u /\ input[2] = e.uid /\ input[3] = e.stamp
    BY <2>3, Zenon
  <2>5. e.uid[1] = revision[u] /\ e.uid[2] <= history[u].uids
    BY <2>2, <2>3 DEF Shelf, Ordered, Meant
  <2>6. revision[u] \in Nat /\ (revision[u] = 0 => history[u].ring = {})
    BY <2>2 DEF Typed, TypeOK, Known, revision
  <2>7. revision[u] > 0
    BY <2>3, <2>6
  <2> QED BY <2>2, <2>3, <2>4, <2>5, <2>7
<1> QED BY <1>1, <1>2

(* A staging that succeeds took something. *)
LEMMA OkTaken ==
  ASSUME NEW n \in Nodes, Staged(n).ok
  PROVE  Taken(n) # {}
<1>1. /\ n \in RawNodes => TakenRaw(n) # {}
      /\ \A u \in UpstreamsOf(n) : \E input \in UNION {TakenFrom(v, slot[n].cursor) : v \in UpstreamsOf(n)} : input[1] = u
  BY StagedIs
<1>2. UpstreamsOf(n) # {} \/ n \in RawNodes
  BY ConstantFacts
<1> QED BY <1>1, <1>2 DEF Taken

(* What is staged now is under the meanings of now, and stamped by its inputs. *)
LEMMA StagedGood ==
  ASSUME Typed, Shelf, NEW n \in Nodes, slot[n].cursor \in Times, Staged(n).ok, NEW job,
         job.key = Staged(n).key, job.stamp = Staged(n).stamp, job.t = slot[n].cursor
  PROVE  /\ JobGood(n, job) /\ job.key.inputs # {} /\ OfNow(n, job.key)
<1>1. /\ Staged(n).key.revision = revision[n] /\ Staged(n).key.epoch = epoch
      /\ Staged(n).key.clock = NoTime
      /\ Staged(n).key.inputs = {<<input[1], input[2]>> : input \in Taken(n)}
      /\ Staged(n).stamp \in Nat /\ Staged(n).stamp <= slot[n].cursor
      /\ \A input \in Taken(n) : input[3] \in Nat /\ input[3] <= Staged(n).stamp
      /\ Staged(n).stamp = 0 \/ \E input \in Taken(n) : input[3] = Staged(n).stamp
  BY StagedTypes DEF Typed
<1>2. PinnedAt[n] # NoTime => slot[n].cursor = PinnedAt[n]
  BY ConstantFacts DEF Typed, Known
<1>3. ASSUME NEW x \in job.key.inputs
      PROVE  \E input \in Taken(n) : x[1] = input[1] /\ x[2] = input[2]
  <2>1. PICK input \in Taken(n) : x = <<input[1], input[2]>>
    BY <1>1
  <2> QED BY <2>1
<1>4. Topic \notin Nodes
  BY ConstantFacts
<1>5. \A x \in job.key.inputs : x[1] \in Nodes =>
       /\ x[1] \in UpstreamsOf(n)
       /\ x[2][1] = revision[x[1]] /\ revision[x[1]] > 0
       /\ x[2][2] <= history[x[1]].uids
  <2> SUFFICES ASSUME NEW x \in job.key.inputs, x[1] \in Nodes
               PROVE /\ x[1] \in UpstreamsOf(n)
                     /\ x[2][1] = revision[x[1]] /\ revision[x[1]] > 0
                     /\ x[2][2] <= history[x[1]].uids
    OBVIOUS
  <2>1. PICK input \in Taken(n) : x[1] = input[1] /\ x[2] = input[2]
    BY <1>3
  <2>2. \E u \in UpstreamsOf(n) : \E e \in ShownAt(history[u], slot[n].cursor) :
              /\ input[1] = u /\ input[2] = e.uid
              /\ e.uid[1] = revision[u] /\ e.uid[2] <= history[u].uids /\ revision[u] > 0
    BY <1>4, <2>1, TakenKinds
  <2> QED BY <2>1, <2>2
<1>6. ASSUME NEW input \in Taken(n)
      PROVE  /\ input[1] = Topic => input[2] = input[3]
             /\ input[1] \in Nodes => \A e \in history[input[1]].ring : e.uid = input[2] => e.stamp = input[3]
  <2>1. CASE input[1] = Topic /\ input[2] = input[3]
    BY <1>4, <2>1
  <2>2. CASE \E u \in UpstreamsOf(n) : \E e \in ShownAt(history[u], slot[n].cursor) :
              u \in Nodes /\ e \in history[u].ring /\ input[1] = u /\ input[2] = e.uid /\ input[3] = e.stamp
    <3>0. PICK u \in UpstreamsOf(n) : \E e \in ShownAt(history[u], slot[n].cursor) :
              u \in Nodes /\ e \in history[u].ring /\ input[1] = u /\ input[2] = e.uid /\ input[3] = e.stamp
      BY <2>2
    <3>1. PICK e \in ShownAt(history[u], slot[n].cursor) :
              u \in Nodes /\ e \in history[u].ring /\ input[1] = u /\ input[2] = e.uid /\ input[3] = e.stamp
      BY <3>0
    <3>2. \A f \in history[u].ring : f.uid = e.uid => f = e
      BY <3>1 DEF Shelf, Ordered
    <3> QED BY <1>4, <3>1, <3>2
  <2> QED BY <2>1, <2>2, TakenKinds
<1>7. StampedBy(job.key.inputs, job.stamp)
  <2>1. \A x \in job.key.inputs :
         /\ x[1] = Topic => x[2] <= job.stamp
         /\ x[1] \in Nodes => \A e \in history[x[1]].ring : e.uid = x[2] => e.stamp <= job.stamp
    <3> SUFFICES ASSUME NEW x \in job.key.inputs
                 PROVE /\ x[1] = Topic => x[2] <= job.stamp
                       /\ x[1] \in Nodes => \A e \in history[x[1]].ring : e.uid = x[2] => e.stamp <= job.stamp
      OBVIOUS
    <3>1. PICK input \in Taken(n) : x[1] = input[1] /\ x[2] = input[2]
      BY <1>3
    <3> QED BY <1>1, <1>6, <3>1
  <2>2. PICK input \in Taken(n) : input[3] = job.stamp
    <3>1. PICK any \in Taken(n) : TRUE
      BY OkTaken
    <3>2. any[3] \in Nat /\ any[3] <= Staged(n).stamp
      BY <1>1
    <3> QED BY <1>1, <3>2
  <2>3. <<input[1], input[2]>> \in job.key.inputs
    BY <1>1
  <2>4. PICK x \in job.key.inputs : x[1] = input[1] /\ x[2] = input[2]
    BY <2>3
  <2>5. \E y \in job.key.inputs :
         /\ y[1] = Topic => y[2] = job.stamp
         /\ y[1] \in Nodes => \A e \in history[y[1]].ring : e.uid = y[2] => e.stamp = job.stamp
    BY <1>6, <2>2, <2>4
  <2> QED BY <2>1, <2>5 DEF StampedBy
<1>8. JobGood(n, job)
  BY <1>1, <1>2, <1>5, <1>7 DEF JobGood
<1>9. job.key.inputs # {}
  BY <1>7 DEF StampedBy
<1>10. OfNow(n, job.key)
  BY <1>1, <1>5 DEF OfNow
<1> QED BY <1>8, <1>9, <1>10

(* However a serve settles its node, what it leaves is sound. *)
LEMMA WaySound ==
  ASSUME Typed, Stocked, NEW n \in Nodes, NEW status, NEW h, Way(n, status, h)
  PROVE  Sound(n, h) /\ (held > 0 => h.ring = {} /\ h.late = {})
<1>1. Ordered(n, history[n]) /\ Meant(n, history[n]) /\ history[n] \in Histories
  BY DEF Stocked, Shelf, Typed, TypeOK
<1>2. CASE h = history[n]
  <2>1. held > 0 => history[n].ring = {} /\ history[n].late = {}
    BY DEF Stocked, Under
  <2> QED BY <1>1, <1>2, <2>1, SameSound DEF Typed
<1>3. CASE Servable(n)
  <2>1. held = 0 /\ slot[n].requested /\ slot[n].cursor \in Times
    BY <1>3 DEF Servable, Typed, Known
  <2>2. ~(held > 0)
    BY <2>1
  <2>3. PinnedAt[n] # NoTime => slot[n].cursor = PinnedAt[n]
    BY <2>1, ConstantFacts DEF Typed, Known
  <2>4. slot[n].cursor \in Nat /\ (PinnedAt[n] # NoTime => slot[n].cursor <= PinnedAt[n])
    <3>1. PICK t : t = slot[n].cursor
      OBVIOUS
    <3>2. t \in Times /\ Times \subseteq Nat /\ (PinnedAt[n] # NoTime => t = PinnedAt[n])
      BY <2>1, <2>3, <3>1, ConstantFacts
    <3>3. t \in Nat /\ t <= t
      BY <3>2
    <3> QED BY <3>1, <3>2, <3>3
  <2>5. Staged(n).stamp \in Nat /\ (PinnedAt[n] # NoTime => Staged(n).stamp <= PinnedAt[n])
    BY <2>1, <2>3, StagedTypes DEF Typed
  <2>6. CASE h = Cleared(n, slot[n].cursor)
    BY <1>1, <2>2, <2>4, <2>6, ClearedSound DEF Typed
  <2>7. CASE h = Cleared(n, Staged(n).stamp)
    BY <1>1, <2>2, <2>5, <2>7, ClearedSound DEF Typed
  <2>8. ASSUME NEW g, Hit(n, g), h = TombstonesSuperseded(n, g, Staged(n).stamp)
        PROVE  Sound(n, h)
    <3>1. Sound(n, g) /\ g \in Histories
      <4>1. CASE g = history[n]
        BY <1>1, <4>1, SameSound DEF Typed
      <4>2. CASE \E r \in CacheHits(n) : g = Published(n, Staged(n).stamp, r.key, r.available, FALSE)
        <5>1. PICK r \in CacheHits(n) : g = Published(n, Staged(n).stamp, r.key, r.available, FALSE)
          BY <4>2
        <5>2. r \in history[n].late
          BY DEF CacheHits
        <5>3. r.key \in Keys /\ r.available \in BOOLEAN
          BY <1>1, <5>2, HistoryTypes
        <5>4. r.key.inputs # {} /\ OfNow(n, r.key)
          BY <1>1, <5>2 DEF Ordered, Meant, IsResult
        <5>5. FALSE \in BOOLEAN
          OBVIOUS
        <5>6. g \in Histories
          BY <2>5, <5>1, <5>3, <5>5, PublishedTypes, Zenon DEF Typed
        <5>7. r.key.inputs # {} \/ (~r.available /\ ~FALSE)
          BY <5>4
        <5>8. Sound(n, g)
          BY <1>1, <2>5, <5>1, <5>3, <5>4, <5>5, <5>7, PublishedSound, Zenon DEF Typed
        <5> QED BY <5>6, <5>8
      <4> QED BY <2>8, <4>1, <4>2 DEF Hit
    <3>2. h.ring \subseteq g.ring /\ h.late \subseteq g.late /\ h.uids = g.uids
      BY <2>8, <3>1, SupersededShape
    <3> QED BY <3>1, <3>2, FewerSound
  <2> QED BY <1>2, <2>2, <2>6, <2>7, <2>8, <1>3 DEF Way
<1> QED BY <1>2, <1>3 DEF Way

(* A step that leaves the histories, and starts no run. *)
Calm ==
  /\ TypeOK' /\ graph' = graph /\ epoch' = epoch /\ held' = held
  /\ \A m \in Nodes : history'[m] = history[m]
  /\ \A m \in Nodes : Live(m)' => LiveStays(m)

LEMMA StockedSame ==
  ASSUME Typed, TypeOK', Stocked, graph' = graph, epoch' = epoch, held' = held,
         \A m \in Nodes : history'[m] = history[m],
         \A m \in Nodes : /\ Live(m)' => slot'[m].running = slot[m].running
                          /\ \/ ~Live(m)'
                             \/ \A c \in Members(agenda) : c.call = "supersede" /\ c.node = m => c \in Members(agenda')
  PROVE  Stocked' /\ Calm
<1>1. \A m \in Nodes : Stays(m)
  BY StaysSame
<1>2. ASSUME NEW m \in Nodes, Live(m)'
      PROVE  LiveStays(m)
  BY <1>2, LiveKept
<1>3. Calm
  BY <1>2 DEF Calm
<1> QED BY <1>1, <1>2, <1>3, StockedKept

(* A conclusion that leaves a sound history. *)
LEMMA StockedConclude ==
  ASSUME Typed, Stocked, ~Idle, NEW n \in Nodes, NEW wait \in Waits, NEW status \in Statuses, NEW h \in Histories,
         NEW rest \in Seq(Chores), Conclude(n, wait, status, h, rest), Head(agenda).call # "supersede",
         Sound(n, h), held > 0 => h.ring = {} /\ h.late = {}
  PROVE  Stocked'
<1>1. /\ TypeOK' /\ history'[n] = h /\ slot'[n].running = slot[n].running
      /\ \A m \in Nodes \ {n} : slot'[m] = slot[m] /\ history'[m] = history[m]
      /\ graph' = graph /\ epoch' = epoch /\ held' = held
  <2>1. TypeOK
    BY DEF Typed
  <2>2. TypeOK' /\ history'[n] = h
    <3>1. TypeOK'
      BY <2>1, ConcludeFacts
    <3>2. history' = [history EXCEPT ![n] = h] /\ history \in [Nodes -> Histories]
      BY <2>1 DEF Conclude, TypeOK
    <3> QED BY <3>1, <3>2
  <2>3. slot'[n].running = slot[n].running
    BY <2>1, ConcludeFacts
  <2>4. \A m \in Nodes \ {n} : slot'[m] = slot[m] /\ history'[m] = history[m]
    BY <2>1, ConcludeFacts
  <2>5. graph' = graph /\ epoch' = epoch /\ held' = held
    BY <2>1, ConcludeFacts
  <2> QED BY <2>2, <2>3, <2>4, <2>5
<1>2. \A m \in Nodes : slot'[m].running = slot[m].running
  BY <1>1
<1>3. Members(agenda) = {Head(agenda)} \cup Rest /\ Rest \subseteq Members(agenda')
  BY ConcludeMembers DEF Typed
<1>4. \A c \in Members(agenda) : c.call = "supersede" => c \in Members(agenda')
  BY <1>3
<1>5. ASSUME NEW m \in Nodes PROVE Stays(m)
  <2>1. CASE m = n
    BY <1>1, <2>1 DEF Stays
  <2>2. CASE m # n
    BY <1>1, <2>2, StaysSame
  <2> QED BY <2>1, <2>2
<1>6. ASSUME NEW m \in Nodes, Live(m)' PROVE LiveStays(m)
  BY <1>1, <1>2, <1>4, <1>6, LiveKept
<1> QED BY <1>1, <1>5, <1>6, StockedKept

LEMMA StockedServe == Typed /\ ServeStep /\ Stocked => Stocked'
<1> SUFFICES ASSUME Typed, ServeStep, Stocked PROVE Stocked'
  OBVIOUS
<1>1. Calls("serve") /\ Callee \in Nodes /\ ~Idle /\ TypeOK' /\ Head(agenda).call = "serve"
  BY ServeWays DEF Calls
<1>2. CASE ServeWithdrawn
  <2>1. /\ Members(agenda) = {Head(agenda)} \cup Rest /\ Members(agenda') = Members(Unused) \cup Rest
        /\ graph' = graph /\ epoch' = epoch /\ held' = held /\ slot' = slot /\ history' = history
    BY <1>2, WithdrawnFacts
  <2>2. \A c \in Members(agenda) : c.call = "supersede" => c \in Members(agenda')
    BY <1>1, <2>1
  <2>3. \A m \in Nodes : slot'[m].running = slot[m].running /\ history'[m] = history[m]
    BY <2>1
  <2> QED BY <1>1, <2>1, <2>2, <2>3, StockedSame
<1>3. CASE ServeRun
  <2>0. PICK n : n = Callee
    OBVIOUS
  <2>1. /\ n \in Nodes /\ Members(agenda) = {Head(agenda)} \cup Rest /\ Members(agenda') = Rest
        /\ Servable(n) /\ Staged(n).ok /\ slot[n].cursor \in Times
        /\ \A m \in Nodes \ {n} : slot'[m] = slot[m]
        /\ slot'[n].running = [key |-> Staged(n).key, stamp |-> Staged(n).stamp, t |-> slot[n].cursor, cancelled |-> FALSE]
        /\ graph' = graph /\ epoch' = epoch /\ held' = held /\ history' = history
    BY <1>3, <2>0, RunFacts
  <2>2. \A m \in Nodes : Stays(m)
    BY <2>1, StaysSame
  <2>3. PICK job : job = slot'[n].running
    OBVIOUS
  <2>4. job.key = Staged(n).key /\ job.stamp = Staged(n).stamp /\ job.t = slot[n].cursor
    BY <2>1, <2>3
  <2>5. JobGood(n, job)
    BY <2>1, <2>4, StagedGood DEF Stocked
  <2>6. ~(held > 0)
    BY <2>1 DEF Servable
  <2>7. \A c \in Members(agenda) : c.call = "supersede" => c \in Members(agenda')
    BY <1>1, <2>1
  <2>8. ASSUME NEW m \in Nodes, Live(m)'
        PROVE  LiveStays(m) \/ (~(held > 0) /\ JobGood(m, slot'[m].running))
    <3>1. CASE m = n
      BY <2>3, <2>5, <2>6, <3>1
    <3>2. CASE m # n
      <4>1. slot'[m].running = slot[m].running
        BY <2>1, <3>2
      <4> QED BY <2>1, <2>7, <2>8, <4>1, LiveKept
    <3> QED BY <3>1, <3>2
  <2> QED BY <1>1, <2>1, <2>2, <2>8, StockedKept
<1>4. CASE \E wait \in Waits, status \in Statuses, h \in Histories :
             Conclude(Callee, wait, status, h, Unused) /\ Way(Callee, status, h)
  <2>1. PICK wait \in Waits, status \in Statuses, h \in Histories :
             Conclude(Callee, wait, status, h, Unused) /\ Way(Callee, status, h)
    BY <1>4
  <2>2. Sound(Callee, h) /\ (held > 0 => h.ring = {} /\ h.late = {})
    BY <1>1, <2>1, WaySound
  <2>3. Unused \in Seq(Chores)
    BY <1>1, UnusedFacts DEF Typed
  <2> QED BY <1>1, <2>1, <2>2, <2>3, StockedConclude
<1> QED BY <1>2, <1>3, <1>4, ServeWays

LEMMA StockedSettle == Typed /\ Settle /\ Stocked => Stocked'
<1> SUFFICES ASSUME Typed, Settle, Stocked PROVE Stocked'
  OBVIOUS
<1>0. PICK n, stamp : n = Callee /\ stamp = Head(agenda).stamp
  OBVIOUS
<1> DEFINE h == TombstonesSuperseded(n, history[n], stamp)
<1>1. /\ Calls("settle") /\ ~Idle /\ n \in Nodes /\ h \in Histories
      /\ Conclude(n, "none", "ready", h, <<>>)
  BY <1>0, SettleFacts
<1>2. Ordered(n, history[n]) /\ Meant(n, history[n]) /\ history[n] \in Histories
  BY <1>1 DEF Stocked, Shelf, Typed, TypeOK
<1>3. h.ring \subseteq history[n].ring /\ h.late = history[n].late /\ h.uids = history[n].uids
  BY <1>1, <1>2, SupersededShape
<1> HIDE DEF h
<1>4. Sound(n, h)
  <2>1. Sound(n, history[n])
    BY <1>1, <1>2, SameSound DEF Typed
  <2> QED BY <1>3, <2>1, FewerSound
<1>5. held > 0 => h.ring = {} /\ h.late = {}
  BY <1>1, <1>3 DEF Stocked, Under
<1>6. "none" \in Waits /\ "ready" \in Statuses /\ <<>> \in Seq(Chores) /\ Head(agenda).call # "supersede"
  BY <1>1 DEF Waits, Statuses, Calls
<1> DEFINE none == <<>>
<1>7. none \in Seq(Chores) /\ Conclude(n, "none", "ready", h, none)
  BY <1>1, <1>6
<1> HIDE DEF none
<1> QED BY <1>1, <1>4, <1>5, <1>6, <1>7, StockedConclude

LEMMA StockedRequest == Typed /\ RequestAt /\ Stocked => Stocked' /\ Calm
<1> SUFFICES ASSUME Typed, RequestAt, Stocked PROVE Stocked' /\ Calm
  OBVIOUS
<1>0. PICK n : n = Callee
  OBVIOUS
<1>1. /\ Calls("request") /\ n \in Nodes /\ TypeOK' /\ Members(agenda) = {Head(agenda)} \cup Rest
      /\ Rest \subseteq Members(agenda')
      /\ \A m \in Nodes \ {n} : slot'[m] = slot[m]
      /\ slot'[n].running = slot[n].running
         \/ (slot[n].running \in Jobs \cup {NoRun} /\ slot[n].running # NoRun /\ slot'[n].running = [slot[n].running EXCEPT !.cancelled = TRUE])
      /\ graph' = graph /\ epoch' = epoch /\ held' = held /\ history' = history
  BY <1>0, RequestFacts, SlotTypes DEF Typed, TypeOK
<1>2. slot'[n].running = slot[n].running \/ slot'[n].running.cancelled
  BY <1>1, JobTypes
<1>3. ASSUME NEW m \in Nodes, Live(m)' PROVE slot'[m].running = slot[m].running
  <2>1. CASE m = n
    BY <1>2, <1>3, <2>1 DEF Live
  <2>2. CASE m # n
    BY <1>1, <2>2
  <2> QED BY <2>1, <2>2
<1>4. \A c \in Members(agenda) : c.call = "supersede" => c \in Members(agenda')
  BY <1>1 DEF Calls
<1>5. \A m \in Nodes : history'[m] = history[m]
  BY <1>1
<1> QED BY <1>1, <1>3, <1>4, <1>5, StockedSame

LEMMA StockedSupersede == Typed /\ SupersedeNode /\ Stocked => Stocked' /\ Calm
<1> SUFFICES ASSUME Typed, SupersedeNode, Stocked PROVE Stocked' /\ Calm
  OBVIOUS
<1>0. PICK n : n = Callee
  OBVIOUS
<1>1. /\ Calls("supersede") /\ n \in Nodes /\ TypeOK' /\ Members(agenda) = {Head(agenda)} \cup Rest
      /\ Rest \subseteq Members(agenda')
      /\ \A m \in Nodes \ {n} : slot'[m] = slot[m]
      /\ slot'[n].running # NoRun => slot'[n].running.cancelled
      /\ graph' = graph /\ epoch' = epoch /\ held' = held /\ history' = history
  BY <1>0, SupersedeFacts
<1>2. ~Live(n)'
  BY <1>1 DEF Live
<1>3. ASSUME NEW m \in Nodes, Live(m)' PROVE slot'[m].running = slot[m].running
  <2>1. m # n
    BY <1>2, <1>3
  <2> QED BY <1>1, <2>1
<1>4. ASSUME NEW m \in Nodes
      PROVE  \/ ~Live(m)'
             \/ \A c \in Members(agenda) : c.call = "supersede" /\ c.node = m => c \in Members(agenda')
  <2>1. CASE m = n
    BY <1>2, <2>1
  <2>2. CASE m # n
    <3>1. Head(agenda).node = n
      BY <1>0 DEF Callee
    <3> QED BY <1>1, <2>2, <3>1
  <2> QED BY <2>1, <2>2
<1>5. \A m \in Nodes : history'[m] = history[m]
  BY <1>1
<1> QED BY <1>1, <1>3, <1>4, <1>5, StockedSame

LEMMA StockedCalls ==
  Typed /\ Stocked /\ (\/ BindNext \/ RegisterReader \/ ServeOneReader \/ WithdrawNode \/ ReturnRoom \/ DrainBegins \/ Grant)
    => Stocked' /\ Calm
<1> SUFFICES ASSUME Typed, Stocked,
                    \/ BindNext \/ RegisterReader \/ ServeOneReader \/ WithdrawNode \/ ReturnRoom \/ DrainBegins \/ Grant
             PROVE  Stocked' /\ Calm
  OBVIOUS
<1> DEFINE Quiet ==
      /\ TypeOK' /\ Members(agenda) = {Head(agenda)} \cup Rest /\ Rest \subseteq Members(agenda')
      /\ Head(agenda).call # "supersede"
      /\ \A m \in Nodes : slot'[m].running = slot[m].running
      /\ graph' = graph /\ epoch' = epoch /\ held' = held /\ history' = history
<1>1. Quiet
  <2>1. CASE BindNext
    BY <2>1, BindFacts DEF Calls
  <2>2. CASE RegisterReader
    <3>0. PICK n : n = Callee
      OBVIOUS
    <3>1. /\ Calls("register") /\ n \in Nodes /\ TypeOK' /\ Members(agenda) = {Head(agenda)} \cup Rest /\ Members(agenda') = Rest
          /\ \A m \in Nodes \ {n} : slot'[m] = slot[m]
          /\ slot'[n].running = slot[n].running
          /\ graph' = graph /\ epoch' = epoch /\ held' = held /\ history' = history
      BY <2>2, <3>0, RegisterFacts
    <3>2. \A m \in Nodes : slot'[m].running = slot[m].running
      BY <3>1
    <3> QED BY <3>1, <3>2 DEF Calls
  <2>3. CASE ServeOneReader
    BY <2>3, OneReaderFacts DEF Calls
  <2>4. CASE WithdrawNode
    <3>0. PICK n : n = Callee
      OBVIOUS
    <3>1. /\ Calls("withdraw") /\ n \in Nodes /\ TypeOK' /\ Members(agenda) = {Head(agenda)} \cup Rest /\ Rest \subseteq Members(agenda')
          /\ slot' = slot \/ ((\A m \in Nodes \ {n} : slot'[m] = slot[m]) /\ slot'[n].running = slot[n].running)
          /\ graph' = graph /\ epoch' = epoch /\ held' = held /\ history' = history
      BY <2>4, <3>0, WithdrawFacts
    <3>2. \A m \in Nodes : slot'[m].running = slot[m].running
      BY <3>1
    <3> QED BY <3>1, <3>2 DEF Calls
  <2>5. CASE ReturnRoom
    BY <2>5, ReturnFacts DEF Calls
  <2>6. CASE DrainBegins
    BY <2>6, DrainFacts DEF Calls
  <2>7. CASE Grant
    <3>0. PICK n : n = Head(budget.line)
      OBVIOUS
    <3>1. /\ Calls("granting") /\ TypeOK' /\ Members(agenda) = {Head(agenda)} \cup Rest /\ Rest \subseteq Members(agenda')
          /\ slot' = slot \/ (n \in Nodes /\ (\A m \in Nodes \ {n} : slot'[m] = slot[m]) /\ slot'[n].running = slot[n].running)
          /\ graph' = graph /\ epoch' = epoch /\ held' = held /\ history' = history
      BY <2>7, <3>0, GrantFacts
    <3>2. \A m \in Nodes : slot'[m].running = slot[m].running
      BY <3>1
    <3> QED BY <3>1, <3>2 DEF Calls
  <2> QED BY <2>1, <2>2, <2>3, <2>4, <2>5, <2>6, <2>7
<1>2. \A c \in Members(agenda) : c.call = "supersede" => c \in Members(agenda')
  BY <1>1
<1>3. \A m \in Nodes : history'[m] = history[m]
  BY <1>1
<1> QED BY <1>1, <1>2, <1>3, StockedSame

LEMMA FinishShelf ==
  ASSUME Typed, Stocked, NEW n \in Nodes, NEW outcome, FinishRun(n, outcome)
  PROVE  /\ Idle /\ ~(held > 0) /\ Live(n) /\ JobGood(n, slot[n].running)
         /\ Sound(n, Filed(n, outcome))
<1>1. PICK job : job = slot[n].running
  OBVIOUS
<1>2. PICK key : key = Stored(n, outcome)
  OBVIOUS
<1>3. /\ Idle /\ job \in Jobs /\ job # NoRun /\ ~Outdated(n) /\ key \in Keys
      /\ key.revision = job.key.revision /\ key.epoch = job.key.epoch /\ key.inputs = job.key.inputs
  BY <1>1, <1>2, FinishFacts
<1>4. Live(n)
  <2>1. ~job.cancelled /\ job.key.revision = revision[n] /\ job.key.epoch = epoch
    BY <1>1, <1>3 DEF Outdated
  <2>2. ~To("supersede", n)
    BY <1>3, RestFacts DEF To, Typed
  <2> QED BY <1>1, <1>3, <2>1, <2>2 DEF Live
<1>5. JobGood(n, job) /\ ~(held > 0)
  BY <1>1, <1>4 DEF Stocked, JobsSound, Under
<1>6. job.stamp \in Nat /\ job.t \in Times /\ Times \subseteq Nat
  BY <1>3, JobTypes, ConstantFacts
<1>7. PinnedAt[n] # NoTime => job.stamp <= PinnedAt[n]
  BY <1>5 DEF JobGood
<1>8. OfNow(n, key)
  <2>1. \A input \in key.inputs : input[1] \in Nodes => input[1] \in UpstreamsOf(n) /\ revision[input[1]] = input[2][1]
    BY <1>3, <1>5 DEF JobGood
  <2>2. key.revision = revision[n] /\ key.epoch = epoch
    BY <1>1, <1>3, <1>4 DEF Live
  <2> QED BY <2>1, <2>2 DEF OfNow
<1>9. key.inputs # {}
  BY <1>3, <1>5 DEF JobGood, StampedBy
<1>10. Ordered(n, history[n]) /\ Meant(n, history[n])
  BY DEF Stocked, Shelf
<1>11. Sound(n, Filed(n, outcome))
  <2> DEFINE shown == outcome = "shown"
             cacheOnly == ~ServesNow(n, outcome)
  <2>1. shown \in BOOLEAN /\ cacheOnly \in BOOLEAN
    OBVIOUS
  <2>2. \/ Filed(n, outcome) = Published(n, job.stamp, key, shown, cacheOnly)
        \/ Filed(n, outcome) = Cleared(n, job.stamp)
        \/ Filed(n, outcome) = history[n]
    BY <1>1, <1>2 DEF Filed
  <2> HIDE DEF shown, cacheOnly
  <2>3. key.inputs # {} \/ (~shown /\ ~cacheOnly)
    BY <1>9
  <2>4. Sound(n, Published(n, job.stamp, key, shown, cacheOnly))
    BY <1>3, <1>6, <1>7, <1>8, <1>10, <2>1, <2>3, PublishedSound DEF Typed
  <2>5. Sound(n, Cleared(n, job.stamp))
    BY <1>6, <1>7, <1>10, ClearedSound DEF Typed
  <2>6. Sound(n, history[n])
    BY <1>10, SameSound DEF Typed
  <2> QED BY <2>2, <2>4, <2>5, <2>6
<1> QED BY <1>1, <1>3, <1>4, <1>5, <1>11

LEMMA IdleSupersede ==
  ASSUME TypeOK, Idle
  PROVE  /\ \A c \in Members(agenda) : c.call = "supersede" => c \in Members(agenda')
         /\ \A m : ~To("supersede", m)
BY RestFacts DEF To

(* The end of a run whose result is not taken. *)
LEMMA StockedNotTaken ==
  Typed /\ Stocked /\ (FinishOrphan \/ \E n \in Nodes : FinishDropped(n)) => Stocked' /\ Calm
<1> SUFFICES ASSUME Typed, Stocked, FinishOrphan \/ \E n \in Nodes : FinishDropped(n) PROVE Stocked' /\ Calm
  OBVIOUS
<1>1. CASE FinishOrphan
  <2>1. /\ Idle /\ TypeOK' /\ graph' = graph /\ epoch' = epoch /\ held' = held /\ slot' = slot /\ history' = history
    BY <1>1, OrphanFacts
  <2>2. \A m \in Nodes : slot'[m].running = slot[m].running /\ history'[m] = history[m]
    BY <2>1
  <2>3. \A c \in Members(agenda) : c.call = "supersede" => c \in Members(agenda')
    BY <2>1, IdleSupersede DEF Typed
  <2> QED BY <2>1, <2>2, <2>3, StockedSame
<1>2. ASSUME NEW n \in Nodes, FinishDropped(n) PROVE Stocked' /\ Calm
  <2>1. /\ Idle /\ TypeOK' /\ graph' = graph /\ epoch' = epoch /\ held' = held /\ history' = history
        /\ \A m \in Nodes \ {n} : slot'[m] = slot[m]
        /\ slot'[n].running = NoRun
    BY <1>2, DroppedRunFacts
  <2>2. ASSUME NEW m \in Nodes, Live(m)' PROVE slot'[m].running = slot[m].running
    BY <2>1, <2>2 DEF Live
  <2>3. \A c \in Members(agenda) : c.call = "supersede" => c \in Members(agenda')
    BY <2>1, IdleSupersede DEF Typed
  <2>4. \A m \in Nodes : history'[m] = history[m]
    BY <2>1
  <2> QED BY <2>1, <2>2, <2>3, <2>4, StockedSame
<1> QED BY <1>1, <1>2

LEMMA StockedFinish == Typed /\ Finish /\ Stocked => Stocked'
<1> SUFFICES ASSUME Typed, Finish, Stocked PROVE Stocked'
  OBVIOUS
<1>3. ASSUME NEW n \in Nodes, NEW outcome, FinishRun(n, outcome) PROVE Stocked'
  <2>1. /\ Idle /\ TypeOK' /\ graph' = graph /\ epoch' = epoch /\ held' = held
        /\ history'[n] = Filed(n, outcome) /\ \A m \in Nodes \ {n} : history'[m] = history[m]
        /\ \A m \in Nodes \ {n} : slot'[m] = slot[m]
        /\ slot'[n].running = NoRun
    <3>1. history'[n] = Filed(n, outcome)
      BY <1>3, FinishFacts, Zenon
    <3> QED BY <1>3, <3>1, FinishFacts
  <2>2. ~(held > 0) /\ Sound(n, history'[n])
    BY <1>3, <2>1, FinishShelf
  <2>3. ASSUME NEW m \in Nodes PROVE Stays(m)
    <3>1. CASE m = n
      BY <2>2, <3>1 DEF Stays
    <3>2. CASE m # n
      BY <2>1, <3>2, StaysSame
    <3> QED BY <3>1, <3>2
  <2>4. ASSUME NEW m \in Nodes, Live(m)' PROVE LiveStays(m)
    <3>1. m # n
      BY <2>1, <2>4 DEF Live
    <3>2. slot'[m].running = slot[m].running
      BY <2>1, <3>1
    <3> QED BY <2>1, <2>4, <3>2, LiveKept, IdleSupersede DEF Typed
  <2> QED BY <2>1, <2>3, <2>4, StockedKept
<1> QED BY <1>3, StockedNotTaken DEF Finish

LEMMA StockedEvents ==
  Typed /\ Stocked /\
    (\/ PostedDrain \/ Replace \/ Arrive \/ Retire
     \/ \E n \in Nodes : WithdrawEvent(n) \/ \E t \in Times : RequestEvent(n, t)) => Stocked' /\ Calm
<1> SUFFICES ASSUME Typed, Stocked,
      (\/ PostedDrain \/ Replace \/ Arrive \/ Retire
       \/ \E n \in Nodes : WithdrawEvent(n) \/ \E t \in Times : RequestEvent(n, t))
             PROVE  Stocked' /\ Calm
  OBVIOUS
<1>1. /\ Idle /\ TypeOK' /\ graph' = graph /\ epoch' = epoch /\ held' = held /\ slot' = slot /\ history' = history
  <2>1. CASE PostedDrain
    BY <2>1, PostedFacts
  <2>2. CASE Replace
    BY <2>2, ReplaceFacts
  <2>3. CASE Arrive
    BY <2>3, ArriveFacts
  <2>4. CASE Retire
    BY <2>4, RetireFacts
  <2>5. ASSUME NEW n \in Nodes, WithdrawEvent(n)
        PROVE  Idle /\ TypeOK' /\ graph' = graph /\ epoch' = epoch /\ held' = held /\ slot' = slot /\ history' = history
    BY <2>5, WithdrawEventFacts
  <2>6. ASSUME NEW n \in Nodes, NEW t \in Times, RequestEvent(n, t)
        PROVE  Idle /\ TypeOK' /\ graph' = graph /\ epoch' = epoch /\ held' = held /\ slot' = slot /\ history' = history
    BY <2>6, RequestEventFacts
  <2> QED BY <2>1, <2>2, <2>3, <2>4, <2>5, <2>6
<1>2. \A m \in Nodes : slot'[m].running = slot[m].running /\ history'[m] = history[m]
  BY <1>1
<1>3. \A c \in Members(agenda) : c.call = "supersede" => c \in Members(agenda')
  BY <1>1, IdleSupersede DEF Typed
<1> QED BY <1>1, <1>2, <1>3, StockedSame

LEMMA EmptySound ==
  ASSUME NEW n, NEW h, h.ring = {}, h.late = {}
  PROVE  Ordered(n, h) /\ Meant(n, h) /\ Meant(n, h)'
BY DEF Ordered, Meant

LEMMA StockedSuspend == Typed /\ Stocked /\ Suspend => Stocked'
<1> SUFFICES ASSUME Typed, Stocked, Suspend PROVE Stocked'
  OBVIOUS
<1>1. /\ \A m \in Nodes : history'[m] = Dropped(history[m])
      /\ \A m \in Nodes : slot'[m].running # NoRun => slot'[m].running.cancelled
  BY SuspendFacts
<1>2. ASSUME NEW m \in Nodes PROVE history'[m].ring = {} /\ history'[m].late = {}
  <2>1. history[m] \in Histories
    BY DEF Typed, TypeOK
  <2> QED BY <1>1, <2>1, DroppedFacts
<1>3. \A m \in Nodes : ~Live(m)'
  BY <1>1 DEF Live
<1>4. ASSUME NEW m \in Nodes PROVE Ordered(m, history[m])' /\ Meant(m, history[m])'
  BY <1>2 DEF Ordered, Meant
<1> QED BY <1>2, <1>3, <1>4 DEF Stocked, Shelf, JobsSound, Under

LEMMA StockedResume == Typed /\ Stocked /\ Resume => Stocked'
<1> SUFFICES ASSUME Typed, Stocked, Resume PROVE Stocked'
  OBVIOUS
<1>1. /\ Idle /\ held > 0 /\ graph' = graph /\ epoch' = epoch /\ slot' = slot /\ history' = history
  BY ResumeFacts
<1>2. \A m \in Nodes : history'[m].ring = {} /\ history'[m].late = {} /\ ~Live(m)
  BY <1>1 DEF Stocked, Under
<1>3. revision' = revision
  BY <1>1 DEF revision
<1>4. \A m \in Nodes : ~Live(m)'
  <2>1. \A m \in Nodes : ~To("supersede", m)
    BY <1>1, IdleSupersede DEF Typed
  <2> QED BY <1>1, <1>2, <1>3, <2>1 DEF Live
<1>5. ASSUME NEW m \in Nodes PROVE Ordered(m, history[m])' /\ Meant(m, history[m])'
  BY <1>2 DEF Ordered, Meant
<1> QED BY <1>2, <1>4, <1>5 DEF Stocked, Shelf, JobsSound, Under

(* Where a meaning changed, what stays read none of the changed nodes. *)
LEMMA StockedChanged ==
  ASSUME Typed, TypeOK', Stocked, Idle, epoch' = epoch, held' = held, NEW n \in Nodes,
         \A m \in Nodes \ {n} : revision'[m] = revision[m],
         \A m \in Nodes : \/ history'[m].ring = {} /\ history'[m].late = {} /\ history'[m].uids >= history[m].uids
                          \/ m = n /\ history'[m].ring = {} /\ history'[m].late = {}
                          \/ m # n /\ history'[m] = history[m] /\ (revision'[n] = 0 \/ n \notin UpstreamsOf(m)),
         \A m \in Nodes : Live(m)' => /\ m # n /\ slot'[m].running = slot[m].running
                                      /\ n \notin UpstreamsOf(m)
  PROVE  Stocked'
<1>1. Shelf'
  <2>1. ASSUME NEW m \in Nodes PROVE Ordered(m, history[m])' /\ Meant(m, history[m])'
    <3>1. CASE history'[m].ring = {} /\ history'[m].late = {}
      BY <3>1 DEF Ordered, Meant
    <3>2. CASE m # n /\ history'[m] = history[m] /\ (revision'[n] = 0 \/ n \notin UpstreamsOf(m))
      <4>1. Ordered(m, history[m]) /\ Meant(m, history[m])
        BY DEF Stocked, Shelf
      <4>2. Ordered(m, history[m])'
        BY <3>2, <4>1 DEF Ordered
      <4>3. revision'[m] = revision[m] /\ \A u \in Nodes : u \in UpstreamsOf(m) => revision'[u] = revision[u] \/ revision'[u] = 0
        BY <3>2
      <4>4. ASSUME NEW key, OfNow(m, key) PROVE OfNow(m, key)'
        <5>1. key.revision = revision'[m] /\ key.epoch = epoch'
          BY <4>3, <4>4 DEF OfNow
        <5>2. \A input \in key.inputs : input[1] \in Nodes =>
                input[1] \in UpstreamsOf(m) /\ revision'[input[1]] \in {input[2][1], 0}
          <6> SUFFICES ASSUME NEW input \in key.inputs, input[1] \in Nodes
                       PROVE  input[1] \in UpstreamsOf(m) /\ revision'[input[1]] \in {input[2][1], 0}
            OBVIOUS
          <6>1. input[1] \in UpstreamsOf(m) /\ revision[input[1]] \in {input[2][1], 0}
            BY <4>4 DEF OfNow
          <6>2. revision'[input[1]] = revision[input[1]] \/ revision'[input[1]] = 0
            BY <4>3, <6>1
          <6> QED BY <6>1, <6>2
        <5> QED BY <5>1, <5>2 DEF OfNow
      <4>5. Meant(m, history[m])'
        <5>1. /\ \A e \in history'[m].ring : e.uid[1] = revision'[m] /\ OfNow(m, e.key)'
              /\ \A r \in history'[m].late : OfNow(m, r.key)'
          BY <3>2, <4>1, <4>3, <4>4 DEF Meant
        <5> QED BY <5>1 DEF Meant, OfNow
      <4> QED BY <4>2, <4>5
    <3> QED BY <3>1, <3>2
  <2> QED BY <2>1 DEF Shelf
<1>2. ASSUME NEW m \in Nodes, Live(m)' PROVE Live(m)
  <2>1. ~To("supersede", m)
    BY IdleSupersede DEF Typed
  <2>2. slot'[m].running = slot[m].running /\ revision'[m] = revision[m]
    BY <1>2
  <2> QED BY <1>2, <2>1, <2>2 DEF Live
<1>3. JobsSound'
  <2>1. ASSUME NEW m \in Nodes, Live(m)' PROVE JobGood(m, slot[m].running)'
    <3>1. PICK job : job = slot[m].running /\ job = slot'[m].running
      BY <2>1
    <3>2. job \in Jobs
      <4>1. job \in Jobs \cup {NoRun} /\ job # NoRun
        BY <2>1, <3>1, SlotFields DEF Live, TypeOK
      <4> QED BY <4>1
    <3>3. JobGood(m, job)
      BY <1>2, <2>1, <3>1 DEF Stocked, JobsSound
    <3>4. ASSUME NEW u \in UpstreamsOf(m) PROVE revision'[u] = revision[u] /\ Follows(u, history'[u])
      <4>1. u \in Nodes /\ u # n
        BY <2>1, UpstreamNodes
      <4>2. history[u].uids \in Nat /\ history'[u].uids \in Nat
        BY <4>1, HistoryTypes DEF Typed, TypeOK
      <4>3. Follows(u, history'[u])
        BY <4>1, <4>2 DEF Follows
      <4> QED BY <4>1, <4>3
    <3>5. JobGood(m, job)'
      BY <3>2, <3>3, <3>4, JobKept DEF Typed
    <3> QED BY <3>1, <3>5 DEF JobGood, StampedBy
  <2> QED BY <2>1 DEF JobsSound
<1>4. Under'
  <2>1. ASSUME held' > 0, NEW m \in Nodes PROVE history'[m].ring = {} /\ history'[m].late = {} /\ ~Live(m)'
    <3>1. history[m].ring = {} /\ history[m].late = {} /\ ~Live(m)
      BY <2>1 DEF Stocked, Under
    <3> QED BY <1>2, <3>1
  <2> QED BY <2>1 DEF Under
<1> QED BY <1>1, <1>3, <1>4 DEF Stocked

LEMMA StockedInstall ==
  ASSUME Typed, Stocked, NEW n \in Nodes, Install(n)
  PROVE  Stocked'
<1> DEFINE D == {n} \cup Members(DependentsOf(n))
<1>1. /\ Idle /\ TypeOK' /\ \A m \in Nodes \ {n} : revision'[m] = revision[m]
      /\ \A m \in D : m \in Nodes /\ history'[m] = Dropped(history[m])
      /\ \A m \in Nodes \ D : history'[m] = history[m]
      /\ Members(agenda') = {Supersede(m) : m \in D}
      /\ epoch' = epoch /\ held' = held /\ slot' = slot
  BY InstallFacts
<1>2. \A m \in Nodes : revision[m] > 0 /\ n \in UpstreamsOf(m) => m \in D
  BY DependentsFacts
<1>3. \A m \in D : To("supersede", m)'
  <2> SUFFICES ASSUME NEW m \in D PROVE To("supersede", m)'
    OBVIOUS
  <2>1. Supersede(m) \in Members(agenda')
    BY <1>1
  <2>2. Supersede(m).call = "supersede" /\ Supersede(m).node = m
    BY CallNames
  <2> QED BY <2>1, <2>2 DEF To
<1>4. n \in D
  OBVIOUS
<1> HIDE DEF D
<1>5. \A m \in Nodes : revision[m] \in Nat
  BY DEF Typed, TypeOK, revision
<1>6. ASSUME NEW m \in Nodes
      PROVE  \/ history'[m].ring = {} /\ history'[m].late = {} /\ history'[m].uids >= history[m].uids
             \/ m # n /\ history'[m] = history[m] /\ n \notin UpstreamsOf(m)
  <2>1. CASE m \in D
    <3>1. history[m] \in Histories /\ history[m].uids \in Nat
      BY HistoryTypes DEF Typed, TypeOK
    <3>2. history'[m].ring = {} /\ history'[m].late = {} /\ history'[m].uids = history[m].uids
      BY <1>1, <2>1, <3>1, DroppedFacts
    <3> QED BY <3>1, <3>2
  <2>2. CASE m \notin D /\ revision[m] = 0
    <3>1. history'[m] = history[m] /\ history[m].ring = {} /\ history[m].late = {} /\ history[m].uids \in Nat
      BY <1>1, <2>2, HistoryTypes DEF Typed, TypeOK, Known
    <3> QED BY <3>1
  <2>3. CASE m \notin D /\ revision[m] # 0
    BY <1>1, <1>2, <1>4, <1>5, <2>3
  <2> QED BY <2>1, <2>2, <2>3
<1>7. ASSUME NEW m \in Nodes, Live(m)'
      PROVE  m # n /\ slot'[m].running = slot[m].running /\ n \notin UpstreamsOf(m)
  <2>1. m \notin D
    BY <1>3, <1>7 DEF Live
  <2>2. slot[m].running # NoRun
    BY <1>1, <1>7 DEF Live
  <2>3. revision[m] # 0
    BY <2>2 DEF Typed, Known, NoSlot
  <2> QED BY <1>1, <1>2, <1>4, <1>5, <2>1, <2>3
<1> QED BY <1>1, <1>6, <1>7, StockedChanged

LEMMA StockedRemove ==
  ASSUME Typed, Stocked, NEW n \in Nodes, Remove(n)
  PROVE  Stocked'
<1> DEFINE D == Members(DependentsOf(n))
<1>1. /\ Idle /\ TypeOK' /\ revision'[n] = 0 /\ \A m \in Nodes \ {n} : revision'[m] = revision[m]
      /\ slot'[n] = NoSlot /\ \A m \in Nodes \ {n} : slot'[m] = slot[m]
      /\ history'[n] = NoHistory /\ \A m \in Nodes \ {n} : history'[m] = history[m]
      /\ Members(agenda') = {Supersede(m) : m \in D}
      /\ epoch' = epoch /\ held' = held
  BY RemoveFacts
<1>2. \A m \in Nodes : revision[m] > 0 /\ n \in UpstreamsOf(m) => m \in D
  BY DependentsFacts
<1>3. \A m \in D : To("supersede", m)'
  <2> SUFFICES ASSUME NEW m \in D PROVE To("supersede", m)'
    OBVIOUS
  <2>1. Supersede(m) \in Members(agenda')
    BY <1>1
  <2>2. Supersede(m).call = "supersede" /\ Supersede(m).node = m
    BY CallNames
  <2> QED BY <2>1, <2>2 DEF To
<1> HIDE DEF D
<1>5. \A m \in Nodes : revision[m] \in Nat
  BY DEF Typed, TypeOK, revision
<1>6. ASSUME NEW m \in Nodes
      PROVE  \/ m = n /\ history'[m].ring = {} /\ history'[m].late = {}
             \/ m # n /\ history'[m] = history[m] /\ revision'[n] = 0
  BY <1>1 DEF NoHistory
<1>7. ASSUME NEW m \in Nodes, Live(m)'
      PROVE  m # n /\ slot'[m].running = slot[m].running /\ n \notin UpstreamsOf(m)
  <2>1. m \notin D
    BY <1>3, <1>7 DEF Live
  <2>2. m # n
    BY <1>1, <1>7 DEF Live, NoSlot
  <2>3. slot'[m] = slot[m] /\ slot[m].running # NoRun
    BY <1>1, <1>7, <2>2 DEF Live
  <2>4. revision[m] # 0
    BY <2>3 DEF Typed, Known, NoSlot
  <2> QED BY <1>2, <1>5, <2>1, <2>2, <2>3, <2>4
<1> QED BY <1>1, <1>6, <1>7, StockedChanged

LEMMA StockedInit == Init => Stocked
<1> SUFFICES ASSUME Init PROVE Stocked
  OBVIOUS
<1>1. \A m \in Nodes : slot[m].running = NoRun /\ history[m].ring = {} /\ history[m].late = {}
  BY DEF Init, NoSlot, NoHistory
<1>2. held = 0
  BY DEF Init
<1>3. \A m \in Nodes : Ordered(m, history[m]) /\ Meant(m, history[m])
  BY <1>1 DEF Ordered, Meant
<1>4. \A m \in Nodes : ~Live(m)
  BY <1>1 DEF Live
<1> QED BY <1>2, <1>3, <1>4 DEF Stocked, Shelf, JobsSound, Under

LEMMA StockedStutter == Typed /\ Stocked /\ UNCHANGED vars => Stocked' /\ Calm
<1> SUFFICES ASSUME Typed, Stocked, UNCHANGED vars PROVE Stocked' /\ Calm
  OBVIOUS
<1>1. graph' = graph /\ epoch' = epoch /\ held' = held /\ slot' = slot /\ history' = history /\ agenda' = agenda
  BY DEF vars
<1>2. TypeOK'
  BY TypedStutter DEF Typed
<1>3. \A m \in Nodes : slot'[m].running = slot[m].running /\ history'[m] = history[m]
  BY <1>1
<1>4. \A c \in Members(agenda) : c \in Members(agenda')
  BY <1>1
<1> QED BY <1>1, <1>2, <1>3, <1>4, StockedSame

LEMMA StockedStep == Typed /\ Stocked /\ [Next]_vars => Stocked'
<1> SUFFICES ASSUME Typed, Stocked, [Next]_vars PROVE Stocked'
  OBVIOUS
<1>1. CASE CallStep
  <2>1. CASE BindNext \/ RegisterReader \/ ServeOneReader \/ WithdrawNode \/ ReturnRoom \/ DrainBegins \/ Grant
    BY <2>1, StockedCalls
  <2> QED BY <1>1, <2>1, StockedServe, StockedRequest, StockedSettle, StockedSupersede DEF CallStep
<1>2. CASE PostedDrain
  BY <1>2, StockedEvents
<1>3. CASE Finish
  BY <1>3, StockedFinish
<1>4. CASE Environment
  <2>1. CASE Suspend
    BY <2>1, StockedSuspend
  <2>2. CASE Resume
    BY <2>2, StockedResume
  <2>3. CASE Replace \/ Arrive \/ Retire
    BY <2>3, StockedEvents
  <2>4. ASSUME NEW n \in Nodes, Install(n) PROVE Stocked'
    BY <2>4, StockedInstall
  <2>5. ASSUME NEW n \in Nodes, Remove(n) PROVE Stocked'
    BY <2>5, StockedRemove
  <2>6. ASSUME NEW n \in Nodes, WithdrawEvent(n) PROVE Stocked'
    BY <2>6, StockedEvents
  <2>7. ASSUME NEW n \in Nodes, NEW t \in Times, RequestEvent(n, t) PROVE Stocked'
    BY <2>7, StockedEvents
  <2> QED BY <1>4, <2>1, <2>2, <2>3, <2>4, <2>5, <2>6, <2>7 DEF Environment
<1>5. CASE UNCHANGED vars
  BY <1>5, StockedStutter
<1> QED BY <1>1, <1>2, <1>3, <1>4, <1>5 DEF Next

(* NodeScheduler, ResultHistory: each result kept was computed under the    *)
(* node's revision, the epoch and the upstreams' revisions of now, whatever *)
(* runs finish late.                                                        *)
LEMMA StockedIsNotForeign == Typed /\ Stocked => NoForeignResult
<1> SUFFICES ASSUME Typed, Stocked, NEW n \in Nodes, NEW r \in history[n].ring \cup history[n].late
             PROVE  /\ r.key.revision = revision[n] /\ r.key.epoch = epoch
                    /\ \A input \in r.key.inputs : input[1] \in Nodes => revision[input[1]] \in {input[2][1], 0}
  BY DEF NoForeignResult
<1>1. OfNow(n, r.key)
  BY DEF Stocked, Shelf, Meant
<1> QED BY <1>1 DEF OfNow

-----------------------------------------------------------------------------
(* What a run was staged from is staged still when it settles: Settling. *)

(* The staging of n reads the topic, n's cursor and its upstreams' rings. *)
LEMMA StagedSame ==
  ASSUME NEW n \in Nodes, data' = data, graph' = graph, epoch' = epoch, slot'[n].cursor = slot[n].cursor,
         \A u \in UpstreamsOf(n) : history'[u] = history[u]
  PROVE  Staged(n)' = Staged(n)
<1> DEFINE Available(h, t) == {r \in ShownAt(h, t) : r.available}
           From(u, h, t) == {<<u, e.uid, e.stamp>> : e \in Available(h, t)}
           t == slot[n].cursor
           raw == {<<Topic, s, s>> : s \in IF n \in RawNodes /\ Entries(t) # {} THEN {Newest(Entries(t))} ELSE {}}
           read == UNION {From(u, history[u], t) : u \in UpstreamsOf(n)}
           Made(a, b, r) == [ok |-> /\ n \in RawNodes => a # {}
                                 /\ \A u \in UpstreamsOf(n) : \E input \in b : input[1] = u,
                             key |-> [revision |-> r[n], epoch |-> epoch, inputs |-> {<<input[1], input[2]>> : input \in a \cup b}, clock |-> NoTime],
                             stamp |-> Newest({0} \cup {input[3] : input \in a \cup b})]
<1>1. raw' = raw
  BY DEF Entries
<1>2. read' = read
  <2>1. \A u \in UpstreamsOf(n) : From(u, history'[u], t') = From(u, history[u], t)
    BY DEF t
  <2>2. read' = UNION {From(u, history'[u], t') : u \in UpstreamsOf(n)}
    BY DEF ShownAt
  <2> HIDE DEF From, t
  <2> QED BY <2>1, <2>2
<1>3. revision' = revision
  BY DEF revision
<1>4. Staged(n) = Made(raw, read, revision)
  BY DEF Staged, Key
<1>5. Staged(n)' = Made(raw', read', revision')
  BY DEF Staged, Key, ShownAt, Entries
<1> HIDE DEF raw, read, Made
<1> QED BY <1>1, <1>2, <1>3, <1>4, <1>5

(* What a run was staged from, if it is what n is staged from now, stamps it alike. *)
LEMMA StampsAgree ==
  ASSUME Typed, Shelf, NEW n \in Nodes, slot[n].cursor \in Times, Staged(n).ok, NEW stamp \in Nat,
         StampedBy(Staged(n).key.inputs, stamp)
  PROVE  stamp = Staged(n).stamp
<1> DEFINE inputs == Staged(n).key.inputs
           now == Staged(n).stamp
<1>1. /\ inputs = {<<input[1], input[2]>> : input \in Taken(n)}
      /\ now \in Nat
      /\ \A input \in Taken(n) : input[3] \in Nat /\ input[3] <= now
      /\ now = 0 \/ \E input \in Taken(n) : input[3] = now
  BY StagedTypes DEF Typed
<1>2. Topic \notin Nodes
  BY ConstantFacts
<1>3. StampedBy(inputs, stamp)
  OBVIOUS
<1> HIDE DEF inputs, now
<1>4. ASSUME NEW input \in Taken(n), NEW x \in inputs, x[1] = input[1], x[2] = input[2]
      PROVE  /\ input[3] \in Nat
             /\ \/ x[1] = Topic /\ x[2] = input[3]
                \/ x[1] \in Nodes /\ \E e \in history[x[1]].ring : e.uid = x[2] /\ e.stamp = input[3]
  BY <1>1, <1>2, <1>4, TakenKinds
<1>5. stamp <= now
  <2>1. PICK x \in inputs :
       /\ x[1] = Topic => x[2] = stamp
       /\ x[1] \in Nodes => \A e \in history[x[1]].ring : e.uid = x[2] => e.stamp = stamp
    BY <1>3 DEF StampedBy
  <2>2. PICK input \in Taken(n) : x = <<input[1], input[2]>>
    BY <1>1
  <2>3. x[1] = input[1] /\ x[2] = input[2]
    BY <2>2
  <2>4. input[3] = stamp
    BY <1>4, <2>1, <2>3
  <2> QED BY <1>1, <2>4
<1>6. now <= stamp
  <2>1. CASE now = 0
    BY <2>1
  <2>2. CASE \E input \in Taken(n) : input[3] = now
    <3>1. PICK input \in Taken(n) : input[3] = now
      BY <2>2
    <3>2. <<input[1], input[2]>> \in inputs
      BY <1>1
    <3>3. PICK x \in inputs : x[1] = input[1] /\ x[2] = input[2]
      BY <3>2
    <3>4. /\ x[1] = Topic => x[2] <= stamp
          /\ x[1] \in Nodes => \A e \in history[x[1]].ring : e.uid = x[2] => e.stamp <= stamp
      BY <1>3 DEF StampedBy
    <3> QED BY <1>4, <3>1, <3>3, <3>4
  <2> QED BY <1>1, <2>1, <2>2
<1>7. now \in Nat
  BY <1>1
<1>8. stamp = now
  BY <1>5, <1>6, <1>7
<1> QED BY <1>8 DEF now

(* A result taken into the ring is there, at its place. *)
LEMMA PublishedHas ==
  ASSUME NEW n \in Nodes, history[n] \in Histories, NEW stamp, NEW key, NEW available, NEW cacheOnly, ~cacheOnly
  PROVE  \E e \in Published(n, stamp, key, available, cacheOnly).ring : e.at = At(n, stamp) /\ e.key = key
<1> DEFINE h == Published(n, stamp, key, available, cacheOnly)
           same == {e \in history[n].ring : e.at = At(n, stamp)}
           entry == [at |-> At(n, stamp), stamp |-> stamp, key |-> key, available |-> available,
                     uid |-> <<revision[n], history[n].uids + 1>>]
<1>1. \/ h.ring = history[n].ring /\ \E e \in same : e.key = key
      \/ h.ring = (history[n].ring \ same) \cup {entry}
  BY PublishedShape
<1>2. entry.at = At(n, stamp) /\ entry.key = key
  OBVIOUS
<1>3. \A e \in same : e \in history[n].ring /\ e.at = At(n, stamp)
  OBVIOUS
<1> HIDE DEF h, same, entry
<1> QED BY <1>1, <1>2, <1>3 DEF h

(* A result of the ring for the node's request: the tombstones after it *)
(* superseded, a result is shown at the cursor, that one or a newer.    *)
LEMMA ShownAfter ==
  ASSUME Typed, NEW n \in Nodes, slot[n].cursor \in Times, NEW h \in Histories, Ordered(n, h),
         NEW stamp \in Nat, stamp <= slot[n].cursor, NEW e \in h.ring, e.at = At(n, stamp), IsResult(e)
  PROVE  \E f \in ShownAt(TombstonesSuperseded(n, h, stamp), slot[n].cursor) :
            IsResult(f) /\ f \in h.ring /\ f.at >= e.at
<1> DEFINE s == TombstonesSuperseded(n, h, stamp)
           t == slot[n].cursor
<1>1. t \in Nat
  BY ConstantFacts
<1>2. \A f \in h.ring : f.at \in Nat /\ f.stamp \in Nat
  BY HistoryTypes
<1>3. s.ring \subseteq h.ring
      /\ (PinnedAt[n] # NoTime => s.ring = h.ring)
      /\ (PinnedAt[n] = NoTime => s.ring = {f \in h.ring : ~(stamp < f.at /\ f.at <= t /\ f.key.inputs = {})})
  BY SupersededShape
<1>4. ShownAt(s, t) = {f \in s.ring : /\ f.at <= t /\ f.stamp <= t
                                      /\ \A other \in s.ring : other.at <= t => other.at <= f.at}
  BY DEF ShownAt
<1>5. CASE PinnedAt[n] # NoTime
  <2>1. t = PinnedAt[n]
    BY <1>5, ConstantFacts DEF Typed, Known
  <2>2. \A f \in h.ring : f.at = 0 /\ f.stamp <= t
    BY <1>2, <1>5, <2>1, AtFacts DEF Ordered
  <2> HIDE DEF s, t
  <2>3. e \in ShownAt(s, t)
    BY <1>1, <1>3, <1>4, <1>5, <2>2
  <2> QED BY <1>2, <2>3 DEF s, t
<1>6. CASE PinnedAt[n] = NoTime
  <2>1. e.at = stamp /\ \A f \in h.ring : f.at = f.stamp
    BY <1>2, <1>6, AtFacts DEF Ordered
  <2> DEFINE T == {f.at : f \in {g \in s.ring : g.at <= t}}
  <2> HIDE DEF s, t
  <2>2. e \in s.ring /\ e.at <= t
    BY <1>3, <1>6, <2>1 DEF t
  <2>3. T \subseteq 0 .. t /\ T # {}
    BY <1>1, <1>2, <1>3, <2>2
  <2>4. Newest(T) \in T /\ \A x \in T : x <= Newest(T)
    BY <1>1, <2>3, Greatest
  <2>5. PICK f \in s.ring : f.at <= t /\ f.at = Newest(T)
    BY <2>4
  <2>6. \A other \in s.ring : other.at <= t => other.at <= f.at
    BY <2>4, <2>5
  <2> HIDE DEF T
  <2>7. f \in h.ring /\ f.at >= e.at /\ f.stamp <= t
    BY <1>2, <1>3, <2>1, <2>2, <2>5, <2>6
  <2>8. IsResult(f)
    <3>1. CASE f.at = e.at
      BY <2>7, <3>1 DEF Ordered
    <3>2. CASE f.at # e.at
      <4>1. stamp < f.at
        BY <1>2, <2>1, <2>7, <3>2
      <4> QED BY <1>3, <1>6, <2>5, <4>1 DEF IsResult
    <3> QED BY <3>1, <3>2
  <2>9. f \in ShownAt(s, t)
    BY <1>4, <2>5, <2>6, <2>7
  <2> QED BY <2>7, <2>8, <2>9 DEF s, t
<1> QED BY <1>5, <1>6

(* A hit shows, or finds shown, a result that serves the request. *)
LEMMA HitHas ==
  ASSUME Typed, Shelf, NEW n \in Nodes, slot[n].cursor \in Times, Staged(n).ok, NEW g, Hit(n, g)
  PROVE  /\ g \in Histories /\ Ordered(n, g)
         /\ Staged(n).stamp \in Nat /\ Staged(n).stamp <= slot[n].cursor
         /\ \E e \in g.ring : /\ e.at = At(n, Staged(n).stamp) /\ IsResult(e)
                              /\ Serves(e.key, Staged(n).key, slot[n].cursor)
<1> DEFINE stamp == Staged(n).stamp
           request == Staged(n).key
<1>1. stamp \in Nat /\ stamp <= slot[n].cursor
  BY StagedTypes DEF Typed
<1>2. request.inputs # {}
  <2> DEFINE job == [key |-> Staged(n).key, stamp |-> Staged(n).stamp, t |-> slot[n].cursor]
  <2>1. job.key = Staged(n).key /\ job.stamp = Staged(n).stamp /\ job.t = slot[n].cursor
    OBVIOUS
  <2> HIDE DEF job
  <2> QED BY <2>1, StagedGood
<1>3. history[n] \in Histories /\ Ordered(n, history[n]) /\ Meant(n, history[n])
  BY DEF Shelf, Typed, TypeOK
<1>4. CASE g = history[n] /\ RingHits(n) # {}
  <2>1. PICK e \in history[n].ring : e.at = At(n, stamp) /\ Serves(e.key, request, slot[n].cursor)
    BY <1>4 DEF RingHits
  <2>2. IsResult(e)
    BY <1>2, <2>1 DEF Serves, IsResult
  <2> QED BY <1>1, <1>3, <1>4, <2>1, <2>2
<1>5. CASE \E r \in CacheHits(n) : g = Published(n, stamp, r.key, r.available, FALSE)
  <2> DEFINE no == FALSE
  <2>1. PICK r \in CacheHits(n) : g = Published(n, stamp, r.key, r.available, no)
    BY <1>5
  <2>2. no \in BOOLEAN /\ ~no
    OBVIOUS
  <2> HIDE DEF no, stamp
  <2>3. r \in history[n].late /\ Serves(r.key, request, slot[n].cursor)
    BY DEF CacheHits
  <2>4. r.key \in Keys /\ r.available \in BOOLEAN
    BY <1>3, <2>3, HistoryTypes
  <2>5. r.key.inputs # {} /\ OfNow(n, r.key)
    BY <1>3, <2>3 DEF Ordered, Meant, IsResult
  <2>6. g \in Histories
    BY <1>1, <2>1, <2>2, <2>4, PublishedTypes DEF Typed
  <2>7. PinnedAt[n] # NoTime => stamp <= PinnedAt[n]
    BY <1>1, ConstantFacts DEF Typed, Known
  <2>8. Ordered(n, g)
    <3>1. r.key.inputs # {} \/ (~r.available /\ ~no)
      BY <2>5
    <3>2. Sound(n, g)
      BY <1>1, <1>3, <2>1, <2>2, <2>4, <2>5, <2>7, <3>1, PublishedSound DEF Typed
    <3> QED BY <3>2 DEF Sound
  <2>9. \E e \in g.ring : e.at = At(n, stamp) /\ e.key = r.key
    BY <1>3, <2>1, <2>2, PublishedHas
  <2>10. \E e \in g.ring : e.at = At(n, stamp) /\ IsResult(e) /\ Serves(e.key, request, slot[n].cursor)
    BY <2>3, <2>5, <2>9 DEF IsResult
  <2> QED BY <1>1, <2>6, <2>8, <2>10 DEF stamp
<1> QED BY <1>4, <1>5 DEF Hit

-----------------------------------------------------------------------------
(* m comes after n along the edges of the graph, whatever the ranks. *)
Later(m, n) == \A rank : Ranking(rank) => rank[n] < rank[m]
(* A call that leaves n, and what n reads, as they are. *)
Minor(c, n) == c.call \in {"reader", "serve"} /\ (c.call = "serve" => ~c.room) /\ Later(c.node, n)
(* The run's result is in n's ring and is what its request asks for now. *)
Fit(n, stamp) ==
  /\ Staged(n).ok /\ stamp = Staged(n).stamp
  /\ \E e \in history[n].ring : e.at = At(n, stamp) /\ Serves(e.key, Staged(n).key, slot[n].cursor)
Settling ==
  \A i \in 1 .. Len(agenda) : agenda[i].call = "settle" =>
    /\ \A j \in 1 .. i - 1 : Minor(agenda[j], agenda[i].node)
    /\ Fit(agenda[i].node, agenda[i].stamp)

LEMMA NothingSettling ==
  ASSUME \A c \in Members(agenda') : c.call # "settle"
  PROVE  Settling'
BY DEF Settling, Members

(* Once a call other than a minor one is at the head, nothing after it settles. *)
LEMMA NoneAfter ==
  ASSUME TypeOK, ~Idle, Settling, Head(agenda).call \notin {"reader", "serve"} \/ (Head(agenda).call = "serve" /\ Head(agenda).room)
  PROVE  \A c \in Rest : c.call # "settle"
<1> SUFFICES ASSUME NEW j \in 2 .. Len(agenda), agenda[j].call = "settle" PROVE FALSE
  BY DEF Rest
<1>1. agenda \in Seq(Chores) /\ Len(agenda) \in Nat /\ Head(agenda) = agenda[1]
  BY HeadFacts DEF TypeOK
<1>2. 1 \in 1 .. j - 1 /\ j \in 1 .. Len(agenda)
  BY <1>1
<1>3. Minor(agenda[1], agenda[j].node)
  BY <1>2 DEF Settling
<1> QED BY <1>1, <1>3 DEF Minor

(* The steps of minor calls. *)
LEMMA SettlingThen ==
  ASSUME TypeOK, ~Idle, Settling, NEW calls \in Seq(Chores), Then(calls),
         \A n \in Nodes : Minor(Head(agenda), n) => \A c \in Members(calls) : Minor(c, n),
         \A c \in Members(calls) : c.call # "settle",
         \A n \in Nodes, stamp \in Nat : Minor(Head(agenda), n) /\ Fit(n, stamp) => Fit(n, stamp)'
  PROVE  Settling'
<1>1. /\ agenda \in Seq(Chores) /\ Len(agenda) \in Nat /\ Len(agenda) > 0 /\ Head(agenda) = agenda[1]
      /\ Len(calls) \in Nat /\ Len(agenda') = Len(calls) + Len(agenda) - 1
      /\ \A i \in 1 .. Len(calls) : agenda'[i] = calls[i]
      /\ \A i \in 1 .. Len(agenda') : i > Len(calls) => /\ i - Len(calls) + 1 \in 2 .. Len(agenda)
                                                        /\ agenda'[i] = agenda[i - Len(calls) + 1]
  BY ThenFacts DEF TypeOK
<1> SUFFICES ASSUME NEW i \in 1 .. Len(agenda'), agenda'[i].call = "settle"
             PROVE  /\ \A j \in 1 .. i - 1 : Minor(agenda'[j], agenda'[i].node)
                    /\ Fit(agenda[i].node, agenda[i].stamp)'
  BY DEF Settling
<1>2. i > Len(calls)
  <2>1. ~(i \in 1 .. Len(calls))
    BY <1>1 DEF Members
  <2> QED BY <1>1, <2>1
<1>3. PICK k \in 2 .. Len(agenda) : k = i - Len(calls) + 1 /\ agenda'[i] = agenda[k]
  BY <1>1, <1>2
<1>4. /\ \A j \in 1 .. k - 1 : Minor(agenda[j], agenda[k].node)
      /\ Fit(agenda[k].node, agenda[k].stamp)
  BY <1>1, <1>3 DEF Settling
<1>5. agenda[k] \in Chores /\ agenda[k].node \in Nodes /\ agenda[k].stamp \in Nat
  <2>1. agenda[k] \in Chores
    BY <1>1, <1>3
  <2> QED BY <1>3, <2>1, ChoreFacts DEF NodeCalls
<1>6. Minor(Head(agenda), agenda[k].node)
  <2>1. 1 \in 1 .. k - 1
    BY <1>3
  <2> QED BY <1>1, <1>4, <2>1
<1>7. Fit(agenda[i].node, agenda[i].stamp)'
  <2>1. PICK n \in Nodes, stamp \in Nat : n = agenda[k].node /\ stamp = agenda[k].stamp
    BY <1>5
  <2>2. Fit(n, stamp)'
    BY <1>4, <1>6, <2>1
  <2>3. n = agenda'[i].node /\ stamp = agenda'[i].stamp
    BY <1>3, <2>1
  <2> QED BY <2>2, <2>3 DEF Fit
<1>8. ASSUME NEW j \in 1 .. i - 1
      PROVE  Minor(agenda'[j], agenda'[i].node)
  <2>1. CASE j \in 1 .. Len(calls)
    <3>1. agenda'[j] \in Members(calls)
      BY <1>1, <2>1 DEF Members
    <3> QED BY <1>3, <1>5, <1>6, <3>1
  <2>2. CASE j \notin 1 .. Len(calls)
    <3>1. j \in 1 .. Len(agenda') /\ j > Len(calls)
      BY <1>1, <2>2
    <3>2. PICK l : l = j - Len(calls) + 1
      OBVIOUS
    <3>3. l \in 2 .. Len(agenda) /\ agenda'[j] = agenda[l]
      BY <1>1, <3>1, <3>2
    <3>4. l \in 1 .. k - 1
      BY <1>1, <1>3, <3>2, <3>3
    <3> QED BY <1>3, <1>4, <3>3, <3>4
  <2> QED BY <2>1, <2>2
<1> QED BY <1>7, <1>8

LEMMA LaterUpstream ==
  ASSUME NEW n \in Nodes, NEW m \in Nodes, n \in UpstreamsOf(m)
  PROVE  Later(m, n) /\ \A x \in Nodes : Later(n, x) => Later(m, x)
<1>1. ASSUME NEW rank, Ranking(rank) PROVE rank[n] < rank[m]
  BY <1>1 DEF Ranking
<1>2. ASSUME NEW rank, Ranking(rank), NEW x \in Nodes, rank[x] < rank[n] PROVE rank[x] < rank[m]
  <2>1. rank[x] \in Nat /\ rank[n] \in Nat /\ rank[m] \in Nat
    BY <1>2, OrderFacts DEF Ranking
  <2> QED BY <1>1, <1>2, <2>1
<1> QED BY <1>1, <1>2 DEF Later

LEMMA LaterApart ==
  ASSUME NEW n \in Nodes, NEW m \in Nodes, Later(m, n)
  PROVE  m # n /\ m \notin UpstreamsOf(n)
<1>1. PICK rank : Ranking(rank)
  BY Ranked
<1>2. rank[n] < rank[m] /\ rank[n] \in Nat /\ rank[m] \in Nat
  BY <1>1, OrderFacts DEF Later, Ranking
<1>3. m \in UpstreamsOf(n) => rank[m] < rank[n]
  BY <1>1 DEF Ranking
<1> QED BY <1>2, <1>3

LEMMA FitKept ==
  ASSUME NEW n \in Nodes, NEW stamp, Fit(n, stamp), data' = data, graph' = graph, epoch' = epoch,
         slot'[n].cursor = slot[n].cursor, history'[n] = history[n], \A u \in UpstreamsOf(n) : history'[u] = history[u]
  PROVE  Fit(n, stamp)'
<1>1. Staged(n)' = Staged(n)
  BY StagedSame
<1>2. /\ Staged(n).ok /\ stamp = Staged(n).stamp
      /\ \E e \in history[n].ring : e.at = At(n, stamp) /\ Serves(e.key, Staged(n).key, slot[n].cursor)
  BY DEF Fit
<1>3. Staged(n).ok' /\ stamp = Staged(n).stamp'
  BY <1>1, <1>2
<1>4. \E e \in history'[n].ring : e.at = At(n, stamp) /\ Serves(e.key, Staged(n).key', slot'[n].cursor)
  BY <1>1, <1>2
<1> QED BY <1>3, <1>4 DEF Fit

(* A serve, or a reader's turn, leaves what comes before its node. *)
LEMMA FitApart ==
  ASSUME TypeOK, ~Idle, Callee \in Nodes, data' = data, graph' = graph, epoch' = epoch,
         \A m \in Nodes \ {Callee} : slot'[m].cursor = slot[m].cursor /\ history'[m] = history[m],
         NEW n \in Nodes, NEW stamp, Minor(Head(agenda), n), Fit(n, stamp)
  PROVE  Fit(n, stamp)'
<1>0. PICK m : m = Callee
  OBVIOUS
<1>1. Later(m, n) /\ m \in Nodes
  BY <1>0 DEF Minor, Callee
<1>2. m # n /\ m \notin UpstreamsOf(n)
  BY <1>1, LaterApart
<1>3. \A u \in UpstreamsOf(n) : u \in Nodes
  BY UpstreamNodes
<1>4. slot'[n].cursor = slot[n].cursor /\ history'[n] = history[n]
  BY <1>0, <1>2
<1>5. \A u \in UpstreamsOf(n) : history'[u] = history[u]
  BY <1>0, <1>2, <1>3
<1> QED BY <1>4, <1>5, FitKept

LEMMA SettlingReader == Typed /\ ServeOneReader /\ Settling => Settling'
<1> SUFFICES ASSUME Typed, ServeOneReader, Settling PROVE Settling'
  OBVIOUS
<1>0. PICK n : n = Callee
  OBVIOUS
<1>1. /\ Calls("reader") /\ ~Idle /\ n \in Nodes /\ TypeOK
      /\ data' = data /\ graph' = graph /\ epoch' = epoch /\ slot' = slot /\ history' = history
  BY <1>0, OneReaderFacts DEF Typed
<1>2. \A m \in Nodes \ {Callee} : slot'[m].cursor = slot[m].cursor /\ history'[m] = history[m]
  BY <1>1
<1>3. ASSUME NEW m \in Nodes, NEW stamp \in Nat, Minor(Head(agenda), m), Fit(m, stamp) PROVE Fit(m, stamp)'
  BY <1>0, <1>1, <1>2, <1>3, FitApart
<1> DEFINE none == <<>>
           one == <<Serve(n, "retry", FALSE)>>
<1>4. (Then(none) /\ none \in Seq(Chores)) \/ (Then(one) /\ one \in Seq(Chores))
  <2>1. none \in Seq(Chores)
    OBVIOUS
  <2>2. Then(none) \/ (Then(one) /\ one \in Seq(Chores))
    BY <1>0, OneReaderFacts, Zenon
  <2> QED BY <2>1, <2>2
<1>5. Members(none) = {} /\ Members(one) = {Serve(n, "retry", FALSE)}
  BY MembersOf
<1> DEFINE call == Serve(n, "retry", FALSE)
<1>6. call.call = "serve" /\ call.node = n /\ ~call.room
  BY DEF Serve
<1> HIDE DEF call
<1>7. \A m \in Nodes : Minor(Head(agenda), m) => Minor(call, m)
  BY <1>0, <1>6 DEF Minor, Callee
<1>8. Members(one) = {call}
  BY <1>5 DEF call
<1> HIDE DEF none, one
<1>9. CASE Then(none) /\ none \in Seq(Chores)
  BY <1>1, <1>3, <1>5, <1>9, SettlingThen
<1>10. CASE Then(one) /\ one \in Seq(Chores)
  <2>1. \A m \in Nodes : Minor(Head(agenda), m) => \A c \in Members(one) : Minor(c, m)
    BY <1>7, <1>8
  <2>2. \A c \in Members(one) : c.call # "settle"
    BY <1>6, <1>8
  <2> QED BY <1>1, <1>3, <1>10, <2>1, <2>2, SettlingThen
<1> QED BY <1>4, <1>9, <1>10

(* The calls a serve leaves in its place. *)
LEMMA SettlingServed ==
  ASSUME Typed, Registered, Settling, Calls("serve"), Callee \in Nodes, NEW calls \in Seq(Chores), Then(calls),
         \A c \in Members(calls) : c \in Members(Unused) \/ \E m \in Members(slot[Callee].readers) : c = ServeReader(m, TRUE),
         data' = data, graph' = graph, epoch' = epoch,
         \A m \in Nodes \ {Callee} : slot'[m].cursor = slot[m].cursor /\ history'[m] = history[m]
  PROVE  Settling'
<1>0. PICK n : n = Callee
  OBVIOUS
<1>1. TypeOK /\ ~Idle /\ Head(agenda).call = "serve" /\ n \in Nodes
  BY <1>0 DEF Typed, Calls
<1>2. Members(Unused) = IF Room THEN {GiveBack} ELSE {}
  BY <1>1, UnusedMembers
<1>3. \A c \in Members(calls) : c.call # "settle"
  BY <1>2, CallNames
<1>4. CASE Room
  <2>1. \A c \in Rest : c.call # "settle"
    BY <1>1, <1>4, NoneAfter DEF Room
  <2>2. Members(agenda') = Members(calls) \cup Rest
    BY <1>1, ThenMembers DEF TypeOK
  <2> QED BY <1>3, <2>1, <2>2, NothingSettling
<1>5. CASE ~Room
  <2>1. ASSUME NEW x \in Nodes, Minor(Head(agenda), x), NEW c \in Members(calls) PROVE Minor(c, x)
    <3>1. PICK m \in Members(slot[n].readers) : c = ServeReader(m, TRUE)
      BY <1>0, <1>2, <1>5
    <3>2. m \in Nodes /\ n \in UpstreamsOf(m)
      BY <1>1, <3>1 DEF Registered, Downstream
    <3>3. Later(n, x)
      BY <1>0, <2>1 DEF Minor, Callee
    <3>4. Later(m, x)
      BY <1>1, <3>2, <3>3, LaterUpstream
    <3>5. c.call = "reader" /\ c.node = m
      BY <3>1, CallNames
    <3> QED BY <3>4, <3>5 DEF Minor
  <2>2. ASSUME NEW m \in Nodes, NEW stamp \in Nat, Minor(Head(agenda), m), Fit(m, stamp) PROVE Fit(m, stamp)'
    BY <1>1, <2>2, FitApart
  <2> QED BY <1>1, <1>3, <2>1, <2>2, SettlingThen
<1> QED BY <1>4, <1>5

LEMMA SettlingServe == Typed /\ Registered /\ ServeStep /\ Settling => Settling'
<1> SUFFICES ASSUME Typed, Registered, ServeStep, Settling PROVE Settling'
  OBVIOUS
<1>0. PICK n : n = Callee
  OBVIOUS
<1>1. Calls("serve") /\ n \in Nodes /\ ~Idle
  BY <1>0, ServeWays
<1>2. Unused \in Seq(Chores)
  BY <1>1, UnusedFacts DEF Typed
<1>3. CASE ServeWithdrawn
  <2>1. Then(Unused) /\ data' = data /\ graph' = graph /\ epoch' = epoch /\ slot' = slot /\ history' = history
    BY <1>3, WithdrawnFacts
  <2>2. \A m \in Nodes \ {Callee} : slot'[m].cursor = slot[m].cursor /\ history'[m] = history[m]
    BY <2>1
  <2> QED BY <1>0, <1>1, <1>2, <2>1, <2>2, SettlingServed
<1>4. CASE ServeRun
  <2> DEFINE none == <<>>
  <2>1. /\ Then(none) /\ data' = data /\ graph' = graph /\ epoch' = epoch /\ history' = history
        /\ \A m \in Nodes \ {n} : slot'[m] = slot[m]
    BY <1>0, <1>4, RunFacts
  <2>2. \A m \in Nodes \ {Callee} : slot'[m].cursor = slot[m].cursor /\ history'[m] = history[m]
    BY <1>0, <2>1
  <2>3. none \in Seq(Chores) /\ Members(none) = {}
    BY MembersOf
  <2> HIDE DEF none
  <2> QED BY <1>0, <1>1, <2>1, <2>2, <2>3, SettlingServed
<1>5. CASE \E wait \in Waits, status \in Statuses, h \in Histories :
             Conclude(Callee, wait, status, h, Unused) /\ Way(Callee, status, h)
  <2>1. PICK wait \in Waits, status \in Statuses, h \in Histories : Conclude(n, wait, status, h, Unused)
    BY <1>0, <1>5
  <2> DEFINE told == IF status = "pending" THEN <<>> ELSE ServeReaders(n, TRUE)
             calls == told \o Unused
  <2>2. calls \in Seq(Chores) /\ Then(calls)
    BY <1>1, <1>2, <2>1, ConcludeFacts DEF Typed
  <2>3. data' = data /\ graph' = graph /\ epoch' = epoch /\ \A m \in Nodes \ {n} : slot'[m] = slot[m] /\ history'[m] = history[m]
    BY <1>1, <1>2, <2>1, ConcludeFacts DEF Typed
  <2>4. told \in Seq(Chores) /\ \A c \in Members(told) : \E m \in Members(slot[n].readers) : c = ServeReader(m, TRUE)
    <3>1. CASE status = "pending"
      <4>1. told = <<>>
        BY <3>1
      <4>2. <<>> \in Seq(Chores) /\ Members(<<>>) = {}
        BY MembersOf
      <4> HIDE DEF told
      <4> QED BY <4>1, <4>2
    <3>2. CASE status # "pending"
      <4>1. TRUE \in BOOLEAN
        OBVIOUS
      <4>2. told = ServeReaders(n, TRUE)
        BY <3>2
      <4>3. ServeReaders(n, TRUE) \in Seq(Chores)
            /\ Members(ServeReaders(n, TRUE)) = {ServeReader(m, TRUE) : m \in Members(slot[n].readers)}
        BY <1>1, <4>1, ReadersCalled, Zenon DEF Typed
      <4> QED BY <4>2, <4>3
    <3> QED BY <3>1, <3>2
  <2> HIDE DEF told
  <2>5. Members(calls) = Members(told) \cup Members(Unused)
    BY <1>2, <2>4, ConcatFacts
  <2>6. \A m \in Nodes \ {Callee} : slot'[m].cursor = slot[m].cursor /\ history'[m] = history[m]
    BY <1>0, <2>3
  <2>7. \A c \in Members(calls) : c \in Members(Unused) \/ \E m \in Members(slot[Callee].readers) : c = ServeReader(m, TRUE)
    BY <1>0, <2>4, <2>5
  <2> HIDE DEF calls
  <2> QED BY <1>0, <1>1, <2>2, <2>3, <2>6, <2>7, SettlingServed
<1> QED BY <1>3, <1>4, <1>5, ServeWays

(* A run that serves was staged from what is shown now. *)
LEMMA ServesStamp ==
  ASSUME Typed, Stocked, NEW n \in Nodes, NEW outcome, FinishRun(n, outcome), ServesNow(n, outcome)
  PROVE  /\ Staged(n).ok /\ slot[n].running.stamp = Staged(n).stamp /\ slot[n].running.stamp \in Nat
         /\ Serves(Stored(n, outcome), Staged(n).key, slot[n].cursor) /\ slot[n].cursor \in Times
<1>1. PICK job : job = slot[n].running
  OBVIOUS
<1>2. PICK key : key = Stored(n, outcome)
  OBVIOUS
<1>3. /\ job \in Jobs /\ key.inputs = job.key.inputs /\ slot[n].cursor \in Times
  BY <1>1, <1>2, FinishFacts
<1>4. Staged(n).ok /\ Serves(key, Staged(n).key, slot[n].cursor)
  BY <1>2 DEF ServesNow
<1>5. job.stamp \in Nat
  BY <1>3, JobTypes
<1>6. JobGood(n, job)
  BY <1>1, FinishShelf
<1>7. StampedBy(Staged(n).key.inputs, job.stamp)
  <2>1. Staged(n).key.inputs = job.key.inputs
    BY <1>3, <1>4 DEF Serves
  <2>2. StampedBy(job.key.inputs, job.stamp)
    BY <1>6 DEF JobGood
  <2> QED BY <2>1, <2>2
<1>8. job.stamp = Staged(n).stamp
  BY <1>3, <1>4, <1>5, <1>7, StampsAgree DEF Stocked
<1> QED BY <1>1, <1>2, <1>3, <1>4, <1>5, <1>8

LEMMA FinishFit ==
  ASSUME Typed, Stocked, NEW n \in Nodes, NEW outcome, FinishRun(n, outcome), ServesNow(n, outcome), Result(outcome),
         NEW stamp, stamp = slot[n].running.stamp
  PROVE  Fit(n, stamp)'
<1>1. stamp = slot[n].running.stamp
  OBVIOUS
<1>2. PICK key : key = Stored(n, outcome)
  OBVIOUS
<1>3. /\ Staged(n).ok /\ stamp = Staged(n).stamp /\ stamp \in Nat
      /\ Serves(key, Staged(n).key, slot[n].cursor)
  BY <1>1, <1>2, ServesStamp
<1>4. /\ data' = data /\ graph' = graph /\ epoch' = epoch /\ slot'[n].cursor = slot[n].cursor
      /\ \A m \in Nodes \ {n} : history'[m] = history[m]
  BY FinishFacts
<1>5. history'[n] = Filed(n, outcome)
  BY FinishFacts, Zenon
<1>6. Staged(n)' = Staged(n)
  <2>1. \A u \in UpstreamsOf(n) : u \in Nodes /\ u # n
    BY UpstreamNodes
  <2>2. \A u \in UpstreamsOf(n) : history'[u] = history[u]
    BY <1>4, <2>1
  <2> QED BY <1>4, <2>2, StagedSame
<1>7. \E e \in history'[n].ring : e.at = At(n, stamp) /\ e.key = key
  <2> DEFINE shown == outcome = "shown"
             cacheOnly == ~ServesNow(n, outcome)
  <2>1. Filed(n, outcome) = Published(n, stamp, key, shown, cacheOnly)
    BY <1>1, <1>2 DEF Filed
  <2>2. ~cacheOnly /\ history[n] \in Histories
    BY DEF Typed, TypeOK
  <2> HIDE DEF shown, cacheOnly
  <2>3. \E e \in Published(n, stamp, key, shown, cacheOnly).ring : e.at = At(n, stamp) /\ e.key = key
    BY <2>2, PublishedHas
  <2> QED BY <1>5, <2>1, <2>3
<1>8. \E e \in history'[n].ring : e.at = At(n, stamp) /\ Serves(e.key, Staged(n).key', slot'[n].cursor)
  BY <1>3, <1>4, <1>6, <1>7
<1>9. Staged(n).ok' /\ stamp = Staged(n).stamp'
  BY <1>3, <1>6
<1> QED BY <1>8, <1>9 DEF Fit

LEMMA SettlingFinish == Typed /\ Registered /\ Stocked /\ Finish => Settling'
<1> SUFFICES ASSUME Typed, Registered, Stocked, Finish PROVE Settling'
  OBVIOUS
<1>1. CASE FinishOrphan
  <2>1. Members(agenda') = {Drain} /\ Drain.call = "drain"
    BY <1>1, OrphanFacts, CallNames, Zenon
  <2>2. \A c \in Members(agenda') : c.call # "settle"
    BY <2>1
  <2> QED BY <2>2, NothingSettling
<1>2. ASSUME NEW n \in Nodes, FinishDropped(n) PROVE Settling'
  <2>1. Members(agenda') = {Serve(n, "request", FALSE), Drain}
    BY <1>2, DroppedRunFacts
  <2>2. \A c \in Members(agenda') : c.call # "settle"
    BY <2>1 DEF Serve, Drain
  <2> QED BY <2>2, NothingSettling
<1>3. ASSUME NEW n \in Nodes, NEW outcome, FinishRun(n, outcome) PROVE Settling'
  <2>1. Members(agenda') = {ServeReader(m, FALSE) : m \in Members(slot[n].readers)} \cup {Ending(n, outcome), Drain}
    BY <1>3, FinishFacts
  <2>2. CASE ~(ServesNow(n, outcome) /\ Result(outcome))
    <3>1. Ending(n, outcome) = Serve(n, "request", FALSE)
      BY <2>2 DEF Ending
    <3>2. \A c \in Members(agenda') : c.call # "settle"
      BY <2>1, <3>1 DEF Serve, Drain, ServeReader
    <3> QED BY <3>2, NothingSettling
  <2>3. CASE ServesNow(n, outcome) /\ Result(outcome)
    <3> DEFINE stamp == slot[n].running.stamp
               told == ServeReaders(n, FALSE)
               end == SettleServed(n, stamp)
               two == <<end, Drain>>
    <3>1. agenda' = told \o two
      BY <1>3, <2>3, FinishFacts DEF Finishing, Ending
    <3>2. told \in Seq(Chores) /\ Members(told) = {ServeReader(m, FALSE) : m \in Members(slot[n].readers)}
      <4>1. FALSE \in BOOLEAN
        OBVIOUS
      <4> QED BY <4>1, ReadersCalled, Zenon DEF Typed
    <3>3. stamp \in Nat
      BY <1>3, <2>3, ServesStamp
    <3>4. end \in Chores /\ Drain \in Chores
      BY <3>3, ChoreTypes
    <3>5. end.call = "settle" /\ end.node = n /\ end.stamp = stamp /\ Drain.call = "drain"
      BY DEF SettleServed, Drain
    <3>6. two \in Seq(Chores) /\ Len(two) = 2 /\ two[1] = end /\ two[2] = Drain
      BY <3>4
    <3>7. PICK s : s = stamp /\ Fit(n, s)'
      <4>1. PICK s : s = stamp
        OBVIOUS
      <4> QED BY <1>3, <2>3, <4>1, FinishFit
    <3> HIDE DEF told, two, end
    <3>8. /\ Len(agenda') = Len(told) + 2 /\ Len(told) \in Nat
          /\ \A i \in 1 .. Len(told) : agenda'[i] = told[i]
          /\ agenda'[Len(told) + 1] = end /\ agenda'[Len(told) + 2] = Drain
      <4>1. /\ Len(told \o two) = Len(told) + Len(two) /\ Len(told) \in Nat
            /\ \A i \in 1 .. Len(told) : (told \o two)[i] = told[i]
            /\ \A i \in 1 .. Len(two) : (told \o two)[Len(told) + i] = two[i]
        <5>1. told \in Seq(Chores) /\ two \in Seq(Chores)
          BY <3>2, <3>6
        <5> QED BY <5>1, ConcatFacts
      <4>2. 1 \in 1 .. Len(two) /\ 2 \in 1 .. Len(two)
        BY <3>6
      <4> QED BY <3>1, <3>6, <4>1, <4>2
    <3>9. \A i \in 1 .. Len(told) : Minor(told[i], n) /\ told[i].call # "settle"
      <4> SUFFICES ASSUME NEW i \in 1 .. Len(told) PROVE Minor(told[i], n) /\ told[i].call # "settle"
        OBVIOUS
      <4>1. told[i] \in Members(told)
        BY DEF Members
      <4>2. PICK m \in Members(slot[n].readers) : told[i] = ServeReader(m, FALSE)
        BY <3>2, <4>1
      <4>3. m \in Nodes /\ n \in UpstreamsOf(m)
        BY <4>2 DEF Registered, Downstream
      <4>4. Later(m, n)
        BY <4>3, LaterUpstream
      <4>5. told[i].call = "reader" /\ told[i].node = m
        BY <4>2 DEF ServeReader
      <4> QED BY <4>4, <4>5 DEF Minor
    <3> SUFFICES ASSUME NEW i \in 1 .. Len(agenda'), agenda'[i].call = "settle"
                 PROVE  /\ \A j \in 1 .. i - 1 : Minor(agenda'[j], agenda'[i].node)
                        /\ Fit(agenda[i].node, agenda[i].stamp)'
      BY DEF Settling
    <3>10. i = Len(told) + 1
      <4>1. i \in 1 .. Len(told) \/ i = Len(told) + 1 \/ i = Len(told) + 2
        BY <3>8
      <4> QED BY <3>5, <3>8, <3>9, <4>1
    <3>11. agenda'[i].node = n /\ agenda'[i].stamp = stamp
      BY <3>5, <3>8, <3>10
    <3>12. \A j \in 1 .. i - 1 : Minor(agenda'[j], n)
      BY <3>8, <3>9, <3>10
    <3>13. agenda'[i].stamp = s
      BY <3>7, <3>11
    <3>14. Fit(agenda[i].node, agenda[i].stamp)'
      BY <3>7, <3>11, <3>13 DEF Fit
    <3> QED BY <3>11, <3>12, <3>14
  <2> QED BY <2>2, <2>3
<1> QED BY <1>1, <1>2, <1>3 DEF Finish

LEMMA SettlingCalls ==
  Typed /\ Settling /\ (\/ RequestAt \/ BindNext \/ RegisterReader \/ Settle \/ SupersedeNode \/ WithdrawNode
                        \/ ReturnRoom \/ DrainBegins \/ Grant) => Settling'
<1> SUFFICES ASSUME Typed, Settling,
                    \/ RequestAt \/ BindNext \/ RegisterReader \/ Settle \/ SupersedeNode \/ WithdrawNode
                    \/ ReturnRoom \/ DrainBegins \/ Grant
             PROVE  Settling'
  OBVIOUS
<1> DEFINE Fine == ~Idle /\ Head(agenda).call \notin {"reader", "serve"} /\ \A c \in Members(agenda') : c \in Rest \/ c.call # "settle"
<1>1. Fine
  <2>1. CASE RequestAt
    <3>1. Calls("request") /\ ~Idle /\ (Members(agenda') = Rest \/ Members(agenda') = {Bind(Callee, 1)} \cup Rest)
      BY <2>1, RequestFacts
    <3> QED BY <3>1, CallNames DEF Calls
  <2>2. CASE BindNext
    <3>1. PICK n, i, u : n = Callee /\ i = Head(agenda).input /\ u = Reads[n][i]
      OBVIOUS
    <3>2. /\ Calls("bind") /\ ~Idle
          /\ \/ Members(agenda') = {Serve(n, "request", FALSE)} \cup Rest
             \/ Members(agenda') = {Request(u, slot[n].cursor), Register(u, n), Bind(n, i + 1)} \cup Rest
      BY <2>2, <3>1, BindFacts
    <3> QED BY <3>2 DEF Calls, Serve, Request, Register, Bind
  <2>3. CASE RegisterReader
    BY <2>3, RegisterFacts DEF Calls
  <2>4. CASE Settle
    <3> DEFINE none == <<>>
               n == Callee
               h == TombstonesSuperseded(n, history[n], Head(agenda).stamp)
    <3>1. Calls("settle") /\ ~Idle /\ n \in Nodes /\ h \in Histories /\ Conclude(n, "none", "ready", h, none)
      BY <2>4, SettleFacts
    <3>2. none \in Seq(Chores) /\ Members(none) = {} /\ "none" \in Waits /\ "ready" \in Statuses
      BY MembersOf DEF Waits, Statuses
    <3> HIDE DEF none, h, n
    <3>3. Members(agenda') = {ServeReader(m, TRUE) : m \in Members(slot[n].readers)} \cup Members(none) \cup Rest
      BY <3>1, <3>2, ConcludeMembers DEF Typed
    <3>4. \A c \in Members(agenda') : c \in Rest \/ c.call # "settle"
      BY <3>2, <3>3 DEF ServeReader
    <3> QED BY <3>1, <3>4 DEF Calls
  <2>5. CASE SupersedeNode
    <3>1. /\ Calls("supersede") /\ ~Idle
          /\ Members(agenda') = Rest \/ Members(agenda') = {Request(Callee, slot[Callee].cursor)} \cup Rest
      BY <2>5, SupersedeFacts
    <3> QED BY <3>1 DEF Calls, Request
  <2>6. CASE WithdrawNode
    <3>1. Calls("withdraw") /\ ~Idle
      BY <2>6, WithdrawFacts
    <3>2. \/ Members(agenda') = Rest
          \/ \E calls \in Seq(Chores), ups \in SUBSET Nodes :
               /\ Members(agenda') = Members(calls) \cup Rest
               /\ Members(calls) = {ServeReader(m, TRUE) : m \in Members(slot[Callee].readers)} \cup {Withdraw(u) : u \in ups}
      BY <2>6, WithdrawFacts
    <3>3. \A c \in Members(agenda') : c \in Rest \/ c.call # "settle"
      <4>1. CASE Members(agenda') = Rest
        BY <4>1
      <4>2. ASSUME NEW calls \in Seq(Chores), NEW ups \in SUBSET Nodes,
                   Members(agenda') = Members(calls) \cup Rest,
                   Members(calls) = {ServeReader(m, TRUE) : m \in Members(slot[Callee].readers)} \cup {Withdraw(u) : u \in ups}
            PROVE  \A c \in Members(agenda') : c \in Rest \/ c.call # "settle"
        BY <4>2 DEF ServeReader, Withdraw
      <4> QED BY <3>2, <4>1, <4>2
    <3> QED BY <3>1, <3>3 DEF Calls
  <2>7. CASE ReturnRoom
    BY <2>7, ReturnFacts DEF Calls
  <2>8. CASE DrainBegins
    <3>1. Calls("drain") /\ ~Idle /\ Members(agenda') = {Granting} \cup Rest
      BY <2>8, DrainFacts
    <3> QED BY <3>1 DEF Calls, Granting
  <2>9. CASE Grant
    <3>1. Calls("granting") /\ ~Idle /\ (Members(agenda') = Rest \/ Members(agenda') = {Serve(Head(budget.line), "retry", TRUE), Granting} \cup Rest)
      BY <2>9, GrantFacts
    <3> QED BY <3>1 DEF Calls, Granting, Serve
  <2> QED BY <2>1, <2>2, <2>3, <2>4, <2>5, <2>6, <2>7, <2>8, <2>9
<1>2. \A c \in Rest : c.call # "settle"
  BY <1>1, NoneAfter DEF Typed
<1>3. \A c \in Members(agenda') : c.call # "settle"
  BY <1>1, <1>2
<1> QED BY <1>3, NothingSettling

LEMMA SettlingEvents == Typed /\ (PostedDrain \/ Environment) => Settling'
<1> SUFFICES ASSUME Typed, PostedDrain \/ Environment PROVE \A c \in Members(agenda') : c.call # "settle"
  BY NothingSettling
<1>1. CASE PostedDrain
  BY <1>1, PostedFacts DEF Drain
<1>2. CASE Suspend \/ Replace \/ Arrive \/ Retire
  <2>1. Idle /\ agenda' = agenda
    BY <1>2, SuspendFacts, ReplaceFacts, ArriveFacts, RetireFacts
  <2>2. Members(agenda) = {}
    BY <2>1, RestFacts DEF Typed
  <2> QED BY <2>1, <2>2
<1>3. CASE Resume
  <2>1. \A c \in Members(agenda') : c.call = "request"
    BY <1>3, ResumeFacts
  <2> QED BY <2>1
<1>4. ASSUME NEW n \in Nodes, Install(n) PROVE \A c \in Members(agenda') : c.call # "settle"
  <2>1. Members(agenda') = {Supersede(m) : m \in {n} \cup Members(DependentsOf(n))}
    BY <1>4, InstallFacts
  <2> QED BY <2>1 DEF Supersede
<1>5. ASSUME NEW n \in Nodes, Remove(n) PROVE \A c \in Members(agenda') : c.call # "settle"
  <2>1. Members(agenda') = {Supersede(m) : m \in Members(DependentsOf(n))}
    BY <1>5, RemoveFacts
  <2> QED BY <2>1 DEF Supersede
<1>6. ASSUME NEW n \in Nodes, WithdrawEvent(n) PROVE \A c \in Members(agenda') : c.call # "settle"
  BY <1>6, WithdrawEventFacts DEF Withdraw
<1>7. ASSUME NEW n \in Nodes, NEW t \in Times, RequestEvent(n, t) PROVE \A c \in Members(agenda') : c.call # "settle"
  BY <1>7, RequestEventFacts DEF Request
<1> QED BY <1>1, <1>2, <1>3, <1>4, <1>5, <1>6, <1>7 DEF Environment

LEMMA SettlingStep == Typed /\ Registered /\ Stocked /\ Settling /\ [Next]_vars => Settling'
<1> SUFFICES ASSUME Typed, Registered, Stocked, Settling, [Next]_vars PROVE Settling'
  OBVIOUS
<1>1. CASE CallStep
  BY <1>1, SettlingServe, SettlingReader, SettlingCalls DEF CallStep
<1>2. CASE Finish
  BY <1>2, SettlingFinish
<1>3. CASE PostedDrain \/ Environment
  BY <1>3, SettlingEvents
<1>4. CASE UNCHANGED vars
  <2>1. agenda' = agenda /\ data' = data /\ graph' = graph /\ epoch' = epoch /\ slot' = slot /\ history' = history
    BY <1>4 DEF vars
  <2>2. \A i \in 1 .. Len(agenda) : agenda[i].call = "settle" => agenda[i].node \in Nodes
    <3> SUFFICES ASSUME NEW i \in 1 .. Len(agenda), agenda[i].call = "settle" PROVE agenda[i].node \in Nodes
      OBVIOUS
    <3>1. agenda[i] \in Chores
      BY DEF Typed, TypeOK
    <3> QED BY <3>1, ChoreFacts DEF NodeCalls
  <2>3. ASSUME NEW n \in Nodes, NEW stamp, Fit(n, stamp) PROVE Fit(n, stamp)'
    BY <2>1, <2>3, FitKept
  <2> SUFFICES ASSUME NEW i \in 1 .. Len(agenda), agenda[i].call = "settle"
               PROVE  /\ \A j \in 1 .. i - 1 : Minor(agenda[j], agenda[i].node)
                      /\ Fit(agenda[i].node, agenda[i].stamp)'
    BY <2>1 DEF Settling
  <2>4. /\ \A j \in 1 .. i - 1 : Minor(agenda[j], agenda[i].node)
        /\ Fit(agenda[i].node, agenda[i].stamp)
    BY DEF Settling
  <2>5. PICK n, stamp : n = agenda[i].node /\ stamp = agenda[i].stamp
    OBVIOUS
  <2>6. Fit(n, stamp)'
    BY <2>2, <2>3, <2>4, <2>5
  <2> QED BY <2>1, <2>4, <2>5, <2>6 DEF Fit
<1> QED BY <1>1, <1>2, <1>3, <1>4 DEF Next

LEMMA SettlingInit == Init => Settling
BY DEF Init, Settling

-----------------------------------------------------------------------------
(* Every result rests on an input of its stamp: Anchored. *)

(* Something in h stands where a result at s would: newer, if n is pinned. *)
SupportsIn(n, h, s) == \E f \in h.ring : IF PinnedAt[n] = NoTime THEN f.at = s ELSE f.stamp >= s
(* A result of n at s has an input at s: the topic's entry, or what stands *)
(* where its upstream's result was; or that upstream is gone.              *)
Grounded(A, n, s) ==
  /\ revision[n] > 0
  /\ PinnedAt[n] # NoTime => s <= PinnedAt[n]
  /\ \/ n \in RawNodes /\ s <= data.newest
     \/ \E u \in UpstreamsOf(n) : revision[u] = 0 \/ (<<u, s>> \in A /\ SupportsIn(u, history[u], s))
Closed(A) == A \subseteq Nodes \X Nat /\ \A n \in Nodes, s \in Nat : <<n, s>> \in A => Grounded(A, n, s)
(* The results shown, and those to come. *)
Covers(A) ==
  \A n \in Nodes : /\ \A e \in history[n].ring : IsResult(e) => <<n, e.stamp>> \in A
                   /\ Live(n) => <<n, slot[n].running.stamp>> \in A
Anchored == \E A : Closed(A) /\ Covers(A)

(* What a staging reads of an upstream. *)
LEMMA OkShown ==
  ASSUME Typed, Shelf, NEW n \in Nodes, slot[n].cursor \in Times, Staged(n).ok, NEW u \in UpstreamsOf(n)
  PROVE  \E e \in ShownAt(history[u], slot[n].cursor) :
            e \in history[u].ring /\ e.available /\ e.stamp \in Nat /\ e.stamp <= Staged(n).stamp /\ revision[u] > 0
<1>1. u \in Nodes /\ Topic \notin Nodes
  BY UpstreamNodes, ConstantFacts
<1>2. PICK input \in Taken(n) : input[1] = u
  <2>1. \E input \in UNION {TakenFrom(v, slot[n].cursor) : v \in UpstreamsOf(n)} : input[1] = u
    BY StagedIs
  <2> QED BY <2>1 DEF Taken
<1>3. input[3] <= Staged(n).stamp
  BY StagedTypes DEF Typed
<1>4. \E v \in UpstreamsOf(n) : \E e \in ShownAt(history[v], slot[n].cursor) :
        /\ e \in history[v].ring /\ e.available /\ input[1] = v /\ input[3] = e.stamp
        /\ e.stamp \in Nat /\ revision[v] > 0
  BY <1>1, <1>2, TakenKinds
<1> QED BY <1>2, <1>3, <1>4

(* No result is newer than what its node is staged from now. *)
LEMMA Behind ==
  ASSUME Typed, Shelf, NEW A, Closed(A), NEW n \in Nodes, NEW s \in Nat, <<n, s>> \in A,
         slot[n].cursor \in Times, s <= slot[n].cursor, Staged(n).ok
  PROVE  s <= Staged(n).stamp
<1>1. Grounded(A, n, s)
  BY DEF Closed
<1>2. Staged(n).stamp \in Nat /\ \A input \in Taken(n) : input[3] \in Nat /\ input[3] <= Staged(n).stamp
  BY StagedTypes DEF Typed
<1>3. slot[n].cursor \in Nat
  BY ConstantFacts
<1>4. CASE n \in RawNodes /\ s <= data.newest
  <2>1. PICK input \in TakenRaw(n) : TRUE
    BY <1>4, StagedIs
  <2>2. /\ input = <<Topic, input[2], input[2]>> /\ input[2] \in Nat
        /\ input[2] \in data.oldest .. data.newest
        /\ \A x \in data.oldest .. data.newest : x <= slot[n].cursor => x <= input[2]
    BY TakenFacts DEF Typed
  <2>3. input[3] = input[2]
    <3>1. PICK x : input = <<Topic, x, x>>
      BY <2>2, Zenon
    <3> QED BY <3>1
  <2>4. input \in Taken(n)
    BY DEF Taken
  <2>5. data.oldest \in Nat /\ data.newest \in Nat
    BY DEF Typed, TypeOK
  <2>6. s <= input[2]
    <3>1. CASE s \in data.oldest .. data.newest
      BY <2>2, <3>1
    <3>2. CASE s < data.oldest
      BY <2>2, <2>5, <3>2
    <3> QED BY <1>4, <2>5, <3>1, <3>2
  <2> QED BY <1>2, <2>2, <2>3, <2>4, <2>6
<1>5. ASSUME NEW u \in UpstreamsOf(n), revision[u] = 0 \/ (<<u, s>> \in A /\ SupportsIn(u, history[u], s))
      PROVE  s <= Staged(n).stamp
  <2>1. PICK e \in ShownAt(history[u], slot[n].cursor) :
          e \in history[u].ring /\ e.available /\ e.stamp \in Nat /\ e.stamp <= Staged(n).stamp /\ revision[u] > 0
    BY OkShown
  <2>2. u \in Nodes
    BY UpstreamNodes
  <2>3. PICK f \in history[u].ring : IF PinnedAt[u] = NoTime THEN f.at = s ELSE f.stamp >= s
    BY <1>5, <2>1 DEF SupportsIn
  <2>4. /\ e.at = At(u, e.stamp) /\ f.at = At(u, f.stamp)
        /\ e.at = f.at => e = f
    BY <2>1, <2>2, <2>3 DEF Shelf, Ordered
  <2>5. f.stamp \in Nat /\ e.at <= slot[n].cursor /\ \A other \in history[u].ring : other.at <= slot[n].cursor => other.at <= e.at
    <3>1. history[u] \in Histories
      BY <2>2 DEF Typed, TypeOK
    <3> QED BY <1>3, <3>1, ShownFacts, HistoryTypes
  <2>6. CASE PinnedAt[u] = NoTime
    BY <1>2, <2>1, <2>2, <2>3, <2>4, <2>5, <2>6, AtFacts
  <2>7. CASE PinnedAt[u] # NoTime
    <3>1. e = f
      BY <2>1, <2>2, <2>4, <2>5, <2>7, AtFacts
    <3> QED BY <1>2, <2>1, <2>3, <2>7, <3>1
  <2> QED BY <2>6, <2>7
<1> QED BY <1>1, <1>4, <1>5 DEF Grounded

(* What a run staged now would show has an input at its stamp. *)
LEMMA StagedGrounded ==
  ASSUME Typed, Shelf, NEW A, Covers(A), NEW n \in Nodes, slot[n].requested, Staged(n).ok
  PROVE  Grounded(A, n, Staged(n).stamp)
<1>1. slot[n].cursor \in Times /\ revision[n] > 0
  BY DEF Typed, Known
<1>2. PICK stamp : stamp = Staged(n).stamp
  OBVIOUS
<1>3. /\ stamp \in Nat /\ stamp <= slot[n].cursor
      /\ \A input \in Taken(n) : input[3] \in Nat /\ input[3] <= stamp
      /\ stamp = 0 \/ \E input \in Taken(n) : input[3] = stamp
  BY <1>1, <1>2, StagedTypes DEF Typed
<1>4. PinnedAt[n] # NoTime => stamp <= PinnedAt[n]
  BY <1>1, <1>3, ConstantFacts DEF Typed, Known
<1>5. PICK input \in Taken(n) : input[3] = stamp
  <2>1. PICK any \in Taken(n) : TRUE
    BY OkTaken
  <2>2. any[3] \in Nat /\ any[3] <= stamp
    BY <1>3
  <2> QED BY <1>3, <2>2
<1>6. CASE n \in RawNodes /\ input[3] <= data.newest
  BY <1>1, <1>2, <1>4, <1>5, <1>6 DEF Grounded
<1>7. ASSUME NEW u \in UpstreamsOf(n), NEW e \in history[u].ring, u \in Nodes, e.available, input[3] = e.stamp, e.stamp \in Nat
      PROVE  Grounded(A, n, stamp)
  <2>1. IsResult(e) /\ e.at = At(u, e.stamp)
    BY <1>7 DEF Shelf, Ordered
  <2>2. <<u, stamp>> \in A
    BY <1>5, <1>7, <2>1 DEF Covers
  <2>3. SupportsIn(u, history[u], stamp)
    <3>1. IF PinnedAt[u] = NoTime THEN e.at = stamp ELSE e.stamp >= stamp
      BY <1>3, <1>5, <1>7, <2>1, AtFacts
    <3> QED BY <3>1 DEF SupportsIn
  <2> QED BY <1>1, <1>4, <2>2, <2>3 DEF Grounded
<1> QED BY <1>1, <1>2, <1>6, <1>7, TakenKinds

(* The anchors stay, with those of the results at S that n may now show. *)
LEMMA AnchoredKept ==
  ASSUME TypeOK, TypeOK', NEW A, Closed(A), NEW n \in Nodes, NEW S \in SUBSET Nat,
         graph' = graph, data.newest <= data'.newest,
         \A s \in S : Grounded(A, n, s),
         \A m \in Nodes, s \in Nat : <<m, s>> \in A /\ SupportsIn(m, history[m], s) => SupportsIn(m, history'[m], s),
         \A m \in Nodes : \A e \in history'[m].ring : IsResult(e) => <<m, e.stamp>> \in A \/ (m = n /\ e.stamp \in S),
         \A m \in Nodes : Live(m)' => <<m, slot'[m].running.stamp>> \in A \/ (m = n /\ slot'[m].running.stamp \in S)
  PROVE  Anchored'
<1> DEFINE B == A \cup {<<n, s>> : s \in S}
<1>0. revision' = revision
  BY DEF revision
<1>1. B \subseteq Nodes \X Nat /\ A \subseteq B
  BY DEF Closed
<1>2. ASSUME NEW m \in Nodes, NEW s \in Nat, Grounded(A, m, s)
      PROVE  Grounded(B, m, s)'
  <2>1. revision'[m] > 0 /\ (PinnedAt[m] # NoTime => s <= PinnedAt[m])
    BY <1>0, <1>2 DEF Grounded
  <2>2. CASE m \in RawNodes /\ s <= data.newest
    <3>1. data.newest \in Nat /\ data'.newest \in Nat
      BY DEF TypeOK
    <3> HIDE DEF B
    <3> QED BY <2>1, <2>2, <3>1 DEF Grounded
  <2>3. ASSUME NEW u \in UpstreamsOf(m), revision[u] = 0 \/ (<<u, s>> \in A /\ SupportsIn(u, history[u], s))
        PROVE  Grounded(B, m, s)'
    <3>1. u \in Nodes
      BY UpstreamNodes
    <3>2. revision'[u] = 0 \/ (<<u, s>> \in B /\ SupportsIn(u, history'[u], s))
      BY <1>0, <1>1, <2>3, <3>1
    <3> HIDE DEF B
    <3> QED BY <2>1, <3>2 DEF Grounded
  <2> QED BY <1>2, <2>2, <2>3 DEF Grounded
<1>3. ASSUME NEW m \in Nodes, NEW s \in Nat, <<m, s>> \in B
      PROVE  Grounded(B, m, s)'
  <2>1. <<m, s>> \in A \/ (m = n /\ s \in S)
    BY <1>3
  <2>2. Grounded(A, m, s)
    BY <2>1 DEF Closed
  <2> QED BY <1>2, <2>2
<1>4. \A m \in Nodes : /\ \A e \in history'[m].ring : IsResult(e) => <<m, e.stamp>> \in B
                       /\ Live(m)' => <<m, slot'[m].running.stamp>> \in B
  OBVIOUS
<1> HIDE DEF B
<1>5. Closed(B)'
  BY <1>1, <1>3 DEF Closed
<1>6. Covers(B)'
  BY <1>4 DEF Covers
<1> QED BY <1>5, <1>6 DEF Anchored

(* Where a result was, something stands still. *)
Forward ==
  \E A : /\ Covers(A)
         /\ \A m \in Nodes, s \in Nat : <<m, s>> \in A /\ SupportsIn(m, history[m], s) => SupportsIn(m, history'[m], s)

LEMMA AnchoredSame ==
  ASSUME TypeOK, TypeOK', Anchored, graph' = graph, data.newest <= data'.newest, \A m \in Nodes : history'[m] = history[m],
         \A m \in Nodes : Live(m)' => LiveStays(m)
  PROVE  Anchored' /\ Forward
<1>1. PICK A : Closed(A) /\ Covers(A)
  BY DEF Anchored
<1>2. \A m \in Nodes : Live(m)' => <<m, slot'[m].running.stamp>> \in A
  BY <1>1 DEF Covers, LiveStays
<1>3. \A m \in Nodes : \A e \in history'[m].ring : IsResult(e) => <<m, e.stamp>> \in A
  BY <1>1 DEF Covers
<1>4. \A m \in Nodes, s \in Nat : <<m, s>> \in A /\ SupportsIn(m, history[m], s) => SupportsIn(m, history'[m], s)
  OBVIOUS
<1>4a. Forward
  BY <1>1, <1>4 DEF Forward
<1>5. CASE Nodes = {}
  <2>1. Closed({})' /\ Covers({})'
    BY <1>5 DEF Closed, Covers
  <2> QED BY <1>4a, <2>1 DEF Anchored
<1>6. CASE Nodes # {}
  <2>1. PICK n \in Nodes : TRUE
    BY <1>6
  <2> DEFINE S == {}
  <2>2. S \in SUBSET Nat /\ \A s \in S : Grounded(A, n, s)
    OBVIOUS
  <2> HIDE DEF S
  <2> QED BY <1>1, <1>2, <1>3, <1>4, <1>4a, <2>1, <2>2, AnchoredKept
<1> QED BY <1>5, <1>6

(* A publication leaves something where a result was; a finding's is no *)
(* older, or its ring stays.                                            *)
LEMMA PublishedSupports ==
  ASSUME NEW n \in Nodes, history[n] \in Histories, Ordered(n, history[n]), NEW stamp \in Nat, NEW key, NEW available, NEW cacheOnly,
         NEW s \in Nat, SupportsIn(n, history[n], s), PinnedAt[n] # NoTime => cacheOnly \/ s <= stamp
  PROVE  SupportsIn(n, Published(n, stamp, key, available, cacheOnly), s)
<1> DEFINE h == Published(n, stamp, key, available, cacheOnly)
           same == {e \in history[n].ring : e.at = At(n, stamp)}
           entry == [at |-> At(n, stamp), stamp |-> stamp, key |-> key, available |-> available,
                     uid |-> <<revision[n], history[n].uids + 1>>]
<1>1. \/ h.ring = history[n].ring
      \/ h.ring = (history[n].ring \ same) \cup {entry} /\ (cacheOnly => same = {})
  BY PublishedShape
<1>2. entry.at = At(n, stamp) /\ entry.stamp = stamp
  OBVIOUS
<1>3. \A e \in history[n].ring : e \in same <=> e.at = At(n, stamp)
  OBVIOUS
<1> HIDE DEF h, same, entry
<1>4. PICK f \in history[n].ring : IF PinnedAt[n] = NoTime THEN f.at = s ELSE f.stamp >= s
  BY DEF SupportsIn
<1>5. f.stamp \in Nat /\ f.at \in Nat /\ f.at = At(n, f.stamp)
  BY HistoryTypes DEF Ordered
<1>6. CASE h.ring = history[n].ring
  BY <1>4, <1>6 DEF SupportsIn, h
<1>7. CASE h.ring = (history[n].ring \ same) \cup {entry} /\ (cacheOnly => same = {})
  <2>1. CASE f \notin same
    <3>1. f \in h.ring
      BY <1>7, <2>1
    <3> QED BY <1>4, <3>1 DEF SupportsIn, h
  <2>2. CASE f \in same
    <3>1. ~cacheOnly /\ f.at = entry.at
      BY <1>2, <1>3, <1>7, <2>2
    <3>2. IF PinnedAt[n] = NoTime THEN entry.at = s ELSE entry.stamp >= s
      BY <1>2, <1>4, <3>1
    <3>3. entry \in h.ring
      BY <1>7
    <3> QED BY <3>2, <3>3 DEF SupportsIn, h
  <2> QED BY <2>1, <2>2
<1> QED BY <1>1, <1>6, <1>7

LEMMA PublishedNew ==
  ASSUME NEW n \in Nodes, history[n] \in Histories, NEW stamp, NEW key, NEW available, NEW cacheOnly,
         NEW e \in Published(n, stamp, key, available, cacheOnly).ring
  PROVE  \/ e \in history[n].ring
         \/ /\ e.stamp = stamp /\ e.key = key /\ e.at = At(n, stamp) /\ e.available = available
            /\ \A f \in Published(n, stamp, key, available, cacheOnly).ring : f.at = e.at => f = e
<1> DEFINE h == Published(n, stamp, key, available, cacheOnly)
           same == {x \in history[n].ring : x.at = At(n, stamp)}
           entry == [at |-> At(n, stamp), stamp |-> stamp, key |-> key, available |-> available,
                     uid |-> <<revision[n], history[n].uids + 1>>]
<1>1. \/ h.ring = history[n].ring
      \/ h.ring = (history[n].ring \ same) \cup {entry}
  BY PublishedShape
<1>2. entry.stamp = stamp /\ entry.key = key /\ entry.at = At(n, stamp) /\ entry.available = available
  OBVIOUS
<1>3. \A x \in history[n].ring : x \in same <=> x.at = At(n, stamp)
  OBVIOUS
<1>4. e \in h.ring
  OBVIOUS
<1> HIDE DEF h, same, entry
<1> QED BY <1>1, <1>2, <1>3, <1>4 DEF h

(* Superseding tombstones takes nothing from under a result. *)
LEMMA SupersededSupports ==
  ASSUME NEW n \in Nodes, NEW h \in Histories, slot[n].cursor \in Nat, NEW stamp \in Nat, NEW s \in Nat,
         SupportsIn(n, h, s), s <= slot[n].cursor => s <= stamp
  PROVE  SupportsIn(n, TombstonesSuperseded(n, h, stamp), s)
<1> DEFINE g == TombstonesSuperseded(n, h, stamp)
<1>1. /\ PinnedAt[n] # NoTime => g.ring = h.ring
      /\ PinnedAt[n] = NoTime => g.ring = {e \in h.ring : ~(stamp < e.at /\ e.at <= slot[n].cursor /\ e.key.inputs = {})}
  BY SupersededShape
<1> HIDE DEF g
<1>2. PICK f \in h.ring : IF PinnedAt[n] = NoTime THEN f.at = s ELSE f.stamp >= s
  BY DEF SupportsIn
<1>3. f \in g.ring
  BY <1>1, <1>2
<1> QED BY <1>2, <1>3 DEF SupportsIn, g

(* h, in the place of n's history, keeps the anchors: its results are those *)
(* of A, or at a stamp of S.                                                *)
Carries(A, n, S, h) ==
  /\ \A s \in Nat : <<n, s>> \in A /\ SupportsIn(n, history[n], s) => SupportsIn(n, h, s)
  /\ \A e \in h.ring : IsResult(e) => <<n, e.stamp>> \in A \/ e.stamp \in S

LEMMA SameCarries ==
  ASSUME NEW A, Covers(A), NEW n \in Nodes, NEW S
  PROVE  Carries(A, n, S, history[n])
BY DEF Covers, Carries

LEMMA PublishedCarries ==
  ASSUME NEW A, Covers(A), NEW n \in Nodes, history[n] \in Histories, Ordered(n, history[n]), NEW S,
         NEW stamp \in Nat, NEW key, NEW available, NEW cacheOnly,
         PinnedAt[n] # NoTime => cacheOnly \/ \A s \in Nat : <<n, s>> \in A => s <= stamp,
         key.inputs = {} \/ stamp \in S \/ <<n, stamp>> \in A
  PROVE  Carries(A, n, S, Published(n, stamp, key, available, cacheOnly))
<1> DEFINE h == Published(n, stamp, key, available, cacheOnly)
<1>1. ASSUME NEW s \in Nat, <<n, s>> \in A, SupportsIn(n, history[n], s) PROVE SupportsIn(n, h, s)
  BY <1>1, PublishedSupports
<1>2. ASSUME NEW e \in h.ring, IsResult(e) PROVE <<n, e.stamp>> \in A \/ e.stamp \in S
  <2>1. CASE e \in history[n].ring
    BY <1>2, <2>1 DEF Covers
  <2>2. CASE e.stamp = stamp /\ e.key = key
    BY <1>2, <2>2 DEF IsResult
  <2> QED BY <2>1, <2>2, PublishedNew
<1> QED BY <1>1, <1>2 DEF Carries

LEMMA ClearedCarries ==
  ASSUME NEW A, Covers(A), NEW n \in Nodes, history[n] \in Histories, Ordered(n, history[n]), NEW S,
         NEW stamp \in Nat, PinnedAt[n] # NoTime => \A s \in Nat : <<n, s>> \in A => s <= stamp
  PROVE  Carries(A, n, S, Cleared(n, stamp))
<1>1. Key(n, {}).inputs = {}
  BY KeyOf
<1>2. Carries(A, n, S, Published(n, stamp, Key(n, {}), FALSE, FALSE))
  BY <1>1, PublishedCarries, Zenon
<1> QED BY <1>2, SameCarries, ClearedShape

LEMMA SupersededCarries ==
  ASSUME NEW A, NEW n \in Nodes, NEW S, NEW h \in Histories, Carries(A, n, S, h), slot[n].cursor \in Nat, NEW stamp \in Nat,
         \A s \in Nat : <<n, s>> \in A /\ s <= slot[n].cursor => s <= stamp
  PROVE  Carries(A, n, S, TombstonesSuperseded(n, h, stamp))
<1> DEFINE g == TombstonesSuperseded(n, h, stamp)
<1>1. g.ring \subseteq h.ring
  BY SupersededShape
<1>2. ASSUME NEW s \in Nat, <<n, s>> \in A, SupportsIn(n, history[n], s) PROVE SupportsIn(n, g, s)
  <2>1. SupportsIn(n, h, s)
    BY <1>2 DEF Carries
  <2> QED BY <1>2, <2>1, SupersededSupports
<1> HIDE DEF g
<1>3. \A e \in g.ring : IsResult(e) => <<n, e.stamp>> \in A \/ e.stamp \in S
  BY <1>1 DEF Carries
<1> QED BY <1>2, <1>3 DEF Carries, g

(* A request's cursor, and the anchors of a finding. *)
LEMMA PinnedAnchors ==
  ASSUME Typed, NEW A, Closed(A), NEW n \in Nodes, PinnedAt[n] # NoTime, slot[n].cursor \in Times, NEW s \in Nat, <<n, s>> \in A
  PROVE  s <= slot[n].cursor
<1>1. Grounded(A, n, s)
  BY DEF Closed
<1>2. slot[n].cursor = PinnedAt[n]
  BY ConstantFacts DEF Typed, Known
<1> QED BY <1>1, <1>2 DEF Grounded

LEMMA WayCarries ==
  ASSUME Typed, Stocked, NEW A, Closed(A), Covers(A), NEW n \in Nodes, NEW status, NEW h, Way(n, status, h)
  PROVE  \E S \in SUBSET Nat : (\A s \in S : Grounded(A, n, s)) /\ Carries(A, n, S, h)
<1>1. Ordered(n, history[n]) /\ history[n] \in Histories /\ Shelf
  BY DEF Stocked, Shelf, Typed, TypeOK
<1> DEFINE none == {}
<1>2. none \in SUBSET Nat /\ \A s \in none : Grounded(A, n, s)
  OBVIOUS
<1> HIDE DEF none
<1>3. CASE h = history[n]
  <2>1. Carries(A, n, none, h)
    BY <1>3, SameCarries
  <2> QED BY <1>2, <2>1
<1>4. CASE Servable(n)
  <2>1. slot[n].requested /\ slot[n].cursor \in Times /\ slot[n].cursor \in Nat
    BY <1>4, ConstantFacts DEF Servable, Typed, Known
  <2>2. PinnedAt[n] # NoTime => \A s \in Nat : <<n, s>> \in A => s <= slot[n].cursor
    BY <2>1, PinnedAnchors
  <2>3. CASE h = Cleared(n, slot[n].cursor)
    <3>1. Carries(A, n, none, h)
      BY <1>1, <2>1, <2>2, <2>3, ClearedCarries
    <3> QED BY <1>2, <3>1
  <2>4. CASE Staged(n).ok
    <3>1. PICK stamp : stamp = Staged(n).stamp
      OBVIOUS
    <3>2. stamp \in Nat /\ Grounded(A, n, stamp)
      BY <1>1, <2>1, <2>4, <3>1, StagedTypes, StagedGrounded DEF Typed
    <3>3. \A s \in Nat : <<n, s>> \in A /\ s <= slot[n].cursor => s <= stamp
      BY <1>1, <2>1, <2>4, <3>1, Behind
    <3>4. PinnedAt[n] # NoTime => \A s \in Nat : <<n, s>> \in A => s <= stamp
      BY <2>2, <3>3
    <3>5. CASE h = Cleared(n, stamp)
      <4>1. Carries(A, n, none, h)
        BY <1>1, <3>2, <3>4, <3>5, ClearedCarries
      <4> QED BY <1>2, <4>1
    <3>6. ASSUME NEW g, Hit(n, g), h = TombstonesSuperseded(n, g, stamp)
          PROVE  \E S \in SUBSET Nat : (\A s \in S : Grounded(A, n, s)) /\ Carries(A, n, S, h)
      <4>1. g \in Histories
        BY <1>1, <2>1, <2>4, <3>6, HitHas
      <4>2. Carries(A, n, {stamp}, g)
        <5>1. CASE g = history[n]
          BY <5>1, SameCarries
        <5>2. CASE \E r \in CacheHits(n) : g = Published(n, stamp, r.key, r.available, FALSE)
          <6>1. PICK r \in CacheHits(n) : g = Published(n, stamp, r.key, r.available, FALSE)
            BY <5>2
          <6>2. stamp \in {stamp}
            OBVIOUS
          <6> QED BY <1>1, <3>2, <3>4, <6>1, <6>2, PublishedCarries, Zenon
        <5> QED BY <3>1, <3>6, <5>1, <5>2 DEF Hit
      <4>3. Carries(A, n, {stamp}, h)
        BY <2>1, <3>2, <3>3, <3>6, <4>1, <4>2, SupersededCarries
      <4>4. {stamp} \in SUBSET Nat /\ \A s \in {stamp} : Grounded(A, n, s)
        BY <3>2
      <4> QED BY <4>3, <4>4
    <3> QED BY <1>3, <1>4, <2>3, <2>4, <3>1, <3>5, <3>6 DEF Way
  <2> QED BY <1>3, <1>4, <2>3, <2>4 DEF Way
<1> QED BY <1>3, <1>4 DEF Way

LEMMA AnchoredCarried ==
  ASSUME TypeOK, TypeOK', NEW A, Closed(A), Covers(A), NEW n \in Nodes, NEW S \in SUBSET Nat, \A s \in S : Grounded(A, n, s),
         graph' = graph, data' = data, Carries(A, n, S, history'[n]), \A m \in Nodes \ {n} : history'[m] = history[m],
         \A m \in Nodes : Live(m)' => LiveStays(m) \/ (m = n /\ slot'[m].running.stamp \in S)
  PROVE  Anchored' /\ Forward
<1>1. data.newest <= data'.newest
  <2>1. data.newest \in Nat
    BY DEF TypeOK
  <2> QED BY <2>1
<1>2. ASSUME NEW m \in Nodes, NEW s \in Nat, <<m, s>> \in A, SupportsIn(m, history[m], s)
      PROVE  SupportsIn(m, history'[m], s)
  <2>1. CASE m = n
    BY <1>2, <2>1 DEF Carries
  <2>2. CASE m # n
    BY <1>2, <2>2
  <2> QED BY <2>1, <2>2
<1>3. ASSUME NEW m \in Nodes, NEW e \in history'[m].ring, IsResult(e)
      PROVE  <<m, e.stamp>> \in A \/ (m = n /\ e.stamp \in S)
  <2>1. CASE m = n
    BY <1>3, <2>1 DEF Carries
  <2>2. CASE m # n
    BY <1>3, <2>2 DEF Covers
  <2> QED BY <2>1, <2>2
<1>4. ASSUME NEW m \in Nodes, Live(m)'
      PROVE  <<m, slot'[m].running.stamp>> \in A \/ (m = n /\ slot'[m].running.stamp \in S)
  BY <1>4 DEF LiveStays, Covers
<1>5. Anchored'
  BY <1>1, <1>2, <1>3, <1>4, AnchoredKept
<1>6. Forward
  BY <1>2 DEF Forward
<1> QED BY <1>5, <1>6

LEMMA AnchoredCalm ==
  ASSUME TypeOK, Anchored, Calm, data.newest <= data'.newest
  PROVE  Anchored' /\ Forward
BY AnchoredSame DEF Calm

LEMMA ConcludeLive ==
  ASSUME Typed, ~Idle, NEW n \in Nodes, NEW wait \in Waits, NEW status \in Statuses, NEW h \in Histories, NEW rest \in Seq(Chores),
         Conclude(n, wait, status, h, rest), Head(agenda).call # "supersede"
  PROVE  /\ TypeOK' /\ history'[n] = h /\ \A m \in Nodes \ {n} : history'[m] = history[m]
         /\ graph' = graph /\ data' = data
         /\ \A m \in Nodes : Live(m)' => LiveStays(m)
<1>1. /\ TypeOK' /\ slot'[n].running = slot[n].running
      /\ \A m \in Nodes \ {n} : slot'[m] = slot[m] /\ history'[m] = history[m]
      /\ graph' = graph /\ data' = data /\ epoch' = epoch
  BY ConcludeFacts DEF Typed
<1>2. history'[n] = h
  BY DEF Conclude, Typed, TypeOK
<1>3. \A m \in Nodes : slot'[m].running = slot[m].running
  BY <1>1
<1>4. Members(agenda) = {Head(agenda)} \cup Rest /\ Rest \subseteq Members(agenda')
  BY ConcludeMembers DEF Typed
<1>5. \A c \in Members(agenda) : c.call = "supersede" => c \in Members(agenda')
  BY <1>4
<1>6. ASSUME NEW m \in Nodes, Live(m)' PROVE LiveStays(m)
  BY <1>1, <1>3, <1>5, <1>6, LiveKept
<1> QED BY <1>1, <1>2, <1>6

LEMMA AnchoredServe == Typed /\ Stocked /\ ServeStep /\ Anchored => Anchored' /\ Forward
<1> SUFFICES ASSUME Typed, Stocked, ServeStep, Anchored PROVE Anchored' /\ Forward
  OBVIOUS
<1>0. PICK n : n = Callee
  OBVIOUS
<1>1. Calls("serve") /\ n \in Nodes /\ ~Idle /\ TypeOK' /\ Head(agenda).call = "serve"
  BY <1>0, ServeWays DEF Calls
<1>2. PICK A : Closed(A) /\ Covers(A)
  BY DEF Anchored
<1>3. CASE ServeWithdrawn
  <2>1. /\ Members(agenda) = {Head(agenda)} \cup Rest /\ Members(agenda') = Members(Unused) \cup Rest
        /\ graph' = graph /\ epoch' = epoch /\ held' = held /\ slot' = slot /\ history' = history /\ data' = data
    BY <1>3, WithdrawnFacts
  <2>2. \A c \in Members(agenda) : c.call = "supersede" => c \in Members(agenda')
    BY <1>1, <2>1
  <2>3. \A m \in Nodes : slot'[m].running = slot[m].running /\ history'[m] = history[m]
    BY <2>1
  <2>4. \A m \in Nodes : Live(m)' => LiveStays(m)
    BY <2>1, <2>2, <2>3, LiveKept
  <2>5. data.newest <= data'.newest
    BY <2>1 DEF Typed, TypeOK
  <2> QED BY <1>1, <2>1, <2>3, <2>4, <2>5, AnchoredSame DEF Typed
<1>4. CASE ServeRun
  <2>1. /\ Members(agenda) = {Head(agenda)} \cup Rest /\ Members(agenda') = Rest
        /\ Servable(n) /\ Staged(n).ok /\ slot[n].cursor \in Times
        /\ \A m \in Nodes \ {n} : slot'[m] = slot[m]
        /\ slot'[n].running = [key |-> Staged(n).key, stamp |-> Staged(n).stamp, t |-> slot[n].cursor, cancelled |-> FALSE]
        /\ graph' = graph /\ epoch' = epoch /\ held' = held /\ history' = history /\ data' = data
    BY <1>0, <1>4, RunFacts
  <2>2. PICK stamp : stamp = Staged(n).stamp
    OBVIOUS
  <2>3. slot'[n].running.stamp = stamp
    BY <2>1, <2>2
  <2>4. stamp \in Nat /\ Grounded(A, n, stamp)
    BY <1>1, <1>2, <2>1, <2>2, StagedTypes, StagedGrounded DEF Typed, Stocked, Servable
  <2>5. {stamp} \in SUBSET Nat /\ (\A s \in {stamp} : Grounded(A, n, s)) /\ stamp \in {stamp}
    BY <2>4
  <2>6. Carries(A, n, {stamp}, history'[n])
    BY <1>1, <1>2, <2>1, SameCarries
  <2>7. \A c \in Members(agenda) : c.call = "supersede" => c \in Members(agenda')
    BY <1>1, <2>1
  <2>8. ASSUME NEW m \in Nodes, Live(m)'
        PROVE  LiveStays(m) \/ (m = n /\ slot'[m].running.stamp \in {stamp})
    <3>1. CASE m = n
      BY <2>3, <3>1
    <3>2. CASE m # n
      <4>1. slot'[m].running = slot[m].running
        BY <2>1, <3>2
      <4> QED BY <2>1, <2>7, <2>8, <4>1, LiveKept
    <3> QED BY <3>1, <3>2
  <2>9. \A m \in Nodes \ {n} : history'[m] = history[m]
    BY <2>1
  <2> QED BY <1>1, <1>2, <2>1, <2>5, <2>6, <2>8, <2>9, AnchoredCarried DEF Typed
<1>5. CASE \E wait \in Waits, status \in Statuses, h \in Histories :
             Conclude(Callee, wait, status, h, Unused) /\ Way(Callee, status, h)
  <2>1. PICK wait \in Waits, status \in Statuses, h \in Histories :
             Conclude(n, wait, status, h, Unused) /\ Way(n, status, h)
    BY <1>0, <1>5
  <2>2. PICK S \in SUBSET Nat : (\A s \in S : Grounded(A, n, s)) /\ Carries(A, n, S, h)
    BY <1>1, <1>2, <2>1, WayCarries
  <2>3. Unused \in Seq(Chores)
    BY <1>1, UnusedFacts DEF Typed
  <2>4. /\ TypeOK' /\ history'[n] = h /\ \A m \in Nodes \ {n} : history'[m] = history[m]
        /\ graph' = graph /\ data' = data
        /\ \A m \in Nodes : Live(m)' => LiveStays(m)
    BY <1>1, <2>1, <2>3, ConcludeLive
  <2> QED BY <1>1, <1>2, <2>2, <2>4, AnchoredCarried DEF Typed
<1> QED BY <1>0, <1>3, <1>4, <1>5, ServeWays

(* The settlement at hand is of a run that fits. *)
LEMMA SettleFit ==
  ASSUME Typed, Settling, Settle
  PROVE  /\ Fit(Callee, Head(agenda).stamp) /\ slot[Callee].cursor \in Times /\ revision[Callee] > 0
<1>1. ~Idle /\ Head(agenda).call = "settle"
  BY SettleFacts DEF Calls
<1>2. Head(agenda) = agenda[1] /\ 1 \in 1 .. Len(agenda) /\ Head(agenda) \in Members(agenda)
  BY <1>1, HeadFacts DEF Typed, Members
<1>3. slot[Callee].cursor \in Times /\ revision[Callee] > 0
  BY <1>1, <1>2 DEF Typed, Known, Callee
<1>4. Fit(Callee, Head(agenda).stamp)
  BY <1>1, <1>2 DEF Settling, Callee
<1> QED BY <1>3, <1>4

LEMMA AnchoredSettle == Typed /\ Stocked /\ Settling /\ Settle /\ Anchored => Anchored' /\ Forward
<1> SUFFICES ASSUME Typed, Stocked, Settling, Settle, Anchored PROVE Anchored' /\ Forward
  OBVIOUS
<1>0. PICK n, stamp : n = Callee /\ stamp = Head(agenda).stamp
  OBVIOUS
<1> DEFINE h == TombstonesSuperseded(n, history[n], stamp)
           none == <<>>
<1>1. /\ Calls("settle") /\ ~Idle /\ n \in Nodes /\ h \in Histories /\ stamp \in Nat
      /\ Conclude(n, "none", "ready", h, none)
  BY <1>0, SettleFacts
<1>2. "none" \in Waits /\ "ready" \in Statuses /\ none \in Seq(Chores) /\ Head(agenda).call # "supersede"
  BY <1>1 DEF Waits, Statuses, Calls
<1> HIDE DEF none
<1>3. PICK A : Closed(A) /\ Covers(A)
  BY DEF Anchored
<1>4. Fit(n, stamp) /\ slot[n].cursor \in Times /\ slot[n].cursor \in Nat /\ history[n] \in Histories
  BY <1>0, <1>1, SettleFit, ConstantFacts DEF Typed, TypeOK
<1>5. \A s \in Nat : <<n, s>> \in A /\ s <= slot[n].cursor => s <= stamp
  BY <1>1, <1>3, <1>4, Behind DEF Fit, Stocked
<1>6. PICK S : S = {}
  OBVIOUS
<1>7. S \in SUBSET Nat /\ (\A s \in S : Grounded(A, n, s))
  BY <1>6
<1>8. Carries(A, n, S, h)
  BY <1>1, <1>3, <1>4, <1>5, SameCarries, SupersededCarries
<1> HIDE DEF h
<1>9. /\ TypeOK' /\ history'[n] = h /\ \A m \in Nodes \ {n} : history'[m] = history[m]
      /\ graph' = graph /\ data' = data
      /\ \A m \in Nodes : Live(m)' => LiveStays(m)
  BY <1>1, <1>2, ConcludeLive
<1> QED BY <1>1, <1>3, <1>7, <1>8, <1>9, AnchoredCarried DEF Typed

LEMMA AnchoredFinish ==
  ASSUME Typed, Stocked, Anchored, NEW n \in Nodes, NEW outcome, FinishRun(n, outcome)
  PROVE  Anchored' /\ Forward
<1>1. /\ Idle /\ TypeOK' /\ graph' = graph /\ epoch' = epoch /\ data' = data /\ slot[n].cursor \in Times
      /\ \A m \in Nodes \ {n} : history'[m] = history[m]
      /\ \A m \in Nodes \ {n} : slot'[m] = slot[m]
      /\ slot'[n].running = NoRun
  BY FinishFacts
<1>2. history'[n] = Filed(n, outcome)
  BY FinishFacts, Zenon
<1>3. Live(n) /\ JobGood(n, slot[n].running)
  BY FinishShelf
<1>4. PICK A : Closed(A) /\ Covers(A)
  BY DEF Anchored
<1>5. PICK stamp : stamp = slot[n].running.stamp
  OBVIOUS
<1>6. <<n, stamp>> \in A /\ stamp \in Nat
  BY <1>3, <1>4, <1>5 DEF Covers, Closed
<1>7. history[n] \in Histories /\ Ordered(n, history[n])
  BY DEF Stocked, Shelf, Typed, TypeOK
<1>8. PICK S : S = {}
  OBVIOUS
<1>9. S \in SUBSET Nat /\ (\A s \in S : Grounded(A, n, s))
  BY <1>8
<1>10. ServesNow(n, outcome) => (PinnedAt[n] # NoTime => \A s \in Nat : <<n, s>> \in A => s <= stamp)
  <2> SUFFICES ASSUME ServesNow(n, outcome), PinnedAt[n] # NoTime, NEW s \in Nat, <<n, s>> \in A PROVE s <= stamp
    OBVIOUS
  <2>1. Staged(n).ok /\ stamp = Staged(n).stamp
    BY <1>5, ServesStamp
  <2>2. s <= slot[n].cursor
    BY <1>1, <1>4, PinnedAnchors
  <2> QED BY <1>1, <1>4, <2>1, <2>2, Behind DEF Stocked
<1>11. Carries(A, n, S, history'[n])
  <2> DEFINE shown == outcome = "shown"
             cacheOnly == ~ServesNow(n, outcome)
  <2>1. \/ Filed(n, outcome) = Published(n, stamp, Stored(n, outcome), shown, cacheOnly)
        \/ Filed(n, outcome) = Cleared(n, stamp) /\ ServesNow(n, outcome)
        \/ Filed(n, outcome) = history[n]
    BY <1>5 DEF Filed
  <2>2. PinnedAt[n] # NoTime => cacheOnly \/ \A s \in Nat : <<n, s>> \in A => s <= stamp
    BY <1>10
  <2> HIDE DEF shown, cacheOnly
  <2>3. Carries(A, n, S, Published(n, stamp, Stored(n, outcome), shown, cacheOnly))
    BY <1>4, <1>6, <1>7, <2>2, PublishedCarries
  <2>4. ServesNow(n, outcome) => Carries(A, n, S, Cleared(n, stamp))
    BY <1>4, <1>6, <1>7, <1>10, ClearedCarries
  <2>5. Carries(A, n, S, history[n])
    BY <1>4, SameCarries
  <2> QED BY <1>2, <2>1, <2>3, <2>4, <2>5
<1>12. ASSUME NEW m \in Nodes, Live(m)' PROVE LiveStays(m)
  <2>1. m # n
    BY <1>1, <1>12 DEF Live
  <2>2. slot'[m].running = slot[m].running
    BY <1>1, <2>1
  <2> QED BY <1>1, <1>12, <2>2, LiveKept, IdleSupersede DEF Typed
<1> QED BY <1>1, <1>4, <1>9, <1>11, <1>12, AnchoredCarried DEF Typed

LEMMA AnchoredEmpty ==
  ASSUME \A m \in Nodes : ~Live(m)' /\ \A e \in history'[m].ring : ~IsResult(e)
  PROVE  Anchored'
<1>1. Closed({})' /\ Covers({})'
  BY DEF Closed, Covers
<1> QED BY <1>1 DEF Anchored

(* Where nodes lose their results, what stays reads none of them, unless it *)
(* is gone.                                                                 *)
LEMMA AnchoredChanged ==
  ASSUME TypeOK', Anchored, data' = data, NEW D,
         \A m \in Nodes : m \in D => ~Live(m)' /\ history'[m].ring = {},
         \A m \in Nodes \ D : /\ revision'[m] = revision[m] /\ history'[m] = history[m]
                              /\ Live(m)' => Live(m) /\ slot'[m].running = slot[m].running,
         \A m \in Nodes \ D : \A u \in UpstreamsOf(m) : revision[m] > 0 /\ u \in D => revision'[u] = 0
  PROVE  Anchored'
<1>1. PICK A : Closed(A) /\ Covers(A)
  BY DEF Anchored
<1> DEFINE B == {pair \in A : pair[1] \notin D}
<1>2. B \subseteq Nodes \X Nat /\ \A m, s : <<m, s>> \in B <=> <<m, s>> \in A /\ m \notin D
  BY <1>1 DEF Closed
<1> HIDE DEF B
<1>3. ASSUME NEW m \in Nodes, NEW s \in Nat, <<m, s>> \in B PROVE Grounded(B, m, s)'
  <2>1. m \in Nodes \ D /\ Grounded(A, m, s)
    BY <1>1, <1>2, <1>3 DEF Closed
  <2>2. revision'[m] > 0 /\ revision[m] > 0 /\ (PinnedAt[m] # NoTime => s <= PinnedAt[m])
    BY <2>1 DEF Grounded
  <2>3. CASE m \in RawNodes /\ s <= data.newest
    BY <2>2, <2>3 DEF Grounded
  <2>4. ASSUME NEW u \in UpstreamsOf(m), revision[u] = 0 \/ (<<u, s>> \in A /\ SupportsIn(u, history[u], s))
        PROVE  revision'[u] = 0 \/ (<<u, s>> \in B /\ SupportsIn(u, history'[u], s))
    <3>1. u \in Nodes
      BY UpstreamNodes
    <3>2. CASE u \in D
      BY <2>1, <2>2, <3>2
    <3>3. CASE u \notin D
      BY <1>2, <2>4, <3>1, <3>3
    <3> QED BY <3>2, <3>3
  <2> QED BY <2>1, <2>2, <2>3, <2>4 DEF Grounded
<1>4. Closed(B)'
  BY <1>2, <1>3 DEF Closed
<1>5. ASSUME NEW m \in Nodes
      PROVE  /\ \A e \in history'[m].ring : IsResult(e) => <<m, e.stamp>> \in B
             /\ Live(m)' => <<m, slot'[m].running.stamp>> \in B
  <2>1. CASE m \in D
    BY <2>1
  <2>2. CASE m \notin D
    BY <1>1, <1>2, <2>2 DEF Covers
  <2> QED BY <2>1, <2>2
<1>6. Covers(B)'
  BY <1>5 DEF Covers
<1> QED BY <1>4, <1>6 DEF Anchored

LEMMA AnchoredInstall ==
  ASSUME Typed, Stocked, Anchored, NEW n \in Nodes, Install(n)
  PROVE  Anchored'
<1> DEFINE D == {n} \cup Members(DependentsOf(n))
<1>1. /\ Idle /\ TypeOK' /\ \A m \in Nodes \ {n} : revision'[m] = revision[m]
      /\ \A m \in D : m \in Nodes /\ history'[m] = Dropped(history[m])
      /\ \A m \in Nodes \ D : history'[m] = history[m]
      /\ Members(agenda') = {Supersede(m) : m \in D}
      /\ epoch' = epoch /\ data' = data /\ slot' = slot
  BY InstallFacts
<1>2. n \in D /\ \A m \in Nodes : \A u \in UpstreamsOf(m) : revision[m] > 0 /\ u \in D => m \in D
  <2>1. \A m \in Nodes : revision[m] > 0 /\ n \in UpstreamsOf(m) => m \in Members(DependentsOf(n))
    BY DependentsFacts
  <2>2. \A m, u \in Nodes : /\ revision[m] > 0 /\ u \in UpstreamsOf(m) /\ u \in Members(DependentsOf(n))
                             => m \in Members(DependentsOf(n))
    BY DependentsFacts
  <2>3. \A m \in Nodes : \A u \in UpstreamsOf(m) : u \in Nodes
    BY UpstreamNodes
  <2> QED BY <2>1, <2>2, <2>3
<1> HIDE DEF D
<1>3. ASSUME NEW m \in Nodes, m \in D PROVE ~Live(m)' /\ history'[m].ring = {}
  <2>1. Supersede(m) \in Members(agenda')
    BY <1>1, <1>3
  <2>2. Supersede(m).call = "supersede" /\ Supersede(m).node = m
    BY CallNames
  <2>3. To("supersede", m)'
    BY <2>1, <2>2 DEF To
  <2>4. history[m] \in Histories
    BY DEF Typed, TypeOK
  <2> QED BY <1>1, <1>3, <2>3, <2>4, DroppedFacts DEF Live
<1>4. \A m \in Nodes : ~To("supersede", m)
  BY <1>1, IdleSupersede DEF Typed
<1>5. ASSUME NEW m \in Nodes \ D
      PROVE  /\ revision'[m] = revision[m] /\ history'[m] = history[m]
             /\ Live(m)' => Live(m) /\ slot'[m].running = slot[m].running
  BY <1>1, <1>2, <1>4 DEF Live
<1> QED BY <1>1, <1>2, <1>3, <1>5, AnchoredChanged

LEMMA AnchoredRemove ==
  ASSUME Typed, Stocked, Anchored, NEW n \in Nodes, Remove(n)
  PROVE  Anchored'
<1>1. /\ Idle /\ TypeOK' /\ revision'[n] = 0 /\ \A m \in Nodes \ {n} : revision'[m] = revision[m]
      /\ slot'[n] = NoSlot /\ \A m \in Nodes \ {n} : slot'[m] = slot[m]
      /\ history'[n] = NoHistory /\ \A m \in Nodes \ {n} : history'[m] = history[m]
      /\ epoch' = epoch /\ data' = data
  BY RemoveFacts
<1>2. ASSUME NEW m \in Nodes, m \in {n} PROVE ~Live(m)' /\ history'[m].ring = {}
  BY <1>1, <1>2 DEF Live, NoSlot, NoHistory
<1>3. \A m \in Nodes : ~To("supersede", m)
  BY <1>1, IdleSupersede DEF Typed
<1>4. ASSUME NEW m \in Nodes \ {n}
      PROVE  /\ revision'[m] = revision[m] /\ history'[m] = history[m]
             /\ Live(m)' => Live(m) /\ slot'[m].running = slot[m].running
  BY <1>1, <1>3 DEF Live
<1>5. \A m \in Nodes \ {n} : \A u \in UpstreamsOf(m) : revision[m] > 0 /\ u \in {n} => revision'[u] = 0
  BY <1>1
<1> QED BY <1>1, <1>2, <1>4, <1>5, AnchoredChanged

LEMMA AnchoredInit == Init => Anchored
<1> SUFFICES ASSUME Init PROVE Anchored
  OBVIOUS
<1>1. \A m \in Nodes : slot[m].running = NoRun /\ history[m].ring = {}
  BY DEF Init, NoSlot, NoHistory
<1>2. Closed({}) /\ Covers({})
  BY <1>1 DEF Closed, Covers, Live
<1> QED BY <1>2 DEF Anchored

LEMMA AnchoredStep == Typed /\ Stocked /\ Settling /\ Anchored /\ [Next]_vars => Anchored'
<1> SUFFICES ASSUME Typed, Stocked, Settling, Anchored, [Next]_vars PROVE Anchored'
  OBVIOUS
<1>0. TypeOK /\ TypeOK' /\ data.newest \in Nat
  BY TypedStep DEF Typed, TypeOK
<1>1. CASE CallStep
  <2>1. CASE \/ RequestAt \/ SupersedeNode \/ BindNext \/ RegisterReader \/ ServeOneReader \/ WithdrawNode \/ ReturnRoom
             \/ DrainBegins \/ Grant
    <3>1. Calm
      BY <2>1, StockedRequest, StockedSupersede, StockedCalls
    <3>2. data' = data
      BY <2>1, RequestFacts, SupersedeFacts, BindFacts, RegisterFacts, OneReaderFacts, WithdrawFacts, ReturnFacts, DrainFacts, GrantFacts
    <3>3. data.newest <= data'.newest
      BY <1>0, <3>2
    <3> QED BY <1>0, <3>1, <3>3, AnchoredCalm
  <2> QED BY <1>1, <2>1, AnchoredServe, AnchoredSettle DEF CallStep
<1>2. CASE \/ PostedDrain \/ Arrive \/ Retire \/ UNCHANGED vars \/ FinishOrphan \/ \E n \in Nodes : FinishDropped(n)
  <2>1. Calm
    BY <1>2, StockedEvents, StockedNotTaken, StockedStutter
  <2>2. data.newest <= data'.newest
    <3>1. CASE PostedDrain
      BY <1>0, <3>1, PostedFacts
    <3>2. CASE Arrive
      BY <1>0, <3>2, ArriveFacts
    <3>3. CASE Retire
      BY <1>0, <3>3, RetireFacts
    <3>4. CASE UNCHANGED vars
      BY <1>0, <3>4 DEF vars
    <3>5. CASE FinishOrphan
      BY <1>0, <3>5, OrphanFacts
    <3>6. CASE \E n \in Nodes : FinishDropped(n)
      <4>1. PICK n \in Nodes : FinishDropped(n)
        BY <3>6
      <4>2. data' = data
        BY <4>1 DEF FinishDropped
      <4> QED BY <1>0, <4>2
    <3> QED BY <1>2, <3>1, <3>2, <3>3, <3>4, <3>5, <3>6
  <2> QED BY <1>0, <2>1, <2>2, AnchoredCalm
<1>3. ASSUME NEW n \in Nodes, NEW outcome, FinishRun(n, outcome) PROVE Anchored'
  BY <1>3, AnchoredFinish
<1>4. ASSUME (\E n \in Nodes : WithdrawEvent(n) \/ \E t \in Times : RequestEvent(n, t)) PROVE Anchored'
  <2>1. Calm
    BY <1>4, StockedEvents
  <2>2. data' = data
    BY <1>4, WithdrawEventFacts, RequestEventFacts
  <2>3. data.newest <= data'.newest
    BY <1>0, <2>2
  <2> QED BY <1>0, <2>1, <2>3, AnchoredCalm
<1>5. CASE Suspend
  <2>1. \A m \in Nodes : history'[m] = Dropped(history[m]) /\ (slot'[m].running # NoRun => slot'[m].running.cancelled)
    BY <1>5, SuspendFacts
  <2>2. \A m \in Nodes : history[m] \in Histories
    BY <1>0 DEF TypeOK
  <2>3. ASSUME NEW m \in Nodes PROVE ~Live(m)' /\ history'[m].ring = {}
    BY <2>1, <2>2, DroppedFacts DEF Live
  <2> QED BY <2>3, AnchoredEmpty
<1>6. CASE Replace
  <2>1. Calm /\ held > 0
    BY <1>6, StockedEvents, ReplaceFacts
  <2>2. ASSUME NEW m \in Nodes PROVE ~Live(m)' /\ history'[m].ring = {}
    BY <2>1 DEF Stocked, Under, Calm, LiveStays
  <2> QED BY <2>2, AnchoredEmpty
<1>7. CASE Resume
  <2>1. Idle /\ held > 0 /\ graph' = graph /\ epoch' = epoch /\ slot' = slot /\ history' = history
    BY <1>7, ResumeFacts
  <2>2. revision' = revision
    BY <2>1 DEF revision
  <2>3. \A m \in Nodes : history[m].ring = {} /\ ~Live(m) /\ ~To("supersede", m)
    BY <2>1, IdleSupersede DEF Stocked, Under, Typed
  <2>4. ASSUME NEW m \in Nodes PROVE ~Live(m)' /\ history'[m].ring = {}
    BY <2>1, <2>2, <2>3 DEF Live
  <2> QED BY <2>4, AnchoredEmpty
<1>8. CASE Environment
  BY <1>2, <1>4, <1>5, <1>6, <1>7, <1>8, AnchoredInstall, AnchoredRemove DEF Environment
<1> QED BY <1>1, <1>2, <1>3, <1>8 DEF Next, Finish

-----------------------------------------------------------------------------
(* What a settled node was told: Answered, and the three invariants. *)

(* A tombstone at a stamp no older than any result up to t: nothing is *)
(* shown at t.                                                         *)
LEMMA ClearedHides ==
  ASSUME TypeOK, NEW n \in Nodes, Ordered(n, history[n]), Meant(n, history[n]), NEW stamp \in Nat, NEW t \in Nat, stamp <= t,
         PinnedAt[n] # NoTime => stamp <= PinnedAt[n],
         \A e \in history[n].ring : IsResult(e) /\ e.stamp <= t => e.stamp <= stamp
  PROVE  ~ShowsAvailable(Cleared(n, stamp), t)
<1> DEFINE h == Cleared(n, stamp)
<1>1. h \in Histories /\ history[n] \in Histories
  BY ClearedTypes DEF TypeOK
<1>2. Ordered(n, h)
  BY ClearedSound DEF Sound
<1>3. At(n, stamp) \in Nat /\ At(n, stamp) <= stamp
  <2>1. At(n, stamp) = stamp \/ At(n, stamp) = 0
    BY AtFacts
  <2> QED BY <2>1
<1> SUFFICES ASSUME NEW e \in ShownAt(h, t), e.available PROVE FALSE
  BY DEF ShowsAvailable
<1>4. /\ e \in h.ring /\ e.at <= t /\ e.stamp <= t /\ \A other \in h.ring : other.at <= t => other.at <= e.at
      /\ e.at \in Nat /\ e.stamp \in Nat
  <2>1. e \in h.ring /\ e.at <= t /\ e.stamp <= t /\ \A other \in h.ring : other.at <= t => other.at <= e.at
    BY DEF ShownAt
  <2> QED BY <1>1, <2>1, HistoryTypes
<1>5. IsResult(e) /\ e.at = At(n, e.stamp)
  BY <1>2, <1>4 DEF Ordered
<1> HIDE DEF h
<1>6. CASE h = Published(n, stamp, Key(n, {}), FALSE, FALSE)
  <2> DEFINE no == FALSE
  <2>1. ~no /\ h = Published(n, stamp, Key(n, {}), no, no)
    BY <1>6
  <2> HIDE DEF no
  <2>2. PICK f \in h.ring : f.at = At(n, stamp) /\ f.key = Key(n, {})
    BY <1>1, <2>1, PublishedHas
  <2>3. ~IsResult(f)
    BY <2>2, KeyOf DEF IsResult
  <2>4. e \in history[n].ring
    <3>1. Key(n, {}).inputs = {}
      BY KeyOf
    <3>2. e \in history[n].ring \/ e.key = Key(n, {})
      BY <1>1, <1>4, <2>1, PublishedNew
    <3> QED BY <1>5, <3>1, <3>2 DEF IsResult
  <2>5. e.stamp <= stamp
    BY <1>4, <1>5, <2>4
  <2>6. e.at <= At(n, stamp)
    <3>1. CASE PinnedAt[n] = NoTime
      <4>1. At(n, stamp) = stamp /\ At(n, e.stamp) = e.stamp
        BY <1>4, <3>1, AtFacts
      <4> QED BY <1>5, <2>5, <4>1
    <3>2. CASE PinnedAt[n] # NoTime
      <4>1. At(n, stamp) = 0 /\ At(n, e.stamp) = 0
        BY <1>4, <3>2, AtFacts
      <4> QED BY <1>5, <4>1
    <3> QED BY <3>1, <3>2
  <2>7. At(n, stamp) <= e.at
    <3>1. f.at <= t
      BY <1>3, <2>2
    <3> QED BY <1>4, <2>2, <3>1
  <2>8. e.at = f.at
    BY <1>3, <1>4, <2>2, <2>6, <2>7
  <2> QED BY <1>2, <1>4, <1>5, <2>3, <2>8 DEF Ordered
<1>7. CASE h = history[n] /\ ~ShowsAvailable(history[n], stamp)
  <2>1. e.stamp <= stamp
    BY <1>4, <1>5, <1>7
  <2>2. e.at <= stamp
    <3>1. e.at = e.stamp \/ e.at = 0
      BY <1>4, <1>5, AtFacts
    <3> QED BY <2>1, <3>1
  <2>3. \A other \in h.ring : other.at <= stamp => other.at <= e.at
    <3>1. \A other \in h.ring : other.at \in Nat
      BY <1>1, HistoryTypes
    <3> QED BY <1>4, <3>1
  <2>4. e \in ShownAt(h, stamp)
    BY <1>4, <2>1, <2>2, <2>3 DEF ShownAt
  <2> QED BY <1>7, <2>4 DEF ShowsAvailable
<1> QED BY <1>6, <1>7, ClearedShape DEF h

(* However a serve settles its node, it tells it what is shown. *)
TellsReady(n, h) == \E e \in ShownAt(h, slot[n].cursor) : IsResult(e)

LEMMA WayTells ==
  ASSUME Typed, Stocked, Anchored, NEW n \in Nodes, NEW status, NEW h, Way(n, status, h)
  PROVE  /\ status = "ready" => TellsReady(n, h)
         /\ status \in {"missing", "error"} => ~ShowsAvailable(h, slot[n].cursor)
<1>1. PICK A : Closed(A) /\ Covers(A)
  BY DEF Anchored
<1>2. TypeOK /\ Ordered(n, history[n]) /\ Meant(n, history[n]) /\ history[n] \in Histories /\ Shelf
  BY DEF Stocked, Shelf, Typed, TypeOK
<1>3. CASE status = "pending"
  BY <1>3
<1>4. CASE Servable(n)
  <2>1. slot[n].cursor \in Times /\ slot[n].cursor \in Nat /\ (PinnedAt[n] # NoTime => slot[n].cursor = PinnedAt[n])
    BY <1>4, ConstantFacts DEF Servable, Typed, Known
  <2>2. CASE status = "missing" /\ h = Cleared(n, slot[n].cursor)
    <3>1. slot[n].cursor <= slot[n].cursor
      BY <2>1
    <3>2. ~ShowsAvailable(h, slot[n].cursor)
      BY <1>2, <2>1, <2>2, <3>1, ClearedHides
    <3> QED BY <2>2, <3>2
  <2>3. CASE status = "ready" /\ h = history[n] /\ ShowsAvailable(h, slot[n].cursor)
    <3>1. PICK e \in ShownAt(h, slot[n].cursor) : e.available
      BY <2>3 DEF ShowsAvailable
    <3>2. e \in history[n].ring
      BY <2>3 DEF ShownAt
    <3>3. IsResult(e)
      BY <1>2, <3>1, <3>2 DEF Ordered
    <3> QED BY <2>3, <3>3 DEF TellsReady
  <2>4. CASE Staged(n).ok
    <3>1. PICK stamp : stamp = Staged(n).stamp
      OBVIOUS
    <3>2. stamp \in Nat /\ stamp <= slot[n].cursor
      BY <1>2, <2>1, <3>1, StagedTypes
    <3>3. CASE status = "error" /\ h = Cleared(n, stamp)
      <4>1. ASSUME NEW e \in history[n].ring, IsResult(e), e.stamp <= slot[n].cursor PROVE e.stamp <= stamp
        <5>1. <<n, e.stamp>> \in A
          BY <1>1, <4>1 DEF Covers
        <5>2. e.stamp \in Nat
          BY <1>2, <4>1, HistoryTypes
        <5> QED BY <1>1, <1>2, <2>1, <2>4, <3>1, <4>1, <5>1, <5>2, Behind
      <4>2. PinnedAt[n] # NoTime => stamp <= PinnedAt[n]
        BY <2>1, <3>2
      <4>3. ~ShowsAvailable(h, slot[n].cursor)
        BY <1>2, <2>1, <3>2, <3>3, <4>1, <4>2, ClearedHides
      <4> QED BY <3>3, <4>3
    <3>4. ASSUME NEW g, Hit(n, g), status = "ready", h = TombstonesSuperseded(n, g, stamp) PROVE TellsReady(n, h)
      <4>1. g \in Histories /\ Ordered(n, g) /\ \E e \in g.ring : e.at = At(n, stamp) /\ IsResult(e)
        BY <1>2, <2>1, <2>4, <3>1, <3>4, HitHas
      <4>2. PICK e \in g.ring : e.at = At(n, stamp) /\ IsResult(e)
        BY <4>1
      <4> QED BY <2>1, <3>2, <3>4, <4>1, <4>2, ShownAfter DEF TellsReady
    <3> QED BY <1>3, <2>2, <2>3, <3>1, <3>3, <3>4 DEF Way
  <2> QED BY <1>3, <2>2, <2>3, <2>4 DEF Way
<1> QED BY <1>3, <1>4 DEF Way

(* A run that fits shows its result once the tombstones after it are gone. *)
LEMMA FitTells ==
  ASSUME Typed, Stocked, NEW n \in Nodes, NEW stamp, Fit(n, stamp), slot[n].cursor \in Times
  PROVE  TellsReady(n, TombstonesSuperseded(n, history[n], stamp))
<1>1. history[n] \in Histories /\ Ordered(n, history[n]) /\ Staged(n).ok /\ stamp = Staged(n).stamp
  BY DEF Stocked, Shelf, Typed, TypeOK, Fit
<1>2. stamp \in Nat /\ stamp <= slot[n].cursor /\ Staged(n).key.inputs = {<<input[1], input[2]>> : input \in Taken(n)}
  BY <1>1, StagedTypes DEF Typed
<1>3. PICK e \in history[n].ring : e.at = At(n, stamp) /\ Serves(e.key, Staged(n).key, slot[n].cursor)
  BY DEF Fit
<1>4. IsResult(e)
  <2>1. Taken(n) # {}
    BY <1>1, OkTaken
  <2>2. e.key.inputs = {<<input[1], input[2]>> : input \in Taken(n)}
    BY <1>2, <1>3 DEF Serves
  <2> QED BY <2>1, <2>2 DEF IsResult
<1> QED BY <1>1, <1>2, <1>3, <1>4, ShownAfter DEF TellsReady

(* What a settled node is told holds, unless a call will serve it again. *)
Told(n) ==
  /\ slot[n].status = "ready" /\ held = 0 => \E e \in ShownAt(history[n], slot[n].cursor) : IsResult(e)
  /\ slot[n].status \in {"missing", "error"} => ~ShowsAvailable(history[n], slot[n].cursor)
Answered == \A n \in Nodes : slot[n].requested => Due(n) \/ Told(n)

(* A step that leaves n as it is, with the calls due to it. *)
Alike(n) ==
  /\ slot'[n].requested = slot[n].requested /\ slot'[n].status = slot[n].status /\ slot'[n].cursor = slot[n].cursor
  /\ history'[n] = history[n] /\ (held' = 0 => held = 0)
  /\ \A c \in Members(agenda) : c.call \in DueCalls /\ c.node = n => c \in Members(agenda')

LEMMA AnsweredKept ==
  ASSUME Answered, \A n \in Nodes : ~slot'[n].requested \/ Due(n)' \/ Told(n)' \/ Alike(n)
  PROVE  Answered'
<1> SUFFICES ASSUME NEW n \in Nodes, slot'[n].requested PROVE Due(n)' \/ Told(n)'
  BY DEF Answered
<1>1. CASE Alike(n)
  <2>1. Due(n) \/ Told(n)
    BY <1>1 DEF Answered, Alike
  <2>2. Due(n) => Due(n)'
    BY <1>1 DEF Due, Alike, DueCalls
  <2>3. Told(n) => Told(n)'
    BY <1>1 DEF Told, Alike, ShowsAvailable, ShownAt
  <2> QED BY <2>1, <2>2, <2>3
<1> QED BY <1>1

(* The nodes a call is not on. *)
LEMMA OthersAlike ==
  ASSUME ~Idle, Members(agenda) = {Head(agenda)} \cup Rest, Rest \subseteq Members(agenda'), NEW n, Callee = n,
         \A m \in Nodes \ {n} : slot'[m] = slot[m] /\ history'[m] = history[m], held' = held
  PROVE  \A m \in Nodes \ {n} : Alike(m)
BY DEF Alike, Callee

(* A step that leaves every node, and the calls due. *)
LEMMA AllAlike ==
  ASSUME Answered, \A m \in Nodes : history'[m] = history[m], held' = 0 => held = 0,
         \A c \in Members(agenda) : c.call \in DueCalls => c \in Members(agenda'),
         \A m \in Nodes : slot'[m].requested = slot[m].requested /\ slot'[m].status = slot[m].status /\ slot'[m].cursor = slot[m].cursor
  PROVE  Answered'
<1>1. \A m \in Nodes : Alike(m)
  BY DEF Alike
<1> QED BY <1>1, AnsweredKept

LEMMA AnsweredConclude ==
  ASSUME Typed, ~Idle, Answered, NEW n \in Nodes, NEW wait \in Waits, NEW status \in Statuses,
         NEW h \in Histories, NEW rest \in Seq(Chores), Conclude(n, wait, status, h, rest), Callee = n,
         status = "ready" => TellsReady(n, h),
         status \in {"missing", "error"} => ~ShowsAvailable(h, slot[n].cursor)
  PROVE  Answered'
<1>1. /\ \A m \in Nodes \ {n} : slot'[m] = slot[m] /\ history'[m] = history[m]
      /\ slot'[n].cursor = slot[n].cursor /\ held' = held
  BY ConcludeFacts DEF Typed
<1>2. history'[n] = h
  BY DEF Conclude, Typed, TypeOK
<1>3. slot'[n].status = status
  BY ConcludeStatus DEF Typed
<1>4. Members(agenda) = {Head(agenda)} \cup Rest /\ Rest \subseteq Members(agenda')
  BY ConcludeMembers DEF Typed
<1>5. \A m \in Nodes \ {n} : Alike(m)
  BY <1>1, <1>4, OthersAlike
<1>6. Told(n)'
  BY <1>1, <1>2, <1>3 DEF Told, TellsReady, ShowsAvailable, ShownAt
<1> QED BY <1>5, <1>6, AnsweredKept

LEMMA AnsweredServe == Typed /\ Stocked /\ Anchored /\ ServeStep /\ Answered => Answered'
<1> SUFFICES ASSUME Typed, Stocked, Anchored, ServeStep, Answered PROVE Answered'
  OBVIOUS
<1>0. PICK n : n = Callee
  OBVIOUS
<1>1. Calls("serve") /\ n \in Nodes /\ ~Idle
  BY <1>0, ServeWays
<1>2. CASE ServeWithdrawn
  <2>1. /\ Members(agenda) = {Head(agenda)} \cup Rest /\ Members(agenda') = Members(Unused) \cup Rest
        /\ ~slot[n].requested /\ held' = held /\ slot' = slot /\ history' = history
    BY <1>0, <1>2, WithdrawnFacts
  <2>2. \A m \in Nodes \ {n} : Alike(m)
    BY <1>0, <1>1, <2>1, OthersAlike
  <2> QED BY <2>1, <2>2, AnsweredKept
<1>3. CASE ServeRun
  <2>1. /\ Members(agenda) = {Head(agenda)} \cup Rest /\ Members(agenda') = Rest
        /\ \A m \in Nodes \ {n} : slot'[m] = slot[m]
        /\ slot'[n].status = "pending" /\ held' = held /\ history' = history
    BY <1>0, <1>3, RunFacts
  <2>2. \A m \in Nodes \ {n} : Alike(m)
    BY <1>0, <1>1, <2>1, OthersAlike
  <2>3. Told(n)'
    BY <2>1 DEF Told
  <2> QED BY <2>2, <2>3, AnsweredKept
<1>4. CASE \E wait \in Waits, status \in Statuses, h \in Histories :
             Conclude(Callee, wait, status, h, Unused) /\ Way(Callee, status, h)
  <2>1. PICK wait \in Waits, status \in Statuses, h \in Histories :
             Conclude(n, wait, status, h, Unused) /\ Way(n, status, h)
    BY <1>0, <1>4
  <2>2. Unused \in Seq(Chores)
    BY <1>1, UnusedFacts DEF Typed
  <2>3. /\ status = "ready" => TellsReady(n, h)
        /\ status \in {"missing", "error"} => ~ShowsAvailable(h, slot[n].cursor)
    BY <1>1, <2>1, WayTells
  <2> QED BY <1>0, <1>1, <2>1, <2>2, <2>3, AnsweredConclude
<1> QED BY <1>2, <1>3, <1>4, ServeWays

LEMMA AnsweredSettle == Typed /\ Stocked /\ Settling /\ Settle /\ Answered => Answered'
<1> SUFFICES ASSUME Typed, Stocked, Settling, Settle, Answered PROVE Answered'
  OBVIOUS
<1>0. PICK n, stamp : n = Callee /\ stamp = Head(agenda).stamp
  OBVIOUS
<1> DEFINE h == TombstonesSuperseded(n, history[n], stamp)
           none == <<>>
<1>1. /\ Calls("settle") /\ ~Idle /\ n \in Nodes /\ h \in Histories
      /\ Conclude(n, "none", "ready", h, none)
  BY <1>0, SettleFacts
<1>2. "none" \in Waits /\ "ready" \in Statuses /\ none \in Seq(Chores)
  BY DEF Waits, Statuses
<1> HIDE DEF none
<1>3. TellsReady(n, h)
  BY <1>0, <1>1, SettleFit, FitTells
<1> HIDE DEF h
<1> QED BY <1>0, <1>1, <1>2, <1>3, AnsweredConclude

LEMMA AnsweredRequest == Typed /\ RequestAt /\ Answered => Answered'
<1> SUFFICES ASSUME Typed, RequestAt, Answered PROVE Answered'
  OBVIOUS
<1>0. PICK n : n = Callee
  OBVIOUS
<1>1. /\ ~Idle /\ n \in Nodes /\ Members(agenda) = {Head(agenda)} \cup Rest
      /\ \/ revision[n] = 0 /\ slot' = slot /\ Members(agenda') = Rest
         \/ /\ revision[n] > 0 /\ Members(agenda') = {Bind(n, 1)} \cup Rest
            /\ \A m \in Nodes \ {n} : slot'[m] = slot[m]
      /\ held' = held /\ history' = history
  BY <1>0, RequestFacts
<1>2. Rest \subseteq Members(agenda') /\ \A m \in Nodes \ {n} : slot'[m] = slot[m] /\ history'[m] = history[m]
  BY <1>1
<1>3. \A m \in Nodes \ {n} : Alike(m)
  BY <1>0, <1>1, <1>2, OthersAlike
<1>4. ~slot'[n].requested \/ Due(n)'
  <2>1. CASE revision[n] = 0
    BY <1>1, <2>1 DEF Typed, Known
  <2>2. CASE revision[n] > 0
    BY <1>1, <2>2, CallNames DEF Due, DueCalls
  <2> QED BY <1>1, <2>1, <2>2
<1> QED BY <1>3, <1>4, AnsweredKept

LEMMA AnsweredBind == Typed /\ BindNext /\ Answered => Answered'
<1> SUFFICES ASSUME Typed, BindNext, Answered PROVE Answered'
  OBVIOUS
<1>0. PICK n, i, u : n = Callee /\ i = Head(agenda).input /\ u = Reads[n][i]
  OBVIOUS
<1>1. /\ ~Idle /\ n \in Nodes /\ Members(agenda) = {Head(agenda)} \cup Rest
      /\ \/ Members(agenda') = {Serve(n, "request", FALSE)} \cup Rest
         \/ Members(agenda') = {Request(u, slot[n].cursor), Register(u, n), Bind(n, i + 1)} \cup Rest
      /\ UNCHANGED <<held, slot, history>>
  BY <1>0, BindFacts
<1>2. Rest \subseteq Members(agenda') /\ held' = held /\ \A m \in Nodes : slot'[m] = slot[m] /\ history'[m] = history[m]
  BY <1>1
<1>3. \A m \in Nodes \ {n} : Alike(m)
  <2>1. ~Idle /\ Members(agenda) = {Head(agenda)} \cup Rest
    BY <1>1
  <2> QED BY <1>0, <1>2, <2>1, OthersAlike
<1>4. Due(n)'
  <2>1. CASE Members(agenda') = {Serve(n, "request", FALSE)} \cup Rest
    <3>1. Serve(n, "request", FALSE) \in Members(agenda')
      BY <2>1
    <3> QED BY <3>1 DEF Due, Serve, DueCalls
  <2>2. CASE Members(agenda') = {Request(u, slot[n].cursor), Register(u, n), Bind(n, i + 1)} \cup Rest
    <3>1. Bind(n, i + 1) \in Members(agenda')
      BY <2>2
    <3> QED BY <3>1 DEF Due, Bind, DueCalls
  <2> QED BY <1>1, <2>1, <2>2
<1> QED BY <1>3, <1>4, AnsweredKept

LEMMA AnsweredSupersede == Typed /\ SupersedeNode /\ Answered => Answered'
<1> SUFFICES ASSUME Typed, SupersedeNode, Answered PROVE Answered'
  OBVIOUS
<1>0. PICK n : n = Callee
  OBVIOUS
<1>1. /\ ~Idle /\ n \in Nodes /\ Members(agenda) = {Head(agenda)} \cup Rest
      /\ \/ ~slot[n].requested /\ Members(agenda') = Rest
         \/ slot[n].requested /\ Members(agenda') = {Request(n, slot[n].cursor)} \cup Rest
      /\ \A m \in Nodes \ {n} : slot'[m] = slot[m]
      /\ slot'[n].requested = slot[n].requested
      /\ held' = held /\ history' = history
  BY <1>0, SupersedeFacts
<1>2. Rest \subseteq Members(agenda') /\ \A m \in Nodes \ {n} : slot'[m] = slot[m] /\ history'[m] = history[m]
  BY <1>1
<1>3. \A m \in Nodes \ {n} : Alike(m)
  BY <1>0, <1>1, <1>2, OthersAlike
<1>4. ~slot'[n].requested \/ Due(n)'
  BY <1>1, CallNames DEF Due, DueCalls
<1> QED BY <1>3, <1>4, AnsweredKept

LEMMA AnsweredWithdraw == Typed /\ WithdrawNode /\ Answered => Answered'
<1> SUFFICES ASSUME Typed, WithdrawNode, Answered PROVE Answered'
  OBVIOUS
<1>0. PICK n : n = Callee
  OBVIOUS
<1>1. /\ Calls("withdraw") /\ ~Idle /\ n \in Nodes /\ Members(agenda) = {Head(agenda)} \cup Rest
      /\ held' = held /\ history' = history /\ Rest \subseteq Members(agenda')
      /\ slot' = slot \/ ((\A m \in Nodes \ {n} : slot'[m] = slot[m]) /\ ~slot'[n].requested)
  BY <1>0, WithdrawFacts
<1>2. CASE slot' = slot
  <2>1. \A c \in Members(agenda) : c.call \in DueCalls => c \in Members(agenda')
    BY <1>1 DEF Calls, DueCalls
  <2>2. held' = 0 => held = 0
    BY <1>1
  <2> QED BY <1>1, <1>2, <2>1, <2>2, AllAlike
<1>3. CASE (\A m \in Nodes \ {n} : slot'[m] = slot[m]) /\ ~slot'[n].requested
  <2>1. \A m \in Nodes \ {n} : slot'[m] = slot[m] /\ history'[m] = history[m]
    BY <1>1, <1>3
  <2>2. \A m \in Nodes \ {n} : Alike(m)
    BY <1>0, <1>1, <2>1, OthersAlike
  <2> QED BY <1>3, <2>2, AnsweredKept
<1> QED BY <1>1, <1>2, <1>3

(* The calls due to no node, and the steps between two events that leave *)
(* every request, status and result.                                     *)
LEMMA AnsweredRest ==
  Typed /\ Answered /\
    (\/ RegisterReader \/ ServeOneReader \/ ReturnRoom \/ DrainBegins \/ Grant
     \/ PostedDrain \/ FinishOrphan \/ Replace \/ Arrive \/ Retire \/ UNCHANGED vars
     \/ \E n \in Nodes : FinishDropped(n) \/ WithdrawEvent(n) \/ \E t \in Times : RequestEvent(n, t)) => Answered'
<1> SUFFICES ASSUME Typed, Answered,
      (\/ RegisterReader \/ ServeOneReader \/ ReturnRoom \/ DrainBegins \/ Grant
       \/ PostedDrain \/ FinishOrphan \/ Replace \/ Arrive \/ Retire \/ UNCHANGED vars
       \/ \E n \in Nodes : FinishDropped(n) \/ WithdrawEvent(n) \/ \E t \in Times : RequestEvent(n, t))
             PROVE Answered'
  OBVIOUS
<1> DEFINE Still ==
      /\ \A m \in Nodes : history'[m] = history[m]
      /\ held' = 0 => held = 0
      /\ \A c \in Members(agenda) : c.call \in DueCalls => c \in Members(agenda')
      /\ \A m \in Nodes : slot'[m].requested = slot[m].requested /\ slot'[m].status = slot[m].status /\ slot'[m].cursor = slot[m].cursor
<1>1. CASE RegisterReader
  <2>0. PICK u : u = Callee
    OBVIOUS
  <2>1. /\ Calls("register") /\ Members(agenda) = {Head(agenda)} \cup Rest /\ Members(agenda') = Rest /\ held' = held
        /\ history' = history /\ \A m \in Nodes \ {u} : slot'[m] = slot[m]
        /\ slot'[u].requested = slot[u].requested /\ slot'[u].cursor = slot[u].cursor /\ slot'[u].status = slot[u].status
    BY <1>1, <2>0, RegisterFacts
  <2>2. \A c \in Members(agenda) : c.call \in DueCalls => c \in Members(agenda')
    BY <2>1 DEF Calls, DueCalls
  <2>3. \A m \in Nodes : slot'[m].requested = slot[m].requested /\ slot'[m].status = slot[m].status /\ slot'[m].cursor = slot[m].cursor
    BY <2>1
  <2> QED BY <2>1, <2>2, <2>3, AllAlike
<1>2. CASE ServeOneReader \/ ReturnRoom \/ DrainBegins
  <2>1. /\ Calls("reader") \/ Calls("giveBack") \/ Calls("drain")
        /\ Members(agenda) = {Head(agenda)} \cup Rest /\ Rest \subseteq Members(agenda')
        /\ held' = held /\ slot' = slot /\ history' = history
    BY <1>2, OneReaderFacts, ReturnFacts, DrainFacts
  <2>2. \A c \in Members(agenda) : c.call \in DueCalls => c \in Members(agenda')
    BY <2>1 DEF Calls, DueCalls
  <2>3. held' = 0 => held = 0
    BY <2>1
  <2> QED BY <2>1, <2>2, <2>3, AllAlike
<1>3. CASE Grant
  <2>0. PICK n : n = Head(budget.line)
    OBVIOUS
  <2>1. /\ Calls("granting") /\ Members(agenda) = {Head(agenda)} \cup Rest /\ Rest \subseteq Members(agenda')
        /\ held' = held /\ history' = history
        /\ \/ slot' = slot
           \/ /\ \A m \in Nodes \ {n} : slot'[m] = slot[m]
              /\ slot'[n].requested = slot[n].requested /\ slot'[n].cursor = slot[n].cursor /\ slot'[n].status = slot[n].status
    BY <1>3, <2>0, GrantFacts
  <2>2. \A c \in Members(agenda) : c.call \in DueCalls => c \in Members(agenda')
    BY <2>1 DEF Calls, DueCalls
  <2>3. \A m \in Nodes : slot'[m].requested = slot[m].requested /\ slot'[m].status = slot[m].status /\ slot'[m].cursor = slot[m].cursor
    BY <2>1
  <2>4. held' = 0 => held = 0
    BY <2>1
  <2> QED BY <2>1, <2>2, <2>3, <2>4, AllAlike
<1>4. CASE \/ PostedDrain \/ FinishOrphan \/ Replace \/ Arrive \/ Retire
           \/ \E n \in Nodes : WithdrawEvent(n) \/ \E t \in Times : RequestEvent(n, t)
  <2>1. Idle /\ held' = held /\ slot' = slot /\ history' = history
    BY <1>4, PostedFacts, OrphanFacts, ReplaceFacts, ArriveFacts, RetireFacts, WithdrawEventFacts, RequestEventFacts
  <2>2. Members(agenda) = {}
    BY <2>1, RestFacts DEF Typed
  <2>3. held' = 0 => held = 0
    BY <2>1
  <2> QED BY <2>1, <2>2, <2>3, AllAlike
<1>5. CASE UNCHANGED vars
  <2>1. held' = held /\ slot' = slot /\ history' = history /\ agenda' = agenda
    BY <1>5 DEF vars
  <2>2. held' = 0 => held = 0
    BY <2>1
  <2> QED BY <2>1, <2>2, AllAlike
<1>6. ASSUME NEW n \in Nodes, FinishDropped(n) PROVE Answered'
  <2>1. /\ Idle /\ held' = held /\ history' = history
        /\ \A m \in Nodes \ {n} : slot'[m] = slot[m]
        /\ slot'[n].requested = slot[n].requested /\ slot'[n].cursor = slot[n].cursor /\ slot'[n].status = slot[n].status
    BY <1>6, DroppedRunFacts
  <2>2. Members(agenda) = {}
    BY <2>1, RestFacts DEF Typed
  <2>3. \A m \in Nodes : slot'[m].requested = slot[m].requested /\ slot'[m].status = slot[m].status /\ slot'[m].cursor = slot[m].cursor
    BY <2>1
  <2>4. held' = 0 => held = 0
    BY <2>1
  <2> QED BY <2>1, <2>2, <2>3, <2>4, AllAlike
<1> QED BY <1>1, <1>2, <1>3, <1>4, <1>5, <1>6

LEMMA AnsweredFinish ==
  ASSUME Typed, Answered, NEW n \in Nodes, NEW outcome, FinishRun(n, outcome)
  PROVE  Answered'
<1>1. /\ Idle /\ held' = held /\ \A m \in Nodes \ {n} : slot'[m] = slot[m] /\ history'[m] = history[m]
      /\ Ending(n, outcome) \in Members(agenda')
  <2>1. Idle /\ held' = held /\ \A m \in Nodes \ {n} : slot'[m] = slot[m] /\ history'[m] = history[m]
    BY FinishFacts
  <2>2. Members(agenda') = {ServeReader(m, FALSE) : m \in Members(slot[n].readers)} \cup {Ending(n, outcome), Drain}
    BY FinishFacts, Zenon
  <2>3. Ending(n, outcome) \in Members(agenda')
    BY <2>2, Zenon
  <2> QED BY <2>1, <2>3
<1>2. Members(agenda) = {}
  BY <1>1, RestFacts DEF Typed
<1>3. \A m \in Nodes \ {n} : Alike(m)
  BY <1>1, <1>2 DEF Alike
<1>4. Due(n)'
  <2>1. Ending(n, outcome) = SettleServed(n, slot[n].running.stamp) \/ Ending(n, outcome) = Serve(n, "request", FALSE)
    BY DEF Ending
  <2>2. Ending(n, outcome).call \in DueCalls /\ Ending(n, outcome).node = n
    BY <2>1 DEF DueCalls, SettleServed, Serve
  <2> QED BY <1>1, <2>2 DEF Due
<1> QED BY <1>3, <1>4, AnsweredKept

LEMMA AnsweredInstall ==
  ASSUME Typed, Answered, NEW n \in Nodes, Install(n)
  PROVE  Answered'
<1> DEFINE D == {n} \cup Members(DependentsOf(n))
<1>1. /\ Idle /\ held' = held /\ slot' = slot /\ \A m \in Nodes \ D : history'[m] = history[m]
      /\ Members(agenda') = {Supersede(m) : m \in D}
  BY InstallFacts
<1> HIDE DEF D
<1>2. Members(agenda) = {}
  BY <1>1, RestFacts DEF Typed
<1>3. ASSUME NEW m \in Nodes PROVE Due(m)' \/ Alike(m)
  <2>1. CASE m \in D
    <3>1. Supersede(m) \in Members(agenda')
      BY <1>1, <2>1
    <3> QED BY <3>1 DEF Due, DueCalls, Supersede
  <2>2. CASE m \notin D
    BY <1>1, <1>2, <2>2 DEF Alike
  <2> QED BY <2>1, <2>2
<1> QED BY <1>3, AnsweredKept

LEMMA AnsweredRemove ==
  ASSUME Typed, Answered, NEW n \in Nodes, Remove(n)
  PROVE  Answered'
<1>1. /\ Idle /\ held' = held /\ slot'[n] = NoSlot /\ \A m \in Nodes \ {n} : slot'[m] = slot[m] /\ history'[m] = history[m]
  BY RemoveFacts
<1>2. Members(agenda) = {}
  BY <1>1, RestFacts DEF Typed
<1>3. \A m \in Nodes \ {n} : Alike(m)
  BY <1>1, <1>2 DEF Alike
<1>4. ~slot'[n].requested
  BY <1>1 DEF NoSlot
<1> QED BY <1>3, <1>4, AnsweredKept

LEMMA AnsweredSuspend == Typed /\ Suspend => Answered'
<1> SUFFICES ASSUME Typed, Suspend, NEW m \in Nodes, slot'[m].requested PROVE Told(m)'
  BY DEF Answered
<1>1. slot'[m].status = "pending"
  BY SuspendFacts
<1> QED BY <1>1 DEF Told

(* The last release requests every node again. *)
LEMMA AnsweredResume == Typed /\ Answered /\ Resume => Answered'
<1> SUFFICES ASSUME Typed, Answered, Resume PROVE Answered'
  OBVIOUS
<1>1. /\ Idle /\ held > 0 /\ held' = held - 1 /\ held \in Nat /\ slot' = slot /\ history' = history
      /\ held = 1 => Members(agenda') = {Request(m, slot[m].cursor) : m \in Again}
  BY ResumeFacts DEF Typed, TypeOK
<1>2. Members(agenda) = {}
  BY <1>1, RestFacts DEF Typed
<1>3. CASE held = 1
  <2>1. ASSUME NEW m \in Nodes, slot'[m].requested PROVE Due(m)'
    <3>1. m \in Again
      BY <1>1, <2>1 DEF Again, Typed, Known
    <3>2. Request(m, slot[m].cursor) \in Members(agenda')
      BY <1>1, <1>3, <3>1
    <3> QED BY <3>2 DEF Due, DueCalls, Request
  <2> QED BY <2>1 DEF Answered
<1>4. CASE held # 1
  <2>1. held' # 0
    BY <1>1, <1>4
  <2> QED BY <1>1, <1>2, <2>1, AllAlike
<1> QED BY <1>3, <1>4

LEMMA AnsweredInit == Init => Answered
BY DEF Init, Answered, NoSlot

LEMMA AnsweredStep == Typed /\ Stocked /\ Settling /\ Anchored /\ Answered /\ [Next]_vars => Answered'
<1> SUFFICES ASSUME Typed, Stocked, Settling, Anchored, Answered, [Next]_vars PROVE Answered'
  OBVIOUS
<1>1. CASE CallStep
  BY <1>1, AnsweredServe, AnsweredSettle, AnsweredRequest, AnsweredBind, AnsweredSupersede, AnsweredWithdraw, AnsweredRest DEF CallStep
<1>2. CASE PostedDrain \/ FinishOrphan \/ Replace \/ Arrive \/ Retire \/ UNCHANGED vars
  BY <1>2, AnsweredRest
<1>3. ASSUME NEW n \in Nodes, FinishDropped(n) \/ WithdrawEvent(n) \/ \E t \in Times : RequestEvent(n, t) PROVE Answered'
  BY <1>3, AnsweredRest
<1>4. ASSUME NEW n \in Nodes, NEW outcome, FinishRun(n, outcome) PROVE Answered'
  BY <1>4, AnsweredFinish
<1>5. CASE Environment
  BY <1>2, <1>3, <1>5, AnsweredSuspend, AnsweredResume, AnsweredInstall, AnsweredRemove DEF Environment
<1> QED BY <1>1, <1>2, <1>3, <1>4, <1>5 DEF Next, Finish

(* Between two events nothing is due: what the nodes were told holds. *)
LEMMA IdleTold ==
  ASSUME Typed, Answered, Idle, NEW n \in Nodes, slot[n].requested
  PROVE  Told(n)
<1>1. ~Due(n)
  BY RestFacts DEF Typed, Due
<1> QED BY <1>1 DEF Answered

Kept == Typed /\ Registered /\ Stocked /\ Settling /\ Anchored /\ Answered

LEMMA KeptAlways == Spec => []Kept
<1>1. Init => Kept
  BY TypedInit, RegisteredInit, StockedInit, SettlingInit, AnchoredInit, AnsweredInit DEF Kept
<1>2. Kept /\ [Next]_vars => Kept'
  BY TypedStep, RegisteredStep, StockedStep, SettlingStep, AnchoredStep, AnsweredStep DEF Kept
<1> QED BY <1>1, <1>2, PTL DEF Spec

(* NodeScheduler, ResultHistory: each result kept was computed under the     *)
(* node's revision, the dataset's epoch and its upstreams' revisions of now, *)
(* whatever runs, never stopped, finish late.                                *)
THEOREM NothingForeign == Spec => []NoForeignResult
<1>1. Kept => NoForeignResult
  BY StockedIsNotForeign DEF Kept
<1> QED BY <1>1, KeptAlways, PTL

(* NodeScheduler::serve, settleMissing, apply (D6): a requested node that *)
(* misses an input or failed shows no result at its cursor between two    *)
(* events: every older result is no newer than what it is staged from, so *)
(* the tombstone put there hides them all.                                *)
THEOREM FailureShowsNothing == Spec => []NothingShownForFailure
<1>1. Kept => NothingShownForFailure
  BY IdleTold DEF Kept, NothingShownForFailure, Told
<1> QED BY <1>1, KeptAlways, PTL

(* NodeScheduler::serve, settleServed, supersedeTombstones (D30): a node   *)
(* served by the cache, by its ring or by the run that just finished shows *)
(* a result of the meaning and epoch of now, which no tombstone hides.     *)
THEOREM ReadyShows == Spec => []ReadyShowsResult
<1>1. Kept => ReadyShowsResult
  BY IdleTold, StockedIsNotForeign DEF Kept, ReadyShowsResult, Told, IsResult
<1> QED BY <1>1, KeptAlways, PTL

-----------------------------------------------------------------------------
(* The display moves forward, and a ready node shows the result of now. *)

(* Where something stands for a result, what is shown is no older. *)
LEMMA ShownForward ==
  ASSUME TypeOK, TypeOK', Shelf, Shelf', Forward, NEW n \in Nodes, NEW t \in Nat,
         NEW e \in ShownAt(history[n], t), e.available, NEW f \in ShownAt(history'[n], t)
  PROVE  e.stamp <= f.stamp
<1>1. /\ e \in history[n].ring /\ e.at <= t /\ e.stamp <= t
      /\ f \in history'[n].ring /\ f.at <= t /\ \A other \in history'[n].ring : other.at <= t => other.at <= f.at
  BY DEF ShownAt
<1>2. history[n] \in Histories /\ history'[n] \in Histories
  BY DEF TypeOK
<1>3. e.stamp \in Nat /\ e.at \in Nat /\ f.stamp \in Nat /\ f.at \in Nat
  BY <1>1, <1>2, HistoryTypes
<1>4. e.at = At(n, e.stamp) /\ IsResult(e) /\ Ordered(n, history[n])
  BY <1>1 DEF Shelf, Ordered
<1>5. f.at = At(n, f.stamp) /\ \A x \in history'[n].ring : x.at = At(n, x.stamp) /\ (x.at = f.at => x = f)
  BY <1>1 DEF Shelf, Ordered
<1>6. SupportsIn(n, history[n], e.stamp)
  <2>1. CASE PinnedAt[n] = NoTime
    <3>1. e.at = e.stamp
      BY <1>3, <1>4, <2>1, AtFacts
    <3> QED BY <1>1, <2>1, <3>1 DEF SupportsIn
  <2>2. CASE PinnedAt[n] # NoTime
    <3>1. e.stamp >= e.stamp
      BY <1>3
    <3> QED BY <1>1, <2>2, <3>1 DEF SupportsIn
  <2> QED BY <2>1, <2>2
<1>7. SupportsIn(n, history'[n], e.stamp)
  BY <1>1, <1>3, <1>4, <1>6 DEF Forward, Covers
<1>8. PICK x \in history'[n].ring : IF PinnedAt[n] = NoTime THEN x.at = e.stamp ELSE x.stamp >= e.stamp
  BY <1>7 DEF SupportsIn
<1>9. x.at \in Nat /\ x.stamp \in Nat /\ x.at = At(n, x.stamp)
  BY <1>2, <1>5, <1>8, HistoryTypes
<1>10. CASE PinnedAt[n] = NoTime
  <2>1. x.at = e.stamp /\ f.at = f.stamp
    BY <1>3, <1>5, <1>8, <1>10, AtFacts
  <2> QED BY <1>1, <1>8, <2>1
<1>11. CASE PinnedAt[n] # NoTime
  <2>1. x.at = 0 /\ f.at = 0
    BY <1>3, <1>5, <1>9, <1>11, AtFacts
  <2>2. x = f
    BY <1>5, <1>8, <2>1
  <2> QED BY <1>8, <1>11, <2>2
<1> QED BY <1>10, <1>11

LEMMA SameShown ==
  ASSUME NEW n \in Nodes, Ordered(n, history[n]), history[n] \in Histories, NEW t \in Nat, NEW e \in ShownAt(history[n], t), NEW f \in ShownAt(history[n], t)
  PROVE  e.stamp <= f.stamp
<1>1. /\ e \in history[n].ring /\ f \in history[n].ring /\ e.at <= f.at /\ f.at <= e.at
  BY DEF ShownAt
<1>2. e.at \in Nat /\ f.at \in Nat /\ e.stamp \in Nat
  BY <1>1, HistoryTypes
<1>3. e = f
  BY <1>1, <1>2 DEF Ordered
<1> QED BY <1>2, <1>3

(* A step that changes neither the recipes nor the epoch. *)
LEMMA StepForward ==
  ASSUME Kept, [Next]_vars, graph' = graph, epoch' = epoch
  PROVE  Forward \/ \A m \in Nodes : history'[m] = history[m]
<1>0. /\ Typed /\ Stocked /\ Settling /\ Anchored /\ TypeOK' /\ data.newest \in Nat
  BY TypedStep DEF Kept, Typed, TypeOK
<1>1. CASE CallStep
  <2>1. CASE \/ RequestAt \/ SupersedeNode \/ BindNext \/ RegisterReader \/ ServeOneReader \/ WithdrawNode \/ ReturnRoom
             \/ DrainBegins \/ Grant
    <3>1. Calm
      BY <1>0, <2>1, StockedRequest, StockedSupersede, StockedCalls
    <3> QED BY <3>1 DEF Calm
  <2> QED BY <1>0, <1>1, <2>1, AnchoredServe, AnchoredSettle DEF CallStep
<1>2. CASE \/ PostedDrain \/ Arrive \/ Retire \/ Replace \/ UNCHANGED vars \/ FinishOrphan \/ \E n \in Nodes : FinishDropped(n)
  <2>1. Calm
    BY <1>0, <1>2, StockedEvents, StockedNotTaken, StockedStutter
  <2> QED BY <2>1 DEF Calm
<1>3. ASSUME NEW n \in Nodes, NEW outcome, FinishRun(n, outcome) PROVE Forward
  BY <1>0, <1>3, AnchoredFinish
<1>4. ASSUME (\E n \in Nodes : WithdrawEvent(n) \/ \E t \in Times : RequestEvent(n, t)) PROVE \A m \in Nodes : history'[m] = history[m]
  BY <1>0, <1>4, StockedEvents DEF Calm
<1>5. CASE Suspend
  <2>1. epoch' = epoch + 1 /\ epoch \in Nat
    BY <1>0, <1>5 DEF Suspend, Typed, TypeOK
  <2> QED BY <2>1
<1>6. CASE Resume
  BY <1>0, <1>6, ResumeFacts
<1>7. ASSUME NEW n \in Nodes, Install(n) PROVE FALSE
  <2>1. graph' = [next |-> graph.next + 1, revision |-> [revision EXCEPT ![n] = graph.next]] /\ graph.next \in Nat
    BY <1>0, <1>7 DEF Install, Typed, TypeOK
  <2>2. graph'.next = graph.next + 1
    BY <2>1
  <2> QED BY <2>1, <2>2
<1>8. ASSUME NEW n \in Nodes, Remove(n) PROVE FALSE
  <2>1. revision'[n] = 0 /\ revision[n] > 0
    BY <1>0, <1>8, RemoveFacts DEF Remove
  <2>2. revision' = revision
    BY DEF revision
  <2> QED BY <2>1, <2>2
<1>9. CASE Environment
  BY <1>2, <1>4, <1>5, <1>6, <1>7, <1>8, <1>9 DEF Environment
<1> QED BY <1>1, <1>2, <1>3, <1>9 DEF Next, Finish

(* ResultHistory::publish, clearShown and supersedeTombstones (D30): while *)
(* a request stands under one meaning and epoch, a result shown at its     *)
(* cursor gives way to none older, in whatever order the runs finish.      *)
THEOREM ForwardOnly == Spec => DisplayMovesForward
<1>1. ASSUME Kept, Kept', [Next]_vars, NEW n \in Nodes, graph' = graph, epoch' = epoch,
             slot'[n].cursor = slot[n].cursor, slot[n].cursor # NoTime,
             NEW e \in ShownAt(history[n], slot[n].cursor), NEW f \in ShownAt(history'[n], slot[n].cursor), e.available
      PROVE  e.stamp <= f.stamp
  <2>1. TypeOK /\ TypeOK' /\ Shelf /\ Shelf' /\ Ordered(n, history[n]) /\ history[n] \in Histories
    BY <1>1 DEF Kept, Typed, Stocked, Shelf, TypeOK
  <2>2. PICK t : t = slot[n].cursor
    OBVIOUS
  <2>3. t \in Nat
    BY <1>1, <2>1, <2>2, ConstantFacts DEF TypeOK, Slots
  <2>4. CASE Forward
    BY <1>1, <2>1, <2>2, <2>3, <2>4, ShownForward
  <2>5. CASE history'[n] = history[n]
    BY <1>1, <2>1, <2>2, <2>3, <2>5, SameShown
  <2> QED BY <1>1, <2>4, <2>5, StepForward
<1>2. Kept /\ Kept' /\ [Next]_vars =>
        [\A n \in Nodes :
           /\ graph' = graph /\ epoch' = epoch /\ slot'[n].cursor = slot[n].cursor /\ slot[n].cursor # NoTime
           => \A e \in ShownAt(history[n], slot[n].cursor), f \in ShownAt(history'[n], slot[n].cursor) :
                e.available /\ f.available => e.stamp <= f.stamp]_vars
  BY <1>1
<1> QED BY <1>2, KeptAlways, PTL DEF Spec, DisplayMovesForward

(* No result up to the cursor is newer than stamp: its own is shown there. *)
LEMMA ShownNow ==
  ASSUME NEW n \in Nodes, PinnedAt[n] = NoTime, slot[n].cursor \in Times, NEW h \in Histories, Ordered(n, h),
         NEW stamp \in Nat, stamp <= slot[n].cursor, NEW e \in h.ring, e.at = At(n, stamp), IsResult(e),
         \A f \in h.ring : IsResult(f) /\ f.stamp <= slot[n].cursor => f.stamp <= stamp
  PROVE  e \in ShownAt(TombstonesSuperseded(n, h, stamp), slot[n].cursor)
<1> DEFINE s == TombstonesSuperseded(n, h, stamp)
           t == slot[n].cursor
<1>1. t \in Nat
  BY ConstantFacts
<1>2. \A f \in h.ring : f.at \in Nat /\ f.stamp \in Nat /\ f.at = f.stamp
  <2> SUFFICES ASSUME NEW f \in h.ring PROVE f.at \in Nat /\ f.stamp \in Nat /\ f.at = f.stamp
    OBVIOUS
  <2>1. f.at \in Nat /\ f.stamp \in Nat /\ f.at = At(n, f.stamp)
    BY HistoryTypes DEF Ordered
  <2> QED BY <2>1, AtFacts
<1>3. s.ring = {f \in h.ring : ~(stamp < f.at /\ f.at <= t /\ f.key.inputs = {})}
  BY SupersededShape
<1>4. e.at = stamp
  BY AtFacts
<1> HIDE DEF s, t
<1>5. e \in s.ring
  BY <1>3 DEF IsResult
<1>6. ASSUME NEW f \in s.ring, f.at <= t PROVE f.at <= e.at
  <2>1. f \in h.ring /\ ~(stamp < f.at /\ f.key.inputs = {})
    BY <1>3, <1>6
  <2>2. CASE IsResult(f)
    BY <1>2, <1>4, <1>6, <2>1, <2>2 DEF t
  <2>3. CASE ~IsResult(f)
    BY <1>2, <1>4, <2>1, <2>3 DEF IsResult
  <2> QED BY <2>2, <2>3
<1> QED BY <1>1, <1>2, <1>4, <1>5, <1>6 DEF ShownAt, s, t

(* What a served request now shows is what its inputs produce now. *)
ShowsNow(n, h) == \E e \in ShownAt(h, slot[n].cursor) : Serves(e.key, Staged(n).key, slot[n].cursor)

LEMMA HitNow ==
  ASSUME Typed, Stocked, Anchored, NEW n \in Nodes, PinnedAt[n] = NoTime, slot[n].cursor \in Times, Staged(n).ok,
         NEW g, Hit(n, g)
  PROVE  ShowsNow(n, TombstonesSuperseded(n, g, Staged(n).stamp))
<1>1. PICK A : Closed(A) /\ Covers(A)
  BY DEF Anchored
<1>2. PICK stamp : stamp = Staged(n).stamp
  OBVIOUS
<1>3. TypeOK /\ Shelf /\ history[n] \in Histories
  BY DEF Stocked, Typed, TypeOK
<1>4. g \in Histories /\ Ordered(n, g) /\ stamp \in Nat /\ stamp <= slot[n].cursor
  BY <1>2, <1>3, HitHas
<1>5. PICK e \in g.ring : e.at = At(n, stamp) /\ IsResult(e) /\ Serves(e.key, Staged(n).key, slot[n].cursor)
  BY <1>2, <1>3, HitHas
<1>6. ASSUME NEW f \in g.ring, IsResult(f), f.stamp <= slot[n].cursor PROVE f.stamp <= stamp
  <2>1. f \in history[n].ring \/ f.stamp = stamp
    <3>1. CASE g = history[n]
      BY <1>6, <3>1
    <3>2. CASE \E r \in CacheHits(n) : g = Published(n, Staged(n).stamp, r.key, r.available, FALSE)
      <4> DEFINE no == FALSE
      <4>1. PICK r \in CacheHits(n) : g = Published(n, stamp, r.key, r.available, no)
        BY <1>2, <3>2
      <4> HIDE DEF no
      <4> QED BY <1>3, <1>6, <4>1, PublishedNew
    <3> QED BY <3>1, <3>2 DEF Hit
  <2>2. CASE f \in history[n].ring
    <3>1. <<n, f.stamp>> \in A /\ f.stamp \in Nat
      BY <1>1, <1>3, <1>6, <2>2, HistoryTypes DEF Covers
    <3> QED BY <1>1, <1>2, <1>3, <1>6, <3>1, Behind
  <2>3. CASE f.stamp = stamp
    BY <1>4, <2>3
  <2> QED BY <2>1, <2>2, <2>3
<1>7. e \in ShownAt(TombstonesSuperseded(n, g, stamp), slot[n].cursor)
  BY <1>4, <1>5, <1>6, ShownNow
<1> QED BY <1>2, <1>5, <1>7 DEF ShowsNow

LEMMA FitNow ==
  ASSUME Typed, Stocked, Anchored, NEW n \in Nodes, PinnedAt[n] = NoTime, slot[n].cursor \in Times, NEW stamp, Fit(n, stamp)
  PROVE  ShowsNow(n, TombstonesSuperseded(n, history[n], stamp))
<1>1. PICK A : Closed(A) /\ Covers(A)
  BY DEF Anchored
<1>2. /\ TypeOK /\ Shelf /\ history[n] \in Histories /\ Ordered(n, history[n])
      /\ Staged(n).ok /\ stamp = Staged(n).stamp /\ Staged(n).stamp \in Nat /\ Staged(n).stamp <= slot[n].cursor
  BY StagedTypes DEF Stocked, Shelf, Typed, TypeOK, Fit
<1>3. PICK e \in history[n].ring : e.at = At(n, stamp) /\ Serves(e.key, Staged(n).key, slot[n].cursor)
  BY DEF Fit
<1>4. IsResult(e)
  <2>1. Taken(n) # {}
    BY <1>2, OkTaken
  <2>2. e.key.inputs = {<<input[1], input[2]>> : input \in Taken(n)}
    BY <1>2, <1>3, StagedTypes DEF Serves
  <2> QED BY <2>1, <2>2 DEF IsResult
<1>5. ASSUME NEW f \in history[n].ring, IsResult(f), f.stamp <= slot[n].cursor PROVE f.stamp <= stamp
  <2>1. <<n, f.stamp>> \in A /\ f.stamp \in Nat
    BY <1>1, <1>2, <1>5, HistoryTypes DEF Covers
  <2> QED BY <1>1, <1>2, <1>5, <2>1, Behind
<1>6. e \in ShownAt(TombstonesSuperseded(n, history[n], stamp), slot[n].cursor)
  BY <1>2, <1>3, <1>4, <1>5, ShownNow
<1> QED BY <1>3, <1>6 DEF ShowsNow

(* A conclusion changes nothing its node is staged from. *)
LEMMA ConcludeShows ==
  ASSUME Typed, ~Idle, NEW n \in Nodes, NEW wait \in Waits, NEW status \in Statuses, NEW h \in Histories, NEW rest \in Seq(Chores),
         Conclude(n, wait, status, h, rest), ShowsNow(n, h)
  PROVE  ShowsNow(n, history[n])'
<1>1. /\ \A m \in Nodes \ {n} : history'[m] = history[m]
      /\ slot'[n].cursor = slot[n].cursor /\ graph' = graph /\ data' = data /\ epoch' = epoch
  BY ConcludeFacts DEF Typed
<1>2. history'[n] = h
  BY DEF Conclude, Typed, TypeOK
<1>3. \A u \in UpstreamsOf(n) : history'[u] = history[u]
  BY <1>1, UpstreamNodes
<1>4. Staged(n)' = Staged(n)
  BY <1>1, <1>3, StagedSame
<1>5. PICK request : request = Staged(n).key
  OBVIOUS
<1>6. Staged(n)'.key = request
  BY <1>4, <1>5
<1>7. PICK e \in ShownAt(h, slot[n].cursor) : Serves(e.key, request, slot[n].cursor)
  BY <1>5 DEF ShowsNow
<1> QED BY <1>1, <1>2, <1>6, <1>7 DEF ShowsNow

(* The steps that make a node ready. *)
LEMMA StepReady ==
  ASSUME Kept, Next, NEW n \in Nodes, slot[n].status # "ready", slot'[n].status = "ready", PinnedAt[n] = NoTime
  PROVE  ShowsNow(n, history[n])'
<1>0. Typed /\ Stocked /\ Settling /\ Anchored /\ TypeOK
  BY DEF Kept, Typed
<1>1. CASE ServeStep
  <2>0. PICK m : m = Callee
    OBVIOUS
  <2>1. Calls("serve") /\ m \in Nodes /\ ~Idle
    BY <1>0, <1>1, <2>0, ServeWays
  <2>2. ~ServeWithdrawn /\ ~ServeRun
    <3>1. CASE ServeWithdrawn
      BY <1>0, <3>1, WithdrawnFacts
    <3>2. CASE ServeRun
      <4>1. (\A k \in Nodes \ {m} : slot'[k] = slot[k]) /\ slot'[m].status = "pending"
        BY <1>0, <2>0, <3>2, RunFacts
      <4> QED BY <4>1
    <3> QED BY <3>1, <3>2
  <2>2a. \E wait \in Waits, status \in Statuses, h \in Histories :
             Conclude(Callee, wait, status, h, Unused) /\ Way(Callee, status, h)
    BY <1>0, <1>1, <2>2, ServeWays
  <2>3. PICK wait \in Waits, status \in Statuses, h \in Histories :
             Conclude(m, wait, status, h, Unused) /\ Way(m, status, h)
    BY <2>0, <2>2a
  <2>4. Unused \in Seq(Chores)
    BY <1>0, <2>1, UnusedFacts
  <2>5. slot'[m].status = status
    BY <1>0, <2>1, <2>3, <2>4, ConcludeStatus
  <2>6. \A k \in Nodes \ {m} : slot'[k] = slot[k]
    BY <1>0, <2>1, <2>3, <2>4, ConcludeFacts
  <2>7. n = m /\ status = "ready"
    BY <2>5, <2>6
  <2>8. Servable(n) /\ Staged(n).ok /\ \E g : Hit(n, g) /\ h = TombstonesSuperseded(n, g, Staged(n).stamp)
    BY <2>3, <2>7 DEF Way
  <2>9. slot[n].cursor \in Times
    BY <1>0, <2>8, ConstantFacts DEF Servable, Typed, Known
  <2>10. ShowsNow(n, h)
    BY <1>0, <2>8, <2>9, HitNow
  <2> QED BY <1>0, <2>1, <2>3, <2>4, <2>7, <2>10, ConcludeShows
<1>2. CASE Settle
  <2>0. PICK m, stamp : m = Callee /\ stamp = Head(agenda).stamp
    OBVIOUS
  <2> DEFINE h == TombstonesSuperseded(m, history[m], stamp)
             none == <<>>
  <2>1. m \in Nodes /\ ~Idle /\ h \in Histories /\ Conclude(m, "none", "ready", h, none)
    BY <1>0, <1>2, <2>0, SettleFacts
  <2>2. "none" \in Waits /\ "ready" \in Statuses /\ none \in Seq(Chores)
    BY DEF Waits, Statuses
  <2>3. Fit(m, stamp) /\ slot[m].cursor \in Times
    BY <1>0, <1>2, <2>0, SettleFit
  <2> HIDE DEF none
  <2>4. PinnedAt[m] = NoTime => ShowsNow(m, h)
    BY <1>0, <2>1, <2>3, FitNow
  <2> HIDE DEF h
  <2>5. \A k \in Nodes \ {m} : slot'[k] = slot[k]
    BY <1>0, <2>1, <2>2, ConcludeFacts
  <2>6. n = m
    BY <2>5
  <2> QED BY <1>0, <2>1, <2>2, <2>4, <2>6, ConcludeShows
<1>3. CASE CallStep /\ ~ServeStep /\ ~Settle
  <2>0. PICK m, g : m = Callee /\ g = Head(budget.line)
    OBVIOUS
  <2>1. CASE RequestAt
    BY <1>0, <2>0, <2>1, RequestFacts
  <2>2. CASE SupersedeNode
    BY <1>0, <2>0, <2>2, SupersedeFacts
  <2>3. CASE RegisterReader
    BY <1>0, <2>0, <2>3, RegisterFacts
  <2>4. CASE WithdrawNode
    BY <1>0, <2>0, <2>4, WithdrawFacts
  <2>5. CASE Grant
    BY <1>0, <2>0, <2>5, GrantFacts
  <2>6. CASE BindNext \/ ServeOneReader \/ ReturnRoom \/ DrainBegins
    BY <1>0, <2>6, BindFacts, OneReaderFacts, ReturnFacts, DrainFacts
  <2> QED BY <1>3, <2>1, <2>2, <2>3, <2>4, <2>5, <2>6 DEF CallStep
<1>4. CASE PostedDrain \/ FinishOrphan \/ Replace \/ Arrive \/ Retire \/ Resume
  BY <1>0, <1>4, PostedFacts, OrphanFacts, ReplaceFacts, ArriveFacts, RetireFacts, ResumeFacts
<1>5. ASSUME NEW m \in Nodes, FinishDropped(m) \/ \E outcome \in Outcomes : FinishRun(m, outcome) PROVE FALSE
  BY <1>0, <1>5, DroppedRunFacts, FinishFacts
<1>6. ASSUME NEW m \in Nodes, Install(m) \/ Remove(m) \/ WithdrawEvent(m) \/ \E t \in Times : RequestEvent(m, t) PROVE FALSE
  <2>1. CASE Install(m)
    BY <1>0, <2>1, InstallFacts
  <2>2. CASE Remove(m)
    <3>1. slot'[m] = NoSlot /\ \A k \in Nodes \ {m} : slot'[k] = slot[k]
      BY <1>0, <2>2, RemoveFacts
    <3> QED BY <3>1 DEF NoSlot
  <2>3. CASE WithdrawEvent(m) \/ \E t \in Times : RequestEvent(m, t)
    BY <1>0, <2>3, WithdrawEventFacts, RequestEventFacts
  <2> QED BY <1>6, <2>1, <2>2, <2>3
<1>7. CASE Suspend
  BY <1>0, <1>7, SuspendFacts
<1>8. CASE Environment
  BY <1>4, <1>6, <1>7, <1>8 DEF Environment
<1> QED BY <1>1, <1>2, <1>3, <1>4, <1>5, <1>8 DEF Next, Finish, CallStep

(* NodeScheduler::serve and settleServed, ResultHistory::lookup (D30): the *)
(* step that settles a node ready shows, at its cursor, the result of the  *)
(* inputs of that very moment, however late the run was that computed it.  *)
THEOREM ReadyNow == Spec => ReadyIsCurrent
<1>1. Kept /\ [Next]_vars =>
        [\A n \in Nodes : slot[n].status # "ready" /\ slot'[n].status = "ready" /\ PinnedAt[n] = NoTime =>
           \E e \in ShownAt(history'[n], slot'[n].cursor) : Serves(e.key, Staged(n)'.key, slot'[n].cursor)]_vars
  <2> SUFFICES ASSUME Kept, Next, NEW n \in Nodes, slot[n].status # "ready", slot'[n].status = "ready", PinnedAt[n] = NoTime
               PROVE  \E e \in ShownAt(history'[n], slot'[n].cursor) : Serves(e.key, Staged(n)'.key, slot'[n].cursor)
    OBVIOUS
  <2>1. ShowsNow(n, history[n])'
    BY StepReady
  <2> QED BY <2>1 DEF ShowsNow
<1> QED BY <1>1, KeptAlways, PTL DEF Spec, ReadyIsCurrent
=============================================================================
