-------------------------- MODULE ObjectStoreProofs --------------------------
(* Proofs about ObjectStore for any topics, stamps, budgets and pool, and any *)
(* number of entries and of changes.                                         *)
(*                                                                           *)
(* NoGhostCache is one conjunct of Sound, what every series keeps.  What the  *)
(* revisions tell rests on them being smaller than the counter they are drawn *)
(* from, so that an operation that moves one moves it to a number that never  *)
(* was, and on every UID being older than the next.                           *)
(*                                                                           *)
(* The decoder's index rests on what is told: IndexInv says what the packets, *)
(* the cursor and the identity read cover between two of its store calls.     *)
(* The memory counts are exact because an insert shifts the entries' bytes    *)
(* without gaining or losing any; the pool's because what dies stays counted, *)
(* which PoolInv states beside what each FIFO still holds.                    *)
EXTENDS ObjectStore, TLAPS, FiniteSetTheorems, WellFoundedInduction

Entry == [ts : Nat, uid : Nat \ {0}, bytes : Nat, slot : Slots \cup {NoSlot}]

Budget == [window : Nat, bytes : Nat, entries : Nat]

InOrder(entries) == \A i, j \in DOMAIN entries : i < j => entries[i].ts <= entries[j].ts

(* Entries in stamp order, whose UIDs were all given out. *)
Given(entries, uids) ==
  /\ entries \in Seq(Entry)
  /\ InOrder(entries)
  /\ \A i \in DOMAIN entries : entries[i].uid < uids

Sound(s, uids, revs) ==
  /\ DOMAIN s = {"entries", "cached", "memory", "content", "rewrite", "budget"}
  /\ Given(s.entries, uids)
  /\ s.content \in Nat /\ s.content < revs
  /\ s.rewrite \in Nat /\ s.rewrite < revs
  /\ s.budget \in Budget
  /\ s.cached # 0 => s.cached \in UidsOf(s.entries)
  /\ s.memory = BytesOf(s.entries)

Counters == nextUid \in Nat \ {0} /\ nextRev \in Nat \ {0}

AllSound == DOMAIN series = Topics /\ \A t \in Topics : Sound(series[t], nextUid, nextRev)

AsideGiven ==
  /\ DOMAIN aside = {"valid", "prior", "held", "memory", "budget"}
  /\ DOMAIN aside.held = Topics
  /\ \A t \in Topics : /\ Given(aside.held[t], nextUid)
                       /\ aside.memory[t] = BytesOf(aside.held[t])
                       /\ aside.budget[t] \in Budget

PushTyped ==
  /\ DOMAIN push = {"pc", "t", "ts", "slot"}
  /\ push.ts \in Nat
  /\ push.slot \in Slots \cup {NoSlot}

IInv == live \subseteq Topics /\ Counters /\ AllSound /\ AsideGiven /\ PushTyped

-------------------------------------------------------------------------------
(* A set of natural numbers that is not empty has a least element. *)
LEMMA MinNat == ASSUME NEW S, S \subseteq Nat, S # {} PROVE \E m \in S : \A x \in S : m <= x
<1> DEFINE R == OpToRel(<, Nat)
<1>1. IsWellFoundedOn(R, Nat)
  BY NatLessThanWellFounded
<1> HIDE DEF R
<1>2. PICK m \in S : \A y \in S : ~(<<y, m>> \in R)
  BY <1>1, WFMin, Zenon
<1>3. \A y \in Nat : y < m => <<y, m>> \in R
  <2> SUFFICES ASSUME NEW y \in Nat, y < m PROVE <<y, m>> \in R
    OBVIOUS
  <2>1. <<y, m>> \in {ss \in Nat \X Nat : ss[1] < ss[2]}
    OBVIOUS
  <2> QED BY <2>1 DEF R, OpToRel
<1>4. \A y \in S : ~(y < m)
  BY <1>2, <1>3
<1>5. \A y \in S : m <= y
  BY <1>4
<1> QED BY <1>5

LEMMA MinIn == ASSUME NEW S, S \subseteq Nat, S # {} PROVE Min(S) \in S
<1>1. \E m \in S : \A x \in S : m <= x
  BY MinNat
<1> QED BY <1>1 DEF Min

(* The indices of a sequence, cut by any condition, are finite. *)
LEMMA SomeIndices ==
  ASSUME NEW n \in Nat, NEW S, S \subseteq 1..n
  PROVE  IsFiniteSet(S) /\ Cardinality(S) \in Nat /\ Cardinality(S) <= n /\ (Cardinality(S) = n => S = 1..n)
<1>1. IsFiniteSet(1..n) /\ Cardinality(1..n) = n
  BY FS_Interval
<1>2. IsFiniteSet(S) /\ Cardinality(S) <= Cardinality(1..n) /\ (Cardinality(S) = Cardinality(1..n) => S = 1..n)
  BY <1>1, FS_Subset
<1>3. Cardinality(S) \in Nat
  BY <1>2, FS_CardinalityType
<1> QED BY <1>1, <1>2, <1>3

(* A finite set of positions has one that stands in each place. *)
LEMMA Places ==
  ASSUME NEW n \in Nat, NEW S, S \subseteq 1..n, NEW k \in 1..Cardinality(S)
  PROVE  \E i \in S : Cardinality({j \in S : j < i}) = k - 1
<1> DEFINE Below(i) == {j \in S : j < i}
           Vacant == {p \in 1..Cardinality(S) : ~\E i \in S : Cardinality(Below(i)) = p - 1}
<1>0. Cardinality(S) \in Nat /\ IsFiniteSet(S) /\ S \subseteq Nat
  <2>1. IsFiniteSet(S) /\ Cardinality(S) \in Nat
    BY SomeIndices
  <2>2. S \subseteq Nat
    OBVIOUS
  <2> QED BY <2>1, <2>2
<1> SUFFICES ASSUME k \in Vacant PROVE FALSE
  BY <1>0
<1>1. Vacant \subseteq Nat
  BY <1>0
<1>2. PICK m \in Vacant : \A p \in Vacant : m <= p
  <2> HIDE DEF Vacant
  <2> QED BY <1>1, MinNat
<1>3. m \in 1..Cardinality(S) /\ ~\E i \in S : Cardinality(Below(i)) = m - 1
  BY <1>2
<1>4. CASE m = 1
  <2>1. S # {}
    BY <1>0, <1>3, FS_EmptySet
  <2>2. PICK i \in S : \A x \in S : i <= x
    BY <1>0, <2>1, MinNat
  <2>3. \A j \in S : ~(j < i)
    BY <1>0, <2>2
  <2>4. Below(i) = {}
    BY <2>3
  <2>5. Cardinality(Below(i)) = 0
    BY <2>4, FS_EmptySet
  <2> QED BY <2>5, <1>3, <1>4
<1>5. CASE m # 1
  <2>1. m - 1 \in 1..Cardinality(S)
    BY <1>0, <1>3, <1>5
  <2>2. m - 1 \notin Vacant
    <3> HIDE DEF Vacant
    <3>1. ~(m <= m - 1)
      BY <2>1, <1>1, <1>2
    <3> QED BY <3>1, <1>2
  <2>3. PICK i \in S : Cardinality(Below(i)) = (m - 1) - 1
    BY <2>1, <2>2
  <2> DEFINE Above == {j \in S : i < j}
             Upto == Below(i) \cup {i}
  <2>4. IsFiniteSet(Below(i))
    BY <1>0, FS_Subset
  <2>5. i \notin Below(i)
    BY <1>0
  <2>6. Cardinality(Upto) = Cardinality(Below(i)) + 1
    <3> HIDE DEF Below
    <3> QED BY <2>4, <2>5, FS_AddElement
  <2>7. Cardinality(Upto) = m - 1
    BY <2>1, <2>3, <2>6, <1>0
  <2>8. Above # {}
    <3> SUFFICES ASSUME Above = {} PROVE FALSE
      OBVIOUS
    <3>1. \A j \in S : j < i \/ j = i
      BY <1>0
    <3>2. S = Upto
      BY <3>1
    <3> HIDE DEF Upto, Below
    <3> QED BY <3>2, <2>7, <1>3, <1>0
  <2>9. Above \subseteq Nat
    BY <1>0
  <2>10. PICK a \in Above : \A x \in Above : a <= x
    <3> HIDE DEF Above
    <3> QED BY <2>8, <2>9, MinNat
  <2>11. a \in S /\ \A j \in S : j < a <=> (j < i \/ j = i)
    BY <1>0, <2>10
  <2>12. Below(a) = Upto
    BY <2>11
  <2> QED BY <2>7, <2>11, <2>12, <1>3
<1> QED BY <1>4, <1>5

-------------------------------------------------------------------------------
(* What a plan leaves are entries of the series. *)
LEMMA SurvivorsGiven ==
  ASSUME NEW entries, NEW uids \in Nat, Given(entries, uids), NEW drop
  PROVE  Given(Survivors(entries, drop), uids)
<1> DEFINE at == {i \in DOMAIN entries : entries[i] \notin drop}
           place(k) == CHOOSE i \in at : Cardinality({j \in at : j < i}) = k - 1
<1>1. DOMAIN entries = 1..Len(entries) /\ Len(entries) \in Nat /\ entries \in Seq(Entry)
  BY DEF Given
<1>2. at \subseteq 1..Len(entries)
  BY <1>1
<1>3. Cardinality(at) \in Nat
  BY <1>1, <1>2, SomeIndices
<1> HIDE DEF at
<1>4. \A k \in 1..Cardinality(at) : place(k) \in at
  <2> SUFFICES ASSUME NEW k \in 1..Cardinality(at) PROVE place(k) \in at
    OBVIOUS
  <2>1. \E i \in at : Cardinality({j \in at : j < i}) = k - 1
    <3> HIDE DEF place
    <3>1. Len(entries) \in Nat
      BY <1>1
    <3> QED BY <3>1, <1>2, Places, Zenon
  <2> QED BY <2>1
<1> DEFINE kept == [k \in 1..Cardinality(at) |-> entries[place(k)]]
<1>5. Survivors(entries, drop) = kept
  BY DEF Survivors, at
<1> HIDE DEF place
<1>6. \A k \in 1..Cardinality(at) : entries[place(k)] \in Entry /\ entries[place(k)].uid < uids
  <2> SUFFICES ASSUME NEW k \in 1..Cardinality(at)
               PROVE  entries[place(k)] \in Entry /\ entries[place(k)].uid < uids
    OBVIOUS
  <2> DEFINE p == place(k)
  <2>1. p \in 1..Len(entries)
    BY <1>2, <1>4
  <2> HIDE DEF p
  <2>2. entries[p] \in Entry /\ entries[p].uid < uids
    BY <1>1, <2>1 DEF Given
  <2> QED BY <2>2 DEF p
<1>7. kept \in Seq(Entry) /\ DOMAIN kept = 1..Cardinality(at)
  BY <1>3, <1>6
<1>8. \A k \in 1..Cardinality(at) : Cardinality({j \in at : j < place(k)}) = k - 1
  <2> SUFFICES ASSUME NEW k \in 1..Cardinality(at) PROVE Cardinality({j \in at : j < place(k)}) = k - 1
    OBVIOUS
  <2>1. \E i \in at : Cardinality({j \in at : j < i}) = k - 1
    <3> HIDE DEF place
    <3>1. Len(entries) \in Nat
      BY <1>1
    <3> QED BY <3>1, <1>2, Places, Zenon
  <2> QED BY <2>1 DEF place
<1>9. ASSUME NEW k \in 1..Cardinality(at), NEW l \in 1..Cardinality(at), k < l
      PROVE  place(k) < place(l)
  <2>1. at \subseteq Nat /\ at \subseteq 1..Len(entries) /\ Len(entries) \in Nat
    BY <1>1, <1>2
  <2>2. ASSUME NEW a \in at, NEW b \in at,
               Cardinality({i \in at : i < a}) = k - 1, Cardinality({i \in at : i < b}) = l - 1
        PROVE  a < b
    <3> DEFINE before == {i \in at : i < a}
               below == {i \in at : i < b}
    <3> SUFFICES ASSUME ~(a < b) PROVE FALSE
      OBVIOUS
    <3>1. b <= a
      BY <2>1
    <3>2. \A i \in below : i \in before
      <4> SUFFICES ASSUME NEW i \in at, i < b PROVE i < a
        OBVIOUS
      <4>1. i \in Nat /\ a \in Nat /\ b \in Nat
        BY <2>1
      <4> QED BY <3>1, <4>1
    <3>3. before \subseteq 1..Len(entries)
      BY <2>1
    <3>4. Cardinality(before) = k - 1 /\ Cardinality(below) = l - 1
      BY <2>2
    <3> HIDE DEF before, below
    <3>5. IsFiniteSet(before)
      BY <2>1, <3>3, SomeIndices
    <3>6. Cardinality(below) <= Cardinality(before)
      BY <3>2, <3>5, FS_Subset
    <3>7. k \in Nat /\ l \in Nat
      BY <1>3
    <3> QED BY <3>4, <3>6, <3>7, <1>9
  <2> QED BY <1>4, <1>8, <2>2, Zenon
<1>10. InOrder(kept)
  <2> SUFFICES ASSUME NEW k \in 1..Cardinality(at), NEW l \in 1..Cardinality(at), k < l
               PROVE  kept[k].ts <= kept[l].ts
    BY <1>7 DEF InOrder
  <2> DEFINE p == place(k)
             q == place(l)
  <2>1. p \in DOMAIN entries /\ q \in DOMAIN entries
    BY <1>1, <1>2, <1>4
  <2>2. p < q
    BY <1>9
  <2>3. kept[k] = entries[p] /\ kept[l] = entries[q]
    OBVIOUS
  <2> HIDE DEF p, q, kept
  <2> QED BY <2>1, <2>2, <2>3 DEF Given, InOrder
<1> QED BY <1>5, <1>6, <1>7, <1>10 DEF Given

LEMMA AtOrBeforeBound ==
  ASSUME NEW entries \in Seq(Entry), NEW ts
  PROVE  AtOrBefore(entries, ts) \in 0..Len(entries)
<1> DEFINE S == {i \in DOMAIN entries : entries[i].ts <= ts}
<1>1. S \subseteq 1..Len(entries) /\ Len(entries) \in Nat /\ DOMAIN entries = 1..Len(entries)
  OBVIOUS
<1>2. Cardinality(S) \in Nat /\ Cardinality(S) <= Len(entries) /\ (Cardinality(S) = Len(entries) => S = 1..Len(entries))
  BY <1>1, SomeIndices
<1> QED BY <1>1, <1>2 DEF AtOrBefore

LEMMA StampsNat ==
  ASSUME NEW entries \in Seq(Entry), NEW i \in 1..Len(entries)
  PROVE  entries[i].ts \in Nat
<1>1. entries[i] \in Entry
  OBVIOUS
<1> QED BY <1>1 DEF Entry

(* In a series that is in stamp order, the entries at or before a stamp are   *)
(* the first ones: the place of a new entry keeps the order.                  *)
LEMMA Divides ==
  ASSUME NEW entries \in Seq(Entry), InOrder(entries), NEW ts \in Nat
  PROVE  LET n == AtOrBefore(entries, ts)
         IN /\ \A i \in 1..n : entries[i].ts <= ts
            /\ \A i \in (n + 1)..Len(entries) : ts <= entries[i].ts
<1> DEFINE S == {i \in DOMAIN entries : entries[i].ts <= ts}
           Out == {i \in 1..(Len(entries) + 1) : i \notin S}
<1>1. DOMAIN entries = 1..Len(entries) /\ Len(entries) \in Nat
  OBVIOUS
<1>2. \A i \in 1..Len(entries) : entries[i].ts \in Nat
  BY StampsNat
<1>3. Len(entries) + 1 \in Out /\ Out \subseteq Nat
  BY <1>1
<1>4. PICK k \in Out : \A x \in Out : k <= x
  <2> HIDE DEF Out
  <2> QED BY <1>3, MinNat
<1>5. k \in 1..(Len(entries) + 1) /\ k \notin S
  BY <1>4
<1>6. \A i \in 1..(k - 1) : i \in S
  BY <1>1, <1>4, <1>5
<1>7. \A i \in k..Len(entries) : i \notin S /\ ts <= entries[i].ts
  <2> SUFFICES ASSUME NEW i \in k..Len(entries) PROVE ~(entries[i].ts <= ts)
    BY <1>1, <1>2, <1>5
  <2>1. k \in 1..Len(entries) /\ i \in 1..Len(entries)
    BY <1>1, <1>5
  <2>2. ~(entries[k].ts <= ts)
    BY <1>1, <1>5, <2>1
  <2>3. i = k \/ entries[k].ts <= entries[i].ts
    BY <1>1, <2>1 DEF InOrder
  <2> QED BY <1>2, <2>1, <2>2, <2>3
<1>8. S = 1..(k - 1)
  <2>1. \A i \in S : i \in 1..(k - 1)
    BY <1>1, <1>5, <1>7
  <2> QED BY <1>6, <2>1
<1> HIDE DEF S
<1>9. Cardinality(S) = k - 1
  <2>1. k - 1 \in Nat
    BY <1>1, <1>5
  <2> QED BY <1>8, <2>1, FS_Interval
<1>10. AtOrBefore(entries, ts) = k - 1 /\ (k - 1) + 1 = k
  BY <1>1, <1>5, <1>9 DEF AtOrBefore, S
<1> QED BY <1>6, <1>7, <1>10 DEF S

(* Evicting everything always fits the budget. *)
LEMMA ExpiredBound ==
  ASSUME NEW s, NEW uids, NEW revs, Sound(s, uids, revs)
  PROVE  Expired(s) \in 0..Len(s.entries)
<1> DEFINE newest == s.entries[Len(s.entries)].ts
           memory(n) == s.memory - BytesOf(SubSeq(s.entries, 1, n))
           enough == {n \in 0..Len(s.entries) : Fits(Without(s.entries, n), newest, memory(n), s.budget)}
<1>1. s.entries \in Seq(Entry) /\ Len(s.entries) \in Nat /\ s.budget \in Budget
  BY DEF Sound, Given
<1>2. Without(s.entries, Len(s.entries)) = <<>>
  BY <1>1 DEF Without
<1>3. Fits(<<>>, newest, memory(Len(s.entries)), s.budget)
  BY <1>1 DEF Fits, Budget
<1>4. Len(s.entries) \in enough /\ enough \subseteq Nat
  BY <1>1, <1>2, <1>3
<1> HIDE DEF enough
<1>5. Min(enough) \in enough
  BY <1>4, MinIn
<1> QED BY <1>5 DEF Expired, enough

(* The bytes of entries, counted one by one: a number, none for no entries,   *)
(* and an entry that is inserted adds its own, whatever it pushes back.       *)
Units(entries) == UNION {{i} \X (1..entries[i].bytes) : i \in DOMAIN entries}

LEMMA UnitsFinite ==
  ASSUME NEW entries \in Seq(Entry)
  PROVE  IsFiniteSet(Units(entries)) /\ BytesOf(entries) = Cardinality(Units(entries)) /\ BytesOf(entries) \in Nat
<1> DEFINE of(i) == {i} \X (1..entries[i].bytes)
           rows == {of(i) : i \in DOMAIN entries}
           f == [i \in DOMAIN entries |-> of(i)]
<1>1. DOMAIN entries = 1..Len(entries) /\ Len(entries) \in Nat
  OBVIOUS
<1>2. IsFiniteSet(DOMAIN entries)
  BY <1>1, FS_Interval
<1>3. f \in Surjection(DOMAIN entries, rows)
  BY DEF Surjection
<1> HIDE DEF f
<1>4. IsFiniteSet(rows)
  <2> HIDE DEF rows
  <2> QED BY <1>2, <1>3, FS_Surjection
<1>5. ASSUME NEW i \in DOMAIN entries PROVE IsFiniteSet(of(i))
  <2>1. entries[i].bytes \in Nat
    <3>1. entries[i] \in Entry
      OBVIOUS
    <3> QED BY <3>1 DEF Entry
  <2>2. IsFiniteSet(1..entries[i].bytes)
    BY <2>1, FS_Interval
  <2>3. IsFiniteSet({i})
    BY FS_Singleton
  <2> QED BY <2>2, <2>3, FS_Product, Zenon
<1>6. \A r \in rows : IsFiniteSet(r)
  BY <1>5
<1>7. Units(entries) = UNION rows
  BY DEF Units
<1> HIDE DEF rows
<1>8. IsFiniteSet(Units(entries))
  BY <1>4, <1>6, <1>7, FS_UNION
<1>9. Cardinality(Units(entries)) \in Nat
  BY <1>8, FS_CardinalityType
<1> QED BY <1>8, <1>9 DEF BytesOf, Units

LEMMA NoBytes == BytesOf(<<>>) = 0
<1>1. Units(<<>>) = {}
  BY DEF Units
<1> QED BY <1>1, FS_EmptySet DEF BytesOf, Units

(* `new` is `old` with e in it after `place` entries. *)
Splices(old, place, e, new) ==
  /\ new \in Seq(Entry) /\ Len(new) = Len(old) + 1
  /\ \A i \in 1..place : new[i] = old[i]
  /\ new[place + 1] = e
  /\ \A i \in (place + 1)..Len(old) : new[i + 1] = old[i]

LEMMA SplicedBytes ==
  ASSUME NEW old \in Seq(Entry), NEW place \in 0..Len(old), NEW e \in Entry, NEW new, Splices(old, place, e, new)
  PROVE  BytesOf(new) = BytesOf(old) + e.bytes
<1> DEFINE own == {place + 1} \X (1..e.bytes)
           rest == Units(new) \ own
           moved(u) == IF u[1] <= place THEN u ELSE <<u[1] + 1, u[2]>>
           f == [u \in Units(old) |-> moved(u)]
<1>1. /\ DOMAIN old = 1..Len(old) /\ Len(old) \in Nat /\ new \in Seq(Entry) /\ DOMAIN new = 1..(Len(old) + 1)
      /\ \A i \in 1..place : new[i] = old[i]
      /\ new[place + 1] = e
      /\ \A i \in (place + 1)..Len(old) : new[i + 1] = old[i]
  BY DEF Splices
<1>2. \A i \in 1..Len(old) : old[i].bytes \in Nat
  <2> SUFFICES ASSUME NEW i \in 1..Len(old) PROVE old[i].bytes \in Nat
    OBVIOUS
  <2>1. old[i] \in Entry
    OBVIOUS
  <2> QED BY <2>1 DEF Entry
<1>3. ASSUME NEW u PROVE u \in Units(old) <=> \E i \in 1..Len(old) : \E b \in 1..old[i].bytes : u = <<i, b>>
  BY <1>1 DEF Units
<1>4. ASSUME NEW u PROVE u \in Units(new) <=> \E i \in 1..(Len(old) + 1) : \E b \in 1..new[i].bytes : u = <<i, b>>
  BY <1>1 DEF Units
<1>5. own \subseteq Units(new)
  <2>1. place + 1 \in 1..(Len(old) + 1)
    BY <1>1
  <2>2. \A b \in 1..e.bytes : <<place + 1, b>> \in Units(new)
    BY <1>1, <1>4, <2>1
  <2> QED BY <2>2
<1>6. ASSUME NEW i \in 1..Len(old), NEW b \in 1..old[i].bytes
      PROVE  moved(<<i, b>>) \in rest /\ moved(<<i, b>>) = IF i <= place THEN <<i, b>> ELSE <<i + 1, b>>
  <2>1. CASE i <= place
    <3>1. new[i] = old[i] /\ i \in 1..(Len(old) + 1) /\ i # place + 1
      BY <1>1, <2>1
    <3>2. <<i, b>> \in Units(new)
      BY <1>4, <3>1
    <3> QED BY <2>1, <3>1, <3>2
  <2>2. CASE ~(i <= place)
    <3>1. new[i + 1] = old[i] /\ i + 1 \in 1..(Len(old) + 1) /\ i + 1 # place + 1
      BY <1>1, <2>2
    <3>2. <<i + 1, b>> \in Units(new)
      BY <1>4, <3>1
    <3> QED BY <2>2, <3>1, <3>2
  <2> QED BY <2>1, <2>2
<1>7. ASSUME NEW r \in rest PROVE \E u \in Units(old) : moved(u) = r
  <2>0. PICK i \in 1..(Len(old) + 1) : \E b \in 1..new[i].bytes : r = <<i, b>>
    BY <1>4
  <2>1. PICK b \in 1..new[i].bytes : r = <<i, b>>
    BY <2>0
  <2>2. i # place + 1
    BY <1>1, <2>1
  <2>3. CASE i <= place
    <3>1. i \in 1..Len(old) /\ b \in 1..old[i].bytes
      BY <1>1, <2>3
    <3> QED BY <1>3, <1>6, <2>1, <2>3, <3>1
  <2>4. CASE ~(i <= place)
    <3>1. i - 1 \in (place + 1)..Len(old) /\ i - 1 \in 1..Len(old) /\ (i - 1) + 1 = i /\ ~(i - 1 <= place)
      BY <1>1, <2>2, <2>4
    <3>2. b \in 1..old[i - 1].bytes
      BY <1>1, <3>1
    <3>3. <<i - 1, b>> \in Units(old)
      BY <1>3, <3>1, <3>2
    <3>4. moved(<<i - 1, b>>) = <<i, b>>
      BY <1>6, <3>1, <3>2
    <3> QED BY <2>1, <3>3, <3>4
  <2> QED BY <2>3, <2>4
<1>8. ASSUME NEW u \in Units(old), NEW v \in Units(old), moved(u) = moved(v) PROVE u = v
  <2>a. PICK i \in 1..Len(old) : \E b \in 1..old[i].bytes : u = <<i, b>>
    BY <1>3
  <2>1. PICK b \in 1..old[i].bytes : u = <<i, b>>
    BY <2>a
  <2>b. PICK j \in 1..Len(old) : \E c \in 1..old[j].bytes : v = <<j, c>>
    BY <1>3
  <2>2. PICK c \in 1..old[j].bytes : v = <<j, c>>
    BY <2>b
  <2>3. /\ moved(u) = IF i <= place THEN <<i, b>> ELSE <<i + 1, b>>
        /\ moved(v) = IF j <= place THEN <<j, c>> ELSE <<j + 1, c>>
    BY <1>6, <2>1, <2>2
  <2> HIDE DEF moved
  <2> QED BY <1>1, <1>8, <2>1, <2>2, <2>3
<1>9. \A u \in Units(old) : moved(u) \in rest
  BY <1>3, <1>6
<1> HIDE DEF moved, rest
<1>10. f \in Bijection(Units(old), rest)
  BY <1>7, <1>8, <1>9 DEF Bijection, Injection, Surjection, IsInjective
<1>11. IsFiniteSet(rest) /\ Cardinality(rest) = BytesOf(old)
  <2>1. ExistsBijection(Units(old), rest)
    <3> HIDE DEF f
    <3> QED BY <1>10 DEF ExistsBijection
  <2> QED BY <2>1, UnitsFinite, FS_Bijection
<1>12. e.bytes \in Nat
  BY DEF Entry
<1>13. IsFiniteSet(own) /\ Cardinality(own) = e.bytes
  <2>0. \A n \in Nat : IsFiniteSet(1..n) /\ Cardinality(1..n) = n
    BY FS_Interval
  <2>1. IsFiniteSet(1..e.bytes) /\ Cardinality(1..e.bytes) = e.bytes
    BY <1>12, <2>0, Zenon
  <2>2. IsFiniteSet({place + 1}) /\ Cardinality({place + 1}) = 1
    BY FS_Singleton
  <2>3. IsFiniteSet(own) /\ Cardinality(own) = Cardinality({place + 1}) * Cardinality(1..e.bytes)
    BY <2>1, <2>2, FS_Product, Zenon
  <2> QED BY <1>12, <2>1, <2>2, <2>3
<1> HIDE DEF own
<1>14. Units(new) = rest \cup own /\ rest \cap own = {}
  BY <1>5 DEF rest
<1>15. Cardinality(rest \cup own) = Cardinality(rest) + Cardinality(own) - Cardinality(rest \cap own)
  BY <1>11, <1>13, FS_Union
<1>16. Cardinality(rest \cap own) = 0
  BY <1>14, FS_EmptySet
<1>17. BytesOf(new) = Cardinality(rest \cup own) /\ BytesOf(old) \in Nat
  BY <1>1, <1>14, UnitsFinite
<1> QED BY <1>11, <1>12, <1>13, <1>15, <1>16, <1>17

LEMMA SettledSound ==
  ASSUME NEW s, NEW uids, NEW revs, Sound(s, uids, revs), NEW kept, Given(kept, uids)
  PROVE  /\ Sound(Settled(s, kept), uids, revs)
         /\ Settled(s, kept).entries = kept
         /\ Settled(s, kept).content = s.content
         /\ Settled(s, kept).rewrite = s.rewrite
<1>1. BytesOf(s.entries) \in Nat /\ BytesOf(kept) \in Nat
  BY UnitsFinite DEF Sound, Given
<1>2. s.memory - (BytesOf(s.entries) - BytesOf(kept)) = BytesOf(kept)
  BY <1>1 DEF Sound
<1> QED BY <1>2 DEF Settled, Sound

LEMMA WithoutGiven ==
  ASSUME NEW entries, NEW uids \in Nat, Given(entries, uids), NEW n \in 0..Len(entries)
  PROVE  /\ Given(Without(entries, n), uids)
         /\ Len(Without(entries, n)) = Len(entries) - n
         /\ \A i \in 1..(Len(entries) - n) : Without(entries, n)[i] = entries[n + i]
         /\ n = 0 => Without(entries, n) = entries
<1> DEFINE new == Without(entries, n)
<1>1. entries \in Seq(Entry) /\ Len(entries) \in Nat
  BY DEF Given
<1>2. /\ new \in Seq(Entry) /\ Len(new) = Len(entries) - n
      /\ \A i \in 1..(Len(entries) - n) : new[i] = entries[n + i]
      /\ n = 0 => new = entries
  BY <1>1 DEF Without
<1> HIDE DEF new
<1>3. DOMAIN new = 1..(Len(entries) - n) /\ \A i \in DOMAIN new : n + i \in DOMAIN entries
  BY <1>1, <1>2
<1>4. \A i \in DOMAIN new : new[i].uid < uids
  BY <1>2, <1>3 DEF Given
<1>5. InOrder(new)
  <2> SUFFICES ASSUME NEW i \in DOMAIN new, NEW j \in DOMAIN new, i < j PROVE new[i].ts <= new[j].ts
    BY DEF InOrder
  <2>1. new[i] = entries[n + i] /\ new[j] = entries[n + j] /\ n + i < n + j
    BY <1>2, <1>3
  <2> QED BY <1>3, <2>1 DEF Given, InOrder
<1> QED BY <1>2, <1>4, <1>5 DEF Given, new

LEMMA EvictFrontSound ==
  ASSUME NEW s, NEW uids \in Nat, NEW revs, Sound(s, uids, revs),
         NEW n \in 0..Len(s.entries), NEW rev \in Nat, rev < revs
  PROVE  LET new == EvictFront(s, n, rev)
         IN /\ Sound(new, uids, revs)
            /\ new.entries = Without(s.entries, n)
            /\ new.content = IF n = 0 THEN s.content ELSE rev
            /\ new.rewrite = s.rewrite
<1>1. Given(Without(s.entries, n), uids) /\ (n = 0 => Without(s.entries, n) = s.entries)
  BY WithoutGiven DEF Sound
<1> DEFINE settled == Settled(s, Without(s.entries, n))
<1>2. Sound(settled, uids, revs) /\ settled.entries = Without(s.entries, n) /\ settled.rewrite = s.rewrite
  BY <1>1, SettledSound
<1> HIDE DEF settled
<1>3. CASE n = 0
  BY <1>1, <1>3 DEF EvictFront
<1>4. CASE n # 0
  <2>1. EvictFront(s, n, rev) = [settled EXCEPT !.content = rev]
    BY <1>4 DEF EvictFront, settled
  <2> QED BY <1>2, <1>4, <2>1 DEF Sound
<1> QED BY <1>3, <1>4

-------------------------------------------------------------------------------
LEMMA Inserted ==
  ASSUME NEW entries, NEW uids \in Nat, Given(entries, uids),
         NEW e \in Entry, e.uid = uids, NEW place \in 0..Len(entries),
         \A i \in 1..place : entries[i].ts <= e.ts,
         \A i \in (place + 1)..Len(entries) : e.ts <= entries[i].ts
  PROVE  LET new == InsertAt(entries, place + 1, e)
         IN /\ Given(new, uids + 1) /\ Splices(entries, place, e, new)
            /\ place = Len(entries) => /\ Len(new) = Len(entries) + 1
                                       /\ \A i \in 1..Len(entries) : new[i] = entries[i]
                                       /\ new[Len(entries) + 1] = e
<1> DEFINE before == SubSeq(entries, 1, place)
           after == SubSeq(entries, place + 1, Len(entries))
           upto == before \o <<e>>
           new == upto \o after
<1>1. entries \in Seq(Entry) /\ Len(entries) \in Nat /\ \A i \in 1..Len(entries) : entries[i].uid < uids
  BY DEF Given
<1>2. before \in Seq(Entry) /\ Len(before) = place /\ \A i \in 1..place : before[i] = entries[i]
  BY <1>1
<1>3. after \in Seq(Entry) /\ Len(after) = Len(entries) - place
      /\ \A i \in 1..(Len(entries) - place) : after[i] = entries[place + i]
  BY <1>1
<1> HIDE DEF before, after
<1>3a. upto \in Seq(Entry) /\ Len(upto) = place + 1 /\ upto[place + 1] = e
      /\ \A i \in 1..place : upto[i] = entries[i]
  BY <1>1, <1>2
<1> HIDE DEF upto
<1>4. new \in Seq(Entry) /\ Len(new) = Len(entries) + 1
  <2>1. upto \in Seq(Entry) /\ after \in Seq(Entry)
    BY <1>3a, <1>3
  <2>2. new \in Seq(Entry) /\ Len(new) = Len(upto) + Len(after)
    BY <2>1
  <2> QED BY <1>1, <1>3a, <1>3, <2>2
<1>5. /\ \A i \in 1..(place + 1) : new[i] = upto[i]
      /\ \A i \in 1..(Len(entries) - place) : new[place + 1 + i] = after[i]
  <2>1. \A i \in 1..Len(upto) : new[i] = upto[i]
    BY <1>1, <1>3a, <1>3
  <2>2. \A i \in 1..Len(after) : new[Len(upto) + i] = after[i]
    BY <1>1, <1>3a, <1>3
  <2> QED BY <1>3a, <1>3, <2>1, <2>2
<1> HIDE DEF new
<1>6. new[place + 1] = e /\ \A i \in 1..place : new[i] = entries[i]
  BY <1>1, <1>3a, <1>5
<1>7. \A i \in (place + 2)..(Len(entries) + 1) : new[i] = entries[i - 1]
  <2> SUFFICES ASSUME NEW i \in (place + 2)..(Len(entries) + 1) PROVE new[i] = entries[i - 1]
    OBVIOUS
  <2> DEFINE d == i - (place + 1)
  <2>1. d \in 1..(Len(entries) - place) /\ place + 1 + d = i /\ place + d = i - 1
    BY <1>1
  <2> HIDE DEF d
  <2> QED BY <1>3, <1>5, <2>1
<1>8. \A i \in 1..Len(new) : new[i].uid < uids + 1
  <2> SUFFICES ASSUME NEW i \in 1..Len(new) PROVE new[i].uid < uids + 1
    OBVIOUS
  <2>1. new[i].uid \in Nat
    <3>1. new[i] \in Entry
      BY <1>4
    <3> QED BY <3>1 DEF Entry
  <2>2. CASE i <= place
    BY <1>1, <1>4, <1>6, <2>1, <2>2
  <2>3. CASE i = place + 1
    BY <1>6, <2>3
  <2>4. CASE i > place + 1
    <3>1. i \in (place + 2)..(Len(entries) + 1) /\ i - 1 \in 1..Len(entries)
      BY <1>1, <1>4, <2>4
    <3>2. entries[i - 1].uid < uids /\ new[i] = entries[i - 1]
      BY <1>1, <1>7, <3>1
    <3> QED BY <2>1, <3>2
  <2> QED BY <1>1, <1>4, <2>2, <2>3, <2>4
<1>9. InsertAt(entries, place + 1, e) = new
  <2>1. (place + 1) - 1 = place
    BY <1>1
  <2> QED BY <2>1 DEF InsertAt, before, after, upto, new
<1>10. \A i \in 1..Len(entries) : entries[i].ts \in Nat
  BY <1>1, StampsNat
<1>11. InOrder(new)
  <2> SUFFICES ASSUME NEW i \in 1..(Len(entries) + 1), NEW j \in 1..(Len(entries) + 1), i < j
               PROVE  new[i].ts <= new[j].ts
    BY <1>4 DEF InOrder
  <2>1. CASE j <= place
    <3>1. i \in 1..place /\ j \in 1..place /\ i \in DOMAIN entries /\ j \in DOMAIN entries
      BY <1>1, <2>1
    <3>2. entries[i].ts <= entries[j].ts
      BY <3>1 DEF Given, InOrder
    <3> QED BY <1>6, <3>1, <3>2
  <2>2. CASE j = place + 1
    <3>1. i \in 1..place
      BY <1>1, <2>2
    <3> QED BY <1>6, <2>2, <3>1
  <2>3. CASE j > place + 1
    <3>1. j \in (place + 2)..(Len(entries) + 1) /\ j - 1 \in (place + 1)..Len(entries) /\ j - 1 \in 1..Len(entries)
      BY <1>1, <2>3
    <3>2. new[j] = entries[j - 1] /\ e.ts <= entries[j - 1].ts
      BY <1>7, <3>1
    <3>3. CASE i <= place
      <4>1. i \in 1..place /\ i \in 1..Len(entries)
        BY <1>1, <3>3
      <4>2. entries[i].ts <= e.ts /\ e.ts \in Nat
        BY <4>1 DEF Entry
      <4> QED BY <1>6, <1>10, <3>1, <3>2, <4>1, <4>2
    <3>4. CASE i = place + 1
      BY <1>6, <3>2, <3>4
    <3>5. CASE i > place + 1
      <4>1. i \in (place + 2)..(Len(entries) + 1) /\ i - 1 \in DOMAIN entries /\ j - 1 \in DOMAIN entries /\ i - 1 < j - 1
        BY <1>1, <3>1, <3>5
      <4>2. new[i] = entries[i - 1]
        BY <1>7, <4>1
      <4>3. entries[i - 1].ts <= entries[j - 1].ts
        BY <4>1 DEF Given, InOrder
      <4> QED BY <3>2, <4>2, <4>3
    <3> QED BY <1>1, <3>3, <3>4, <3>5
  <2> QED BY <1>1, <2>1, <2>2, <2>3
<1>12. Given(new, uids + 1)
  BY <1>4, <1>8, <1>11 DEF Given
<1>13. Splices(entries, place, e, new)
  <2>1. \A i \in (place + 1)..Len(entries) : new[i + 1] = entries[i]
    <3> SUFFICES ASSUME NEW i \in (place + 1)..Len(entries) PROVE new[i + 1] = entries[i]
      OBVIOUS
    <3>1. i + 1 \in (place + 2)..(Len(entries) + 1) /\ (i + 1) - 1 = i
      BY <1>1
    <3> QED BY <1>7, <3>1
  <2> QED BY <1>4, <1>6, <2>1 DEF Splices
<1> QED BY <1>1, <1>4, <1>6, <1>9, <1>12, <1>13

(* What follows an old series, and what is new in it has the next UID. *)
Follows(old, new, uids) ==
  /\ Followable(old, new)
  /\ \A i \in DOMAIN new : new[i].uid = uids \/ \E j \in DOMAIN old : new[i] = old[j]

(* A reader may follow a series that only lost some of its front. *)
LEMMA FrontLost ==
  ASSUME NEW entries, NEW uids \in Nat, Given(entries, uids), NEW n \in 0..Len(entries)
  PROVE  Follows(entries, Without(entries, n), uids)
<1> DEFINE new == Without(entries, n)
<1>1. /\ entries \in Seq(Entry) /\ Len(entries) \in Nat /\ new \in Seq(Entry) /\ Len(new) = Len(entries) - n
      /\ \A i \in 1..(Len(entries) - n) : new[i] = entries[n + i]
  BY WithoutGiven DEF Given
<1> HIDE DEF new
<1>2. IsPrefix(new, new) /\ (Len(new) + 1)..Len(new) = {}
  BY <1>1 DEF IsPrefix
<1>3. \A i \in DOMAIN new : n + i \in DOMAIN entries /\ new[i] = entries[n + i]
  BY <1>1
<1>4. Followable(entries, new)
  BY <1>1, <1>2 DEF Followable, new
<1> QED BY <1>3, <1>4 DEF Follows, new

(* And one that gained a newer entry at the end before that. *)
LEMMA EndGained ==
  ASSUME NEW old, NEW uids \in Nat, Given(old, uids), NEW e \in Entry, e.uid = uids,
         \A i \in DOMAIN old : old[i].ts <= e.ts,
         NEW whole, Given(whole, uids + 1), Len(whole) = Len(old) + 1,
         \A i \in 1..Len(old) : whole[i] = old[i], whole[Len(old) + 1] = e,
         NEW n \in 0..Len(whole)
  PROVE  Follows(old, Without(whole, n), uids)
<1> DEFINE new == Without(whole, n)
<1>1. old \in Seq(Entry) /\ Len(old) \in Nat /\ DOMAIN old = 1..Len(old)
  BY DEF Given
<1>2. new \in Seq(Entry) /\ Len(new) = Len(old) + 1 - n
      /\ \A i \in 1..(Len(old) + 1 - n) : new[i] = whole[n + i]
  <2>1. uids + 1 \in Nat
    OBVIOUS
  <2>2. /\ Given(new, uids + 1) /\ Len(new) = Len(whole) - n
        /\ \A i \in 1..(Len(whole) - n) : new[i] = whole[n + i]
    BY <2>1, WithoutGiven
  <2> QED BY <1>1, <2>2 DEF Given
<1>a. \A i \in DOMAIN new : new[i].uid = uids \/ \E j \in DOMAIN old : new[i] = old[j]
  <2> SUFFICES ASSUME NEW i \in 1..(Len(old) + 1 - n) PROVE new[i].uid = uids \/ \E j \in DOMAIN old : new[i] = old[j]
    BY <1>1, <1>2
  <2>1. n + i \in 1..Len(old) \/ n + i = Len(old) + 1
    BY <1>1
  <2>2. new[i] = whole[n + i]
    BY <1>2
  <2> QED BY <1>1, <2>1, <2>2
<1> SUFFICES Followable(old, new)
  BY <1>a DEF Follows
<1>3. CASE n <= Len(old)
  <2> DEFINE kept == Without(old, n)
  <2>1. n \in 0..Len(old)
    BY <1>1, <1>3
  <2>2. kept \in Seq(Entry) /\ Len(kept) = Len(old) - n /\ \A i \in 1..(Len(old) - n) : kept[i] = old[n + i]
    BY <2>1, WithoutGiven DEF Given
  <2> HIDE DEF new, kept
  <2>3. \A i \in 1..Len(kept) : kept[i] = new[i]
    <3> SUFFICES ASSUME NEW i \in 1..(Len(old) - n) PROVE kept[i] = new[i]
      BY <2>2
    <3>1. n + i \in 1..Len(old) /\ i \in 1..(Len(old) + 1 - n)
      BY <1>1, <2>1
    <3> QED BY <1>2, <2>2, <3>1
  <2>4. SubSeq(kept, 1, Len(kept)) = SubSeq(new, 1, Len(kept))
    BY <1>1, <1>2, <2>1, <2>2, <2>3
  <2>5. IsPrefix(kept, new)
    BY <1>1, <1>2, <2>1, <2>2, <2>4 DEF IsPrefix
  <2>6. Len(new) = Len(kept) + 1 /\ kept # new /\ Len(kept) \in Nat
    BY <1>1, <1>2, <2>1, <2>2
  <2>7. new[Len(new)] = e
    <3>1. Len(new) \in 1..(Len(old) + 1 - n) /\ n + Len(new) = Len(old) + 1
      BY <1>1, <1>2, <2>1
    <3> QED BY <1>2, <3>1
  <2>8. \A i \in (Len(kept) + 1)..Len(new) : i = Len(new)
    BY <2>6
  <2>9. \A j \in DOMAIN old : old[j].uid < e.uid /\ old[j].ts <= e.ts
    BY DEF Given
  <2> QED BY <2>1, <2>5, <2>6, <2>7, <2>8, <2>9 DEF Followable, new, kept
<1>4. CASE ~(n <= Len(old))
  <2>1. new = <<>>
    BY <1>1, <1>2, <1>4
  <2>2. Without(old, Len(old)) = <<>> /\ Len(old) \in 0..Len(old)
    BY <1>1 DEF Without
  <2>3. IsPrefix(<<>>, <<>>) /\ (Len(<<>>) + 1)..Len(<<>>) = {}
    BY DEF IsPrefix
  <2> HIDE DEF new
  <2> QED BY <2>1, <2>2, <2>3 DEF Followable, new
<1> QED BY <1>3, <1>4

LEMMA InsertSound ==
  ASSUME NEW s, NEW uids \in Nat, NEW revs \in Nat, Sound(s, uids, revs),
         NEW e \in Entry, e.uid = uids, NEW drop
  PROVE  LET new == Insert(s, e, drop, revs)
         IN /\ Sound(new, uids + 1, revs + 1)
            /\ new.content = revs
            /\ new.rewrite \in {s.rewrite, revs}
            /\ new.rewrite = s.rewrite => Follows(s.entries, new.entries, uids)
<1> DEFINE kept == Settled(s, Survivors(s.entries, drop))
           place == AtOrBefore(kept.entries, e.ts)
           atEnd == place = Len(kept.entries)
           placed == InsertAt(kept.entries, place + 1, e)
           whole == [kept EXCEPT !.entries = placed,
                                 !.memory = kept.memory + e.bytes,
                                 !.cached = IF atEnd THEN kept.cached ELSE 0,
                                 !.content = revs,
                                 !.rewrite = IF Rewritten(s, kept, place) THEN revs ELSE s.rewrite]
<1>1. Insert(s, e, drop, revs) = EvictFront(whole, Expired(whole), revs)
  BY DEF Insert
<1>2. Sound(kept, uids, revs) /\ kept.rewrite = s.rewrite /\ Given(kept.entries, uids)
  <2>1. Given(Survivors(s.entries, drop), uids)
    BY SurvivorsGiven DEF Sound
  <2> QED BY <2>1, SettledSound DEF Sound
<1> HIDE DEF kept
<1>3. kept.entries \in Seq(Entry) /\ Len(kept.entries) \in Nat
  BY <1>2 DEF Given
<1>4. /\ place \in 0..Len(kept.entries)
      /\ \A i \in 1..place : kept.entries[i].ts <= e.ts
      /\ \A i \in (place + 1)..Len(kept.entries) : e.ts <= kept.entries[i].ts
  <2>1. InOrder(kept.entries) /\ e.ts \in Nat
    BY <1>2 DEF Given, Entry
  <2> QED BY <1>3, <2>1, AtOrBeforeBound, Divides
<1> HIDE DEF place
<1>5. /\ Given(placed, uids + 1)
      /\ atEnd => /\ Len(placed) = Len(kept.entries) + 1
                  /\ \A i \in 1..Len(kept.entries) : placed[i] = kept.entries[i]
                  /\ placed[Len(kept.entries) + 1] = e
  BY <1>2, <1>4, Inserted
<1>5a. Splices(kept.entries, place, e, placed)
  BY <1>2, <1>4, Inserted
<1> HIDE DEF placed
<1>6. atEnd => UidsOf(kept.entries) \subseteq UidsOf(placed)
  BY <1>3, <1>5 DEF UidsOf, Given
<1>7. /\ DOMAIN whole = {"entries", "cached", "memory", "content", "rewrite", "budget"}
      /\ whole.entries = placed /\ whole.content = revs /\ whole.budget = kept.budget
      /\ whole.cached = IF atEnd THEN kept.cached ELSE 0
      /\ whole.rewrite = IF Rewritten(s, kept, place) THEN revs ELSE s.rewrite
  BY <1>2 DEF Sound
<1>7a. whole.memory = BytesOf(placed)
  <2>1. BytesOf(placed) = BytesOf(kept.entries) + e.bytes
    BY <1>3, <1>4, <1>5a, SplicedBytes
  <2>2. whole.memory = kept.memory + e.bytes
    BY <1>2 DEF Sound
  <2> QED BY <1>2, <2>1, <2>2 DEF Sound
<1> HIDE DEF whole
<1>8. Sound(whole, uids + 1, revs + 1)
  BY <1>2, <1>5, <1>6, <1>7, <1>7a DEF Sound
<1> DEFINE n == Expired(whole)
           new == EvictFront(whole, n, revs)
<1>9. n \in 0..Len(whole.entries)
  BY <1>8, ExpiredBound
<1> HIDE DEF n
<1>10. /\ Sound(new, uids + 1, revs + 1) /\ new.entries = Without(placed, n)
       /\ new.content = revs /\ new.rewrite = whole.rewrite
  BY <1>7, <1>8, <1>9, EvictFrontSound
<1> HIDE DEF new
<1>11. ASSUME new.rewrite = s.rewrite
       PROVE  Follows(s.entries, new.entries, uids)
  <2>1. ~Rewritten(s, kept, place)
    BY <1>7, <1>10, <1>11 DEF Sound
  <2>2. kept.entries = s.entries /\ atEnd
    BY <2>1, <1>3, <1>4 DEF Rewritten
  <2>3. \A i \in DOMAIN kept.entries : kept.entries[i].ts <= e.ts
    BY <1>3, <1>4, <2>2
  <2> DEFINE old == s.entries
  <2>4. /\ Given(old, uids) /\ \A i \in DOMAIN old : old[i].ts <= e.ts
        /\ Len(placed) = Len(old) + 1 /\ \A i \in 1..Len(old) : placed[i] = old[i]
        /\ placed[Len(old) + 1] = e
    BY <1>2, <1>5, <2>2, <2>3
  <2>5. Given(placed, uids + 1) /\ n \in 0..Len(placed)
    BY <1>5, <1>7, <1>9
  <2> HIDE DEF old
  <2>6. Follows(old, Without(placed, n), uids)
    BY <2>4, <2>5, EndGained
  <2> QED BY <1>10, <2>6 DEF old
<1>12. new.rewrite \in {s.rewrite, revs}
  BY <1>7, <1>10
<1> QED BY <1>1, <1>10, <1>11, <1>12 DEF new, n

-------------------------------------------------------------------------------
LEMMA UidsNat ==
  ASSUME NEW entries, NEW uids, Given(entries, uids), NEW i \in DOMAIN entries
  PROVE  entries[i].uid \in Nat
<1>1. entries[i] \in Entry
  BY DEF Given
<1> QED BY <1>1 DEF Entry

LEMMA Later ==
  ASSUME NEW s, NEW uids \in Nat, NEW revs \in Nat, Sound(s, uids, revs),
         NEW uids2 \in Nat, NEW revs2 \in Nat, uids <= uids2, revs <= revs2
  PROVE  Sound(s, uids2, revs2)
<1>1. \A i \in DOMAIN s.entries : s.entries[i].uid \in Nat
  BY UidsNat DEF Sound
<1> QED BY <1>1 DEF Sound, Given

LEMMA NewSound ==
  ASSUME NEW uids \in Nat, NEW revs \in Nat, NEW rev \in Nat, rev < revs
  PROVE  Sound(NewSeries(rev), uids, revs)
BY NoBytes DEF Sound, Given, InOrder, NewSeries, Unlimited, Budget

LEMMA ClearedSound ==
  ASSUME NEW s, NEW uids \in Nat, NEW revs \in Nat, Sound(s, uids, revs)
  PROVE  /\ Sound(Cleared(s, revs), uids, revs + 1)
         /\ Cleared(s, revs).content = revs /\ Cleared(s, revs).rewrite = revs
         /\ Cleared(s, revs).cached = 0
BY NoBytes DEF Sound, Given, InOrder, Cleared

LEMMA NothingAsideGiven ==
  ASSUME NEW n, n = NothingAside, NEW uids
  PROVE  /\ DOMAIN n = {"valid", "prior", "held", "memory", "budget"} /\ DOMAIN n.held = Topics
         /\ \A t \in Topics : Given(n.held[t], uids) /\ n.memory[t] = BytesOf(n.held[t]) /\ n.budget[t] \in Budget
<1>1. Given(<<>>, uids)
  BY DEF Given, InOrder
<1>2. Unlimited \in Budget
  BY DEF Unlimited, Budget
<1> QED BY <1>1, <1>2, NoBytes DEF NothingAside

LEMMA Initially == Init => IInv
<1> SUFFICES ASSUME Init PROVE IInv
  OBVIOUS
<1>1. live \subseteq Topics /\ Counters /\ nextUid = 1 /\ nextRev = 1
  BY DEF Init, Counters
<1>2. AllSound
  BY <1>1, NewSound DEF Init, AllSound
<1>3. AsideGiven
  BY NothingAsideGiven DEF Init, AsideGiven
<1>4. PushTyped
  BY DEF Init, PushTyped, NoPush
<1> QED BY <1>1, <1>2, <1>3, <1>4 DEF IInv

(* What a step has to show of a topic's series, s before and new after it. *)
Tells(s, new) ==
  /\ new.content \in {s.content, nextRev} /\ new.rewrite \in {s.rewrite, nextRev}
  /\ new.content = s.content => new.entries = s.entries
  /\ new.rewrite = s.rewrite => Follows(s.entries, new.entries, nextUid)

Kept(t) == Sound(series'[t], nextUid', nextRev') /\ (t \in live \cap live' => Tells(series[t], series'[t]))

StepKeeps ==
  /\ IInv'
  /\ nextUid <= nextUid' /\ nextRev <= nextRev'
  /\ \A t \in live \cap live' : Tells(series[t], series'[t])

LEMMA SameTells ==
  ASSUME NEW s, NEW uids, NEW revs, Sound(s, uids, revs), nextUid \in Nat, uids <= nextUid, uids \in Nat
  PROVE  Tells(s, s)
<1>1. Given(s.entries, uids) /\ Len(s.entries) \in Nat
  BY DEF Sound, Given
<1>2. Follows(s.entries, Without(s.entries, 0), uids) /\ Without(s.entries, 0) = s.entries
  BY <1>1, FrontLost, WithoutGiven
<1>3. Follows(s.entries, s.entries, nextUid)
  BY <1>2 DEF Follows
<1> QED BY <1>3 DEF Tells

(* The step leaves the store alone. *)
LEMMA Untouched ==
  ASSUME IInv, UNCHANGED storeVars, PushTyped'
  PROVE  StepKeeps
<1>1. IInv'
  BY DEF IInv, storeVars, Counters, AllSound, AsideGiven
<1>2. \A t \in live : Tells(series[t], series[t])
  BY SameTells DEF IInv, AllSound, Counters
<1>3. nextUid <= nextUid' /\ nextRev <= nextRev' /\ live' = live /\ series' = series
  BY DEF IInv, Counters, storeVars
<1> QED BY <1>1, <1>2, <1>3 DEF StepKeeps

(* The step changes series; it keeps what it leaves alone. *)
LEMMA Gather ==
  ASSUME IInv, live' \subseteq Topics, Counters', nextUid <= nextUid', nextRev <= nextRev',
         AsideGiven', PushTyped', DOMAIN series' = Topics, \A t \in Topics : Kept(t)
  PROVE  StepKeeps
BY DEF StepKeeps, IInv, AllSound, Kept

LEMMA SameKept ==
  ASSUME IInv, Counters', nextUid <= nextUid', nextRev <= nextRev',
         NEW t \in Topics, series'[t] = series[t]
  PROVE  Kept(t)
<1>1. Sound(series[t], nextUid, nextRev) /\ Sound(series[t], nextUid', nextRev')
  BY Later DEF IInv, AllSound, Counters
<1>2. Tells(series[t], series[t])
  BY <1>1, SameTells DEF IInv, Counters
<1> QED BY <1>1, <1>2 DEF Kept

(* An operation that moves both revisions tells everything. *)
LEMMA RewriteTells ==
  ASSUME IInv, NEW t \in Topics, NEW new, new.content = nextRev, new.rewrite = nextRev
  PROVE  Tells(series[t], new)
BY DEF Tells, IInv, AllSound, Sound, Counters

LEMMA AsideStays ==
  ASSUME IInv, UNCHANGED aside, Counters', nextUid <= nextUid'
  PROVE  AsideGiven'
<1>1. \A t \in Topics : \A i \in DOMAIN aside.held[t] : aside.held[t][i].uid \in Nat
  BY UidsNat DEF IInv, AsideGiven
<1> QED BY <1>1 DEF IInv, AsideGiven, Given, Counters

-------------------------------------------------------------------------------
LEMMA PushEntryKeeps ==
  ASSUME IInv, NEW t \in Topics, NEW ts \in Nat, NEW bytes \in Nat, NEW slot \in Slots \cup {NoSlot},
         PushEntry(t, ts, bytes, slot), PushTyped'
  PROVE  StepKeeps
<1> DEFINE e == NewEntry(ts, bytes, slot)
           new == Insert(series[t], e, {}, nextRev)
<1>1. e \in Entry /\ e.uid = nextUid
  BY DEF NewEntry, Entry, IInv, Counters
<1>2. Counters' /\ nextUid' = nextUid + 1 /\ nextRev' = nextRev + 1
  BY DEF PushEntry, IInv, Counters
<1>3. DOMAIN series = Topics /\ series' = [series EXCEPT ![t] = new]
  BY DEF PushEntry, IInv, AllSound
<1> HIDE DEF e
<1>4. /\ Sound(new, nextUid + 1, nextRev + 1)
      /\ new.content = nextRev
      /\ new.rewrite \in {series[t].rewrite, nextRev}
      /\ new.rewrite = series[t].rewrite => Follows(series[t].entries, new.entries, nextUid)
  <2>1. Sound(series[t], nextUid, nextRev) /\ nextUid \in Nat /\ nextRev \in Nat
    BY DEF IInv, AllSound, Counters
  <2>2. ASSUME NEW drop
        PROVE  LET other == Insert(series[t], e, drop, nextRev)
               IN /\ Sound(other, nextUid + 1, nextRev + 1)
                  /\ other.content = nextRev
                  /\ other.rewrite \in {series[t].rewrite, nextRev}
                  /\ other.rewrite = series[t].rewrite => Follows(series[t].entries, other.entries, nextUid)
    BY <1>1, <2>1, InsertSound
  <2> QED BY <2>2
<1> HIDE DEF new
<1>5. Kept(t)
  <2>1. new.content # series[t].content
    BY <1>4 DEF IInv, AllSound, Sound, Counters
  <2> QED BY <1>2, <1>3, <1>4, <2>1 DEF Kept, Tells
<1>6. \A x \in Topics \ {t} : Kept(x)
  BY <1>2, <1>3, SameKept DEF IInv, Counters
<1>7. AsideGiven'
  BY <1>2, AsideStays DEF PushEntry, IInv, Counters
<1> QED BY <1>2, <1>3, <1>5, <1>6, <1>7, Gather DEF PushEntry, IInv, Counters

LEMMA PushKeeps ==
  ASSUME IInv, NEW t \in Topics, NEW ts \in Stamps, NEW bytes \in Payloads, Push(t, ts, bytes)
  PROVE  StepKeeps
BY PushEntryKeeps, StoreAssumption DEF Push, IInv, PushTyped

LEMMA SeedKeeps == ASSUME IInv, Seed PROVE StepKeeps
<1>1. ASSUME NEW t \in Topics, NEW ts \in Stamps, SeedCheck(t, ts)
      PROVE  StepKeeps
  BY <1>1, Untouched, StoreAssumption DEF SeedCheck, PushTyped
<1>2. ASSUME NEW bytes \in Sizes, SeedAdmit(bytes)
      PROVE  StepKeeps
  <2>1. PushTyped'
    BY <1>2 DEF SeedAdmit, PushTyped, IInv
  <2> QED BY <1>2, <2>1, Untouched DEF SeedAdmit
<1>3. CASE SeedInsert
  <2>1. PushTyped'
    BY <1>3 DEF SeedInsert, PushTyped, NoPush
  <2>2. CASE push.t \in live
    BY <1>3, <2>1, <2>2, PushEntryKeeps DEF SeedInsert, IInv, PushTyped
  <2>3. CASE push.t \notin live
    BY <1>3, <2>1, <2>3, Untouched DEF SeedInsert
  <2> QED BY <2>2, <2>3
<1> QED BY <1>1, <1>2, <1>3 DEF Seed

LEMMA BundleKeeps ==
  ASSUME IInv, NEW drops, NEW grown, NEW ts \in Nat, NEW bytes \in Nat,
         grown = {} \/ \E t \in Topics : grown = {t}, Bundle(drops, grown, ts, bytes)
  PROVE  StepKeeps
<1> DEFINE e == NewEntry(ts, bytes, NoSlot)
<1>1. Cardinality(grown) \in 0..1 /\ (grown # {} => Cardinality(grown) = 1)
  <2>1. CASE grown = {}
    BY <2>1, FS_EmptySet
  <2>2. ASSUME NEW t \in Topics, grown = {t} PROVE Cardinality(grown) = 1
    BY <2>2, FS_Singleton
  <2> QED BY <2>1, <2>2
<1>2. nextUid' = nextUid + Cardinality(grown) /\ nextRev' = nextRev + 1 /\ UNCHANGED <<live, aside, push>>
  BY DEF Bundle
<1>3. Counters' /\ nextUid <= nextUid' /\ nextRev <= nextRev'
  BY <1>1, <1>2 DEF IInv, Counters
<1>4. e \in Entry /\ e.uid = nextUid
  BY DEF NewEntry, Entry, IInv, Counters
<1>5. ASSUME NEW x \in Topics PROVE Kept(x)
  <2>0. Sound(series[x], nextUid, nextRev) /\ nextUid \in Nat /\ nextRev \in Nat
    BY DEF IInv, AllSound, Counters
  <2>1. CASE x \in grown
    <3> DEFINE new == Insert(series[x], e, drops[x], nextRev)
    <3>1. series'[x] = new /\ nextUid' = nextUid + 1
      BY <1>1, <1>2, <2>1 DEF Bundle
    <3> HIDE DEF e
    <3>2. /\ Sound(new, nextUid + 1, nextRev + 1)
          /\ new.content = nextRev
          /\ new.rewrite \in {series[x].rewrite, nextRev}
          /\ new.rewrite = series[x].rewrite => Follows(series[x].entries, new.entries, nextUid)
      BY <1>4, <2>0, InsertSound
    <3> HIDE DEF new
    <3>3. new.content # series[x].content
      BY <2>0, <3>2 DEF Sound
    <3> QED BY <1>2, <3>1, <3>2, <3>3 DEF Kept, Tells
  <2>2. CASE x \notin grown /\ x \in DOMAIN drops /\ drops[x] # {}
    <3> DEFINE kept == Survivors(series[x].entries, drops[x])
               settled == Settled(series[x], kept)
               new == [settled EXCEPT !.content = nextRev, !.rewrite = nextRev]
    <3>1. series'[x] = new
      BY <2>2 DEF Bundle
    <3>2. Given(kept, nextUid)
      BY <2>0, SurvivorsGiven DEF Sound
    <3> HIDE DEF kept
    <3>3. Sound(settled, nextUid, nextRev)
      BY <2>0, <3>2, SettledSound
    <3> HIDE DEF settled
    <3>4. Sound(new, nextUid, nextRev + 1) /\ new.content = nextRev /\ new.rewrite = nextRev
      BY <2>0, <3>3 DEF Sound
    <3> HIDE DEF new
    <3>5. Sound(new, nextUid', nextRev')
      BY <1>2, <1>3, <2>0, <3>4, Later DEF Counters
    <3> QED BY <3>1, <3>4, <3>5, RewriteTells DEF Kept
  <2>3. CASE x \notin grown /\ ~(x \in DOMAIN drops /\ drops[x] # {})
    <3>1. series'[x] = series[x]
      BY <2>3 DEF Bundle
    <3> QED BY <1>2, <1>3, <2>0, <3>1, SameKept
  <2> QED BY <2>1, <2>2, <2>3
<1>6. AsideGiven'
  BY <1>2, <1>3, AsideStays
<1>7. DOMAIN series' = Topics
  BY DEF Bundle
<1> QED BY <1>2, <1>3, <1>5, <1>6, <1>7, Gather DEF IInv, PushTyped

LEMMA ProduceKeeps == ASSUME IInv, Produce PROVE StepKeeps
<1>1. ASSUME NEW t \in Topics, NEW ts \in Stamps, NEW bytes \in Payloads, Push(t, ts, bytes)
      PROVE  StepKeeps
  BY <1>1, PushKeeps
<1>2. ASSUME NEW T \in SUBSET live, NEW drops, NEW t \in T, NEW ts \in Stamps, NEW bytes \in Payloads,
             Bundle(drops, {t}, ts, bytes)
      PROVE  StepKeeps
  <2>1. t \in Topics /\ ts \in Nat /\ bytes \in Nat
    BY StoreAssumption DEF IInv
  <2> QED BY <1>2, <2>1, BundleKeeps
<1>3. ASSUME NEW drops, Bundle(drops, {}, 0, 0)
      PROVE  StepKeeps
  BY <1>3, BundleKeeps
<1> QED BY <1>1, <1>2, <1>3 DEF Produce

(* A step that changes one series and no counter below what it was. *)
LEMMA OneKept ==
  ASSUME IInv, NEW t \in Topics, NEW new, series' = [series EXCEPT ![t] = new],
         UNCHANGED <<live, nextUid, aside, push>>, nextRev' \in {nextRev, nextRev + 1},
         Sound(new, nextUid, nextRev'), Tells(series[t], new)
  PROVE  StepKeeps
<1>1. Counters' /\ nextUid <= nextUid' /\ nextRev <= nextRev'
  BY DEF IInv, Counters
<1>2. DOMAIN series = Topics
  BY DEF IInv, AllSound
<1>3. Kept(t)
  BY <1>2 DEF Kept
<1>4. \A x \in Topics \ {t} : Kept(x)
  BY <1>1, <1>2, SameKept
<1>5. AsideGiven'
  BY <1>1, AsideStays
<1> QED BY <1>1, <1>2, <1>3, <1>4, <1>5, Gather DEF IInv, PushTyped

LEMMA SetBudgetKeeps ==
  ASSUME IInv, NEW t \in Topics, NEW budget \in Budgets, SetRetentionBudget(t, budget)
  PROVE  StepKeeps
<1> DEFINE new == [series[t] EXCEPT !.budget = budget]
<1>1. series' = [series EXCEPT ![t] = new] /\ UNCHANGED <<live, nextUid, nextRev, aside, push>>
  BY DEF SetRetentionBudget
<1>2. Sound(series[t], nextUid, nextRev) /\ nextUid \in Nat
  BY DEF IInv, AllSound, Counters
<1>3. Sound(new, nextUid, nextRev) /\ new.entries = series[t].entries
  BY <1>2, StoreAssumption DEF Sound, Budget
<1>4. Tells(series[t], new)
  BY <1>2, <1>3, SameTells DEF Tells
<1> HIDE DEF new
<1> QED BY <1>1, <1>3, <1>4, OneKept

LEMMA EvictBeforeKeeps ==
  ASSUME IInv, NEW t \in Topics, NEW ts \in Stamps, EvictBefore(t, ts)
  PROVE  StepKeeps
<1> DEFINE n == AtOrBefore(series[t].entries, ts - 1)
           new == EvictFront(series[t], n, nextRev)
<1>1. series' = [series EXCEPT ![t] = new] /\ nextRev' = nextRev + 1 /\ n > 0
      /\ UNCHANGED <<live, nextUid, aside, push>>
  BY DEF EvictBefore
<1>2. Sound(series[t], nextUid, nextRev) /\ nextUid \in Nat /\ nextRev \in Nat
  BY DEF IInv, AllSound, Counters
<1>3. n \in 0..Len(series[t].entries)
  BY <1>2, AtOrBeforeBound DEF Sound, Given
<1>4. Sound(series[t], nextUid, nextRev + 1)
  BY <1>2, Later
<1> HIDE DEF n
<1>5. Sound(new, nextUid, nextRev + 1) /\ new.content = nextRev /\ new.rewrite = series[t].rewrite
      /\ new.entries = Without(series[t].entries, n)
  BY <1>1, <1>2, <1>3, <1>4, EvictFrontSound
<1> HIDE DEF new
<1>6. Follows(series[t].entries, new.entries, nextUid)
  BY <1>2, <1>3, <1>5, FrontLost DEF Sound
<1>7. Tells(series[t], new)
  BY <1>2, <1>5, <1>6 DEF Tells, Sound
<1> QED BY <1>1, <1>5, <1>7, OneKept

LEMMA RegisterKeeps ==
  ASSUME IInv, NEW t \in Topics, RegisterTopic(t) \/ RemoveTopic(t)
  PROVE  StepKeeps
<1>1. t \notin live \cap live' /\ live' \subseteq Topics
      /\ nextRev' \in {nextRev, nextRev + 1} /\ UNCHANGED <<nextUid, push>>
  BY DEF RegisterTopic, RemoveTopic, IInv
<1>2. Counters' /\ nextUid <= nextUid' /\ nextRev <= nextRev'
  BY <1>1 DEF IInv, Counters
<1>3. DOMAIN series = Topics
  BY DEF IInv, AllSound
<1>4. Kept(t)
  <2>1. CASE RegisterTopic(t)
    <3>1. series'[t] = NewSeries(nextRev) /\ nextRev' = nextRev + 1
      BY <1>3, <2>1 DEF RegisterTopic
    <3>2. Sound(NewSeries(nextRev), nextUid', nextRev')
      BY <1>2, <3>1, NewSound DEF IInv, Counters
    <3> QED BY <1>1, <3>1, <3>2 DEF Kept
  <2>2. CASE RemoveTopic(t)
    <3>1. series'[t] = NewSeries(0)
      BY <1>3, <2>2 DEF RemoveTopic
    <3>2. Sound(NewSeries(0), nextUid', nextRev')
      BY <1>2, NewSound DEF Counters
    <3> QED BY <1>1, <3>1, <3>2 DEF Kept
  <2> QED BY <2>1, <2>2
<1>5. \A x \in Topics \ {t} : Kept(x)
  <2>1. \A x \in Topics \ {t} : series'[x] = series[x]
    BY <1>3 DEF RegisterTopic, RemoveTopic
  <2> QED BY <1>2, <2>1, SameKept
<1>6. AsideGiven'
  BY <1>1 DEF RegisterTopic, RemoveTopic, IInv, AsideGiven
<1>7. DOMAIN series' = Topics
  BY <1>3 DEF RegisterTopic, RemoveTopic
<1> QED BY <1>1, <1>2, <1>4, <1>5, <1>6, <1>7, Gather DEF IInv, PushTyped

(* A topic whose entries are cleared, and perhaps replaced by given ones. *)
LEMMA ClearedKept ==
  ASSUME IInv, UNCHANGED nextUid, nextRev' = nextRev + 1, NEW t \in Topics,
         series'[t] = Cleared(series[t], nextRev)
  PROVE  Kept(t)
<1> DEFINE new == Cleared(series[t], nextRev)
<1>1. Sound(series[t], nextUid, nextRev) /\ nextUid \in Nat /\ nextRev \in Nat
  BY DEF IInv, AllSound, Counters
<1>2. Sound(new, nextUid, nextRev + 1) /\ new.content = nextRev /\ new.rewrite = nextRev
  BY <1>1, ClearedSound
<1> HIDE DEF new
<1> QED BY <1>2, RewriteTells DEF Kept, new

LEMMA ClearKeeps == ASSUME IInv, ClearDataset \/ DetachDataset PROVE StepKeeps
<1>1. UNCHANGED <<live, nextUid, push>> /\ nextRev' = nextRev + 1
  BY DEF ClearDataset, DetachDataset
<1>2. Counters' /\ nextUid <= nextUid' /\ nextRev <= nextRev'
  BY <1>1 DEF IInv, Counters
<1>3. series' = [t \in Topics |-> IF t \in live THEN Cleared(series[t], nextRev) ELSE series[t]]
  BY DEF ClearDataset, DetachDataset
<1>4. ASSUME NEW t \in Topics PROVE Kept(t)
  BY <1>1, <1>2, <1>3, ClearedKept, SameKept
<1>5. AsideGiven'
  <2>1. CASE ClearDataset
    BY <1>2, <2>1, AsideStays DEF ClearDataset
  <2>2. CASE DetachDataset
    BY <1>1, <2>2 DEF DetachDataset, AsideGiven, IInv, AllSound, Sound
  <2> QED BY <2>1, <2>2
<1> QED BY <1>1, <1>2, <1>3, <1>4, <1>5, Gather DEF IInv, PushTyped

LEMMA CommitKeeps == ASSUME IInv, CommitRefill PROVE StepKeeps
<1>1. UNCHANGED <<live, series, nextUid, nextRev, push>> /\ aside' = NothingAside
  BY DEF CommitRefill
<1>2. Counters' /\ nextUid <= nextUid' /\ nextRev <= nextRev' /\ DOMAIN series = Topics
  BY <1>1 DEF IInv, Counters, AllSound
<1>3. \A t \in Topics : Kept(t)
  BY <1>1, <1>2, SameKept
<1>4. AsideGiven'
  BY <1>1, NothingAsideGiven DEF AsideGiven
<1> QED BY <1>1, <1>2, <1>3, <1>4, Gather DEF IInv, PushTyped

LEMMA ReattachKeeps == ASSUME IInv, ReattachDataset PROVE StepKeeps
<1>1. UNCHANGED <<nextUid, push>> /\ nextRev' = nextRev + 1 /\ aside' = NothingAside
      /\ live' = live \cap aside.prior
  BY DEF ReattachDataset
<1>2. Counters' /\ nextUid <= nextUid' /\ nextRev <= nextRev' /\ live' \subseteq Topics
  BY <1>1 DEF IInv, Counters
<1>3. ASSUME NEW t \in Topics PROVE Kept(t)
  <2>0. Sound(series[t], nextUid, nextRev) /\ nextUid \in Nat /\ nextRev \in Nat
    BY DEF IInv, AllSound, Counters
  <2>1. CASE t \notin live
    <3>1. series'[t] = series[t]
      BY <2>1 DEF ReattachDataset
    <3> QED BY <1>2, <3>1, SameKept
  <2>2. CASE t \in live /\ t \notin aside.prior
    <3>1. series'[t] = NewSeries(0) /\ t \notin live'
      BY <1>1, <2>2 DEF ReattachDataset
    <3>2. Sound(NewSeries(0), nextUid', nextRev')
      BY <1>2, NewSound DEF Counters
    <3> QED BY <3>1, <3>2 DEF Kept
  <2>3. CASE t \in live /\ t \in aside.prior
    <3> DEFINE cleared == Cleared(series[t], nextRev)
               new == [cleared EXCEPT !.entries = aside.held[t], !.memory = aside.memory[t], !.budget = aside.budget[t]]
    <3>1. series'[t] = new
      BY <2>3 DEF ReattachDataset
    <3>2. /\ Sound(cleared, nextUid, nextRev + 1) /\ cleared.content = nextRev /\ cleared.rewrite = nextRev
          /\ cleared.cached = 0
      BY <2>0, ClearedSound
    <3> HIDE DEF cleared
    <3>3. Given(aside.held[t], nextUid) /\ aside.memory[t] = BytesOf(aside.held[t]) /\ aside.budget[t] \in Budget
      BY DEF IInv, AsideGiven
    <3>4. Sound(new, nextUid, nextRev + 1) /\ new.content = nextRev /\ new.rewrite = nextRev
      BY <3>2, <3>3 DEF Sound
    <3> HIDE DEF new
    <3> QED BY <1>1, <3>1, <3>4, RewriteTells DEF Kept
  <2> QED BY <2>1, <2>2, <2>3
<1>4. DOMAIN series' = Topics
  BY DEF ReattachDataset
<1>5. AsideGiven'
  BY <1>1, NothingAsideGiven DEF AsideGiven
<1> QED BY <1>1, <1>2, <1>3, <1>4, <1>5, Gather DEF IInv, PushTyped

LEMMA ManageKeeps == ASSUME IInv, Manage PROVE StepKeeps
BY SetBudgetKeeps, EvictBeforeKeeps, RegisterKeeps, ClearKeeps, CommitKeeps, ReattachKeeps DEF Manage

(* The reader writes the warm value, and only that of an entry that is there. *)
LEMMA ReadKeeps == ASSUME IInv, Read PROVE StepKeeps
<1>1. ASSUME NEW t \in Topics, NEW ts \in Stamps, LatestAt(t, ts)
      PROVE  StepKeeps
  BY <1>1, Untouched DEF LatestAt, IInv, PushTyped
<1>2. ASSUME NEW fetched \in BOOLEAN, Resolve(fetched)
      PROVE  StepKeeps
  BY <1>2, Untouched DEF Resolve, IInv, PushTyped
<1>3. CASE Memoize
  <2>1. UNCHANGED <<live, nextUid, nextRev, aside, push>>
    BY <1>3 DEF Memoize
  <2>2. CASE look.t \in live /\ look.e.uid \in UidsOf(series[look.t].entries)
    <3> DEFINE t == look.t
               new == [series[t] EXCEPT !.cached = look.e.uid]
    <3>1. series' = [series EXCEPT ![t] = new] /\ t \in Topics
      BY <1>3, <2>2 DEF Memoize, IInv
    <3>2. Sound(series[t], nextUid, nextRev) /\ nextUid \in Nat
      BY <3>1 DEF IInv, AllSound, Counters
    <3>3. Sound(new, nextUid, nextRev) /\ new.entries = series[t].entries
      BY <2>2, <3>2 DEF Sound
    <3>4. Tells(series[t], new)
      BY <3>2, <3>3, SameTells DEF Tells
    <3> HIDE DEF new
    <3> QED BY <2>1, <3>1, <3>3, <3>4, OneKept
  <2>3. CASE ~(look.t \in live /\ look.e.uid \in UidsOf(series[look.t].entries))
    BY <1>3, <2>1, <2>3, Untouched DEF Memoize, IInv, PushTyped, storeVars
  <2> QED BY <2>2, <2>3
<1> QED BY <1>1, <1>2, <1>3 DEF Read

LEMMA OthersKeep == ASSUME IInv, Follow \/ Reside \/ UNCHANGED vars PROVE StepKeeps
<1>1. UNCHANGED storeVars /\ UNCHANGED push
  BY DEF Follow, IndexIdentity, IndexCount, IndexFront, IndexPrune, IndexDrain,
         Reside, TrimPool, LoseSlot, SettleSlot, vars
<1> QED BY <1>1, Untouched DEF IInv, PushTyped

-------------------------------------------------------------------------------
LEMMA Steps == ASSUME IInv, [Next]_vars PROVE StepKeeps
BY ProduceKeeps, SeedKeeps, ManageKeeps, ReadKeeps, OthersKeep DEF Next

LEMMA Invariance == Spec => []IInv
<1>1. IInv /\ [Next]_vars => IInv'
  BY Steps DEF StepKeeps
<1> QED BY Initially, <1>1, PTL DEF Spec

(* Whatever a reader resolves with no lock held, the warm value it leaves is   *)
(* an entry the topic holds: for any topics, stamps, budgets and bundles, and  *)
(* however the topic is cleared, evicted, detached or registered meanwhile.    *)
THEOREM NoGhost == Spec => []NoGhostCache
<1>1. IInv => NoGhostCache
  BY DEF IInv, AllSound, Sound, NoGhostCache
<1> QED BY Invariance, <1>1, PTL

(* Every operation moves the revisions as a reader that follows them needs: a  *)
(* content revision that stays means the same entries, and a rewrite revision  *)
(* that stays means a series that a UID cursor and a floor can follow.         *)
THEOREM Told == Spec => RevisionsTell
<1>1. IInv /\ [Next]_vars =>
        [\A t \in live \cap live' :
           /\ series'[t].content = series[t].content => series'[t].entries = series[t].entries
           /\ series'[t].rewrite = series[t].rewrite => Followable(series[t].entries, series'[t].entries)]_vars
  BY Steps DEF StepKeeps, Tells, Follows
<1> QED BY Invariance, <1>1, PTL DEF Spec, RevisionsTell

-------------------------------------------------------------------------------
(* The decoder's index.  While it works the revisions it took first are in    *)
(* `identity`, and those it is known to be built from in `seen` when it rests. *)
Basis == IF index.pc = "idle" THEN index.seen ELSE index.identity

Known(revisions) ==
  /\ revisions.content \in Nat /\ revisions.content < nextRev
  /\ revisions.rewrite \in Nat /\ revisions.rewrite < nextRev

IndexTyped ==
  /\ DOMAIN index = {"pc", "packets", "skipped", "pruned", "cursor", "seen", "identity", "floor"}
  /\ index.floor \in Nat
  /\ index.cursor \in Nat /\ index.cursor < nextUid
  /\ Known(index.seen) /\ Known(index.identity)

Scanned == index.packets \cup index.skipped

(* The packets up to the cursor are in the index, or could not be extracted,  *)
(* unless the topic was rewritten since; and none of them is below the floor  *)
(* the prune will use.                                                        *)
Covers ==
  Video \in live /\ series[Video].rewrite = Basis.rewrite =>
    \A i \in DOMAIN series[Video].entries :
      series[Video].entries[i].uid <= index.cursor =>
        /\ Packet(series[Video].entries[i]) \in Scanned
        /\ index.pc = "prune" => index.floor <= series[Video].entries[i].ts

IndexInv == IndexTyped /\ Covers /\ IndexMissesNothing

(* A topic that is new has revisions nobody has seen. *)
LEMMA Newcomer ==
  ASSUME IInv, [Next]_vars, NEW t \in live' \ live
  PROVE  series'[t].content = nextRev /\ series'[t].rewrite = nextRev
<1>1. ASSUME NEW x \in Topics, RegisterTopic(x)
      PROVE  series'[t].content = nextRev /\ series'[t].rewrite = nextRev
  <2>1. x = t /\ DOMAIN series = Topics
    BY <1>1 DEF RegisterTopic, IInv, AllSound
  <2>2. series'[t] = NewSeries(nextRev)
    BY <1>1, <2>1 DEF RegisterTopic
  <2> QED BY <2>2 DEF NewSeries
<1>2. Produce \/ Seed \/ Read \/ Follow \/ Reside \/ UNCHANGED vars => live' = live
  BY DEF Produce, Push, PushEntry, Bundle, Seed, SeedCheck, SeedAdmit, SeedInsert, Read, LatestAt, Resolve,
         Memoize, Follow, IndexIdentity, IndexCount, IndexFront, IndexPrune, IndexDrain, Reside, TrimPool,
         LoseSlot, SettleSlot, storeVars, vars
<1>3. Manage => live' \subseteq live \/ \E x \in Topics : RegisterTopic(x)
  BY DEF Manage, SetRetentionBudget, EvictBefore, RemoveTopic, ClearDataset, DetachDataset, CommitRefill,
         ReattachDataset
<1> QED BY <1>1, <1>2, <1>3 DEF Next

(* Whatever the store does between two steps of the decoder, the revisions it *)
(* took stay known, and the index keeps covering what the cursor is past.     *)
LEMMA StoreStep ==
  ASSUME IInv, IndexInv, [Next]_vars, UNCHANGED index
  PROVE  IndexInv'
<1>1. /\ nextUid \in Nat /\ nextRev \in Nat /\ nextUid' \in Nat /\ nextRev' \in Nat
      /\ nextUid <= nextUid' /\ nextRev <= nextRev'
      /\ Video \in live \cap live' => Tells(series[Video], series'[Video])
  BY Steps DEF StepKeeps, IInv, Counters
<1>2. Known(index.seen) /\ Known(index.identity) /\ index.cursor \in Nat /\ index.cursor < nextUid
  BY DEF IndexInv, IndexTyped
<1>3. IndexTyped'
  BY <1>1 DEF IndexInv, IndexTyped, Known
<1>4. Basis' = Basis /\ Basis.rewrite \in Nat /\ Basis.rewrite < nextRev
  BY <1>2 DEF Basis, Known
<1>5. CASE Video \in live \cap live'
  <2>1. /\ series'[Video].content \in {series[Video].content, nextRev}
        /\ series'[Video].rewrite \in {series[Video].rewrite, nextRev}
        /\ series'[Video].content = series[Video].content => series'[Video].entries = series[Video].entries
        /\ series'[Video].rewrite = series[Video].rewrite =>
             Follows(series[Video].entries, series'[Video].entries, nextUid)
    BY <1>1, <1>5 DEF Tells
  <2>2. Covers'
    <3> SUFFICES ASSUME series'[Video].rewrite = Basis.rewrite,
                        NEW i \in DOMAIN series'[Video].entries,
                        series'[Video].entries[i].uid <= index.cursor
                 PROVE  /\ Packet(series'[Video].entries[i]) \in Scanned
                        /\ index.pc = "prune" => index.floor <= series'[Video].entries[i].ts
      BY <1>4 DEF Covers, Packet, Scanned
    <3>1. series'[Video].rewrite = series[Video].rewrite
      BY <1>1, <1>4, <2>1
    <3>2. series'[Video].entries[i].uid # nextUid
      BY <1>1, <1>2
    <3>3. PICK j \in DOMAIN series[Video].entries : series'[Video].entries[i] = series[Video].entries[j]
      BY <2>1, <3>1, <3>2 DEF Follows
    <3> QED BY <1>5, <3>1, <3>3 DEF IndexInv, Covers
  <2>3. IndexMissesNothing'
    <3> SUFFICES ASSUME index.pc = "idle", index.seen = Identity(Video)'
                 PROVE  Packets(series'[Video].entries) \subseteq index.packets \cup index.skipped
      BY DEF IndexMissesNothing, Followed, Packets, Packet
    <3>1. index.seen.content = series'[Video].content /\ index.seen.rewrite = series'[Video].rewrite
      BY <1>5 DEF Identity
    <3>2. series'[Video].content = series[Video].content /\ series'[Video].rewrite = series[Video].rewrite
      BY <1>1, <1>2, <2>1, <3>1 DEF Known
    <3>3. Identity(Video)' = Identity(Video) /\ series'[Video].entries = series[Video].entries
      BY <1>5, <2>1, <3>2 DEF Identity
    <3> QED BY <1>5, <3>3 DEF IndexInv, IndexMissesNothing, Followed
  <2> QED BY <1>3, <2>2, <2>3 DEF IndexInv
<1>6. CASE Video \in live' \ live
  <2>1. series'[Video].content = nextRev /\ series'[Video].rewrite = nextRev
    BY <1>6, Newcomer
  <2>2. Covers'
    BY <1>1, <1>4, <2>1 DEF Covers
  <2>3. index.seen # Identity(Video)'
    BY <1>1, <1>2, <1>6, <2>1 DEF Identity, Known
  <2>4. IndexMissesNothing'
    BY <2>3 DEF IndexMissesNothing, Followed
  <2> QED BY <1>3, <2>2, <2>4 DEF IndexInv
<1>7. CASE Video \notin live'
  BY <1>3, <1>7 DEF IndexInv, Covers, IndexMissesNothing
<1> QED BY <1>5, <1>6, <1>7

(* The Video's entries, as the decoder's steps need them. *)
LEMMA VideoGiven ==
  ASSUME IInv
  PROVE  /\ Sound(series[Video], nextUid, nextRev)
         /\ nextUid \in Nat \ {0} /\ nextRev \in Nat \ {0}
         /\ \A i \in DOMAIN series[Video].entries :
              /\ series[Video].entries[i].uid \in Nat \ {0} /\ series[Video].entries[i].uid < nextUid
              /\ series[Video].entries[i].ts \in Nat
<1>1. Sound(series[Video], nextUid, nextRev) /\ nextUid \in Nat \ {0} /\ nextRev \in Nat \ {0}
  BY StoreAssumption DEF IInv, AllSound, Counters
<1>2. ASSUME NEW i \in DOMAIN series[Video].entries
      PROVE  /\ series[Video].entries[i].uid \in Nat \ {0} /\ series[Video].entries[i].uid < nextUid
             /\ series[Video].entries[i].ts \in Nat
  <2>1. series[Video].entries[i] \in Entry
    BY <1>1 DEF Sound, Given
  <2> QED BY <1>1, <2>1 DEF Entry, Sound, Given
<1> QED BY <1>1, <1>2

LEMMA IdentityKnown == ASSUME IInv PROVE Known(Identity(Video)) /\ Known(NoIdentity)
BY VideoGiven DEF Identity, NoIdentity, Known, Sound

(* An index that covers nothing covers all it has to. *)
LEMMA NothingCovered == ASSUME IInv, UNCHANGED storeVars, index.cursor' = 0 PROVE Covers'
<1>1. \A i \in DOMAIN series'[Video].entries : ~(series'[Video].entries[i].uid <= 0)
  BY VideoGiven DEF storeVars
<1> QED BY <1>1 DEF Covers

LEMMA IdentityTaken == ASSUME IInv, IndexInv, IndexIdentity PROVE IndexInv'
<1>1. UNCHANGED storeVars /\ index.pc = "idle"
  BY DEF IndexIdentity
<1>2. Known(Identity(Video)) /\ Known(NoIdentity) /\ Known(index.seen) /\ nextUid \in Nat \ {0}
  BY IdentityKnown, VideoGiven DEF IndexInv, IndexTyped
<1>3. index'.pc = "count" /\ index'.identity = Identity(Video)
  BY DEF IndexIdentity, IndexInv, IndexTyped, Forgotten
<1>4. CASE Identity(Video).rewrite # index.seen.rewrite
  <2>1. index' = [Forgotten EXCEPT !.pc = "count", !.identity = Identity(Video)]
    BY <1>4 DEF IndexIdentity
  <2>2. IndexTyped' /\ index'.cursor = 0
    BY <1>1, <1>2, <2>1 DEF IndexInv, IndexTyped, Forgotten, storeVars, Known
  <2> QED BY <1>1, <1>3, <2>2, NothingCovered DEF IndexInv, IndexMissesNothing, Followed
<1>5. CASE Identity(Video).rewrite = index.seen.rewrite
  <2>1. index' = [index EXCEPT !.pc = "count", !.identity = Identity(Video)]
    BY <1>5 DEF IndexIdentity
  <2>2. IndexTyped' /\ index'.cursor = index.cursor /\ Scanned' = Scanned
    BY <1>1, <1>2, <2>1 DEF IndexInv, IndexTyped, storeVars, Known, Scanned
  <2>3. Basis'.rewrite = Basis.rewrite
    BY <1>1, <1>3, <1>5 DEF Basis
  <2>4. Covers'
    BY <1>1, <1>3, <2>2, <2>3 DEF IndexInv, Covers, storeVars, Packet
  <2> QED BY <1>3, <2>2, <2>4 DEF IndexInv, IndexMissesNothing, Followed
<1> QED BY <1>4, <1>5

LEMMA CountRead == ASSUME IInv, IndexInv, IndexCount PROVE IndexInv'
<1>1. UNCHANGED storeVars /\ index.pc = "count"
  BY DEF IndexCount
<1>2. Known(NoIdentity) /\ Known(index.seen) /\ Known(index.identity) /\ nextUid \in Nat \ {0}
  BY IdentityKnown, VideoGiven DEF IndexInv, IndexTyped
<1>3. CASE Video \notin live \/ series[Video].entries = <<>>
  <2>1. index' = [Forgotten EXCEPT !.pc = "idle", !.seen = index.identity, !.identity = NoIdentity]
    BY <1>3 DEF IndexCount
  <2>2. IndexTyped' /\ index'.cursor = 0
    BY <1>1, <1>2, <2>1 DEF IndexInv, IndexTyped, Forgotten, storeVars, Known
  <2>3. Video \in live => Packets(series[Video].entries) = {}
    BY <1>3 DEF Packets
  <2>4. IndexMissesNothing'
    BY <1>1, <2>3 DEF IndexMissesNothing, storeVars, Packets
  <2> QED BY <1>1, <2>2, <2>4, NothingCovered DEF IndexInv
<1>4. CASE ~(Video \notin live \/ series[Video].entries = <<>>)
  <2>1. index' = [index EXCEPT !.pc = "front"]
    BY <1>4 DEF IndexCount
  <2>2. /\ IndexTyped' /\ index'.cursor = index.cursor /\ Scanned' = Scanned
        /\ index'.pc = "front" /\ index'.identity = index.identity
    BY <1>1, <2>1 DEF IndexInv, IndexTyped, storeVars, Known, Scanned
  <2>3. Covers'
    BY <1>1, <2>2 DEF IndexInv, Covers, Basis, storeVars, Packet
  <2> QED BY <2>2, <2>3 DEF IndexInv, IndexMissesNothing, Followed
<1> QED BY <1>3, <1>4

(* The front is the least stamp, so the floor is below every entry. *)
LEMMA FrontTaken == ASSUME IInv, IndexInv, IndexFront PROVE IndexInv'
<1>1. UNCHANGED storeVars /\ index.pc = "front" /\ index' = [index EXCEPT !.pc = "prune", !.floor = FrontStamp(Video)]
  BY DEF IndexFront
<1>2. series[Video].entries \in Seq(Entry) /\ InOrder(series[Video].entries)
  BY VideoGiven DEF Sound, Given
<1>3. FrontStamp(Video) \in Nat
  <2>1. series[Video].entries # <<>> => 1 \in DOMAIN series[Video].entries
    BY <1>2
  <2> QED BY <2>1, VideoGiven DEF FrontStamp
<1>4. ASSUME Video \in live, NEW i \in DOMAIN series[Video].entries
      PROVE  FrontStamp(Video) <= series[Video].entries[i].ts
  <2>1. series[Video].entries # <<>> /\ 1 \in DOMAIN series[Video].entries /\ (i = 1 \/ 1 < i)
    BY <1>2, <1>4
  <2>2. FrontStamp(Video) = series[Video].entries[1].ts
    BY <1>4, <2>1 DEF FrontStamp
  <2> QED BY <1>2, <1>3, <2>1, <2>2 DEF InOrder
<1>5. /\ IndexTyped' /\ index'.cursor = index.cursor /\ Scanned' = Scanned
      /\ index'.pc = "prune" /\ index'.identity = index.identity /\ index'.floor = FrontStamp(Video)
  BY <1>1, <1>3 DEF IndexInv, IndexTyped, storeVars, Known, Scanned
<1>6. Covers'
  BY <1>1, <1>4, <1>5 DEF IndexInv, Covers, Basis, storeVars, Packet
<1> QED BY <1>5, <1>6 DEF IndexInv, IndexMissesNothing, Followed

(* The prune drops no packet of an entry the topic has. *)
LEMMA Pruned == ASSUME IInv, IndexInv, IndexPrune PROVE IndexInv'
<1> DEFINE stored == IF Video \in live THEN UidsOf(series[Video].entries) ELSE {}
           evicted == {p \in index.packets : p.dts < index.floor \/ (p.dts = index.floor /\ p.uid \notin stored)}
<1>1. UNCHANGED storeVars /\ index.pc = "prune"
  BY DEF IndexPrune
<1>2. /\ index'.pc = "drain" /\ index'.cursor = index.cursor /\ index'.identity = index.identity
      /\ index'.packets \in {index.packets, index.packets \ evicted} /\ index'.skipped = index.skipped
  BY DEF IndexPrune, IndexInv, IndexTyped
<1>3. IndexTyped'
  BY <1>1 DEF IndexPrune, IndexInv, IndexTyped, storeVars, Known
<1>4. ASSUME Video \in live, series[Video].rewrite = Basis.rewrite, NEW i \in DOMAIN series[Video].entries,
             series[Video].entries[i].uid <= index.cursor
      PROVE  Packet(series[Video].entries[i]) \in Scanned'
  <2> DEFINE e == series[Video].entries[i]
  <2>1. Packet(e) \in Scanned /\ index.floor <= e.ts
    BY <1>1, <1>4 DEF IndexInv, Covers
  <2>2. e.uid \in stored
    BY <1>4 DEF UidsOf
  <2>3. e.ts \in Nat /\ index.floor \in Nat
    BY VideoGiven DEF IndexInv, IndexTyped
  <2>4. Packet(e).dts = e.ts /\ Packet(e).uid = e.uid
    BY DEF Packet
  <2> HIDE DEF e, stored
  <2>5. Packet(e) \notin evicted
    BY <2>1, <2>2, <2>3, <2>4
  <2> QED BY <1>2, <2>1, <2>5 DEF e, Scanned
<1>5. Covers'
  <2>1. Basis' = Basis
    BY <1>1, <1>2 DEF Basis
  <2> QED BY <1>1, <1>2, <1>4, <2>1 DEF Covers, storeVars, Packet
<1> QED BY <1>2, <1>3, <1>5 DEF IndexInv, IndexMissesNothing, Followed

LEMMA MaxIn == ASSUME NEW n \in Nat, NEW S, S \subseteq 0..n, S # {} PROVE Max(S) \in S
<1> DEFINE Above == {m \in 0..n : \A x \in S : x <= m}
<1>1. n \in Above /\ Above \subseteq Nat
  OBVIOUS
<1>2. PICK m \in Above : \A x \in Above : m <= x
  <2> HIDE DEF Above
  <2> QED BY <1>1, MinNat
<1>3. m \in S
  <2> SUFFICES ASSUME m \notin S PROVE FALSE
    OBVIOUS
  <2>1. \A x \in S : x <= m - 1
    BY <1>2
  <2>2. m \in 0..n /\ m - 1 \in Int /\ ~(m <= m - 1)
    BY <1>2
  <2>3. m - 1 \in 0..n
    <3>1. PICK x \in S : TRUE
      OBVIOUS
    <3>2. x \in 0..n /\ x <= m - 1
      BY <2>1
    <3> QED BY <2>2, <3>2
  <2>4. m - 1 \in Above
    BY <2>1, <2>3
  <2> HIDE DEF Above
  <2> QED BY <1>2, <2>2, <2>4
<1>4. \A x \in S : m >= x
  BY <1>2
<1> QED BY <1>3, <1>4 DEF Max

(* The drain reads every entry above the cursor, whatever the store did since. *)
LEMMA Drained == ASSUME IInv, IndexInv, IndexDrain PROVE IndexInv'
<1> DEFINE uids == {p.uid : p \in Arrivals} \cup {index.cursor}
<1>1. UNCHANGED storeVars /\ index.pc = "drain"
  BY DEF IndexDrain
<1>2. /\ index'.pc = "idle" /\ index'.seen = index.identity /\ index'.cursor = Max(uids)
      /\ Scanned' = Scanned \cup Arrivals
  BY DEF IndexDrain, IndexInv, IndexTyped, Scanned
<1>3. Max(uids) \in Nat /\ Max(uids) < nextUid
  <2>1. \A p \in Arrivals : p.uid \in 0..(nextUid - 1)
    BY VideoGiven DEF Arrivals, Packets, Packet
  <2>2. uids \subseteq 0..(nextUid - 1) /\ uids # {} /\ nextUid - 1 \in Nat
    BY <2>1, VideoGiven DEF IndexInv, IndexTyped
  <2> HIDE DEF uids
  <2>3. Max(uids) \in uids
    BY <2>2, MaxIn
  <2>4. Max(uids) \in 0..(nextUid - 1) /\ nextUid \in Nat
    BY <2>2, <2>3, VideoGiven
  <2> QED BY <2>4
<1> HIDE DEF uids
<1>4. IndexTyped'
  <2>1. Known(NoIdentity)
    BY IdentityKnown
  <2>2. /\ DOMAIN index' = DOMAIN index /\ index'.floor = 0 /\ index'.identity = NoIdentity
    BY DEF IndexDrain, IndexInv, IndexTyped
  <2> QED BY <1>1, <1>2, <1>3, <2>1, <2>2 DEF IndexInv, IndexTyped, storeVars, Known
<1>5. ASSUME Video \in live, series[Video].rewrite = index.identity.rewrite, NEW i \in DOMAIN series[Video].entries
      PROVE  Packet(series[Video].entries[i]) \in Scanned'
  <2> DEFINE e == series[Video].entries[i]
  <2>1. CASE e.uid <= index.cursor
    BY <1>1, <1>2, <1>5, <2>1 DEF IndexInv, Covers, Basis
  <2>2. CASE ~(e.uid <= index.cursor)
    <3>1. Packet(e) \in Packets(series[Video].entries) /\ Packet(e).uid = e.uid
      BY DEF Packets, Packet
    <3>2. e.uid > index.cursor
      BY <2>2, VideoGiven DEF IndexInv, IndexTyped
    <3> HIDE DEF e
    <3>3. Packet(e) \in Arrivals
      BY <1>5, <3>1, <3>2 DEF Arrivals
    <3> QED BY <1>2, <3>3 DEF e
  <2> QED BY <2>1, <2>2
<1>6. Covers'
  BY <1>1, <1>2, <1>5 DEF Covers, Basis, storeVars, Packet
<1>7. IndexMissesNothing'
  BY <1>1, <1>2, <1>5 DEF IndexMissesNothing, Followed, Identity, storeVars, Packets, Packet, Scanned
<1> QED BY <1>4, <1>6, <1>7 DEF IndexInv

LEMMA IndexSteps == ASSUME IInv, IndexInv, [Next]_vars PROVE IndexInv'
<1>1. CASE Follow
  BY <1>1, IdentityTaken, CountRead, FrontTaken, Pruned, Drained DEF Follow
<1>2. CASE Produce \/ Seed \/ Manage \/ Read \/ Reside \/ UNCHANGED vars
  <2>1. UNCHANGED index
    BY <1>2 DEF Produce, Push, Bundle, Seed, SeedCheck, SeedAdmit, SeedInsert, Manage, SetRetentionBudget,
         EvictBefore, RegisterTopic, RemoveTopic, ClearDataset, DetachDataset, CommitRefill, ReattachDataset,
         Read, LatestAt, Resolve, Memoize, Reside, TrimPool, LoseSlot, SettleSlot, vars
  <2> QED BY <2>1, StoreStep
<1> QED BY <1>1, <1>2 DEF Next

LEMMA IndexInitially == Init => IndexInv
BY StoreAssumption DEF Init, IndexInv, IndexTyped, Covers, IndexMissesNothing, Known, Idle, NoIdentity

(* Whenever the revisions say that the decoder's index is up to date, it has   *)
(* every packet of the topic but those it could not extract: for any series,   *)
(* budgets and bundles, and whatever producers, evictions and refills do       *)
(* between its store calls.                                                    *)
THEOREM NothingMissed == Spec => []IndexMissesNothing
<1>1. Init => IInv /\ IndexInv
  BY Initially, IndexInitially
<1>2. IInv /\ IndexInv /\ [Next]_vars => (IInv /\ IndexInv)'
  BY Steps, IndexSteps DEF StepKeeps
<1>3. IndexInv => IndexMissesNothing
  BY DEF IndexInv
<1> QED BY <1>1, <1>2, <1>3, PTL DEF Spec

-------------------------------------------------------------------------------
(* The resident pool.  Its two counters are those of the slots that hold a    *)
(* payload or are dying; what it may empty is in the FIFO of its class; and   *)
(* what dies is still counted, so that the room an admission finds is there.  *)
Held == {s \in Slots : status[s] = "held"}

SmallOf(S) == {s \in S : IsSmall(charge[s])}

PoolTyped ==
  /\ status \in [Slots -> {"unborn", "held", "dying", "gone"}]
  /\ charge \in [Slots -> 0..Capacity]
  /\ fifo \in Seq(Slots) /\ smallFifo \in Seq(Slots)

Filed ==
  /\ \A i \in DOMAIN fifo : status[fifo[i]] # "unborn" /\ ~IsSmall(charge[fifo[i]])
  /\ \A i \in DOMAIN smallFifo : status[smallFifo[i]] # "unborn" /\ IsSmall(charge[smallFifo[i]])
  /\ \A s \in Held : \E i \in DOMAIN ClassFifo(IsSmall(charge[s])) : ClassFifo(IsSmall(charge[s]))[i] = s

PoolInv == PoolTyped /\ Filed /\ ChargedOnce /\ HeldFits

(* The charges of slots, with the charges a parameter. *)
ChargesOf(c, S) == Cardinality(UNION {{s} \X (1..c[s]) : s \in S})

LEMMA SumTyped ==
  ASSUME NEW c \in [Slots -> 0..Capacity], NEW S \in SUBSET Slots
  PROVE  /\ IsFiniteSet(UNION {{s} \X (1..c[s]) : s \in S})
         /\ ChargesOf(c, S) \in Nat
<1> DEFINE units == UNION {{s} \X (1..c[s]) : s \in S}
<1>1. units \subseteq Slots \X (1..Capacity)
  BY PoolAssumption
<1>2. IsFiniteSet(1..Capacity)
  BY PoolAssumption, FS_Interval
<1>3. IsFiniteSet(Slots \X (1..Capacity))
  BY PoolAssumption, <1>2, FS_Product
<1> HIDE DEF units
<1>4. IsFiniteSet(units) /\ Cardinality(units) \in Nat
  BY <1>1, <1>3, FS_Subset, FS_CardinalityType
<1> QED BY <1>4 DEF units, ChargesOf

LEMMA SumNone == ASSUME NEW c PROVE ChargesOf(c, {}) = 0
BY FS_EmptySet DEF ChargesOf

LEMMA SumOne ==
  ASSUME NEW c \in [Slots -> 0..Capacity], NEW s \in Slots
  PROVE  ChargesOf(c, {s}) = c[s]
<1>1. c[s] \in Nat
  BY PoolAssumption
<1>2. UNION {{x} \X (1..c[x]) : x \in {s}} = {s} \X (1..c[s])
  OBVIOUS
<1>3. IsFiniteSet({s}) /\ Cardinality({s}) = 1
  BY FS_Singleton
<1>4. IsFiniteSet(1..c[s]) /\ Cardinality(1..c[s]) = c[s]
  BY <1>1, FS_Interval
<1>5. Cardinality({s} \X (1..c[s])) = Cardinality({s}) * Cardinality(1..c[s])
  BY <1>3, <1>4, FS_Product, Zenon
<1>6. Cardinality({s} \X (1..c[s])) = c[s]
  BY <1>1, <1>3, <1>4, <1>5
<1>7. ChargesOf(c, {s}) = Cardinality({s} \X (1..c[s]))
  BY <1>2, Zenon DEF ChargesOf
<1> QED BY <1>6, <1>7

LEMMA SumUnion ==
  ASSUME NEW c \in [Slots -> 0..Capacity], NEW S \in SUBSET Slots, NEW T \in SUBSET Slots, S \cap T = {}
  PROVE  ChargesOf(c, S \cup T) = ChargesOf(c, S) + ChargesOf(c, T)
<1> DEFINE A == UNION {{s} \X (1..c[s]) : s \in S}
           B == UNION {{s} \X (1..c[s]) : s \in T}
<1>1. UNION {{s} \X (1..c[s]) : s \in S \cup T} = A \cup B
  OBVIOUS
<1>2. A \cap B = {}
  OBVIOUS
<1>3. IsFiniteSet(A) /\ IsFiniteSet(B) /\ Cardinality(A) \in Nat /\ Cardinality(B) \in Nat
  BY SumTyped DEF ChargesOf
<1> HIDE DEF A, B
<1>4. Cardinality(A \cup B) = Cardinality(A) + Cardinality(B) - Cardinality(A \cap B) /\ Cardinality(A \cap B) = 0
  BY <1>2, <1>3, FS_Union, FS_EmptySet
<1>5. ChargesOf(c, S \cup T) = Cardinality(A \cup B)
  BY <1>1, Zenon DEF ChargesOf
<1>6. ChargesOf(c, S) = Cardinality(A) /\ ChargesOf(c, T) = Cardinality(B)
  BY DEF ChargesOf, A, B
<1> QED BY <1>3, <1>4, <1>5, <1>6

LEMMA SumWithout ==
  ASSUME NEW c \in [Slots -> 0..Capacity], NEW S \in SUBSET Slots, NEW T \in SUBSET S
  PROVE  ChargesOf(c, S \ T) = ChargesOf(c, S) - ChargesOf(c, T) /\ ChargesOf(c, T) <= ChargesOf(c, S)
<1>1. (S \ T) \cup T = S /\ (S \ T) \cap T = {} /\ S \ T \in SUBSET Slots /\ T \in SUBSET Slots
  OBVIOUS
<1>2. ChargesOf(c, S) = ChargesOf(c, S \ T) + ChargesOf(c, T)
  BY <1>1, SumUnion
<1>3. ChargesOf(c, S) \in Nat /\ ChargesOf(c, T) \in Nat /\ ChargesOf(c, S \ T) \in Nat
  BY <1>1, SumTyped
<1> QED BY <1>2, <1>3

LEMMA SumSame ==
  ASSUME NEW c \in [Slots -> 0..Capacity], NEW d \in [Slots -> 0..Capacity], NEW S \in SUBSET Slots,
         \A s \in S : c[s] = d[s]
  PROVE  ChargesOf(c, S) = ChargesOf(d, S)
<1>1. {{s} \X (1..c[s]) : s \in S} = {{s} \X (1..d[s]) : s \in S}
  OBVIOUS
<1> QED BY <1>1 DEF ChargesOf

(* Some slots leave a set, and one that was nowhere joins it. *)
LEMMA SumReduced ==
  ASSUME NEW c \in [Slots -> 0..Capacity], NEW d \in [Slots -> 0..Capacity],
         NEW S \in SUBSET Slots, NEW R \in SUBSET S, \A x \in S : d[x] = c[x],
         NEW T, T = S \ R
  PROVE  ChargesOf(d, T) = ChargesOf(c, S) - ChargesOf(c, R)
<1>1. \A x \in T : c[x] = d[x]
  OBVIOUS
<1>2. T \in SUBSET Slots
  OBVIOUS
<1>3. ChargesOf(c, T) = ChargesOf(d, T)
  BY <1>1, <1>2, SumSame
<1>4. ChargesOf(c, S \ R) = ChargesOf(c, S) - ChargesOf(c, R)
  BY SumWithout
<1> QED BY <1>3, <1>4, Zenon

LEMMA SumExchanged ==
  ASSUME NEW c \in [Slots -> 0..Capacity], NEW d \in [Slots -> 0..Capacity],
         NEW S \in SUBSET Slots, NEW R \in SUBSET S, \A x \in S : d[x] = c[x],
         NEW s \in Slots \ S, NEW U, U = (S \ R) \cup {s}
  PROVE  ChargesOf(d, U) = ChargesOf(c, S) - ChargesOf(c, R) + d[s]
<1> DEFINE T == S \ R
<1>1. ChargesOf(d, T) = ChargesOf(c, S) - ChargesOf(c, R)
  BY SumReduced
<1>2. T \in SUBSET Slots /\ {s} \in SUBSET Slots /\ T \cap {s} = {} /\ s \in Slots /\ U = T \cup {s}
  OBVIOUS
<1> HIDE DEF T
<1>3. ChargesOf(d, T \cup {s}) = ChargesOf(d, T) + ChargesOf(d, {s})
  BY <1>2, SumUnion
<1>4. ChargesOf(d, {s}) = d[s]
  BY <1>2, SumOne
<1> QED BY <1>1, <1>2, <1>3, <1>4, Zenon

LEMMA CapacitySplit == SmallCapacity \in Nat /\ SmallCapacity <= Capacity /\ Capacity \in Nat
BY PoolAssumption DEF SmallCapacity

(* The pops of a loop make the room it waits for, or empty the FIFO. *)
LEMMA OwnPopsEnough ==
  ASSUME NEW bytes \in Nat, fifo \in Seq(Slots), smallFifo \in Seq(Slots)
  PROVE  LET small == IsSmall(bytes)
             queue == ClassFifo(small)
             n == OwnPops(bytes)
         IN /\ n \in 0..Len(queue)
            /\ \/ ClassBytes(small) - Charges(Victims(queue, n)) + bytes <= ClassCapacity(small)
               \/ n = Len(queue)
<1> DEFINE small == IsSmall(bytes)
           queue == ClassFifo(small)
           enough == {n \in 0..Len(queue) : ClassBytes(small) - Charges(Victims(queue, n)) + bytes <= ClassCapacity(small)}
<1>1. OwnPops(bytes) = IF enough = {} THEN Len(queue) ELSE Min(enough)
  BY DEF OwnPops, Pops
<1>2. Len(queue) \in Nat
  BY DEF ClassFifo
<1> HIDE DEF queue
<1>3. enough \subseteq Nat
  BY <1>2
<1>4. enough # {} => Min(enough) \in enough
  <2> HIDE DEF enough
  <2> QED BY <1>3, MinIn
<1> HIDE DEF small
<1>5. CASE enough = {}
  BY <1>1, <1>2, <1>5 DEF queue, small
<1>6. CASE enough # {}
  BY <1>1, <1>2, <1>4, <1>6 DEF queue, small
<1> QED BY <1>5, <1>6

LEMMA BorrowPopsEnough ==
  ASSUME NEW bytes \in Nat, IsSmall(bytes), fifo \in Seq(Slots)
  PROVE  LET freed == Charges(Victims(smallFifo, OwnPops(bytes)))
             n == BorrowPops(bytes)
         IN /\ n \in 0..Len(fifo)
            /\ \/ resident - freed - Charges(Victims(fifo, n)) + bytes <= Capacity
               \/ n = Len(fifo)
<1> DEFINE freed == Charges(Victims(smallFifo, OwnPops(bytes)))
           enough == {n \in 0..Len(fifo) : resident - freed - Charges(Victims(fifo, n)) + bytes <= Capacity}
<1>1. BorrowPops(bytes) = IF enough = {} THEN Len(fifo) ELSE Min(enough)
  BY DEF BorrowPops, Pops
<1>2. Len(fifo) \in Nat
  OBVIOUS
<1>3. enough \subseteq Nat
  BY <1>2
<1>4. enough # {} => Min(enough) \in enough
  <2> HIDE DEF enough
  <2> QED BY <1>3, MinIn
<1> HIDE DEF freed
<1>5. CASE enough = {}
  BY <1>1, <1>2, <1>5 DEF freed
<1>6. CASE enough # {}
  BY <1>1, <1>2, <1>4, <1>6 DEF freed
<1> QED BY <1>5, <1>6

(* What the pool empties of the large class, and of the small one: all of it  *)
(* when a whole FIFO was popped.                                              *)
LEMMA VictimsLarge ==
  ASSUME PoolTyped, Filed, NEW n \in 0..Len(fifo)
  PROVE  /\ Victims(fifo, n) \subseteq Held \ SmallOf(Held)
         /\ n = Len(fifo) => Victims(fifo, n) = Held \ SmallOf(Held)
         /\ \A s \in Held : ~IsSmall(charge[s]) /\ s \notin Victims(fifo, n) =>
              \E i \in (n + 1)..Len(fifo) : fifo[i] = s
<1>1. fifo \in Seq(Slots) /\ Len(fifo) \in Nat /\ DOMAIN fifo = 1..Len(fifo)
  BY DEF PoolTyped
<1>2. Victims(fifo, n) \subseteq Held \ SmallOf(Held)
  <2> SUFFICES ASSUME NEW i \in 1..n, fifo[i] \in Slots, status[fifo[i]] = "held"
               PROVE  fifo[i] \in Held \ SmallOf(Held)
    BY DEF Victims
  <2>1. i \in DOMAIN fifo
    BY <1>1
  <2> QED BY <2>1 DEF Filed, Held, SmallOf
<1>3. ASSUME NEW s \in Held, ~IsSmall(charge[s]), s \notin Victims(fifo, n)
      PROVE  \E i \in (n + 1)..Len(fifo) : fifo[i] = s
  <2>1. PICK i \in DOMAIN fifo : fifo[i] = s
    BY <1>3 DEF Filed, ClassFifo
  <2>2. i \notin 1..n
    BY <1>3, <2>1 DEF Victims, Held
  <2> QED BY <1>1, <2>1, <2>2
<1>4. n = Len(fifo) => Held \ SmallOf(Held) \subseteq Victims(fifo, n)
  BY <1>1, <1>3 DEF SmallOf
<1> QED BY <1>2, <1>3, <1>4

LEMMA VictimsSmall ==
  ASSUME PoolTyped, Filed, NEW n \in 0..Len(smallFifo)
  PROVE  /\ Victims(smallFifo, n) \subseteq SmallOf(Held)
         /\ n = Len(smallFifo) => Victims(smallFifo, n) = SmallOf(Held)
         /\ \A s \in Held : IsSmall(charge[s]) /\ s \notin Victims(smallFifo, n) =>
              \E i \in (n + 1)..Len(smallFifo) : smallFifo[i] = s
<1>1. smallFifo \in Seq(Slots) /\ Len(smallFifo) \in Nat /\ DOMAIN smallFifo = 1..Len(smallFifo)
  BY DEF PoolTyped
<1>2. Victims(smallFifo, n) \subseteq SmallOf(Held)
  <2> SUFFICES ASSUME NEW i \in 1..n, smallFifo[i] \in Slots, status[smallFifo[i]] = "held"
               PROVE  smallFifo[i] \in SmallOf(Held)
    BY DEF Victims
  <2>1. i \in DOMAIN smallFifo
    BY <1>1
  <2> QED BY <2>1 DEF Filed, Held, SmallOf
<1>3. ASSUME NEW s \in Held, IsSmall(charge[s]), s \notin Victims(smallFifo, n)
      PROVE  \E i \in (n + 1)..Len(smallFifo) : smallFifo[i] = s
  <2>1. PICK i \in DOMAIN smallFifo : smallFifo[i] = s
    BY <1>3 DEF Filed, ClassFifo
  <2>2. i \notin 1..n
    BY <1>3, <2>1 DEF Victims, Held
  <2> QED BY <1>1, <2>1, <2>2
<1>4. n = Len(smallFifo) => SmallOf(Held) \subseteq Victims(smallFifo, n)
  BY <1>1, <1>3 DEF SmallOf
<1> QED BY <1>2, <1>3, <1>4

LEMMA PoppedIs ==
  ASSUME NEW queue \in Seq(Slots), NEW n \in 0..Len(queue)
  PROVE  /\ Popped(queue, n) \in Seq(Slots)
         /\ Len(Popped(queue, n)) = Len(queue) - n
         /\ \A i \in 1..(Len(queue) - n) : Popped(queue, n)[i] = queue[n + i]
         /\ n = 0 => Popped(queue, n) = queue
BY DEF Popped

(* A FIFO that lost its front, and perhaps gained a slot at its end. *)
Requeues(queue, n, s, new) ==
  /\ new \in Seq(Slots)
  /\ \A i \in DOMAIN new : new[i] = s \/ \E j \in DOMAIN queue : new[i] = queue[j]
  /\ \A j \in (n + 1)..Len(queue) : \E i \in DOMAIN new : new[i] = queue[j]
  /\ new = Append(Popped(queue, n), s) => \E i \in DOMAIN new : new[i] = s
  /\ new = Popped(queue, n) => \A i \in DOMAIN new : \E j \in DOMAIN queue : new[i] = queue[j]

LEMMA Requeued ==
  ASSUME NEW queue \in Seq(Slots), NEW n \in 0..Len(queue), NEW s \in Slots,
         NEW new, new = Popped(queue, n) \/ new = Append(Popped(queue, n), s)
  PROVE  Requeues(queue, n, s, new)
<1> DEFINE rest == Popped(queue, n)
<1>0. new = rest \/ new = Append(rest, s)
  OBVIOUS
<1>1. rest \in Seq(Slots) /\ Len(rest) = Len(queue) - n /\ Len(queue) \in Nat
      /\ \A i \in 1..(Len(queue) - n) : rest[i] = queue[n + i]
  <2>1. Len(queue) \in Nat
    OBVIOUS
  <2>2. /\ Popped(queue, n) \in Seq(Slots)
        /\ Len(Popped(queue, n)) = Len(queue) - n
        /\ \A i \in 1..(Len(queue) - n) : Popped(queue, n)[i] = queue[n + i]
    BY PoppedIs
  <2> QED BY <2>1, <2>2
<1> HIDE DEF rest
<1>2. /\ new \in Seq(Slots) /\ DOMAIN rest \subseteq DOMAIN new
      /\ \A i \in DOMAIN rest : new[i] = rest[i]
      /\ \A i \in DOMAIN new : i \in DOMAIN rest \/ new[i] = s
      /\ new = Append(rest, s) => \E i \in DOMAIN new : new[i] = s
  <2>1. CASE new = rest
    <3>1. new = Append(rest, s) => FALSE
      <4>1. Len(Append(rest, s)) = Len(rest) + 1 /\ Len(rest) \in Nat
        <5>1. rest \in Seq(Slots) /\ s \in Slots
          BY <1>1
        <5> QED BY <5>1
      <4>2. rest # Append(rest, s)
        BY <4>1
      <4> QED BY <2>1, <4>2
    <3> QED BY <1>1, <2>1, <3>1
  <2>2. CASE new = Append(rest, s)
    <3>1. new \in Seq(Slots) /\ Len(new) = Len(rest) + 1 /\ Len(rest) \in Nat
      BY <1>1, <2>2
    <3>2. \A i \in 1..Len(rest) : new[i] = rest[i]
      <4>1. \A i \in 1..Len(rest) : Append(rest, s)[i] = rest[i]
        BY <1>1
      <4> QED BY <2>2, <4>1
    <3>3. new[Len(rest) + 1] = s
      <4>1. rest \in Seq(Slots) /\ s \in Slots
        BY <1>1
      <4>2. Append(rest, s)[Len(rest) + 1] = s
        BY <4>1
      <4> QED BY <2>2, <4>2
    <3>4. \A i \in 1..Len(new) : i \in 1..Len(rest) \/ i = Len(rest) + 1
      BY <3>1
    <3>5. DOMAIN rest = 1..Len(rest) /\ DOMAIN new = 1..Len(new) /\ Len(rest) + 1 \in 1..Len(new)
      BY <1>1, <3>1
    <3>6. DOMAIN rest \subseteq DOMAIN new
      BY <3>1, <3>5
    <3> QED BY <3>1, <3>2, <3>3, <3>4, <3>5, <3>6
  <2> QED BY <1>0, <2>1, <2>2
<1>3. \A i \in DOMAIN rest : n + i \in DOMAIN queue /\ rest[i] = queue[n + i]
  <2>1. DOMAIN rest = 1..(Len(queue) - n) /\ DOMAIN queue = 1..Len(queue)
    BY <1>1
  <2> QED BY <1>1, <2>1
<1>4. ASSUME NEW j \in (n + 1)..Len(queue) PROVE \E i \in DOMAIN new : new[i] = queue[j]
  <2>1. j - n \in 1..(Len(queue) - n) /\ n + (j - n) = j
    BY <1>1
  <2>2. j - n \in DOMAIN rest /\ rest[j - n] = queue[j]
    BY <1>1, <2>1
  <2> QED BY <1>2, <2>2
<1>5. \A i \in DOMAIN new : new[i] = s \/ \E j \in DOMAIN queue : new[i] = queue[j]
  BY <1>2, <1>3
<1>6. new = rest => \A i \in DOMAIN new : \E j \in DOMAIN queue : new[i] = queue[j]
  BY <1>3
<1> QED BY <1>2, <1>4, <1>5, <1>6 DEF Requeues, rest

(* An admission: slots at the fronts are emptied and a new one comes. *)
Exchanging(s, bytes, nl, ns, large, little) ==
  /\ large = Victims(fifo, nl) /\ little = Victims(smallFifo, ns)
  /\ status' = [x \in Slots |-> IF x = s THEN "held" ELSE IF x \in large \cup little THEN "gone" ELSE status[x]]
  /\ charge' = [charge EXCEPT ![s] = bytes]
  /\ fifo' = IF IsSmall(bytes) THEN Popped(fifo, nl) ELSE Append(Popped(fifo, nl), s)
  /\ smallFifo' = IF IsSmall(bytes) THEN Append(Popped(smallFifo, ns), s) ELSE Popped(smallFifo, ns)
  /\ resident' = resident - Charges(large \cup little) + bytes
  /\ smallResident' = smallResident - Charges(little) + (IF IsSmall(bytes) THEN bytes ELSE 0)

LEMMA Exchange ==
  ASSUME PoolInv, NEW s \in Slots, status[s] = "unborn", NEW bytes \in 0..Capacity,
         NEW nl \in 0..Len(fifo), NEW ns \in 0..Len(smallFifo), NEW large, NEW little,
         Exchanging(s, bytes, nl, ns, large, little)
  PROVE  /\ PoolTyped' /\ Filed' /\ ChargedOnce'
         /\ Charges(Held)' = Charges(Held) - (Charges(large) + Charges(little)) + bytes
         /\ Charges(SmallOf(Held))' =
              Charges(SmallOf(Held)) - Charges(little) + (IF IsSmall(bytes) THEN bytes ELSE 0)
<1>1. PoolTyped /\ Filed /\ ChargedOnce
  BY DEF PoolInv
<1>2. large \subseteq Held \ SmallOf(Held) /\ little \subseteq SmallOf(Held)
  BY <1>1, VictimsLarge, VictimsSmall DEF Exchanging
<1>b. large = Victims(fifo, nl) /\ little = Victims(smallFifo, ns)
  BY DEF Exchanging
<1>3. /\ fifo' \in Seq(Slots)
      /\ \A i \in DOMAIN fifo' : fifo'[i] = s \/ \E j \in DOMAIN fifo : fifo'[i] = fifo[j]
      /\ \A j \in (nl + 1)..Len(fifo) : \E i \in DOMAIN fifo' : fifo'[i] = fifo[j]
      /\ ~IsSmall(bytes) => \E i \in DOMAIN fifo' : fifo'[i] = s
      /\ IsSmall(bytes) => \A i \in DOMAIN fifo' : \E j \in DOMAIN fifo : fifo'[i] = fifo[j]
  <2>1. fifo \in Seq(Slots)
    BY <1>1 DEF PoolTyped
  <2>2. /\ ~IsSmall(bytes) => fifo' = Append(Popped(fifo, nl), s)
        /\ IsSmall(bytes) => fifo' = Popped(fifo, nl)
    BY DEF Exchanging
  <2>3. fifo' = Popped(fifo, nl) \/ fifo' = Append(Popped(fifo, nl), s)
    BY <2>2
  <2>4. Requeues(fifo, nl, s, fifo')
    BY <2>1, <2>3, Requeued
  <2> QED BY <2>2, <2>4 DEF Requeues
<1>4. /\ smallFifo' \in Seq(Slots)
      /\ \A i \in DOMAIN smallFifo' : smallFifo'[i] = s \/ \E j \in DOMAIN smallFifo : smallFifo'[i] = smallFifo[j]
      /\ \A j \in (ns + 1)..Len(smallFifo) : \E i \in DOMAIN smallFifo' : smallFifo'[i] = smallFifo[j]
      /\ IsSmall(bytes) => \E i \in DOMAIN smallFifo' : smallFifo'[i] = s
      /\ ~IsSmall(bytes) => \A i \in DOMAIN smallFifo' : \E j \in DOMAIN smallFifo : smallFifo'[i] = smallFifo[j]
  <2>1. smallFifo \in Seq(Slots)
    BY <1>1 DEF PoolTyped
  <2>2. /\ IsSmall(bytes) => smallFifo' = Append(Popped(smallFifo, ns), s)
        /\ ~IsSmall(bytes) => smallFifo' = Popped(smallFifo, ns)
    BY DEF Exchanging
  <2>3. smallFifo' = Popped(smallFifo, ns) \/ smallFifo' = Append(Popped(smallFifo, ns), s)
    BY <2>2
  <2>4. Requeues(smallFifo, ns, s, smallFifo')
    BY <2>1, <2>3, Requeued
  <2> QED BY <2>2, <2>4 DEF Requeues
<1>5. PoolTyped'
  BY <1>1, <1>3, <1>4 DEF PoolTyped, Exchanging
<1>6. charge'[s] = bytes /\ \A x \in Slots \ {s} : charge'[x] = charge[x]
  BY <1>1 DEF PoolTyped, Exchanging
<1>a. status'[s] = "held" /\ \A x \in Slots : status[x] # "unborn" => status'[x] # "unborn"
  BY DEF Exchanging
<1>7. /\ Counted' = (Counted \ (large \cup little)) \cup {s}
      /\ Held' = (Held \ (large \cup little)) \cup {s}
      /\ large \cup little \subseteq Held /\ Held \subseteq Counted /\ Counted \subseteq Slots /\ s \notin Counted
  BY <1>1, <1>2 DEF Counted, Held, SmallOf, PoolTyped, Exchanging
<1> DEFINE gain(S) == IF IsSmall(bytes) THEN S \cup {s} ELSE S
<1>8. /\ {x \in Counted' : IsSmall(charge'[x])} = gain(SmallOf(Counted) \ little)
      /\ {x \in Held' : IsSmall(charge'[x])} = gain(SmallOf(Held) \ little)
  <2>1. \A x \in Counted' : x = s \/ (x \in Counted /\ x \notin large /\ x \notin little /\ charge'[x] = charge[x])
    BY <1>6, <1>7
  <2>2. \A x \in Held' : x = s \/ (x \in Held /\ x \notin large /\ x \notin little /\ charge'[x] = charge[x])
    BY <1>6, <1>7
  <2>3. \A x \in Counted : x # s /\ (x \notin large /\ x \notin little => x \in Counted')
    BY <1>7
  <2>4. \A x \in Held : x # s /\ (x \notin large /\ x \notin little => x \in Held')
    BY <1>7
  <2>5. s \in Counted' /\ s \in Held' /\ \A x \in large : ~IsSmall(charge[x])
    BY <1>2, <1>7 DEF SmallOf
  <2>6. {x \in Counted' : IsSmall(charge'[x])} = gain(SmallOf(Counted) \ little)
    BY <1>6, <2>1, <2>3, <2>5, <1>7 DEF SmallOf
  <2>7. {x \in Held' : IsSmall(charge'[x])} = gain(SmallOf(Held) \ little)
    BY <1>6, <2>2, <2>4, <2>5, <1>7 DEF SmallOf
  <2> QED BY <2>6, <2>7
<1>9. charge \in [Slots -> 0..Capacity] /\ charge' \in [Slots -> 0..Capacity]
  BY <1>1, <1>5 DEF PoolTyped
<1>10. ASSUME NEW S \in SUBSET Slots, s \notin S, NEW R, R = large \cup little, R \subseteq S,
              NEW U, U = (S \ R) \cup {s}
       PROVE  ChargesOf(charge', U) = ChargesOf(charge, S) - ChargesOf(charge, R) + bytes
  <2>1. R \in SUBSET S /\ s \in Slots \ S /\ charge'[s] = bytes /\ \A x \in S : charge'[x] = charge[x]
    BY <1>6, <1>10
  <2>2. ChargesOf(charge', U) = ChargesOf(charge, S) - ChargesOf(charge, R) + charge'[s]
    BY <1>9, <1>10, <2>1, SumExchanged
  <2> QED BY <2>1, <2>2
<1>11. ASSUME NEW S \in SUBSET Slots, s \notin S, little \subseteq S, NEW U, U = gain(S \ little)
       PROVE  ChargesOf(charge', U) = ChargesOf(charge, S) - ChargesOf(charge, little) + (IF IsSmall(bytes) THEN bytes ELSE 0)
  <2>1. little \in SUBSET S /\ s \in Slots \ S /\ charge'[s] = bytes /\ \A x \in S : charge'[x] = charge[x]
    BY <1>6, <1>11
  <2>3. ChargesOf(charge, S) \in Nat /\ ChargesOf(charge, little) \in Nat
    BY <1>9, <2>1, SumTyped
  <2>4. CASE IsSmall(bytes)
    <3>1. U = (S \ little) \cup {s}
      BY <1>11, <2>4
    <3>2. ChargesOf(charge', U) = ChargesOf(charge, S) - ChargesOf(charge, little) + charge'[s]
      BY <1>9, <2>1, <3>1, SumExchanged
    <3> QED BY <2>1, <2>4, <3>2
  <2>5. CASE ~IsSmall(bytes)
    <3>1. U = S \ little
      BY <1>11, <2>5
    <3>2. ChargesOf(charge', U) = ChargesOf(charge, S) - ChargesOf(charge, little)
      BY <1>9, <2>1, <3>1, SumReduced
    <3> QED BY <2>3, <2>5, <3>2
  <2> QED BY <2>4, <2>5
<1> HIDE DEF gain
<1>12. /\ resident = ChargesOf(charge, Counted) /\ smallResident = ChargesOf(charge, SmallOf(Counted))
       /\ Charges(large \cup little) = ChargesOf(charge, large \cup little) /\ Charges(little) = ChargesOf(charge, little)
       /\ Charges(Held) = ChargesOf(charge, Held) /\ Charges(SmallOf(Held)) = ChargesOf(charge, SmallOf(Held))
  BY <1>1 DEF ChargedOnce, Charges, ChargesOf, SmallOf
<1>13. /\ Charges(Counted)' = ChargesOf(charge', Counted') /\ Charges(Held)' = ChargesOf(charge', Held')
       /\ Charges({x \in Counted : IsSmall(charge[x])})' = ChargesOf(charge', {x \in Counted' : IsSmall(charge'[x])})
       /\ Charges(SmallOf(Held))' = ChargesOf(charge', {x \in Held' : IsSmall(charge'[x])})
  BY DEF Charges, ChargesOf, SmallOf
<1>14. /\ ChargesOf(charge', Counted') = ChargesOf(charge, Counted) - ChargesOf(charge, large \cup little) + bytes
       /\ ChargesOf(charge', Held') = ChargesOf(charge, Held) - ChargesOf(charge, large \cup little) + bytes
  BY <1>7, <1>10
<1>15. /\ ChargesOf(charge', gain(SmallOf(Counted) \ little)) =
            ChargesOf(charge, SmallOf(Counted)) - ChargesOf(charge, little) + (IF IsSmall(bytes) THEN bytes ELSE 0)
       /\ ChargesOf(charge', gain(SmallOf(Held) \ little)) =
            ChargesOf(charge, SmallOf(Held)) - ChargesOf(charge, little) + (IF IsSmall(bytes) THEN bytes ELSE 0)
  <2>1. SmallOf(Counted) \in SUBSET Slots /\ SmallOf(Held) \in SUBSET Slots /\ s \notin SmallOf(Counted) /\ s \notin SmallOf(Held)
        /\ little \subseteq SmallOf(Counted) /\ little \subseteq SmallOf(Held)
    BY <1>2, <1>7 DEF SmallOf
  <2> QED BY <1>11, <2>1
<1>16. ChargedOnce'
  BY <1>8, <1>12, <1>13, <1>14, <1>15 DEF ChargedOnce, Exchanging
<1>17. Filed'
  <2>1. \A i \in DOMAIN fifo' : status'[fifo'[i]] # "unborn" /\ ~IsSmall(charge'[fifo'[i]])
    <3>1. ASSUME NEW i \in DOMAIN fifo', NEW j \in DOMAIN fifo, fifo'[i] = fifo[j]
          PROVE  status'[fifo'[i]] # "unborn" /\ ~IsSmall(charge'[fifo'[i]])
      <4>1. fifo[j] \in Slots \ {s} /\ status[fifo[j]] # "unborn" /\ ~IsSmall(charge[fifo[j]])
        BY <1>1 DEF Filed, PoolTyped
      <4> QED BY <1>6, <1>a, <3>1, <4>1
    <3>2. ASSUME NEW i \in DOMAIN fifo', fifo'[i] = s, ~\E j \in DOMAIN fifo : fifo'[i] = fifo[j]
          PROVE  status'[fifo'[i]] # "unborn" /\ ~IsSmall(charge'[fifo'[i]])
      <4>1. ~IsSmall(bytes)
        <5> SUFFICES ASSUME IsSmall(bytes) PROVE FALSE
          OBVIOUS
        <5> QED BY <1>3, <3>2
      <4> QED BY <1>6, <1>a, <3>2, <4>1
    <3> QED BY <1>3, <3>1, <3>2
  <2>2. \A i \in DOMAIN smallFifo' : status'[smallFifo'[i]] # "unborn" /\ IsSmall(charge'[smallFifo'[i]])
    <3>1. ASSUME NEW i \in DOMAIN smallFifo', NEW j \in DOMAIN smallFifo, smallFifo'[i] = smallFifo[j]
          PROVE  status'[smallFifo'[i]] # "unborn" /\ IsSmall(charge'[smallFifo'[i]])
      <4>1. smallFifo[j] \in Slots \ {s} /\ status[smallFifo[j]] # "unborn" /\ IsSmall(charge[smallFifo[j]])
        BY <1>1 DEF Filed, PoolTyped
      <4> QED BY <1>6, <1>a, <3>1, <4>1
    <3>2. ASSUME NEW i \in DOMAIN smallFifo', smallFifo'[i] = s, ~\E j \in DOMAIN smallFifo : smallFifo'[i] = smallFifo[j]
          PROVE  status'[smallFifo'[i]] # "unborn" /\ IsSmall(charge'[smallFifo'[i]])
      <4>1. IsSmall(bytes)
        <5> SUFFICES ASSUME ~IsSmall(bytes) PROVE FALSE
          OBVIOUS
        <5> QED BY <1>4, <3>2
      <4> QED BY <1>6, <1>a, <3>2, <4>1
    <3> QED BY <1>4, <3>1, <3>2
  <2>3. ASSUME NEW x \in Held', ~IsSmall(charge'[x]) PROVE \E i \in DOMAIN fifo' : fifo'[i] = x
    <3>1. CASE x = s
      BY <1>3, <1>6, <2>3, <3>1
    <3>2. CASE x # s
      <4>1. x \in Held /\ x \notin large /\ ~IsSmall(charge[x])
        BY <1>6, <1>7, <2>3, <3>2
      <4>2. PICK j \in (nl + 1)..Len(fifo) : fifo[j] = x
        BY <1>1, <1>b, <4>1, VictimsLarge
      <4> QED BY <1>3, <4>2
    <3> QED BY <3>1, <3>2
  <2>4. ASSUME NEW x \in Held', IsSmall(charge'[x]) PROVE \E i \in DOMAIN smallFifo' : smallFifo'[i] = x
    <3>1. CASE x = s
      BY <1>4, <1>6, <2>4, <3>1
    <3>2. CASE x # s
      <4>1. x \in Held /\ x \notin little /\ IsSmall(charge[x])
        BY <1>6, <1>7, <2>4, <3>2
      <4>2. PICK j \in (ns + 1)..Len(smallFifo) : smallFifo[j] = x
        BY <1>1, <1>b, <4>1, VictimsSmall
      <4> QED BY <1>4, <4>2
    <3> QED BY <3>1, <3>2
  <2>5. ASSUME NEW x \in Held'
        PROVE  \E i \in DOMAIN (IF IsSmall(charge'[x]) THEN smallFifo' ELSE fifo') :
                 (IF IsSmall(charge'[x]) THEN smallFifo' ELSE fifo')[i] = x
    <3>1. CASE IsSmall(charge'[x])
      BY <2>4, <3>1
    <3>2. CASE ~IsSmall(charge'[x])
      BY <2>3, <3>2
    <3> QED BY <3>1, <3>2
  <2> QED BY <2>1, <2>2, <2>5 DEF Filed, ClassFifo
<1>18. Charges(large \cup little) = Charges(large) + Charges(little)
  <2>1. large \in SUBSET Slots /\ little \in SUBSET Slots /\ large \cap little = {}
    BY <1>2 DEF Held, SmallOf
  <2>2. ChargesOf(charge, large \cup little) = ChargesOf(charge, large) + ChargesOf(charge, little)
    BY <1>9, <2>1, SumUnion
  <2>3. \A S : Charges(S) = ChargesOf(charge, S)
    BY DEF Charges, ChargesOf
  <2> QED BY <2>2, <2>3, Zenon
<1>19. Charges(Held)' = Charges(Held) - Charges(large \cup little) + bytes
  BY <1>12, <1>13, <1>14
<1> QED BY <1>5, <1>8, <1>12, <1>13, <1>15, <1>16, <1>17, <1>18, <1>19


(* What the payloads held cost, against what the counters say. *)
LEMMA HeldSums ==
  ASSUME PoolInv
  PROVE  /\ Charges(Held) \in Nat /\ Charges(SmallOf(Held)) \in Nat /\ resident \in Nat /\ smallResident \in Nat
         /\ Charges(Held \ SmallOf(Held)) = Charges(Held) - Charges(SmallOf(Held))
         /\ Charges(Held \ SmallOf(Held)) \in Nat
         /\ Charges(SmallOf(Held)) <= smallResident
         /\ Charges(Held \ SmallOf(Held)) <= resident - smallResident
         /\ Charges(Held) <= Capacity /\ Charges(SmallOf(Held)) <= SmallCapacity
<1> DEFINE H == Held  
           HS == SmallOf(Held)
           HL == Held \ SmallOf(Held)
           K == Counted
           KS == SmallOf(Counted)
           KL == Counted \ SmallOf(Counted)
<1>1. charge \in [Slots -> 0..Capacity]
  BY DEF PoolInv, PoolTyped
<1>2. /\ H \in SUBSET Slots /\ HS \in SUBSET H /\ HL = H \ HS /\ K \in SUBSET Slots /\ KS \in SUBSET K /\ KL = K \ KS
      /\ HS \in SUBSET KS /\ HL \in SUBSET KL /\ HL \in SUBSET Slots /\ KS \in SUBSET Slots /\ KL \in SUBSET Slots
      /\ HS \in SUBSET Slots
  BY DEF Held, Counted, SmallOf
<1>3. resident = Charges(K) /\ smallResident = Charges(KS)
  BY DEF PoolInv, ChargedOnce, SmallOf
<1>4. Charges(H) <= Capacity /\ Charges(HS) <= SmallCapacity
  BY DEF PoolInv, HeldFits, Held, SmallOf
<1> HIDE DEF H, HS, HL, K, KS, KL
<1>5. /\ ChargesOf(charge, H) \in Nat /\ ChargesOf(charge, HS) \in Nat /\ ChargesOf(charge, HL) \in Nat
      /\ ChargesOf(charge, K) \in Nat /\ ChargesOf(charge, KS) \in Nat /\ ChargesOf(charge, KL) \in Nat
  BY <1>1, <1>2, SumTyped
<1>6. ChargesOf(charge, HL) = ChargesOf(charge, H) - ChargesOf(charge, HS)
  BY <1>1, <1>2, SumReduced
<1>7. ChargesOf(charge, KL) = ChargesOf(charge, K) - ChargesOf(charge, KS)
  BY <1>1, <1>2, SumReduced
<1>8. ChargesOf(charge, HS) <= ChargesOf(charge, KS) /\ ChargesOf(charge, HL) <= ChargesOf(charge, KL)
  BY <1>1, <1>2, SumWithout
<1>9. \A S : Charges(S) = ChargesOf(charge, S)
  BY DEF Charges, ChargesOf
<1>10. /\ Charges(H) = ChargesOf(charge, H) /\ Charges(HS) = ChargesOf(charge, HS) /\ Charges(HL) = ChargesOf(charge, HL)
       /\ resident = ChargesOf(charge, K) /\ smallResident = ChargesOf(charge, KS)
  BY <1>3, <1>9, Zenon
<1>11. /\ Charges(H) \in Nat /\ Charges(HS) \in Nat /\ resident \in Nat /\ smallResident \in Nat
       /\ Charges(HL) = Charges(H) - Charges(HS) /\ Charges(HL) \in Nat
       /\ Charges(HS) <= smallResident
       /\ Charges(HL) <= resident - smallResident
       /\ Charges(H) <= Capacity /\ Charges(HS) <= SmallCapacity
  BY <1>4, <1>5, <1>6, <1>7, <1>8, <1>10
<1> QED BY <1>11 DEF H, HS, HL

(* An admission makes the room its payload needs before it charges it. *)
LEMMA AdmitKeeps ==
  ASSUME PoolInv, NEW s \in Slots, NEW bytes \in Nat, Admit(s, bytes)
  PROVE  PoolInv'
<1> DEFINE nl == IF IsSmall(bytes) THEN BorrowPops(bytes) ELSE OwnPops(bytes)
           ns == IF IsSmall(bytes) THEN OwnPops(bytes) ELSE 0
           large == LargeVictims(bytes)
           little == SmallVictims(bytes)
<1>1. PoolTyped /\ Filed /\ Capacity \in Nat /\ SmallCapacity \in Nat /\ SmallCapacity <= Capacity
  BY CapacitySplit DEF PoolInv
<1>2. fifo \in Seq(Slots) /\ smallFifo \in Seq(Slots) /\ status[s] = "unborn" /\ Admissible(bytes)
  BY <1>1 DEF PoolTyped, Admit
<1>3. bytes \in 0..Capacity
  BY <1>1, <1>2 DEF Admissible
<1>4. nl \in 0..Len(fifo) /\ ns \in 0..Len(smallFifo)
  <2>1. Len(smallFifo) \in Nat
    BY <1>2
  <2>2. CASE IsSmall(bytes)
    BY <1>2, <2>2, OwnPopsEnough, BorrowPopsEnough DEF ClassFifo
  <2>3. CASE ~IsSmall(bytes)
    BY <1>2, <2>1, <2>3, OwnPopsEnough DEF ClassFifo
  <2> QED BY <2>2, <2>3
<1>5. large = Victims(fifo, nl) /\ little = Victims(smallFifo, ns)
  <2>1. Victims(smallFifo, 0) = {}
    BY DEF Victims
  <2> QED BY <2>1 DEF LargeVictims, SmallVictims
<1>6. Popped(smallFifo, 0) = smallFifo
  BY <1>2 DEF Popped
<1>7. Exchanging(s, bytes, nl, ns, large, little)
  <2>1. /\ status' = [x \in Slots |-> IF x = s THEN "held" ELSE IF x \in large \cup little THEN "gone" ELSE status[x]]
        /\ charge' = [charge EXCEPT ![s] = bytes]
        /\ resident' = resident - Charges(large \cup little) + bytes
        /\ smallResident' = smallResident - Charges(little) + (IF IsSmall(bytes) THEN bytes ELSE 0)
    BY DEF Admit
  <2>2. /\ fifo' = IF IsSmall(bytes) THEN Popped(fifo, nl) ELSE Append(Popped(fifo, nl), s)
        /\ smallFifo' = IF IsSmall(bytes) THEN Append(Popped(smallFifo, ns), s) ELSE Popped(smallFifo, ns)
    BY <1>6 DEF Admit
  <2> HIDE DEF nl, ns, large, little
  <2> QED BY <1>5, <2>1, <2>2 DEF Exchanging
<1>8. /\ large \subseteq Held \ SmallOf(Held) /\ little \subseteq SmallOf(Held)
      /\ nl = Len(fifo) => large = Held \ SmallOf(Held)
      /\ ns = Len(smallFifo) => little = SmallOf(Held)
  <2> HIDE DEF nl, ns, large, little
  <2> QED BY <1>1, <1>4, <1>5, VictimsLarge, VictimsSmall
(* the room the pops made, or an empty FIFO *)
<1>9. ASSUME ~IsSmall(bytes)
      PROVE  \/ resident - smallResident - Charges(large) + bytes <= Capacity - SmallCapacity
             \/ Charges(large) = Charges(Held \ SmallOf(Held))
  <2>1. /\ ClassBytes(IsSmall(bytes)) = resident - smallResident /\ ClassCapacity(IsSmall(bytes)) = Capacity - SmallCapacity
        /\ ClassFifo(IsSmall(bytes)) = fifo /\ nl = OwnPops(bytes)
    BY <1>9 DEF ClassBytes, ClassCapacity, ClassFifo
  <2>2. \/ ClassBytes(IsSmall(bytes)) - Charges(Victims(ClassFifo(IsSmall(bytes)), OwnPops(bytes))) + bytes
             <= ClassCapacity(IsSmall(bytes))
        \/ OwnPops(bytes) = Len(ClassFifo(IsSmall(bytes)))
    BY <1>2, OwnPopsEnough
  <2>3. nl = Len(fifo) => Charges(large) = Charges(Held \ SmallOf(Held))
    BY <1>8, Zenon
  <2>4. Charges(large) = Charges(Victims(fifo, OwnPops(bytes)))
    BY <1>5, <2>1, Zenon
  <2> HIDE DEF nl, large
  <2> QED BY <2>1, <2>2, <2>3, <2>4
<1>10. ASSUME IsSmall(bytes)
       PROVE  /\ \/ smallResident - Charges(little) + bytes <= SmallCapacity
                 \/ Charges(little) = Charges(SmallOf(Held))
              /\ \/ resident - Charges(little) - Charges(large) + bytes <= Capacity
                 \/ Charges(large) = Charges(Held \ SmallOf(Held))
  <2>1. /\ ClassBytes(IsSmall(bytes)) = smallResident /\ ClassCapacity(IsSmall(bytes)) = SmallCapacity
        /\ ClassFifo(IsSmall(bytes)) = smallFifo /\ nl = BorrowPops(bytes) /\ ns = OwnPops(bytes)
    BY <1>10 DEF ClassBytes, ClassCapacity, ClassFifo
  <2>2. \/ ClassBytes(IsSmall(bytes)) - Charges(Victims(ClassFifo(IsSmall(bytes)), OwnPops(bytes))) + bytes
             <= ClassCapacity(IsSmall(bytes))
        \/ OwnPops(bytes) = Len(ClassFifo(IsSmall(bytes)))
    BY <1>2, OwnPopsEnough
  <2>3. \/ resident - Charges(Victims(smallFifo, OwnPops(bytes))) - Charges(Victims(fifo, BorrowPops(bytes))) + bytes <= Capacity
        \/ BorrowPops(bytes) = Len(fifo)
    BY <1>2, <1>10, BorrowPopsEnough
  <2>4. nl = Len(fifo) => Charges(large) = Charges(Held \ SmallOf(Held))
    BY <1>8, Zenon
  <2>5. ns = Len(smallFifo) => Charges(little) = Charges(SmallOf(Held))
    BY <1>8, Zenon
  <2>6. Charges(little) = Charges(Victims(smallFifo, OwnPops(bytes))) /\ Charges(large) = Charges(Victims(fifo, BorrowPops(bytes)))
    BY <1>5, <2>1, Zenon
  <2> HIDE DEF nl, ns, large, little
  <2> QED BY <2>1, <2>2, <2>3, <2>4, <2>5, <2>6
<1>11. IsSmall(bytes) => bytes <= SmallCapacity
  BY DEF IsSmall
<1>12. ~IsSmall(bytes) => smallResident + bytes <= Capacity /\ little = {}
  BY <1>2 DEF Admissible, SmallVictims
<1> HIDE DEF nl, ns, large, little
<1>13. /\ PoolTyped' /\ Filed' /\ ChargedOnce'
       /\ Charges(Held)' = Charges(Held) - (Charges(large) + Charges(little)) + bytes
       /\ Charges(SmallOf(Held))' =
            Charges(SmallOf(Held)) - Charges(little) + (IF IsSmall(bytes) THEN bytes ELSE 0)
  BY <1>2, <1>3, <1>4, <1>7, Exchange
<1>14. /\ Charges(large) \in Nat /\ Charges(little) \in Nat
       /\ Charges(large) <= Charges(Held \ SmallOf(Held)) /\ Charges(little) <= Charges(SmallOf(Held))
       /\ Charges({}) = 0
  <2>1. charge \in [Slots -> 0..Capacity]
    BY <1>1 DEF PoolTyped
  <2>2. /\ large \in SUBSET Slots /\ little \in SUBSET Slots /\ large \cap little = {}
        /\ Held \ SmallOf(Held) \in SUBSET Slots /\ SmallOf(Held) \in SUBSET Slots
    BY <1>8 DEF Held, SmallOf
  <2>4. ChargesOf(charge, large) \in Nat /\ ChargesOf(charge, little) \in Nat /\ ChargesOf(charge, {}) = 0
    BY <2>1, <2>2, SumTyped, SumNone
  <2>5. ASSUME NEW S \in SUBSET Slots, NEW T \in SUBSET S PROVE ChargesOf(charge, T) <= ChargesOf(charge, S)
    BY <2>1, SumWithout
  <2>6. /\ ChargesOf(charge, large) <= ChargesOf(charge, Held \ SmallOf(Held))
        /\ ChargesOf(charge, little) <= ChargesOf(charge, SmallOf(Held))
    BY <1>8, <2>2, <2>5, Zenon
  <2>7. \A S : Charges(S) = ChargesOf(charge, S)
    BY DEF Charges, ChargesOf
  <2> QED BY <2>4, <2>6, <2>7, Zenon
<1>15. /\ Charges(Held)' <= Capacity /\ Charges(SmallOf(Held))' <= SmallCapacity
  <2> DEFINE h == Charges(Held)
             hs == Charges(SmallOf(Held))
             hl == Charges(Held \ SmallOf(Held))
             v == Charges(large)
             w == Charges(little)
  <2>0. /\ h \in Nat /\ hs \in Nat /\ hl \in Nat /\ resident \in Nat /\ smallResident \in Nat
        /\ hl = h - hs /\ hs <= smallResident /\ hl <= resident - smallResident
        /\ h <= Capacity /\ hs <= SmallCapacity
    BY HeldSums
  <2>1. CASE IsSmall(bytes)
    <3>1. Charges(Held)' = h - (v + w) + bytes /\ Charges(SmallOf(Held))' = hs - w + bytes
      BY <1>13, <1>14, <2>1
    <3>2. v \in Nat /\ w \in Nat /\ v <= hl /\ w <= hs
      BY <1>14
    <3>3. /\ smallResident - w + bytes <= SmallCapacity \/ w = hs
          /\ resident - w - v + bytes <= Capacity \/ v = hl
      BY <1>10, <2>1
    <3> HIDE DEF h, hs, hl, v, w
    <3> QED BY <1>1, <1>11, <2>0, <2>1, <3>1, <3>2, <3>3
  <2>2. CASE ~IsSmall(bytes)
    <3>1. Charges(Held)' = h - (v + w) + bytes /\ Charges(SmallOf(Held))' = hs - w + 0
      BY <1>13, <1>14, <2>2
    <3>2. v \in Nat /\ w = 0 /\ v <= hl
      BY <1>12, <1>14, <2>2
    <3>3. resident - smallResident - v + bytes <= Capacity - SmallCapacity \/ v = hl
      BY <1>9, <2>2
    <3> HIDE DEF h, hs, hl, v, w
    <3> QED BY <1>1, <1>12, <2>0, <2>2, <3>1, <3>2, <3>3
  <2> QED BY <2>1, <2>2
<1>16. HeldFits'
  BY <1>15 DEF HeldFits, Held, SmallOf
<1> QED BY <1>13, <1>16 DEF PoolInv

(* A slot leaves the ones held, without another coming. *)
LEMMA SlotLeaves ==
  ASSUME PoolInv, NEW G \in SUBSET Held,
         status' \in [Slots -> {"unborn", "held", "dying", "gone"}],
         \A x \in Slots : (status'[x] = "held" <=> x \in Held \ G) /\ (status'[x] = "unborn" <=> status[x] = "unborn"),
         UNCHANGED <<charge, fifo, smallFifo>>
  PROVE  PoolTyped' /\ Filed' /\ HeldFits'
<1>1. PoolTyped /\ Filed
  BY DEF PoolInv
<1>2. PoolTyped'
  BY <1>1 DEF PoolTyped
<1>3. Held' = Held \ G /\ SmallOf(Held)' = SmallOf(Held) \ G
  BY DEF Held, SmallOf
<1>4. Filed'
  <2>1. \A i \in DOMAIN fifo : fifo[i] \in Slots
    BY <1>1 DEF PoolTyped
  <2>2. \A i \in DOMAIN smallFifo : smallFifo[i] \in Slots
    BY <1>1 DEF PoolTyped
  <2> QED BY <1>1, <1>3, <2>1, <2>2 DEF Filed, ClassFifo
<1>5. charge \in [Slots -> 0..Capacity]
  BY <1>1 DEF PoolTyped
<1>6. /\ Held \in SUBSET Slots /\ Held \ G \in SUBSET Held
      /\ SmallOf(Held) \in SUBSET Slots /\ SmallOf(Held) \ G \in SUBSET SmallOf(Held)
  BY DEF Held, SmallOf
<1>7. ASSUME NEW S \in SUBSET Slots, NEW T \in SUBSET S
      PROVE  ChargesOf(charge, T) <= ChargesOf(charge, S) /\ ChargesOf(charge, T) \in Nat /\ ChargesOf(charge, S) \in Nat
  <2>1. T \in SUBSET Slots
    OBVIOUS
  <2> QED BY <1>5, <2>1, SumWithout, SumTyped
<1>8. \A S : Charges(S) = ChargesOf(charge, S) /\ Charges(S)' = ChargesOf(charge, S')
  BY DEF Charges, ChargesOf
<1>9. /\ Charges(Held)' = ChargesOf(charge, Held \ G)
      /\ Charges(SmallOf(Held))' = ChargesOf(charge, SmallOf(Held) \ G)
  BY <1>3 DEF Charges, ChargesOf
<1>10. /\ ChargesOf(charge, Held \ G) <= ChargesOf(charge, Held)
       /\ ChargesOf(charge, SmallOf(Held) \ G) <= ChargesOf(charge, SmallOf(Held))
       /\ ChargesOf(charge, Held \ G) \in Nat /\ ChargesOf(charge, SmallOf(Held) \ G) \in Nat
  BY <1>6, <1>7, Zenon
<1>11. /\ ChargesOf(charge, Held) <= Capacity /\ ChargesOf(charge, SmallOf(Held)) <= SmallCapacity
       /\ ChargesOf(charge, Held) \in Nat /\ ChargesOf(charge, SmallOf(Held)) \in Nat
  <2>1. ChargesOf(charge, Held) = Charges(Held) /\ ChargesOf(charge, SmallOf(Held)) = Charges(SmallOf(Held))
    BY <1>8, Zenon
  <2> QED BY <2>1, HeldSums
<1>12. Charges(Held)' <= Capacity /\ Charges(SmallOf(Held))' <= SmallCapacity
  BY <1>9, <1>10, <1>11, CapacitySplit
<1>13. HeldFits'
  BY <1>12 DEF HeldFits, Held, SmallOf
<1> QED BY <1>2, <1>4, <1>13


LEMMA DiesKeeps == ASSUME PoolInv, NEW s \in Slots, SlotDies(s) PROVE PoolInv'
<1>1. status \in [Slots -> {"unborn", "held", "dying", "gone"}]
  BY DEF PoolInv, PoolTyped
<1>2. status[s] = "held" /\ status' = [status EXCEPT ![s] = "dying"]
      /\ UNCHANGED <<charge, fifo, smallFifo, resident, smallResident>>
  BY DEF SlotDies
<1>3. status' \in [Slots -> {"unborn", "held", "dying", "gone"}]
      /\ \A x \in Slots : (status'[x] = "held" <=> x \in Held \ {s}) /\ (status'[x] = "unborn" <=> status[x] = "unborn")
  BY <1>1, <1>2 DEF Held
<1>4. {s} \in SUBSET Held
  BY <1>2 DEF Held
<1>5. PoolTyped' /\ Filed' /\ HeldFits'
  BY <1>2, <1>3, <1>4, SlotLeaves
<1>6. Counted' = Counted
  BY <1>1, <1>2 DEF Counted
<1>7. ChargedOnce'
  BY <1>2, <1>6 DEF PoolInv, ChargedOnce, Charges
<1> QED BY <1>5, <1>7 DEF PoolInv

LEMMA SettlesKeeps == ASSUME PoolInv, NEW s \in Slots, SlotSettles(s) PROVE PoolInv'
<1>1. status \in [Slots -> {"unborn", "held", "dying", "gone"}] /\ charge \in [Slots -> 0..Capacity]
  BY DEF PoolInv, PoolTyped
<1>2. status[s] = "dying" /\ status' = [status EXCEPT ![s] = "gone"]
      /\ UNCHANGED <<charge, fifo, smallFifo>>
      /\ resident' = resident - charge[s]
      /\ smallResident' = smallResident - (IF IsSmall(charge[s]) THEN charge[s] ELSE 0)
  BY DEF SlotSettles
<1>3. status' \in [Slots -> {"unborn", "held", "dying", "gone"}]
      /\ \A x \in Slots : (status'[x] = "held" <=> x \in Held \ {}) /\ (status'[x] = "unborn" <=> status[x] = "unborn")
  BY <1>1, <1>2 DEF Held
<1>4. PoolTyped' /\ Filed' /\ HeldFits'
  <2>1. {} \in SUBSET Held /\ UNCHANGED <<charge, fifo, smallFifo>>
    BY <1>2
  <2> QED BY <1>3, <2>1, SlotLeaves
<1>5. s \in Counted /\ Counted \subseteq Slots /\ SmallOf(Counted) \subseteq Slots
  BY <1>2 DEF Counted, SmallOf
<1>6. /\ Counted' = Counted \ {s}
      /\ SmallOf(Counted)' = IF IsSmall(charge[s]) THEN SmallOf(Counted) \ {s} ELSE SmallOf(Counted)
  BY <1>1, <1>2 DEF Counted, SmallOf
<1>7. ASSUME NEW S \in SUBSET Slots, s \in S, NEW T, T = S \ {s}
      PROVE  ChargesOf(charge, T) = ChargesOf(charge, S) - charge[s]
  <2>1. {s} \in SUBSET S
    BY <1>7
  <2>2. ChargesOf(charge, S \ {s}) = ChargesOf(charge, S) - ChargesOf(charge, {s})
    BY <1>1, <2>1, SumWithout
  <2>3. ChargesOf(charge, {s}) = charge[s]
    BY <1>1, SumOne
  <2> QED BY <1>7, <2>2, <2>3, Zenon
<1>8. /\ resident = ChargesOf(charge, Counted) /\ smallResident = ChargesOf(charge, SmallOf(Counted))
      /\ ChargesOf(charge, SmallOf(Counted)) \in Nat
  <2>1. ChargesOf(charge, SmallOf(Counted)) \in Nat
    BY <1>1, <1>5, SumTyped
  <2> QED BY <2>1 DEF PoolInv, ChargedOnce, Charges, ChargesOf, SmallOf
<1>9. ChargesOf(charge, Counted') = resident'
  BY <1>2, <1>5, <1>6, <1>7, <1>8
<1>10. ChargesOf(charge, SmallOf(Counted)') = smallResident'
  <2>1. CASE IsSmall(charge[s])
    <3>1. s \in SmallOf(Counted) /\ SmallOf(Counted)' = SmallOf(Counted) \ {s}
      BY <1>5, <1>6, <2>1 DEF SmallOf
    <3>2. ChargesOf(charge, SmallOf(Counted)') = ChargesOf(charge, SmallOf(Counted)) - charge[s]
      BY <1>5, <1>7, <3>1
    <3> QED BY <1>2, <1>8, <2>1, <3>2
  <2>2. CASE ~IsSmall(charge[s])
    BY <1>2, <1>6, <1>8, <2>2
  <2> QED BY <2>1, <2>2
<1>11. ChargedOnce'
  BY <1>2, <1>9, <1>10 DEF ChargedOnce, Charges, ChargesOf, SmallOf
<1> QED BY <1>4, <1>11 DEF PoolInv

LEMMA TrimKeeps == ASSUME PoolInv, Trim PROVE PoolInv'
<1> DEFINE large == Victims(fifo, Len(fifo))
           little == Victims(smallFifo, Len(smallFifo))
<1>1. PoolTyped /\ Filed /\ charge \in [Slots -> 0..Capacity]
  BY DEF PoolInv, PoolTyped
<1>2. large = Held \ SmallOf(Held) /\ little = SmallOf(Held)
  <2>1. Len(fifo) \in 0..Len(fifo) /\ Len(smallFifo) \in 0..Len(smallFifo)
    BY <1>1 DEF PoolTyped
  <2> QED BY <1>1, <2>1, VictimsLarge, VictimsSmall
<1>3. large \cup little = Held /\ SmallOf(Held) \subseteq Held
  BY <1>2 DEF SmallOf
<1>4. /\ status' = [x \in Slots |-> IF x \in large \cup little THEN "gone" ELSE status[x]]
      /\ resident' = resident - Charges(large \cup little) /\ smallResident' = smallResident - Charges(little)
      /\ fifo' = <<>> /\ smallFifo' = <<>> /\ charge' = charge
  BY DEF Trim
<1> HIDE DEF large, little
<1>5. /\ status' = [x \in Slots |-> IF x \in Held THEN "gone" ELSE status[x]]
      /\ resident' = resident - Charges(Held) /\ smallResident' = smallResident - Charges(SmallOf(Held))
  BY <1>2, <1>3, <1>4
<1>6. Held' = {} /\ Counted' = Counted \ Held /\ SmallOf(Counted)' = SmallOf(Counted) \ SmallOf(Held)
  <2>1. \A x \in Slots : status'[x] = (IF status[x] = "held" THEN "gone" ELSE status[x])
    BY <1>5 DEF Held
  <2> QED BY <1>4, <2>1 DEF Held, Counted, SmallOf
<1>7. PoolTyped'
  BY <1>1, <1>4, <1>5 DEF PoolTyped
<1>8. Filed'
  BY <1>4, <1>6 DEF Filed
<1>9. Charges({})' = 0
  BY FS_EmptySet DEF Charges
<1>10. HeldFits'
  <2>1. SmallOf(Held)' = {}
    BY <1>6 DEF SmallOf
  <2>2. Charges(Held)' = 0 /\ Charges(SmallOf(Held))' = 0
    BY <1>6, <1>9, <2>1 DEF Charges
  <2>3. Charges(Held)' <= Capacity /\ Charges(SmallOf(Held))' <= SmallCapacity
    BY <2>2, CapacitySplit
  <2> QED BY <2>3 DEF HeldFits, Held, SmallOf
<1>11. ChargedOnce'
  <2>1. Held \in SUBSET Counted /\ SmallOf(Held) \in SUBSET SmallOf(Counted) /\ Counted \in SUBSET Slots /\ SmallOf(Counted) \in SUBSET Slots
    BY DEF Held, Counted, SmallOf
  <2>2. resident = ChargesOf(charge, Counted) /\ smallResident = ChargesOf(charge, SmallOf(Counted))
    BY DEF PoolInv, ChargedOnce, Charges, ChargesOf, SmallOf
  <2>3. Charges(Held) = ChargesOf(charge, Held) /\ Charges(SmallOf(Held)) = ChargesOf(charge, SmallOf(Held))
    BY DEF Charges, ChargesOf
  <2>4. ChargesOf(charge, Counted \ Held) = ChargesOf(charge, Counted) - ChargesOf(charge, Held)
    BY <1>1, <2>1, SumWithout, Zenon
  <2>5. ChargesOf(charge, SmallOf(Counted) \ SmallOf(Held)) = ChargesOf(charge, SmallOf(Counted)) - ChargesOf(charge, SmallOf(Held))
    BY <1>1, <2>1, SumWithout, Zenon
  <2>6. resident' = ChargesOf(charge, Counted') /\ smallResident' = ChargesOf(charge, SmallOf(Counted)')
    BY <1>5, <1>6, <2>2, <2>3, <2>4, <2>5, Zenon
  <2> QED BY <1>4, <2>6 DEF ChargedOnce, Charges, ChargesOf, SmallOf
<1> QED BY <1>7, <1>8, <1>10, <1>11 DEF PoolInv

LEMMA PoolInitially == PoolInit => PoolInv
<1> SUFFICES ASSUME PoolInit PROVE PoolInv
  OBVIOUS
<1>1. /\ status = [s \in Slots |-> "unborn"] /\ charge = [s \in Slots |-> 0]
      /\ fifo = <<>> /\ smallFifo = <<>> /\ resident = 0 /\ smallResident = 0
  BY DEF PoolInit
<1>2. Held = {} /\ Counted = {}
  BY <1>1 DEF Held, Counted
<1>3. PoolTyped /\ Filed
  BY <1>1, <1>2, CapacitySplit DEF PoolTyped, Filed
<1>4. Charges({}) = 0
  BY FS_EmptySet DEF Charges
<1>5. SmallOf(Held) = {} /\ SmallOf(Counted) = {}
  BY <1>2 DEF SmallOf
<1>6. ChargedOnce
  BY <1>1, <1>2, <1>4, <1>5 DEF ChargedOnce, SmallOf
<1>7. Charges(Held) <= Capacity /\ Charges(SmallOf(Held)) <= SmallCapacity
  BY <1>2, <1>4, <1>5, CapacitySplit
<1>8. HeldFits
  BY <1>7 DEF HeldFits, Held, SmallOf
<1> QED BY <1>3, <1>6, <1>8 DEF PoolInv

(* The pool's counters stay true whatever the rest of the store does. *)
LEMMA PoolSteps == ASSUME PoolInv, [Next]_vars PROVE PoolInv'
<1>1. CASE UNCHANGED poolVars
  BY <1>1 DEF poolVars, PoolInv, PoolTyped, Filed, ClassFifo, Held, ChargedOnce, HeldFits, Charges, Counted
<1>2. ASSUME NEW bytes \in Sizes, SeedAdmit(bytes) PROVE PoolInv'
  <2>1. bytes \in Nat
    BY PoolAssumption
  <2>2. UNCHANGED poolVars \/ \E s \in Slots : Admit(s, bytes)
    BY <1>2 DEF SeedAdmit
  <2> QED BY <1>1, <2>1, <2>2, AdmitKeeps
<1>3. ASSUME TrimPool PROVE PoolInv'
  BY <1>3, TrimKeeps DEF TrimPool
<1>4. ASSUME NEW s \in Slots, LoseSlot(s) \/ SettleSlot(s) PROVE PoolInv'
  BY <1>4, DiesKeeps, SettlesKeeps DEF LoseSlot, SettleSlot
<1>5. ASSUME Produce \/ SeedInsert \/ Manage \/ Read \/ Follow \/ (\E t \in Topics, ts \in Stamps : SeedCheck(t, ts))
      PROVE  UNCHANGED poolVars
  BY <1>5 DEF Produce, Push, Bundle, SeedInsert, SeedCheck, Manage, SetRetentionBudget, EvictBefore, RegisterTopic,
              RemoveTopic, ClearDataset, DetachDataset, CommitRefill, ReattachDataset, Read, LatestAt, Resolve, Memoize,
              Follow, IndexIdentity, IndexCount, IndexFront, IndexPrune, IndexDrain
<1>6. UNCHANGED vars => UNCHANGED poolVars
  BY DEF vars
<1> QED BY <1>1, <1>2, <1>3, <1>4, <1>5, <1>6 DEF Next, Seed, Reside

(* The bytes that the budgets are checked against are exact and the payloads  *)
(* the pool serves fit its budget: for any series, payloads and capacity, and  *)
(* however an entry's last owner and the pool race to empty its slot.          *)
THEOREM BytesExact == Spec => []BytesAccounted
<1>1. Init => IInv /\ PoolInv
  BY Initially, PoolInitially DEF Init
<1>2. IInv /\ PoolInv /\ [Next]_vars => (IInv /\ PoolInv)'
  BY Steps, PoolSteps DEF StepKeeps
<1>3. IInv /\ PoolInv => BytesAccounted
  BY DEF IInv, AllSound, Sound, MemoryExact, PoolInv, BytesAccounted
<1> QED BY <1>1, <1>2, <1>3, PTL DEF Spec
===============================================================================
