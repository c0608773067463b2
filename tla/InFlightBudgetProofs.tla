------------------------ MODULE InFlightBudgetProofs ------------------------
(***************************************************************************)
(* Proofs about InFlightBudget for every set of clients, capacity and      *)
(* sizes.  The inductive invariant adds to the checked properties that the *)
(* counter equals the bytes really held (Accounting) and that a run is in  *)
(* one place (OnePlace): without the first, what fits compares means       *)
(* nothing, and without the second a grant would overwrite room already    *)
(* held and the counter would leak it.                                     *)
(***************************************************************************)
EXTENDS InFlightBudget, TLAPS, FiniteSetTheorems, SequenceTheorems

(* The counter is the number of bytes the runs in flight hold. *)
Accounting ==
  /\ IsFiniteSet(Units(held))
  /\ reserved = Total(held)

(* The strengthening of NoOvercommit over the counter. *)
AloneBeyond == reserved > Capacity => \E c \in Clients : reserved = held[c]

IInv == TypeOK /\ Accounting /\ AloneBeyond /\ OnePlace /\ NoStalledLine

-----------------------------------------------------------------------------
(* The bytes held, counted one by one. *)

LEMMA UnitsOf ==
  ASSUME NEW h \in [Clients -> Nat], NEW c \in Clients, IsFiniteSet(Units(h))
  PROVE  /\ IsFiniteSet({c} \X (1 .. h[c]))
         /\ Cardinality({c} \X (1 .. h[c])) = h[c]
         /\ {c} \X (1 .. h[c]) \subseteq Units(h)
         /\ h[c] <= Total(h)
         /\ Total(h) \in Nat
<1> h[c] \in Nat
  OBVIOUS
<1>1. IsFiniteSet({c}) /\ Cardinality({c}) = 1
  BY FS_Singleton
<1>2. IsFiniteSet(1 .. h[c]) /\ Cardinality(1 .. h[c]) = h[c]
  BY FS_Interval
<1>3. /\ IsFiniteSet({c} \X (1 .. h[c]))
      /\ Cardinality({c} \X (1 .. h[c])) = Cardinality({c}) * Cardinality(1 .. h[c])
  BY <1>1, <1>2, FS_Product, Zenon
<1>4. {c} \X (1 .. h[c]) \subseteq Units(h)
  BY DEF Units
<1>5. Cardinality({c} \X (1 .. h[c])) <= Cardinality(Units(h))
  BY <1>4, FS_Subset
<1>6. Cardinality(Units(h)) \in Nat
  BY FS_CardinalityType
<1> QED
  BY <1>1, <1>2, <1>3, <1>4, <1>5, <1>6 DEF Total

LEMMA UnitsChange ==
  ASSUME NEW h \in [Clients -> Nat], NEW c \in Clients, NEW n \in Nat,
         IsFiniteSet(Units(h))
  PROVE  LET g == [h EXCEPT ![c] = n]
         IN  /\ IsFiniteSet(Units(g))
             /\ Total(g) = Total(h) - h[c] + n
<1> DEFINE g == [h EXCEPT ![c] = n]
           D == {c} \X (1 .. h[c])
           E == {c} \X (1 .. n)
           R == Units(h) \ D
<1>1. IsFiniteSet(D) /\ Cardinality(D) = h[c] /\ D \subseteq Units(h) /\ Total(h) \in Nat
  BY UnitsOf
<1>2. IsFiniteSet(E) /\ Cardinality(E) = n
  <2>1. IsFiniteSet({c}) /\ Cardinality({c}) = 1
    BY FS_Singleton
  <2>2. IsFiniteSet(1 .. n) /\ Cardinality(1 .. n) = n
    BY FS_Interval
  <2>3. IsFiniteSet(E) /\ Cardinality(E) = Cardinality({c}) * Cardinality(1 .. n)
    BY <2>1, <2>2, FS_Product, Zenon
  <2> QED
    BY <2>1, <2>2, <2>3
<1>3. IsFiniteSet(R) /\ Cardinality(R) = Cardinality(Units(h)) - h[c]
  <2>1. Units(h) \cap D = D
    BY <1>1
  <2>2. IsFiniteSet(R) /\ Cardinality(R) = Cardinality(Units(h)) - Cardinality(Units(h) \cap D)
    BY FS_Difference, Zenon
  <2> QED
    BY <1>1, <2>1, <2>2
<1>4. Units(g) = R \cup E
  <2>1. \A d \in Clients : d # c => g[d] = h[d]
    OBVIOUS
  <2>2. g[c] = n
    OBVIOUS
  <2>3. \A d \in Clients : d # c => ({d} \X (1 .. h[d])) \cap D = {}
    OBVIOUS
  <2>4. Units(g) \subseteq R \cup E
    BY <2>1, <2>2, <2>3 DEF Units
  <2>5. R \cup E \subseteq Units(g)
    BY <2>1, <2>2 DEF Units
  <2> QED
    BY <2>4, <2>5
<1>5. R \cap E = {}
  BY DEF Units
<1>6. IsFiniteSet(R \cup E) /\ Cardinality(R \cup E) = Cardinality(R) + Cardinality(E) - Cardinality(R \cap E)
  BY <1>2, <1>3, FS_Union
<1>7. Cardinality(R \cap E) = 0
  BY <1>5, FS_EmptySet
<1>8. Total(g) = Total(h) - h[c] + n
  <2> HIDE DEF g, R, E
  <2>1. h[c] \in Nat /\ Cardinality(Units(h)) \in Nat
    BY <1>1 DEF Total
  <2> QED
    BY <1>2, <1>3, <1>4, <1>6, <1>7, <2>1 DEF Total
<1>9. IsFiniteSet(Units(g))
  BY <1>4, <1>6
<1> QED
  BY <1>8, <1>9

(* When one run holds every byte, no other run holds any. *)
LEMMA AloneHoldsAll ==
  ASSUME NEW h \in [Clients -> Nat], IsFiniteSet(Units(h)),
         NEW c \in Clients, NEW d \in Clients, c # d, h[c] = Total(h)
  PROVE  h[d] = 0
<1> DEFINE g == [h EXCEPT ![c] = 0]
<1>1. IsFiniteSet(Units(g)) /\ Total(g) = Total(h) - h[c] + 0
  BY UnitsChange
<1>2. g \in [Clients -> Nat] /\ g[d] = h[d]
  OBVIOUS
<1>3. g[d] <= Total(g)
  BY <1>1, <1>2, UnitsOf
<1>4. Total(h) \in Nat
  BY UnitsOf
<1> QED
  BY <1>1, <1>2, <1>3, <1>4

-----------------------------------------------------------------------------
(* The line after a place went. *)
LEMMA WithoutProperties ==
  ASSUME NEW S, NEW l \in Seq(S), NEW i \in 1 .. Len(l)
  PROVE  /\ Without(l, i) \in Seq(S)
         /\ Len(Without(l, i)) = Len(l) - 1
         /\ \A k \in 1 .. Len(l) - 1 : Without(l, i)[k] = IF k < i THEN l[k] ELSE l[k + 1]
<1> DEFINE a == SubSeq(l, 1, i - 1)
           b == SubSeq(l, i + 1, Len(l))
<1>1. a \in Seq(S) /\ Len(a) = i - 1 /\ \A k \in 1 .. i - 1 : a[k] = l[k]
  BY SubSeqProperties
<1>2. b \in Seq(S) /\ Len(b) = Len(l) - i /\ \A k \in 1 .. Len(l) - i : b[k] = l[i + k]
  BY SubSeqProperties
<1>3. /\ a \o b \in Seq(S)
      /\ Len(a \o b) = Len(a) + Len(b)
      /\ \A k \in 1 .. Len(a) + Len(b) : (a \o b)[k] = IF k <= Len(a) THEN a[k] ELSE b[k - Len(a)]
  BY <1>1, <1>2, ConcatProperties
<1>4. ASSUME NEW k \in 1 .. Len(l) - 1
      PROVE  (a \o b)[k] = IF k < i THEN l[k] ELSE l[k + 1]
  <2> HIDE DEF a, b
  <2>1. CASE k < i
    BY <1>1, <1>3, <1>2, <2>1
  <2>2. CASE ~(k < i)
    <3>1. (a \o b)[k] = b[k - (i - 1)] /\ k - (i - 1) \in 1 .. Len(l) - i
      BY <1>1, <1>2, <1>3, <2>2
    <3> QED
      BY <1>2, <2>2, <3>1
  <2> QED
    BY <2>1, <2>2
<1>5. Len(a) + Len(b) = Len(l) - 1
  <2> HIDE DEF a, b
  <2> QED
    BY <1>1, <1>2
<1> QED
  BY <1>3, <1>4, <1>5 DEF Without

-----------------------------------------------------------------------------
(* Type correctness. *)

LEMMA GrantHeadType ==
  ASSUME TypeOK, line # <<>>, GrantHead
  PROVE  reserved' \in Nat /\ line' \in Seq(Waiter) /\ held' \in [Clients -> Nat] /\ staged' = staged /\ alive' = alive
<1>1. Head(line) \in Waiter /\ Tail(line) \in Seq(Waiter)
  BY HeadTailProperties DEF TypeOK
<1>2. Head(line).client \in Clients /\ Head(line).bytes \in Nat
  BY <1>1 DEF Waiter
<1> QED
  BY <1>1, <1>2 DEF GrantHead, TypeOK

(* No run holds more than the counter says. *)
LEMMA HeldIsReserved ==
  ASSUME IInv, NEW c \in Clients
  PROVE  held[c] \in Nat /\ held[c] <= reserved /\ reserved - held[c] \in Nat
<1>1. held \in [Clients -> Nat] /\ reserved \in Nat
  BY DEF IInv, TypeOK
<1>2. held[c] <= reserved
  BY <1>1, UnitsOf DEF IInv, Accounting
<1> QED
  BY <1>1, <1>2

LEMMA TypeStep == IInv /\ [Next]_vars => TypeOK'
<1> SUFFICES ASSUME IInv, [Next]_vars PROVE TypeOK'
  OBVIOUS
<1> USE BudgetAssumption
<1>0. TypeOK
  BY DEF IInv
<1>1. ASSUME NEW c \in Clients, NEW bytes \in Sizes, TryReserve(c, bytes) PROVE TypeOK'
  BY <1>0, <1>1 DEF TypeOK, TryReserve
<1>2. ASSUME NEW c \in Clients, NEW bytes \in Sizes, WhenRoom(c, bytes) PROVE TypeOK'
  <2>1. [client |-> c, bytes |-> bytes] \in Waiter
    BY DEF Waiter
  <2>2. line' \in Seq(Waiter)
    BY <1>0, <1>2, <2>1, AppendProperties DEF TypeOK, WhenRoom
  <2> QED
    BY <1>0, <1>2, <2>2 DEF TypeOK, WhenRoom, PostDrain
<1>3. ASSUME NEW c \in Clients, NEW bytes \in Copies, Grow(c, bytes) PROVE TypeOK'
  BY <1>0, <1>3 DEF TypeOK, Grow
<1>4. ASSUME NEW c \in Clients, NEW bytes \in Copies, GiveBackAndWaitInFront(c, bytes) PROVE TypeOK'
  <2>1. <<[client |-> c, bytes |-> held[c] + bytes]>> \in Seq(Waiter)
    <3>1. bytes \in Nat /\ held[c] \in Nat /\ held[c] + bytes \in Nat
      BY <1>0 DEF TypeOK
    <3>2. [client |-> c, bytes |-> held[c] + bytes] \in Waiter
      BY <3>1 DEF Waiter
    <3> QED
      BY <3>2
  <2>2. line' \in Seq(Waiter)
    BY <1>0, <1>4, <2>1, ConcatProperties DEF TypeOK, GiveBackAndWaitInFront
  <2> QED
    BY <1>0, <1>4, <2>2, HeldIsReserved DEF TypeOK, GiveBackAndWaitInFront
<1>5. ASSUME NEW c \in Clients, Release(c) PROVE TypeOK'
  BY <1>0, <1>5, HeldIsReserved DEF TypeOK, Release, PostDrain
<1>6. ASSUME NEW c \in Clients, Leave(c) PROVE TypeOK'
  <2>1. PICK i \in 1 .. Len(line) : line' = Without(line, i)
    BY <1>6 DEF Leave
  <2>2. line' \in Seq(Waiter)
    BY <1>0, <2>1, WithoutProperties DEF TypeOK
  <2> QED
    BY <1>0, <1>6, <2>2 DEF TypeOK, Leave, PostDrain
<1>7. ASSUME Drain PROVE TypeOK'
  <2>1. CASE line # <<>> /\ GrantHead
    BY <1>0, <1>7, <2>1, GrantHeadType
       DEF TypeOK, Drain, DrainNow, DrainPosted, DrainNext, DrainEnd
  <2>2. CASE ~(line # <<>> /\ GrantHead)
    BY <1>0, <1>7, <2>2
       DEF TypeOK, Drain, DrainNow, DrainPosted, DrainNext, DrainEnd, HeadFits
  <2> QED
    BY <2>1, <2>2
<1>8. CASE Destroy
  <2>1. <<>> \in Seq(Waiter)
    BY EmptySeq
  <2> QED
    BY <1>0, <1>8, <2>1 DEF TypeOK, Destroy
<1>9. CASE UNCHANGED vars
  BY <1>0, <1>9 DEF TypeOK, vars
<1> QED
  BY <1>1, <1>2, <1>3, <1>4, <1>5, <1>6, <1>7, <1>8, <1>9 DEF Next, ClientStep

-----------------------------------------------------------------------------
(* A run is in one place. *)

LEMMA OnePlaceStep == IInv /\ [Next]_vars => OnePlace'
<1> SUFFICES ASSUME IInv, [Next]_vars PROVE OnePlace'
  OBVIOUS
<1> USE BudgetAssumption
<1>0. TypeOK /\ OnePlace
  BY DEF IInv
<1>a. /\ line \in Seq(Waiter) /\ Len(line) \in Nat /\ held \in [Clients -> Nat]
      /\ \A i \in 1 .. Len(line) : line[i] \in Waiter
  BY <1>0, ElementOfSeq, LenProperties DEF TypeOK
<1>b. \A i \in 1 .. Len(line) : line[i].client \in Clients
  BY <1>a DEF Waiter
<1>1. ASSUME NEW c \in Clients, NEW bytes \in Sizes, TryReserve(c, bytes) PROVE OnePlace'
  BY <1>0, <1>1, <1>a, <1>b DEF OnePlace, TryReserve, Idle, Waits
<1>2. ASSUME NEW c \in Clients, NEW bytes \in Sizes, WhenRoom(c, bytes) PROVE OnePlace'
  <2> DEFINE w == [client |-> c, bytes |-> bytes]
  <2>1. w \in Waiter
    BY DEF Waiter
  <2>2. /\ Len(line') = Len(line) + 1 /\ line'[Len(line) + 1] = w
        /\ \A i \in 1 .. Len(line) : line'[i] = line[i]
    BY <1>2, <1>a, <2>1, AppendProperties DEF WhenRoom
  <2>3. held' = held /\ held[c] = 0 /\ \A i \in 1 .. Len(line) : line[i].client # c
    BY <1>2 DEF WhenRoom, Idle, Waits
  <2> QED
    BY <1>0, <1>a, <2>2, <2>3 DEF OnePlace
<1>3. ASSUME NEW c \in Clients, NEW bytes \in Copies, Grow(c, bytes) PROVE OnePlace'
  BY <1>0, <1>3, <1>a, <1>b DEF OnePlace, Grow
<1>4. ASSUME NEW c \in Clients, NEW bytes \in Copies, GiveBackAndWaitInFront(c, bytes) PROVE OnePlace'
  <2> DEFINE w == [client |-> c, bytes |-> held[c] + bytes]
  <2>0. w \in Waiter
    <3>1. bytes \in Nat /\ held[c] \in Nat /\ held[c] + bytes \in Nat
      BY <1>a
    <3> QED
      BY <3>1 DEF Waiter
  <2>1. <<w>> \in Seq(Waiter) /\ Len(<<w>>) = 1 /\ <<w>>[1] = w
    <3> HIDE DEF w
    <3> QED
      BY <2>0
  <2>2. /\ Len(line') = 1 + Len(line) /\ line'[1] = w
        /\ \A i \in 2 .. 1 + Len(line) : line'[i] = line[i - 1]
    BY <1>4, <1>a, <2>1, ConcatProperties DEF GiveBackAndWaitInFront
  <2>3. held' = [held EXCEPT ![c] = 0] /\ \A i \in 1 .. Len(line) : line[i].client # c
    BY <1>0, <1>4 DEF OnePlace, GiveBackAndWaitInFront
  <2> QED
    <3>1. ASSUME NEW i \in 1 .. Len(line') PROVE held'[line'[i].client] = 0
      <4>1. CASE i = 1
        BY <1>a, <2>2, <2>3, <4>1
      <4>2. CASE i # 1
        <5>1. i - 1 \in 1 .. Len(line) /\ line'[i] = line[i - 1]
          BY <1>a, <2>2, <4>2
        <5> QED
          BY <1>0, <1>a, <1>b, <2>3, <5>1 DEF OnePlace
      <4> QED
        BY <4>1, <4>2
    <3>2. ASSUME NEW i \in 1 .. Len(line'), NEW j \in 1 .. Len(line'), line'[i].client = line'[j].client
          PROVE  i = j
      <4>1. /\ i # 1 => i - 1 \in 1 .. Len(line) /\ line'[i] = line[i - 1]
            /\ j # 1 => j - 1 \in 1 .. Len(line) /\ line'[j] = line[j - 1]
        BY <1>a, <2>2
      <4>2. w.client = c
        OBVIOUS
      <4>3. i # 1 /\ j # 1 => i - 1 = j - 1
        BY <1>0, <3>2, <4>1 DEF OnePlace
      <4>4. (i = 1) <=> (j = 1)
        BY <2>2, <2>3, <3>2, <4>1, <4>2
      <4> QED
        BY <1>a, <2>2, <4>3, <4>4
    <3> QED
      BY <3>1, <3>2 DEF OnePlace
<1>5. ASSUME NEW c \in Clients, Release(c) PROVE OnePlace'
  BY <1>0, <1>5, <1>a, <1>b DEF OnePlace, Release
<1>6. ASSUME NEW c \in Clients, Leave(c) PROVE OnePlace'
  <2>1. PICK i \in 1 .. Len(line) : line' = Without(line, i) /\ held' = held
    BY <1>6 DEF Leave
  <2>2. /\ Len(line') = Len(line) - 1
        /\ \A k \in 1 .. Len(line) - 1 : line'[k] = IF k < i THEN line[k] ELSE line[k + 1]
    BY <1>a, <2>1, WithoutProperties
  <2> DEFINE old(k) == IF k < i THEN k ELSE k + 1
  <2>3. \A k \in 1 .. Len(line') : old(k) \in 1 .. Len(line) /\ line'[k] = line[old(k)]
    BY <1>a, <2>2
  <2>4. \A j, k \in 1 .. Len(line') : old(j) = old(k) => j = k
    BY <1>a, <2>2
  <2> HIDE DEF old
  <2> QED
    BY <1>0, <2>1, <2>3, <2>4 DEF OnePlace
<1>7. ASSUME line # <<>>, GrantHead PROVE OnePlace'
  <2>1. /\ Len(line') = Len(line) - 1
        /\ \A k \in 1 .. Len(line) - 1 : line'[k] = line[k + 1]
    BY <1>7, <1>a, HeadTailProperties DEF GrantHead
  <2>2. 1 \in 1 .. Len(line) /\ Head(line) = line[1]
    BY <1>7, <1>a
  <2>3. \A k \in 1 .. Len(line) - 1 : line'[k].client # Head(line).client
    BY <1>0, <1>a, <2>1, <2>2 DEF OnePlace
  <2> QED
    BY <1>0, <1>7, <1>a, <1>b, <2>1, <2>2, <2>3 DEF OnePlace, GrantHead
<1>8. ASSUME Drain PROVE OnePlace'
  BY <1>0, <1>7, <1>8
     DEF OnePlace, Drain, DrainNow, DrainPosted, DrainNext, DrainEnd, HeadFits
<1>9. CASE Destroy
  BY <1>9 DEF OnePlace, Destroy
<1>10. CASE UNCHANGED vars
  BY <1>0, <1>10 DEF OnePlace, vars
<1> QED
  BY <1>1, <1>2, <1>3, <1>4, <1>5, <1>6, <1>8, <1>9, <1>10 DEF Next, ClientStep

-----------------------------------------------------------------------------
(* The counter, and the run-alone rule. *)

(* Room comes in where fits allows it. *)
LEMMA RoomTaken ==
  ASSUME IInv, NEW c \in Clients, held[c] = 0, NEW bytes \in Nat, FitsBeside(reserved, bytes),
         reserved' = reserved + bytes, held' = [held EXCEPT ![c] = bytes]
  PROVE  Accounting' /\ AloneBeyond'
<1>1. held \in [Clients -> Nat] /\ reserved \in Nat /\ Capacity \in Nat
  BY BudgetAssumption DEF IInv, TypeOK
<1>2. IsFiniteSet(Units(held)) /\ reserved = Total(held)
  BY DEF IInv, Accounting
<1>3. IsFiniteSet(Units(held')) /\ Total(held') = Total(held) - held[c] + bytes
  BY <1>1, <1>2, UnitsChange
<1>4. Accounting'
  BY <1>1, <1>2, <1>3 DEF Accounting
<1>5. AloneBeyond'
  <2>1. reserved = 0 \/ reserved + bytes <= Capacity
    BY <1>1 DEF FitsBeside
  <2>2. held'[c] = bytes
    BY <1>1
  <2> QED
    BY <1>1, <2>1, <2>2 DEF AloneBeyond
<1> QED
  BY <1>4, <1>5

(* Room goes back. *)
LEMMA RoomReturned ==
  ASSUME IInv, NEW c \in Clients, held[c] > 0,
         reserved' = reserved - held[c], held' = [held EXCEPT ![c] = 0]
  PROVE  Accounting' /\ AloneBeyond'
<1>1. held \in [Clients -> Nat] /\ reserved \in Nat /\ Capacity \in Nat
  BY BudgetAssumption DEF IInv, TypeOK
<1>2. IsFiniteSet(Units(held)) /\ reserved = Total(held)
  BY DEF IInv, Accounting
<1>3. IsFiniteSet(Units(held')) /\ Total(held') = Total(held) - held[c] + 0
  BY <1>1, <1>2, UnitsChange
<1>4. Accounting'
  BY <1>1, <1>2, <1>3 DEF Accounting
<1>5. AloneBeyond'
  <2> SUFFICES ASSUME reserved' > Capacity PROVE FALSE
    BY DEF AloneBeyond
  <2>1. PICK d \in Clients : reserved = held[d]
    BY <1>1 DEF IInv, AloneBeyond
  <2>2. c # d
    BY <1>1, <2>1
  <2>3. held[c] = 0
    BY <1>1, <1>2, <2>1, <2>2, AloneHoldsAll
  <2> QED
    BY <2>3
<1> QED
  BY <1>4, <1>5

(* A run grows where grow allows it. *)
LEMMA RoomGrown ==
  ASSUME IInv, NEW c \in Clients, held[c] > 0, NEW bytes \in Nat, CanGrow(c, bytes),
         reserved' = reserved + bytes, held' = [held EXCEPT ![c] = held[c] + bytes]
  PROVE  Accounting' /\ AloneBeyond'
<1>1. held \in [Clients -> Nat] /\ reserved \in Nat /\ Capacity \in Nat
  BY BudgetAssumption DEF IInv, TypeOK
<1>2. IsFiniteSet(Units(held)) /\ reserved = Total(held)
  BY DEF IInv, Accounting
<1>3. IsFiniteSet(Units(held')) /\ Total(held') = Total(held) - held[c] + (held[c] + bytes)
  <2> DEFINE n == held[c] + bytes
  <2>1. n \in Nat /\ held' = [held EXCEPT ![c] = n]
    BY <1>1
  <2> HIDE DEF n
  <2>2. IsFiniteSet(Units(held')) /\ Total(held') = Total(held) - held[c] + n
    <3>1. held \in [Clients -> Nat] /\ IsFiniteSet(Units(held))
      BY <1>1, <1>2
    <3>2. /\ IsFiniteSet(Units([held EXCEPT ![c] = n]))
          /\ Total([held EXCEPT ![c] = n]) = Total(held) - held[c] + n
      BY <2>1, <3>1, UnitsChange, Zenon
    <3> QED
      BY <2>1, <3>2
  <2> QED
    BY <2>2 DEF n
<1>4. Accounting'
  BY <1>1, <1>2, <1>3 DEF Accounting
<1>5. AloneBeyond'
  <2>1. held[c] <= reserved
    BY HeldIsReserved
  <2>2. reserved = held[c] \/ reserved + bytes <= Capacity
    BY <1>1, <2>1 DEF CanGrow, FitsBeside
  <2>3. held'[c] = held[c] + bytes
    BY <1>1
  <2> QED
    BY <1>1, <2>2, <2>3 DEF AloneBeyond
<1> QED
  BY <1>4, <1>5

LEMMA HeadHoldsNothing ==
  ASSUME IInv, line # <<>>
  PROVE  /\ Head(line).client \in Clients /\ Head(line).bytes \in Nat
         /\ held[Head(line).client] = 0
<1>1. line \in Seq(Waiter) /\ 1 \in 1 .. Len(line) /\ Head(line) = line[1] /\ Head(line) \in Waiter
  BY HeadTailProperties DEF IInv, TypeOK
<1> QED
  BY <1>1 DEF IInv, OnePlace, Waiter

LEMMA AccountingStep == IInv /\ [Next]_vars => Accounting' /\ AloneBeyond'
<1> SUFFICES ASSUME IInv, [Next]_vars PROVE Accounting' /\ AloneBeyond'
  OBVIOUS
<1>0. ASSUME UNCHANGED <<reserved, held>> PROVE Accounting' /\ AloneBeyond'
  BY <1>0 DEF IInv, Accounting, AloneBeyond, Units, Total
<1>1. ASSUME NEW c \in Clients, NEW bytes \in Sizes, TryReserve(c, bytes) PROVE Accounting' /\ AloneBeyond'
  BY <1>1, BudgetAssumption, RoomTaken DEF TryReserve, Idle
<1>2. ASSUME NEW c \in Clients, NEW bytes \in Copies, Grow(c, bytes) PROVE Accounting' /\ AloneBeyond'
  BY <1>2, BudgetAssumption, RoomGrown DEF Grow
<1>3. ASSUME NEW c \in Clients, NEW bytes \in Copies, GiveBackAndWaitInFront(c, bytes)
      PROVE  Accounting' /\ AloneBeyond'
  BY <1>3, RoomReturned DEF GiveBackAndWaitInFront
<1>4. ASSUME NEW c \in Clients, Release(c) PROVE Accounting' /\ AloneBeyond'
  BY <1>4, RoomReturned DEF Release
<1>5. ASSUME HeadFits(reserved, line), GrantHead PROVE Accounting' /\ AloneBeyond'
  BY <1>5, HeadHoldsNothing, RoomTaken DEF HeadFits, GrantHead
<1>6. ASSUME NEW c \in Clients, NEW bytes \in Sizes, WhenRoom(c, bytes) PROVE Accounting' /\ AloneBeyond'
  BY <1>0, <1>6 DEF WhenRoom
<1>7. ASSUME NEW c \in Clients, Leave(c) PROVE Accounting' /\ AloneBeyond'
  BY <1>0, <1>7 DEF Leave
<1>8. ASSUME Drain PROVE Accounting' /\ AloneBeyond'
  BY <1>0, <1>5, <1>8 DEF Drain, DrainNow, DrainPosted, DrainNext, DrainEnd
<1>9. CASE Destroy
  BY <1>0, <1>9 DEF Destroy
<1>10. CASE UNCHANGED vars
  BY <1>0, <1>10 DEF vars
<1> QED
  BY <1>1, <1>2, <1>3, <1>4, <1>6, <1>7, <1>8, <1>9, <1>10 DEF Next, ClientStep

-----------------------------------------------------------------------------
(* The wake-up. *)

LEMMA NoStalledLineStep == IInv /\ [Next]_vars => NoStalledLine'
<1> SUFFICES ASSUME IInv, [Next]_vars PROVE NoStalledLine'
  OBVIOUS
<1>a. TypeOK /\ NoStalledLine /\ line \in Seq(Waiter)
  BY DEF IInv, TypeOK
<1>1. ASSUME NEW c \in Clients, NEW bytes \in Sizes, TryReserve(c, bytes) PROVE NoStalledLine'
  BY <1>1 DEF NoStalledLine, TryReserve, HeadFits
<1>2. ASSUME NEW c \in Clients, NEW bytes \in Sizes, WhenRoom(c, bytes) PROVE NoStalledLine'
  BY <1>2 DEF NoStalledLine, WhenRoom, PostDrain
<1>3. ASSUME NEW c \in Clients, NEW bytes \in Copies, Grow(c, bytes) PROVE NoStalledLine'
  <2>1. reserved' >= reserved /\ reserved' \in Nat /\ reserved \in Nat /\ reserved > 0 /\ Capacity \in Nat
    BY <1>3, <1>a, BudgetAssumption, HeldIsReserved DEF Grow, TypeOK
  <2>2. line # <<>> => Head(line).bytes \in Nat
    BY HeadHoldsNothing
  <2>3. HeadFits(reserved', line) => HeadFits(reserved, line)
    BY <2>1, <2>2 DEF HeadFits, FitsBeside
  <2> QED
    BY <1>3, <1>a, <2>3 DEF NoStalledLine, Grow
<1>4. ASSUME NEW c \in Clients, NEW bytes \in Copies, GiveBackAndWaitInFront(c, bytes) PROVE NoStalledLine'
  BY <1>4 DEF NoStalledLine, GiveBackAndWaitInFront
<1>5. ASSUME NEW c \in Clients, Release(c) PROVE NoStalledLine'
  BY <1>5 DEF NoStalledLine, Release, PostDrain
<1>6. ASSUME NEW c \in Clients, Leave(c) PROVE NoStalledLine'
  <2>1. reserved' = reserved /\ PostDrain(reserved, line') /\ draining' = draining
    BY <1>6 DEF Leave
  <2> QED
    BY <2>1 DEF NoStalledLine, PostDrain, HeadFits, FitsBeside
<1>b. ASSUME reserved' = reserved, line' = line PROVE HeadFits(reserved, line)' <=> HeadFits(reserved, line)
  BY <1>b DEF HeadFits, FitsBeside
<1>7. ASSUME Drain PROVE NoStalledLine'
  <2>1. CASE draining'
    BY <2>1 DEF NoStalledLine
  <2>2. CASE ~draining'
    <3>1. ~HeadFits(reserved, line) /\ UNCHANGED <<reserved, line>>
      BY <1>7, <2>2, <1>a DEF TypeOK, Drain, DrainNow, DrainPosted, DrainNext, DrainEnd
    <3> QED
      BY <1>b, <3>1 DEF NoStalledLine
  <2> QED
    BY <2>1, <2>2
<1>8. CASE Destroy
  BY <1>8 DEF NoStalledLine, Destroy
<1>9. CASE UNCHANGED vars
  BY <1>9, <1>a, <1>b DEF NoStalledLine, vars
<1> QED
  BY <1>1, <1>2, <1>3, <1>4, <1>5, <1>6, <1>7, <1>8, <1>9 DEF Next, ClientStep

-----------------------------------------------------------------------------
(* The invariant holds in every behaviour. *)

LEMMA IInvInit == Init => IInv
<1> SUFFICES ASSUME Init PROVE IInv
  OBVIOUS
<1> USE BudgetAssumption DEF Init
<1>1. TypeOK
  BY EmptySeq DEF TypeOK
<1>2. Units(held) = {}
  BY DEF Units
<1>3. Accounting
  BY <1>2, FS_EmptySet DEF Accounting, Total
<1> QED
  BY <1>1, <1>3 DEF IInv, AloneBeyond, OnePlace, NoStalledLine, HeadFits

THEOREM Invariance == Spec => []IInv
<1>1. IInv /\ [Next]_vars => IInv'
  BY TypeStep, OnePlaceStep, AccountingStep, NoStalledLineStep DEF IInv
<1> QED
  BY <1>1, IInvInit, PTL DEF Spec

(* Every variable keeps its type: the counter in particular never wraps     *)
(* below zero, whatever order releases, grants and growths come in.         *)
THEOREM TypeCorrect == Spec => []TypeOK
<1>1. IInv => TypeOK
  BY DEF IInv
<1> QED
  BY <1>1, Invariance, PTL

(* The runs in flight hold more than the capacity only when one run holds   *)
(* it all (InFlightBudget::fits and Reservation::grow).                     *)
THEOREM Overcommit == Spec => []NoOvercommit
<1>1. IInv => NoOvercommit
  BY DEF IInv, NoOvercommit, AloneBeyond, Accounting
<1> QED
  BY <1>1, Invariance, PTL

(* Outside a drain, a head that fits always has a drain posted (postDrain). *)
THEOREM NoLostWakeUp == Spec => []NoStalledLine
<1>1. IInv => NoStalledLine
  BY DEF IInv
<1> QED
  BY <1>1, Invariance, PTL

(* Nobody gets room past a waiter ahead of him (tryReserve, drain, grow).   *)
THEOREM Order == Spec => ServedInOrder
<1> DEFINE Granted(c) == held[c] = 0 /\ held'[c] > 0 => line = <<>> \/ Head(line).client = c
<1>1. ASSUME IInv, [Next]_vars PROVE [\A c \in Clients : Granted(c)]_vars
  <2> SUFFICES ASSUME Next, NEW d \in Clients, held[d] = 0, held'[d] > 0, line # <<>>
               PROVE  Head(line).client = d
    BY <1>1
  <2>0. held \in [Clients -> Nat]
    BY <1>1 DEF IInv, TypeOK
  <2>1. ASSUME UNCHANGED held PROVE FALSE
    BY <2>0, <2>1
  <2>2. ASSUME NEW c \in Clients, NEW n, c # d, held' = [held EXCEPT ![c] = n] PROVE FALSE
    BY <2>0, <2>2
  <2>3. ASSUME NEW c \in Clients, ClientStep(c) PROVE FALSE
    <3>1. /\ \A bytes : ~TryReserve(c, bytes)
          /\ ~Release(d)
      BY <2>0 DEF TryReserve, Release
    <3>2. ASSUME NEW bytes \in Copies, Grow(c, bytes) PROVE FALSE
      BY <2>0, <2>2, <3>2 DEF Grow
    <3>3. ASSUME NEW bytes \in Copies, GiveBackAndWaitInFront(c, bytes) PROVE FALSE
      BY <2>0, <2>2, <3>3 DEF GiveBackAndWaitInFront
    <3>4. ASSUME Release(c) PROVE FALSE
      BY <2>0, <2>2, <3>1, <3>4 DEF Release
    <3>5. ASSUME NEW bytes \in Sizes, WhenRoom(c, bytes) PROVE FALSE
      BY <2>1, <3>5 DEF WhenRoom
    <3>6. ASSUME Leave(c) PROVE FALSE
      BY <2>1, <3>6 DEF Leave
    <3> QED
      BY <2>3, <3>1, <3>2, <3>3, <3>4, <3>5, <3>6 DEF ClientStep
  <2>4. ASSUME GrantHead PROVE Head(line).client = d
    BY <1>1, <2>2, <2>4, HeadHoldsNothing DEF GrantHead
  <2>5. ASSUME Drain PROVE Head(line).client = d
    BY <2>1, <2>4, <2>5 DEF Drain, DrainNow, DrainPosted, DrainNext, DrainEnd
  <2>6. ASSUME Destroy PROVE FALSE
    BY <2>1, <2>6 DEF Destroy
  <2> QED
    BY <2>3, <2>5, <2>6 DEF Next
<1> QED
  BY <1>1, Invariance, PTL DEF Spec, ServedInOrder

-----------------------------------------------------------------------------
(* The budget implements the line it promises. *)

LEMMA FitsIsAdmissible ==
  ASSUME IInv, NEW b \in Nat, FitsBeside(reserved, b)
  PROVE  Promise!Admissible(held, b)
<1>1. reserved \in Nat /\ Capacity \in Nat /\ reserved = Total(held)
  BY BudgetAssumption DEF IInv, TypeOK, Accounting
<1> QED
  BY <1>1 DEF FitsBeside, Promise!Admissible

LEMMA StepSimulation == IInv /\ [Next]_vars => [Promise!Next]_(Promise!vars)
<1> SUFFICES ASSUME IInv, [Next]_vars PROVE Promise!Next \/ UNCHANGED Promise!vars
  OBVIOUS
<1> USE BudgetAssumption DEF Promise!Next
<1>a. reserved = Total(held)
  BY DEF IInv, Accounting
<1>1. ASSUME NEW c \in Clients, NEW bytes \in Sizes, TryReserve(c, bytes) PROVE Promise!Next
  BY <1>1, FitsIsAdmissible DEF TryReserve, Idle, Promise!Start
<1>2. ASSUME NEW c \in Clients, NEW bytes \in Sizes, WhenRoom(c, bytes) PROVE Promise!Next
  BY <1>2 DEF WhenRoom, Idle, Waits, Promise!Join, Promise!Waits
<1>3. ASSUME NEW c \in Clients, NEW bytes \in Copies, Grow(c, bytes) PROVE Promise!Next
  BY <1>3, <1>a, FitsIsAdmissible DEF Grow, CanGrow, Promise!Enlarge
<1>4. ASSUME NEW c \in Clients, NEW bytes \in Copies, GiveBackAndWaitInFront(c, bytes) PROVE Promise!Next
  BY <1>4 DEF GiveBackAndWaitInFront, Promise!StepBack
<1>5. ASSUME NEW c \in Clients, Release(c) PROVE Promise!Next
  BY <1>5 DEF Release, Promise!Finish
<1>6. ASSUME NEW c \in Clients, Leave(c) PROVE Promise!Next
  BY <1>6 DEF Leave, Without, Promise!GiveUp
<1>7. ASSUME HeadFits(reserved, line), GrantHead PROVE Promise!Next
  BY <1>7, HeadHoldsNothing, FitsIsAdmissible DEF HeadFits, GrantHead, Promise!Serve
<1>8. ASSUME Drain PROVE Promise!Next \/ UNCHANGED Promise!vars
  BY <1>7, <1>8 DEF Drain, DrainNow, DrainPosted, DrainNext, DrainEnd, Promise!vars
<1>9. CASE Destroy
  BY <1>9 DEF Destroy, Promise!Close
<1>10. CASE UNCHANGED vars
  BY <1>10 DEF vars, Promise!vars
<1> QED
  BY <1>1, <1>2, <1>3, <1>4, <1>5, <1>6, <1>8, <1>9, <1>10 DEF Next, ClientStep

(* Every behaviour of the budget is one of the promised line: the drains and *)
(* the counter only stutter or admit as the line allows.                     *)
THEOREM Refinement == Spec => Promise!Spec
<1>1. Init => Promise!Init
  BY DEF Init, Promise!Init
<1> QED
  BY <1>1, StepSimulation, Invariance, PTL DEF Spec, Promise!Spec
=============================================================================
