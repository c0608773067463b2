---------------------------- MODULE IngestProofs ----------------------------
(* Proofs about the three parts an ingest goes through, which share no state:  *)
(* the session's registry of ingests with the controller that shows them       *)
(* (IngestRegistry), a toolbox plugin's import (ToolboxIngest), and the tracker *)
(* of the topics a stream must deliver (TopicDemand).                          *)
EXTENDS IngestRegistry, ToolboxIngest, TopicDemand, TLAPS, SequenceTheorems

-------------------------------------------------------------------------------
(* Proofs about IngestRegistry for any number of ingests and of reactions, and *)
(* observers that call back from any of the three signals; RowsTrue alone asks *)
(* that none does from inside a began.                                         *)
(*                                                                            *)
(* EndsOnce is not inductive: a cancel handler that is still on the agenda     *)
(* will run, whatever happens to the entry before it does.  Told says it is    *)
(* the only one for its ingest, that none has run yet, and that the entry, if  *)
(* it still lives, is stopping, so that no second one joins it.  RowsShowLive  *)
(* speaks of idle moments only: RInv says what is still owed at the others.    *)

Owed(id) == \E i \in 1..Len(agenda) : agenda[i] = Handler(id)

OneOwed ==
  \A id \in Ids : \A i, j \in 1..Len(agenda) :
    agenda[i] = Handler(id) /\ agenda[j] = Handler(id) => i = j

Told ==
  \A id \in Ids :
    /\ handled[id] \in {0, 1}
    /\ handled[id] = 1 => ~Owed(id)
    /\ handled[id] = 1 \/ Owed(id) => id < nextId /\ (Live(id) => live.stopping)

Ended ==
  /\ live # NoEntry => live.id < nextId
  /\ \A id \in Ids : ends[id] = IF id < nextId /\ ~Live(id) THEN 1 ELSE 0

IInv == TypeOK /\ OneOwed /\ Told /\ Ended

-------------------------------------------------------------------------------
(* What the agenda holds after a call. *)

LEMMA Following ==
  ASSUME TypeOK, NEW made \in Seq(Chore), Then(made)
  PROVE  /\ agenda' \in Seq(Chore) /\ Len(agenda) \in Nat /\ Len(made) \in Nat
         /\ \A i \in 1..Len(agenda') :
              \/ i \in 1..Len(made) /\ agenda'[i] = made[i]
              \/ i - Len(made) + 1 \in 2..Len(agenda) /\ agenda'[i] = agenda[i - Len(made) + 1]
<1> DEFINE rest == IF Idle THEN <<>> ELSE Tail(agenda)
<1>1. agenda' = made \o rest
  BY DEF Then
<1>2. agenda \in Seq(Chore) /\ Len(agenda) \in Nat /\ Len(made) \in Nat
  BY DEF TypeOK
<1>3. /\ rest \in Seq(Chore) /\ Len(rest) \in Nat
      /\ \A i \in 1..Len(rest) : i + 1 \in 2..Len(agenda) /\ rest[i] = agenda[i + 1]
  <2>1. CASE Idle
    <3>1. rest = <<>> /\ <<>> \in Seq(Chore) /\ Len(<<>>) = 0
      BY <2>1
    <3> HIDE DEF rest
    <3> QED BY <3>1
  <2>2. CASE ~Idle
    <3>1. rest = Tail(agenda) /\ agenda # <<>>
      BY <2>2 DEF Idle
    <3>2. /\ Tail(agenda) \in Seq(Chore) /\ Len(Tail(agenda)) = Len(agenda) - 1
          /\ \A i \in 1..Len(Tail(agenda)) : Tail(agenda)[i] = agenda[i + 1]
      BY <1>2, <3>1, HeadTailProperties
    <3>3. Len(agenda) >= 1
      BY <1>2, <3>1
    <3> HIDE DEF rest
    <3> QED BY <1>2, <3>1, <3>2, <3>3
  <2> QED BY <2>1, <2>2
<1> HIDE DEF rest
<1>4. /\ made \o rest \in Seq(Chore) /\ Len(made \o rest) = Len(made) + Len(rest)
      /\ \A i \in 1..Len(made) + Len(rest) :
           (made \o rest)[i] = IF i <= Len(made) THEN made[i] ELSE rest[i - Len(made)]
  BY <1>3, ConcatProperties
<1>5. ASSUME NEW i \in 1..Len(agenda'), i \in 1..Len(made) PROVE agenda'[i] = made[i]
  BY <1>1, <1>2, <1>3, <1>4, <1>5
<1>6. ASSUME NEW i \in 1..Len(agenda'), i \notin 1..Len(made)
      PROVE  i - Len(made) + 1 \in 2..Len(agenda) /\ agenda'[i] = agenda[i - Len(made) + 1]
  <2>1. i - Len(made) \in 1..Len(rest) /\ agenda'[i] = rest[i - Len(made)]
    BY <1>1, <1>2, <1>3, <1>4, <1>6
  <2> QED BY <1>3, <2>1
<1> QED BY <1>1, <1>2, <1>4, <1>5, <1>6

(* A call that adds no handler leaves those that are owed, but the one at the *)
(* head, which it runs.                                                       *)
LEMMA Quiet ==
  ASSUME TypeOK, OneOwed, NEW made \in Seq(Chore), Then(made),
         \A i \in 1..Len(made) : made[i].call # "handler"
  PROVE  /\ agenda' \in Seq(Chore)
         /\ OneOwed'
         /\ \A id \in Ids : Owed(id)' => Owed(id) /\ ~(agenda # <<>> /\ Head(agenda) = Handler(id))
<1>1. /\ agenda' \in Seq(Chore) /\ Len(agenda) \in Nat /\ Len(made) \in Nat
      /\ \A i \in 1..Len(agenda') :
           \/ i \in 1..Len(made) /\ agenda'[i] = made[i]
           \/ i - Len(made) + 1 \in 2..Len(agenda) /\ agenda'[i] = agenda[i - Len(made) + 1]
  BY Following
<1>2. ASSUME NEW id \in Ids, NEW i \in 1..Len(agenda'), agenda'[i] = Handler(id)
      PROVE  i - Len(made) + 1 \in 2..Len(agenda) /\ agenda[i - Len(made) + 1] = Handler(id)
  <2>1. Handler(id).call = "handler"
    BY DEF Handler
  <2> QED BY <1>1, <1>2, <2>1
<1>3. ASSUME NEW id \in Ids, NEW i \in 1..Len(agenda'), NEW j \in 1..Len(agenda'),
             agenda'[i] = Handler(id), agenda'[j] = Handler(id)
      PROVE  i = j
  <2>1. /\ i - Len(made) + 1 \in 1..Len(agenda) /\ agenda[i - Len(made) + 1] = Handler(id)
        /\ j - Len(made) + 1 \in 1..Len(agenda) /\ agenda[j - Len(made) + 1] = Handler(id)
    <3>1. 2..Len(agenda) \subseteq 1..Len(agenda)
      BY <1>1
    <3>2. i - Len(made) + 1 \in 2..Len(agenda) /\ agenda[i - Len(made) + 1] = Handler(id)
      BY <1>2, <1>3
    <3>3. j - Len(made) + 1 \in 2..Len(agenda) /\ agenda[j - Len(made) + 1] = Handler(id)
      BY <1>2, <1>3
    <3> QED BY <3>1, <3>2, <3>3
  <2>2. i - Len(made) + 1 = j - Len(made) + 1
    BY <2>1 DEF OneOwed
  <2> QED BY <1>1, <2>2
<1>4. ASSUME NEW id \in Ids, Owed(id)'
      PROVE  Owed(id) /\ ~(agenda # <<>> /\ Head(agenda) = Handler(id))
  <2>1. PICK i \in 2..Len(agenda) : agenda[i] = Handler(id)
    BY <1>2, <1>4 DEF Owed, Handler
  <2>2. i \in 1..Len(agenda) /\ 1 \in 1..Len(agenda) /\ i # 1
    BY <1>1, <2>1
  <2>3. Owed(id)
    BY <2>1, <2>2 DEF Owed
  <2>4. Head(agenda) # Handler(id) \/ agenda = <<>>
    BY <2>1, <2>2 DEF OneOwed
  <2> QED BY <2>3, <2>4
<1> QED BY <1>1, <1>3, <1>4 DEF OneOwed, Handler

(* An emission reaches two observers. *)
LEMMA Emission ==
  ASSUME TypeOK, NEW signal \in Signal, NEW id \in Ids, NEW outcome \in Outcome
  PROVE  /\ Emit(signal, id, outcome) \in Seq(Chore)
         /\ Len(Emit(signal, id, outcome)) = 2
         /\ \A i \in 1..2 : Emit(signal, id, outcome)[i].call = "deliver"
<1>1. Len(observers) = 2 /\ observers[1] \in {"reactor", "row"} /\ observers[2] \in {"reactor", "row"}
  BY DEF TypeOK, Orders
<1> DEFINE e(i) == [call |-> "deliver", to |-> observers[i], signal |-> signal, id |-> id, outcome |-> outcome]
<1>2. \A i \in 1..2 : e(i) \in Chore
  BY <1>1 DEF Chore
<1>3. Emit(signal, id, outcome) = [i \in 1..2 |-> e(i)]
  BY <1>1 DEF Emit
<1>4. Emit(signal, id, outcome) \in Seq(Chore) /\ Len(Emit(signal, id, outcome)) = 2
  BY <1>2, <1>3
<1> QED BY <1>3, <1>4

LEMMA Appended ==
  ASSUME NEW e \in Seq(Chore), Len(e) = 2, NEW c \in Chore
  PROVE  /\ e \o <<c>> \in Seq(Chore) /\ Len(e \o <<c>>) = 3
         /\ \A i \in 1..2 : (e \o <<c>>)[i] = e[i]
         /\ (e \o <<c>>)[3] = c
<1>1. <<c>> \in Seq(Chore) /\ Len(<<c>>) = 1 /\ <<c>>[1] = c
  OBVIOUS
<1>2. /\ e \o <<c>> \in Seq(Chore) /\ Len(e \o <<c>>) = Len(e) + Len(<<c>>)
      /\ \A i \in 1 .. Len(e) + Len(<<c>>) :
           (e \o <<c>>)[i] = IF i <= Len(e) THEN e[i] ELSE <<c>>[i - Len(e)]
  BY <1>1, ConcatProperties
<1> QED BY <1>1, <1>2

-------------------------------------------------------------------------------
(* The calls.  What each does to the entry decides what its ends count. *)

LEMMA Begins ==
  ASSUME IInv, Begin, UNCHANGED observers
  PROVE  IInv'
<1> USE DEF IInv
<1>1. /\ nextId \in Ids /\ nextId' = nextId + 1 /\ nextId \in Nat
      /\ nextId' \in 1..MaxIngests + 1
      /\ UNCHANGED <<observers, rows, handled>>
  BY RegistryAssumption DEF Begin, TypeOK, Ids
<1>2. live' \in Entry /\ live' # NoEntry /\ live'.id = nextId
  <2>1. live' \in Entry /\ live'.id = nextId
    BY <1>1 DEF Begin, Entry
  <2> QED BY <2>1, RegistryAssumption
<1>3. Announce(nextId) \in Chore /\ Announce(nextId).call # "handler"
  BY <1>1 DEF Announce, Chore
<1>4. \A id \in Ids : (Live(id))' <=> id = nextId
  BY <1>2 DEF Live
<1>5. CASE live = NoEntry
  <2>1. Then(<<Announce(nextId)>>) /\ ends' = ends
    BY <1>5 DEF Begin
  <2>2. /\ <<Announce(nextId)>> \in Seq(Chore)
        /\ \A i \in 1..Len(<<Announce(nextId)>>) : <<Announce(nextId)>>[i].call # "handler"
    BY <1>3
  <2>3. agenda' \in Seq(Chore) /\ OneOwed' /\ \A id \in Ids : Owed(id)' => Owed(id)
    BY <2>1, <2>2, Quiet
  <2>4. TypeOK'
    BY <1>1, <1>2, <2>1, <2>3 DEF TypeOK
  <2>5. Told'
    BY <1>1, <1>4, <2>3 DEF Told, Ids
  <2>6. Ended'
    BY <1>1, <1>2, <1>4, <1>5, <2>1 DEF Ended, Live, Ids
  <2> QED BY <2>3, <2>4, <2>5, <2>6
<1>6. CASE live # NoEntry
  <2> DEFINE e == Emit("ended", live.id, "cancelled")
  <2>1. Then(e \o <<Announce(nextId)>>) /\ CountEnd(live.id)
    BY <1>6 DEF Begin
  <2>2. live.id \in Ids /\ live.id < nextId
    BY <1>6 DEF TypeOK, Entry, Ended
  <2>3. e \in Seq(Chore) /\ Len(e) = 2 /\ \A i \in 1..2 : e[i].call = "deliver"
    BY <2>2, Emission DEF Signal, Outcome
  <2> HIDE DEF e
  <2>4. /\ e \o <<Announce(nextId)>> \in Seq(Chore)
        /\ \A i \in 1..Len(e \o <<Announce(nextId)>>) : (e \o <<Announce(nextId)>>)[i].call # "handler"
    <3>1. /\ e \o <<Announce(nextId)>> \in Seq(Chore) /\ Len(e \o <<Announce(nextId)>>) = 3
          /\ \A i \in 1..2 : (e \o <<Announce(nextId)>>)[i] = e[i]
          /\ (e \o <<Announce(nextId)>>)[3] = Announce(nextId)
      BY <1>3, <2>3, Appended
    <3>2. 1..3 = 1..2 \cup {3}
      OBVIOUS
    <3> QED BY <1>3, <2>3, <3>1, <3>2
  <2>5. agenda' \in Seq(Chore) /\ OneOwed' /\ \A id \in Ids : Owed(id)' => Owed(id)
    BY <2>1, <2>4, Quiet
  <2>6. ends' = [ends EXCEPT ![live.id] = @ + 1] /\ ends[live.id] = 0
    BY <1>6, <2>1, <2>2 DEF CountEnd, Ended, Live
  <2>7. TypeOK'
    <3>1. ends' \in [Ids -> Nat]
      BY <2>2, <2>6 DEF TypeOK
    <3> QED BY <1>1, <1>2, <2>5, <3>1 DEF TypeOK
  <2>8. Told'
    BY <1>1, <1>4, <2>5 DEF Told, Ids
  <2>9. ASSUME NEW id \in Ids PROVE ends'[id] = IF id < nextId' /\ ~(Live(id))' THEN 1 ELSE 0
    <3>1. ends'[id] = IF id = live.id THEN 1 ELSE ends[id]
      BY <2>2, <2>6 DEF TypeOK
    <3>2. Live(id) <=> id = live.id
      BY <1>6 DEF Live
    <3> QED BY <1>1, <1>4, <2>2, <3>1, <3>2 DEF Ended, Ids
  <2>10. Ended'
    BY <1>1, <1>2, <2>9 DEF Ended
  <2> QED BY <2>5, <2>7, <2>8, <2>10
<1> QED BY <1>5, <1>6

(* The end of the live ingest, by its producer or by the cancel handler. *)
LEMMA Ending ==
  ASSUME IInv, NEW id \in Ids, NEW outcome \in Outcome, Live(id), live' = NoEntry, CountEnd(id),
         Then(Emit("ended", id, outcome)), UNCHANGED <<observers, nextId, rows>>
  PROVE  /\ (handled' \in [Ids -> Nat] => TypeOK')
         /\ Ended' /\ OneOwed'
         /\ \A x \in Ids : (Owed(x)' => Owed(x) /\ ~(agenda # <<>> /\ Head(agenda) = Handler(x))) /\ ~(Live(x))'
<1> USE DEF IInv
<1>1. Emit("ended", id, outcome) \in Seq(Chore)
      /\ \A i \in 1..Len(Emit("ended", id, outcome)) : Emit("ended", id, outcome)[i].call # "handler"
  BY Emission DEF Signal
<1>2. agenda' \in Seq(Chore) /\ OneOwed'
      /\ \A x \in Ids : Owed(x)' => Owed(x) /\ ~(agenda # <<>> /\ Head(agenda) = Handler(x))
  BY <1>1, Quiet
<1>3. ends' = [ends EXCEPT ![id] = @ + 1] /\ ends' \in [Ids -> Nat]
  BY DEF CountEnd, TypeOK
<1>4. \A x \in Ids : ~(Live(x))'
  BY DEF Live
<1>5. ASSUME NEW x \in Ids PROVE ends'[x] = IF x < nextId' /\ ~(Live(x))' THEN 1 ELSE 0
  <2>1. ends'[x] = IF x = id THEN 1 ELSE ends[x]
    BY <1>3 DEF TypeOK, Ended
  <2>2. (Live(x) <=> x = id) /\ id < nextId
    BY DEF Live, Ended
  <2> QED BY <1>4, <2>1, <2>2 DEF Ended
<1>6. Ended'
  BY <1>5 DEF Ended
<1>7. (handled' \in [Ids -> Nat] => TypeOK')
  BY <1>2, <1>3 DEF TypeOK
<1> QED BY <1>2, <1>4, <1>6, <1>7

(* A call that leaves the entry and adds no handler. *)
LEMMA Passing ==
  ASSUME IInv, NEW made \in Seq(Chore), Then(made),
         \A i \in 1..Len(made) : made[i].call # "handler",
         rows' \subseteq Row, UNCHANGED <<observers, live, nextId, handled, ends>>
  PROVE  IInv'
<1> USE DEF IInv
<1>1. agenda' \in Seq(Chore) /\ OneOwed' /\ \A x \in Ids : Owed(x)' => Owed(x)
  BY Quiet
<1>2. \A x : (Live(x))' = Live(x)
  BY DEF Live
<1>3. TypeOK'
  BY <1>1 DEF TypeOK
<1>4. Told'
  BY <1>1, <1>2 DEF Told
<1>5. Ended'
  BY <1>2 DEF Ended
<1> QED BY <1>1, <1>3, <1>4, <1>5

LEMMA Nothing ==
  ASSUME IInv, Then(<<>>), rows' \subseteq Row, UNCHANGED <<observers, live, nextId, handled, ends>>
  PROVE  IInv'
<1>1. <<>> \in Seq(Chore) /\ \A i \in 1..Len(<<>>) : <<>>[i].call # "handler"
  OBVIOUS
<1> QED BY <1>1, Passing

LEMMA Ends ==
  ASSUME IInv, NEW id \in Ids, NEW outcome \in Outcome, End(id, outcome), UNCHANGED observers
  PROVE  IInv'
<1> USE DEF IInv
<1>1. UNCHANGED <<observers, nextId, rows, handled>>
  BY DEF End
<1>2. CASE Live(id)
  <2> DEFINE told == IF live.stopping THEN "cancelled" ELSE outcome
  <2>1. live' = NoEntry /\ CountEnd(id) /\ Then(Emit("ended", id, told))
    BY <1>2 DEF End
  <2>2. told \in Outcome
    BY DEF Outcome
  <2> HIDE DEF told
  <2>3. /\ (handled' \in [Ids -> Nat] => TypeOK')
        /\ Ended' /\ OneOwed'
        /\ \A x \in Ids : (Owed(x)' => Owed(x)) /\ ~(Live(x))'
    BY <1>1, <1>2, <2>1, <2>2, Ending
  <2>4. TypeOK'
    BY <1>1, <2>3 DEF TypeOK
  <2>5. Told'
    BY <1>1, <2>3 DEF Told
  <2> QED BY <2>3, <2>4, <2>5
<1>3. CASE ~Live(id)
  <2>1. Then(<<>>) /\ UNCHANGED <<live, ends>>
    BY <1>3 DEF End
  <2>2. rows' \subseteq Row
    BY <1>1 DEF TypeOK
  <2> QED BY <1>1, <2>1, <2>2, Nothing
<1> QED BY <1>2, <1>3

(* An accepted stop: its handler is the first one. *)
LEMMA Cancels ==
  ASSUME IInv, NEW id \in Ids, NEW keep \in BOOLEAN, Cancel(id, keep), UNCHANGED observers
  PROVE  IInv'
<1> USE DEF IInv
<1>1. UNCHANGED <<observers, nextId, rows, handled, ends>>
  BY DEF Cancel
<1>2. CASE Live(id) /\ live.cancellable /\ (keep \/ live.discardable) /\ ~live.stopping
  <2> DEFINE e == Emit("stopping", id, "unknown")
             made == e \o <<Handler(id)>>
  <2>1. live' = [live EXCEPT !.stopping = TRUE] /\ Then(made)
    BY <1>2 DEF Cancel
  <2>2. live \in Entry /\ live.id = id /\ id < nextId
    BY <1>2 DEF TypeOK, Live, Ended
  <2>3. live' \in Entry /\ live'.id = id /\ live'.stopping /\ live' # NoEntry
    BY <2>1, <2>2, RegistryAssumption DEF Entry
  <2>4. \A x : (Live(x))' = Live(x)
    BY <1>2, <2>2, <2>3 DEF Live
  <2>5. Handler(id) \in Chore /\ e \in Seq(Chore) /\ Len(e) = 2 /\ \A i \in 1..2 : e[i].call = "deliver"
    BY Emission DEF Signal, Outcome, Handler, Chore
  <2> HIDE DEF e
  <2>6. /\ made \in Seq(Chore) /\ Len(made) = 3 /\ made[3] = Handler(id)
        /\ \A i \in 1..2 : made[i].call = "deliver"
    <3>1. /\ e \o <<Handler(id)>> \in Seq(Chore) /\ Len(e \o <<Handler(id)>>) = 3
          /\ \A i \in 1..2 : (e \o <<Handler(id)>>)[i] = e[i]
          /\ (e \o <<Handler(id)>>)[3] = Handler(id)
      BY <2>5, Appended
    <3> QED BY <2>5, <3>1
  <2> HIDE DEF made
  <2>7. /\ agenda' \in Seq(Chore) /\ Len(agenda) \in Nat
        /\ \A i \in 1..Len(agenda') :
             \/ i \in 1..3 /\ agenda'[i] = made[i]
             \/ i - 3 + 1 \in 2..Len(agenda) /\ agenda'[i] = agenda[i - 3 + 1]
    BY <2>1, <2>6, Following
  <2>8. ~Owed(id) /\ handled[id] = 0
    BY <1>2 DEF Told
  <2>9. ASSUME NEW x \in Ids, NEW i \in 1..Len(agenda'), agenda'[i] = Handler(x)
        PROVE  \/ x = id /\ i = 3
               \/ x # id /\ i - 2 \in 1..Len(agenda) /\ agenda[i - 2] = Handler(x)
    <3>1. CASE i \in 1..3 /\ agenda'[i] = made[i]
      BY <2>6, <2>9, <3>1 DEF Handler
    <3>2. CASE i - 3 + 1 \in 2..Len(agenda) /\ agenda'[i] = agenda[i - 3 + 1]
      <4>1. i - 2 \in 1..Len(agenda) /\ agenda[i - 2] = Handler(x)
        BY <2>7, <2>9, <3>2
      <4>2. x # id
        BY <2>8, <4>1 DEF Owed
      <4> QED BY <4>1, <4>2
    <3> QED BY <2>7, <3>1, <3>2
  <2>10. OneOwed'
    <3>1. ASSUME NEW x \in Ids, NEW i \in 1..Len(agenda'), NEW j \in 1..Len(agenda'),
                 agenda'[i] = Handler(x), agenda'[j] = Handler(x)
          PROVE  i = j
      <4>1. CASE x = id
        BY <2>9, <3>1, <4>1
      <4>2. CASE x # id
        <5>1. /\ i - 2 \in 1..Len(agenda) /\ agenda[i - 2] = Handler(x)
              /\ j - 2 \in 1..Len(agenda) /\ agenda[j - 2] = Handler(x)
          BY <2>9, <3>1, <4>2
        <5>2. i - 2 = j - 2
          BY <5>1 DEF OneOwed
        <5> QED BY <2>7, <5>2
      <4> QED BY <4>1, <4>2
    <3> QED BY <3>1 DEF OneOwed, Handler
  <2>11. \A x \in Ids : Owed(x)' => x = id \/ Owed(x)
    BY <2>9 DEF Owed, Handler
  <2>12. TypeOK'
    BY <1>1, <2>3, <2>7 DEF TypeOK
  <2>13. Told'
    BY <1>1, <2>2, <2>3, <2>4, <2>8, <2>11 DEF Told
  <2>14. Ended'
    BY <1>1, <2>2, <2>3, <2>4 DEF Ended
  <2> QED BY <2>10, <2>12, <2>13, <2>14
<1>3. CASE ~(Live(id) /\ live.cancellable /\ (keep \/ live.discardable) /\ ~live.stopping)
  <2>1. Then(<<>>) /\ live' = live
    BY <1>3 DEF Cancel
  <2>2. rows' \subseteq Row
    BY <1>1 DEF TypeOK
  <2> QED BY <1>1, <2>1, <2>2, Nothing
<1> QED BY <1>2, <1>3

LEMMA Called ==
  ASSUME IInv, Call, UNCHANGED observers
  PROVE  IInv'
<1>1. \A id \in Known : id \in Ids
  BY RegistryAssumption DEF Known, Ids, IInv, TypeOK
<1>2. CASE Begin
  BY <1>2, Begins
<1>3. ASSUME NEW id \in Known, NEW outcome \in Outcome \ {"cancelled"}, End(id, outcome) PROVE IInv'
  BY <1>1, <1>3, Ends
<1>4. ASSUME NEW id \in Known, NEW keep \in BOOLEAN, Cancel(id, keep) PROVE IInv'
  BY <1>1, <1>4, Cancels
<1> QED BY <1>2, <1>3, <1>4 DEF Call

-------------------------------------------------------------------------------
(* The calls under way. *)

LEMMA Doings ==
  ASSUME TypeOK, ~Idle
  PROVE  agenda # <<>> /\ Head(agenda) \in Chore /\ 1 \in 1..Len(agenda) /\ agenda[1] = Head(agenda)
BY DEF Idle, TypeOK

LEMMA Announces ==
  ASSUME IInv, AnnounceBegan, UNCHANGED observers
  PROVE  IInv'
<1> DEFINE id == Head(agenda).id
<1>1. /\ UNCHANGED <<observers, live, nextId, rows, handled, ends>>
      /\ Doing("announce")
      /\ Then(IF Live(id) THEN Emit("began", id, "unknown") ELSE <<>>)
  BY DEF AnnounceBegan
<1>2. id \in Ids
  BY <1>1, Doings DEF Doing, Chore, IInv
<1> HIDE DEF id
<1>3. rows' \subseteq Row
  BY <1>1 DEF IInv, TypeOK
<1>4. CASE Live(id)
  <2>1. /\ Emit("began", id, "unknown") \in Seq(Chore)
        /\ \A i \in 1..Len(Emit("began", id, "unknown")) : Emit("began", id, "unknown")[i].call # "handler"
    BY <1>2, Emission DEF Signal, Outcome, IInv
  <2> QED BY <1>1, <1>3, <1>4, <2>1, Passing
<1>5. CASE ~Live(id)
  BY <1>1, <1>3, <1>5, Nothing
<1> QED BY <1>4, <1>5

LEMMA Handles ==
  ASSUME IInv, RunHandler, UNCHANGED observers
  PROVE  IInv'
<1> DEFINE id == Head(agenda).id
<1> USE DEF IInv
<1>1. /\ UNCHANGED <<observers, nextId, rows>> /\ Doing("handler")
      /\ handled' = [handled EXCEPT ![id] = @ + 1]
      /\ \/ Then(<<>>) /\ UNCHANGED <<live, ends>>
         \/ /\ Live(id) /\ live' = NoEntry /\ CountEnd(id)
            /\ Then(Emit("ended", id, IF live.stopping THEN "cancelled" ELSE "unknown"))
  BY DEF RunHandler
<1>2. id \in Ids /\ Head(agenda) = Handler(id) /\ agenda # <<>> /\ 1 \in 1..Len(agenda) /\ agenda[1] = Head(agenda)
  BY <1>1, Doings DEF Doing, Chore, Handler
<1> HIDE DEF id
<1>3. Owed(id)
  BY <1>2 DEF Owed
<1>4. handled[id] = 0 /\ id < nextId /\ (Live(id) => live.stopping)
  BY <1>2, <1>3 DEF Told
<1>5. handled' \in [Ids -> Nat] /\ handled'[id] = 1 /\ \A x \in Ids : x # id => handled'[x] = handled[x]
  BY <1>1, <1>2, <1>4 DEF TypeOK
<1>6. CASE Then(<<>>) /\ UNCHANGED <<live, ends>>
  <2>1. <<>> \in Seq(Chore) /\ \A i \in 1..Len(<<>>) : <<>>[i].call # "handler"
    OBVIOUS
  <2>2. /\ agenda' \in Seq(Chore) /\ OneOwed'
        /\ \A x \in Ids : Owed(x)' => Owed(x) /\ ~(agenda # <<>> /\ Head(agenda) = Handler(x))
    BY <1>6, <2>1, Quiet
  <2>3. \A x : (Live(x))' = Live(x)
    BY <1>6 DEF Live
  <2>4. TypeOK'
    BY <1>1, <1>5, <1>6, <2>2 DEF TypeOK
  <2>5. Told'
    <3>1. \A x \in Ids : x = id => ~Owed(x)'
      BY <1>2, <2>2
    <3> QED BY <1>1, <1>4, <1>5, <1>6, <2>2, <2>3, <3>1 DEF Told
  <2>6. Ended'
    BY <1>1, <1>6, <2>3 DEF Ended
  <2> QED BY <2>2, <2>4, <2>5, <2>6
<1>7. CASE /\ Live(id) /\ live' = NoEntry /\ CountEnd(id)
           /\ Then(Emit("ended", id, IF live.stopping THEN "cancelled" ELSE "unknown"))
  <2> DEFINE told == IF live.stopping THEN "cancelled" ELSE "unknown"
  <2>1. told \in Outcome /\ Then(Emit("ended", id, told))
    BY <1>7 DEF Outcome
  <2> HIDE DEF told
  <2>2. /\ (handled' \in [Ids -> Nat] => TypeOK')
        /\ Ended' /\ OneOwed'
        /\ \A x \in Ids : (Owed(x)' => Owed(x) /\ ~(agenda # <<>> /\ Head(agenda) = Handler(x))) /\ ~(Live(x))'
    BY <1>1, <1>2, <1>7, <2>1, Ending
  <2>3. Told'
    <3>1. \A x \in Ids : x = id => ~Owed(x)'
      BY <1>2, <2>2
    <3> QED BY <1>1, <1>4, <1>5, <2>2, <3>1 DEF Told
  <2> QED BY <1>5, <2>2, <2>3
<1> QED BY <1>1, <1>6, <1>7

LEMMA Reacts ==
  ASSUME IInv, ReactorHears, UNCHANGED observers
  PROVE  IInv'
<1>1. CASE Then(<<>>) /\ UNCHANGED <<live, nextId, rows, handled, ends, reactions>>
  <2>1. rows' \subseteq Row
    BY <1>1 DEF IInv, TypeOK
  <2> QED BY <1>1, <2>1, Nothing
<1>2. CASE Call
  BY <1>2, Called
<1> QED BY <1>1, <1>2 DEF ReactorHears

LEMMA Shows ==
  ASSUME IInv, RowBegan \/ RowStopping \/ RowEnded, UNCHANGED observers
  PROVE  IInv'
<1>1. /\ Then(<<>>) /\ UNCHANGED <<observers, live, nextId, handled, ends>>
      /\ Doing("deliver")
  BY DEF RowBegan, RowStopping, RowEnded, Hears
<1>2. Head(agenda).id \in Ids /\ rows \subseteq Row
  BY <1>1, Doings DEF Doing, Chore, IInv, TypeOK
<1>3. rows' \subseteq Row
  <2>1. CASE RowBegan
    BY <1>2, <2>1 DEF RowBegan, Row
  <2>2. CASE RowStopping
    BY <1>2, <2>2 DEF RowStopping, Row
  <2>3. CASE RowEnded
    BY <1>2, <2>3 DEF RowEnded, Row
  <2> QED BY <2>1, <2>2, <2>3
<1> QED BY <1>1, <1>3, Nothing

LEMMA Retires ==
  ASSUME IInv, RowRetires \/ UNCHANGED vars, UNCHANGED observers
  PROVE  IInv'
<1>1. UNCHANGED <<observers, live, nextId, agenda, handled, ends>> /\ (rows \subseteq Row => rows' \subseteq Row)
  BY DEF RowRetires, vars
<1>2. \A x : (Live(x))' = Live(x) /\ Owed(x)' = Owed(x)
  BY <1>1 DEF Live, Owed, Handler
<1>3. TypeOK'
  BY <1>1 DEF IInv, TypeOK
<1>4. OneOwed'
  BY <1>1 DEF IInv, OneOwed, Handler
<1>5. Told'
  BY <1>1, <1>2 DEF IInv, Told
<1>6. Ended'
  BY <1>1, <1>2 DEF IInv, Ended
<1> QED BY <1>3, <1>4, <1>5, <1>6 DEF IInv

-------------------------------------------------------------------------------
LEMMA Initially == Init => IInv
<1> SUFFICES ASSUME Init PROVE IInv
  OBVIOUS
<1>1. agenda = <<>> /\ Len(agenda) = 0 /\ live = NoEntry /\ nextId = 1
  BY DEF Init
<1>2. TypeOK
  <2>1. <<>> \in Seq(Chore)
    OBVIOUS
  <2> QED BY <2>1, RegistryAssumption DEF Init, TypeOK
<1>3. OneOwed /\ \A x : ~Owed(x)
  BY <1>1 DEF OneOwed, Owed
<1>4. Told
  BY <1>3 DEF Told, Init
<1>5. Ended
  BY RegistryAssumption DEF Ended, Init, Ids, Live
<1> QED BY <1>2, <1>3, <1>4, <1>5 DEF IInv

LEMMA Inductive == Spec => []IInv
<1>1. IInv /\ [Next]_vars => IInv'
  <2> SUFFICES ASSUME IInv, [Next]_vars PROVE IInv'
    OBVIOUS
  <2>1. UNCHANGED observers
    BY DEF Next, vars
  <2>2. CASE Step
    BY <2>1, <2>2, Announces, Handles, Reacts, Shows DEF Step
  <2>3. CASE Produce
    BY <2>1, <2>3, Called DEF Produce
  <2>4. CASE RowClicked
    <3>1. PICK r \in rows, keep \in BOOLEAN : Cancel(r.id, keep)
      BY <2>4 DEF RowClicked
    <3>2. r.id \in Ids
      BY DEF IInv, TypeOK, Row
    <3> QED BY <2>1, <3>1, <3>2, Cancels
  <2>5. CASE RowRetires \/ UNCHANGED vars
    BY <2>1, <2>5, Retires
  <2> QED BY <2>2, <2>3, <2>4, <2>5 DEF Next, Act
<1> QED BY Initially, <1>1, PTL DEF Spec

(* The registry's entry, ids and rows keep their types for any number of       *)
(* ingests, whatever the observers call from inside the signals.               *)
THEOREM TypeCorrect == Spec => []TypeOK
<1>1. IInv => TypeOK
  BY DEF IInv
<1> QED BY Inductive, <1>1, PTL

(* beginIngest, endIngest and requestCancel keep their accounts for any nesting *)
(* of calls: an ingest that is gone ended once, and its producer was told to   *)
(* stop at most once.                                                         *)
THEOREM EndedOnce == Spec => []EndsOnce
<1>1. IInv => EndsOnce
  <2> SUFFICES ASSUME IInv, NEW id \in 1 .. nextId - 1
               PROVE  handled[id] <= 1 /\ ends[id] = IF Live(id) THEN 0 ELSE 1
    BY DEF EndsOnce
  <2>1. id \in Ids /\ id < nextId
    BY RegistryAssumption DEF IInv, TypeOK, Ids
  <2> QED BY <2>1 DEF IInv, Told, Ended
<1> QED BY Inductive, <1>1, PTL

-------------------------------------------------------------------------------
(* RowsShowLive.  What the row shows between two events follows from what the  *)
(* calls under way still owe it: a running row whose ingest is gone is about   *)
(* to hear its end, the live ingest has a row or is about to be announced, and *)
(* a stop that is under way reaches a row that runs.  No observer calls back   *)
(* from inside a began, so these are heard with nothing between.               *)

Members(s) == {s[i] : i \in 1 .. Len(s)}
Due == Members(agenda)
Says(c, signal) == c.call = "deliver" /\ c.signal = signal
ToRow(c, signal) == Says(c, signal) /\ c.to = "row"
Running(r) == r.state \in {"loading", "stopping"}

BeganFirst ==
  \A i \in 1 .. Len(agenda) : Says(agenda[i], "began") => \A j \in 1 .. i : Says(agenda[j], "began")

(* What is still to be said agrees with the entry. *)
Coming ==
  \A c \in Due :
    /\ c.id < nextId
    /\ Says(c, "began") => Live(c.id) /\ ~live.stopping
    /\ c.call = "announce" /\ Live(c.id) => ~live.stopping
    /\ Says(c, "stopping") /\ Live(c.id) => live.stopping
    /\ Says(c, "ended") => ~Live(c.id)

(* An ingest that is told to stop ends as a cancelled one. *)
Stopped ==
  \A c, d \in Due : Says(c, "stopping") /\ Says(d, "ended") /\ c.id = d.id => d.outcome = "cancelled"

Ran == \A c \in Due : Says(c, "stopping") => \A r \in rows : r.id = c.id => Running(r)

Shown ==
  \A r \in rows :
    /\ r.id < nextId
    /\ Running(r) => Live(r.id) \/ \E c \in Due : ToRow(c, "ended") /\ c.id = r.id
    /\ Live(r.id) => Running(r)
    /\ Live(r.id) /\ r.state = "stopping" => live.stopping
    /\ Live(r.id) /\ live.stopping => r.state = "stopping" \/ \E c \in Due : ToRow(c, "stopping") /\ c.id = r.id

There ==
  live # NoEntry =>
    \/ \E r \in rows : r.id = live.id
    \/ \E c \in Due : (c.call = "announce" \/ ToRow(c, "began")) /\ c.id = live.id

RInv == BeganFirst /\ Coming /\ Stopped /\ Ran /\ Shown /\ There

LEMMA Dues ==
  ASSUME TypeOK, NEW made \in Seq(Chore), Then(made)
  PROVE  /\ Due' \subseteq Chore /\ Due \subseteq Chore
         /\ \A c \in Due' : c \in Due \/ c \in Members(made)
         /\ \A c \in Members(made) : c \in Due'
         /\ \A c \in Due : c \in Due' \/ (~Idle /\ c = Head(agenda))
<1>1. /\ agenda' \in Seq(Chore) /\ Len(agenda) \in Nat /\ Len(made) \in Nat
      /\ \A i \in 1..Len(agenda') :
           \/ i \in 1..Len(made) /\ agenda'[i] = made[i]
           \/ i - Len(made) + 1 \in 2..Len(agenda) /\ agenda'[i] = agenda[i - Len(made) + 1]
  BY Following
<1> DEFINE rest == IF Idle THEN <<>> ELSE Tail(agenda)
<1>2. agenda' = made \o rest /\ agenda \in Seq(Chore)
  BY DEF Then, TypeOK
<1>3. /\ rest \in Seq(Chore) /\ Len(rest) \in Nat
      /\ ~Idle => agenda # <<>> /\ Len(rest) = Len(agenda) - 1 /\ \A i \in 1..Len(rest) : rest[i] = agenda[i + 1]
      /\ Idle => Len(agenda) = 0
  <2>1. CASE Idle
    <3>1. rest = <<>> /\ <<>> \in Seq(Chore) /\ Len(<<>>) = 0
      BY <2>1
    <3>2. Len(agenda) = 0
      BY <2>1 DEF Idle
    <3> HIDE DEF rest
    <3> QED BY <2>1, <3>1, <3>2
  <2>2. CASE ~Idle
    <3>1. rest = Tail(agenda) /\ agenda # <<>>
      BY <2>2 DEF Idle
    <3>2. /\ Tail(agenda) \in Seq(Chore) /\ Len(Tail(agenda)) = Len(agenda) - 1
          /\ \A i \in 1..Len(Tail(agenda)) : Tail(agenda)[i] = agenda[i + 1]
      BY <1>2, <3>1, HeadTailProperties
    <3>3. Len(Tail(agenda)) \in Nat
      BY <3>2
    <3> HIDE DEF rest
    <3> QED BY <2>2, <3>1, <3>2, <3>3
  <2> QED BY <2>1, <2>2
<1> HIDE DEF rest
<1>4. /\ made \o rest \in Seq(Chore) /\ Len(made \o rest) = Len(made) + Len(rest)
      /\ \A i \in 1..Len(made) + Len(rest) :
           (made \o rest)[i] = IF i <= Len(made) THEN made[i] ELSE rest[i - Len(made)]
  BY <1>3, ConcatProperties
<1>5. ASSUME NEW c \in Due' PROVE c \in Chore /\ (c \in Due \/ c \in Members(made))
  <2>1. PICK i \in 1..Len(agenda') : c = agenda'[i]
    BY <1>5 DEF Due, Members
  <2>2. c \in Chore
    BY <1>1, <2>1
  <2>3. CASE i \in 1..Len(made) /\ agenda'[i] = made[i]
    BY <2>1, <2>2, <2>3 DEF Members
  <2>4. CASE i - Len(made) + 1 \in 2..Len(agenda) /\ agenda'[i] = agenda[i - Len(made) + 1]
    <3>1. i - Len(made) + 1 \in 1..Len(agenda)
      BY <1>1, <2>4
    <3> QED BY <2>1, <2>2, <2>4, <3>1 DEF Due, Members
  <2>5. \/ i \in 1..Len(made) /\ agenda'[i] = made[i]
        \/ i - Len(made) + 1 \in 2..Len(agenda) /\ agenda'[i] = agenda[i - Len(made) + 1]
    BY <1>1
  <2> QED BY <2>3, <2>4, <2>5
<1>6. ASSUME NEW c \in Members(made) PROVE c \in Due'
  <2>1. PICK i \in 1..Len(made) : c = made[i]
    BY <1>6 DEF Members
  <2>2. i \in 1..Len(agenda') /\ agenda'[i] = c
    BY <1>1, <1>2, <1>3, <1>4, <2>1
  <2> QED BY <2>2 DEF Due, Members
<1>7. ASSUME NEW c \in Due PROVE c \in Chore /\ (c \in Due' \/ (~Idle /\ c = Head(agenda)))
  <2>1. PICK i \in 1..Len(agenda) : c = agenda[i]
    BY <1>7 DEF Due, Members
  <2>2. c \in Chore /\ ~Idle
    BY <1>1, <1>2, <1>3, <2>1
  <2>3. CASE i = 1
    BY <1>2, <2>1, <2>2, <2>3 DEF Idle
  <2>4. CASE i # 1
    <3>1. i - 1 \in 1..Len(rest) /\ rest[i - 1] = c
      <4>1. Len(rest) = Len(agenda) - 1 /\ \A j \in 1..Len(rest) : rest[j] = agenda[j + 1]
        BY <1>3, <2>2
      <4>2. i - 1 \in 1..Len(rest) /\ (i - 1) + 1 = i
        BY <1>1, <4>1, <2>4
      <4> QED BY <2>1, <4>1, <4>2
    <3>2. i - 1 + Len(made) \in 1..Len(made) + Len(rest) /\ ~(i - 1 + Len(made) <= Len(made))
          /\ (i - 1 + Len(made)) - Len(made) = i - 1
      BY <1>1, <1>3, <3>1
    <3>3. (made \o rest)[i - 1 + Len(made)] = c
      BY <1>4, <3>1, <3>2
    <3>4. i - 1 + Len(made) \in 1..Len(agenda') /\ agenda'[i - 1 + Len(made)] = c
      BY <1>2, <1>4, <3>2, <3>3
    <3> QED BY <2>2, <3>4 DEF Due, Members
  <2> QED BY <2>2, <2>3, <2>4
<1> QED BY <1>5, <1>6, <1>7

Say(to, signal, id, outcome) ==
  [call |-> "deliver", to |-> to, signal |-> signal, id |-> id, outcome |-> outcome]

(* The two calls of an emission. *)
LEMMA Spoken ==
  ASSUME TypeOK, NEW signal \in Signal, NEW id \in Ids, NEW outcome \in Outcome
  PROVE  /\ Emit(signal, id, outcome) \in Seq(Chore)
         /\ \A c \in Members(Emit(signal, id, outcome)) :
              c.call = "deliver" /\ c.signal = signal /\ c.id = id /\ c.outcome = outcome
         /\ \E c \in Members(Emit(signal, id, outcome)) : ToRow(c, signal) /\ c.id = id
<1> DEFINE e == Emit(signal, id, outcome)
<1>1. e \in Seq(Chore) /\ Len(e) = 2
  BY Emission
<1>2. \A i \in 1..2 : e[i] = Say(observers[i], signal, id, outcome)
  <2>1. Len(observers) = 2
    BY DEF TypeOK, Orders
  <2> QED BY <2>1 DEF Emit, Say
<1>3. PICK k \in 1..2 : observers[k] = "row"
  <2>1. observers[1] = "row" \/ observers[2] = "row"
    BY DEF TypeOK, Orders
  <2> QED BY <2>1
<1> HIDE DEF e
<1>4. \A i \in 1..2 : e[i].call = "deliver" /\ e[i].signal = signal /\ e[i].id = id /\ e[i].outcome = outcome
  BY <1>2 DEF Say
<1>5. ToRow(e[k], signal) /\ e[k].id = id
  BY <1>2, <1>3 DEF Say, ToRow, Says
<1>6. \A c \in Members(e) : \E i \in 1..2 : c = e[i]
  BY <1>1 DEF Members
<1>7. e[k] \in Members(e)
  BY <1>1 DEF Members
<1>8. \A c \in Members(e) : c.call = "deliver" /\ c.signal = signal /\ c.id = id /\ c.outcome = outcome
  BY <1>4, <1>6
<1>9. \E c \in Members(e) : ToRow(c, signal) /\ c.id = id
  BY <1>5, <1>7
<1> QED BY <1>1, <1>8, <1>9 DEF e

LEMMA SpokenThen ==
  ASSUME TypeOK, NEW signal \in Signal, NEW id \in Ids, NEW outcome \in Outcome, NEW c \in Chore
  PROVE  /\ Emit(signal, id, outcome) \o <<c>> \in Seq(Chore)
         /\ Members(Emit(signal, id, outcome) \o <<c>>) = Members(Emit(signal, id, outcome)) \cup {c}
<1> DEFINE e == Emit(signal, id, outcome)
<1>1. e \in Seq(Chore) /\ Len(e) = 2
  BY Emission
<1> HIDE DEF e
<1>2. /\ e \o <<c>> \in Seq(Chore) /\ Len(e \o <<c>>) = 3
      /\ \A i \in 1..2 : (e \o <<c>>)[i] = e[i]
      /\ (e \o <<c>>)[3] = c
  BY <1>1, Appended
<1>3. 1..3 = 1..2 \cup {3}
  OBVIOUS
<1>4. Members(e \o <<c>>) = Members(e) \cup {c}
  BY <1>1, <1>2, <1>3 DEF Members
<1> QED BY <1>2, <1>4 DEF e


(* The moments at which somebody may call. *)
Calling == Idle \/ Doing("handler") \/ (Hears("reactor") /\ Head(agenda).signal # "began")

LEMMA Beginnings ==
  ASSUME TypeOK, BeganFirst, ~Idle, ~Says(Head(agenda), "began")
  PROVE  \A c \in Due : ~Says(c, "began")
<1>1. 1 \in 1..Len(agenda) /\ agenda[1] = Head(agenda)
  BY Doings
<1>2. ASSUME NEW i \in 1..Len(agenda), Says(agenda[i], "began") PROVE FALSE
  <2>1. 1 \in 1..i
    OBVIOUS
  <2> QED BY <1>1, <1>2, <2>1 DEF BeganFirst
<1> QED BY <1>2 DEF Due, Members

(* What a call finds on the agenda, and what it leaves there. *)
LEMMA Freely ==
  ASSUME TypeOK, BeganFirst, Calling, NEW made \in Seq(Chore), Then(made)
  PROVE  /\ \A c \in Due : ~Says(c, "began")
         /\ Due' \subseteq Chore /\ Due \subseteq Chore
         /\ \A c \in Due' : c \in Due \/ c \in Members(made)
         /\ \A c \in Members(made) : c \in Due'
         /\ \A c \in Due : c.call = "announce" => c \in Due'
         /\ \A c \in Due, signal \in Signal : ToRow(c, signal) => c \in Due'
<1>1. /\ Due' \subseteq Chore /\ Due \subseteq Chore
      /\ \A c \in Due' : c \in Due \/ c \in Members(made)
      /\ \A c \in Members(made) : c \in Due'
      /\ \A c \in Due : c \in Due' \/ (~Idle /\ c = Head(agenda))
  BY Dues
<1>2. ~Idle => /\ ~Says(Head(agenda), "began")
               /\ Head(agenda).call # "announce"
               /\ \A signal \in Signal : ~ToRow(Head(agenda), signal)
  BY DEF Calling, Doing, Hears, Says, ToRow
<1>3. CASE Idle
  <2>1. Due = {}
    BY <1>3 DEF Due, Members, Idle
  <2> QED BY <1>1, <2>1
<1>4. CASE ~Idle
  <2>1. \A c \in Due : ~Says(c, "began")
    BY <1>2, <1>4, Beginnings
  <2> QED BY <1>1, <1>2, <2>1
<1> QED BY <1>3, <1>4

LEMMA NoneBegan ==
  ASSUME \A c \in Due : ~Says(c, "began")
  PROVE  BeganFirst
BY DEF BeganFirst, Due, Members

LEMMA BeginRows ==
  ASSUME IInv, RInv, Calling, Begin, UNCHANGED observers
  PROVE  RInv'
<1> USE DEF IInv, RInv
<1>1. nextId \in Ids /\ nextId' = nextId + 1 /\ nextId \in Nat /\ UNCHANGED rows
  BY RegistryAssumption DEF Begin, TypeOK, Ids
<1>2. live'.id = nextId /\ ~live'.stopping
  BY DEF Begin
<1>3. \A x : (Live(x))' => x = nextId
  BY <1>2 DEF Live
<1>4. Announce(nextId) \in Chore /\ Announce(nextId).call = "announce" /\ Announce(nextId).id = nextId
  BY <1>1 DEF Announce, Chore
<1>5. PICK made \in Seq(Chore) :
        /\ Then(made)
        /\ Announce(nextId) \in Members(made)
        /\ \A c \in Members(made) :
             \/ c = Announce(nextId)
             \/ Says(c, "ended") /\ Live(c.id) /\ c.outcome = "cancelled"
        /\ live # NoEntry => \E c \in Members(made) : ToRow(c, "ended") /\ c.id = live.id
  <2>1. CASE live = NoEntry
    <3>1. Then(<<Announce(nextId)>>)
      BY <2>1 DEF Begin
    <3>2. <<Announce(nextId)>> \in Seq(Chore) /\ Members(<<Announce(nextId)>>) = {Announce(nextId)}
      BY <1>4 DEF Members
    <3> QED BY <2>1, <3>1, <3>2
  <2>2. CASE live # NoEntry
    <3> DEFINE e == Emit("ended", live.id, "cancelled")
               made == e \o <<Announce(nextId)>>
    <3>1. Then(made)
      BY <2>2 DEF Begin
    <3>2. live.id \in Ids
      BY <2>2 DEF TypeOK, Entry
    <3>3. /\ \A c \in Members(e) : c.call = "deliver" /\ c.signal = "ended" /\ c.id = live.id /\ c.outcome = "cancelled"
          /\ \E c \in Members(e) : ToRow(c, "ended") /\ c.id = live.id
      BY <3>2, Spoken DEF Signal, Outcome
    <3>4. made \in Seq(Chore) /\ Members(made) = Members(e) \cup {Announce(nextId)}
      BY <1>4, <3>2, SpokenThen DEF Signal, Outcome
    <3> HIDE DEF made, e
    <3>5. \A c \in Members(e) : Says(c, "ended") /\ Live(c.id) /\ c.outcome = "cancelled"
      BY <2>2, <3>3 DEF Says, Live
    <3> QED BY <3>1, <3>3, <3>4, <3>5
  <2> QED BY <2>1, <2>2
<1>6. /\ \A c \in Due : ~Says(c, "began")
      /\ Due' \subseteq Chore /\ Due \subseteq Chore
      /\ \A c \in Due' : c \in Due \/ c \in Members(made)
      /\ \A c \in Members(made) : c \in Due'
      /\ \A c \in Due : c.call = "announce" => c \in Due'
      /\ \A c \in Due, signal \in Signal : ToRow(c, signal) => c \in Due'
  BY <1>5, Freely
<1>7. \A c \in Members(made) :
        \/ c.call = "announce" /\ c.id = nextId
        \/ c.call = "deliver" /\ c.signal = "ended" /\ Live(c.id) /\ c.outcome = "cancelled"
  BY <1>4, <1>5 DEF Says
<1>8. \A c \in Due : c.id < nextId /\ c.id # nextId
  BY <1>1, <1>6 DEF Coming, Chore, Ids
<1>9. \A r \in rows : r.id < nextId /\ r.id # nextId /\ r.id \in Ids
  BY <1>1 DEF Shown, TypeOK, Row, Ids
<1>10. \A x : Live(x) => x < nextId /\ x # nextId /\ x \in Ids
  BY <1>1 DEF Live, Ended, TypeOK, Entry, Ids
<1>11. BeganFirst'
  <2>1. \A c \in Due' : ~Says(c, "began")
    BY <1>6, <1>7 DEF Says
  <2>2. (\A c \in Due : ~Says(c, "began"))'
    BY <2>1 DEF Says
  <2> QED BY <2>2, NoneBegan, PTL
<1>12. Coming'
  <2> SUFFICES ASSUME NEW c \in Due'
               PROVE  /\ c.id < nextId'
                      /\ ~Says(c, "began")
                      /\ c.call = "announce" /\ (Live(c.id))' => ~live'.stopping
                      /\ Says(c, "stopping") => ~(Live(c.id))'
                      /\ Says(c, "ended") => ~(Live(c.id))'
    BY DEF Coming, Says
  <2>1. CASE c \in Due
    BY <1>1, <1>2, <1>3, <1>6, <1>8, <2>1 DEF Chore, Ids
  <2>2. CASE c \in Members(made)
    BY <1>1, <1>2, <1>3, <1>7, <1>10, <2>2 DEF Says, Ids
  <2> QED BY <1>6, <2>1, <2>2
<1>13. Stopped'
  <2> SUFFICES ASSUME NEW c \in Due', NEW d \in Due', Says(c, "stopping"), Says(d, "ended"), c.id = d.id
               PROVE  d.outcome = "cancelled"
    BY DEF Stopped, Says
  <2>1. c \in Due
    BY <1>6, <1>7 DEF Says
  <2>2. CASE d \in Due
    BY <2>1, <2>2 DEF Stopped
  <2>3. CASE d \in Members(made)
    BY <1>7, <2>3 DEF Says
  <2> QED BY <1>6, <2>2, <2>3
<1>14. Ran'
  <2> SUFFICES ASSUME NEW c \in Due', Says(c, "stopping"), NEW r \in rows, r.id = c.id PROVE Running(r)
    BY <1>1 DEF Ran, Says, Running
  <2>1. c \in Due
    BY <1>6, <1>7 DEF Says
  <2> QED BY <2>1 DEF Ran
<1>15. Shown'
  <2> SUFFICES ASSUME NEW r \in rows
               PROVE  /\ r.id < nextId'
                      /\ Running(r) => \E c \in Due' : ToRow(c, "ended") /\ c.id = r.id
                      /\ ~(Live(r.id))'
    BY <1>1 DEF Shown, Running, ToRow, Says
  <2>1. r.id < nextId' /\ ~(Live(r.id))'
    BY <1>1, <1>3, <1>9 DEF Ids
  <2>2. ASSUME Running(r) PROVE \E c \in Due' : ToRow(c, "ended") /\ c.id = r.id
    <3>1. CASE Live(r.id)
      <4>1. live # NoEntry /\ live.id = r.id
        BY <3>1 DEF Live
      <4> QED BY <1>5, <1>6, <4>1
    <3>2. CASE \E c \in Due : ToRow(c, "ended") /\ c.id = r.id
      BY <1>6, <3>2 DEF Signal
    <3> QED BY <2>2, <3>1, <3>2 DEF Shown
  <2> QED BY <2>1, <2>2
<1>16. There'
  <2>1. Announce(nextId) \in Due' /\ Announce(nextId).id = live'.id
    BY <1>2, <1>4, <1>5, <1>6
  <2> QED BY <1>4, <2>1 DEF There, ToRow, Says
<1> QED BY <1>11, <1>12, <1>13, <1>14, <1>15, <1>16

(* The end of the live ingest. *)
LEMMA EndRows ==
  ASSUME IInv, RInv, Calling, NEW id \in Ids, NEW outcome \in Outcome, Live(id), live' = NoEntry,
         live.stopping => outcome = "cancelled",
         Then(Emit("ended", id, outcome)), UNCHANGED <<observers, nextId, rows>>
  PROVE  RInv'
<1> USE DEF IInv, RInv
<1> DEFINE made == Emit("ended", id, outcome)
<1>1. /\ made \in Seq(Chore)
      /\ \A c \in Members(made) : c.call = "deliver" /\ c.signal = "ended" /\ c.id = id /\ c.outcome = outcome
      /\ \E c \in Members(made) : ToRow(c, "ended") /\ c.id = id
  BY Spoken DEF Signal
<1> HIDE DEF made
<1>2. /\ \A c \in Due : ~Says(c, "began")
      /\ Due' \subseteq Chore /\ Due \subseteq Chore
      /\ \A c \in Due' : c \in Due \/ c \in Members(made)
      /\ \A c \in Members(made) : c \in Due'
      /\ \A c \in Due : c.call = "announce" => c \in Due'
      /\ \A c \in Due, signal \in Signal : ToRow(c, signal) => c \in Due'
  BY <1>1, Freely DEF made
<1>3. \A x : ~(Live(x))'
  BY DEF Live
<1>4. id < nextId /\ live.id = id
  BY DEF Ended, Live
<1>5. BeganFirst'
  <2>1. (\A c \in Due : ~Says(c, "began"))'
    BY <1>1, <1>2 DEF Says
  <2> QED BY <2>1, NoneBegan, PTL
<1>6. Coming'
  <2>1. \A c \in Due' : c.id < nextId /\ ~Says(c, "began")
    BY <1>1, <1>2, <1>4 DEF Coming, Says
  <2> QED BY <1>3, <2>1 DEF Coming, Says
<1>7. Stopped'
  <2> SUFFICES ASSUME NEW c \in Due', NEW d \in Due', Says(c, "stopping"), Says(d, "ended"), c.id = d.id
               PROVE  d.outcome = "cancelled"
    BY DEF Stopped, Says
  <2>1. c \in Due
    BY <1>1, <1>2 DEF Says
  <2>2. CASE d \in Due
    BY <2>1, <2>2 DEF Stopped
  <2>3. CASE d \in Members(made)
    <3>1. d.id = id /\ d.outcome = outcome
      BY <1>1, <2>3
    <3> QED BY <2>1, <3>1 DEF Coming
  <2> QED BY <1>2, <2>2, <2>3
<1>8. Ran'
  <2> SUFFICES ASSUME NEW c \in Due', Says(c, "stopping"), NEW r \in rows, r.id = c.id PROVE Running(r)
    BY DEF Ran, Says, Running
  <2>1. c \in Due
    BY <1>1, <1>2 DEF Says
  <2> QED BY <2>1 DEF Ran
<1>9. Shown'
  <2> SUFFICES ASSUME NEW r \in rows
               PROVE  /\ r.id < nextId
                      /\ Running(r) => \E c \in Due' : ToRow(c, "ended") /\ c.id = r.id
    BY <1>3 DEF Shown, Running, ToRow, Says
  <2>1. r.id < nextId
    BY DEF Shown
  <2>2. ASSUME Running(r) PROVE \E c \in Due' : ToRow(c, "ended") /\ c.id = r.id
    <3>1. CASE Live(r.id)
      BY <1>1, <1>2, <1>4, <3>1 DEF Live
    <3>2. CASE \E c \in Due : ToRow(c, "ended") /\ c.id = r.id
      BY <1>2, <3>2 DEF Signal
    <3> QED BY <2>2, <3>1, <3>2 DEF Shown
  <2> QED BY <2>1, <2>2
<1>10. There'
  BY DEF There
<1> QED BY <1>5, <1>6, <1>7, <1>8, <1>9, <1>10


(* A call under way that was heard with nothing to say, by whom owes no row. *)
LEMMA Popped ==
  ASSUME TypeOK, BeganFirst, Then(<<>>)
  PROVE  /\ BeganFirst'
         /\ Due' \subseteq Chore /\ Due \subseteq Chore
         /\ \A c \in Due' : c \in Due
         /\ \A c \in Due : c \in Due' \/ (~Idle /\ c = Head(agenda))
<1>1. <<>> \in Seq(Chore) /\ Len(<<>>) = 0 /\ Members(<<>>) = {}
  BY DEF Members
<1>2. /\ agenda' \in Seq(Chore) /\ Len(agenda) \in Nat
      /\ \A i \in 1..Len(agenda') : i + 1 \in 2..Len(agenda) /\ agenda'[i] = agenda[i + 1]
  <2>1. /\ agenda' \in Seq(Chore) /\ Len(agenda) \in Nat
        /\ \A i \in 1..Len(agenda') :
             \/ i \in 1..0 /\ agenda'[i] = <<>>[i]
             \/ i - 0 + 1 \in 2..Len(agenda) /\ agenda'[i] = agenda[i - 0 + 1]
    BY <1>1, Following
  <2> QED BY <2>1
<1>3. BeganFirst'
  <2> SUFFICES ASSUME NEW i \in 1..Len(agenda'), Says(agenda'[i], "began"), NEW j \in 1..i
               PROVE  Says(agenda'[j], "began")
    BY DEF BeganFirst, Says
  <2>1. j \in 1..Len(agenda') /\ j + 1 \in 1..i + 1 /\ i + 1 \in 1..Len(agenda)
    BY <1>2
  <2>2. agenda'[i] = agenda[i + 1] /\ agenda'[j] = agenda[j + 1]
    BY <1>2, <2>1
  <2> QED BY <2>1, <2>2 DEF BeganFirst
<1>4. /\ Due' \subseteq Chore /\ Due \subseteq Chore
      /\ \A c \in Due' : c \in Due \/ c \in Members(<<>>)
      /\ \A c \in Due : c \in Due' \/ (~Idle /\ c = Head(agenda))
  BY <1>1, Dues
<1> QED BY <1>1, <1>3, <1>4

LEMMA PassRows ==
  ASSUME IInv, RInv, Calling \/ Hears("reactor"), Then(<<>>), UNCHANGED <<live, nextId, rows>>
  PROVE  RInv'
<1> USE DEF IInv, RInv
<1>1. /\ BeganFirst'
      /\ \A c \in Due' : c \in Due
      /\ \A c \in Due : c \in Due' \/ (~Idle /\ c = Head(agenda))
  BY Popped
<1>2. ~Idle => Head(agenda).call # "announce" /\ \A signal \in Signal : ~ToRow(Head(agenda), signal)
  BY DEF Calling, Doing, Hears, Says, ToRow
<1>3. \A c \in Due : /\ c.call = "announce" => c \in Due'
                     /\ \A signal \in Signal : ToRow(c, signal) => c \in Due'
  BY <1>1, <1>2
<1>4. \A x : (Live(x))' = Live(x)
  BY DEF Live
<1>5. Coming'
  BY <1>1, <1>4 DEF Coming, Says
<1>6. Stopped'
  BY <1>1 DEF Stopped, Says
<1>7. Ran'
  BY <1>1 DEF Ran, Says, Running
<1>8. Shown'
  <2> SUFFICES ASSUME NEW r \in rows
               PROVE  /\ r.id < nextId
                      /\ Running(r) => Live(r.id) \/ \E c \in Due' : ToRow(c, "ended") /\ c.id = r.id
                      /\ Live(r.id) => Running(r)
                      /\ Live(r.id) /\ r.state = "stopping" => live.stopping
                      /\ Live(r.id) /\ live.stopping =>
                           r.state = "stopping" \/ \E c \in Due' : ToRow(c, "stopping") /\ c.id = r.id
    BY <1>4 DEF Shown, Running, ToRow, Says
  <2>1. /\ \A c \in Due : ToRow(c, "ended") => c \in Due'
        /\ \A c \in Due : ToRow(c, "stopping") => c \in Due'
    BY <1>3 DEF Signal
  <2> QED BY <2>1 DEF Shown
<1>9. There'
  <2>1. \A c \in Due : c.call = "announce" \/ ToRow(c, "began") => c \in Due'
    BY <1>3 DEF Signal
  <2> QED BY <2>1 DEF There, ToRow, Says
<1> QED BY <1>1, <1>5, <1>6, <1>7, <1>8, <1>9

(* An accepted stop: the live ingest was announced, so it has a row. *)
LEMMA CancelRows ==
  ASSUME IInv, RInv, Calling, NEW id \in Ids, NEW keep \in BOOLEAN, Cancel(id, keep),
         \A c \in Due : c.call = "announce" => c.id # id, UNCHANGED observers
  PROVE  RInv'
<1> USE DEF IInv, RInv
<1>1. UNCHANGED <<observers, nextId, rows>>
  BY DEF Cancel
<1>2. CASE ~(Live(id) /\ live.cancellable /\ (keep \/ live.discardable) /\ ~live.stopping)
  <2>1. Then(<<>>) /\ UNCHANGED live
    BY <1>2 DEF Cancel
  <2> QED BY <1>1, <2>1, PassRows
<1>3. CASE Live(id) /\ live.cancellable /\ (keep \/ live.discardable) /\ ~live.stopping
  <2> DEFINE e == Emit("stopping", id, "unknown")
             made == e \o <<Handler(id)>>
  <2>1. live' = [live EXCEPT !.stopping = TRUE] /\ Then(made)
    BY <1>3 DEF Cancel
  <2>2. live \in Entry /\ live.id = id /\ id < nextId
    BY <1>3 DEF TypeOK, Live, Ended
  <2>3. live'.id = id /\ live'.stopping /\ live' # NoEntry
    BY <2>1, <2>2, RegistryAssumption DEF Entry
  <2>4. \A x : (Live(x))' <=> x = id
    BY <2>3 DEF Live
  <2>5. \A x : Live(x) <=> x = id
    BY <1>3 DEF Live
  <2>6. Handler(id) \in Chore /\ Handler(id).call = "handler" /\ Handler(id).id = id
    BY DEF Handler, Chore
  <2>7. /\ \A c \in Members(e) : c.call = "deliver" /\ c.signal = "stopping" /\ c.id = id /\ c.outcome = "unknown"
        /\ \E c \in Members(e) : ToRow(c, "stopping") /\ c.id = id
    BY Spoken DEF Signal, Outcome
  <2>8. made \in Seq(Chore) /\ Members(made) = Members(e) \cup {Handler(id)}
    BY <2>6, SpokenThen DEF Signal, Outcome
  <2> HIDE DEF made, e
  <2>9. /\ \A c \in Due : ~Says(c, "began")
        /\ Due' \subseteq Chore /\ Due \subseteq Chore
        /\ \A c \in Due' : c \in Due \/ c \in Members(made)
        /\ \A c \in Members(made) : c \in Due'
        /\ \A c \in Due : c.call = "announce" => c \in Due'
        /\ \A c \in Due, signal \in Signal : ToRow(c, signal) => c \in Due'
    BY <2>1, <2>8, Freely
  <2>10. /\ \A c \in Members(made) : c.id = id /\ c.call # "announce" /\ ~Says(c, "began") /\ ~Says(c, "ended")
         /\ \E c \in Members(made) : ToRow(c, "stopping") /\ c.id = id
    BY <2>6, <2>7, <2>8 DEF Says
  <2>11. BeganFirst'
    <3>1. (\A c \in Due : ~Says(c, "began"))'
      BY <2>9, <2>10 DEF Says
    <3> QED BY <3>1, NoneBegan, PTL
  <2>12. \A c \in Due : c.id = id => ~Says(c, "ended")
    BY <1>3 DEF Coming
  <2>13. Coming'
    <3> SUFFICES ASSUME NEW c \in Due'
                 PROVE  /\ c.id < nextId
                        /\ ~Says(c, "began")
                        /\ c.call = "announce" => c.id # id
                        /\ Says(c, "ended") => c.id # id
      BY <1>1, <2>3, <2>4 DEF Coming, Says
    <3>1. CASE c \in Due
      BY <2>9, <2>12, <3>1 DEF Coming
    <3>2. CASE c \in Members(made)
      BY <2>2, <2>10, <3>2
    <3> QED BY <2>9, <3>1, <3>2
  <2>14. Stopped'
    <3> SUFFICES ASSUME NEW c \in Due', NEW d \in Due', Says(c, "stopping"), Says(d, "ended"), c.id = d.id
                 PROVE  d.outcome = "cancelled"
      BY DEF Stopped, Says
    <3>1. d \in Due
      BY <2>9, <2>10
    <3>2. c \in Due
      BY <2>9, <2>10, <2>12, <3>1
    <3> QED BY <3>1, <3>2 DEF Stopped
  <2>15. Ran'
    <3> SUFFICES ASSUME NEW c \in Due', Says(c, "stopping"), NEW r \in rows, r.id = c.id PROVE Running(r)
      BY <1>1 DEF Ran, Says, Running
    <3>1. CASE c \in Due
      BY <3>1 DEF Ran
    <3>2. CASE c \in Members(made)
      BY <1>3, <2>10, <3>2 DEF Shown
    <3> QED BY <2>9, <3>1, <3>2
  <2>16. Shown'
    <3> SUFFICES ASSUME NEW r \in rows
                 PROVE  /\ r.id < nextId
                        /\ Running(r) => r.id = id \/ \E c \in Due' : ToRow(c, "ended") /\ c.id = r.id
                        /\ r.id = id => Running(r)
                        /\ r.id = id => \E c \in Due' : ToRow(c, "stopping") /\ c.id = r.id
      BY <1>1, <2>3, <2>4 DEF Shown, Running, ToRow, Says
    <3>1. \A c \in Due : ToRow(c, "ended") => c \in Due'
      BY <2>9 DEF Signal
    <3>2. \E c \in Due' : ToRow(c, "stopping") /\ c.id = id
      BY <2>9, <2>10
    <3>3. /\ r.id < nextId
          /\ Running(r) => r.id = id \/ \E c \in Due : ToRow(c, "ended") /\ c.id = r.id
          /\ r.id = id => Running(r)
      BY <2>5 DEF Shown
    <3> QED BY <3>1, <3>2, <3>3
  <2>17. There'
    <3>1. \E r \in rows : r.id = id
      BY <2>2, <2>9, <1>3 DEF There, Live, ToRow
    <3> QED BY <1>1, <2>3, <3>1 DEF There
  <2> QED BY <2>11, <2>13, <2>14, <2>15, <2>16, <2>17
<1> QED BY <1>2, <1>3


(* The announcement, whose began is heard before anybody calls. *)
LEMMA AnnounceRows ==
  ASSUME IInv, RInv, AnnounceBegan, UNCHANGED observers
  PROVE  RInv'
<1> USE DEF IInv, RInv
<1> DEFINE head == Head(agenda)
<1>1. /\ UNCHANGED <<live, nextId, rows>> /\ ~Idle /\ head.call = "announce"
      /\ Then(IF Live(head.id) THEN Emit("began", head.id, "unknown") ELSE <<>>)
  BY DEF AnnounceBegan, Doing
<1>2. head \in Chore /\ head \in Due /\ head.id \in Ids
  BY <1>1, Doings DEF Due, Members, Chore
<1>3. \A c \in Due : ~Says(c, "began")
  BY <1>1, Beginnings DEF Says
<1>4. \A x : (Live(x))' = Live(x)
  BY <1>1 DEF Live
<1> HIDE DEF head
<1>5. PICK made \in Seq(Chore) :
        /\ Then(made)
        /\ \A c \in Members(made) : Says(c, "began") /\ c.call # "announce" /\ c.id = head.id /\ Live(head.id)
        /\ Live(head.id) => \E c \in Members(made) : ToRow(c, "began") /\ c.id = head.id
  <2>1. CASE Live(head.id)
    <3> DEFINE e == Emit("began", head.id, "unknown")
    <3>1. /\ e \in Seq(Chore)
          /\ \A c \in Members(e) : c.call = "deliver" /\ c.signal = "began" /\ c.id = head.id
          /\ \E c \in Members(e) : ToRow(c, "began") /\ c.id = head.id
      <4>1. "began" \in Signal /\ "unknown" \in Outcome
        BY DEF Signal, Outcome
      <4>2. TypeOK
        OBVIOUS
      <4> QED BY <1>2, <4>1, <4>2, Spoken
    <3>2. Then(e)
      BY <1>1, <2>1
    <3> HIDE DEF e
    <3>3. \A c \in Members(e) : Says(c, "began") /\ c.call # "announce" /\ c.id = head.id
      BY <3>1 DEF Says
    <3> QED BY <2>1, <3>1, <3>2, <3>3
  <2>2. CASE ~Live(head.id)
    <3>1. <<>> \in Seq(Chore) /\ Members(<<>>) = {} /\ Then(<<>>)
      BY <1>1, <2>2 DEF Members
    <3> QED BY <2>2, <3>1
  <2> QED BY <2>1, <2>2
<1>6. /\ Due' \subseteq Chore /\ Due \subseteq Chore
      /\ \A c \in Due' : c \in Due \/ c \in Members(made)
      /\ \A c \in Members(made) : c \in Due'
      /\ \A c \in Due : c \in Due' \/ c = head
  BY <1>5, Dues DEF head
<1>7. BeganFirst'
  <2> SUFFICES ASSUME NEW i \in 1..Len(agenda'), Says(agenda'[i], "began"), NEW j \in 1..i
               PROVE  Says(agenda'[j], "began")
    BY DEF BeganFirst, Says
  <2>1. /\ agenda' \in Seq(Chore) /\ Len(agenda) \in Nat /\ Len(made) \in Nat
        /\ \A k \in 1..Len(agenda') :
             \/ k \in 1..Len(made) /\ agenda'[k] = made[k]
             \/ k - Len(made) + 1 \in 2..Len(agenda) /\ agenda'[k] = agenda[k - Len(made) + 1]
    BY <1>5, Following
  <2>2. ~(i - Len(made) + 1 \in 2..Len(agenda) /\ agenda'[i] = agenda[i - Len(made) + 1])
    <3> SUFFICES ASSUME i - Len(made) + 1 \in 2..Len(agenda), agenda'[i] = agenda[i - Len(made) + 1]
                 PROVE  FALSE
      OBVIOUS
    <3>1. i - Len(made) + 1 \in 1..Len(agenda)
      BY <2>1
    <3>2. agenda[i - Len(made) + 1] \in Due
      BY <3>1 DEF Due, Members
    <3> QED BY <1>3, <3>2
  <2>3. i \in 1..Len(made)
    BY <2>1, <2>2
  <2>4. j \in 1..Len(made) /\ j \in 1..Len(agenda')
    BY <2>1, <2>3
  <2>5. ~(j - Len(made) + 1 \in 2..Len(agenda))
    BY <2>1, <2>4
  <2>6. agenda'[j] = made[j]
    BY <2>1, <2>4, <2>5
  <2>7. made[j] \in Members(made)
    BY <2>4 DEF Members
  <2> QED BY <1>5, <2>6, <2>7
<1>8. head.id < nextId /\ (Live(head.id) => ~live.stopping)
  BY <1>1, <1>2 DEF Coming
<1>9. Coming'
  <2> SUFFICES ASSUME NEW c \in Due'
               PROVE  /\ c.id < nextId
                      /\ Says(c, "began") => Live(c.id) /\ ~live.stopping
                      /\ c.call = "announce" /\ Live(c.id) => ~live.stopping
                      /\ Says(c, "stopping") /\ Live(c.id) => live.stopping
                      /\ Says(c, "ended") => ~Live(c.id)
    BY <1>1, <1>4 DEF Coming, Says
  <2>1. CASE c \in Due
    BY <2>1 DEF Coming
  <2>2. CASE c \in Members(made)
    BY <1>5, <1>8, <2>2 DEF Says
  <2> QED BY <1>6, <2>1, <2>2
<1>10. \A c \in Due' : Says(c, "stopping") \/ Says(c, "ended") => c \in Due
  BY <1>5, <1>6 DEF Says
<1>11. Stopped'
  BY <1>10 DEF Stopped, Says
<1>12. Ran'
  BY <1>1, <1>10 DEF Ran, Says, Running
<1>13. Shown'
  <2> SUFFICES ASSUME NEW r \in rows
               PROVE  /\ r.id < nextId
                      /\ Running(r) => Live(r.id) \/ \E c \in Due' : ToRow(c, "ended") /\ c.id = r.id
                      /\ Live(r.id) => Running(r)
                      /\ Live(r.id) /\ r.state = "stopping" => live.stopping
                      /\ Live(r.id) /\ live.stopping =>
                           r.state = "stopping" \/ \E c \in Due' : ToRow(c, "stopping") /\ c.id = r.id
    BY <1>1, <1>4 DEF Shown, Running, ToRow, Says
  <2>1. \A c \in Due : ToRow(c, "ended") \/ ToRow(c, "stopping") => c \in Due'
    BY <1>1, <1>6 DEF ToRow, Says
  <2> QED BY <2>1 DEF Shown
<1>14. There'
  <2> SUFFICES ASSUME live # NoEntry, ~\E r \in rows : r.id = live.id
               PROVE  \E c \in Due' : (c.call = "announce" \/ ToRow(c, "began")) /\ c.id = live.id
    BY <1>1 DEF There, ToRow, Says
  <2>1. PICK c \in Due : (c.call = "announce" \/ ToRow(c, "began")) /\ c.id = live.id
    BY DEF There
  <2>2. CASE c = head
    <3>1. Live(head.id)
      BY <2>1, <2>2 DEF Live
    <3> QED BY <1>5, <1>6, <2>1, <2>2, <3>1
  <2> QED BY <1>6, <2>1, <2>2
<1> QED BY <1>7, <1>9, <1>11, <1>12, <1>13, <1>14

(* What the row hears. *)
LEMMA RowHears ==
  ASSUME IInv, RInv, NEW signal \in Signal, Hears("row"), Head(agenda).signal = signal, Then(<<>>)
  PROVE  /\ BeganFirst'
         /\ Head(agenda) \in Due /\ Head(agenda).call = "deliver" /\ Head(agenda).id \in Ids
         /\ \A c \in Due' : c \in Due
         /\ \A c \in Due : c.call = "announce" => c \in Due'
         /\ \A c \in Due, s \in Signal : ToRow(c, s) /\ (s # signal \/ c.id # Head(agenda).id) => c \in Due'
<1> USE DEF IInv, RInv
<1>1. ~Idle /\ Head(agenda).call = "deliver" /\ Head(agenda).to = "row"
  BY DEF Hears, Doing
<1>2. Head(agenda) \in Due /\ Head(agenda).id \in Ids
  BY <1>1, Doings DEF Due, Members, Chore
<1>3. /\ BeganFirst'
      /\ \A c \in Due' : c \in Due
      /\ \A c \in Due : c \in Due' \/ c = Head(agenda)
  BY Popped
<1> QED BY <1>1, <1>2, <1>3 DEF ToRow, Says

LEMMA BeganShown ==
  ASSUME IInv, RInv, RowBegan
  PROVE  RInv'
<1> USE DEF IInv, RInv
<1> DEFINE head == Head(agenda)
<1>1. /\ Hears("row") /\ head.signal = "began" /\ Then(<<>>) /\ UNCHANGED <<live, nextId>>
      /\ rows' = {[id |-> head.id, state |-> "loading"]}
  BY DEF RowBegan
<1> HIDE DEF head
<1>2. /\ BeganFirst' /\ head \in Due /\ head.call = "deliver"
      /\ \A c \in Due' : c \in Due
  BY <1>1, RowHears DEF head, Signal
<1>3. head.id < nextId /\ Live(head.id) /\ ~live.stopping
  BY <1>1, <1>2 DEF Coming, Says
<1>4. \A x : (Live(x))' = Live(x)
  BY <1>1 DEF Live
<1>5. Coming' /\ Stopped'
  <2>1. Coming'
    BY <1>1, <1>2, <1>4 DEF Coming, Says
  <2>2. Stopped'
    BY <1>2 DEF Stopped, Says
  <2> QED BY <2>1, <2>2
<1>6. \A r \in rows' : r.id = head.id /\ r.state = "loading"
  BY <1>1
<1>7. Ran'
  BY <1>6 DEF Ran, Running
<1>8. Shown'
  BY <1>1, <1>3, <1>4, <1>6 DEF Shown, Running
<1>9. There'
  <2>1. \E r \in rows' : r.id = live.id
    BY <1>1, <1>3 DEF Live
  <2> QED BY <1>1, <2>1 DEF There
<1> QED BY <1>2, <1>5, <1>7, <1>8, <1>9

LEMMA StoppingShown ==
  ASSUME IInv, RInv, RowStopping
  PROVE  RInv'
<1> USE DEF IInv, RInv
<1> DEFINE head == Head(agenda)
<1>1. /\ Hears("row") /\ head.signal = "stopping" /\ Then(<<>>) /\ UNCHANGED <<live, nextId>>
      /\ rows' = IF RowOf(head.id) = {} THEN rows
                 ELSE (rows \ RowOf(head.id)) \cup {[id |-> head.id, state |-> "stopping"]}
  BY DEF RowStopping
<1> HIDE DEF head
<1>2. /\ BeganFirst' /\ head \in Due /\ head.call = "deliver"
      /\ \A c \in Due' : c \in Due
      /\ \A c \in Due : c.call = "announce" => c \in Due'
      /\ \A c \in Due, s \in Signal : ToRow(c, s) /\ (s # "stopping" \/ c.id # head.id) => c \in Due'
  BY <1>1, RowHears DEF head, Signal
<1>3. head.id < nextId /\ (Live(head.id) => live.stopping)
  BY <1>1, <1>2 DEF Coming, Says
<1>4. \A x : (Live(x))' = Live(x)
  BY <1>1 DEF Live
<1>5. Coming' /\ Stopped'
  <2>1. Coming'
    BY <1>1, <1>2, <1>4 DEF Coming, Says
  <2>2. Stopped'
    BY <1>2 DEF Stopped, Says
  <2> QED BY <2>1, <2>2
<1>6. \A r \in rows' : \/ r \in rows /\ r.id # head.id
                       \/ r.id = head.id /\ r.state = "stopping" /\ \E q \in rows : q.id = head.id
  BY <1>1 DEF RowOf
<1>7. Ran'
  <2> SUFFICES ASSUME NEW c \in Due', Says(c, "stopping"), NEW r \in rows', r.id = c.id PROVE Running(r)
    BY DEF Ran, Says, Running
  <2>1. r \in rows => Running(r)
    BY <1>2 DEF Ran
  <2> QED BY <1>6, <2>1 DEF Running
<1>8. Shown'
  <2> SUFFICES ASSUME NEW r \in rows'
               PROVE  /\ r.id < nextId
                      /\ Running(r) => Live(r.id) \/ \E c \in Due' : ToRow(c, "ended") /\ c.id = r.id
                      /\ Live(r.id) => Running(r)
                      /\ Live(r.id) /\ r.state = "stopping" => live.stopping
                      /\ Live(r.id) /\ live.stopping =>
                           r.state = "stopping" \/ \E c \in Due' : ToRow(c, "stopping") /\ c.id = r.id
    BY <1>1, <1>4 DEF Shown, Running, ToRow, Says
  <2>1. \A c \in Due : ToRow(c, "ended") => c \in Due'
    BY <1>2 DEF Signal
  <2>2. CASE r \in rows /\ r.id # head.id
    <3>1. \A c \in Due : ToRow(c, "stopping") /\ c.id = r.id => c \in Due'
      BY <1>2, <2>2 DEF Signal
    <3> QED BY <2>1, <2>2, <3>1 DEF Shown
  <2>3. CASE r.id = head.id /\ r.state = "stopping" /\ \E q \in rows : q.id = head.id
    <3>1. PICK q \in rows : q.id = head.id
      BY <2>3
    <3>2. Running(q)
      BY <1>1, <1>2, <3>1 DEF Ran, Says
    <3>3. Live(head.id) \/ \E c \in Due : ToRow(c, "ended") /\ c.id = head.id
      BY <3>1, <3>2 DEF Shown
    <3> QED BY <1>3, <2>1, <2>3, <3>3 DEF Running
  <2> QED BY <1>6, <2>2, <2>3
<1>9. There'
  <2>1. \A r \in rows : \E q \in rows' : q.id = r.id
    <3> SUFFICES ASSUME NEW r \in rows PROVE \E q \in rows' : q.id = r.id
      OBVIOUS
    <3>1. CASE r.id = head.id
      <4>1. r \in RowOf(head.id)
        BY <3>1 DEF RowOf
      <4>2. [id |-> head.id, state |-> "stopping"] \in rows'
        BY <1>1, <4>1
      <4> QED BY <3>1, <4>2
    <3>2. CASE r.id # head.id
      BY <1>1, <3>2 DEF RowOf
    <3> QED BY <3>1, <3>2
  <2>2. \A c \in Due : c.call = "announce" \/ ToRow(c, "began") => c \in Due'
    BY <1>2 DEF Signal
  <2> QED BY <1>1, <2>1, <2>2 DEF There, ToRow, Says
<1> QED BY <1>2, <1>5, <1>7, <1>8, <1>9

LEMMA EndedShown ==
  ASSUME IInv, RInv, RowEnded
  PROVE  RInv'
<1> USE DEF IInv, RInv
<1> DEFINE head == Head(agenda)
           lingering == IF head.outcome \in {"completed", "failed"} /\ RowOf(head.id) # {}
                          THEN {[id |-> head.id, state |-> head.outcome]} ELSE {}
<1>1. /\ Hears("row") /\ head.signal = "ended" /\ Then(<<>>) /\ UNCHANGED <<live, nextId>>
      /\ rows' = (rows \ RowOf(head.id)) \cup lingering
  BY DEF RowEnded
<1> HIDE DEF head
<1>2. /\ BeganFirst' /\ head \in Due /\ head.call = "deliver"
      /\ \A c \in Due' : c \in Due
      /\ \A c \in Due : c.call = "announce" => c \in Due'
      /\ \A c \in Due, s \in Signal : ToRow(c, s) /\ (s # "ended" \/ c.id # head.id) => c \in Due'
  BY <1>1, RowHears DEF head, Signal
<1>3. head.id < nextId /\ ~Live(head.id) /\ Says(head, "ended")
  BY <1>1, <1>2 DEF Coming, Says
<1>4. \A x : (Live(x))' = Live(x)
  BY <1>1 DEF Live
<1>5. Coming' /\ Stopped'
  <2>1. Coming'
    BY <1>1, <1>2, <1>4 DEF Coming, Says
  <2>2. Stopped'
    BY <1>2 DEF Stopped, Says
  <2> QED BY <2>1, <2>2
<1>6. \A r \in rows' : \/ r \in rows /\ r.id # head.id
                       \/ r.id = head.id /\ ~Running(r) /\ head.outcome # "cancelled"
  BY <1>1 DEF RowOf, Running
<1>7. \A r \in rows : r.id # head.id => r \in rows'
  BY <1>1 DEF RowOf
<1> HIDE DEF lingering
<1>8. Ran'
  <2> SUFFICES ASSUME NEW c \in Due', Says(c, "stopping"), NEW r \in rows', r.id = c.id PROVE Running(r)
    BY DEF Ran, Says, Running
  <2>1. r \in rows => Running(r)
    BY <1>2 DEF Ran
  <2>2. r.id = head.id => head.outcome = "cancelled"
    BY <1>2, <1>3 DEF Stopped
  <2> QED BY <1>6, <2>1, <2>2
<1>9. Shown'
  <2> SUFFICES ASSUME NEW r \in rows'
               PROVE  /\ r.id < nextId
                      /\ Running(r) => Live(r.id) \/ \E c \in Due' : ToRow(c, "ended") /\ c.id = r.id
                      /\ Live(r.id) => Running(r)
                      /\ Live(r.id) /\ r.state = "stopping" => live.stopping
                      /\ Live(r.id) /\ live.stopping =>
                           r.state = "stopping" \/ \E c \in Due' : ToRow(c, "stopping") /\ c.id = r.id
    BY <1>1, <1>4 DEF Shown, Running, ToRow, Says
  <2>1. CASE r \in rows /\ r.id # head.id
    <3>1. \A c \in Due : ToRow(c, "stopping") \/ ToRow(c, "ended") => c \in Due' \/ c.id # r.id
      BY <1>2, <2>1 DEF Signal
    <3> QED BY <2>1, <3>1 DEF Shown
  <2>2. CASE r.id = head.id /\ ~Running(r)
    BY <1>3, <2>2
  <2> QED BY <1>6, <2>1, <2>2
<1>10. There'
  <2>1. \A c \in Due : c.call = "announce" \/ ToRow(c, "began") => c \in Due'
    BY <1>2 DEF Signal
  <2>2. live # NoEntry => live.id # head.id
    BY <1>3 DEF Live
  <2> QED BY <1>1, <1>7, <2>1, <2>2 DEF There, ToRow, Says
<1> QED BY <1>2, <1>5, <1>8, <1>9, <1>10

LEMMA RetireRows ==
  ASSUME IInv, RInv, RowRetires \/ UNCHANGED vars
  PROVE  RInv'
<1> USE DEF IInv, RInv
<1>1. UNCHANGED <<live, nextId, agenda>> /\ rows' \subseteq rows
      /\ \A r \in rows : r \in rows' \/ ~Running(r)
  BY DEF RowRetires, vars, Running
<1>2. Due' = Due /\ \A x : (Live(x))' = Live(x)
  BY <1>1 DEF Due, Members, Live
<1>3. BeganFirst'
  BY <1>1 DEF BeganFirst, Says
<1>4. Coming' /\ Stopped' /\ Ran'
  <2>1. Coming'
    BY <1>1, <1>2 DEF Coming, Says
  <2>2. Stopped' /\ Ran'
    BY <1>1, <1>2 DEF Stopped, Ran, Says, Running
  <2> QED BY <2>1, <2>2
<1>5. Shown'
  BY <1>1, <1>2 DEF Shown, Running, ToRow, Says
<1>6. There'
  <2>1. ASSUME live # NoEntry, NEW r \in rows, r.id = live.id PROVE r \in rows'
    BY <1>1, <2>1 DEF Shown, Live
  <2> QED BY <1>1, <1>2, <2>1 DEF There, ToRow, Says
<1> QED BY <1>3, <1>4, <1>5, <1>6

LEMMA HandleRows ==
  ASSUME IInv, RInv, RunHandler, UNCHANGED observers
  PROVE  RInv'
<1> DEFINE id == Head(agenda).id
<1>1. /\ Doing("handler") /\ Calling /\ UNCHANGED <<nextId, rows>>
      /\ \/ Then(<<>>) /\ UNCHANGED live
         \/ /\ Live(id) /\ live' = NoEntry
            /\ Then(Emit("ended", id, IF live.stopping THEN "cancelled" ELSE "unknown"))
  BY DEF RunHandler, Calling
<1>2. id \in Ids
  BY <1>1, Doings DEF Doing, Chore, IInv
<1> HIDE DEF id
<1>3. CASE Then(<<>>) /\ UNCHANGED live
  BY <1>1, <1>3, PassRows
<1>4. CASE /\ Live(id) /\ live' = NoEntry
           /\ Then(Emit("ended", id, IF live.stopping THEN "cancelled" ELSE "unknown"))
  <2> DEFINE told == IF live.stopping THEN "cancelled" ELSE "unknown"
  <2>1. told \in Outcome /\ (live.stopping => told = "cancelled") /\ Then(Emit("ended", id, told))
    BY <1>4 DEF Outcome
  <2> HIDE DEF told
  <2> QED BY <1>1, <1>2, <1>4, <2>1, EndRows
<1> QED BY <1>1, <1>3, <1>4

LEMMA CallRows ==
  ASSUME IInv, RInv, Calling, Call, UNCHANGED observers
  PROVE  RInv'
<1>1. ASSUME NEW id \in Known
      PROVE  id \in Ids /\ \A c \in Due : c.call = "announce" => c.id # id
  <2>1. id \in Ids
    BY RegistryAssumption DEF Known, Ids, IInv, TypeOK
  <2>2. ASSUME NEW i \in 1..Len(agenda), agenda[i].call = "announce" PROVE agenda[i].id # id
    <3>1. agenda[i] \in Chore
      BY DEF IInv, TypeOK
    <3>2. agenda[i] = Announce(agenda[i].id)
      BY <2>2, <3>1 DEF Chore, Announce
    <3>3. agenda[i] # Announce(id)
      BY DEF Known
    <3> QED BY <3>2, <3>3
  <2> QED BY <2>1, <2>2 DEF Due, Members
<1>2. CASE Begin
  BY <1>2, BeginRows
<1>3. ASSUME NEW id \in Known, NEW outcome \in Outcome \ {"cancelled"}, End(id, outcome) PROVE RInv'
  <2>1. UNCHANGED <<nextId, rows>> /\ id \in Ids
    BY <1>1, <1>3 DEF End
  <2>2. CASE Live(id)
    <3> DEFINE told == IF live.stopping THEN "cancelled" ELSE outcome
    <3>1. live' = NoEntry /\ Then(Emit("ended", id, told)) /\ told \in Outcome /\ (live.stopping => told = "cancelled")
      BY <1>3, <2>2 DEF End, Outcome
    <3> HIDE DEF told
    <3> QED BY <2>1, <2>2, <3>1, EndRows
  <2>3. CASE ~Live(id)
    <3>1. Then(<<>>) /\ UNCHANGED live
      BY <1>3, <2>3 DEF End
    <3> QED BY <2>1, <3>1, PassRows
  <2> QED BY <2>2, <2>3
<1>4. ASSUME NEW id \in Known, NEW keep \in BOOLEAN, Cancel(id, keep) PROVE RInv'
  BY <1>1, <1>4, CancelRows
<1> QED BY <1>2, <1>3, <1>4 DEF Call

LEMMA RowsInductive == "began" \notin ReentersFrom /\ Spec => []RInv
<1> SUFFICES ASSUME "began" \notin ReentersFrom PROVE Spec => []RInv
  OBVIOUS
<1>1. Init => RInv
  <2> SUFFICES ASSUME Init PROVE RInv
    OBVIOUS
  <2>1. Len(agenda) = 0 /\ Due = {} /\ rows = {} /\ live = NoEntry
    BY DEF Init, Due, Members
  <2> QED BY <2>1 DEF RInv, BeganFirst, Coming, Stopped, Ran, Shown, There
<1>2. IInv /\ RInv /\ [Next]_vars => RInv'
  <2> SUFFICES ASSUME IInv, RInv, [Next]_vars PROVE RInv'
    OBVIOUS
  <2>1. UNCHANGED observers
    BY DEF Next, vars
  <2>2. CASE AnnounceBegan
    BY <2>1, <2>2, AnnounceRows
  <2>3. CASE RunHandler
    BY <2>1, <2>3, HandleRows
  <2>4. CASE ReactorHears
    <3>1. CASE Then(<<>>) /\ UNCHANGED <<live, nextId, rows, handled, ends, reactions>>
      BY <2>4, <3>1, PassRows DEF ReactorHears
    <3>2. CASE Head(agenda).signal \in ReentersFrom /\ Call
      <4>1. Calling
        BY <2>4, <3>2 DEF ReactorHears, Calling
      <4> QED BY <2>1, <3>2, <4>1, CallRows
    <3> QED BY <2>4, <3>1, <3>2 DEF ReactorHears
  <2>5. CASE RowBegan \/ RowStopping \/ RowEnded
    BY <2>5, BeganShown, StoppingShown, EndedShown
  <2>6. CASE Produce
    BY <2>1, <2>6, CallRows DEF Produce, Calling
  <2>7. CASE RowClicked
    <3>1. PICK r \in rows, keep \in BOOLEAN : Cancel(r.id, keep)
      BY <2>7 DEF RowClicked
    <3>2. r.id \in Ids /\ Calling /\ Due = {}
      BY <2>7 DEF RowClicked, IInv, TypeOK, Row, Calling, Idle, Due, Members
    <3> QED BY <2>1, <3>1, <3>2, CancelRows
  <2>8. CASE RowRetires \/ UNCHANGED vars
    BY <2>8, RetireRows
  <2> QED BY <2>2, <2>3, <2>4, <2>5, <2>6, <2>7, <2>8 DEF Next, Act, Step
<1> QED BY Inductive, <1>1, <1>2, PTL DEF Spec

(* onIngestBegan, onIngestStopping and onIngestEnded keep the dataset's row the *)
(* live ingest's, for any number of ingests and of observers' calls from inside *)
(* a stop or an end.                                                           *)
THEOREM RowsTrue == "began" \notin ReentersFrom /\ Spec => []RowsShowLive
<1>1. IInv /\ RInv => RowsShowLive
  <2> SUFFICES ASSUME IInv, RInv, Idle
               PROVE  {r \in rows : r.state \in {"loading", "stopping"}} =
                        IF live = NoEntry THEN {}
                        ELSE {[id |-> live.id, state |-> IF live.stopping THEN "stopping" ELSE "loading"]}
    BY DEF RowsShowLive
  <2> USE DEF RInv
  <2>1. Due = {} /\ rows \subseteq Row
    BY DEF Due, Members, Idle, IInv, TypeOK
  <2>2. \A r \in rows : /\ Running(r) <=> Live(r.id)
                        /\ Running(r) => (r.state = "stopping" <=> live.stopping)
    BY <2>1 DEF Shown
  <2>3. CASE live = NoEntry
    BY <2>2, <2>3 DEF Running, Live
  <2>4. CASE live # NoEntry
    <3> DEFINE shown == [id |-> live.id, state |-> IF live.stopping THEN "stopping" ELSE "loading"]
    <3>1. ASSUME NEW r \in rows, Running(r) PROVE r = shown
      <4>1. r.id = live.id /\ r.state = IF live.stopping THEN "stopping" ELSE "loading"
        BY <2>2, <3>1 DEF Running, Live
      <4>2. r = [id |-> r.id, state |-> r.state]
        BY <2>1 DEF Row
      <4> QED BY <4>1, <4>2
    <3>2. PICK r \in rows : r.id = live.id
      BY <2>1, <2>4 DEF There
    <3>3. Running(r)
      BY <2>2, <2>4, <3>2 DEF Live
    <3> QED BY <2>4, <3>1, <3>2, <3>3 DEF Running
  <2> QED BY <2>3, <2>4
<1> QED BY Inductive, RowsInductive, <1>1, PTL

-------------------------------------------------------------------------------
(* Proofs about ToolboxIngest for any number of threads and of sequences.     *)
(*                                                                           *)
(* That the shell's row never wedges rests on the order of the queued calls:  *)
(* every begin was posted before the finish of the sequence the word is armed *)
(* for (BeginsFirst), so that nothing shows a row again once that finish has  *)
(* made the word idle (Quiescent), and a claim that was made is under way     *)
(* until it is delivered or the word is armed again (Claims).                 *)

Typed ==
  /\ word \in [gen : Nat, phase : {"idle", "active", "queued"}]
  /\ user \in Threads \cup {NoThread}
  /\ doing \in [Threads -> [step : {"none", "begin", "seal", "mark", "finish"}, gen : Nat]]
  /\ queue \in Seq([kind : {"begin", "finish", "notify"}, gen : Nat])
  /\ shell \in Nat

(* No call is of a sequence the word was not armed for yet. *)
Numbered ==
  /\ word.phase # "idle" => word.gen > 0
  /\ \A i \in 1 .. Len(queue) : queue[i].gen <= word.gen /\ (queue[i].kind = "begin" => queue[i].gen > 0)
  /\ \A th \in Threads : doing[th].gen <= word.gen

(* A begin that is still to be posted is that of the active sequence, by its user. *)
Beginning ==
  \A th \in Threads :
    doing[th].step = "begin" => user = th /\ word.phase = "active" /\ doing[th].gen = word.gen

Claims ==
  /\ word.phase = "queued" => Underway(word.gen)
  /\ word.phase = "active" => ~Underway(word.gen)

BeginsFirst ==
  \A i, j \in 1 .. Len(queue) :
    i < j /\ queue[i] = [kind |-> "finish", gen |-> word.gen] => queue[j].kind # "begin"

Quiescent ==
  word.phase = "idle" => shell = 0 /\ \A i \in 1 .. Len(queue) : queue[i].kind # "begin"

ToolboxInv == Typed /\ Numbered /\ Beginning /\ Claims /\ BeginsFirst /\ Quiescent

(* What is under way, in the queue and at the threads. *)
Posted(gen) == \E i \in 1 .. Len(queue) : queue[i] = [kind |-> "finish", gen |-> gen]
YetToPost(gen) == \E th \in Threads : doing[th].gen = gen /\ doing[th].step \in {"seal", "mark", "finish"}

LEMMA Parts == \A gen : Underway(gen) <=> Posted(gen) \/ YetToPost(gen)
BY DEF Underway, Posted, YetToPost

-----------------------------------------------------------------------------
LEMMA ToolboxInitially == ToolboxInit => ToolboxInv
BY ToolboxAssumption DEF ToolboxInit, ToolboxInv, Typed, Numbered, Beginning, Claims, BeginsFirst, Quiescent, NothingToDo

LEMMA GensNat == ASSUME Typed, NEW i \in 1 .. Len(queue) PROVE queue[i].gen \in Nat
<1> DEFINE Posts == [kind : {"begin", "finish", "notify"}, gen : Nat]
<1>1. queue \in Seq(Posts)
  BY DEF Typed
<1> HIDE DEF Posts
<1>2. queue[i] \in Posts
  BY <1>1
<1> QED BY <1>2 DEF Posts

(* A call that only appends a notify, or touches none of this. *)
LEMMA Aside ==
  ASSUME ToolboxInv, UNCHANGED <<word, doing, shell>>, user' \in Threads \cup {NoThread},
         user' = user \/ \A th \in Threads : doing[th].step # "begin",
         queue' = queue \/ queue' = Append(queue, [kind |-> "notify", gen |-> 0])
  PROVE  ToolboxInv'
<1> USE DEF ToolboxInv
<1>1. CASE queue' = queue
  BY <1>1 DEF Typed, Numbered, Beginning, Claims, BeginsFirst, Quiescent, Underway
<1>2. CASE queue' = Append(queue, [kind |-> "notify", gen |-> 0])
  <2>1. /\ Len(queue) \in Nat /\ Len(queue') = Len(queue) + 1
        /\ \A i \in 1 .. Len(queue) : queue'[i] = queue[i]
        /\ queue'[Len(queue) + 1] = [kind |-> "notify", gen |-> 0]
        /\ \A i \in 1 .. Len(queue') : i \in 1 .. Len(queue) \/ i = Len(queue) + 1
    BY <1>2 DEF Typed
  <2>2. Typed'
    BY <1>2 DEF Typed
  <2>3. Numbered'
    <3>1. \A i \in 1 .. Len(queue') : queue'[i].gen <= word.gen /\ (queue'[i].kind = "begin" => queue'[i].gen > 0)
      BY <2>1 DEF Typed, Numbered
    <3> QED BY <3>1 DEF Numbered
  <2>3a. Beginning'
    BY DEF Beginning
  <2>4. \A gen : Posted(gen)' <=> Posted(gen)
    BY <2>1 DEF Posted
  <2>5. Claims'
    BY <2>4, Parts DEF Claims, Underway, Posted
  <2>6. BeginsFirst' /\ Quiescent'
    BY <2>1 DEF BeginsFirst, Quiescent
  <2> QED BY <2>2, <2>3, <2>3a, <2>5, <2>6
<1> QED BY <1>1, <1>2

LEMMA Starting == ASSUME ToolboxInv, NEW th \in Threads, Start(th) PROVE ToolboxInv'
<1> USE DEF ToolboxInv
<1> DEFINE gen == word.gen + 1
           begin == [step |-> "begin", gen |-> gen]
<1>1. /\ word' = [gen |-> gen, phase |-> "active"] /\ UNCHANGED <<user, queue>>
      /\ doing[th] = NothingToDo /\ user = th
      /\ doing' = doing \/ doing' = [doing EXCEPT ![th] = begin]
      /\ shell' = shell \/ shell' = gen
  BY DEF Start, Free
<1>2. gen \in Nat /\ gen > word.gen /\ word.gen \in Nat /\ gen > 0
  BY DEF Typed
<1>3. begin \in [step : {"begin"}, gen : Nat] /\ begin.gen = gen /\ begin.step = "begin"
  BY <1>2
<1> HIDE DEF gen, begin
<1>4. word'.gen = gen /\ word'.phase = "active"
  BY <1>1
<1>5. \A t \in Threads : doing'[t] = doing[t] \/ (t = th /\ doing'[t] = begin)
  BY <1>1 DEF Typed
<1>6. Typed'
  <2>1. doing' \in [Threads -> [step : {"none", "begin", "seal", "mark", "finish"}, gen : Nat]]
    BY <1>1, <1>3 DEF Typed
  <2> QED BY <1>1, <1>2, <2>1 DEF Typed
<1>7. Numbered'
  <2>1. \A i \in 1 .. Len(queue) : queue[i].gen <= gen
    <3> SUFFICES ASSUME NEW i \in 1 .. Len(queue) PROVE queue[i].gen <= gen
      OBVIOUS
    <3>1. queue[i].gen \in Nat
      BY GensNat
    <3>2. queue[i].gen <= word.gen
      BY DEF Numbered
    <3> QED BY <1>2, <3>1, <3>2
  <2>2. \A t \in Threads : doing'[t].gen <= gen
    BY <1>2, <1>3, <1>5 DEF Typed, Numbered
  <2> QED BY <1>1, <1>2, <1>4, <2>1, <2>2 DEF Numbered
<1>8. Beginning'
  BY <1>1, <1>3, <1>4, <1>5 DEF Beginning, NothingToDo
<1>9. \A i \in 1 .. Len(queue) : queue[i] # [kind |-> "finish", gen |-> gen]
  BY <1>2 DEF Typed, Numbered
<1>10. \A t \in Threads : ~(doing'[t].gen = gen /\ doing'[t].step \in {"seal", "mark", "finish"})
  BY <1>2, <1>3, <1>5 DEF Typed, Numbered
<1>11. Claims'
  BY <1>1, <1>4, <1>9, <1>10 DEF Claims, Underway
<1>12. BeginsFirst' /\ Quiescent'
  BY <1>1, <1>4, <1>9 DEF BeginsFirst, Quiescent
<1> QED BY <1>6, <1>7, <1>8, <1>11, <1>12

(* The claim of a finish, a release or a discard: who makes it, in its next  *)
(* step or after the seal, owes the finish of the sequence it claimed.        *)
LEMMA Claiming ==
  ASSUME ToolboxInv, NEW th \in Threads, doing[th] = NothingToDo, Claim, UNCHANGED <<queue, shell>>,
         \A t \in Threads : doing[t].step # "begin", user' \in Threads \cup {NoThread},
         NEW next \in [step : {"none", "seal", "finish"}, gen : Nat],
         doing' = [doing EXCEPT ![th] = next], next.gen = Claimed,
         next.gen > 0 => next.step \in {"seal", "finish"}
  PROVE  ToolboxInv'
<1> USE DEF ToolboxInv
<1>1. word' = [word EXCEPT !.phase = IF word.phase = "active" THEN "queued" ELSE word.phase]
      /\ word'.gen = word.gen /\ word.gen \in Nat /\ word'.phase # "active"
      /\ (word'.phase = "idle" <=> word.phase = "idle")
  BY DEF Claim, Typed
<1>2. Typed'
  BY <1>1 DEF Typed
<1>3. Numbered'
  BY <1>1 DEF Typed, Numbered, Claimed
<1>4. Beginning'
  BY DEF Beginning, Typed
<1>5. ASSUME word'.phase = "queued" PROVE Underway(word.gen)'
  <2>1. CASE word.phase = "active"
    <3>1. doing'[th] = next /\ next.gen = word.gen /\ next.step \in {"seal", "finish"}
      BY <2>1 DEF Claimed, Numbered, Typed
    <3> QED BY <1>1, <3>1 DEF Underway
  <2>2. CASE word.phase = "queued"
    <3>1. word.gen > 0 /\ (Posted(word.gen) \/ YetToPost(word.gen))
      BY <2>2, Parts DEF Numbered, Claims
    <3>2. CASE Posted(word.gen)
      BY <1>1, <3>2 DEF Posted, Underway
    <3>3. CASE YetToPost(word.gen)
      <4>1. PICK t \in Threads : doing[t].gen = word.gen /\ doing[t].step \in {"seal", "mark", "finish"}
        BY <3>3 DEF YetToPost
      <4>2. doing'[t] = doing[t]
        BY <4>1 DEF NothingToDo, Typed
      <4> QED BY <1>1, <4>1, <4>2 DEF Underway
    <3> QED BY <3>1, <3>2, <3>3
  <2> QED BY <1>1, <1>5, <2>1, <2>2 DEF Typed
<1>6. Claims'
  BY <1>1, <1>5 DEF Claims, Underway
<1>7. BeginsFirst' /\ Quiescent'
  BY <1>1 DEF BeginsFirst, Quiescent
<1> QED BY <1>2, <1>3, <1>4, <1>6, <1>7

LEMMA PluginCalling == ASSUME ToolboxInv, NEW th \in Threads, PluginCall(th) PROVE ToolboxInv'
<1> USE DEF ToolboxInv
<1>1. CASE Create(th)
  <2>1. \A t \in Threads : doing[t].step # "begin"
    BY <1>1, ToolboxAssumption DEF Create, Beginning
  <2> QED BY <1>1, <2>1, Aside DEF Create
<1>2. CASE Start(th)
  BY <1>2, Starting
<1>3. CASE FinishHook(th) \/ Release(th) \/ Discard(th)
  <2>1. \A t \in Threads : doing[t].step # "begin"
    BY <1>3, ToolboxAssumption DEF FinishHook, Release, Discard, NoHookRuns, Free, NothingToDo, Beginning, Typed
  <2>2. Claimed \in Nat
    BY DEF Claimed, Typed
  <2>3. /\ doing[th] = NothingToDo /\ Claim /\ UNCHANGED <<queue, shell>> /\ user' \in Threads \cup {NoThread}
        /\ \/ doing' = [doing EXCEPT ![th] = PostsFinish(Claimed)]
           \/ doing' = [doing EXCEPT ![th] = [step |-> "seal", gen |-> Claimed]]
    BY <1>3 DEF FinishHook, Release, Discard, Free, Typed
  <2>4. PostsFinish(Claimed) \in [step : {"none", "seal", "finish"}, gen : Nat]
        /\ PostsFinish(Claimed).gen = Claimed
        /\ (PostsFinish(Claimed).gen > 0 => PostsFinish(Claimed).step \in {"seal", "finish"})
    BY <2>2 DEF PostsFinish, NothingToDo
  <2>5. CASE doing' = [doing EXCEPT ![th] = PostsFinish(Claimed)]
    BY <2>1, <2>3, <2>4, <2>5, Claiming
  <2>6. CASE doing' = [doing EXCEPT ![th] = [step |-> "seal", gen |-> Claimed]]
    <3> DEFINE seal == [step |-> "seal", gen |-> Claimed]
    <3>1. /\ seal \in [step : {"none", "seal", "finish"}, gen : Nat]
          /\ seal.gen = Claimed /\ (seal.gen > 0 => seal.step \in {"seal", "finish"})
          /\ doing' = [doing EXCEPT ![th] = seal]
      BY <2>2, <2>6
    <3> HIDE DEF seal
    <3> QED BY <2>1, <2>3, <3>1, Claiming
  <2> QED BY <2>3, <2>5, <2>6
<1>4. CASE Notify(th)
  BY <1>4, Aside DEF Notify, Post, Report, Typed
<1> QED BY <1>1, <1>2, <1>3, <1>4 DEF PluginCall

-----------------------------------------------------------------------------
(* A thread goes on with its call: what it still owes moves towards the queue. *)
LEMMA Posting ==
  ASSUME ToolboxInv, NEW th \in Threads, PostBegin(th) \/ PostFinish(th)
  PROVE  ToolboxInv'
<1> USE DEF ToolboxInv
<1> DEFINE kind == doing[th].step
           call == [kind |-> kind, gen |-> doing[th].gen]
<1>1. /\ kind \in {"begin", "finish"} /\ queue' = Append(queue, call)
      /\ doing' = [doing EXCEPT ![th] = NothingToDo]
      /\ UNCHANGED <<word, user, shell>>
  BY DEF PostBegin, PostFinish, Does, Post
<1>2. /\ call \in [kind : {"begin", "finish", "notify"}, gen : Nat]
      /\ call.kind = kind /\ call.gen = doing[th].gen /\ call.gen <= word.gen
  BY <1>1 DEF Typed, Numbered
<1> HIDE DEF call
<1>3. /\ Len(queue) \in Nat /\ Len(queue') = Len(queue) + 1
      /\ \A i \in 1 .. Len(queue) : queue'[i] = queue[i]
      /\ queue'[Len(queue) + 1] = call
      /\ \A i \in 1 .. Len(queue') : i \in 1 .. Len(queue) \/ i = Len(queue) + 1
  BY <1>1, <1>2 DEF Typed
<1>4. \A t \in Threads : doing'[t] = IF t = th THEN NothingToDo ELSE doing[t]
  BY <1>1 DEF Typed
<1>5. NothingToDo \in [step : {"none"}, gen : Nat] /\ NothingToDo.gen = 0 /\ NothingToDo.step = "none"
  BY DEF NothingToDo
<1>6. Typed'
  <2>1. queue' \in Seq([kind : {"begin", "finish", "notify"}, gen : Nat])
    BY <1>1, <1>2 DEF Typed
  <2>2. doing' \in [Threads -> [step : {"none", "begin", "seal", "mark", "finish"}, gen : Nat]]
    BY <1>1, <1>5 DEF Typed
  <2> QED BY <1>1, <2>1, <2>2 DEF Typed
<1>7. kind = "begin" => word.phase = "active" /\ call.gen = word.gen
  BY <1>2 DEF Beginning
<1>8. Numbered'
  <2>1. \A i \in 1 .. Len(queue') : queue'[i].gen <= word.gen /\ (queue'[i].kind = "begin" => queue'[i].gen > 0)
    BY <1>2, <1>3, <1>7 DEF Numbered
  <2>2. \A t \in Threads : doing'[t].gen <= word.gen
    <3>1. word.gen \in Nat
      BY DEF Typed
    <3> QED BY <1>4, <1>5, <3>1 DEF Numbered
  <2> QED BY <1>1, <2>1, <2>2 DEF Numbered
<1>9. Beginning'
  BY <1>1, <1>4, <1>5 DEF Beginning
<1>10. ASSUME word.phase = "queued" PROVE Underway(word.gen)'
  <2>1. Posted(word.gen) \/ YetToPost(word.gen)
    BY <1>10, Parts DEF Claims
  <2>2. CASE Posted(word.gen)
    <3>1. PICK i \in 1 .. Len(queue) : queue[i] = [kind |-> "finish", gen |-> word.gen]
      BY <2>2 DEF Posted
    <3>2. i \in 1 .. Len(queue') /\ queue'[i] = queue[i]
      BY <1>3
    <3> QED BY <1>1, <3>1, <3>2 DEF Underway
  <2>3. CASE YetToPost(word.gen)
    <3>1. PICK t \in Threads : doing[t].gen = word.gen /\ doing[t].step \in {"seal", "mark", "finish"}
      BY <2>3 DEF YetToPost
    <3>2. CASE t = th
      <4>1. call = [kind |-> "finish", gen |-> word.gen]
        BY <1>1, <3>1, <3>2 DEF call
      <4>2. Len(queue) + 1 \in 1 .. Len(queue')
        BY <1>3
      <4> QED BY <1>1, <1>3, <4>1, <4>2 DEF Underway
    <3>3. CASE t # th
      BY <1>1, <1>4, <3>1, <3>3 DEF Underway
    <3> QED BY <3>2, <3>3
  <2> QED BY <2>1, <2>2, <2>3
<1>11. ASSUME word.phase = "active" PROVE ~Underway(word.gen)'
  <2>1. ~Posted(word.gen) /\ ~YetToPost(word.gen)
    BY <1>11, Parts DEF Claims
  <2>2. call # [kind |-> "finish", gen |-> word.gen]
    BY <1>1, <1>2, <2>1 DEF YetToPost
  <2>3. \A i \in 1 .. Len(queue') : queue'[i] # [kind |-> "finish", gen |-> word.gen]
    BY <1>3, <2>1, <2>2 DEF Posted
  <2>4. \A t \in Threads : ~(doing'[t].gen = word.gen /\ doing'[t].step \in {"seal", "mark", "finish"})
    BY <1>4, <1>5, <2>1 DEF YetToPost
  <2> QED BY <1>1, <2>3, <2>4 DEF Underway
<1>12. Claims'
  BY <1>1, <1>10, <1>11 DEF Claims
<1>13. BeginsFirst'
  <2> SUFFICES ASSUME NEW i \in 1 .. Len(queue'), NEW j \in 1 .. Len(queue'), i < j,
                      queue'[i] = [kind |-> "finish", gen |-> word.gen]
               PROVE  queue'[j].kind # "begin"
    BY <1>1 DEF BeginsFirst
  <2>1. i \in 1 .. Len(queue) /\ queue[i] = [kind |-> "finish", gen |-> word.gen]
    BY <1>3
  <2>2. CASE j \in 1 .. Len(queue)
    BY <1>3, <2>1, <2>2 DEF BeginsFirst
  <2>3. CASE j = Len(queue) + 1
    <3>1. word.phase # "active"
      BY <2>1, Parts DEF Claims, Posted
    <3> QED BY <1>2, <1>3, <1>7, <2>3, <3>1
  <2> QED BY <1>3, <2>2, <2>3
<1>14. Quiescent'
  BY <1>1, <1>2, <1>3, <1>7 DEF Quiescent
<1> QED BY <1>6, <1>8, <1>9, <1>12, <1>13, <1>14

LEMMA Sealing == ASSUME ToolboxInv, NEW th \in Threads, Seal(th) \/ Mark(th) PROVE ToolboxInv'
<1> USE DEF ToolboxInv
<1> DEFINE next == IF Does(th, "seal") THEN [step |-> "mark", gen |-> doing[th].gen]
                   ELSE PostsFinish(doing[th].gen)
<1>1. /\ doing[th].step \in {"seal", "mark"} /\ UNCHANGED <<word, user, queue, shell>>
      /\ doing' = [doing EXCEPT ![th] = next]
  <2>1. doing[th] = [step |-> doing[th].step, gen |-> doing[th].gen]
    BY DEF Typed
  <2>2. CASE Seal(th)
    <3>1. [doing[th] EXCEPT !.step = "mark"] = [step |-> "mark", gen |-> doing[th].gen]
      BY DEF Typed
    <3>2. doing' = [doing EXCEPT ![th] = [doing[th] EXCEPT !.step = "mark"]]
      BY <2>2 DEF Seal
    <3> QED BY <2>2, <3>1, <3>2 DEF Seal, Does
  <2>3. CASE Mark(th)
    BY <2>3 DEF Mark, Does
  <2> QED BY <2>2, <2>3
<1>2. /\ next \in [step : {"none", "mark", "finish"}, gen : Nat] /\ next.gen = doing[th].gen
      /\ next.gen > 0 => next.step \in {"mark", "finish"}
  BY DEF PostsFinish, NothingToDo, Typed
<1> HIDE DEF next
<1>3. \A t \in Threads : doing'[t] = IF t = th THEN next ELSE doing[t]
  BY <1>1 DEF Typed
<1>4. Typed'
  BY <1>1, <1>2 DEF Typed
<1>5. Numbered' /\ Beginning'
  BY <1>1, <1>2, <1>3 DEF Numbered, Beginning
<1>6. word.gen > 0 => (YetToPost(word.gen)' <=> YetToPost(word.gen))
  BY <1>1, <1>2, <1>3 DEF YetToPost
<1>7. Posted(word.gen)' <=> Posted(word.gen)
  BY <1>1 DEF Posted
<1>8. word.phase # "idle" => (Underway(word.gen)' <=> Underway(word.gen))
  BY <1>1, <1>6, <1>7 DEF Underway, Posted, YetToPost, Numbered
<1>9. Claims'
  BY <1>1, <1>8 DEF Claims
<1>10. BeginsFirst' /\ Quiescent'
  BY <1>1 DEF BeginsFirst, Quiescent
<1> QED BY <1>4, <1>5, <1>9, <1>10

-----------------------------------------------------------------------------
LEMMA Delivering == ASSUME ToolboxInv, DeliverNext PROVE ToolboxInv'
<1> USE DEF ToolboxInv
<1>1. /\ queue # <<>> /\ queue' = Tail(queue) /\ UNCHANGED <<user, doing>>
      /\ Head(queue) \in [kind : {"begin", "finish", "notify"}, gen : Nat] /\ Head(queue) = queue[1]
  <2>1. queue # <<>> /\ queue' = Tail(queue) /\ UNCHANGED <<user, doing>>
    BY DEF DeliverNext, DeliverBegin, DeliverFinish, DeliverNotify, Delivers
  <2> DEFINE Posts == [kind : {"begin", "finish", "notify"}, gen : Nat]
  <2>2. queue \in Seq(Posts)
    BY DEF Typed
  <2> HIDE DEF Posts
  <2>3. Head(queue) \in Posts /\ Head(queue) = queue[1]
    BY <2>1, <2>2
  <2> QED BY <2>1, <2>3 DEF Posts
<1>2. /\ Len(queue) \in Nat \ {0} /\ Len(queue') = Len(queue) - 1
      /\ \A i \in 1 .. Len(queue') : i + 1 \in 1 .. Len(queue) /\ queue'[i] = queue[i + 1]
      /\ \A i \in 2 .. Len(queue) : i - 1 \in 1 .. Len(queue') /\ queue'[i - 1] = queue[i]
      /\ queue' \in Seq([kind : {"begin", "finish", "notify"}, gen : Nat])
  BY <1>1 DEF Typed
<1>3. 1 \in 1 .. Len(queue)
  BY <1>2
<1> DEFINE match == Head(queue).kind = "finish" /\ word = [gen |-> Head(queue).gen, phase |-> "queued"]
<1>4. IF match THEN word' = [word EXCEPT !.phase = "idle"] /\ shell' = 0
      ELSE word' = word /\ (shell' = shell \/ (Head(queue).kind = "begin" /\ shell' = Head(queue).gen))
  BY DEF DeliverNext, DeliverBegin, DeliverFinish, DeliverNotify, Delivers
<1>5. word'.gen = word.gen /\ Typed'
  BY <1>1, <1>2, <1>4 DEF Typed
<1>6. Numbered'
  <2>1. \A i \in 1 .. Len(queue') : queue'[i].gen <= word.gen /\ (queue'[i].kind = "begin" => queue'[i].gen > 0)
    BY <1>2 DEF Numbered
  <2>2. word'.phase # "idle" => word.phase # "idle"
    BY <1>4 DEF Typed
  <2> QED BY <1>1, <1>5, <2>1, <2>2 DEF Numbered
<1>7. Beginning'
  <2>1. match => \A t \in Threads : doing[t].step # "begin"
    BY DEF Beginning
  <2> QED BY <1>1, <1>4, <2>1 DEF Beginning
<1>8. BeginsFirst'
  <2> SUFFICES ASSUME NEW i \in 1 .. Len(queue'), NEW j \in 1 .. Len(queue'), i < j,
                      queue'[i] = [kind |-> "finish", gen |-> word.gen]
               PROVE  queue'[j].kind # "begin"
    BY <1>5 DEF BeginsFirst
  <2>1. i + 1 \in 1 .. Len(queue) /\ j + 1 \in 1 .. Len(queue) /\ i + 1 < j + 1
    BY <1>2
  <2> QED BY <1>2, <2>1 DEF BeginsFirst
<1>9. CASE match
  <2>1. queue[1] = [kind |-> "finish", gen |-> word.gen]
    BY <1>1, <1>9
  <2>2. \A i \in 1 .. Len(queue') : queue'[i].kind # "begin"
    BY <1>2, <1>3, <2>1 DEF BeginsFirst
  <2>3. word'.phase = "idle" /\ shell' = 0
    BY <1>4, <1>9 DEF Typed
  <2> QED BY <1>5, <1>6, <1>7, <1>8, <2>2, <2>3 DEF Claims, Quiescent
<1>10. CASE ~match
  <2>1. word' = word
    BY <1>4, <1>10
  <2>2. Quiescent'
    <3> SUFFICES ASSUME word.phase = "idle"
                 PROVE  shell' = 0 /\ \A i \in 1 .. Len(queue') : queue'[i].kind # "begin"
      BY <2>1 DEF Quiescent
    <3>1. shell = 0 /\ \A i \in 1 .. Len(queue) : queue[i].kind # "begin"
      BY DEF Quiescent
    <3> QED BY <1>1, <1>2, <1>3, <1>4, <1>10, <3>1
  <2>3. ASSUME word.phase = "queued" PROVE Underway(word.gen)'
    <3>1. Posted(word.gen) \/ YetToPost(word.gen)
      BY <2>3, Parts DEF Claims
    <3>2. CASE Posted(word.gen)
      <4>1. PICK i \in 1 .. Len(queue) : queue[i] = [kind |-> "finish", gen |-> word.gen]
        BY <3>2 DEF Posted
      <4>2. i # 1
        <5> SUFFICES ASSUME i = 1 PROVE FALSE
          OBVIOUS
        <5>1. Head(queue).kind = "finish" /\ Head(queue).gen = word.gen
          BY <1>1, <4>1
        <5>2. word = [gen |-> word.gen, phase |-> word.phase]
          BY DEF Typed
        <5> QED BY <1>10, <2>3, <5>1, <5>2
      <4>3. i - 1 \in 1 .. Len(queue') /\ queue'[i - 1] = [kind |-> "finish", gen |-> word.gen]
        BY <1>2, <4>1, <4>2
      <4> QED BY <2>1, <4>3 DEF Underway
    <3>3. CASE YetToPost(word.gen)
      BY <1>1, <2>1, <3>3 DEF YetToPost, Underway
    <3> QED BY <3>1, <3>2, <3>3
  <2>4. ASSUME word.phase = "active" PROVE ~Underway(word.gen)'
    <3>1. ~Posted(word.gen) /\ ~YetToPost(word.gen)
      BY <2>4, Parts DEF Claims
    <3>2. ~Posted(word.gen)' /\ ~YetToPost(word.gen)'
      BY <1>1, <1>2, <2>1, <3>1 DEF Posted, YetToPost
    <3> QED BY <3>2 DEF Underway, Posted, YetToPost
  <2>5. Claims'
    BY <2>1, <2>3, <2>4 DEF Claims
  <2> QED BY <1>5, <1>6, <1>7, <1>8, <2>2, <2>5
<1> QED BY <1>9, <1>10

LEMMA Destroying == ASSUME ToolboxInv, Destroy PROVE ToolboxInv'
<1> USE DEF ToolboxInv
<1>1. /\ queue' = <<>> /\ word' = [gen |-> 0, phase |-> "idle"] /\ shell' = 0
      /\ UNCHANGED doing /\ \A th \in Threads : doing[th] = NothingToDo
      /\ user' = NoThread
  BY DEF Destroy, Quiescent
<1>2. NothingToDo.gen = 0 /\ NothingToDo.step = "none"
  BY DEF NothingToDo
<1>3. Typed'
  BY <1>1 DEF Typed
<1>4. Numbered' /\ Beginning'
  BY <1>1, <1>2 DEF Numbered, Beginning
<1> QED BY <1>1, <1>3, <1>4 DEF Claims, BeginsFirst, Quiescent

-----------------------------------------------------------------------------
LEMMA Invariance == ToolboxSpec => []ToolboxInv
<1>1. ASSUME ToolboxInv, [ToolboxNext]_toolboxVars PROVE ToolboxInv'
  <2>1. CASE UNCHANGED toolboxVars
    <3>1. UNCHANGED <<word, doing, shell, user, queue>>
      BY <2>1 DEF toolboxVars
    <3>2. user' \in Threads \cup {NoThread}
      BY <1>1, <3>1 DEF ToolboxInv, Typed
    <3> QED BY <1>1, <3>1, <3>2, Aside
  <2> QED BY <1>1, <2>1, PluginCalling, Posting, Sealing, Delivering, Destroying DEF ToolboxNext, Continue
<1> QED BY ToolboxInitially, <1>1, PTL DEF ToolboxSpec

(* The shell's import row never wedges, for any number of the plugin's threads *)
(* and of import sequences: whatever releases, re-creates or re-arms the       *)
(* context, a row it shows is active or its finish is on its way.              *)
THEOREM NeverWedged == ToolboxSpec => []NoWedgedRow
<1>1. ToolboxInv => NoWedgedRow
  BY DEF ToolboxInv, Typed, Quiescent, Claims, NoWedgedRow
<1> QED BY Invariance, <1>1, PTL

(* No finish that was queued for one sequence retires the row of the next. *)
THEOREM NeverStolen == ToolboxSpec => NoStolenFinish
<1>1. ASSUME ToolboxInv, [ToolboxNext]_toolboxVars
      PROVE  [up' /\ shell # 0 /\ shell' = 0 => word.phase # "active"]_toolboxVars
  <2> SUFFICES ASSUME up', shell # 0, shell' = 0 PROVE word.phase # "active"
    OBVIOUS
  <2>1. shell' # shell
    OBVIOUS
  <2>2. ~UNCHANGED toolboxVars /\ ~Destroy
    BY <2>1 DEF toolboxVars, Destroy
  <2>3. CASE \E th \in Threads : PluginCall(th) \/ Continue(th)
    <3>1. PICK th \in Threads : Start(th)
      BY <2>1, <2>3 DEF PluginCall, Continue, Create, FinishHook, Release, Discard, Notify, PostBegin, PostFinish, Seal, Mark
    <3>2. word.gen + 1 # 0
      BY <1>1 DEF ToolboxInv, Typed
    <3> QED BY <2>1, <3>1, <3>2 DEF Start
  <2>4. CASE DeliverBegin
    <3>1. Head(queue).kind = "begin" /\ Head(queue).gen = 0 /\ queue # <<>>
      BY <2>4 DEF DeliverBegin, Delivers
    <3>2. 1 \in 1 .. Len(queue) /\ Head(queue) = queue[1]
      BY <1>1, <3>1 DEF ToolboxInv, Typed
    <3> QED BY <1>1, <3>1, <3>2 DEF ToolboxInv, Numbered
  <2>5. CASE DeliverFinish \/ DeliverNotify
    <3>1. word = [gen |-> Head(queue).gen, phase |-> "queued"]
      BY <2>1, <2>5 DEF DeliverFinish, DeliverNotify
    <3>2. word.phase = "queued"
      BY <3>1
    <3> QED BY <3>2
  <2> QED BY <1>1, <2>2, <2>3, <2>4, <2>5 DEF ToolboxNext, DeliverNext
<1> QED BY Invariance, <1>1, PTL DEF ToolboxSpec, NoStolenFinish

-------------------------------------------------------------------------------
(* Proofs about TopicDemand for any datasets, topics and slots, and calls that *)
(* nest to any depth.  The inductive invariant says what is still to be told:  *)
(* a flip that was not told yet has its statement on the stack (FlipsOwed), an *)
(* active set that moved has its recomputation (RecomputeOwed), and the set    *)
(* last emitted is the last one that reaches each slot, by the loop's pending  *)
(* set, by the emission being served, or because it was told (NewestLast).     *)
(* The last needs the shape of the stack: one loop, at most one emission, and  *)
(* that one served inside the loop (OneLoop); and that clearDataset's empty    *)
(* set is handed over before any slot may call a mutator (EmptiesFirst).       *)

Has(w, e) == \E i \in 1..Len(w) : w[i] = e

FlipsOwed ==
  \A d \in Datasets :
    /\ gate[d] # Referenced(d) => Has(work, Reference(d))
    /\ badges[d] # tiers[d]["forced"] => Has(work, Forced(d))

RecomputeOwed == \A d \in Datasets : Active(d) # lastEmitted[d] => Has(work, Recompute(d))

EmptiesFirst ==
  \A i \in 1..Len(work) :
    work[i].do = "deliver" =>
      /\ lastEmitted[work[i].ds] = {}
      /\ \A j \in 1..Len(work) : j < i => work[j].do \in {"forced", "reference"}

OneLoop ==
  /\ emitting <=> Has(work, Loop)
  /\ DOMAIN pending # {} => emitting
  /\ \A i \in 1..Len(work) : work[i].do = "active" => emitting
  /\ \A i, j \in 1..Len(work) : work[i] = Loop /\ work[j] = Loop => i = j
  /\ \A i, j \in 1..Len(work) : work[i].do = "active" /\ work[j].do = "active" => i = j
  /\ \A i, j \in 1..Len(work) : work[i] = Loop /\ work[j].do = "active" => j < i

NewestFor(d) ==
  \/ Has(work, Deliver(d))
  \/ d \in DOMAIN pending /\ pending[d] = lastEmitted[d]
  \/ /\ d \notin DOMAIN pending
     /\ \A i \in 1..Len(work) : work[i].do = "active" /\ work[i].ds = d => work[i].set = lastEmitted[d]
     /\ \A s \in Slots :
          \/ heard[s][d] = lastEmitted[d]
          \/ \E i \in 1..Len(work) : work[i].do = "active" /\ work[i].ds = d /\ work[i].slot <= s

NewestLast == \A d \in Datasets : NewestFor(d)

DemandInv == DemandTypeOK /\ FlipsOwed /\ RecomputeOwed /\ EmptiesFirst /\ OneLoop /\ NewestLast

-----------------------------------------------------------------------------
(* The stack of statements. *)

LEMMA Under ==
  ASSUME NEW s \in Seq(Statement), NEW w \in Seq(Statement)
  PROVE  /\ s \o w \in Seq(Statement)
         /\ Len(s \o w) = Len(s) + Len(w)
         /\ \A i \in 1..Len(s) : (s \o w)[i] = s[i]
         /\ \A i \in 1..Len(w) : (s \o w)[Len(s) + i] = w[i]
         /\ \A i \in 1..Len(s \o w) :
              i \in 1..Len(s) \/ (i - Len(s) \in 1..Len(w) /\ (s \o w)[i] = w[i - Len(s)])
         /\ \A e : Has(s \o w, e) <=> Has(s, e) \/ Has(w, e)
<1>1. /\ s \o w \in Seq(Statement) /\ Len(s \o w) = Len(s) + Len(w)
      /\ Len(s) \in Nat /\ Len(w) \in Nat
      /\ \A i \in 1..Len(s) + Len(w) : (s \o w)[i] = IF i <= Len(s) THEN s[i] ELSE w[i - Len(s)]
  BY ConcatProperties
<1>2. \A i \in 1..Len(s) : (s \o w)[i] = s[i]
  BY <1>1
<1>3. \A i \in 1..Len(w) : (s \o w)[Len(s) + i] = w[i]
  BY <1>1
<1>4. \A i \in 1..Len(s \o w) :
        i \in 1..Len(s) \/ (i - Len(s) \in 1..Len(w) /\ (s \o w)[i] = w[i - Len(s)])
  BY <1>1
<1>5. ASSUME NEW e PROVE Has(s \o w, e) <=> Has(s, e) \/ Has(w, e)
  <2>1. ASSUME NEW i \in 1..Len(s \o w), (s \o w)[i] = e PROVE Has(s, e) \/ Has(w, e)
    BY <2>1, <1>2, <1>4 DEF Has
  <2>2. ASSUME NEW i \in 1..Len(s), s[i] = e PROVE Has(s \o w, e)
    <3>1. i \in 1..Len(s \o w) /\ (s \o w)[i] = e
      BY <2>2, <1>1, <1>2
    <3> QED BY <3>1 DEF Has
  <2>3. ASSUME NEW i \in 1..Len(w), w[i] = e PROVE Has(s \o w, e)
    <3>1. Len(s) + i \in 1..Len(s \o w) /\ (s \o w)[Len(s) + i] = e
      BY <2>3, <1>1, <1>3
    <3> QED BY <3>1 DEF Has
  <2> QED BY <2>1, <2>2, <2>3 DEF Has
<1> QED BY <1>1, <1>2, <1>3, <1>4, <1>5

LEMMA Below ==
  ASSUME NEW w \in Seq(Statement), w # <<>>
  PROVE  /\ Tail(w) \in Seq(Statement)
         /\ Len(w) \in Nat /\ Len(w) >= 1 /\ Len(Tail(w)) = Len(w) - 1
         /\ Head(w) = w[1] /\ w[1] \in Statement
         /\ \A i \in 1..Len(Tail(w)) : i + 1 \in 1..Len(w) /\ Tail(w)[i] = w[i + 1]
         /\ \A i \in 1..Len(w) : i = 1 \/ (i - 1 \in 1..Len(Tail(w)) /\ Tail(w)[i - 1] = w[i])
         /\ \A e : Has(w, e) <=> e = Head(w) \/ Has(Tail(w), e)
<1>1. /\ Tail(w) \in Seq(Statement) /\ Len(Tail(w)) = Len(w) - 1
      /\ \A i \in 1..Len(Tail(w)) : Tail(w)[i] = w[i + 1]
      /\ Head(w) \in Statement
  BY HeadTailProperties
<1>2. Len(w) \in Nat /\ Len(w) >= 1 /\ Head(w) = w[1]
  OBVIOUS
<1>3. \A i \in 1..Len(Tail(w)) : i + 1 \in 1..Len(w) /\ Tail(w)[i] = w[i + 1]
  BY <1>1, <1>2
<1>4. \A i \in 1..Len(w) : i = 1 \/ (i - 1 \in 1..Len(Tail(w)) /\ Tail(w)[i - 1] = w[i])
  BY <1>1, <1>2
<1>5. ASSUME NEW e PROVE Has(w, e) <=> e = Head(w) \/ Has(Tail(w), e)
  <2>1. ASSUME NEW i \in 1..Len(w), w[i] = e PROVE e = Head(w) \/ Has(Tail(w), e)
    BY <2>1, <1>2, <1>4 DEF Has
  <2>2. ASSUME e = Head(w) PROVE Has(w, e)
    <3>1. 1 \in 1..Len(w) /\ w[1] = e
      BY <2>2, <1>2
    <3> QED BY <3>1 DEF Has
  <2>3. ASSUME NEW i \in 1..Len(Tail(w)), Tail(w)[i] = e PROVE Has(w, e)
    <3>1. i + 1 \in 1..Len(w) /\ w[i + 1] = e
      BY <2>3, <1>3
    <3> QED BY <3>1 DEF Has
  <2> QED BY <2>1, <2>2, <2>3 DEF Has
<1> QED BY <1>1, <1>2, <1>3, <1>4, <1>5

(* What the short lists the mutators push hold. *)
LEMMA Lists ==
  /\ \A e : ~Has(<<>>, e)
  /\ \A a, e : Has(<<a>>, e) <=> e = a
  /\ \A a, b, e : Has(<<a, b>>, e) <=> e = a \/ e = b
<1>1. \A e : ~Has(<<>>, e)
  BY DEF Has
<1>2. ASSUME NEW a, NEW e PROVE Has(<<a>>, e) <=> e = a
  BY DEF Has
<1>3. ASSUME NEW a, NEW b, NEW e PROVE Has(<<a, b>>, e) <=> e = a \/ e = b
  <2>1. Len(<<a, b>>) = 2 /\ <<a, b>>[1] = a /\ <<a, b>>[2] = b /\ 1..2 = {1, 2}
    OBVIOUS
  <2> QED BY <2>1 DEF Has
<1> QED BY <1>1, <1>2, <1>3

LEMMA Statements ==
  /\ \A d \in Datasets : {Recompute(d), Deliver(d), Reference(d), Forced(d)} \subseteq Statement
  /\ \A d \in Datasets, set \in SUBSET Topics : TellFrom1(d, set) \in Statement
  /\ Loop \in Statement /\ MutatorRuns \in Statement
<1>1. 1 \in Slots
  BY DemandAssumption
<1> QED BY <1>1 DEF Statement, Recompute, Deliver, Reference, Forced, TellFrom1, Loop, MutatorRuns

-----------------------------------------------------------------------------
(* A mutator pushes its statements where no emptied set is still owed. *)

LEMMA NoneOwed ==
  ASSUME DemandTypeOK, EmptiesFirst, MayCall
  PROVE  /\ \A i \in 1..Len(work) : work[i].do # "deliver"
         /\ \A d \in Datasets : ~Has(work, Deliver(d))
<1>1. ASSUME NEW i \in 1..Len(work), work[i].do = "deliver" PROVE FALSE
  <2>1. work \in Seq(Statement) /\ work # <<>>
    BY <1>1 DEF DemandTypeOK
  <2>2. work[1].do = "running" /\ 1 \in 1..Len(work)
    BY <2>1, Below DEF MayCall
  <2>3. i > 1
    BY <1>1, <2>2
  <2> QED BY <1>1, <2>2, <2>3 DEF EmptiesFirst
<1> QED BY <1>1 DEF Has, Deliver

LEMMA PushingNone ==
  ASSUME DemandTypeOK, EmptiesFirst, MayCall, NEW s \in Seq(Statement),
         \A i \in 1..Len(s) : s[i].do # "deliver", work' = s \o work
  PROVE  EmptiesFirst'
<1>1. work \in Seq(Statement)
  BY DEF DemandTypeOK
<1>2. ASSUME NEW i \in 1..Len(work'), work'[i].do = "deliver" PROVE FALSE
  <2>1. CASE i \in 1..Len(s)
    BY <1>1, <1>2, <2>1, Under
  <2>2. CASE i \notin 1..Len(s)
    BY <1>1, <1>2, <2>2, Under, NoneOwed
  <2> QED BY <2>1, <2>2
<1> QED BY <1>2 DEF EmptiesFirst

LEMMA Pushing ==
  ASSUME DemandTypeOK, OneLoop, NewestLast, NEW s \in Seq(Statement),
         \A i \in 1..Len(s) : s[i].do \in {"recompute", "reference", "forced", "deliver"},
         work' = s \o work, UNCHANGED <<pending, emitting, heardVars>>
  PROVE  /\ OneLoop'
         /\ \A d \in Datasets : lastEmitted'[d] = lastEmitted[d] => NewestFor(d)'
<1> USE DEF DemandTypeOK
<1> /\ Len(work) \in Nat /\ Len(s) \in Nat
  OBVIOUS
<1>1. \A i \in 1..Len(s) : s[i] # Loop
  <2>1. Loop.do = "loop"
    BY DEF Loop
  <2> QED BY <2>1
<1>2. ~Has(s, Loop)
  BY <1>1 DEF Has
<1>3. \A i \in 1..Len(work') :
         (work'[i] = Loop \/ work'[i].do = "active") =>
           i - Len(s) \in 1..Len(work) /\ work'[i] = work[i - Len(s)]
  <2> TAKE i \in 1..Len(work')
  <2>1. CASE i \in 1..Len(s)
    BY <2>1, <1>1, Under
  <2>2. CASE i \notin 1..Len(s)
    BY <2>2, Under
  <2> QED BY <2>1, <2>2
<1>4. OneLoop'
  <2>1. (emitting <=> Has(work, Loop))'
    BY <1>2, Under DEF OneLoop, Loop
  <2>2. (DOMAIN pending # {} => emitting)'
    BY DEF OneLoop
  <2>3. (\A i \in 1..Len(work) : work[i].do = "active" => emitting)'
    BY <1>3 DEF OneLoop
  <2>4. (\A i, j \in 1..Len(work) : work[i] = Loop /\ work[j] = Loop => i = j)'
    BY <1>3 DEF OneLoop, Loop
  <2>5. (\A i, j \in 1..Len(work) : work[i].do = "active" /\ work[j].do = "active" => i = j)'
    BY <1>3 DEF OneLoop
  <2>6. (\A i, j \in 1..Len(work) : work[i] = Loop /\ work[j].do = "active" => j < i)'
    BY <1>3 DEF OneLoop, Loop
  <2> QED BY <2>1, <2>2, <2>3, <2>4, <2>5, <2>6 DEF OneLoop
<1>6. ASSUME NEW i \in 1..Len(work) PROVE Len(s) + i \in 1..Len(work') /\ work'[Len(s) + i] = work[i]
  BY <1>6, Under
<1>7. ASSUME NEW d \in Datasets, lastEmitted'[d] = lastEmitted[d] PROVE NewestFor(d)'
  <2> SUFFICES ASSUME ~Has(work', Deliver(d)), ~(d \in DOMAIN pending' /\ pending'[d] = lastEmitted'[d])
               PROVE  /\ d \notin DOMAIN pending'
                      /\ \A i \in 1..Len(work') :
                           work'[i].do = "active" /\ work'[i].ds = d => work'[i].set = lastEmitted'[d]
                      /\ \A x \in Slots :
                           \/ heard'[x][d] = lastEmitted'[d]
                           \/ \E i \in 1..Len(work') :
                                work'[i].do = "active" /\ work'[i].ds = d /\ work'[i].slot <= x
    BY DEF NewestFor, Deliver
  <2>1. /\ d \notin DOMAIN pending
        /\ \A i \in 1..Len(work) : work[i].do = "active" /\ work[i].ds = d => work[i].set = lastEmitted[d]
        /\ \A x \in Slots :
             \/ heard[x][d] = lastEmitted[d]
             \/ \E i \in 1..Len(work) : work[i].do = "active" /\ work[i].ds = d /\ work[i].slot <= x
    <3>1. ~Has(work, Deliver(d))
      BY Under
    <3>2. ~(d \in DOMAIN pending /\ pending[d] = lastEmitted[d])
      BY <1>7
    <3> QED BY <3>1, <3>2 DEF NewestLast, NewestFor
  <2>2. /\ d \notin DOMAIN pending'
        /\ \A i \in 1..Len(work') : work'[i].do = "active" /\ work'[i].ds = d => work'[i].set = lastEmitted'[d]
    BY <1>3, <1>7, <2>1
  <2>3. ASSUME NEW x \in Slots, heard'[x][d] # lastEmitted'[d]
        PROVE  \E i \in 1..Len(work') : work'[i].do = "active" /\ work'[i].ds = d /\ work'[i].slot <= x
    <3>1. PICK i \in 1..Len(work) : work[i].do = "active" /\ work[i].ds = d /\ work[i].slot <= x
      BY <1>7, <2>1, <2>3 DEF heardVars
    <3> QED BY <1>6, <3>1
  <2> QED BY <2>2, <2>3
<1> QED BY <1>4, <1>7

-----------------------------------------------------------------------------
(* The invariant holds at first and after each step. *)

LEMMA DemandInitially == DemandInit => DemandInv
<1> SUFFICES ASSUME DemandInit PROVE DemandInv
  OBVIOUS
<1> USE DEF DemandInit
<1>1. DOMAIN pending = {} /\ Len(work) = 0 /\ 1..Len(work) = {}
  OBVIOUS
<1>2. DemandTypeOK
  <2>1. pending \in [DOMAIN pending -> SUBSET Topics] /\ DOMAIN pending \subseteq Datasets
    BY <1>1
  <2>2. /\ refs \in [Datasets -> [Topics -> Nat]] /\ tiers \in [Datasets -> [Tiers -> SUBSET Topics]]
        /\ lastEmitted \in [Datasets -> SUBSET Topics] /\ heard \in [Slots -> [Datasets -> SUBSET Topics]]
    OBVIOUS
  <2>3. /\ emitting \in BOOLEAN /\ calls \in Nat
        /\ gate \in [Datasets -> BOOLEAN] /\ badges \in [Datasets -> SUBSET Topics]
    OBVIOUS
  <2>4. work \in Seq(Statement)
    OBVIOUS
  <2> QED BY <2>1, <2>2, <2>3, <2>4 DEF DemandTypeOK
<1>3. ASSUME NEW d \in Datasets PROVE Active(d) = {} /\ ~Referenced(d)
  <2>1. \A t \in Topics : refs[d][t] = 0
    OBVIOUS
  <2>2. \A k \in Tiers : tiers[d][k] = {}
    OBVIOUS
  <2> QED BY <2>1, <2>2 DEF Active, Referenced
<1>4. FlipsOwed /\ RecomputeOwed
  <2>1. ASSUME NEW d \in Datasets PROVE gate[d] = Referenced(d)
    <3>1. gate[d] = FALSE
      OBVIOUS
    <3> QED BY <1>3, <3>1 DEF Referenced
  <2>2. ASSUME NEW d \in Datasets PROVE badges[d] = tiers[d]["forced"] /\ Active(d) = lastEmitted[d]
    BY <1>3 DEF Tiers
  <2> QED BY <2>1, <2>2 DEF FlipsOwed, RecomputeOwed
<1>5. EmptiesFirst /\ OneLoop
  BY <1>1 DEF EmptiesFirst, OneLoop, Has
<1>6. NewestLast
  BY <1>1 DEF NewestLast, NewestFor
<1> QED BY <1>2, <1>4, <1>5, <1>6 DEF DemandInv

LEMMA Adds ==
  ASSUME DemandInv, NEW d \in Datasets, NEW t \in Topics, AddReference(d, t)
  PROVE  DemandInv'
<1> DEFINE s == IF Referenced(d) THEN <<Recompute(d)>> ELSE <<Recompute(d), Reference(d)>>
<1> USE DEF DemandInv
<1>1. /\ MayCall /\ work' = s \o work
      /\ refs' = [refs EXCEPT ![d][t] = @ + 1] /\ calls' = calls + 1
      /\ UNCHANGED <<tiers, lastEmitted, pending, emitting, heard, gate, badges>>
  BY DEF AddReference, Calls, heardVars
<1>2. s \in Seq(Statement) /\ \A i \in 1..Len(s) : s[i].do \in {"recompute", "reference"}
  BY Statements DEF Recompute, Reference
<1>3. /\ Has(s, Recompute(d))
      /\ ~Referenced(d) => Has(s, Reference(d))
  BY Lists
<1> HIDE DEF s
<1>4. work \in Seq(Statement) /\ \A e : Has(work', e) <=> Has(s, e) \/ Has(work, e)
  BY <1>1, <1>2, Under DEF DemandTypeOK
<1>5. DemandTypeOK'
  BY <1>1, <1>2, <1>4, Under DEF DemandTypeOK
<1>6. \A x \in Datasets : x # d => Referenced(x)' = Referenced(x) /\ Active(x)' = Active(x)
  BY <1>1 DEF DemandTypeOK, Referenced, Active
<1>7. Referenced(d)'
  BY <1>1 DEF DemandTypeOK, Referenced
<1>8. FlipsOwed'
  BY <1>1, <1>3, <1>4, <1>6, <1>7 DEF FlipsOwed, DemandTypeOK, Reference, Forced
<1>9. RecomputeOwed'
  BY <1>1, <1>3, <1>4, <1>6 DEF RecomputeOwed, Recompute
<1>10. EmptiesFirst'
  BY <1>1, <1>2, PushingNone
<1>11. OneLoop' /\ NewestLast'
  BY <1>1, <1>2, Pushing DEF heardVars, NewestLast
<1> QED BY <1>5, <1>8, <1>9, <1>10, <1>11

LEMMA Removes ==
  ASSUME DemandInv, NEW d \in Datasets, NEW t \in Topics, RemoveReference(d, t)
  PROVE  DemandInv'
<1> DEFINE s == IF Referenced(d)' THEN <<Recompute(d)>> ELSE <<Recompute(d), Reference(d)>>
<1> USE DEF DemandInv
<1>1. /\ MayCall /\ work' = s \o work
      /\ refs[d][t] > 0 /\ refs' = [refs EXCEPT ![d][t] = @ - 1] /\ calls' = calls + 1
      /\ UNCHANGED <<tiers, lastEmitted, pending, emitting, heard, gate, badges>>
  BY DEF RemoveReference, Calls, heardVars
<1>2. s \in Seq(Statement) /\ \A i \in 1..Len(s) : s[i].do \in {"recompute", "reference"}
  BY Statements DEF Recompute, Reference
<1>3. /\ Has(s, Recompute(d))
      /\ ~Referenced(d)' => Has(s, Reference(d))
  BY Lists
<1> HIDE DEF s
<1>4. work \in Seq(Statement) /\ \A e : Has(work', e) <=> Has(s, e) \/ Has(work, e)
  BY <1>1, <1>2, Under DEF DemandTypeOK
<1>5. DemandTypeOK'
  BY <1>1, <1>2, <1>4, Under DEF DemandTypeOK
<1>6. \A x \in Datasets : x # d => Referenced(x)' = Referenced(x) /\ Active(x)' = Active(x)
  BY <1>1 DEF DemandTypeOK, Referenced, Active
<1>7. Referenced(d)
  BY <1>1 DEF DemandTypeOK, Referenced
<1>8. FlipsOwed'
  BY <1>1, <1>3, <1>4, <1>6, <1>7 DEF FlipsOwed, DemandTypeOK, Reference, Forced
<1>9. RecomputeOwed'
  BY <1>1, <1>3, <1>4, <1>6 DEF RecomputeOwed, Recompute
<1>10. EmptiesFirst'
  BY <1>1, <1>2, PushingNone
<1>11. OneLoop' /\ NewestLast'
  BY <1>1, <1>2, Pushing DEF heardVars, NewestLast
<1> QED BY <1>5, <1>8, <1>9, <1>10, <1>11

(* The two mutators that change a tier. *)
LEMMA Retiers ==
  ASSUME DemandInv, NEW d \in Datasets, NEW tier \in Tiers, NEW names \in SUBSET Topics,
         NEW s \in Seq(Statement), \A i \in 1..Len(s) : s[i].do \in {"recompute", "forced"},
         Has(s, Recompute(d)), tier = "forced" => Has(s, Forced(d)),
         MayCall, work' = s \o work, tiers' = [tiers EXCEPT ![d][tier] = names], calls' = calls + 1,
         UNCHANGED <<refs, lastEmitted, pending, emitting, heard, gate, badges>>
  PROVE  DemandInv'
<1> USE DEF DemandInv
<1>4. work \in Seq(Statement) /\ \A e : Has(work', e) <=> Has(s, e) \/ Has(work, e)
  BY Under DEF DemandTypeOK
<1>5. DemandTypeOK'
  BY <1>4, Under DEF DemandTypeOK
<1>6. \A x \in Datasets : x # d => Active(x)' = Active(x) /\ tiers'[x] = tiers[x]
  BY DEF DemandTypeOK, Active
<1>7. \A x \in Datasets : Referenced(x)' = Referenced(x)
  BY DEF Referenced
<1>8. tier # "forced" => tiers'[d]["forced"] = tiers[d]["forced"]
  BY DEF DemandTypeOK, Tiers
<1>9. FlipsOwed'
  BY <1>4, <1>6, <1>7, <1>8 DEF FlipsOwed, Reference, Forced
<1>10. RecomputeOwed'
  BY <1>4, <1>6 DEF RecomputeOwed, Recompute
<1>11. EmptiesFirst'
  BY PushingNone
<1>12. OneLoop' /\ NewestLast'
  BY Pushing DEF heardVars, NewestLast
<1> QED BY <1>5, <1>9, <1>10, <1>11, <1>12

LEMMA Replaces ==
  ASSUME DemandInv, NEW d \in Datasets, NEW tier \in Tiers, NEW names \in SUBSET Topics,
         ReplaceTier(d, tier, names)
  PROVE  DemandInv'
<1> DEFINE s == <<Recompute(d)>>
<1>1. /\ MayCall /\ work' = s \o work /\ tier # "forced"
      /\ tiers' = [tiers EXCEPT ![d][tier] = names] /\ calls' = calls + 1
      /\ UNCHANGED <<refs, lastEmitted, pending, emitting, heard, gate, badges>>
  BY DEF ReplaceTier, Calls, heardVars
<1>2. s \in Seq(Statement) /\ \A i \in 1..Len(s) : s[i].do \in {"recompute", "forced"}
  BY Statements DEF Recompute
<1>3. Has(s, Recompute(d))
  BY Lists
<1> HIDE DEF s
<1> QED BY <1>1, <1>2, <1>3, Retiers

LEMMA Forces ==
  ASSUME DemandInv, NEW d \in Datasets, NEW t \in Topics, NEW forced \in BOOLEAN,
         SetTopicForced(d, t, forced)
  PROVE  DemandInv'
<1> DEFINE s == <<Forced(d), Recompute(d)>>
           names == IF forced THEN tiers[d]["forced"] \cup {t} ELSE tiers[d]["forced"] \ {t}
<1>1. /\ MayCall /\ work' = s \o work
      /\ tiers' = [tiers EXCEPT ![d]["forced"] = names] /\ calls' = calls + 1
      /\ UNCHANGED <<refs, lastEmitted, pending, emitting, heard, gate, badges>>
  BY DEF SetTopicForced, Calls, heardVars
<1>2. s \in Seq(Statement) /\ \A i \in 1..Len(s) : s[i].do \in {"recompute", "forced"}
  BY Statements DEF Recompute, Forced
<1>3. Has(s, Recompute(d)) /\ Has(s, Forced(d))
  BY Lists
<1>4. "forced" \in Tiers /\ names \in SUBSET Topics
  BY DEF DemandInv, DemandTypeOK, Tiers
<1> HIDE DEF s, names
<1> QED BY <1>1, <1>2, <1>3, <1>4, Retiers

(* What clearDataset has to tell, in its order: the empty set comes last. *)
EmptyLast(w, empty) ==
  \A i \in 1..Len(w) :
    \/ w[i].do \in {"forced", "reference"}
    \/ w[i] = empty /\ \A j \in 1..Len(w) : j < i => w[j].do \in {"forced", "reference"}

LEMMA Telling ==
  ASSUME NEW d \in Datasets,
         NEW f \in {<<>>, <<Forced(d)>>}, NEW g \in {<<>>, <<Reference(d)>>}, NEW h \in {<<>>, <<Deliver(d)>>},
         NEW told
  PROVE  told = f \o g \o h =>
           /\ told \in Seq(Statement)
           /\ f # <<>> => Has(told, Forced(d))
           /\ g # <<>> => Has(told, Reference(d))
           /\ h # <<>> => Has(told, Deliver(d))
           /\ EmptyLast(told, Deliver(d))
<1> HAVE told = f \o g \o h
<1>1. f \in Seq(Statement) /\ g \in Seq(Statement) /\ h \in Seq(Statement)
  <2>1. <<>> \in Seq(Statement)
    OBVIOUS
  <2>2. <<Forced(d)>> \in Seq(Statement) /\ <<Reference(d)>> \in Seq(Statement) /\ <<Deliver(d)>> \in Seq(Statement)
    BY Statements
  <2> QED BY <2>1, <2>2
<1>2. /\ \A i \in 1..Len(f) : f[i].do \in {"forced", "reference"}
      /\ \A i \in 1..Len(g) : g[i].do \in {"forced", "reference"}
  BY DEF Forced, Reference
<1>3. \A i \in 1..Len(h) : h[i] = Deliver(d) /\ i = 1
  OBVIOUS
<1>4. (f # <<>> => Has(f, Forced(d))) /\ (g # <<>> => Has(g, Reference(d))) /\ (h # <<>> => Has(h, Deliver(d)))
  BY Lists
<1>5. told = (f \o g) \o h
  OBVIOUS
<1> DEFINE k == f \o g
<1>6. /\ k \in Seq(Statement) /\ Len(k) \in Nat
      /\ \A i \in 1..Len(k) : k[i].do \in {"forced", "reference"}
      /\ f # <<>> => Has(k, Forced(d))
      /\ g # <<>> => Has(k, Reference(d))
  <2>1. k \in Seq(Statement) /\ Len(k) \in Nat
    BY <1>1, Under
  <2>2. ASSUME NEW i \in 1..Len(k) PROVE k[i].do \in {"forced", "reference"}
    <3>1. CASE i \in 1..Len(f)
      BY <1>1, <1>2, <3>1, Under
    <3>2. CASE i \notin 1..Len(f)
      BY <1>1, <1>2, <3>2, <2>2, Under
    <3> QED BY <3>1, <3>2
  <2>3. (f # <<>> => Has(k, Forced(d))) /\ (g # <<>> => Has(k, Reference(d)))
    BY <1>1, <1>4, Under
  <2> QED BY <2>1, <2>2, <2>3
<1> HIDE DEF k
<1>7. told = k \o h
  BY <1>5 DEF k
<1>8. told \in Seq(Statement)
  BY <1>1, <1>6, <1>7, Under
<1>9. /\ f # <<>> => Has(told, Forced(d))
      /\ g # <<>> => Has(told, Reference(d))
      /\ h # <<>> => Has(told, Deliver(d))
  <2>1. \A e : Has(told, e) <=> Has(k, e) \/ Has(h, e)
    <3>1. \A e : Has(k \o h, e) <=> Has(k, e) \/ Has(h, e)
      BY <1>1, <1>6, Under
    <3> QED BY <3>1, <1>7, Zenon
  <2> QED BY <1>4, <1>6, <2>1, Zenon
<1>10. ASSUME NEW i \in 1..Len(k) PROVE told[i] = k[i]
  <2>1. (k \o h)[i] = k[i]
    BY <1>1, <1>6, Under
  <2> QED BY <2>1, <1>7
<1>11. ASSUME NEW i \in 1..Len(told) PROVE i \in 1..Len(k) \/ (told[i] = Deliver(d) /\ i = Len(k) + 1)
  <2>1. i \in 1..Len(k) \/ (i - Len(k) \in 1..Len(h) /\ (k \o h)[i] = h[i - Len(k)])
    BY <1>1, <1>6, <1>7, Under
  <2> QED BY <2>1, <1>3, <1>6, <1>7
<1>12. ASSUME NEW i \in 1..Len(told)
       PROVE  \/ told[i].do \in {"forced", "reference"}
              \/ /\ told[i] = Deliver(d)
                 /\ \A j \in 1..Len(told) : j < i => told[j].do \in {"forced", "reference"}
  <2>1. CASE i \in 1..Len(k)
    BY <2>1, <1>6, <1>10
  <2>2. CASE i \notin 1..Len(k)
    <3>1. told[i] = Deliver(d) /\ i = Len(k) + 1
      BY <2>2, <1>11
    <3>2. ASSUME NEW j \in 1..Len(told), j < i PROVE told[j].do \in {"forced", "reference"}
      <4>1. j \in 1..Len(k)
        BY <3>1, <3>2, <1>6
      <4> QED BY <4>1, <1>6, <1>10
    <3> QED BY <3>1, <3>2
  <2> QED BY <2>1, <2>2
<1> QED BY <1>8, <1>9, <1>12 DEF EmptyLast

LEMMA Clears ==
  ASSUME DemandInv, NEW d \in Datasets, ClearDataset(d)
  PROVE  DemandInv'
<1> DEFINE told == (IF tiers[d]["forced"] # {} THEN <<Forced(d)>> ELSE <<>>)
                     \o (IF Referenced(d) THEN <<Reference(d)>> ELSE <<>>)
                     \o (IF lastEmitted[d] # {} THEN <<Deliver(d)>> ELSE <<>>)
<1> USE DEF DemandInv
<1>1. /\ MayCall /\ work' = told \o work /\ calls' = calls + 1
      /\ refs' = [refs EXCEPT ![d] = [t \in Topics |-> 0]]
      /\ tiers' = [tiers EXCEPT ![d] = [k \in Tiers |-> {}]]
      /\ lastEmitted' = [lastEmitted EXCEPT ![d] = {}]
      /\ UNCHANGED <<pending, emitting, heard, gate, badges>>
  BY DEF ClearDataset, heardVars
<1>2. /\ told \in Seq(Statement)
      /\ tiers[d]["forced"] # {} => Has(told, Forced(d))
      /\ Referenced(d) => Has(told, Reference(d))
      /\ lastEmitted[d] # {} => Has(told, Deliver(d))
      /\ EmptyLast(told, Deliver(d))
  <2> DEFINE f == IF tiers[d]["forced"] # {} THEN <<Forced(d)>> ELSE <<>>
             g == IF Referenced(d) THEN <<Reference(d)>> ELSE <<>>
             h == IF lastEmitted[d] # {} THEN <<Deliver(d)>> ELSE <<>>
  <2>1. f \in {<<>>, <<Forced(d)>>} /\ g \in {<<>>, <<Reference(d)>>} /\ h \in {<<>>, <<Deliver(d)>>}
    OBVIOUS
  <2>2. /\ tiers[d]["forced"] # {} => f # <<>>
        /\ Referenced(d) => g # <<>>
        /\ lastEmitted[d] # {} => h # <<>>
    OBVIOUS
  <2>3. told = f \o g \o h
    OBVIOUS
  <2> HIDE DEF f, g, h, told
  <2>4. /\ told \in Seq(Statement)
        /\ f # <<>> => Has(told, Forced(d))
        /\ g # <<>> => Has(told, Reference(d))
        /\ h # <<>> => Has(told, Deliver(d))
        /\ EmptyLast(told, Deliver(d))
    BY <2>1, <2>3, Telling
  <2>5. tiers[d]["forced"] # {} => Has(told, Forced(d))
    BY <2>2, <2>4
  <2>6. Referenced(d) => Has(told, Reference(d))
    BY <2>2, <2>4
  <2>7. lastEmitted[d] # {} => Has(told, Deliver(d))
    BY <2>2, <2>4
  <2> QED BY <2>4, <2>5, <2>6, <2>7
<1> HIDE DEF told
<1>3. Deliver(d).do = "deliver" /\ Deliver(d).ds = d
  BY DEF Deliver
<1>13. /\ \A i \in 1..Len(told) : told[i].do \in {"forced", "reference", "deliver"}
       /\ \A i \in 1..Len(told) :
            told[i].do = "deliver" =>
              /\ told[i] = Deliver(d)
              /\ \A j \in 1..Len(told) : j < i => told[j].do \in {"forced", "reference"}
  BY <1>2, <1>3 DEF EmptyLast
<1>4. work \in Seq(Statement) /\ \A e : Has(work', e) <=> Has(told, e) \/ Has(work, e)
  BY <1>1, <1>2, Under DEF DemandTypeOK
<1>5. DemandTypeOK'
  BY <1>1, <1>2, <1>4, Under DEF DemandTypeOK
<1>6. \A x \in Datasets : x # d => /\ Referenced(x)' = Referenced(x) /\ Active(x)' = Active(x)
                                   /\ tiers'[x] = tiers[x] /\ lastEmitted'[x] = lastEmitted[x]
  BY <1>1 DEF DemandTypeOK, Referenced, Active
<1>7. tiers'[d]["forced"] = {} /\ Active(d)' = {} /\ ~Referenced(d)' /\ lastEmitted'[d] = {}
  <2>1. \A t \in Topics : refs'[d][t] = 0
    BY <1>1 DEF DemandTypeOK
  <2>2. \A k \in Tiers : tiers'[d][k] = {}
    BY <1>1 DEF DemandTypeOK
  <2>3. lastEmitted'[d] = {}
    BY <1>1 DEF DemandTypeOK
  <2> QED BY <2>1, <2>2, <2>3 DEF Active, Referenced, Tiers
<1>8. FlipsOwed'
  <2> SUFFICES ASSUME NEW x \in Datasets
               PROVE  /\ gate'[x] # Referenced(x)' => Has(work', Reference(x))
                      /\ badges'[x] # tiers'[x]["forced"] => Has(work', Forced(x))
    BY DEF FlipsOwed, Reference, Forced
  <2>1. CASE x = d
    <3>1. Has(work', Reference(x)) \/ (~Referenced(d) /\ gate[d] = Referenced(d))
      BY <1>2, <1>4, <2>1, Zenon DEF FlipsOwed
    <3>2. Has(work', Reference(x)) \/ gate'[x] = Referenced(x)'
      <4>1. Has(work', Reference(x)) \/ gate[d] = FALSE
        BY <2>1, <3>1 DEF Referenced
      <4> QED BY <1>1, <1>7, <2>1, <4>1 DEF Referenced
    <3>3. Has(work', Forced(x)) \/ badges'[x] = tiers'[x]["forced"]
      BY <1>1, <1>2, <1>4, <1>7, <2>1 DEF FlipsOwed
    <3> QED BY <3>2, <3>3, Zenon
  <2>2. CASE x # d
    BY <1>1, <1>4, <1>6, <2>2 DEF FlipsOwed
  <2> QED BY <2>1, <2>2
<1>9. RecomputeOwed'
  BY <1>1, <1>4, <1>6, <1>7 DEF RecomputeOwed, Recompute
<1>10. EmptiesFirst'
  <2> SUFFICES ASSUME NEW i \in 1..Len(work'), work'[i].do = "deliver"
               PROVE  /\ lastEmitted'[work'[i].ds] = {}
                      /\ \A j \in 1..Len(work') : j < i => work'[j].do \in {"forced", "reference"}
    BY DEF EmptiesFirst
  <2>1. i \in 1..Len(told) /\ work'[i] = told[i]
    BY <1>1, <1>2, <1>4, NoneOwed, Under
  <2>2. told[i] = Deliver(d) /\ \A j \in 1..Len(told) : j < i => told[j].do \in {"forced", "reference"}
    BY <1>13, <2>1
  <2>3. Len(told) \in Nat /\ \A j \in 1..Len(told) : work'[j] = told[j]
    BY <1>1, <1>2, <1>4, Under
  <2> QED BY <1>3, <1>7, <2>1, <2>2, <2>3
<1>11. /\ OneLoop'
       /\ \A x \in Datasets : lastEmitted'[x] = lastEmitted[x] => NewestFor(x)'
  <2>1. \A i \in 1..Len(told) : told[i].do \in {"recompute", "reference", "forced", "deliver"}
    BY <1>13
  <2> QED BY <1>1, <1>2, <2>1, Pushing DEF heardVars
<1>12. NewestLast'
  <2> SUFFICES ASSUME NEW x \in Datasets, lastEmitted'[x] # lastEmitted[x] PROVE NewestFor(x)'
    BY <1>11 DEF NewestLast
  <2>1. x = d /\ lastEmitted[d] # {}
    BY <1>6, <1>7
  <2>2. Has(work', Deliver(d))
    BY <1>2, <1>4, <2>1
  <2> QED BY <2>1, <2>2 DEF NewestFor, Deliver
<1> QED BY <1>5, <1>8, <1>9, <1>10, <1>11, <1>12

-----------------------------------------------------------------------------
(* The statement on top is run. *)

(* The stack after its top gave way to the statements of s. *)
LEMMA Replacing ==
  ASSUME DemandTypeOK, work # <<>>, NEW s \in Seq(Statement), work' = s \o Tail(work)
  PROVE  /\ work' \in Seq(Statement) /\ Len(work) \in Nat /\ Len(s) \in Nat
         /\ \A i \in 1..Len(s) : i \in 1..Len(work') /\ work'[i] = s[i]
         /\ \A i \in 1..Len(work) :
              i > 1 => i + Len(s) - 1 \in 1..Len(work') /\ work'[i + Len(s) - 1] = work[i]
         /\ \A i \in 1..Len(work') :
              \/ i \in 1..Len(s)
              \/ i - Len(s) + 1 \in 2..Len(work) /\ work'[i] = work[i - Len(s) + 1]
         /\ \A e : Has(work', e) <=> Has(s, e) \/ Has(Tail(work), e)
<1>1. /\ Tail(work) \in Seq(Statement) /\ work \in Seq(Statement)
      /\ Len(work) \in Nat /\ Len(work) >= 1 /\ Len(Tail(work)) = Len(work) - 1
      /\ \A i \in 1..Len(Tail(work)) : Tail(work)[i] = work[i + 1]
  BY Below DEF DemandTypeOK
<1>2. /\ work' \in Seq(Statement) /\ Len(work') = Len(s) + Len(work) - 1 /\ Len(s) \in Nat
      /\ \A i \in 1..Len(s) : work'[i] = s[i]
      /\ \A i \in 1..Len(Tail(work)) : work'[Len(s) + i] = Tail(work)[i]
      /\ \A e : Has(work', e) <=> Has(s, e) \/ Has(Tail(work), e)
  <2> DEFINE w == Tail(work)
  <2>1. w \in Seq(Statement) /\ work' = s \o w /\ Len(w) = Len(work) - 1
    BY <1>1
  <2> HIDE DEF w
  <2>2. /\ s \o w \in Seq(Statement) /\ Len(s \o w) = Len(s) + Len(w) /\ Len(s) \in Nat
        /\ \A i \in 1..Len(s) : (s \o w)[i] = s[i]
        /\ \A i \in 1..Len(w) : (s \o w)[Len(s) + i] = w[i]
    <3>1. s \o w \in Seq(Statement) /\ Len(s \o w) = Len(s) + Len(w) /\ Len(s) \in Nat
      BY <2>1, Under
    <3>2. \A i \in 1..Len(s) : (s \o w)[i] = s[i]
      BY <2>1, Under
    <3>3. \A i \in 1..Len(w) : (s \o w)[Len(s) + i] = w[i]
      BY <2>1, Under
    <3> QED BY <3>1, <3>2, <3>3
  <2>3. \A e : Has(s \o w, e) <=> Has(s, e) \/ Has(w, e)
    BY <2>1, Under
  <2>4. Len(work') = Len(s) + Len(work) - 1
    BY <1>1, <2>1, <2>2
  <2> QED BY <2>1, <2>2, <2>3, <2>4 DEF w
<1>3. ASSUME NEW i \in 1..Len(work), i > 1
      PROVE  i + Len(s) - 1 \in 1..Len(work') /\ work'[i + Len(s) - 1] = work[i]
  <2>1. i - 1 \in 1..Len(Tail(work)) /\ Len(s) + (i - 1) = i + Len(s) - 1 /\ (i - 1) + 1 = i
    BY <1>1, <1>2, <1>3
  <2>2. work'[Len(s) + (i - 1)] = work[(i - 1) + 1]
    BY <1>1, <1>2, <2>1
  <2> QED BY <1>1, <1>2, <1>3, <2>1, <2>2
<1>4. ASSUME NEW i \in 1..Len(work'), i \notin 1..Len(s)
      PROVE  i - Len(s) + 1 \in 2..Len(work) /\ work'[i] = work[i - Len(s) + 1]
  <2>1. i - Len(s) \in 1..Len(Tail(work)) /\ Len(s) + (i - Len(s)) = i
    BY <1>1, <1>2, <1>4
  <2>2. work'[Len(s) + (i - Len(s))] = work[(i - Len(s)) + 1]
    BY <1>1, <1>2, <2>1
  <2> QED BY <1>1, <1>2, <1>4, <2>1, <2>2
<1> QED BY <1>1, <1>2, <1>3, <1>4

LEMMA Popping ==
  ASSUME DemandTypeOK, EmptiesFirst, OneLoop, NewestLast, work # <<>>, work' = Tail(work),
         Head(work).do \in {"running", "reference", "forced", "recompute"},
         UNCHANGED <<lastEmitted, pending, emitting, heard>>
  PROVE  EmptiesFirst' /\ OneLoop' /\ NewestLast'
<1>1. /\ work \in Seq(Statement) /\ Len(work) \in Nat /\ Len(work) >= 1
      /\ 1 \in 1..Len(work) /\ Head(work) = work[1]
      /\ \A i \in 1..Len(work') : i + 1 \in 1..Len(work) /\ work'[i] = work[i + 1]
      /\ \A i \in 1..Len(work) : i = 1 \/ (i - 1 \in 1..Len(work') /\ work'[i - 1] = work[i])
      /\ \A e : Has(work, e) <=> e = Head(work) \/ Has(work', e)
      /\ Len(work') \in Nat
  BY Below DEF DemandTypeOK
<1>2. EmptiesFirst'
  BY <1>1 DEF EmptiesFirst
<1>3. Has(work', Loop) <=> Has(work, Loop)
  <2>1. Head(work) # Loop
    BY DEF Loop
  <2> QED BY <1>1, <2>1
<1>4. OneLoop'
  <2>1. \A i, j \in 1..Len(work') : work'[i] = Loop /\ work'[j] = Loop => i = j
    BY <1>1 DEF OneLoop
  <2>2. \A i, j \in 1..Len(work') : work'[i].do = "active" /\ work'[j].do = "active" => i = j
    BY <1>1 DEF OneLoop
  <2>3. \A i, j \in 1..Len(work') : work'[i] = Loop /\ work'[j].do = "active" => j < i
    BY <1>1 DEF OneLoop
  <2>4. \A i \in 1..Len(work') : work'[i].do = "active" => emitting'
    BY <1>1 DEF OneLoop
  <2>5. (emitting' <=> Has(work', Loop)) /\ (DOMAIN pending' # {} => emitting')
    BY <1>3 DEF OneLoop
  <2> QED BY <2>1, <2>2, <2>3, <2>4, <2>5 DEF OneLoop, Loop
<1>5. ASSUME NEW d \in Datasets PROVE NewestFor(d)'
  <2>1. NewestFor(d)
    BY DEF NewestLast
  <2>2. Has(work, Deliver(d)) <=> Has(work', Deliver(d))
    <3>1. Head(work) # Deliver(d)
      BY DEF Deliver
    <3> QED BY <1>1, <3>1
  <2>3. CASE Has(work, Deliver(d))
    BY <2>2, <2>3 DEF NewestFor, Deliver
  <2>4. CASE d \in DOMAIN pending /\ pending[d] = lastEmitted[d]
    BY <2>4 DEF NewestFor
  <2>5. CASE /\ d \notin DOMAIN pending
             /\ \A i \in 1..Len(work) : work[i].do = "active" /\ work[i].ds = d => work[i].set = lastEmitted[d]
             /\ \A s \in Slots :
                  \/ heard[s][d] = lastEmitted[d]
                  \/ \E i \in 1..Len(work) : work[i].do = "active" /\ work[i].ds = d /\ work[i].slot <= s
    <3>1. \A i \in 1..Len(work') : work'[i].do = "active" /\ work'[i].ds = d => work'[i].set = lastEmitted'[d]
      BY <1>1, <2>5
    <3>2. ASSUME NEW s \in Slots, heard'[s][d] # lastEmitted'[d]
          PROVE  \E i \in 1..Len(work') : work'[i].do = "active" /\ work'[i].ds = d /\ work'[i].slot <= s
      <4>1. PICK i \in 1..Len(work) : work[i].do = "active" /\ work[i].ds = d /\ work[i].slot <= s
        BY <2>5, <3>2
      <4>2. i # 1
        BY <1>1, <4>1
      <4> QED BY <1>1, <4>1, <4>2
    <3> QED BY <2>5, <3>1, <3>2 DEF NewestFor
  <2> QED BY <2>1, <2>3, <2>4, <2>5 DEF NewestFor
<1> QED BY <1>2, <1>4, <1>5 DEF NewestLast

(* deliver(), called for the statement on top: the loop is entered unless it *)
(* runs already.                                                             *)
LEMMA EnqueueShape ==
  ASSUME DemandTypeOK, work # <<>>, NEW d \in Datasets, NEW set \in SUBSET Topics, Enqueue(d, set, Tail(work))
  PROVE  \E s \in {<<>>, <<Loop>>} :
           /\ s \in Seq(Statement) /\ work' = s \o Tail(work)
           /\ s = <<>> <=> emitting
           /\ emitting' = TRUE
           /\ DOMAIN pending' = DOMAIN pending \cup {d}
           /\ pending'[d] = set
           /\ \A x \in DOMAIN pending : x # d => pending'[x] = pending[x]
           /\ pending' \in [DOMAIN pending' -> SUBSET Topics]
<1> DEFINE s == IF emitting THEN <<>> ELSE <<Loop>>
<1>1. Tail(work) \in Seq(Statement)
  BY Below DEF DemandTypeOK
<1>2. s \in {<<>>, <<Loop>>} /\ (s = <<>> <=> emitting)
  OBVIOUS
<1>3. s \in Seq(Statement)
  BY Statements
<1>4. work' = s \o Tail(work)
  <2>1. <<>> \o Tail(work) = Tail(work)
    BY <1>1, ConcatEmptySeq
  <2> QED BY <2>1 DEF Enqueue
<1>5. /\ emitting' = TRUE
      /\ DOMAIN pending' = DOMAIN pending \cup {d}
      /\ pending'[d] = set
      /\ \A x \in DOMAIN pending : x # d => pending'[x] = pending[x]
  BY DEF Enqueue, Queued
<1>6. pending' \in [DOMAIN pending' -> SUBSET Topics]
  BY <1>5 DEF Enqueue, Queued, DemandTypeOK
<1> HIDE DEF s
<1> QED BY <1>2, <1>3, <1>4, <1>5, <1>6

LEMMA Enqueues ==
  ASSUME DemandTypeOK, OneLoop, NewestLast, work # <<>>,
         Head(work).do \in {"recompute", "deliver"},
         NEW d \in Datasets, NEW set \in SUBSET Topics, Enqueue(d, set, Tail(work)),
         lastEmitted' = [lastEmitted EXCEPT ![d] = set], heard' = heard,
         Head(work).do = "deliver" => Head(work) = Deliver(d)
  PROVE  OneLoop' /\ NewestLast'
<1>1. PICK s \in {<<>>, <<Loop>>} :
           /\ s \in Seq(Statement) /\ work' = s \o Tail(work)
           /\ s = <<>> <=> emitting
           /\ emitting' = TRUE
           /\ DOMAIN pending' = DOMAIN pending \cup {d}
           /\ pending'[d] = set
           /\ \A x \in DOMAIN pending : x # d => pending'[x] = pending[x]
           /\ pending' \in [DOMAIN pending' -> SUBSET Topics]
  BY EnqueueShape
<1>2. /\ Len(work) \in Nat /\ Len(s) \in Nat
      /\ \A i \in 1..Len(s) : i \in 1..Len(work') /\ work'[i] = s[i]
      /\ \A i \in 1..Len(work) :
           i > 1 => i + Len(s) - 1 \in 1..Len(work') /\ work'[i + Len(s) - 1] = work[i]
  BY <1>1, Replacing
<1>3. \A i \in 1..Len(work') :
        \/ i \in 1..Len(s)
        \/ i - Len(s) + 1 \in 2..Len(work) /\ work'[i] = work[i - Len(s) + 1]
  BY <1>1, Replacing
<1>4. \A e : Has(work', e) <=> Has(s, e) \/ Has(Tail(work), e)
  BY <1>1, Replacing
<1>5. /\ work[1] = Head(work) /\ 1 \in 1..Len(work)
      /\ \A e : Has(work, e) <=> e = Head(work) \/ Has(Tail(work), e)
  BY Below DEF DemandTypeOK
<1>6. Loop.do = "loop"
  BY DEF Loop
<1>7. \A i \in 1..Len(s) : s[i] = Loop /\ i = 1 /\ ~emitting
  BY <1>1
<1>8. Has(Tail(work), Loop) <=> emitting
  BY <1>5, <1>6 DEF OneLoop
<1>9. OneLoop'
  <2>1. Has(work', Loop)
    <3>1. CASE emitting
      BY <1>4, <1>8, <3>1
    <3>2. CASE ~emitting
      <4>1. Has(s, Loop)
        BY <1>1, <3>2, Lists
      <4> QED BY <4>1, <1>4
    <3> QED BY <3>1, <3>2
  <2>2. ~emitting => \A i \in 1..Len(work) : work[i] # Loop /\ work[i].do # "active"
    BY DEF OneLoop, Has
  <2> DEFINE at(i) == i - Len(s) + 1
  <2>3. ASSUME NEW i \in 1..Len(work'), work'[i] = Loop
        PROVE  \/ ~emitting /\ i = 1
               \/ emitting /\ at(i) \in 1..Len(work) /\ work[at(i)] = Loop
    BY <1>2, <1>3, <1>7, <2>2, <2>3
  <2>4. ASSUME NEW i \in 1..Len(work'), NEW j \in 1..Len(work'), work'[i] = Loop, work'[j] = Loop PROVE i = j
    <3>1. CASE emitting
      <4>1. at(i) = at(j)
        BY <2>3, <2>4, <3>1 DEF OneLoop
      <4> QED BY <4>1, <1>2
    <3>2. CASE ~emitting
      BY <2>3, <2>4, <3>2
    <3> QED BY <3>1, <3>2
  <2>5. ASSUME NEW i \in 1..Len(work'), work'[i].do = "active"
        PROVE  emitting /\ at(i) \in 1..Len(work) /\ work[at(i)].do = "active"
    BY <1>2, <1>3, <1>6, <1>7, <2>2, <2>5
  <2>6. ASSUME NEW i \in 1..Len(work'), NEW j \in 1..Len(work'), work'[i].do = "active", work'[j].do = "active"
        PROVE  i = j
    <3>1. at(i) = at(j)
      BY <2>5, <2>6 DEF OneLoop
    <3> QED BY <3>1, <1>2
  <2>7. ASSUME NEW i \in 1..Len(work'), NEW j \in 1..Len(work'), work'[i] = Loop, work'[j].do = "active"
        PROVE  j < i
    <3>1. emitting /\ at(j) \in 1..Len(work) /\ work[at(j)].do = "active"
      BY <2>5, <2>7
    <3>2. at(i) \in 1..Len(work) /\ work[at(i)] = Loop
      BY <2>3, <2>7, <3>1
    <3>3. at(j) < at(i)
      BY <3>1, <3>2 DEF OneLoop
    <3> QED BY <3>3, <1>2
  <2> QED BY <1>1, <2>1, <2>4, <2>6, <2>7 DEF OneLoop, Loop
<1>10. ASSUME NEW x \in Datasets PROVE NewestFor(x)'
  <2>1. CASE x = d
    <3>1. x \in DOMAIN pending' /\ pending'[x] = lastEmitted'[x]
      BY <1>1, <2>1 DEF DemandTypeOK
    <3> QED BY <3>1 DEF NewestFor
  <2>2. CASE x # d
    <3>1. lastEmitted'[x] = lastEmitted[x] /\ NewestFor(x)
      BY <2>2 DEF DemandTypeOK, NewestLast
    <3>2. CASE Has(work, Deliver(x))
      <4>1. Deliver(x) # Head(work)
        BY <2>2 DEF Deliver
      <4> QED BY <1>4, <1>5, <3>2, <4>1 DEF NewestFor, Deliver
    <3>3. CASE x \in DOMAIN pending /\ pending[x] = lastEmitted[x]
      BY <1>1, <2>2, <3>1, <3>3 DEF NewestFor
    <3>4. CASE /\ x \notin DOMAIN pending
               /\ \A i \in 1..Len(work) : work[i].do = "active" /\ work[i].ds = x => work[i].set = lastEmitted[x]
               /\ \A y \in Slots :
                    \/ heard[y][x] = lastEmitted[x]
                    \/ \E i \in 1..Len(work) : work[i].do = "active" /\ work[i].ds = x /\ work[i].slot <= y
      <4>1. x \notin DOMAIN pending'
        BY <1>1, <2>2, <3>4
      <4>2. ASSUME NEW i \in 1..Len(work'), work'[i].do = "active", work'[i].ds = x PROVE work'[i].set = lastEmitted'[x]
        <5>1. i \notin 1..Len(s)
          BY <1>2, <1>6, <1>7, <4>2
        <5>2. i - Len(s) + 1 \in 1..Len(work) /\ work'[i] = work[i - Len(s) + 1]
          BY <1>2, <1>3, <5>1
        <5> QED BY <3>1, <3>4, <4>2, <5>2
      <4>3. ASSUME NEW y \in Slots, heard'[y][x] # lastEmitted'[x]
            PROVE  \E i \in 1..Len(work') : work'[i].do = "active" /\ work'[i].ds = x /\ work'[i].slot <= y
        <5>1. PICK i \in 1..Len(work) : work[i].do = "active" /\ work[i].ds = x /\ work[i].slot <= y
          BY <3>1, <3>4, <4>3
        <5>2. i > 1
          BY <1>2, <1>5, <5>1
        <5> QED BY <1>2, <5>1, <5>2
      <4> QED BY <4>1, <4>2, <4>3 DEF NewestFor
    <3> QED BY <3>1, <3>2, <3>3, <3>4 DEF NewestFor
  <2> QED BY <2>1, <2>2
<1> QED BY <1>9, <1>10 DEF NewestLast

LEMMA Recomputing ==
  ASSUME DemandInv, Recomputes
  PROVE  DemandInv'
<1> DEFINE d == Head(work).ds
<1> USE DEF DemandInv
<1>1. /\ work # <<>> /\ Head(work).do = "recompute"
      /\ UNCHANGED <<refs, tiers, calls, heard, gate, badges>>
  BY DEF Recomputes, heardVars
<1>2. d \in Datasets /\ Head(work) = Recompute(d) /\ Active(d) \in SUBSET Topics
  <2>1. Head(work) \in Statement
    BY <1>1, Below DEF DemandTypeOK
  <2>2. d \in Datasets /\ Head(work) = Recompute(d)
    BY <1>1, <2>1 DEF Statement, Recompute
  <2> QED BY <2>2 DEF Active, DemandTypeOK
<1> HIDE DEF d
<1>3. /\ Tail(work) \in Seq(Statement) /\ 1 \in 1..Len(work) /\ work[1] = Head(work)
      /\ \A e : Has(work, e) <=> e = Head(work) \/ Has(Tail(work), e)
  BY <1>1, Below DEF DemandTypeOK
<1>4. \A x \in Datasets : Active(x)' = Active(x) /\ Referenced(x)' = Referenced(x)
  BY <1>1 DEF Active, Referenced
<1>5. \A x \in Datasets : Has(work, Reference(x)) => Has(Tail(work), Reference(x))
  BY <1>1, <1>3 DEF Reference
<1>6. \A x \in Datasets : Has(work, Forced(x)) => Has(Tail(work), Forced(x))
  BY <1>1, <1>3 DEF Forced
<1>7. \A x \in Datasets : x # d /\ Has(work, Recompute(x)) => Has(Tail(work), Recompute(x))
  BY <1>2, <1>3 DEF Recompute
<1>8. CASE Active(d) = lastEmitted[d]
  <2>1. work' = Tail(work) /\ UNCHANGED <<lastEmitted, pending, emitting>>
    BY <1>8 DEF Recomputes, d
  <2>2. DemandTypeOK'
    BY <1>1, <1>3, <2>1 DEF DemandTypeOK
  <2>3. FlipsOwed'
    BY <1>1, <1>4, <1>5, <1>6, <2>1 DEF FlipsOwed, Reference, Forced
  <2>4. RecomputeOwed'
    BY <1>4, <1>7, <1>8, <2>1 DEF RecomputeOwed, Recompute
  <2>5. EmptiesFirst' /\ OneLoop' /\ NewestLast'
    BY <1>1, <2>1, Popping
  <2> QED BY <2>2, <2>3, <2>4, <2>5
<1>9. CASE Active(d) # lastEmitted[d]
  <2>1. Enqueue(d, Active(d), Tail(work)) /\ lastEmitted' = [lastEmitted EXCEPT ![d] = Active(d)]
    BY <1>9 DEF Recomputes, d
  <2>2. PICK s \in {<<>>, <<Loop>>} :
           /\ s \in Seq(Statement) /\ work' = s \o Tail(work)
           /\ s = <<>> <=> emitting
           /\ emitting' = TRUE
           /\ DOMAIN pending' = DOMAIN pending \cup {d}
           /\ pending'[d] = Active(d)
           /\ \A x \in DOMAIN pending : x # d => pending'[x] = pending[x]
           /\ pending' \in [DOMAIN pending' -> SUBSET Topics]
    BY <1>1, <1>2, <2>1, EnqueueShape
  <2>3. work' \in Seq(Statement) /\ \A e : Has(Tail(work), e) => Has(work', e)
    BY <1>3, <2>2, Under
  <2>4. DemandTypeOK'
    BY <1>1, <1>2, <2>1, <2>2, <2>3 DEF DemandTypeOK
  <2>5. FlipsOwed'
    BY <1>1, <1>4, <1>5, <1>6, <2>3 DEF FlipsOwed, Reference, Forced
  <2>6. RecomputeOwed'
    BY <1>2, <1>4, <1>7, <2>1, <2>3 DEF RecomputeOwed, Recompute, DemandTypeOK
  <2>7. EmptiesFirst'
    <3>1. \A i \in 1..Len(work) : work[i].do # "deliver"
      BY <1>1, <1>3 DEF EmptiesFirst
    <3>2. ASSUME NEW i \in 1..Len(work'), work'[i].do = "deliver" PROVE FALSE
      <4>1. CASE i \in 1..Len(s)
        <5>1. work'[i] = s[i] /\ s[i] = Loop
          BY <1>1, <2>2, <4>1, Replacing
        <5> QED BY <3>2, <5>1 DEF Loop
      <4>2. CASE i \notin 1..Len(s)
        BY <1>1, <2>2, <3>1, <3>2, <4>2, Replacing
      <4> QED BY <4>1, <4>2
    <3> QED BY <3>2 DEF EmptiesFirst
  <2>8. OneLoop' /\ NewestLast'
    BY <1>1, <1>2, <2>1, Enqueues
  <2> QED BY <2>4, <2>5, <2>6, <2>7, <2>8
<1> QED BY <1>8, <1>9

LEMMA Emptying ==
  ASSUME DemandInv, DeliversEmpty
  PROVE  DemandInv'
<1> DEFINE d == Head(work).ds
<1> USE DEF DemandInv
<1>1. /\ work # <<>> /\ Head(work).do = "deliver" /\ Enqueue(d, {}, Tail(work))
      /\ UNCHANGED <<refs, tiers, lastEmitted, calls, heard, gate, badges>>
  BY DEF DeliversEmpty, heardVars
<1>2. d \in Datasets /\ Head(work) = Deliver(d)
  <2>1. Head(work) \in Statement
    BY <1>1, Below DEF DemandTypeOK
  <2> QED BY <1>1, <2>1 DEF Statement, Deliver
<1>3. /\ Tail(work) \in Seq(Statement) /\ 1 \in 1..Len(work) /\ work[1] = Head(work)
      /\ \A e : Has(work, e) <=> e = Head(work) \/ Has(Tail(work), e)
  BY <1>1, Below DEF DemandTypeOK
<1>4. lastEmitted[d] = {}
  BY <1>1, <1>3 DEF EmptiesFirst, d
<1>5. lastEmitted' = [lastEmitted EXCEPT ![d] = {}]
  BY <1>1, <1>2, <1>4 DEF DemandTypeOK
<1> HIDE DEF d
<1>6. \A x \in Datasets : Active(x)' = Active(x) /\ Referenced(x)' = Referenced(x)
  BY <1>1 DEF Active, Referenced
<1>7. \A x \in Datasets :
        /\ Has(work, Reference(x)) => Has(Tail(work), Reference(x))
        /\ Has(work, Forced(x)) => Has(Tail(work), Forced(x))
        /\ Has(work, Recompute(x)) => Has(Tail(work), Recompute(x))
  BY <1>1, <1>3 DEF Reference, Forced, Recompute
<1>8. PICK s \in {<<>>, <<Loop>>} :
         /\ s \in Seq(Statement) /\ work' = s \o Tail(work)
         /\ s = <<>> <=> emitting
         /\ emitting' = TRUE
         /\ DOMAIN pending' = DOMAIN pending \cup {d}
         /\ pending'[d] = {}
         /\ \A x \in DOMAIN pending : x # d => pending'[x] = pending[x]
         /\ pending' \in [DOMAIN pending' -> SUBSET Topics]
  <2>1. {} \in SUBSET Topics /\ DemandTypeOK /\ work # <<>> /\ Enqueue(d, {}, Tail(work))
    BY <1>1
  <2> QED BY <1>2, <2>1, EnqueueShape
<1>9. work' \in Seq(Statement) /\ \A e : Has(Tail(work), e) => Has(work', e)
  BY <1>3, <1>8, Under
<1>10. DemandTypeOK'
  BY <1>1, <1>2, <1>8, <1>9 DEF DemandTypeOK
<1>11. FlipsOwed'
  BY <1>1, <1>6, <1>7, <1>9 DEF FlipsOwed, Reference, Forced
<1>12. RecomputeOwed'
  BY <1>1, <1>6, <1>7, <1>9 DEF RecomputeOwed, Recompute
<1>13. EmptiesFirst'
  <2>1. \A i \in 1..Len(work) : i > 1 => work[i].do # "deliver"
    BY <1>1, <1>3 DEF EmptiesFirst
  <2>2. ASSUME NEW i \in 1..Len(work'), work'[i].do = "deliver" PROVE FALSE
    <3>1. CASE i \in 1..Len(s)
      <4>1. work'[i] = s[i] /\ s[i] = Loop
        BY <1>1, <1>8, <3>1, Replacing
      <4> QED BY <2>2, <4>1 DEF Loop
    <3>2. CASE i \notin 1..Len(s)
      <4>1. i - Len(s) + 1 \in 2..Len(work) /\ work'[i] = work[i - Len(s) + 1]
        BY <1>1, <1>8, <2>2, <3>2, Replacing
      <4>2. i - Len(s) + 1 \in 1..Len(work) /\ i - Len(s) + 1 > 1
        BY <4>1
      <4> QED BY <2>1, <2>2, <4>1, <4>2
    <3> QED BY <3>1, <3>2
  <2> QED BY <2>2 DEF EmptiesFirst
<1>14. OneLoop' /\ NewestLast'
  BY <1>1, <1>2, <1>5, Enqueues
<1> QED BY <1>10, <1>11, <1>12, <1>13, <1>14

LEMMA Looping ==
  ASSUME DemandInv, Loops
  PROVE  DemandInv'
<1> USE DEF DemandInv
<1>1. /\ work # <<>> /\ Head(work).do = "loop"
      /\ UNCHANGED <<refs, tiers, lastEmitted, calls, heard, gate, badges>>
  BY DEF Loops, heardVars
<1>2. Head(work) = Loop
  <2>1. Head(work) \in Statement
    BY <1>1, Below DEF DemandTypeOK
  <2> QED BY <1>1, <2>1 DEF Statement, Loop
<1>3. /\ work \in Seq(Statement) /\ Tail(work) \in Seq(Statement) /\ Len(work) \in Nat
      /\ 1 \in 1..Len(work) /\ work[1] = Head(work)
      /\ Len(Tail(work)) \in Nat
      /\ \A i \in 1..Len(Tail(work)) : i + 1 \in 1..Len(work) /\ Tail(work)[i] = work[i + 1]
      /\ \A e : Has(work, e) <=> e = Head(work) \/ Has(Tail(work), e)
  BY <1>1, Below DEF DemandTypeOK
<1>4. \A x \in Datasets : Active(x)' = Active(x) /\ Referenced(x)' = Referenced(x)
  BY <1>1 DEF Active, Referenced
(* The loop is alone, and no emission is being served. *)
<1>5. \A i \in 1..Len(work) : work[i].do # "active" /\ (i > 1 => work[i] # Loop) /\ work[i].do # "deliver"
  <2>1. \A i \in 1..Len(work) : work[i].do # "deliver"
    BY <1>1, <1>3 DEF EmptiesFirst
  <2> QED BY <1>2, <1>3, <2>1 DEF OneLoop
<1>6. \A x \in Datasets : ~Has(work, Deliver(x))
  BY <1>5 DEF Has, Deliver
<1>7. CASE DOMAIN pending = {}
  <2>1. work' = Tail(work) /\ emitting' = FALSE /\ pending' = pending
    BY <1>7 DEF Loops
  <2>2. DemandTypeOK'
    BY <1>1, <1>3, <2>1 DEF DemandTypeOK
  <2>3. \A i \in 1..Len(work') : work'[i].do # "active" /\ work'[i] # Loop /\ work'[i].do # "deliver"
    BY <1>3, <1>5, <2>1
  <2>4. FlipsOwed'
    <3>1. \A x \in Datasets : Has(work, Reference(x)) => Has(work', Reference(x))
      BY <1>2, <1>3, <2>1 DEF Reference, Loop
    <3>2. \A x \in Datasets : Has(work, Forced(x)) => Has(work', Forced(x))
      BY <1>2, <1>3, <2>1 DEF Forced, Loop
    <3> QED BY <1>1, <1>4, <3>1, <3>2 DEF FlipsOwed, Reference, Forced
  <2>5. RecomputeOwed'
    BY <1>1, <1>2, <1>3, <1>4, <2>1 DEF RecomputeOwed, Recompute, Loop
  <2>6. EmptiesFirst'
    BY <2>3 DEF EmptiesFirst
  <2>7. OneLoop'
    BY <1>7, <2>1, <2>3 DEF OneLoop, Has, Loop
  <2>8. ASSUME NEW x \in Datasets PROVE NewestFor(x)'
    <3>1. \A y \in Slots : heard[y][x] = lastEmitted[x]
      BY <1>5, <1>6, <1>7 DEF NewestLast, NewestFor
    <3> QED BY <1>1, <1>7, <2>1, <2>3, <3>1 DEF NewestFor
  <2> QED BY <2>2, <2>4, <2>5, <2>6, <2>7, <2>8 DEF NewestLast
<1>8. CASE DOMAIN pending # {}
  <2>1. PICK d \in DOMAIN pending :
          /\ work' = <<TellFrom1(d, pending[d])>> \o work
          /\ pending' = [x \in DOMAIN pending \ {d} |-> pending[x]]
          /\ emitting' = emitting
    BY <1>8 DEF Loops
  <2> DEFINE e == TellFrom1(d, pending[d])
  <2>2. d \in Datasets /\ pending[d] = lastEmitted[d] /\ e \in Statement
    BY <1>6, Statements DEF DemandTypeOK, NewestLast, NewestFor
  <2>3. e.do = "active" /\ e.ds = d /\ e.set = lastEmitted[d] /\ e.slot = 1 /\ e # Loop
    BY <2>2 DEF TellFrom1, Loop
  <2> HIDE DEF e
  <2>4. <<e>> \in Seq(Statement) /\ Len(<<e>>) = 1 /\ <<e>>[1] = e
    BY <2>2
  <2>5. /\ work' \in Seq(Statement) /\ Len(work') = 1 + Len(work) /\ work'[1] = e
        /\ \A i \in 1..Len(work) : work'[1 + i] = work[i]
        /\ \A f : Has(work', f) <=> Has(<<e>>, f) \/ Has(work, f)
    <3>1. /\ <<e>> \o work \in Seq(Statement)
          /\ Len(<<e>> \o work) = Len(<<e>>) + Len(work)
          /\ \A i \in 1..Len(<<e>>) : (<<e>> \o work)[i] = <<e>>[i]
          /\ \A i \in 1..Len(work) : (<<e>> \o work)[Len(<<e>>) + i] = work[i]
          /\ \A f : Has(<<e>> \o work, f) <=> Has(<<e>>, f) \/ Has(work, f)
      BY <1>3, <2>4, Under
    <3>2. work' = <<e>> \o work
      BY <2>1 DEF e
    <3> QED BY <2>4, <3>1, <3>2
  <2>6. \A i \in 1..Len(work') : i = 1 \/ (i - 1 \in 1..Len(work) /\ work'[i] = work[i - 1])
    <3>1. ASSUME NEW i \in 1..Len(work'), i # 1 PROVE i - 1 \in 1..Len(work) /\ work'[i] = work[i - 1]
      <4>1. i - 1 \in 1..Len(work) /\ 1 + (i - 1) = i
        BY <1>3, <2>5, <3>1
      <4> QED BY <2>5, <4>1
    <3> QED BY <3>1
  <2>7. DemandTypeOK'
    BY <1>1, <2>1, <2>5 DEF DemandTypeOK
  <2>8. FlipsOwed' /\ RecomputeOwed'
    BY <1>1, <1>4, <2>5 DEF FlipsOwed, RecomputeOwed, Reference, Forced, Recompute
  <2>9. EmptiesFirst'
    BY <1>5, <2>3, <2>5, <2>6 DEF EmptiesFirst
  <2>10. OneLoop'
    <3>1. \A i \in 1..Len(work') : work'[i].do = "active" => i = 1
      BY <1>5, <2>6
    <3>2. \A i \in 1..Len(work') : work'[i] = Loop => i = 2
      BY <1>3, <1>5, <2>3, <2>5, <2>6
    <3>3. emitting' /\ Has(work', Loop)
      BY <1>2, <1>3, <2>1, <2>5 DEF OneLoop
    <3> QED BY <3>1, <3>2, <3>3 DEF OneLoop, Loop
  <2>11. ASSUME NEW x \in Datasets PROVE NewestFor(x)'
    <3>1. CASE x = d
      <4>1. x \notin DOMAIN pending'
        BY <2>1, <3>1
      <4>2. \A i \in 1..Len(work') : work'[i].do = "active" => work'[i].set = lastEmitted'[x]
        BY <1>1, <1>5, <2>3, <2>5, <2>6, <3>1
      <4>3. ASSUME NEW y \in Slots
            PROVE  \E i \in 1..Len(work') : work'[i].do = "active" /\ work'[i].ds = x /\ work'[i].slot <= y
        <5>1. 1 <= y /\ 1 \in 1..Len(work')
          BY <1>3, <2>5, DemandAssumption
        <5> QED BY <2>3, <2>5, <3>1, <5>1
      <4> QED BY <4>1, <4>2, <4>3 DEF NewestFor
    <3>2. CASE x # d
      <4>1. CASE x \in DOMAIN pending
        BY <1>1, <1>6, <2>1, <3>2, <4>1 DEF NewestLast, NewestFor
      <4>2. CASE x \notin DOMAIN pending
        <5>1. \A y \in Slots : heard[y][x] = lastEmitted[x]
          BY <1>5, <1>6, <4>2 DEF NewestLast, NewestFor
        <5>2. \A i \in 1..Len(work') : work'[i].do = "active" => work'[i].ds = d
          BY <1>5, <2>3, <2>5, <2>6
        <5> QED BY <1>1, <2>1, <3>2, <4>2, <5>1, <5>2 DEF NewestFor
      <4> QED BY <4>1, <4>2
    <3> QED BY <3>1, <3>2
  <2> QED BY <2>7, <2>8, <2>9, <2>10, <2>11 DEF NewestLast
<1> QED BY <1>7, <1>8

LEMMA TellingActive ==
  ASSUME DemandInv, TellActive
  PROVE  DemandInv'
<1> DEFINE e == Head(work)
           f == [e EXCEPT !.slot = @ + 1]
           next == IF e.slot + 1 \in Slots THEN <<f>> ELSE <<>>
           s == <<MutatorRuns>> \o next
<1> USE DEF DemandInv
<1>1. /\ work # <<>> /\ e.do = "active"
      /\ heard' = [heard EXCEPT ![e.slot][e.ds] = e.set]
      /\ work' = s \o Tail(work)
      /\ UNCHANGED <<refs, tiers, lastEmitted, pending, emitting, calls, gate, badges>>
  BY DEF TellActive, trackerVars
<1>2. /\ e \in Statement /\ e.ds \in Datasets /\ e.set \in SUBSET Topics /\ e.slot \in Slots
      /\ e \in [do : {"active"}, ds : Datasets, set : SUBSET Topics, slot : Slots]
  <2>1. e \in Statement
    BY <1>1, Below DEF DemandTypeOK
  <2>2. e \in [do : {"active"}, ds : Datasets, set : SUBSET Topics, slot : Slots]
    BY <1>1, <2>1 DEF Statement
  <2> HIDE DEF e
  <2> QED BY <2>1, <2>2
<1>3. /\ f.do = "active" /\ f.ds = e.ds /\ f.set = e.set
      /\ f.slot = e.slot + 1
      /\ e.slot + 1 \in Slots => f \in Statement
  <2> HIDE DEF e
  <2> QED BY <1>2 DEF Statement
<1> HIDE DEF f
<1>4. /\ s \in Seq(Statement)
      /\ Len(s) \in {1, 2} /\ (Len(s) = 2 <=> e.slot + 1 \in Slots)
      /\ s[1] = MutatorRuns /\ (Len(s) = 2 => s[2] = f)
  <2>1. CASE e.slot + 1 \in Slots
    <3>1. s = <<MutatorRuns>> \o <<f>>
      BY <2>1
    <3>2. /\ <<MutatorRuns>> \in Seq(Statement) /\ Len(<<MutatorRuns>>) = 1 /\ <<MutatorRuns>>[1] = MutatorRuns
          /\ <<f>> \in Seq(Statement) /\ Len(<<f>>) = 1 /\ <<f>>[1] = f
      BY <1>3, <2>1, Statements
    <3>3. /\ <<MutatorRuns>> \o <<f>> \in Seq(Statement)
          /\ Len(<<MutatorRuns>> \o <<f>>) = Len(<<MutatorRuns>>) + Len(<<f>>)
          /\ \A i \in 1..Len(<<MutatorRuns>>) : (<<MutatorRuns>> \o <<f>>)[i] = <<MutatorRuns>>[i]
          /\ \A i \in 1..Len(<<f>>) : (<<MutatorRuns>> \o <<f>>)[Len(<<MutatorRuns>>) + i] = <<f>>[i]
      BY <3>2, Under
    <3>4. /\ <<MutatorRuns>> \o <<f>> \in Seq(Statement) /\ Len(<<MutatorRuns>> \o <<f>>) = 2
          /\ (<<MutatorRuns>> \o <<f>>)[1] = MutatorRuns /\ (<<MutatorRuns>> \o <<f>>)[2] = f
      BY <3>2, <3>3
    <3> HIDE DEF s
    <3> QED BY <2>1, <3>1, <3>4
  <2>2. CASE e.slot + 1 \notin Slots
    <3>1. s = <<MutatorRuns>>
      BY <2>2
    <3>2. <<MutatorRuns>> \in Seq(Statement) /\ Len(<<MutatorRuns>>) = 1 /\ <<MutatorRuns>>[1] = MutatorRuns
      BY Statements
    <3> HIDE DEF s
    <3> QED BY <2>2, <3>1, <3>2
  <2> QED BY <2>1, <2>2
<1> HIDE DEF s, next
<1>6. /\ work' \in Seq(Statement) /\ Len(work) \in Nat
      /\ \A i \in 1..Len(s) : i \in 1..Len(work') /\ work'[i] = s[i]
      /\ \A i \in 1..Len(work) :
           i > 1 => i + Len(s) - 1 \in 1..Len(work') /\ work'[i + Len(s) - 1] = work[i]
      /\ \A i \in 1..Len(work') :
           \/ i \in 1..Len(s)
           \/ i - Len(s) + 1 \in 2..Len(work) /\ work'[i] = work[i - Len(s) + 1]
      /\ \A g : Has(work', g) <=> Has(s, g) \/ Has(Tail(work), g)
  BY <1>1, <1>4, Replacing
<1>7. /\ 1 \in 1..Len(work) /\ work[1] = e
      /\ \A g : Has(work, g) <=> g = e \/ Has(Tail(work), g)
  BY <1>1, Below DEF DemandTypeOK
<1> HIDE DEF e
<1>8. \A g : g.do # "active" /\ Has(work, g) => Has(work', g)
  BY <1>1, <1>6, <1>7
<1>9. \A i \in 1..Len(work) : work[i].do # "deliver" /\ (i > 1 => work[i].do # "active")
  <2>1. ASSUME NEW i \in 1..Len(work), work[i].do = "deliver" PROVE FALSE
    <3>1. 1 < i
      BY <1>1, <1>6, <1>7, <2>1
    <3>2. work[1].do \in {"forced", "reference"}
      BY <1>7, <2>1, <3>1 DEF EmptiesFirst
    <3> QED BY <1>1, <1>7, <3>2
  <2>2. \A i \in 1..Len(work) : work[i].do = "active" => i = 1
    BY <1>1, <1>7 DEF OneLoop
  <2> QED BY <2>1, <2>2
(* What the new stack holds: a running slot, perhaps the rest of the emission, *)
(* and what was below it.                                                     *)
<1>10. \A i \in 1..Len(work') :
         \/ i = 1 /\ work'[i] = MutatorRuns
         \/ i = 2 /\ Len(s) = 2 /\ work'[i] = f
         \/ /\ i > Len(s) /\ i - Len(s) + 1 \in 2..Len(work)
            /\ work'[i] = work[i - Len(s) + 1]
            /\ work'[i].do # "active" /\ work'[i].do # "deliver"
  <2>1. ASSUME NEW i \in 1..Len(work'), i \in 1..Len(s)
        PROVE  (i = 1 /\ work'[i] = MutatorRuns) \/ (i = 2 /\ Len(s) = 2 /\ work'[i] = f)
    <3>1. work'[i] = s[i]
      BY <1>6, <2>1
    <3>2. \A n \in {1, 2} : \A j \in 1..n : j = 1 \/ (j = 2 /\ n = 2)
      OBVIOUS
    <3>3. Len(s) \in {1, 2} /\ i \in 1..Len(s)
      BY <1>4, <2>1
    <3>4. i = 1 \/ (i = 2 /\ Len(s) = 2)
      BY <3>2, <3>3
    <3> QED BY <1>4, <3>1, <3>4
  <2>2. ASSUME NEW i \in 1..Len(work'), i \notin 1..Len(s)
        PROVE  /\ i > Len(s) /\ i - Len(s) + 1 \in 2..Len(work)
               /\ work'[i] = work[i - Len(s) + 1]
               /\ work'[i].do # "active" /\ work'[i].do # "deliver"
    <3>1. i - Len(s) + 1 \in 2..Len(work) /\ work'[i] = work[i - Len(s) + 1]
      BY <1>6, <2>2
    <3>2. i > Len(s) /\ i - Len(s) + 1 \in 1..Len(work) /\ i - Len(s) + 1 > 1
      BY <1>4, <2>2, <3>1
    <3> QED BY <1>9, <3>1, <3>2
  <2> QED BY <2>1, <2>2
<1>11. \A i \in 1..Len(work') : work'[i].do = "active" => i = 2 /\ Len(s) = 2 /\ work'[i] = f
  BY <1>10 DEF MutatorRuns
<1>12. DemandTypeOK'
  <2>1. heard' \in [Slots -> [Datasets -> SUBSET Topics]]
    BY <1>1, <1>2 DEF DemandTypeOK
  <2> QED BY <1>1, <1>6, <2>1 DEF DemandTypeOK
<1>13. \A x \in Datasets : Active(x)' = Active(x) /\ Referenced(x)' = Referenced(x)
  BY <1>1 DEF Active, Referenced
<1>14. FlipsOwed'
  <2>1. \A x \in Datasets : Reference(x).do # "active" /\ Forced(x).do # "active"
    BY DEF Reference, Forced
  <2>2. \A x \in Datasets : Has(work, Reference(x)) => Has(work', Reference(x))
    BY <1>8, <2>1
  <2>3. \A x \in Datasets : Has(work, Forced(x)) => Has(work', Forced(x))
    BY <1>8, <2>1
  <2> QED BY <1>1, <1>13, <2>2, <2>3 DEF FlipsOwed, Reference, Forced
<1>15. RecomputeOwed'
  <2>1. \A x \in Datasets : Recompute(x).do # "active"
    BY DEF Recompute
  <2>2. \A x \in Datasets : Has(work, Recompute(x)) => Has(work', Recompute(x))
    BY <1>8, <2>1
  <2> QED BY <1>1, <1>13, <2>2 DEF RecomputeOwed, Recompute
<1>16. EmptiesFirst'
  <2>1. \A i \in 1..Len(work') : work'[i].do # "deliver"
    BY <1>3, <1>10 DEF MutatorRuns
  <2> QED BY <2>1 DEF EmptiesFirst
<1>17. OneLoop'
  <2>1. emitting /\ emitting'
    BY <1>1, <1>7 DEF OneLoop
  <2>2. Has(work', Loop)
    <3>1. Has(work, Loop) /\ Loop.do # "active"
      BY <2>1 DEF OneLoop, Loop
    <3> QED BY <1>8, <3>1
  <2>3. \A i \in 1..Len(work') : work'[i] = Loop =>
          i > Len(s) /\ i - Len(s) + 1 \in 1..Len(work) /\ work[i - Len(s) + 1] = Loop
    BY <1>3, <1>10 DEF MutatorRuns, Loop
  <2>4. ASSUME NEW i \in 1..Len(work'), NEW j \in 1..Len(work'), work'[i] = Loop, work'[j] = Loop
        PROVE  i = j
    <3>1. i - Len(s) + 1 = j - Len(s) + 1
      BY <2>3, <2>4 DEF OneLoop
    <3> QED BY <1>4, <3>1
  <2>5. ASSUME NEW i \in 1..Len(work'), NEW j \in 1..Len(work'), work'[i] = Loop, work'[j].do = "active"
        PROVE  j < i
    BY <1>11, <2>3, <2>5
  <2>6. \A i, j \in 1..Len(work') : work'[i].do = "active" /\ work'[j].do = "active" => i = j
    BY <1>11
  <2> QED BY <2>1, <2>2, <2>4, <2>5, <2>6 DEF OneLoop, Loop
<1>18. ASSUME NEW x \in Datasets PROVE NewestFor(x)'
  <2>1. ~Has(work, Deliver(x))
    BY <1>9 DEF Has, Deliver
  <2>2. CASE x \in DOMAIN pending
    BY <1>1, <2>1, <2>2 DEF NewestLast, NewestFor
  <2>3. CASE x \notin DOMAIN pending /\ x # e.ds
    <3>1. \A y \in Slots : heard[y][x] = lastEmitted[x]
      BY <1>7, <1>9, <2>1, <2>3 DEF NewestLast, NewestFor
    <3>2. \A y \in Slots : heard'[y][x] = lastEmitted'[x]
      BY <1>1, <1>2, <2>3, <3>1 DEF DemandTypeOK
    <3>3. \A i \in 1..Len(work') : work'[i].do = "active" => work'[i].ds # x
      BY <1>3, <1>11, <2>3
    <3> QED BY <1>1, <2>3, <3>2, <3>3 DEF NewestFor
  <2>4. CASE x \notin DOMAIN pending /\ x = e.ds
    <3>1. e.set = lastEmitted[x]
      BY <1>1, <1>7, <2>1, <2>4 DEF NewestLast, NewestFor
    <3>2. \A i \in 1..Len(work') : work'[i].do = "active" => work'[i].set = lastEmitted'[x]
      BY <1>1, <1>3, <1>11, <3>1
    <3>3. ASSUME NEW y \in Slots
          PROVE  \/ heard'[y][x] = lastEmitted'[x]
                 \/ \E i \in 1..Len(work') : work'[i].do = "active" /\ work'[i].ds = x /\ work'[i].slot <= y
      <4>1. CASE y = e.slot
        <5>1. heard'[y][x] = e.set
          BY <1>1, <1>2, <2>4, <4>1 DEF DemandTypeOK
        <5> QED BY <1>1, <3>1, <5>1
      <4>2. CASE y # e.slot
        <5>1. heard'[y][x] = heard[y][x]
          BY <1>1, <1>2, <4>2 DEF DemandTypeOK
        <5>2. heard[y][x] = lastEmitted[x] \/ e.slot <= y
          <6>1. \/ heard[y][x] = lastEmitted[x]
                \/ \E i \in 1..Len(work) : work[i].do = "active" /\ work[i].ds = x /\ work[i].slot <= y
            BY <2>1, <2>4 DEF NewestLast, NewestFor
          <6> QED BY <1>7, <1>9, <6>1
        <5>3. CASE e.slot <= y
          <6>1. e.slot + 1 \in Slots /\ e.slot + 1 <= y
            BY <1>2, <4>2, <5>3, DemandAssumption
          <6>2. 2 \in 1..Len(work') /\ work'[2] = f
            BY <1>4, <1>6, <6>1
          <6> QED BY <1>3, <2>4, <6>1, <6>2
        <5> QED BY <1>1, <5>1, <5>2, <5>3
      <4> QED BY <4>1, <4>2
    <3> QED BY <1>1, <2>4, <3>2, <3>3 DEF NewestFor
  <2> QED BY <2>2, <2>3, <2>4
<1> QED BY <1>12, <1>14, <1>15, <1>16, <1>17, <1>18 DEF NewestLast

-----------------------------------------------------------------------------
(* The flips, and a slot that returns. *)

LEMMA TellingReference ==
  ASSUME DemandInv, TellReference
  PROVE  DemandInv'
<1> DEFINE d == Head(work).ds
<1> USE DEF DemandInv
<1>1. /\ work # <<>> /\ Head(work).do = "reference" /\ work' = Tail(work)
      /\ gate' = [gate EXCEPT ![d] = Referenced(d)]
      /\ UNCHANGED <<refs, tiers, lastEmitted, pending, emitting, calls, heard, badges>>
  BY DEF TellReference, trackerVars
<1>2. d \in Datasets /\ Head(work) = Reference(d)
  <2>1. Head(work) \in Statement
    BY <1>1, Below DEF DemandTypeOK
  <2> QED BY <1>1, <2>1 DEF Statement, Reference
<1> HIDE DEF d
<1>3. work' \in Seq(Statement) /\ \A e : Has(work, e) <=> e = Head(work) \/ Has(work', e)
  BY <1>1, Below DEF DemandTypeOK
<1>4. \A x \in Datasets : Active(x)' = Active(x) /\ Referenced(x)' = Referenced(x)
  BY <1>1 DEF Active, Referenced
<1>5. DemandTypeOK'
  <2>1. Referenced(d) \in BOOLEAN
    BY DEF Referenced
  <2> QED BY <1>1, <1>3, <2>1 DEF DemandTypeOK
<1>6. \A x \in Datasets : x # d /\ Has(work, Reference(x)) => Has(work', Reference(x))
  BY <1>2, <1>3 DEF Reference
<1>7. \A x \in Datasets : Has(work, Forced(x)) => Has(work', Forced(x))
  BY <1>2, <1>3 DEF Forced, Reference
<1>8. \A x \in Datasets : Has(work, Recompute(x)) => Has(work', Recompute(x))
  BY <1>2, <1>3 DEF Recompute, Reference
<1>9. ASSUME NEW x \in Datasets PROVE gate'[x] = Referenced(x)' \/ Has(work', Reference(x))
  <2>1. CASE x = d
    <3>1. gate'[x] = Referenced(x)
      BY <1>1, <1>2, <2>1 DEF DemandTypeOK
    <3> QED BY <1>4, <3>1
  <2>2. CASE x # d
    <3>1. gate'[x] = gate[x]
      BY <1>1, <2>2 DEF DemandTypeOK
    <3> QED BY <1>4, <1>6, <2>2, <3>1 DEF FlipsOwed
  <2> QED BY <2>1, <2>2
<1>10. FlipsOwed'
  BY <1>1, <1>7, <1>9 DEF FlipsOwed, Reference, Forced
<1>11. RecomputeOwed'
  BY <1>1, <1>4, <1>8 DEF RecomputeOwed, Recompute
<1>12. EmptiesFirst' /\ OneLoop' /\ NewestLast'
  BY <1>1, Popping
<1> QED BY <1>5, <1>10, <1>11, <1>12

LEMMA TellingForced ==
  ASSUME DemandInv, TellForced
  PROVE  DemandInv'
<1> DEFINE d == Head(work).ds
<1> USE DEF DemandInv
<1>1. /\ work # <<>> /\ Head(work).do = "forced" /\ work' = Tail(work)
      /\ badges' = [badges EXCEPT ![d] = tiers[d]["forced"]]
      /\ UNCHANGED <<refs, tiers, lastEmitted, pending, emitting, calls, heard, gate>>
  BY DEF TellForced, trackerVars
<1>2. d \in Datasets /\ Head(work) = Forced(d)
  <2>1. Head(work) \in Statement
    BY <1>1, Below DEF DemandTypeOK
  <2> QED BY <1>1, <2>1 DEF Statement, Forced
<1> HIDE DEF d
<1>3. work' \in Seq(Statement) /\ \A e : Has(work, e) <=> e = Head(work) \/ Has(work', e)
  BY <1>1, Below DEF DemandTypeOK
<1>4. \A x \in Datasets : Active(x)' = Active(x) /\ Referenced(x)' = Referenced(x)
  BY <1>1 DEF Active, Referenced
<1>5. DemandTypeOK'
  BY <1>1, <1>2, <1>3 DEF DemandTypeOK, Tiers
<1>6. \A x \in Datasets : Has(work, Reference(x)) => Has(work', Reference(x))
  BY <1>2, <1>3 DEF Reference, Forced
<1>7. \A x \in Datasets : x # d /\ Has(work, Forced(x)) => Has(work', Forced(x))
  BY <1>2, <1>3 DEF Forced
<1>8. \A x \in Datasets : Has(work, Recompute(x)) => Has(work', Recompute(x))
  BY <1>2, <1>3 DEF Recompute, Forced
<1>9. \A x \in Datasets : badges'[x] = tiers'[x]["forced"] \/ Has(work', Forced(x))
  BY <1>1, <1>2, <1>7 DEF FlipsOwed, DemandTypeOK
<1>10. FlipsOwed'
  BY <1>1, <1>4, <1>6, <1>9 DEF FlipsOwed, Reference, Forced
<1>11. RecomputeOwed'
  BY <1>1, <1>4, <1>8 DEF RecomputeOwed, Recompute
<1>12. EmptiesFirst' /\ OneLoop' /\ NewestLast'
  BY <1>1, Popping
<1> QED BY <1>5, <1>10, <1>11, <1>12

LEMMA Returning ==
  ASSUME DemandInv, SlotReturns
  PROVE  DemandInv'
<1> USE DEF DemandInv
<1>1. /\ work # <<>> /\ Head(work).do = "running" /\ work' = Tail(work)
      /\ UNCHANGED <<refs, tiers, lastEmitted, pending, emitting, calls, heard, gate, badges>>
  BY DEF SlotReturns, trackerVars, heardVars
<1>2. work' \in Seq(Statement) /\ \A e : Has(work, e) <=> e = Head(work) \/ Has(work', e)
  BY <1>1, Below DEF DemandTypeOK
<1>3. \A x \in Datasets : Active(x)' = Active(x) /\ Referenced(x)' = Referenced(x)
  BY <1>1 DEF Active, Referenced
<1>4. DemandTypeOK'
  BY <1>1, <1>2 DEF DemandTypeOK
<1>5. \A x \in Datasets : Has(work, Reference(x)) => Has(work', Reference(x))
  BY <1>1, <1>2 DEF Reference
<1>6. \A x \in Datasets : Has(work, Forced(x)) => Has(work', Forced(x))
  BY <1>1, <1>2 DEF Forced
<1>7. \A x \in Datasets : Has(work, Recompute(x)) => Has(work', Recompute(x))
  BY <1>1, <1>2 DEF Recompute
<1>8. FlipsOwed'
  BY <1>1, <1>3, <1>5, <1>6 DEF FlipsOwed, Reference, Forced
<1>9. RecomputeOwed'
  BY <1>1, <1>3, <1>7 DEF RecomputeOwed, Recompute
<1>10. EmptiesFirst' /\ OneLoop' /\ NewestLast'
  BY <1>1, Popping
<1> QED BY <1>4, <1>8, <1>9, <1>10

-----------------------------------------------------------------------------
LEMMA DemandInductive == DemandSpec => []DemandInv
<1>1. DemandInv /\ [DemandNext]_demandVars => DemandInv'
  <2> SUFFICES ASSUME DemandInv, [DemandNext]_demandVars PROVE DemandInv'
    OBVIOUS
  <2>1. ASSUME NEW d \in Datasets, NEW t \in Topics, AddReference(d, t) PROVE DemandInv'
    BY <2>1, Adds
  <2>2. ASSUME NEW d \in Datasets, NEW t \in Topics, RemoveReference(d, t) PROVE DemandInv'
    BY <2>2, Removes
  <2>3. ASSUME NEW d \in Datasets, NEW k \in Tiers, NEW names \in SUBSET Topics,
               ReplaceTier(d, k, names)
        PROVE  DemandInv'
    BY <2>3, Replaces
  <2>4. ASSUME NEW d \in Datasets, NEW t \in Topics, NEW forced \in BOOLEAN,
               SetTopicForced(d, t, forced)
        PROVE  DemandInv'
    BY <2>4, Forces
  <2>5. ASSUME NEW d \in Datasets, ClearDataset(d) PROVE DemandInv'
    BY <2>5, Clears
  <2>6. CASE EmissionStep
    BY <2>6, Recomputing, Emptying, Looping, TellingActive, TellingReference, TellingForced DEF EmissionStep
  <2>7. CASE SlotReturns
    BY <2>7, Returning
  <2>8. CASE UNCHANGED demandVars
    <3>1. UNCHANGED <<refs, tiers, lastEmitted, pending, emitting, work, calls, heard, gate, badges>>
      BY <2>8 DEF demandVars, trackerVars, heardVars
    <3>2. DemandTypeOK'
      BY <3>1 DEF DemandInv, DemandTypeOK
    <3>3. FlipsOwed'
      BY <3>1 DEF DemandInv, FlipsOwed, Referenced, Has, Reference, Forced
    <3>4. RecomputeOwed'
      <4>1. \A x \in Datasets : Active(x)' = Active(x)
        BY <3>1 DEF Active
      <4> QED BY <3>1, <4>1 DEF DemandInv, RecomputeOwed, Has, Recompute
    <3>5. EmptiesFirst' /\ OneLoop'
      BY <3>1 DEF DemandInv, EmptiesFirst, OneLoop, Has, Loop
    <3>6. NewestLast'
      BY <3>1 DEF DemandInv, NewestLast, NewestFor, Has, Deliver
    <3> QED BY <3>2, <3>3, <3>4, <3>5, <3>6 DEF DemandInv
  <2> QED BY <2>1, <2>2, <2>3, <2>4, <2>5, <2>6, <2>7, <2>8 DEF DemandNext, Mutate
<1> QED BY DemandInitially, <1>1, PTL DEF DemandSpec

(* Reference counts stay natural numbers, statements well formed, and at most *)
(* one set is pending per dataset, however deep the calls nest.               *)
THEOREM DemandTypeCorrect == DemandSpec => []DemandTypeOK
<1>1. DemandInv => DemandTypeOK
  BY DEF DemandInv
<1> QED BY DemandInductive, <1>1, PTL

(* TopicDemandTracker::deliver keeps its promise for every interleaving of     *)
(* calls from inside the signals: once they have all returned, each slot was   *)
(* last told the active set of each dataset.                                  *)
THEOREM Newest == DemandSpec => []LastDeliveryIsNewest
<1>1. DemandInv => LastDeliveryIsNewest
  <2> SUFFICES ASSUME DemandInv, NothingLeft, NEW s \in Slots, NEW d \in Datasets PROVE heard[s][d] = Active(d)
    BY DEF LastDeliveryIsNewest
  <2>1. \A e : ~Has(work, e)
    BY DEF NothingLeft, Has
  <2>2. Active(d) = lastEmitted[d]
    BY <2>1 DEF DemandInv, RecomputeOwed
  <2>3. DOMAIN pending = {}
    BY <2>1 DEF DemandInv, OneLoop
  <2>4. heard[s][d] = lastEmitted[d]
    <3>1. NewestFor(d) /\ 1..Len(work) = {}
      BY DEF DemandInv, NewestLast, NothingLeft
    <3> QED BY <2>1, <2>3, <3>1 DEF NewestFor
  <2> QED BY <2>2, <2>4
<1> QED BY DemandInductive, <1>1, PTL

(* No order of addReference, removeReference, setTopicForced and clearDataset *)
(* leaves the batch engine's gate or the panel's marks behind the tracker.     *)
THEOREM FlipsTold == DemandSpec => []FlipsAreTold
<1>1. DemandInv => FlipsAreTold
  <2> SUFFICES ASSUME DemandInv, NothingLeft, NEW d \in Datasets
               PROVE  gate[d] = Referenced(d) /\ badges[d] = tiers[d]["forced"]
    BY DEF FlipsAreTold
  <2>1. \A e : ~Has(work, e)
    BY DEF NothingLeft, Has
  <2> QED BY <2>1 DEF DemandInv, FlipsOwed
<1> QED BY DemandInductive, <1>1, PTL
=============================================================================
