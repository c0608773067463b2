----------------------------- MODULE ResidentPool -----------------------------
(* The byte budget of the ingest-time payloads the object store keeps for its *)
(* readers (pj_datastore's ResidentPayloadPool): every seeded entry owns a    *)
(* slot, the pool holds weak references in two FIFOs, one per size class, and *)
(* empties the oldest slots when an admission needs room.                     *)
(*                                                                           *)
(* Each action is one critical section of the pool's mutex; a slot whose last *)
(* owner drops it first gives its payload up (SlotDies, on the slot's own     *)
(* mutex) and only later subtracts its charge (SlotSettles, on the pool's):   *)
(* the two locks are never held together.  A payload evicted by the pool is   *)
(* freed after the mutex is released; only its charge is modelled.            *)
EXTENDS Integers, Sequences, FiniteSets, FiniteSetsExt, SequencesExt

CONSTANTS Slots,         \* the slots admissions mint
          Sizes,         \* the payload sizes ingest meets
          Capacity,      \* capacity_bytes
          SmallShare,    \* kSmallClassShareDenominator
          SmallPayload   \* kSmallPayloadBytes

ASSUME PoolAssumption ==
  /\ IsFiniteSet(Slots)
  /\ Sizes \subseteq Nat
  /\ Capacity \in Nat
  /\ SmallShare \in Nat \ {0}
  /\ SmallPayload \in Nat

VARIABLES status,        \* per slot: "unborn", "held", "dying" or "gone"
          charge,        \* per slot: the bytes it was charged
          fifo,          \* the large class, oldest first
          smallFifo,     \* the small class, oldest first
          resident,      \* resident_bytes
          smallResident  \* small_resident_bytes, a part of `resident`

poolVars == <<status, charge, fifo, smallFifo, resident, smallResident>>

(* small_capacity_bytes: the share of the budget kept for small payloads. *)
SmallCapacity == Capacity \div SmallShare

(* isSmall: a payload above the small class's whole capacity is never small. *)
IsSmall(bytes) == bytes <= SmallPayload /\ bytes <= SmallCapacity

ClassFifo(small) == IF small THEN smallFifo ELSE fifo

ClassCapacity(small) == IF small THEN SmallCapacity ELSE Capacity - SmallCapacity

(* class_bytes(): small_resident_bytes is a subset of resident_bytes. *)
ClassBytes(small) == IF small THEN smallResident ELSE resident - smallResident

(* The charges of a set of slots, counted byte by byte. *)
Charges(S) == Cardinality(UNION {{s} \X (1..charge[s]) : s \in S})

(* The slots evict_front empties when it pops the first n of a FIFO: a weak   *)
(* reference whose slot has died is popped without a credit.                  *)
Victims(queue, n) == {queue[i] : i \in 1..n} \cap {s \in Slots : status[s] = "held"}

(* How many a loop pops: the fewest that make `room` true, else the whole FIFO. *)
Pops(queue, room(_)) ==
  LET enough == {n \in 0..Len(queue) : room(Charges(Victims(queue, n)))}
  IN IF enough = {} THEN Len(queue) ELSE Min(enough)

Popped(queue, n) == SubSeq(queue, n + 1, Len(queue))

(* Whether admit() gives the payload a slot at all: nothing is evicted for    *)
(* one that cannot fit, and a large one never displaces a small one.          *)
Admissible(bytes) ==
  /\ bytes > 0
  /\ bytes <= Capacity
  /\ IsSmall(bytes) \/ smallResident + bytes <= Capacity

(* The pops of an admission in its own class's FIFO. *)
OwnPops(bytes) ==
  LET small == IsSmall(bytes)
  IN Pops(ClassFifo(small),
          LAMBDA freed : ClassBytes(small) - freed + bytes <= ClassCapacity(small))

(* What a small payload takes back from the large FIFO. *)
BorrowPops(bytes) ==
  IF ~IsSmall(bytes) THEN 0
  ELSE LET freed == Charges(Victims(smallFifo, OwnPops(bytes)))
       IN Pops(fifo, LAMBDA more : resident - freed - more + bytes <= Capacity)

LargeVictims(bytes) ==
  Victims(fifo, IF IsSmall(bytes) THEN BorrowPops(bytes) ELSE OwnPops(bytes))

SmallVictims(bytes) == IF IsSmall(bytes) THEN Victims(smallFifo, OwnPops(bytes)) ELSE {}

(* admit(), the branch that takes the payload: slot s is its handle. *)
Admit(s, bytes) ==
  LET small == IsSmall(bytes)
      large == LargeVictims(bytes)
      little == SmallVictims(bytes)
  IN /\ status[s] = "unborn"
     /\ Admissible(bytes)
     /\ status' = [x \in Slots |-> IF x = s THEN "held"
                                   ELSE IF x \in large \cup little THEN "gone"
                                   ELSE status[x]]
     /\ charge' = [charge EXCEPT ![s] = bytes]
     /\ IF small
        THEN /\ smallFifo' = Append(Popped(smallFifo, OwnPops(bytes)), s)
             /\ fifo' = Popped(fifo, BorrowPops(bytes))
        ELSE /\ fifo' = Append(Popped(fifo, OwnPops(bytes)), s)
             /\ UNCHANGED smallFifo
     /\ resident' = resident - Charges(large \cup little) + bytes
     /\ smallResident' = smallResident - Charges(little) + (IF small THEN bytes ELSE 0)

(* trim(): every payload of both classes is given up. *)
Trim ==
  LET large == Victims(fifo, Len(fifo))
      little == Victims(smallFifo, Len(smallFifo))
  IN /\ fifo # <<>> \/ smallFifo # <<>>
     /\ status' = [x \in Slots |-> IF x \in large \cup little THEN "gone" ELSE status[x]]
     /\ resident' = resident - Charges(large \cup little)
     /\ smallResident' = smallResident - Charges(little)
     /\ fifo' = <<>>
     /\ smallFifo' = <<>>
     /\ UNCHANGED charge

(* The destructor forgets that the pool counted it. *)
SlotDiesSilently(s) ==
  /\ status[s] = "held"
  /\ status' = [status EXCEPT ![s] = "gone"]
  /\ UNCHANGED <<charge, fifo, smallFifo, resident, smallResident>>

(* ~ResidentSlot, first half: the last owner is gone, take() leaves no payload *)
(* for the pool to take, whose weak reference no longer locks.                *)
SlotDies(s) ==
  /\ status[s] = "held"
  /\ status' = [status EXCEPT ![s] = "dying"]
  /\ UNCHANGED <<charge, fifo, smallFifo, resident, smallResident>>

(* ~ResidentSlot, second half: subtract() retires the charge. *)
SlotSettles(s) ==
  /\ status[s] = "dying"
  /\ status' = [status EXCEPT ![s] = "gone"]
  /\ resident' = resident - charge[s]
  /\ smallResident' = smallResident - (IF IsSmall(charge[s]) THEN charge[s] ELSE 0)
  /\ UNCHANGED <<charge, fifo, smallFifo>>

PoolInit ==
  /\ status = [s \in Slots |-> "unborn"]
  /\ charge = [s \in Slots |-> 0]
  /\ fifo = <<>>
  /\ smallFifo = <<>>
  /\ resident = 0
  /\ smallResident = 0

-------------------------------------------------------------------------------
Counted == {s \in Slots : status[s] \in {"held", "dying"}}

(* A charge is subtracted once: the counters are the charges of the slots that *)
(* hold a payload or are on their way out, whoever empties a slot first, the  *)
(* pool under its mutex or the destructor under none of the pool's.           *)
ChargedOnce ==
  /\ resident = Charges(Counted)
  /\ smallResident = Charges({s \in Counted : IsSmall(charge[s])})

(* The payloads the pool still serves fit the budget, and the small ones the   *)
(* capacity reserved for them, although slots that are dying leave the FIFO   *)
(* without a credit, and a large payload may borrow what the small ones leave *)
(* unused of it until one of them needs it.                                   *)
HeldFits ==
  LET held == {s \in Slots : status[s] = "held"}
  IN /\ Charges(held) <= Capacity
     /\ Charges({s \in held : IsSmall(charge[s])}) <= SmallCapacity
===============================================================================
