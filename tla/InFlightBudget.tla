--------------------------- MODULE InFlightBudget ---------------------------
(***************************************************************************)
(* The memory budget of the derived-data engines: pj_runtime's             *)
(* InFlightBudget, with the protocol of its consumers (NodeScheduler,      *)
(* BatchEngine, GridRunner) as the clients of its operations.              *)
(*                                                                         *)
(* Everything runs on the GUI thread, so one operation is one action; what *)
(* interleaves are the operations themselves, the drains posted to the Qt  *)
(* event loop, and the operations a granted waiter calls from inside a     *)
(* drain.  While draining is TRUE the only code running is such a          *)
(* callback, so every client action taken then is a re-entrant one.        *)
(***************************************************************************)
EXTENDS Integers, Sequences, FiniteSets

CONSTANTS
  Clients,      (* the runs that may be in flight at once                  *)
  Capacity,     (* capacity_, in bytes                                     *)
  Sizes,        (* the byte counts requests ask for; a grid job may ask 0  *)
  Copies        (* the byte counts a marker run's staged copy adds (grow)  *)

ASSUME BudgetAssumption ==
  /\ IsFiniteSet(Clients)
  /\ Capacity \in Nat
  /\ Sizes \subseteq Nat
  /\ Copies \subseteq Nat

VARIABLES
  reserved,     (* reserved_                                               *)
  line,         (* waiters_: the line, head first                          *)
  draining,     (* draining_                                               *)
  drainPosted,  (* drain_posted_: a drain waits in the event loop          *)
  held,         (* per client: the bytes its Reservation holds, 0 for none *)
  staged,       (* per client: its admitted run has staged its copy        *)
  alive         (* the budget exists                                       *)

vars == <<reserved, line, draining, drainPosted, held, staged, alive>>

(* A place in the line: whose ticket it is and the bytes it waits for. *)
Waiter == [client : Clients, bytes : Nat]

Waits(c) == \E i \in 1 .. Len(line) : line[i].client = c
Idle(c) == held[c] = 0 /\ ~Waits(c)

-----------------------------------------------------------------------------
(* Mutant of fits: the run-alone rule is missing. *)
FitsNeverAlone(r, bytes) == r <= Capacity /\ bytes <= Capacity - r

(* InFlightBudget::fits, for a given amount reserved. *)
FitsBeside(r, bytes) == r = 0 \/ (r <= Capacity /\ bytes <= Capacity - r)

(* The head of the line l fits beside r bytes. *)
HeadFits(r, l) == l # <<>> /\ FitsBeside(r, Head(l).bytes)

(* postDrain: posts one drain when the head fits and none runs or is posted. *)
PostDrain(r, l) == drainPosted' = (drainPosted \/ (~draining /\ HeadFits(r, l)))

(* A ticket leaves the line: the place at index i goes. *)
Without(l, i) == SubSeq(l, 1, i - 1) \o SubSeq(l, i + 1, Len(l))

-----------------------------------------------------------------------------
Init ==
  /\ reserved = 0
  /\ line = <<>>
  /\ draining = FALSE
  /\ drainPosted = FALSE
  /\ held = [c \in Clients |-> 0]
  /\ staged = [c \in Clients |-> FALSE]
  /\ alive = TRUE

(* Mutant of tryReserve: it does not look whether somebody waits. *)
TryReserveAheadOfLine(c, bytes) ==
  /\ Idle(c)
  /\ FitsBeside(reserved, bytes)
  /\ reserved' = reserved + bytes
  /\ held' = [held EXCEPT ![c] = bytes]
  /\ UNCHANGED <<line, draining, drainPosted, staged, alive>>

(* tryReserve succeeds: nobody waits and the bytes fit. *)
TryReserve(c, bytes) ==
  /\ Idle(c)
  /\ line = <<>>
  /\ FitsBeside(reserved, bytes)
  /\ reserved' = reserved + bytes
  /\ held' = [held EXCEPT ![c] = bytes]
  /\ UNCHANGED <<line, draining, drainPosted, staged, alive>>

(* A consumer takes a place behind every waiter: tryReserve refused it, or *)
(* it never tries (a grid job).  With room already free a drain is posted. *)
WhenRoom(c, bytes) ==
  /\ Idle(c)
  /\ line' = Append(line, [client |-> c, bytes |-> bytes])
  /\ PostDrain(reserved, line')
  /\ UNCHANGED <<reserved, draining, held, staged, alive>>

(* Reservation::returnRoom: at the run's publication, or at once when the *)
(* granted callback finds its run gone.                                   *)
Release(c) ==
  /\ held[c] > 0
  /\ reserved' = reserved - held[c]
  /\ held' = [held EXCEPT ![c] = 0]
  /\ staged' = [staged EXCEPT ![c] = FALSE]
  /\ PostDrain(reserved', line)
  /\ UNCHANGED <<line, draining, alive>>

(* Mutant of grow's test: the bytes reserved are not compared with the copy. *)
CanGrowAlways(c, bytes) == reserved <= Capacity

(* Reservation::grow's test: the copy fits, or this is the only reservation. *)
CanGrow(c, bytes) == reserved = held[c] \/ FitsBeside(reserved, bytes)

(* Mutant of grow: the copy is not charged. *)
GrowUncharged(c, bytes) ==
  /\ held[c] > 0 /\ ~staged[c]
  /\ CanGrow(c, bytes)
  /\ held' = [held EXCEPT ![c] = @ + bytes]
  /\ staged' = [staged EXCEPT ![c] = TRUE]
  /\ UNCHANGED <<reserved, line, draining, drainPosted, alive>>

(* A marker run charges its staged copy to the room it holds. *)
Grow(c, bytes) ==
  /\ held[c] > 0 /\ ~staged[c]
  /\ CanGrow(c, bytes)
  /\ reserved' = reserved + bytes
  /\ held' = [held EXCEPT ![c] = @ + bytes]
  /\ staged' = [staged EXCEPT ![c] = TRUE]
  /\ UNCHANGED <<line, draining, drainPosted, alive>>

(* The copy does not fit: the run gives its room back, keeps the copy and  *)
(* waits at the head of the line for room for both.  Either call may post. *)
GiveBackAndWaitInFront(c, bytes) ==
  /\ held[c] > 0 /\ ~staged[c]
  /\ ~CanGrow(c, bytes)
  /\ reserved' = reserved - held[c]
  /\ held' = [held EXCEPT ![c] = 0]
  /\ line' = <<[client |-> c, bytes |-> held[c] + bytes]>> \o line
  /\ drainPosted' = (drainPosted \/ (~draining /\ (HeadFits(reserved', line) \/ HeadFits(reserved', line'))))
  /\ staged' = [staged EXCEPT ![c] = TRUE]
  /\ UNCHANGED <<draining, alive>>

(* Mutant of leave: the waiter behind is not looked at. *)
LeaveSilently(c) ==
  \E i \in 1 .. Len(line) :
    /\ line[i].client = c
    /\ line' = Without(line, i)
    /\ staged' = [staged EXCEPT ![c] = FALSE]
    /\ UNCHANGED <<reserved, draining, drainPosted, held, alive>>

(* A ticket is destroyed or assigned over while it is in the line. *)
Leave(c) ==
  \E i \in 1 .. Len(line) :
    /\ line[i].client = c
    /\ line' = Without(line, i)
    /\ PostDrain(reserved, line')
    /\ staged' = [staged EXCEPT ![c] = FALSE]
    /\ UNCHANGED <<reserved, draining, held, alive>>

-----------------------------------------------------------------------------
(* The head leaves the line with a reservation and its callback starts. *)
GrantHead ==
  /\ line' = Tail(line)
  /\ reserved' = reserved + Head(line).bytes
  /\ held' = [held EXCEPT ![Head(line).client] = Head(line).bytes]
  /\ UNCHANGED <<staged, alive>>

(* drain(), called by a consumer: it enters the pass when the head fits. *)
DrainNow ==
  /\ ~draining /\ HeadFits(reserved, line)
  /\ draining' = TRUE
  /\ GrantHead
  /\ UNCHANGED drainPosted

(* The event loop delivers the posted drain, which may find nothing to do. *)
DrainPosted ==
  /\ drainPosted /\ ~draining
  /\ drainPosted' = FALSE
  /\ IF HeadFits(reserved, line)
       THEN draining' = TRUE /\ GrantHead
       ELSE UNCHANGED <<reserved, line, draining, held, staged, alive>>

(* The callback returned and the pass goes on with the next head. *)
DrainNext ==
  /\ draining /\ HeadFits(reserved, line)
  /\ GrantHead
  /\ UNCHANGED <<draining, drainPosted>>

(* The callback returned and the head does not fit, or nobody waits. *)
DrainEnd ==
  /\ draining /\ ~HeadFits(reserved, line)
  /\ draining' = FALSE
  /\ UNCHANGED <<reserved, line, drainPosted, held, staged, alive>>

(* The budget goes; every reservation went first (the budget outlives the *)
(* pool).  Its line is emptied, so a ticket left behind touches nothing,  *)
(* and the posted drain goes with its receiver.                           *)
Destroy ==
  /\ alive /\ ~draining
  /\ \A c \in Clients : held[c] = 0
  /\ alive' = FALSE
  /\ line' = <<>>
  /\ drainPosted' = FALSE
  /\ UNCHANGED <<reserved, draining, held, staged>>

ClientStep(c) ==
  \/ \E bytes \in Sizes : TryReserve(c, bytes) \/ WhenRoom(c, bytes)
  \/ \E bytes \in Copies : Grow(c, bytes) \/ GiveBackAndWaitInFront(c, bytes)
  \/ Release(c)
  \/ Leave(c)

Drain == DrainNow \/ DrainPosted \/ DrainNext \/ DrainEnd

Next ==
  \/ alive /\ \E c \in Clients : ClientStep(c)
  \/ alive /\ Drain
  \/ Destroy

Spec == Init /\ [][Next]_vars

(* The event loop delivers what is posted, a callback returns, and a run    *)
(* ends (its script is bounded) and returns its room at its publication.    *)
Fairness ==
  /\ WF_vars(alive /\ DrainPosted)
  /\ WF_vars(alive /\ DrainNext)
  /\ WF_vars(alive /\ DrainEnd)
  /\ \A c \in Clients : WF_vars(alive /\ Release(c))

FairSpec == Spec /\ Fairness

-----------------------------------------------------------------------------
(* Every variable holds what its C++ member can hold. *)
TypeOK ==
  /\ reserved \in Nat
  /\ line \in Seq(Waiter)
  /\ draining \in BOOLEAN /\ drainPosted \in BOOLEAN /\ alive \in BOOLEAN
  /\ held \in [Clients -> Nat]
  /\ staged \in [Clients -> BOOLEAN]

(* Every byte the runs in flight really hold, and how many there are. *)
Units(h) == UNION {{c} \X (1 .. h[c]) : c \in Clients}
Total(h) == Cardinality(Units(h))

(* The abstraction function: the promise's bytes are those really held, its   *)
(* line is the code's, and the counter, the drains and the posts have gone.   *)
Promise == INSTANCE BudgetLine WITH held <- held, line <- line, Total <- Total

(* The bytes the runs in flight really hold pass the capacity only when one *)
(* run holds them all: the run-alone rule of fits and grow, kept through    *)
(* every release, grant and growth.                                         *)
NoOvercommit ==
  Total(held) > Capacity => \E c \in Clients : Total(held) = held[c]

(* No wake-up is lost: outside a drain, a head that fits has a drain posted *)
(* for it.  A consumer may therefore wait for its grant and poll nothing.   *)
NoStalledLine ==
  alive /\ ~draining /\ HeadFits(reserved, line) => drainPosted

(* A run is never in the line twice, nor in the line while it holds room, so *)
(* one ticket's destruction takes the run out of the budget.                 *)
OnePlace ==
  \A i \in 1 .. Len(line) :
    /\ held[line[i].client] = 0
    /\ \A j \in 1 .. Len(line) : line[i].client = line[j].client => i = j

(* A step that gives room to a run leaves nobody waiting who was ahead of   *)
(* it: a small newcomer never passes an earlier large waiter, whichever     *)
(* engine's they are.                                                       *)
ServedInOrder ==
  [][\A c \in Clients : held[c] = 0 /\ held'[c] > 0 =>
       line = <<>> \/ Head(line).client = c]_vars

(* The drains, the posted flag and the counter implement one line served in *)
(* order within the capacity, and its head comes in as soon as it may.      *)
ImplementsBudgetLine == Promise!FairSpec

=============================================================================
