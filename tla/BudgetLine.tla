----------------------------- MODULE BudgetLine -----------------------------
(***************************************************************************)
(* What InFlightBudget promises its consumers, without its drains, its     *)
(* counter and its event loop: runs come in one at a time, in the order of *)
(* one line, and together hold no more than the capacity unless one runs   *)
(* alone; a head that may come in does come in.                            *)
(***************************************************************************)
EXTENDS Integers, Sequences

CONSTANTS Clients, Capacity, Sizes, Copies,
          Total(_)   (* how many bytes a function from Clients to bytes holds *)

VARIABLES
  held,   (* per client: the bytes its run may hold, 0 when none is in flight *)
  line    (* the clients that wait, with the bytes they wait for, head first  *)

vars == <<held, line>>

Waits(c) == \E i \in 1 .. Len(line) : line[i].client = c

(* b more bytes may come in: nothing is in flight, or all fit the capacity. *)
Admissible(h, b) == Total(h) = 0 \/ Total(h) + b <= Capacity

Init == held = [c \in Clients |-> 0] /\ line = <<>>

(* A run joins the end of the line. *)
Join(c, b) ==
  /\ held[c] = 0 /\ ~Waits(c)
  /\ line' = Append(line, [client |-> c, bytes |-> b])
  /\ UNCHANGED held

(* A run comes in past an empty line. *)
Start(c, b) ==
  /\ held[c] = 0 /\ line = <<>> /\ Admissible(held, b)
  /\ held' = [held EXCEPT ![c] = b]
  /\ UNCHANGED line

(* The head of the line comes in. *)
Serve ==
  /\ line # <<>> /\ Admissible(held, Head(line).bytes)
  /\ held' = [held EXCEPT ![Head(line).client] = Head(line).bytes]
  /\ line' = Tail(line)

(* A run in flight needs b bytes more: it gets them when they may come in or *)
(* when it is alone, else it steps back to the head of the line.             *)
Enlarge(c, b) ==
  /\ held[c] > 0
  /\ Total(held) = held[c] \/ Admissible(held, b)
  /\ held' = [held EXCEPT ![c] = @ + b]
  /\ UNCHANGED line

StepBack(c, b) ==
  /\ held[c] > 0
  /\ held' = [held EXCEPT ![c] = 0]
  /\ line' = <<[client |-> c, bytes |-> held[c] + b]>> \o line

(* A run ends, a waiter gives its place up. *)
Finish(c) == held' = [held EXCEPT ![c] = 0] /\ UNCHANGED line

GiveUp(i) ==
  /\ line' = SubSeq(line, 1, i - 1) \o SubSeq(line, i + 1, Len(line))
  /\ UNCHANGED held

(* The service ends: nothing is in flight and nobody is served any more. *)
Close == line' = <<>> /\ UNCHANGED held

Next ==
  \/ \E c \in Clients :
       \/ \E b \in Sizes : Join(c, b) \/ Start(c, b)
       \/ \E b \in Copies : Enlarge(c, b) \/ StepBack(c, b)
       \/ Finish(c)
  \/ Serve
  \/ \E i \in 1 .. Len(line) : GiveUp(i)
  \/ Close

Spec == Init /\ [][Next]_vars

FairSpec == Spec /\ WF_vars(Serve)
=============================================================================
