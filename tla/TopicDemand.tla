------------------------------ MODULE TopicDemand ------------------------------
(* Which topics of a streaming dataset are in demand (TopicDemandTracker):     *)
(* displayed, or held by a tier that is kept active without a display.  Every  *)
(* mutator emits at once, on the GUI thread, to slots that may call the        *)
(* tracker again from inside the signal: the calls nest.                       *)
(*                                                                            *)
(* `work` is the GUI thread's call stack, flattened: the statements still to   *)
(* run, innermost first.  A mutator called by a slot puts its statements       *)
(* before those of the emission that is being served.                          *)
EXTENDS Integers, Sequences

CONSTANTS Datasets,   \* the streaming datasets, numbered: a std::map's order
          Topics,     \* the topic names
          Slots,      \* the slots of each signal, 1..n in connection order
          MaxCalls    \* bound: calls of mutators, nested ones included

ASSUME DemandAssumption ==
  /\ Datasets \subseteq Nat
  /\ \E n \in Slots : Slots = 1..n
  /\ MaxCalls \in Nat

VARIABLES refs,       \* per dataset and topic: live display references
          tiers,      \* per dataset: the infrastructure, derived-input and forced tiers
          lastEmitted,\* per dataset: the active set last handed out
          pending,    \* pending_emits_: at most one set per dataset
          emitting,   \* emitting_
          work,       \* the statements still to run
          calls,
          heard,      \* per slot and dataset: the last set told
          gate,       \* per dataset: what referenceDemandChanged last told
          badges      \* per dataset: what forcedTopicsChanged last told

trackerVars == <<refs, tiers, lastEmitted, pending, emitting>>
heardVars == <<heard, gate, badges>>
demandVars == <<trackerVars, work, calls, heardVars>>

Tiers == {"infra", "derived", "forced"}

Referenced(d) == \E t \in Topics : refs[d][t] > 0

(* computeActive *)
Active(d) == {t \in Topics : refs[d][t] > 0} \cup UNION {tiers[d][k] : k \in Tiers}

-------------------------------------------------------------------------------
(* The statements of the mutators *)

Recompute(d) == [do |-> "recompute", ds |-> d]
Deliver(d) == [do |-> "deliver", ds |-> d]
Loop == [do |-> "loop"]
TellFrom1(d, set) == [do |-> "active", ds |-> d, set |-> set, slot |-> 1]
Reference(d) == [do |-> "reference", ds |-> d]
Forced(d) == [do |-> "forced", ds |-> d]
MutatorRuns == [do |-> "running"]

(* A mutator may be called when the GUI thread is idle, or by a running slot. *)
MayCall == calls < MaxCalls /\ (work # <<>> => Head(work).do = "running")

Calls(statements) ==
  /\ work' = statements \o work
  /\ calls' = calls + 1
  /\ UNCHANGED <<lastEmitted, pending, emitting, heardVars>>

(* addReference: the flip is emitted after the active set. *)
AddReference(d, t) ==
  /\ MayCall
  /\ refs' = [refs EXCEPT ![d][t] = @ + 1]
  /\ Calls(IF Referenced(d) THEN <<Recompute(d)>> ELSE <<Recompute(d), Reference(d)>>)
  /\ UNCHANGED tiers

(* The flip is told only if the active set moved with it. *)
RemoveReferenceQuietly(d, t) ==
  /\ MayCall
  /\ refs[d][t] > 0
  /\ refs' = [refs EXCEPT ![d][t] = @ - 1]
  /\ Calls(IF Referenced(d)' \/ t \in UNION {tiers[d][k] : k \in Tiers} THEN <<Recompute(d)>>
           ELSE <<Recompute(d), Reference(d)>>)
  /\ UNCHANGED tiers

(* removeReference; an unknown or exhausted reference is ignored. *)
RemoveReference(d, t) ==
  /\ MayCall
  /\ refs[d][t] > 0
  /\ refs' = [refs EXCEPT ![d][t] = @ - 1]
  /\ Calls(IF Referenced(d)' THEN <<Recompute(d)>> ELSE <<Recompute(d), Reference(d)>>)
  /\ UNCHANGED tiers

(* setInfrastructureTopics and setDerivedInputTopics (replaceTier). *)
ReplaceTier(d, tier, names) ==
  /\ MayCall
  /\ tier \in {"infra", "derived"} /\ tiers[d][tier] # names
  /\ tiers' = [tiers EXCEPT ![d][tier] = names]
  /\ Calls(<<Recompute(d)>>)
  /\ UNCHANGED refs

(* setTopicForced, when it changes the forced set. *)
SetTopicForced(d, t, forced) ==
  LET names == IF forced THEN tiers[d]["forced"] \cup {t} ELSE tiers[d]["forced"] \ {t}
  IN /\ MayCall
     /\ names # tiers[d]["forced"]
     /\ tiers' = [tiers EXCEPT ![d]["forced"] = names]
     /\ Calls(<<Forced(d), Recompute(d)>>)
     /\ UNCHANGED refs

(* clearDataset erases the state first, then tells who had something. *)
ClearDataset(d) ==
  LET told == (IF tiers[d]["forced"] # {} THEN <<Forced(d)>> ELSE <<>>)
                \o (IF Referenced(d) THEN <<Reference(d)>> ELSE <<>>)
                \o (IF lastEmitted[d] # {} THEN <<Deliver(d)>> ELSE <<>>)
  IN /\ MayCall
     /\ Active(d) # {}
     /\ refs' = [refs EXCEPT ![d] = [t \in Topics |-> 0]]
     /\ tiers' = [tiers EXCEPT ![d] = [k \in Tiers |-> {}]]
     /\ lastEmitted' = [lastEmitted EXCEPT ![d] = {}]
     /\ work' = told \o work
     /\ calls' = calls + 1
     /\ UNCHANGED <<pending, emitting, heardVars>>

-------------------------------------------------------------------------------
(* Emission *)

Queued(d, set) == [x \in DOMAIN pending \cup {d} |-> IF x = d THEN set ELSE pending[x]]

(* A nested delivery emits at once instead of leaving its set to the loop. *)
EnqueueRecursively(d, set, rest) ==
  /\ UNCHANGED <<pending, emitting>>
  /\ work' = <<TellFrom1(d, set)>> \o rest

(* deliver: a nested one only leaves its set to the outer loop. *)
Enqueue(d, set, rest) ==
  /\ pending' = Queued(d, set)
  /\ emitting' = TRUE
  /\ work' = IF emitting THEN rest ELSE <<Loop>> \o rest

(* recomputeAndEmit, and clearDataset's own deliver of the empty set. *)
Recomputes ==
  /\ work # <<>> /\ Head(work).do = "recompute"
  /\ LET d == Head(work).ds
     IN IF Active(d) = lastEmitted[d]
        THEN work' = Tail(work) /\ UNCHANGED <<lastEmitted, pending, emitting>>
        ELSE /\ lastEmitted' = [lastEmitted EXCEPT ![d] = Active(d)]
             /\ Enqueue(d, Active(d), Tail(work))
  /\ UNCHANGED <<refs, tiers, calls, heardVars>>

DeliversEmpty ==
  /\ work # <<>> /\ Head(work).do = "deliver"
  /\ Enqueue(Head(work).ds, {}, Tail(work))
  /\ UNCHANGED <<refs, tiers, lastEmitted, calls, heardVars>>

(* The loop of deliver(), over pending_emits_ in dataset order. *)
Loops ==
  /\ work # <<>> /\ Head(work).do = "loop"
  /\ IF DOMAIN pending = {}
     THEN work' = Tail(work) /\ emitting' = FALSE /\ UNCHANGED pending
     ELSE \E d \in DOMAIN pending :
            /\ \A x \in DOMAIN pending : d <= x
            /\ work' = <<TellFrom1(d, pending[d])>> \o work
            /\ pending' = [x \in DOMAIN pending \ {d} |-> pending[x]]
            /\ UNCHANGED emitting
  /\ UNCHANGED <<refs, tiers, lastEmitted, calls, heardVars>>

(* activeTopicsChanged reaches its slots one after another; each then runs. *)
TellActive ==
  /\ work # <<>> /\ Head(work).do = "active"
  /\ LET e == Head(work)
         next == IF e.slot + 1 \in Slots THEN <<[e EXCEPT !.slot = @ + 1]>> ELSE <<>>
     IN /\ heard' = [heard EXCEPT ![e.slot][e.ds] = e.set]
        /\ work' = <<MutatorRuns>> \o next \o Tail(work)
  /\ UNCHANGED <<trackerVars, calls, gate, badges>>

(* referenceDemandChanged carries no value: the batch engine takes up the     *)
(* dataset's flag, hasAnyReference, and calls no mutator.                      *)
TellReference ==
  /\ work # <<>> /\ Head(work).do = "reference"
  /\ gate' = [gate EXCEPT ![Head(work).ds] = Referenced(Head(work).ds)]
  /\ work' = Tail(work)
  /\ UNCHANGED <<trackerVars, calls, heard, badges>>

(* forcedTopicsChanged only repaints marks from forcedTopics: setTopicForced  *)
(* goes on with a reference its slots must not have erased.                   *)
TellForced ==
  /\ work # <<>> /\ Head(work).do = "forced"
  /\ badges' = [badges EXCEPT ![Head(work).ds] = tiers[Head(work).ds]["forced"]]
  /\ work' = Tail(work)
  /\ UNCHANGED <<trackerVars, calls, heard, gate>>

SlotReturns ==
  /\ work # <<>> /\ Head(work).do = "running"
  /\ work' = Tail(work)
  /\ UNCHANGED <<trackerVars, calls, heardVars>>

-------------------------------------------------------------------------------
DemandInit ==
  /\ refs = [d \in Datasets |-> [t \in Topics |-> 0]]
  /\ tiers = [d \in Datasets |-> [k \in Tiers |-> {}]]
  /\ lastEmitted = [d \in Datasets |-> {}]
  /\ pending = [d \in {} |-> {}]
  /\ emitting = FALSE
  /\ work = <<>>
  /\ calls = 0
  /\ heard = [s \in Slots |-> [d \in Datasets |-> {}]]
  /\ gate = [d \in Datasets |-> FALSE]
  /\ badges = [d \in Datasets |-> {}]

Mutate(d) ==
  \/ \E t \in Topics : AddReference(d, t) \/ RemoveReference(d, t)
  \/ \E tier \in Tiers, names \in SUBSET Topics : ReplaceTier(d, tier, names)
  \/ \E t \in Topics, forced \in BOOLEAN : SetTopicForced(d, t, forced)
  \/ ClearDataset(d)

EmissionStep == Recomputes \/ DeliversEmpty \/ Loops \/ TellActive \/ TellReference \/ TellForced

DemandNext == (\E d \in Datasets : Mutate(d)) \/ EmissionStep \/ SlotReturns

DemandSpec == DemandInit /\ [][DemandNext]_demandVars

-------------------------------------------------------------------------------
Statement ==
  [do : {"recompute", "deliver", "reference", "forced"}, ds : Datasets]
    \cup [do : {"active"}, ds : Datasets, set : SUBSET Topics, slot : Slots]
    \cup [do : {"loop", "running"}]

(* Counts stay natural numbers; at most one set is pending per dataset. *)
DemandTypeOK ==
  /\ refs \in [Datasets -> [Topics -> Nat]]
  /\ tiers \in [Datasets -> [Tiers -> SUBSET Topics]]
  /\ lastEmitted \in [Datasets -> SUBSET Topics]
  /\ DOMAIN pending \subseteq Datasets
  /\ pending \in [DOMAIN pending -> SUBSET Topics]
  /\ emitting \in BOOLEAN
  /\ work \in Seq(Statement)
  /\ calls \in Nat
  /\ heard \in [Slots -> [Datasets -> SUBSET Topics]]
  /\ gate \in [Datasets -> BOOLEAN]
  /\ badges \in [Datasets -> SUBSET Topics]

NothingLeft == work = <<>>

(* "Every slot's LAST delivery for a dataset carries the newest state"         *)
(* (TopicDemandTracker.h): whatever the slots called from inside the signals,  *)
(* once the thread is idle every slot was last told each dataset's active set. *)
LastDeliveryIsNewest == NothingLeft => \A s \in Slots, d \in Datasets : heard[s][d] = Active(d)

(* Once the thread is idle, the batch engine's gate knows whether a dataset is *)
(* displayed and the panel's badges which topics are forced, though neither    *)
(* need move the active set.                                                  *)
FlipsAreTold == NothingLeft => \A d \in Datasets : gate[d] = Referenced(d) /\ badges[d] = tiers[d]["forced"]

===============================================================================
