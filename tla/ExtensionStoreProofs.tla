------------------------- MODULE ExtensionStoreProofs -------------------------
(* Proofs about ExtensionStore for any extensions, builds and versions, and    *)
(* any number of requests, crashes and failing file operations.                *)
(*                                                                            *)
(* RemovalFailsClosed needs to know what the steps in between have in hand:    *)
(* that what was removed is disabled and a record of it has been written       *)
(* (Disabled), that an install which is going to enable its extension has no   *)
(* record against it (Installable), and that the removal under way is of an    *)
(* extension that is silenced and that nobody installs (Silenced).             *)
EXTENDS ExtensionStore, TLAPS

Disabled ==
  /\ removed \subseteq disabled
  /\ \A id \in Ids : journal[id] = "uninstall" => id \in removed

Draining == phase = "drain" => \A id \in todo : journal[id] # "none"

Installable ==
  /\ op # NoOp /\ op.kind = "fresh" => journal[op.id] = "none"
  /\ at.step \in {"cleared", "fresh", "adopted"} => journal[at.id] = "none"

Silenced ==
  at.step \in {"silent", "silenced"} =>
    /\ at.id \in disabled /\ journal[at.id] = "none"
    /\ at.step = "silenced" => at.id \notin removed
    /\ op # NoOp /\ op.kind # "local" => op.id # at.id

(* What a step is going to adopt is a whole payload. *)
Whole ==
  /\ at.step = "backed" => phase = "promote" /\ stage[at.id] \in Builds
  /\ at.step = "placed" => phase = "promote" /\ dir[at.id] \in Builds
  /\ at.step = "fresh" => phase = "running" /\ dir[at.id] \in Builds
  /\ phase = "promote" => \A id \in todo : stage[id] \in Builds \/ (at.id = id /\ at.step \in {"placed", "undone"})

Held == Disabled /\ Whole /\ Draining /\ Installable /\ Silenced

IInv == TypeOK /\ Held

USE DEF history, excuses

-------------------------------------------------------------------------------
LEMMA Initially == Init => IInv
<1> SUFFICES ASSUME Init PROVE IInv
  OBVIOUS
<1>1. TypeOK
  BY ExtensionAssumption DEF Init, TypeOK, Payloads, Idle
<1>2. Disabled
  BY DEF Init, Disabled
<1>3. Whole /\ Draining /\ Installable /\ Silenced
  BY ExtensionAssumption DEF Init, Whole, Draining, Installable, Silenced, Idle
<1> QED BY <1>1, <1>2, <1>3 DEF IInv, Held

-------------------------------------------------------------------------------
(* The drain of the removal journal. *)

LEMMA Drains ==
  ASSUME IInv, NEW id \in Ids, DeletePayload(id) \/ RetireRecord(id)
  PROVE  IInv'
<1> USE DEF IInv, Held
<1>1. CASE DeletePayload(id)
  <2>1. /\ UNCHANGED <<stage, backups, journal, disabled, profile, objects, phase, at, backup,
                       digests, op, history, ops, crashes>>
        /\ phase = "drain" /\ id \in todo /\ todo' \subseteq todo
        /\ faults' \in Nat
        /\ \E left \in {NoBuild, Torn, dir[id]} : dir' = [dir EXCEPT ![id] = left]
    BY <1>1 DEF DeletePayload, Tear, Fault, Faults, TypeOK
  <2>2. TypeOK'
    BY <2>1 DEF TypeOK, Payloads
  <2>3. Disabled'
    BY <2>1 DEF Disabled
  <2>4. Draining' /\ Installable' /\ Silenced'
    BY <2>1 DEF Draining, Installable, Silenced
  <2>5. Whole'
    BY <2>1 DEF Whole
  <2> QED BY <2>2, <2>3, <2>4, <2>5
<1>2. CASE RetireRecord(id)
  <2>1. /\ UNCHANGED <<dir, stage, backups, disabled, profile, objects, phase, at, backup,
                       digests, op, history, ops, crashes>>
        /\ phase = "drain" /\ todo' = todo \ {id} /\ faults' \in Nat
        /\ journal' \in {journal, [journal EXCEPT ![id] = "none"]}
    BY <1>2 DEF RetireRecord, Fault, Faults, TypeOK
  <2>2. TypeOK'
    BY <2>1 DEF TypeOK
  <2>3. Disabled'
    BY <2>1 DEF Disabled, TypeOK
  <2>4. Draining'
    BY <2>1 DEF Draining, TypeOK
  <2>5. Installable' /\ Silenced'
    BY <2>1 DEF Installable, Silenced, TypeOK, Idle
  <2>6. Whole'
    BY <2>1 DEF Whole
  <2> QED BY <2>2, <2>3, <2>4, <2>5, <2>6
<1> QED BY <1>1, <1>2

-------------------------------------------------------------------------------
(* Steps that touch neither the records nor the disabled list. *)

LEMMA Bystanding ==
  ASSUME IInv, UNCHANGED <<journal, disabled, removed, at, op>>,
         TypeOK', Whole', phase' = "drain" => \A id \in todo' : journal[id] # "none"
  PROVE  IInv'
<1>1. Disabled' /\ Draining'
  BY DEF IInv, Held, Disabled, Draining
<1>2. Installable' /\ Silenced'
  BY DEF IInv, Held, Installable, Silenced
<1> QED BY <1>1, <1>2 DEF IInv, Held

LEMMA Passes ==
  ASSUME IInv, Start \/ BeginPromotions \/ Settle \/ Run
  PROVE  IInv'
<1> USE DEF IInv, Held
<1>1. CASE Start
  <2>1. TypeOK'
    BY <1>1 DEF Start, disk, TypeOK
  <2>3. Whole'
    BY <1>1 DEF Start, disk, Whole
  <2> QED BY <1>1, <2>1, <2>3, Bystanding DEF Start, disk
<1>2. CASE BeginPromotions
  <2>1. TypeOK'
    BY <1>2 DEF BeginPromotions, disk, TypeOK
  <2>3. Whole'
    BY <1>2 DEF BeginPromotions, disk, Whole, TypeOK, Payloads
  <2> QED BY <1>2, <2>1, <2>3, Bystanding DEF BeginPromotions, disk
<1>3. CASE Settle
  <2>1. /\ UNCHANGED <<dir, stage, backups, journal, disabled, at, backup, op, removed, excuses, ops, crashes>>
        /\ at = Idle /\ phase' = "seed" /\ todo' \subseteq Ids
    BY <1>3 DEF Settle
  <2>2. /\ digests' \in [Ids -> Payloads] /\ profile' \in [Ids -> Payloads]
        /\ objects' \in [Ids -> SUBSET Builds] /\ behind' \subseteq Ids /\ faults' \in Nat
    <3> DEFINE mapped == [x \in Ids |-> IF dir[x] = NoBuild THEN NoBuild ELSE digests[x]]
               unread == (\A x \in Ids : mapped[x] = NoBuild) /\ (\E x \in Ids : Installed(x) # NoBuild)
    <3>1. mapped \in [Ids -> Payloads]
      BY DEF TypeOK, Payloads
    <3>2. /\ digests' = mapped
          /\ IF mapped = digests THEN UNCHANGED <<profile, faults>> ELSE Persist(mapped)
          /\ behind' = behind \cup Missed(mapped)
          /\ objects' = IF unread THEN objects ELSE [x \in Ids |-> objects[x] \cap {mapped[x]}]
      BY <1>3 DEF Settle
    <3> HIDE DEF mapped, unread
    <3>3. profile' \in {profile, mapped} /\ faults' \in Nat
      BY <3>2 DEF Persist, Fault, Faults, TypeOK
    <3>4. objects' \in [Ids -> SUBSET Builds]
      BY <3>2 DEF TypeOK
    <3>5. behind' \subseteq Ids
      BY <3>2 DEF Missed, TypeOK
    <3> QED BY <3>1, <3>2, <3>3, <3>4, <3>5 DEF TypeOK
  <2>3. TypeOK'
    BY <2>1, <2>2 DEF TypeOK
  <2>4. Whole'
    BY <2>1 DEF Whole, Idle
  <2> QED BY <2>1, <2>3, <2>4, Bystanding
<1>4. CASE Run
  <2>1. TypeOK'
    BY <1>4 DEF Run, disk, TypeOK
  <2>3. Whole'
    BY <1>4 DEF Run, disk, Whole, Idle
  <2> QED BY <1>4, <2>1, <2>3, Bystanding DEF Run, disk
<1> QED BY <1>1, <1>2, <1>3, <1>4

-------------------------------------------------------------------------------
(* The promotions and the seed move payloads aside and back. *)

(* A handler of the start-up has nothing to do with installs and removals. *)
LEMMA Between ==
  ASSUME IInv, phase \in {"promote", "seed"}, UNCHANGED <<journal, disabled, removed, phase, op>>,
         at' = Idle \/ \E x \in Ids, step \in {"backed", "placed", "undone", "aside", "seeded"} :
                          at' = [id |-> x, step |-> step],
         TypeOK', Whole'
  PROVE  IInv'
<1>1. at'.step \notin {"cleared", "fresh", "adopted", "silent", "silenced"}
  BY DEF Idle
<1>2. Disabled'
  BY DEF IInv, Held, Disabled
<1>3. Draining' /\ Installable' /\ Silenced'
  BY <1>1 DEF IInv, Held, Draining, Installable, Silenced
<1> QED BY <1>2, <1>3 DEF IInv, Held

LEMMA Faulty == ASSUME TypeOK, Fault \/ Faults(2) \/ UNCHANGED faults PROVE faults' \in Nat
BY DEF Fault, Faults, TypeOK

LEMMA Accounting ==
  ASSUME TypeOK, NEW id \in Ids, NEW reported \in BOOLEAN, Account(id, reported)
  PROVE  cut' \subseteq Ids /\ told' \subseteq Ids
BY DEF Account, TypeOK

LEMMA Adopting ==
  ASSUME TypeOK, NEW id \in Ids, dir[id] \in Builds, NEW refused \in BOOLEAN, ShadowAdopt(id, refused)
  PROVE  /\ digests' \in [Ids -> Payloads] /\ profile' \in [Ids -> Payloads]
         /\ objects' \in [Ids -> SUBSET Builds] /\ behind' \subseteq Ids /\ faults' \in Nat
<1> DEFINE mapped == [digests EXCEPT ![id] = IF refused THEN NoBuild ELSE dir[id]]
<1>1. mapped \in [Ids -> Payloads]
  BY DEF TypeOK, Payloads
<1>2. /\ digests' = mapped
      /\ objects' = [objects EXCEPT ![id] = IF refused THEN @ ELSE @ \cup {dir[id]}]
      /\ IF refused /\ digests[id] = NoBuild THEN UNCHANGED <<profile, faults>> ELSE Persist(mapped)
      /\ behind' = (behind \ {id}) \cup Missed(mapped)
  BY DEF ShadowAdopt
<1> HIDE DEF mapped
<1>3. profile' \in {profile, mapped} /\ faults' \in Nat
  BY <1>2 DEF Persist, Fault, Faults, TypeOK
<1>4. objects' \in [Ids -> SUBSET Builds]
  BY <1>2 DEF TypeOK
<1>5. behind' \subseteq Ids
  BY <1>2 DEF Missed, TypeOK
<1> QED BY <1>1, <1>2, <1>3, <1>4, <1>5 DEF TypeOK

LEMMA Promotes ==
  ASSUME IInv, NEW id \in Ids, BackUp(id) \/ Promote(id) \/ Reject(id) \/ RollBack(id) \/ Admit(id)
  PROVE  IInv'
<1> USE DEF IInv, Held
<1>1. CASE BackUp(id)
  <2>1. /\ UNCHANGED <<stage, journal, disabled, profile, objects, phase, digests, op, history, ops, crashes>>
        /\ phase = "promote" /\ at = Idle /\ id \in todo /\ todo' \subseteq todo /\ faults' \in Nat
    BY <1>1 DEF BackUp, Fault, Faults, TypeOK
  <2>0. \A x \in todo : stage[x] \in Builds
    BY <2>1 DEF Whole, Idle
  <2>2. CASE /\ at' = [id |-> id, step |-> "backed"]
             /\ backup' = dir[id]
             /\ dir' = [dir EXCEPT ![id] = NoBuild]
             /\ backups' = [backups EXCEPT ![id] = @ \cup ({dir[id]} \ {NoBuild})]
    <3>1. TypeOK'
      BY <2>1, <2>2 DEF TypeOK, Payloads
    <3>2. Whole'
      BY <2>0, <2>1, <2>2 DEF Whole
    <3> QED BY <2>1, <2>2, <3>1, <3>2, Between
  <2>3. CASE UNCHANGED <<dir, backups, at, backup>>
    <3>1. TypeOK'
      BY <2>1, <2>3 DEF TypeOK
    <3>2. Whole'
      BY <2>0, <2>1, <2>3 DEF Whole, Idle
    <3> QED BY <2>1, <2>3, <3>1, <3>2, Bystanding
  <2> QED BY <1>1, <2>2, <2>3 DEF BackUp
<1>2. CASE Promote(id)
  <2>1. /\ UNCHANGED <<backups, journal, disabled, profile, objects, phase, todo, backup, digests, op,
                       behind, removed, ops, crashes>>
        /\ phase = "promote" /\ at.id = id /\ at.step = "backed"
    BY <1>2 DEF Promote, At
  <2>0. faults' \in Nat
    BY <1>2, Faulty DEF Promote
  <2>2. CASE /\ dir' = [dir EXCEPT ![id] = stage[id]]
             /\ stage' = [stage EXCEPT ![id] = NoBuild]
             /\ at' = [id |-> id, step |-> "placed"]
             /\ Account(id, FALSE)
    <3>0. cut' \subseteq Ids /\ told' \subseteq Ids
      BY <2>2, Accounting
    <3>1. TypeOK'
      BY <2>0, <2>1, <2>2, <3>0 DEF TypeOK, Payloads
    <3>2. Whole'
      BY <2>1, <2>2 DEF Whole, TypeOK
    <3> QED BY <2>1, <2>2, <3>1, <3>2, Between
  <2>3. CASE at' = [id |-> id, step |-> "undone"] /\ UNCHANGED <<dir, stage, excuses>>
    <3>1. TypeOK'
      BY <2>0, <2>1, <2>3 DEF TypeOK
    <3>2. Whole'
      BY <2>1, <2>3 DEF Whole
    <3> QED BY <2>1, <2>3, <3>1, <3>2, Between
  <2> QED BY <1>2, <2>2, <2>3 DEF Promote
<1>3. CASE Reject(id)
  <2>1. /\ UNCHANGED <<stage, backups, journal, disabled, profile, objects, phase, digests, op,
                       behind, removed, ops, crashes>>
        /\ phase = "promote" /\ at.id = id /\ at.step = "placed" /\ faults' \in Nat
    BY <1>3 DEF Reject, At, Tear, Fault, Faults, TypeOK
  <2>2. CASE /\ dir' = [dir EXCEPT ![id] = NoBuild]
             /\ at' = [id |-> id, step |-> "undone"]
             /\ UNCHANGED <<todo, backup, excuses>>
    <3>1. TypeOK'
      BY <2>1, <2>2 DEF TypeOK, Payloads
    <3>2. Whole'
      BY <2>1, <2>2 DEF Whole
    <3> QED BY <2>1, <2>2, <3>1, <3>2, Between
  <2>3. CASE Tear(id) /\ Done(id) /\ Account(id, backup # NoBuild)
    <3>0. cut' \subseteq Ids /\ told' \subseteq Ids
      BY <2>3, Accounting
    <3>1. TypeOK'
      BY <2>1, <2>3, <3>0 DEF TypeOK, Payloads, Tear, Done, Idle
    <3>2. Whole'
      BY <2>1, <2>3 DEF Whole, Done, Idle
    <3> QED BY <2>1, <2>3, <3>1, <3>2, Between DEF Done
  <2> QED BY <1>3, <2>2, <2>3 DEF Reject
<1>4. CASE RollBack(id)
  <2>1. /\ UNCHANGED <<stage, journal, disabled, profile, objects, phase, digests, op, behind, removed,
                       ops, crashes>>
        /\ phase = "promote" /\ at.id = id /\ at.step = "undone" /\ Done(id)
    BY <1>4 DEF RollBack, At
  <2>2. faults' \in Nat
    BY <1>4, Faulty DEF RollBack
  <2>5. cut' \subseteq Ids /\ told' \subseteq Ids
    BY <1>4, Accounting DEF RollBack
  <2>6. dir' \in [Ids -> Payloads \cup {Torn}] /\ backups' \in [Ids -> SUBSET (Builds \cup {Torn})]
    <3>1. CASE Restore(id)
      BY <3>1 DEF Restore, TypeOK
    <3>2. CASE UNCHANGED <<dir, backups>>
      BY <3>2 DEF TypeOK
    <3> QED BY <1>4, <3>1, <3>2 DEF RollBack
  <2>3. TypeOK'
    BY <2>1, <2>2, <2>5, <2>6 DEF TypeOK, Payloads, Done, Idle
  <2>4. Whole'
    BY <2>1 DEF Whole, Done, Idle
  <2> QED BY <2>1, <2>3, <2>4, Between DEF Done
<1>5. CASE Admit(id)
  <2>1. /\ UNCHANGED <<dir, stage, backups, journal, disabled, phase, op, removed, excuses, ops, crashes>>
        /\ phase = "promote" /\ Done(id)
        /\ \E refused \in BOOLEAN : ShadowAdopt(id, refused)
        /\ at.id = id /\ at.step = "placed"
    BY <1>5 DEF Admit, At
  <2>2. dir[id] \in Builds
    BY <2>1 DEF Whole
  <2>3. /\ digests' \in [Ids -> Payloads] /\ profile' \in [Ids -> Payloads]
        /\ objects' \in [Ids -> SUBSET Builds] /\ behind' \subseteq Ids /\ faults' \in Nat
    BY <2>1, <2>2, Adopting
  <2>4. at' = Idle /\ backup' = NoBuild /\ todo' = todo \ {id}
    BY <2>1 DEF Done
  <2>5. TypeOK'
    BY <2>1, <2>3, <2>4 DEF TypeOK, Payloads, Idle
  <2>6. Whole'
    BY <2>1, <2>4 DEF Whole, Idle
  <2> QED BY <2>1, <2>4, <2>5, <2>6, Between
<1> QED BY <1>1, <1>2, <1>3, <1>4, <1>5

-------------------------------------------------------------------------------
(* The seed of the bundled plugins. *)

LEMMA Seeds ==
  ASSUME IInv, NEW id \in Ids, SkipSeed(id) \/ SeedAside(id) \/ SeedPlace(id) \/ SeedDrop(id)
  PROVE  IInv'
<1> USE DEF IInv, Held
<1>1. CASE SkipSeed(id)
  <2>1. /\ UNCHANGED <<disk, phase, at, backup, digests, op, history, ops, crashes, faults>>
        /\ phase = "seed" /\ todo' \subseteq Ids
    BY <1>1 DEF SkipSeed, TypeOK
  <2>2. TypeOK' /\ Whole'
    BY <2>1 DEF TypeOK, Whole, disk
  <2> QED BY <2>1, <2>2, Bystanding DEF disk
<1>2. CASE SeedAside(id)
  <2>1. /\ UNCHANGED <<stage, backups, journal, disabled, profile, objects, phase, digests, op,
                       behind, removed, ops, crashes>>
        /\ phase = "seed" /\ at = Idle
    BY <1>2 DEF SeedAside
  <2>0. todo' \subseteq Ids /\ faults' \in Nat
    BY <1>2, Faulty DEF SeedAside, TypeOK
  <2>2. CASE /\ at' = [id |-> id, step |-> "aside"]
             /\ backup' = dir[id]
             /\ dir' = [dir EXCEPT ![id] = NoBuild]
             /\ UNCHANGED excuses
    <3>1. TypeOK' /\ Whole'
      BY <2>0, <2>1, <2>2 DEF TypeOK, Payloads, Whole
    <3> QED BY <2>1, <2>2, <3>1, Between
  <2>3. CASE UNCHANGED <<at, backup, dir>> /\ Account(id, TRUE)
    <3>0. cut' \subseteq Ids /\ told' \subseteq Ids
      BY <2>3, Accounting
    <3>1. TypeOK' /\ Whole'
      BY <2>0, <2>1, <2>3, <3>0 DEF TypeOK, Whole, Idle
    <3> QED BY <2>1, <2>3, <3>1, Bystanding
  <2> QED BY <1>2, <2>2, <2>3 DEF SeedAside
<1>3. CASE SeedPlace(id)
  <2>1. /\ UNCHANGED <<stage, backups, journal, disabled, profile, objects, phase, digests, op,
                       behind, removed, ops, crashes>>
        /\ phase = "seed" /\ at.id = id /\ at.step = "aside"
    BY <1>3 DEF SeedPlace, At
  <2>5. cut' \subseteq Ids /\ told' \subseteq Ids
    BY <1>3, Accounting DEF SeedPlace
  <2>6. todo' \subseteq Ids /\ faults' \in Nat
    BY <1>3, Faulty DEF SeedPlace, Done, TypeOK
  <2>7. dir' \in [Ids -> Payloads \cup {Torn}]
    BY <1>3, ExtensionAssumption DEF SeedPlace, TypeOK, Payloads
  <2>2. \/ at' = [id |-> id, step |-> "seeded"] /\ UNCHANGED backup
        \/ at' = Idle /\ backup' = NoBuild
    BY <1>3 DEF SeedPlace, Done
  <2>3. TypeOK'
    BY <2>1, <2>2, <2>5, <2>6, <2>7 DEF TypeOK, Payloads, Idle
  <2>4. Whole'
    BY <2>1, <2>2 DEF Whole, Idle
  <2> QED BY <2>1, <2>2, <2>3, <2>4, Between
<1>4. CASE SeedDrop(id)
  <2> DEFINE mapped == [digests EXCEPT ![id] = NoBuild]
  <2>1. /\ UNCHANGED <<dir, stage, backups, journal, disabled, objects, phase, op, removed, excuses, ops, crashes>>
        /\ phase = "seed" /\ Done(id) /\ digests' = mapped
        /\ IF digests[id] = NoBuild THEN UNCHANGED <<profile, faults>> ELSE Persist(mapped)
        /\ behind' = IF digests[id] = NoBuild THEN behind ELSE (behind \ {id}) \cup Missed(mapped)
    BY <1>4 DEF SeedDrop
  <2>2. mapped \in [Ids -> Payloads]
    BY DEF TypeOK, Payloads
  <2> HIDE DEF mapped
  <2>3. profile' \in {profile, mapped} /\ faults' \in Nat
    BY <2>1 DEF Persist, Fault, Faults, TypeOK
  <2>4. behind' \subseteq Ids
    BY <2>1 DEF Missed, TypeOK
  <2>5. at' = Idle /\ backup' = NoBuild /\ todo' = todo \ {id}
    BY <2>1 DEF Done
  <2>6. TypeOK'
    BY <2>1, <2>2, <2>3, <2>4, <2>5 DEF TypeOK, Payloads, Idle
  <2>7. Whole'
    BY <2>1, <2>5 DEF Whole, Idle
  <2> QED BY <2>1, <2>5, <2>6, <2>7, Between
<1> QED BY <1>1, <1>2, <1>3, <1>4

-------------------------------------------------------------------------------
(* The session. *)

LEMMA Fetches ==
  ASSUME IInv, NEW id \in Ids, NEW build \in Builds,
         StartInstall(id, build) \/ StartUpdate(id, build) \/ StartLocal(id, build)
  PROVE  IInv'
<1> USE DEF IInv, Held
<1>1. /\ UNCHANGED <<dir, stage, backups, journal, disabled, profile, objects, phase, todo, at, backup,
                     digests, history, crashes, faults>>
      /\ phase = "running" /\ at = Idle /\ ops' \in Nat
  BY DEF StartInstall, StartUpdate, StartLocal, Asked, Fetch, disk, TypeOK
<1>2. PICK kind \in {"fresh", "update", "local"} :
        /\ op' = [kind |-> kind, id |-> id, build |-> build]
        /\ kind = "fresh" => journal[id] = "none"
  BY DEF StartInstall, StartUpdate, StartLocal, Fetch, NeedsRestart
<1>3. TypeOK'
  BY <1>1, <1>2 DEF TypeOK
<1>4. Disabled' /\ Draining' /\ Whole'
  BY <1>1 DEF Disabled, Draining, Whole
<1>5. Installable' /\ Silenced'
  BY <1>1, <1>2 DEF Installable, Silenced, Idle
<1> QED BY <1>3, <1>4, <1>5

(* A download that ends, short of what it enables. *)
LEMMA Finishes ==
  ASSUME IInv, GiveUp \/ FinishStaged \/ ClearPlace \/ FinishFresh
  PROVE  IInv'
<1> USE DEF IInv, Held
<1>1. /\ UNCHANGED <<backups, journal, disabled, profile, objects, phase, todo, backup, digests, behind,
                     removed, ops, crashes>>
      /\ phase = "running" /\ op # NoOp
  BY DEF GiveUp, FinishStaged, ClearPlace, FinishFresh, EndsFresh, disk
<1>2. op.id \in Ids /\ op.build \in Builds
  BY <1>1 DEF TypeOK
<1>3. Disabled' /\ Draining'
  BY <1>1 DEF Disabled, Draining
<1>4. CASE GiveUp \/ FinishStaged
  <2>1. at = Idle /\ op' = NoOp /\ UNCHANGED <<dir, at, excuses, faults>>
    BY <1>4 DEF GiveUp, FinishStaged, disk
  <2>2. stage' \in {stage, [stage EXCEPT ![op.id] = op.build]}
    BY <1>4 DEF GiveUp, FinishStaged, disk
  <2>3. TypeOK'
    BY <1>1, <1>2, <2>1, <2>2 DEF TypeOK, Payloads
  <2>4. Whole' /\ Installable' /\ Silenced'
    BY <1>1, <2>1 DEF Whole, Installable, Silenced, Idle
  <2> QED BY <1>3, <2>3, <2>4
<1>5. CASE ClearPlace
  <2>1. /\ UNCHANGED <<stage, excuses>> /\ at = Idle /\ faults' \in Nat
        /\ \E left \in {NoBuild, Torn, dir[op.id]} : dir' = [dir EXCEPT ![op.id] = left]
        /\ \/ at' = [id |-> op.id, step |-> "cleared"] /\ UNCHANGED op
           \/ UNCHANGED at /\ op' = NoOp
        /\ op.kind = "fresh" \/ journal[op.id] = "none"
    BY <1>2, <1>5 DEF ClearPlace, EndsFresh, Tear, Fault, Faults, TypeOK
  <2>2. TypeOK'
    BY <1>1, <1>2, <2>1 DEF TypeOK, Payloads
  <2>3. Whole' /\ Installable' /\ Silenced'
    BY <1>1, <2>1 DEF Whole, Installable, Silenced, Idle
  <2> QED BY <1>3, <2>2, <2>3
<1>6. CASE FinishFresh
  <2>1. UNCHANGED stage /\ (op.kind = "fresh" \/ journal[op.id] = "none")
    BY <1>6 DEF FinishFresh, EndsFresh
  <2>2. CASE /\ dir' = [dir EXCEPT ![op.id] = op.build]
             /\ at' = [id |-> op.id, step |-> "fresh"]
             /\ Account(op.id, FALSE)
             /\ UNCHANGED <<op, faults>>
    <3>1. TypeOK'
      BY <1>1, <1>2, <2>1, <2>2, Accounting DEF TypeOK, Payloads
    <3>2. Whole' /\ Installable' /\ Silenced'
      BY <1>1, <1>2, <2>1, <2>2 DEF Whole, Installable, Silenced, TypeOK
    <3> QED BY <1>3, <3>1, <3>2
  <2>3. CASE Fault /\ at' = Idle /\ op' = NoOp /\ UNCHANGED <<dir, excuses>>
    <3>1. TypeOK'
      BY <1>1, <2>1, <2>3 DEF TypeOK, Fault, Faults
    <3>2. Whole' /\ Installable' /\ Silenced'
      BY <1>1, <2>1, <2>3 DEF Whole, Installable, Silenced, Idle
    <3> QED BY <1>3, <3>1, <3>2
  <2> QED BY <1>6, <2>2, <2>3 DEF FinishFresh
<1> QED BY <1>4, <1>5, <1>6

(* A fresh install is dropped, adopted, or enabled: no record is against it. *)
LEMMA Registers ==
  ASSUME IInv, NEW id \in Ids, Discard(id) \/ Register(id) \/ Enable(id)
  PROVE  IInv'
<1> USE DEF IInv, Held
<1>1. CASE Discard(id)
  <2>1. /\ UNCHANGED <<stage, backups, journal, disabled, profile, objects, phase, todo, backup, digests,
                       history, ops, crashes>>
        /\ phase = "running" /\ at' = Idle /\ op' = NoOp /\ faults' \in Nat
        /\ \E left \in {NoBuild, Torn, dir[id]} : dir' = [dir EXCEPT ![id] = left]
    BY <1>1 DEF Discard, Tear, Fault, Faults, TypeOK
  <2>2. TypeOK'
    BY <2>1 DEF TypeOK, Payloads
  <2>3. Disabled' /\ Draining' /\ Whole' /\ Installable' /\ Silenced'
    BY <2>1 DEF Disabled, Draining, Whole, Installable, Silenced, Idle
  <2> QED BY <2>2, <2>3
<1>2. CASE Register(id)
  <2>1. /\ UNCHANGED <<dir, stage, backups, journal, disabled, phase, todo, backup, op, removed, excuses,
                       ops, crashes>>
        /\ phase = "running" /\ at.id = id /\ at.step = "fresh" /\ at' = [id |-> id, step |-> "adopted"]
        /\ \E refused \in BOOLEAN : ShadowAdopt(id, refused)
    BY <1>2 DEF Register, At
  <2>2. dir[id] \in Builds
    BY <2>1 DEF Whole
  <2>3. /\ digests' \in [Ids -> Payloads] /\ profile' \in [Ids -> Payloads]
        /\ objects' \in [Ids -> SUBSET Builds] /\ behind' \subseteq Ids /\ faults' \in Nat
    BY <2>1, <2>2, Adopting
  <2>4. TypeOK'
    BY <2>1, <2>3 DEF TypeOK
  <2>5. Disabled' /\ Draining' /\ Whole' /\ Installable' /\ Silenced'
    BY <2>1 DEF Disabled, Draining, Whole, Installable, Silenced
  <2> QED BY <2>4, <2>5
<1>3. CASE Enable(id)
  <2>1. /\ UNCHANGED <<dir, stage, backups, journal, profile, objects, phase, todo, backup, digests,
                       behind, excuses, ops, crashes>>
        /\ phase = "running" /\ at.id = id /\ at.step = "adopted" /\ at' = Idle /\ op' = NoOp
        /\ removed' = removed \ ({id} \ disabled')
        /\ disabled' \in {disabled, disabled \ {id}} /\ faults' \in Nat
    BY <1>3 DEF Enable, At, WriteDisabled, Fault, Faults, TypeOK
  <2>2. TypeOK'
    BY <2>1 DEF TypeOK, Idle
  <2>3. journal[id] = "none"
    BY <2>1 DEF Installable
  <2>4. Disabled'
    BY <2>1, <2>3 DEF Disabled
  <2>5. Draining' /\ Whole' /\ Installable' /\ Silenced'
    BY <2>1 DEF Draining, Whole, Installable, Silenced, Idle
  <2> QED BY <2>2, <2>4, <2>5
<1> QED BY <1>1, <1>2, <1>3

(* uninstall's two halves, downgradeToBundled and the switch. *)
LEMMA Removes ==
  ASSUME IInv, NEW id \in Ids, Silence(id) \/ RecordRemoval(id) \/ Downgrade(id) \/ SetEnabled(id)
  PROVE  IInv'
<1> USE DEF IInv, Held
<1>1. CASE Silence(id)
  <2>1. /\ UNCHANGED <<dir, stage, backups, journal, profile, objects, phase, todo, backup,
                       digests, op, history, crashes>>
        /\ phase = "running" /\ at = Idle /\ journal[id] = "none" /\ ~Installing(id) /\ ops' \in Nat
        /\ disabled' \in {disabled, disabled \cup {id}} /\ faults' \in Nat
        /\ \/ at' = Idle
           \/ at' = [id |-> id, step |-> "silent"] /\ id \in disabled
           \/ at' = [id |-> id, step |-> "silenced"] /\ id \notin disabled /\ id \in disabled'
    BY <1>1 DEF Silence, Asked, NeedsRestart, WriteDisabled, Fault, Faults, TypeOK
  <2>2. TypeOK'
    BY <2>1 DEF TypeOK
  <2>3. Disabled' /\ Draining' /\ Whole'
    BY <2>1 DEF Disabled, Draining, Whole, Idle
  <2>4. Installable'
    BY <2>1 DEF Installable, Idle
  <2>5. Silenced'
    BY <2>1 DEF Silenced, Installing, Disabled, Idle
  <2> QED BY <2>2, <2>3, <2>4, <2>5
<1>2. CASE RecordRemoval(id)
  <2>1. /\ UNCHANGED <<dir, stage, backups, profile, objects, phase, todo, backup, digests, op,
                       behind, excuses, ops, crashes>>
        /\ phase = "running" /\ at.id = id /\ at.step \in {"silent", "silenced"} /\ at' = Idle
        /\ faults' \in Nat
    BY <1>2 DEF RecordRemoval, At, Fault, Faults, TypeOK
  <2>2. /\ id \in disabled /\ journal[id] = "none"
        /\ at.step = "silenced" => id \notin removed
        /\ op # NoOp /\ op.kind # "local" => op.id # id
    BY <2>1 DEF Silenced
  <2>3. Draining' /\ Whole' /\ Silenced'
    BY <2>1 DEF Draining, Whole, Silenced, Idle
  <2>4. CASE journal' = [journal EXCEPT ![id] = "uninstall"] /\ UNCHANGED disabled /\ removed' = removed \cup {id}
    <3>1. TypeOK'
      BY <2>1, <2>4 DEF TypeOK, Idle
    <3>2. Disabled'
      BY <2>2, <2>4 DEF Disabled, TypeOK
    <3>3. Installable'
      BY <2>1, <2>2, <2>4 DEF Installable, TypeOK, Idle
    <3> QED BY <2>3, <3>1, <3>2, <3>3
  <2>5. CASE /\ disabled' = disabled \/ (at.step = "silenced" /\ disabled' = disabled \ {id})
             /\ UNCHANGED <<journal, removed>>
    <3>1. TypeOK'
      BY <2>1, <2>5 DEF TypeOK, Idle
    <3>2. Disabled'
      BY <2>2, <2>5 DEF Disabled
    <3>3. Installable'
      BY <2>1, <2>5 DEF Installable, Idle
    <3> QED BY <2>3, <3>1, <3>2, <3>3
  <2> QED BY <1>2, <2>4, <2>5 DEF RecordRemoval
<1>3. CASE Downgrade(id)
  <2>1. /\ UNCHANGED <<dir, stage, backups, disabled, profile, objects, phase, todo, at, backup,
                       digests, op, history, crashes, faults>>
        /\ phase = "running" /\ at = Idle /\ ~Installing(id) /\ ops' \in Nat
        /\ journal' = [journal EXCEPT ![id] = "downgrade"]
    BY <1>3 DEF Downgrade, Asked, TypeOK
  <2>2. TypeOK'
    BY <2>1 DEF TypeOK
  <2>3. Disabled' /\ Draining' /\ Whole'
    BY <2>1 DEF Disabled, Draining, Whole, TypeOK
  <2>4. Installable' /\ Silenced'
    BY <2>1 DEF Installable, Silenced, Installing, TypeOK, Idle
  <2> QED BY <2>2, <2>3, <2>4
<1>4. CASE SetEnabled(id)
  <2>1. /\ UNCHANGED <<dir, stage, backups, journal, profile, objects, phase, todo, at, backup,
                       digests, op, behind, excuses, crashes>>
        /\ phase = "running" /\ at = Idle /\ journal[id] = "none" /\ ops' \in Nat /\ faults' \in Nat
        /\ disabled' \in {disabled, disabled \ {id}, disabled \cup {id}}
        /\ removed' = removed \ ({id} \ disabled')
    BY <1>4 DEF SetEnabled, Asked, Installed, WriteDisabled, Fault, Faults, TypeOK
  <2>2. TypeOK'
    BY <2>1 DEF TypeOK
  <2>3. Disabled'
    BY <2>1 DEF Disabled
  <2>4. Draining' /\ Whole' /\ Installable' /\ Silenced'
    BY <2>1 DEF Draining, Whole, Installable, Silenced, Idle
  <2> QED BY <2>2, <2>3, <2>4
<1> QED BY <1>1, <1>2, <1>3, <1>4

LEMMA Leaves ==
  ASSUME IInv, Quit \/ Crash
  PROVE  IInv'
<1> USE DEF IInv, Held
<1>1. /\ phase' = "off" /\ todo' = {} /\ at' = Idle /\ backup' = NoBuild /\ op' = NoOp
      /\ digests' = [id \in Ids |-> NoBuild]
      /\ UNCHANGED <<dir, stage, backups, journal, disabled, profile, objects, removed, told, ops, faults>>
  BY DEF Quit, Crash, Gone, disk
<1>2. crashes' \in Nat /\ behind' \subseteq Ids /\ cut' \subseteq Ids
  <2>1. at.step # "none" => at.id \in Ids
    BY DEF TypeOK, Idle
  <2> QED BY <2>1 DEF Quit, Crash, TypeOK
<1>3. TypeOK'
  BY <1>1, <1>2 DEF TypeOK, Payloads, Idle
<1>4. Disabled' /\ Draining' /\ Whole' /\ Installable' /\ Silenced'
  BY <1>1 DEF Disabled, Draining, Whole, Installable, Silenced, Idle
<1> QED BY <1>3, <1>4

-------------------------------------------------------------------------------
(* Of one step, for what the sections below add to IInv. *)
LEMMA Steps == IInv /\ [Next]_vars => IInv'
<1> SUFFICES ASSUME IInv, [Next]_vars PROVE IInv'
  OBVIOUS
<1>1. CASE StartUp
  BY <1>1, Passes, Drains, Promotes, Seeds DEF StartUp
<1>2. CASE UserStep
  BY <1>2, Fetches, Removes DEF UserStep
<1>3. CASE FinishStep
  BY <1>3, Finishes, Registers, Removes DEF FinishStep
<1>4. CASE Quit \/ Crash
  BY <1>4, Leaves
<1>5. CASE UNCHANGED vars
  <2>1. UNCHANGED <<dir, stage, backups, journal, disabled, profile, objects, phase, todo, at, backup,
                    digests, op, history, ops, crashes, faults>>
    BY <1>5 DEF vars, disk
  <2>2. TypeOK' /\ Whole' /\ Draining'
    BY <2>1 DEF IInv, Held, TypeOK, Whole, Draining
  <2> QED BY <2>1, <2>2, Bystanding DEF Draining
<1> QED BY <1>1, <1>2, <1>3, <1>4, <1>5 DEF Next

LEMMA Inductive == Spec => []IInv
BY Initially, Steps, PTL DEF Spec

(* Everything the manager keeps on disk and in memory keeps its type: a map    *)
(* never holds half a payload, and an object of the store is always whole.     *)
THEOREM TypeCorrect == Spec => []TypeOK
<1>1. IInv => TypeOK
  BY DEF IInv
<1> QED BY Inductive, <1>1, PTL

(* However often the process crashes, and whichever deletions and writes of    *)
(* records and settings fail: what the user had removed loads in no session    *)
(* until it is installed or enabled again.                                     *)
THEOREM RemovalsFailClosed == Spec => []RemovalFailsClosed
<1>1. IInv => RemovalFailsClosed
  BY DEF IInv, Held, Disabled, RemovalFailsClosed, Loads
<1> QED BY Inductive, <1>1, PTL

-------------------------------------------------------------------------------
(* What a session loads.  The profile on disk is what the process maps         *)
(* (Mirrored), and what it maps is the payload that lies in the directory, or  *)
(* the one a handler has moved aside and may put back, when that one can be    *)
(* read (Mapped); between two renames the directory is empty (Emptied).        *)

Mirrored == phase # "off" => \A id \in Ids \ behind : profile[id] = digests[id]

(* The payload that counts as the extension's own while a handler is between *)
(* two file operations; none, when the handler is going to map a new one.    *)
Lying(id) ==
  IF at.id # id \/ at.step \in {"silent", "silenced", "cleared", "adopted"} THEN dir[id]
  ELSE IF at.step \in {"seeded", "fresh"} THEN NoBuild
  ELSE backup

Reads(build) == build \in Builds \ Broken

Mapped == \A id \in Ids \ behind : profile[id] \in objects[id] => Lying(id) = profile[id] \/ ~Reads(Lying(id))

Emptied == at.step \in {"backed", "undone", "aside"} => dir[at.id] = NoBuild

Traced == Mirrored /\ Mapped /\ Emptied

LEMMA LyingIdle == ASSUME TypeOK, at = Idle, NEW id \in Ids PROVE Lying(id) = dir[id]
BY ExtensionAssumption DEF Lying, Idle

LEMMA Unreadable == ~Reads(NoBuild) /\ ~Reads(Torn) /\ \A build \in Broken : ~Reads(build)
BY ExtensionAssumption DEF Reads

(* A mapping is never to nothing. *)
LEMMA Mappable == ASSUME TypeOK, NEW id \in Ids PROVE NoBuild \notin objects[id]
BY ExtensionAssumption DEF TypeOK

(* Steps that write neither the profile nor the objects. *)
LEMMA Undisturbed ==
  ASSUME Traced, UNCHANGED <<profile, objects>>, behind \subseteq behind', Emptied',
         \A id \in Ids \ behind' : Lying(id)' = Lying(id) \/ ~Reads(Lying(id)'),
         phase' # "off" => digests' = profile \/ (phase # "off" /\ digests' = digests)
  PROVE  Traced'
<1>1. Mirrored'
  BY DEF Traced, Mirrored
<1>2. Mapped'
  <2> SUFFICES ASSUME NEW id \in Ids \ behind', profile[id] \in objects[id]
               PROVE  Lying(id)' = profile[id] \/ ~Reads(Lying(id)')
    BY DEF Mapped, Reads
  <2>1. Lying(id) = profile[id] \/ ~Reads(Lying(id))
    BY DEF Traced, Mapped
  <2> QED BY <2>1
<1> QED BY <1>1, <1>2 DEF Traced

LEMMA TracedInitially == Init => Traced
<1> SUFFICES ASSUME Init PROVE Traced
  OBVIOUS
<1>1. Mirrored /\ Emptied
  BY DEF Init, Mirrored, Emptied, Idle
<1>2. Mapped
  BY DEF Init, Mapped
<1> QED BY <1>1, <1>2 DEF Traced

LEMMA StartsTraced ==
  ASSUME IInv, Traced,
         \/ Start \/ BeginPromotions \/ Run
         \/ \E id \in Ids : DeletePayload(id) \/ RetireRecord(id) \/ SkipSeed(id)
  PROVE  Traced'
<1>1. CASE Start \/ BeginPromotions \/ Run \/ \E id \in Ids : RetireRecord(id) \/ SkipSeed(id)
  <2>1. UNCHANGED <<dir, profile, objects, at, backup, behind>>
    BY <1>1 DEF Start, BeginPromotions, Run, RetireRecord, SkipSeed, disk
  <2>2. phase' # "off" => digests' = profile \/ (phase # "off" /\ digests' = digests)
    BY <1>1 DEF Start, BeginPromotions, Run, RetireRecord, SkipSeed
  <2>3. Emptied' /\ \A x \in Ids : Lying(x)' = Lying(x)
    BY <2>1 DEF Traced, Emptied, Lying
  <2> QED BY <2>1, <2>2, <2>3, Undisturbed
<1>2. CASE \E id \in Ids : DeletePayload(id)
  <2>1. PICK id \in Ids : DeletePayload(id)
    BY <1>2
  <2>2. UNCHANGED <<profile, objects, at, backup, behind, digests, phase>> /\ phase = "drain"
    BY <2>1 DEF DeletePayload
  <2>3. PICK left \in {NoBuild, Torn, dir[id]} : dir' = [dir EXCEPT ![id] = left]
    BY <2>1 DEF DeletePayload, Tear
  <2>4. \A x \in Ids : Lying(x)' \in {Lying(x), NoBuild, Torn}
    BY <2>2, <2>3 DEF Lying, IInv, TypeOK
  <2>5. Emptied'
    BY <2>1, <2>2, <2>3 DEF Traced, Emptied, DeletePayload, IInv, TypeOK
  <2> QED BY <2>2, <2>4, <2>5, Undisturbed, Unreadable
<1> QED BY <1>1, <1>2

LEMMA SessionTraced ==
  ASSUME IInv, Traced,
         \/ \E id \in Ids, build \in Builds : StartInstall(id, build) \/ StartUpdate(id, build) \/ StartLocal(id, build)
         \/ \E id \in Ids : Downgrade(id) \/ SetEnabled(id) \/ Silence(id) \/ RecordRemoval(id)
         \/ \E id \in Ids : Discard(id) \/ Enable(id)
         \/ GiveUp \/ FinishStaged \/ ClearPlace \/ FinishFresh
  PROVE  Traced'
<1>1. UNCHANGED <<profile, objects, behind, digests, phase, backup>> /\ phase = "running"
  BY DEF StartInstall, StartUpdate, StartLocal, Fetch, Asked, Silence, Downgrade, SetEnabled, RecordRemoval,
         GiveUp, FinishStaged, ClearPlace, FinishFresh, EndsFresh, Discard, Enable, disk
<1>2. Emptied' /\ \A x \in Ids : Lying(x)' = Lying(x) \/ ~Reads(Lying(x)')
  <2>1. CASE ClearPlace \/ FinishFresh
    <3>1. op.id \in Ids /\ (at = Idle \/ At(op.id, "cleared"))
      BY <2>1 DEF ClearPlace, FinishFresh, EndsFresh, IInv, TypeOK
    <3>2. \A x \in Ids : Lying(x) = dir[x]
      BY <3>1, LyingIdle DEF Lying, At, IInv
    <3>3. CASE at' = [id |-> op.id, step |-> "fresh"] /\ dir' = [dir EXCEPT ![op.id] = op.build]
      <4>1. \A x \in Ids : Lying(x)' \in {dir[x], NoBuild}
        BY <3>1, <3>3 DEF Lying, IInv, TypeOK
      <4> QED BY <3>2, <3>3, <4>1, Unreadable DEF Emptied
    <3>4. CASE /\ at' = Idle \/ at' = [id |-> op.id, step |-> "cleared"]
               /\ \E left \in {NoBuild, Torn, dir[op.id]} : dir' = [dir EXCEPT ![op.id] = left]
      <4>1. \A x \in Ids : Lying(x)' = dir'[x]
        BY <3>4, ExtensionAssumption DEF Lying, Idle
      <4>2. \A x \in Ids : dir'[x] \in {dir[x], NoBuild, Torn}
        BY <3>1, <3>4 DEF IInv, TypeOK
      <4>3. Emptied'
        BY <3>4 DEF Emptied, Idle
      <4> QED BY <3>2, <4>1, <4>2, <4>3, Unreadable
    <3> QED
      <4>1. dir = [dir EXCEPT ![op.id] = dir[op.id]]
        BY DEF IInv, TypeOK
      <4> QED BY <2>1, <3>3, <3>4, <4>1 DEF ClearPlace, FinishFresh, Tear
  <2>2. CASE \E id \in Ids : Silence(id) \/ RecordRemoval(id) \/ Enable(id)
    <3>1. PICK id \in Ids : Silence(id) \/ RecordRemoval(id) \/ Enable(id)
      BY <2>2
    <3>2. /\ UNCHANGED dir
          /\ \/ at = Idle
             \/ at.id = id /\ at.step \in {"silent", "silenced", "adopted"}
          /\ \/ at' = Idle
             \/ \E step \in {"silent", "silenced"} : at' = [id |-> id, step |-> step]
      BY <3>1 DEF Silence, Asked, RecordRemoval, Enable, At
    <3>3. \A x \in Ids : Lying(x) = dir[x]
      BY <3>2, LyingIdle DEF Lying, IInv
    <3>4. \A x \in Ids : Lying(x)' = dir[x]
      BY <3>2, ExtensionAssumption DEF Lying, Idle
    <3>5. Emptied'
      BY <3>2 DEF Emptied, Idle
    <3> QED BY <3>3, <3>4, <3>5
  <2>3. CASE UNCHANGED <<dir, at>>
    BY <1>1, <2>3 DEF Traced, Emptied, Lying
  <2>4. CASE \E id \in Ids : Discard(id)
    <3>1. PICK id \in Ids : Discard(id)
      BY <2>4
    <3>2. at.id = id /\ at.step = "fresh" /\ dir[id] \in Broken /\ at' = Idle
      BY <3>1 DEF Discard, At
    <3>3. PICK left \in {NoBuild, Torn, dir[id]} : dir' = [dir EXCEPT ![id] = left]
      BY <3>1 DEF Discard, Tear, IInv, TypeOK
    <3>4. \A x \in Ids : Lying(x)' = dir'[x]
      BY <3>2, ExtensionAssumption DEF Lying, Idle
    <3>5. \A x \in Ids \ {id} : Lying(x) = dir'[x]
      BY <3>2, <3>3 DEF Lying, IInv, TypeOK
    <3>6. dir'[id] = left
      BY <3>3 DEF IInv, TypeOK
    <3>7. ~Reads(dir'[id])
      BY <3>2, <3>6, Unreadable
    <3>8. Emptied'
      BY <3>2 DEF Emptied, Idle
    <3> QED BY <3>4, <3>5, <3>7, <3>8
  <2> QED BY <2>1, <2>2, <2>3, <2>4
       DEF StartInstall, StartUpdate, StartLocal, Fetch, Downgrade, SetEnabled, GiveUp, FinishStaged, disk
<1> QED BY <1>1, <1>2, Undisturbed

(* What is moved aside and back. *)
LEMMA MovesTraced ==
  ASSUME IInv, Traced, NEW id \in Ids,
         BackUp(id) \/ Promote(id) \/ Reject(id) \/ RollBack(id) \/ SeedAside(id) \/ SeedPlace(id)
  PROVE  Traced'
<1>1. UNCHANGED <<profile, objects, digests, phase, behind>> /\ phase \in {"promote", "seed"}
  BY DEF BackUp, Promote, Reject, RollBack, SeedAside, SeedPlace
<1>2. CASE BackUp(id) \/ SeedAside(id)
  <2>1. CASE UNCHANGED <<dir, at, backup>>
    <3>1. Emptied' /\ \A x \in Ids : Lying(x)' = Lying(x)
      BY <2>1 DEF Traced, Emptied, Lying
    <3> QED BY <1>1, <3>1, Undisturbed
  <2>2. CASE /\ \E step \in {"backed", "aside"} : at' = [id |-> id, step |-> step]
             /\ backup' = dir[id] /\ dir' = [dir EXCEPT ![id] = NoBuild]
    <3>1. at = Idle
      BY <1>2 DEF BackUp, SeedAside
    <3>2. Emptied'
      BY <2>2 DEF Emptied, IInv, TypeOK
    <3>3. \A x \in Ids : Lying(x)' = dir[x]
      BY <2>2 DEF Lying, IInv, TypeOK
    <3> QED BY <1>1, <3>1, <3>2, <3>3, LyingIdle, Undisturbed DEF IInv
  <2> QED BY <1>2, <2>1, <2>2 DEF BackUp, SeedAside
<1>3. CASE Promote(id) \/ Reject(id) \/ RollBack(id) \/ SeedPlace(id)
  <2>1. at.id = id /\ at.step \in {"backed", "placed", "undone", "aside"}
    <3>1. CASE Promote(id)
      BY <3>1 DEF Promote, At
    <3>2. CASE Reject(id)
      BY <3>2 DEF Reject, At
    <3>3. CASE RollBack(id)
      BY <3>3 DEF RollBack, At
    <3>4. CASE SeedPlace(id)
      BY <3>4 DEF SeedPlace, At
    <3> QED BY <1>3, <3>1, <3>2, <3>3, <3>4
  <2>2. \A x \in Ids : Lying(x) = IF x = id THEN backup ELSE dir[x]
    BY <2>1 DEF Lying
  (* A handler that goes on. *)
  <2>3. CASE /\ \E step \in {"placed", "undone", "seeded"} : at' = [id |-> id, step |-> step]
             /\ at'.step = "undone" => dir'[id] = NoBuild
             /\ UNCHANGED backup
             /\ \A x \in Ids \ {id} : dir'[x] = dir[x]
    <3>1. \A x \in Ids : Lying(x)' \in {IF x = id THEN backup ELSE dir[x], NoBuild}
      BY <2>3 DEF Lying
    <3>2. Emptied'
      BY <2>3 DEF Emptied
    <3> QED BY <1>1, <2>2, <3>1, <3>2, Undisturbed, Unreadable
  (* One that ends, with what was moved aside back in place or nothing readable there. *)
  <2>4. CASE /\ at' = Idle
             /\ dir'[id] = backup \/ ~Reads(dir'[id])
             /\ \A x \in Ids \ {id} : dir'[x] = dir[x]
    <3>1. \A x \in Ids : Lying(x)' = dir'[x]
      BY <2>4, ExtensionAssumption DEF Lying, Idle
    <3>2. Emptied'
      BY <2>4 DEF Emptied, Idle
    <3> QED BY <1>1, <2>2, <2>4, <3>1, <3>2, Undisturbed
  <2>5. \A x \in Ids \ {id} : dir'[x] = dir[x]
    BY <1>3 DEF Promote, Reject, RollBack, Restore, Tear, SeedPlace, IInv, TypeOK
  <2>6. CASE Promote(id)
    <3>0. at.id = id /\ at.step = "backed"
      BY <2>6 DEF Promote, At
    <3>1. dir[id] = NoBuild
      BY <3>0 DEF Traced, Emptied
    <3>2. CASE at' = [id |-> id, step |-> "placed"] /\ UNCHANGED backup
      BY <2>3, <2>5, <3>2
    <3>3. CASE at' = [id |-> id, step |-> "undone"] /\ UNCHANGED <<backup, dir>>
      BY <2>3, <2>5, <3>1, <3>3
    <3> QED BY <2>6, <3>2, <3>3 DEF Promote
  <2>7. CASE Reject(id)
    <3>1. dir[id] \in Broken
      BY <2>7 DEF Reject
    <3>2. CASE dir' = [dir EXCEPT ![id] = NoBuild] /\ at' = [id |-> id, step |-> "undone"] /\ UNCHANGED backup
      <4>1. dir'[id] = NoBuild
        BY <3>2 DEF IInv, TypeOK
      <4> QED BY <2>3, <2>5, <3>2, <4>1
    <3>3. CASE Tear(id) /\ Done(id)
      <4>1. dir'[id] \in {dir[id], Torn}
        BY <3>3 DEF Tear, IInv, TypeOK
      <4> QED BY <2>4, <2>5, <3>1, <3>3, <4>1, Unreadable DEF Done
    <3> QED BY <2>7, <3>2, <3>3 DEF Reject
  <2>8. CASE RollBack(id)
    <3>1. dir[id] = NoBuild
      BY <2>8 DEF RollBack, At, Traced, Emptied
    <3>2. dir'[id] \in {backup, NoBuild}
      BY <2>8, <3>1 DEF RollBack, Restore, IInv, TypeOK
    <3> QED BY <2>4, <2>5, <2>8, <3>2, Unreadable DEF RollBack, Done
  <2>9. CASE SeedPlace(id)
    <3>1. dir[id] = NoBuild
      BY <2>9 DEF SeedPlace, At, Traced, Emptied
    <3>2. CASE at' = [id |-> id, step |-> "seeded"] /\ UNCHANGED backup
      BY <2>3, <2>5, <3>2
    <3>3. CASE Done(id) /\ (dir' = [dir EXCEPT ![id] = backup] \/ UNCHANGED dir)
      <4>1. dir'[id] \in {backup, NoBuild}
        BY <3>1, <3>3 DEF IInv, TypeOK
      <4> QED BY <2>4, <2>5, <3>3, <4>1, Unreadable DEF Done
    <3> QED BY <2>9, <3>2, <3>3 DEF SeedPlace
  <2> QED BY <1>3, <2>6, <2>7, <2>8, <2>9
<1> QED BY <1>2, <1>3

LEMMA AdoptsTraced ==
  ASSUME IInv, Traced, NEW id \in Ids, NEW refused \in BOOLEAN, ShadowAdopt(id, refused),
         at.id = id, dir[id] \in Builds, phase # "off", phase' # "off", UNCHANGED dir, IInv',
         at' = Idle \/ at' = [id |-> id, step |-> "adopted"]
  PROVE  Traced'
<1> DEFINE mapped == [digests EXCEPT ![id] = IF refused THEN NoBuild ELSE dir[id]]
<1>1. /\ digests' = mapped
      /\ objects' = [objects EXCEPT ![id] = IF refused THEN @ ELSE @ \cup {dir[id]}]
      /\ behind' = (behind \ {id}) \cup Missed(mapped)
  BY DEF ShadowAdopt
<1>2. /\ mapped[id] \in {NoBuild, dir[id]}
      /\ \A x \in Ids \ {id} : mapped[x] = digests[x] /\ objects'[x] = objects[x]
  BY <1>1 DEF IInv, TypeOK
<1> HIDE DEF mapped
<1>3. \A x \in Ids \ behind' : profile'[x] = mapped[x]
  BY <1>1 DEF Missed
<1>4. \A x \in Ids : Lying(x)' = dir[x]
  BY LyingIdle, ExtensionAssumption DEF Lying, Idle
<1>5. \A x \in Ids \ {id} : Lying(x) = dir[x]
  BY DEF Lying
<1>6. Mirrored'
  BY <1>1, <1>3 DEF Mirrored
<1>7. Mapped'
  <2> SUFFICES ASSUME NEW x \in Ids \ behind', profile'[x] \in objects'[x]
               PROVE  Lying(x)' = profile'[x] \/ ~Reads(Lying(x)')
    BY DEF Mapped, Reads
  <2>1. CASE x = id
    <3>1. profile'[id] # NoBuild
      BY <2>1, ExtensionAssumption DEF IInv, TypeOK
    <3> QED BY <1>2, <1>3, <1>4, <2>1, <3>1
  <2>2. CASE x # id
    <3>1. x \notin behind
      BY <1>1, <2>2
    <3>2. profile'[x] = profile[x]
      BY <1>2, <1>3, <2>2, <3>1 DEF Traced, Mirrored
    <3> QED BY <1>2, <1>4, <1>5, <2>2, <3>1, <3>2 DEF Traced, Mapped
  <2> QED BY <2>1, <2>2
<1>8. Emptied'
  BY DEF Emptied, Idle
<1> QED BY <1>6, <1>7, <1>8 DEF Traced

LEMMA AdmitsTraced ==
  ASSUME IInv, IInv', Traced, NEW id \in Ids, Admit(id) \/ Register(id)
  PROVE  Traced'
<1>1. CASE Admit(id)
  <2>1. /\ UNCHANGED <<dir, phase>> /\ phase = "promote" /\ at.id = id /\ at.step = "placed" /\ at' = Idle
        /\ \E refused \in BOOLEAN : ShadowAdopt(id, refused)
    BY <1>1 DEF Admit, At, Done
  <2>2. dir[id] \in Builds
    BY <2>1 DEF IInv, Held, Whole
  <2> QED BY <2>1, <2>2, AdoptsTraced
<1>2. CASE Register(id)
  <2>1. /\ UNCHANGED <<dir, phase>> /\ phase = "running" /\ at.id = id /\ at.step = "fresh"
        /\ at' = [id |-> id, step |-> "adopted"]
        /\ \E refused \in BOOLEAN : ShadowAdopt(id, refused)
    BY <1>2 DEF Register, At
  <2>2. dir[id] \in Builds
    BY <2>1 DEF IInv, Held, Whole
  <2> QED BY <2>1, <2>2, AdoptsTraced
<1> QED BY <1>1, <1>2

LEMMA SettlesTraced ==
  ASSUME IInv, IInv', Traced, Settle
  PROVE  Traced'
<1> DEFINE mapped == [x \in Ids |-> IF dir[x] = NoBuild THEN NoBuild ELSE digests[x]]
           unread == (\A x \in Ids : mapped[x] = NoBuild) /\ (\E x \in Ids : Installed(x) # NoBuild)
<1>1. /\ digests' = mapped /\ at = Idle /\ phase = "promote" /\ phase' = "seed"
      /\ behind' = behind \cup Missed(mapped)
      /\ objects' = IF unread THEN objects ELSE [x \in Ids |-> objects[x] \cap {mapped[x]}]
      /\ UNCHANGED <<dir, at, backup>>
  BY DEF Settle
<1>2. \A x \in Ids : mapped[x] \in {NoBuild, digests[x]} /\ objects'[x] \subseteq objects[x]
  BY <1>1
<1> HIDE DEF mapped, unread
<1>3. \A x \in Ids \ behind' : profile'[x] = mapped[x]
  BY <1>1 DEF Missed
<1>4. Mirrored'
  BY <1>1, <1>3 DEF Mirrored
<1>5. Mapped'
  <2> SUFFICES ASSUME NEW x \in Ids \ behind', profile'[x] \in objects'[x]
               PROVE  Lying(x)' = profile'[x] \/ ~Reads(Lying(x)')
    BY DEF Mapped, Reads
  <2>1. x \notin behind /\ profile[x] = digests[x]
    BY <1>1 DEF Traced, Mirrored
  <2>2. profile'[x] # NoBuild
    BY <1>2, Mappable DEF IInv
  <2>3. profile'[x] = profile[x] /\ profile[x] \in objects[x]
    BY <1>2, <1>3, <2>1, <2>2
  <2>4. Lying(x)' = Lying(x)
    BY <1>1 DEF Lying
  <2> QED BY <2>1, <2>3, <2>4 DEF Traced, Mapped
<1>6. Emptied'
  BY <1>1 DEF Emptied, Idle
<1> QED BY <1>4, <1>5, <1>6 DEF Traced

LEMMA DropsTraced ==
  ASSUME IInv, IInv', Traced, NEW id \in Ids, SeedDrop(id)
  PROVE  Traced'
<1> DEFINE mapped == [digests EXCEPT ![id] = NoBuild]
<1>1. /\ UNCHANGED <<dir, objects, phase>> /\ phase = "seed" /\ digests' = mapped
      /\ at.id = id /\ at.step = "seeded" /\ at' = Idle
      /\ IF digests[id] = NoBuild THEN UNCHANGED <<profile, faults>> ELSE Persist(mapped)
      /\ behind' = IF digests[id] = NoBuild THEN behind ELSE (behind \ {id}) \cup Missed(mapped)
  BY DEF SeedDrop, At, Done
<1>2. mapped[id] = NoBuild /\ \A x \in Ids \ {id} : mapped[x] = digests[x]
  BY DEF IInv, TypeOK
<1> HIDE DEF mapped
<1>3. \A x \in Ids \ behind' : profile'[x] = mapped[x]
  <2>1. CASE digests[id] = NoBuild
    BY <1>1, <1>2, <2>1 DEF Traced, Mirrored
  <2>2. CASE digests[id] # NoBuild
    BY <1>1, <2>2 DEF Missed
  <2> QED BY <2>1, <2>2
<1>4. Mirrored'
  BY <1>1, <1>3 DEF Mirrored
<1>5. Mapped'
  <2> SUFFICES ASSUME NEW x \in Ids \ behind', profile'[x] \in objects'[x]
               PROVE  Lying(x)' = profile'[x] \/ ~Reads(Lying(x)')
    BY DEF Mapped, Reads
  <2>1. profile'[x] # NoBuild
    BY Mappable, <1>1 DEF IInv
  <2>2. x # id
    BY <1>2, <1>3, <2>1
  <2>3. x \notin behind
    BY <1>1, <2>2
  <2>4. profile'[x] = profile[x]
    BY <1>1, <1>2, <1>3, <2>2, <2>3 DEF Traced, Mirrored
  <2>5. Lying(x)' = dir[x] /\ Lying(x) = dir[x]
    BY <1>1, <2>2, ExtensionAssumption DEF Lying, Idle
  <2> QED BY <1>1, <2>3, <2>4, <2>5 DEF Traced, Mapped
<1>6. Emptied'
  BY <1>1 DEF Emptied, Idle
<1> QED BY <1>4, <1>5, <1>6 DEF Traced

(* The process is gone: what it had in its hands is behind, or back at rest. *)
LEMMA LeavesTraced ==
  ASSUME IInv, Traced, Quit \/ Crash
  PROVE  Traced'
<1>1. phase' = "off" /\ at' = Idle /\ UNCHANGED <<dir, profile, objects>> /\ behind \subseteq behind'
  BY DEF Quit, Crash, Gone, disk
<1>2. \A x \in Ids \ behind' : at.id = x /\ at.step \in {"placed", "fresh", "seeded"} => ~Reads(dir[x])
  BY DEF Quit, Crash, Idle, Readable, Reads
<1>3. \A x \in Ids \ behind' : Lying(x)' = Lying(x) \/ ~Reads(Lying(x)')
  <2> SUFFICES ASSUME NEW x \in Ids \ behind' PROVE dir[x] = Lying(x) \/ ~Reads(dir[x])
    BY <1>1, ExtensionAssumption DEF Lying, Idle, Reads
  <2>1. CASE at.id = x /\ at.step \in {"backed", "undone", "aside"}
    BY <2>1, Unreadable DEF Traced, Emptied
  <2>2. CASE at.id # x \/ at.step \in {"silent", "silenced", "cleared", "adopted"}
    BY <2>2 DEF Lying
  <2>3. at.id = x => at.step \in {"backed", "placed", "undone", "aside", "seeded", "cleared", "fresh",
                                 "adopted", "silent", "silenced"}
    BY ExtensionAssumption DEF IInv, TypeOK, Idle
  <2> QED BY <1>2, <2>1, <2>2, <2>3
<1>4. Emptied'
  BY <1>1 DEF Emptied, Idle
<1> QED BY <1>1, <1>3, <1>4, Undisturbed

LEMMA StepsTraced == IInv /\ Traced /\ [Next]_vars => Traced'
<1> SUFFICES ASSUME IInv, Traced, [Next]_vars PROVE Traced'
  OBVIOUS
<1>0. IInv'
  BY Steps
<1>1. CASE StartUp
  BY <1>0, <1>1, StartsTraced, SettlesTraced, MovesTraced, AdmitsTraced, DropsTraced DEF StartUp
<1>2. CASE UserStep
  BY <1>2, SessionTraced DEF UserStep
<1>3. CASE FinishStep
  BY <1>0, <1>3, SessionTraced, AdmitsTraced DEF FinishStep
<1>4. CASE Quit \/ Crash
  BY <1>4, LeavesTraced
<1>5. CASE UNCHANGED vars
  <2>1. UNCHANGED <<dir, profile, objects, phase, at, backup, digests, behind>>
    BY <1>5 DEF vars, disk
  <2>2. Emptied' /\ \A x \in Ids : Lying(x)' = Lying(x)
    BY <2>1 DEF Traced, Emptied, Lying
  <2> QED
    BY <2>1, <2>2 DEF Traced, Mirrored, Mapped
<1> QED BY <1>1, <1>2, <1>3, <1>4, <1>5 DEF Next

(* Through every update, refusal, seed and collection of the store, any number *)
(* of crashes and of failing file operations: a session loads what lies in the *)
(* extension's directory, when that can be read, but for the ids whose profile *)
(* entry a crash or a failed write is known to have kept behind.               *)
THEOREM SessionsLoadWhatIsThere == Spec => []LoadsWhatIsThere
<1>1. IInv /\ Traced => LoadsWhatIsThere
  <2> SUFFICES ASSUME IInv, Traced, NEW id \in Ids, phase = "running", at.id # id, Readable(id),
                      id \notin behind
               PROVE  Loads(id) \in {NoBuild, dir[id]}
    BY DEF LoadsWhatIsThere
  <2>1. digests[id] = profile[id] /\ Lying(id) = dir[id]
    BY DEF Traced, Mirrored, Lying
  <2>2. digests[id] \in objects[id] => digests[id] = dir[id]
    BY <2>1 DEF Traced, Mapped, Reads, Readable
  <2> QED BY <2>2 DEF Loads
<1>2. IInv /\ Traced /\ [Next]_vars => (IInv /\ Traced)'
  BY Steps, StepsTraced
<1> QED BY Initially, TracedInitially, <1>1, <1>2, PTL DEF Spec

-------------------------------------------------------------------------------
(* Nobody is left without an extension unawares.  Outside a session one that   *)
(* ships with the application may wait for the seed (Awaited), and one that is *)
(* being promoted is in the handler's hands (AtHand), which puts back what it  *)
(* moved aside, or reports, or is cut by a crash.  Where what was moved aside  *)
(* could not be read either, the excuse is older than the handler              *)
(* (HandExcused).                                                              *)

Excuse(id) == id \in removed \cup cut \cup told

Excused(id) == (backups[id] = {} /\ Bundled[id] = NoBuild) \/ Excuse(id)

AtHand(id) == at.id = id /\ at.step \in {"backed", "placed", "undone"} /\ backup # NoBuild

Awaited(id) == Bundled[id] # NoBuild /\ phase # "running" /\ (phase = "seed" => id \in todo)

Safe(id) == Readable(id) \/ Excused(id) \/ AtHand(id) \/ Awaited(id)

Covered == \A id \in Ids : Safe(id)

HandExcused ==
  at.step \in {"backed", "placed", "undone"} /\ ~Reads(backup) /\ ~Readable(at.id)
    => Bundled[at.id] # NoBuild \/ backups[at.id] \subseteq {backup} \/ Excuse(at.id)

Handling ==
  /\ at.step \in {"backed", "placed", "undone"} => phase = "promote"
  /\ at.step \in {"aside", "seeded"} => phase = "seed" /\ at.id \in todo
  /\ at.step \in {"seeded", "adopted"} => Readable(at.id)
  /\ at.step = "cleared" => ~Readable(at.id)

Fetching ==
  op # NoOp =>
    /\ phase = "running"
    /\ op.kind = "fresh" => ~Readable(op.id) \/ at.step \in {"fresh", "adopted"}

(* What the start-up empties for good comes back with the seed. *)
Reseeded ==
  /\ phase = "seed" => \A id \in todo : Bundled[id] # NoBuild
  /\ \A id \in Ids : journal[id] = "downgrade" => Bundled[id] # NoBuild

Kept == Covered /\ HandExcused /\ Handling /\ Fetching /\ Reseeded

LEMMA KeptInitially == Init => Kept
<1> SUFFICES ASSUME Init PROVE Kept
  OBVIOUS
<1>1. Covered
  BY ExtensionAssumption DEF Init, Covered, Safe, Readable, Excused
<1>2. HandExcused /\ Handling /\ Fetching /\ Reseeded
  BY DEF Init, HandExcused, Handling, Fetching, Reseeded, Idle
<1> QED BY <1>1, <1>2 DEF Kept

(* Steps that leave the directories and the handler alone. *)
LEMMA Resting ==
  ASSUME Kept, UNCHANGED <<dir, backups, at, backup, removed, excuses>>, Handling', Fetching', Reseeded',
         \A id \in Ids : Awaited(id) => Readable(id) \/ Awaited(id)'
  PROVE  Kept'
<1>1. Covered'
  BY DEF Kept, Covered, Safe, Readable, Excused, Excuse, AtHand
<1>2. HandExcused'
  BY DEF Kept, HandExcused, Readable, Excuse, Reads
<1> QED BY <1>1, <1>2 DEF Kept

(* A step about one extension leaves the others as safe as they were. *)
LEMMA OthersSafe ==
  ASSUME Covered, NEW id \in Ids,
         \A x \in Ids \ {id} : dir'[x] = dir[x] /\ backups'[x] = backups[x] /\ (Excuse(x) => Excuse(x)'),
         UNCHANGED <<at, backup>> \/ at = Idle \/ at.id = id,
         phase' = phase, todo \ {id} \subseteq todo'
  PROVE  \A x \in Ids \ {id} : Safe(x)'
<1> SUFFICES ASSUME NEW x \in Ids \ {id} PROVE Safe(x)'
  OBVIOUS
<1>1. Readable(x) => Readable(x)'
  BY DEF Readable
<1>2. Excused(x) => Excused(x)'
  BY DEF Excused
<1>3. AtHand(x) => AtHand(x)'
  BY DEF AtHand, Idle
<1>4. Awaited(x) => Awaited(x)'
  BY DEF Awaited
<1> QED BY <1>1, <1>2, <1>3, <1>4 DEF Covered, Safe

LEMMA Accounted ==
  ASSUME TypeOK, NEW id \in Ids, NEW reported \in BOOLEAN, Account(id, reported), removed' = removed
  PROVE  /\ \A x \in Ids \ {id} : Excuse(x) => Excuse(x)'
         /\ ~Readable(id)' /\ (Excuse(id) \/ reported) => Excuse(id)'
BY DEF Account, Excuse, Readable

LEMMA PassesKept ==
  ASSUME IInv, Kept,
         \/ Start \/ BeginPromotions \/ Settle \/ Run
         \/ \E id \in Ids : RetireRecord(id) \/ SkipSeed(id)
  PROVE  Kept'
<1>1. UNCHANGED <<dir, backups, at, backup, removed, excuses, op>> /\ phase # "running"
  BY DEF Start, BeginPromotions, Settle, Run, RetireRecord, SkipSeed, disk
<1>2. Fetching'
  BY <1>1 DEF Kept, Fetching
<1>3. Reseeded'
  <2>1. \A x \in Ids : journal'[x] = "downgrade" => journal[x] = "downgrade"
    BY DEF Start, BeginPromotions, Settle, Run, RetireRecord, SkipSeed, disk, IInv, TypeOK
  <2>2. phase' = "seed" => \A x \in todo' : Bundled[x] # NoBuild
    BY DEF Start, BeginPromotions, Settle, Run, RetireRecord, SkipSeed, Kept, Reseeded
  <2> QED BY <2>1, <2>2 DEF Kept, Reseeded
<1>4. Handling'
  <2>1. \/ at = Idle
        \/ phase' # "seed" /\ phase \notin {"promote", "seed"}
    BY DEF Start, BeginPromotions, Settle, Run, RetireRecord, SkipSeed
  <2> QED BY <1>1, <2>1 DEF Kept, Handling, Readable, Idle
<1>5. \A id \in Ids : Awaited(id) => Readable(id) \/ Awaited(id)'
  <2>1. CASE Start \/ BeginPromotions \/ Settle \/ Run \/ \E id \in Ids : RetireRecord(id)
    BY <2>1 DEF Awaited, Start, BeginPromotions, Settle, Run, RetireRecord
  <2>2. CASE \E id \in Ids : SkipSeed(id)
    BY <2>2 DEF Awaited, SkipSeed, Outdated, Readable
  <2> QED BY <2>1, <2>2
<1> QED BY <1>1, <1>2, <1>3, <1>4, <1>5, Resting

(* Only what the user had removed, or what the seed brings back, is deleted. *)
LEMMA DrainsKept ==
  ASSUME IInv, Kept, NEW id \in Ids, DeletePayload(id)
  PROVE  Kept'
<1>1. /\ UNCHANGED <<at, backup, backups, removed, excuses, op, journal, phase>> /\ todo \ {id} \subseteq todo'
      /\ phase = "drain" /\ journal[id] \in {"uninstall", "downgrade"}
  BY DEF DeletePayload, IInv, Held, Draining, TypeOK
<1>2. \A x \in Ids \ {id} : dir'[x] = dir[x]
  BY DEF DeletePayload, Tear, IInv, TypeOK
<1>3. Safe(id)'
  <2>1. CASE journal[id] = "uninstall"
    BY <1>1, <2>1 DEF IInv, Held, Disabled, Safe, Excused, Excuse
  <2>2. CASE journal[id] = "downgrade"
    BY <1>1, <2>2 DEF Kept, Reseeded, Safe, Awaited
  <2> QED BY <1>1, <2>1, <2>2
<1>4. Covered'
  BY <1>1, <1>2, <1>3, OthersSafe DEF Kept, Covered, Excuse
<1>5. at.step \notin {"backed", "placed", "undone", "aside", "seeded"}
  BY <1>1 DEF Kept, Handling
<1>6. Handling' /\ HandExcused'
  <2>1. at.step \notin {"cleared", "fresh", "adopted"} \/ at.id # id
    BY <1>1 DEF IInv, Held, Installable
  <2> QED BY <1>1, <1>2, <1>5, <2>1 DEF Kept, Handling, HandExcused, Readable, IInv, TypeOK, Idle
<1>7. Fetching' /\ Reseeded'
  BY <1>1 DEF Kept, Fetching, Reseeded
<1> QED BY <1>4, <1>6, <1>7 DEF Kept

(* The promotions.  What is in the handler's hands before and after needs no   *)
(* excuse; a handler that ends leaves a payload that reads, or an excuse.      *)
LEMMA PromotesKept ==
  ASSUME IInv, Traced, Kept, NEW id \in Ids,
         BackUp(id) \/ Promote(id) \/ Reject(id) \/ RollBack(id) \/ Admit(id)
  PROVE  Kept'
<1>1. /\ UNCHANGED <<journal, phase, op, removed>> /\ phase = "promote" /\ todo \ {id} \subseteq todo'
      /\ at = Idle \/ at.id = id
  <2>1. /\ UNCHANGED <<journal, phase, op, removed>> /\ phase = "promote" /\ todo \ {id} \subseteq todo'
    BY DEF BackUp, Promote, Reject, RollBack, Admit, Done
  <2>2. at = Idle \/ \E step \in {"backed", "placed", "undone"} : at = [id |-> id, step |-> step]
    BY DEF BackUp, Promote, Reject, RollBack, Admit, At
  <2> QED BY <2>1, <2>2
<1>2. /\ at' = Idle \/ UNCHANGED at \/ \E step \in {"backed", "placed", "undone"} : at' = [id |-> id, step |-> step]
      /\ at.step \in {"none", "backed", "placed", "undone"}
  <2>1. CASE BackUp(id)
    BY <2>1 DEF BackUp, Idle
  <2>2. CASE Promote(id)
    BY <2>2 DEF Promote, At
  <2>3. CASE Reject(id)
    BY <2>3 DEF Reject, At, Done
  <2>4. CASE RollBack(id)
    BY <2>4 DEF RollBack, At, Done
  <2>5. CASE Admit(id)
    BY <2>5 DEF Admit, At, Done
  <2> QED BY <2>1, <2>2, <2>3, <2>4, <2>5
<1>3. Handling'
  BY <1>1, <1>2 DEF Handling, Idle
<1>4. Fetching' /\ Reseeded'
  BY <1>1 DEF Kept, Fetching, Reseeded
<1>5. \A x \in Ids \ {id} : dir'[x] = dir[x] /\ backups'[x] = backups[x] /\ (Excuse(x) => Excuse(x)')
  <2>1. \A x \in Ids \ {id} : dir'[x] = dir[x] /\ backups'[x] = backups[x]
    BY DEF BackUp, Promote, Reject, RollBack, Admit, Restore, Tear, IInv, TypeOK
  <2>2. \A x \in Ids \ {id} : Excuse(x) => Excuse(x)'
    <3>1. CASE UNCHANGED excuses
      BY <1>1, <3>1 DEF Excuse
    <3>2. CASE \E reported \in BOOLEAN : Account(id, reported)
      BY <1>1, <3>2, Accounted DEF IInv
    <3> QED BY <3>1, <3>2 DEF BackUp, Promote, Reject, RollBack, Admit
  <2> QED BY <2>1, <2>2
<1>6. \A x \in Ids \ {id} : Safe(x)'
  BY <1>1, <1>5, OthersSafe DEF Kept
<1>7. Bundled[id] # NoBuild => Safe(id)'
  BY <1>1 DEF Safe, Awaited
<1>8. Safe(id)' /\ HandExcused'
  (* Before the handler: an excuse, unless the payload reads. *)
  <2>1. CASE BackUp(id)
    <3>1. at = Idle /\ UNCHANGED <<excuses>>
      BY <2>1 DEF BackUp
    <3>2. Readable(id) \/ Excused(id) \/ Awaited(id)
      BY <3>1, ExtensionAssumption DEF Kept, Covered, Safe, AtHand, Idle
    <3>3. CASE UNCHANGED <<dir, backups, at, backup>>
      <4>1. Safe(id)'
        BY <1>1, <3>1, <3>2, <3>3, <1>7 DEF Safe, Readable, Excused, Excuse, Awaited
      <4> QED BY <3>1, <3>3, <4>1 DEF HandExcused, Idle
    <3>4. CASE /\ at' = [id |-> id, step |-> "backed"] /\ backup' = dir[id]
               /\ dir' = [dir EXCEPT ![id] = NoBuild]
               /\ backups' = [backups EXCEPT ![id] = @ \cup ({dir[id]} \ {NoBuild})]
      <4>1. backups'[id] = backups[id] \cup ({dir[id]} \ {NoBuild})
        BY <3>4 DEF IInv, TypeOK
      <4>2. Excuse(id)' = Excuse(id)
        BY <1>1, <3>1 DEF Excuse
      <4>3. HandExcused'
        BY <3>2, <3>4, <4>1, <4>2 DEF HandExcused, Readable, Reads, Excused, Awaited
      <4>4. Safe(id)'
        <5>1. CASE dir[id] # NoBuild
          BY <3>4, <5>1 DEF Safe, AtHand
        <5>2. CASE dir[id] = NoBuild
          <6>1. ~Readable(id) /\ backups'[id] = backups[id]
            BY <4>1, <5>2, ExtensionAssumption DEF Readable
          <6> QED BY <1>7, <3>2, <4>2, <6>1 DEF Safe, Excused, Awaited
        <5> QED BY <5>1, <5>2
      <4> QED BY <4>3, <4>4
    <3> QED BY <2>1, <3>3, <3>4 DEF BackUp
  <2>2. CASE Promote(id)
    <3>1. at.id = id /\ at.step = "backed" /\ UNCHANGED <<backup, backups>>
      BY <2>2 DEF Promote, At
    <3>2. dir[id] = NoBuild
      BY <3>1 DEF Traced, Emptied
    <3>3. ~Readable(id)
      BY <3>2, ExtensionAssumption DEF Readable
    <3>4. \E step \in {"placed", "undone"} : at' = [id |-> id, step |-> step]
      BY <2>2 DEF Promote
    <3>5. ~Readable(id)' /\ Excuse(id) => Excuse(id)'
      <4>1. CASE UNCHANGED excuses
        BY <1>1, <4>1 DEF Excuse
      <4>2. CASE Account(id, FALSE)
        BY <1>1, <4>2, Accounted DEF IInv
      <4> QED BY <2>2, <4>1, <4>2 DEF Promote
    <3>6. HandExcused'
      BY <3>1, <3>3, <3>4, <3>5 DEF Kept, HandExcused, Reads, Readable
    <3>7. Safe(id)'
      <4>1. CASE backup # NoBuild
        BY <3>1, <3>4, <4>1 DEF Safe, AtHand
      <4>2. CASE backup = NoBuild
        <5>1. Excused(id) \/ Awaited(id)
          BY <3>3, <4>2 DEF Kept, Covered, Safe, AtHand
        <5> QED BY <1>7, <3>1, <3>5, <5>1 DEF Safe, Excused, Awaited
      <4> QED BY <4>1, <4>2
    <3> QED BY <3>6, <3>7
  <2>3. CASE Reject(id)
    <3>1. at.id = id /\ at.step = "placed" /\ UNCHANGED backups /\ dir[id] \in Broken
      BY <2>3 DEF Reject, At
    <3>2. ~Readable(id)
      BY <3>1 DEF Readable
    <3>3. dir'[id] \in {NoBuild, Torn, dir[id]}
      BY <2>3 DEF Reject, Tear, IInv, TypeOK
    <3>4. ~Readable(id)'
      BY <3>1, <3>3, ExtensionAssumption DEF Readable
    <3>5. CASE at' = [id |-> id, step |-> "undone"] /\ UNCHANGED <<backup, excuses>>
      <4>1. Excuse(id)' = Excuse(id)
        BY <1>1, <3>5 DEF Excuse
      <4>2. HandExcused'
        BY <3>1, <3>2, <3>5, <4>1 DEF Kept, HandExcused, Reads
      <4>3. Safe(id)'
        <5>1. CASE backup # NoBuild
          BY <3>5, <5>1 DEF Safe, AtHand
        <5>2. CASE backup = NoBuild
          <6>1. Excused(id) \/ Awaited(id)
            BY <3>2, <5>2 DEF Kept, Covered, Safe, AtHand
          <6> QED BY <1>7, <3>1, <4>1, <6>1 DEF Safe, Excused, Awaited
        <5> QED BY <5>1, <5>2
      <4> QED BY <4>2, <4>3
    <3>6. CASE Done(id) /\ Account(id, backup # NoBuild)
      <4>1. HandExcused'
        BY <3>6 DEF Done, HandExcused, Idle
      <4>2. Excuse(id) \/ backup # NoBuild => Excuse(id)'
        BY <1>1, <3>4, <3>6, Accounted DEF IInv
      <4>3. CASE backup # NoBuild
        BY <4>1, <4>2, <4>3 DEF Safe, Excused
      <4>4. CASE backup = NoBuild
        <5>1. Excused(id) \/ Awaited(id)
          BY <3>2, <4>4 DEF Kept, Covered, Safe, AtHand
        <5> QED BY <1>7, <3>1, <4>1, <4>2, <5>1 DEF Safe, Excused, Awaited
      <4> QED BY <4>3, <4>4
    <3> QED BY <2>3, <3>5, <3>6 DEF Reject
  <2>4. CASE RollBack(id)
    <3>1. at.id = id /\ at.step = "undone"
      BY <2>4 DEF RollBack, At
    <3>2. dir[id] = NoBuild
      BY <3>1 DEF Traced, Emptied
    <3>3. ~Readable(id)
      BY <3>2, ExtensionAssumption DEF Readable
    <3>4. HandExcused'
      BY <2>4 DEF RollBack, Done, HandExcused, Idle
    <3>5. CASE Restore(id) /\ Account(id, FALSE)
      <4>1. dir'[id] = backup /\ backups'[id] = backups[id] \ {backup}
        BY <3>5 DEF Restore, IInv, TypeOK
      <4>2. CASE Reads(backup)
        BY <3>4, <4>1, <4>2 DEF Safe, Readable, Reads
      <4>3. CASE ~Reads(backup)
        <5>1. ~Readable(id)'
          BY <4>1, <4>3 DEF Readable, Reads
        <5>2. Excuse(id) => Excuse(id)'
          BY <1>1, <3>5, <5>1, Accounted DEF IInv
        <5>3. Bundled[id] # NoBuild \/ backups[id] \subseteq {backup} \/ Excuse(id)
          BY <3>1, <3>3, <4>3 DEF Kept, HandExcused
        <5> QED BY <1>7, <3>4, <4>1, <5>2, <5>3 DEF Safe, Excused
      <4> QED BY <4>2, <4>3
    <3>6. CASE UNCHANGED <<dir, backups>> /\ Account(id, TRUE)
      <4>1. ~Readable(id)'
        BY <3>3, <3>6 DEF Readable
      <4>2. Excuse(id)'
        BY <1>1, <3>6, <4>1, Accounted DEF IInv
      <4> QED BY <3>4, <4>2 DEF Safe, Excused
    <3> QED BY <2>4, <3>5, <3>6 DEF RollBack
  <2>5. CASE Admit(id)
    <3>1. at.id = id /\ at.step = "placed" /\ at' = Idle /\ UNCHANGED dir /\ dir[id] \notin Broken
      BY <2>5 DEF Admit, At, Done
    <3>2. Readable(id)'
      BY <3>1 DEF IInv, Held, Whole, Readable
    <3> QED BY <3>1, <3>2 DEF Safe, HandExcused, Idle
  <2> QED BY <2>1, <2>2, <2>3, <2>4, <2>5
<1>9. Covered'
  BY <1>6, <1>8 DEF Covered
<1> QED BY <1>3, <1>4, <1>8, <1>9 DEF Kept

(* The seed: what it gives up on it reports. *)
LEMMA SeedsKept ==
  ASSUME IInv, Kept, NEW id \in Ids, SeedAside(id) \/ SeedPlace(id) \/ SeedDrop(id)
  PROVE  Kept'
<1>1. /\ UNCHANGED <<journal, phase, op, removed, backups>> /\ phase = "seed" /\ todo \ {id} \subseteq todo' /\ todo' \subseteq todo
      /\ at = Idle \/ at.id = id
  <2>1. /\ UNCHANGED <<journal, phase, op, removed, backups>> /\ phase = "seed" /\ todo \ {id} \subseteq todo'
        /\ todo' \subseteq todo
    BY DEF SeedAside, SeedPlace, SeedDrop, Done
  <2>2. at = Idle \/ \E step \in {"aside", "seeded"} : at = [id |-> id, step |-> step]
    BY DEF SeedAside, SeedPlace, SeedDrop, At
  <2> QED BY <2>1, <2>2
<1>2. id \in todo
  <2>1. id \in todo \/ \E step \in {"aside", "seeded"} : at = [id |-> id, step |-> step]
    BY DEF SeedAside, SeedPlace, SeedDrop, At
  <2>2. \A step \in {"aside", "seeded"} : at = [id |-> id, step |-> step] => id \in todo
    BY DEF Kept, Handling
  <2> QED BY <2>1, <2>2
<1>3. Bundled[id] \in Builds \ Broken
  BY <1>1, <1>2, ExtensionAssumption DEF Kept, Reseeded
<1>4. Fetching' /\ Reseeded'
  BY <1>1 DEF Kept, Fetching, Reseeded
<1>5. \A x \in Ids \ {id} : Safe(x)'
  <2>1. \A x \in Ids \ {id} : dir'[x] = dir[x] /\ backups'[x] = backups[x]
    BY <1>1 DEF SeedAside, SeedPlace, SeedDrop, IInv, TypeOK
  <2>2. \A x \in Ids \ {id} : Excuse(x) => Excuse(x)'
    <3>1. CASE UNCHANGED excuses
      BY <1>1, <3>1 DEF Excuse
    <3>2. CASE Account(id, TRUE)
      BY <1>1, <3>2, Accounted DEF IInv
    <3> QED BY <3>1, <3>2 DEF SeedAside, SeedPlace, SeedDrop
  <2> QED BY <1>1, <2>1, <2>2, OthersSafe DEF Kept
<1>6. CASE /\ at' = [id |-> id, step |-> "aside"] /\ todo' = todo
  <2>1. Safe(id)' /\ HandExcused' /\ Handling'
    BY <1>1, <1>2, <1>3, <1>6, ExtensionAssumption DEF Safe, Awaited, HandExcused, Handling
  <2> QED BY <1>4, <1>5, <2>1 DEF Kept, Covered
<1>7. CASE at' = [id |-> id, step |-> "seeded"] /\ dir' = [dir EXCEPT ![id] = Bundled[id]] /\ todo' = todo
  <2>1. Readable(id)'
    BY <1>3, <1>7 DEF Readable, IInv, TypeOK
  <2>2. Safe(id)' /\ HandExcused' /\ Handling'
    BY <1>1, <1>2, <1>7, <2>1 DEF Safe, HandExcused, Handling
  <2> QED BY <1>4, <1>5, <2>2 DEF Kept, Covered
<1>8. CASE at' = Idle /\ Account(id, TRUE)
  <2>1. Safe(id)'
    BY <1>1, <1>8, Accounted DEF IInv, Safe, Excused
  <2>2. HandExcused' /\ Handling'
    BY <1>8 DEF HandExcused, Handling, Idle
  <2> QED BY <1>4, <1>5, <2>1, <2>2 DEF Kept, Covered
<1>9. CASE SeedDrop(id)
  <2>1. Readable(id)' /\ at' = Idle
    BY <1>9 DEF SeedDrop, At, Done, Kept, Handling, Readable
  <2>2. Safe(id)' /\ HandExcused' /\ Handling'
    BY <2>1 DEF Safe, HandExcused, Handling, Idle
  <2> QED BY <1>4, <1>5, <2>2 DEF Kept, Covered
<1> QED BY <1>6, <1>7, <1>8, <1>9 DEF SeedAside, SeedPlace, Done

(* The session.  A fresh install takes the place of nothing that reads. *)
LEMMA InstallsKept ==
  ASSUME IInv, Kept,
         \/ ClearPlace \/ FinishFresh
         \/ \E id \in Ids : Discard(id) \/ Register(id) \/ Enable(id)
  PROVE  Kept'
<1>1. UNCHANGED <<backups, backup, journal, phase, todo>> /\ phase = "running"
  BY DEF ClearPlace, FinishFresh, EndsFresh, Discard, Register, Enable
<1>2. Reseeded'
  BY <1>1 DEF Kept, Reseeded
<1>3. CASE ClearPlace \/ FinishFresh
  <2>1. /\ op # NoOp /\ UNCHANGED removed
        /\ op.kind = "fresh" \/ (Installed(op.id) = NoBuild /\ journal[op.id] = "none")
        /\ at = Idle \/ (at.id = op.id /\ at.step = "cleared")
    <3>1. /\ op # NoOp /\ UNCHANGED removed
          /\ op.kind = "fresh" \/ (Installed(op.id) = NoBuild /\ journal[op.id] = "none")
      BY <1>3 DEF ClearPlace, FinishFresh, EndsFresh
    <3>2. at = Idle \/ at = [id |-> op.id, step |-> "cleared"]
      BY <1>3 DEF ClearPlace, FinishFresh, At
    <3> QED BY <3>1, <3>2
  <2>2. PICK id \in Ids : op.id = id
    BY <2>1 DEF IInv, TypeOK
  <2>3. ~Readable(id)
    <3>1. at.step = "none" \/ ~Readable(id)
      BY <2>1, <2>2 DEF Kept, Handling, Idle
    <3>2. at.step \notin {"fresh", "adopted"}
      BY <2>1 DEF Idle
    <3>3. CASE op.kind = "fresh"
      BY <2>1, <2>2, <3>2, <3>3 DEF Kept, Fetching
    <3>4. CASE Installed(id) = NoBuild /\ journal[id] = "none"
      BY <3>4, ExtensionAssumption DEF Installed, Readable
    <3> QED BY <2>1, <2>2, <3>3, <3>4
  <2>4. Excused(id)
    <3>1. Safe(id)
      BY <2>2 DEF Kept, Covered
    <3>2. at.step \in {"none", "cleared"}
      BY <2>1 DEF Idle
    <3> QED BY <1>1, <2>3, <3>1, <3>2 DEF Safe, AtHand, Awaited
  <2>5. \A x \in Ids \ {id} : dir'[x] = dir[x] /\ backups'[x] = backups[x]
    BY <1>1, <1>3, <2>2 DEF ClearPlace, FinishFresh, Tear, IInv, TypeOK
  <2>6. /\ \A x \in Ids \ {id} : Excuse(x) => Excuse(x)'
        /\ ~Readable(id)' /\ Excuse(id) => Excuse(id)'
    <3>1. CASE UNCHANGED excuses
      BY <2>1, <3>1 DEF Excuse
    <3>2. CASE Account(id, FALSE)
      BY <2>1, <3>2, Accounted DEF IInv
    <3> QED BY <1>3, <2>2, <3>1, <3>2 DEF ClearPlace, FinishFresh
  <2>7. \A x \in Ids \ {id} : Safe(x)'
    BY <1>1, <2>1, <2>2, <2>5, <2>6, OthersSafe DEF Kept
  <2>8. Safe(id)'
    BY <1>1, <2>4, <2>6 DEF Safe, Excused
  <2>9. \/ at' = Idle /\ op' = NoOp
        \/ at' = [id |-> id, step |-> "cleared"] /\ op' = op /\ dir' = [dir EXCEPT ![id] = NoBuild]
        \/ at' = [id |-> id, step |-> "fresh"] /\ op' = op
    BY <1>3, <2>2 DEF ClearPlace, FinishFresh
  <2>10. HandExcused'
    BY <2>9 DEF HandExcused, Idle
  <2>11. CASE at' = [id |-> id, step |-> "cleared"] /\ op' = op /\ dir' = [dir EXCEPT ![id] = NoBuild]
    <3>1. ~Readable(id)'
      BY <2>11, ExtensionAssumption DEF Readable, IInv, TypeOK
    <3> QED BY <1>1, <1>2, <2>2, <2>7, <2>8, <2>10, <2>11, <3>1 DEF Kept, Covered, Handling, Fetching
  <2>12. CASE at' = Idle /\ op' = NoOp
    BY <1>2, <2>7, <2>8, <2>10, <2>12 DEF Kept, Covered, Handling, Fetching, Idle
  <2>13. CASE at' = [id |-> id, step |-> "fresh"] /\ op' = op
    BY <1>1, <1>2, <2>7, <2>8, <2>10, <2>13 DEF Kept, Covered, Handling, Fetching
  <2> QED BY <2>9, <2>11, <2>12, <2>13
<1>4. CASE \E id \in Ids : Discard(id) \/ Register(id) \/ Enable(id)
  <2>1. PICK id \in Ids : Discard(id) \/ Register(id) \/ Enable(id)
    BY <1>4
  <2>2. /\ at.id = id /\ at.step \in {"fresh", "adopted"} /\ UNCHANGED excuses
        /\ \A x \in Ids \ {id} : dir'[x] = dir[x] /\ (Excuse(x) => Excuse(x)')
    BY <2>1 DEF Discard, Register, Enable, At, Tear, Excuse, IInv, TypeOK
  <2>3. \A x \in Ids \ {id} : Safe(x)'
    BY <1>1, <2>2, OthersSafe DEF Kept
  <2>4. at' = Idle \/ (at' = [id |-> id, step |-> "adopted"] /\ op' = op /\ Readable(id)')
    <3>1. CASE Register(id)
      BY <2>2, <3>1 DEF Register, At, IInv, Held, Whole, Readable
    <3> QED BY <2>1, <3>1 DEF Discard, Enable
  <2>5. HandExcused' /\ Handling'
    BY <2>4 DEF HandExcused, Handling, Idle
  <2>6. Fetching'
    <3>1. op' = NoOp \/ at' = [id |-> id, step |-> "adopted"]
      BY <2>1 DEF Discard, Register, Enable
    <3> QED BY <1>1, <2>4, <3>1 DEF Kept, Fetching
  <2>7. Safe(id)'
    <3>1. CASE Discard(id)
      <4>1. ~Readable(id) /\ UNCHANGED removed
        BY <3>1 DEF Discard, Readable
      <4>2. Excused(id)
        BY <1>1, <2>2, <4>1 DEF Kept, Covered, Safe, AtHand, Awaited
      <4> QED BY <1>1, <2>2, <4>1, <4>2 DEF Safe, Excused, Excuse
    <3>2. CASE Enable(id)
      <4>1. Readable(id)'
        BY <3>2 DEF Enable, At, Kept, Handling, Readable
      <4> QED BY <4>1 DEF Safe
    <3>3. CASE Register(id)
      BY <2>4, <3>3 DEF Register, Safe, Idle
    <3> QED BY <2>1, <3>1, <3>2, <3>3
  <2> QED BY <1>2, <2>3, <2>5, <2>6, <2>7 DEF Kept, Covered
<1> QED BY <1>3, <1>4

LEMMA SessionKept ==
  ASSUME IInv, Kept,
         \/ \E id \in Ids, build \in Builds : StartInstall(id, build) \/ StartUpdate(id, build) \/ StartLocal(id, build)
         \/ \E id \in Ids : Silence(id) \/ Downgrade(id) \/ SetEnabled(id) \/ RecordRemoval(id)
         \/ GiveUp \/ FinishStaged
  PROVE  Kept'
<1>1. UNCHANGED <<dir, backups, backup, phase, todo, excuses>> /\ phase = "running"
  BY DEF StartInstall, StartUpdate, StartLocal, Fetch, Asked, Silence, Downgrade, SetEnabled, RecordRemoval,
         GiveUp, FinishStaged, disk
<1>2. at.step \in {"none", "silent", "silenced"} /\ at'.step \in {"none", "silent", "silenced"}
  <2>1. CASE \E id \in Ids : RecordRemoval(id)
    BY <2>1 DEF RecordRemoval, At, Idle
  <2>2. CASE \E id \in Ids : Silence(id)
    BY <2>2 DEF Silence, Asked, Idle
  <2>3. CASE at = Idle /\ at' = at
    BY <2>3 DEF Idle
  <2> QED BY <2>1, <2>2, <2>3
       DEF StartInstall, StartUpdate, StartLocal, Fetch, Asked, Downgrade, SetEnabled, GiveUp, FinishStaged
<1>3. \A x \in Ids : Excuse(x) => Excuse(x)' \/ Readable(x)
  <2>1. CASE \E id \in Ids : SetEnabled(id)
    BY <1>1, <2>1, ExtensionAssumption DEF SetEnabled, Installed, Excuse
  <2>2. CASE removed \subseteq removed'
    BY <1>1, <2>2 DEF Excuse
  <2> QED BY <2>1, <2>2 DEF StartInstall, StartUpdate, StartLocal, Fetch, Silence, Downgrade, RecordRemoval,
                            GiveUp, FinishStaged
<1>4. Covered'
  <2> SUFFICES ASSUME NEW x \in Ids PROVE Safe(x)'
    BY DEF Covered
  <2>1. Readable(x) \/ Excused(x)
    BY <1>1, <1>2 DEF Kept, Covered, Safe, AtHand, Awaited
  <2> QED BY <1>1, <1>3, <2>1 DEF Safe, Readable, Excused
<1>5. HandExcused' /\ Handling'
  BY <1>2 DEF HandExcused, Handling
<1>6. Fetching'
  <2>1. \/ op' = op \/ op' = NoOp
        \/ \E id \in Ids, build \in Builds, kind \in {"fresh", "update", "local"} :
             /\ op' = [kind |-> kind, id |-> id, build |-> build]
             /\ kind = "fresh" => Installed(id) = NoBuild /\ journal[id] = "none"
    BY DEF StartInstall, StartUpdate, StartLocal, Fetch, NeedsRestart, Silence, Downgrade, SetEnabled, RecordRemoval,
           GiveUp, FinishStaged
  <2>2. CASE op' = op \/ op' = NoOp
    BY <1>1, <1>2, <2>2 DEF Kept, Fetching, Readable
  <2>3. ASSUME NEW id \in Ids, NEW build \in Builds, NEW kind \in {"fresh", "update", "local"},
               op' = [kind |-> kind, id |-> id, build |-> build],
               kind = "fresh" => Installed(id) = NoBuild /\ journal[id] = "none"
        PROVE  Fetching'
    <3>1. kind = "fresh" => ~Readable(id)
      BY <2>3, ExtensionAssumption DEF Installed, Readable
    <3> QED BY <1>1, <2>3, <3>1 DEF Fetching, Readable
  <2> QED BY <2>1, <2>2, <2>3
<1>7. Reseeded'
  <2>1. \A x \in Ids : journal'[x] = "downgrade" => journal[x] = "downgrade" \/ Bundled[x] # NoBuild
    BY DEF StartInstall, StartUpdate, StartLocal, Fetch, Silence, Downgrade, SetEnabled, RecordRemoval,
           GiveUp, FinishStaged, disk, IInv, TypeOK
  <2> QED BY <1>1, <2>1 DEF Kept, Reseeded
<1> QED BY <1>4, <1>5, <1>6, <1>7 DEF Kept

(* A crash takes a handler's hands away, and is the excuse for what was in them. *)
LEMMA LeavesKept ==
  ASSUME IInv, Kept, Quit \/ Crash
  PROVE  Kept'
<1>1. /\ phase' = "off" /\ at' = Idle /\ op' = NoOp
      /\ UNCHANGED <<dir, backups, removed, told, journal>> /\ cut \subseteq cut'
  BY DEF Quit, Crash, Gone, disk
<1>2. HandExcused' /\ Handling' /\ Fetching' /\ Reseeded'
  BY <1>1 DEF HandExcused, Handling, Fetching, Kept, Reseeded, Idle
<1>3. Covered'
  <2> SUFFICES ASSUME NEW x \in Ids PROVE Safe(x)'
    BY DEF Covered
  <2>1. CASE Bundled[x] # NoBuild
    BY <1>1, <2>1 DEF Safe, Awaited
  <2>2. CASE AtHand(x) /\ ~Readable(x)
    <3>1. ~Quit
      BY <2>2 DEF AtHand, Quit, Idle
    <3>2. x \in cut'
      BY <2>2, <3>1 DEF AtHand, Crash
    <3> QED BY <3>2 DEF Safe, Excused, Excuse
  <2>3. CASE Readable(x) \/ Excused(x)
    BY <1>1, <2>3 DEF Safe, Readable, Excused, Excuse
  <2>4. Readable(x) \/ Excused(x) \/ AtHand(x) \/ Awaited(x)
    BY DEF Kept, Covered, Safe
  <2> QED BY <2>1, <2>2, <2>3, <2>4 DEF Awaited
<1> QED BY <1>2, <1>3 DEF Kept

LEMMA StepsKept == IInv /\ Traced /\ Kept /\ [Next]_vars => Kept'
<1> SUFFICES ASSUME IInv, Traced, Kept, [Next]_vars PROVE Kept'
  OBVIOUS
<1>1. CASE StartUp
  BY <1>1, PassesKept, DrainsKept, PromotesKept, SeedsKept DEF StartUp
<1>2. CASE UserStep
  BY <1>2, SessionKept DEF UserStep
<1>3. CASE FinishStep
  BY <1>3, SessionKept, InstallsKept DEF FinishStep
<1>4. CASE Quit \/ Crash
  BY <1>4, LeavesKept
<1>5. CASE UNCHANGED vars
  <2>1. UNCHANGED <<dir, backups, journal, phase, todo, at, backup, op, removed, cut, told>>
    BY <1>5 DEF vars, disk
  <2>2. Handling' /\ Fetching' /\ Reseeded'
    BY <2>1 DEF Kept, Handling, Fetching, Reseeded, Readable
  <2>3. \A id \in Ids : Awaited(id) => Awaited(id)'
    BY <2>1 DEF Awaited
  <2> QED BY <2>1, <2>2, <2>3, Resting
<1> QED BY <1>1, <1>2, <1>3, <1>4, <1>5 DEF Next

(* However often the process crashes and whichever file operations and writes  *)
(* fail, the deletions included: an extension with a copy in the backup area,  *)
(* or one that ships with the application, has a payload that reads in its     *)
(* directory in every session, unless the user had it removed, a crash cut its *)
(* promotion, or a failure was reported that names the backup or the seed.     *)
THEOREM NobodyLeftWithout == Spec => []NeverLeftWithout
<1>1. IInv /\ Kept => NeverLeftWithout
  <2> SUFFICES ASSUME IInv, Kept, NEW id \in Ids, phase = "running", ~Readable(id),
                      backups[id] # {} \/ Bundled[id] # NoBuild
               PROVE  id \in removed \cup cut \cup told
    BY DEF NeverLeftWithout
  <2>1. ~AtHand(id) /\ ~Awaited(id)
    BY DEF Kept, Handling, AtHand, Awaited
  <2> QED BY <2>1 DEF Kept, Covered, Safe, Excused, Excuse
<1>2. IInv /\ Traced /\ Kept /\ [Next]_vars => (IInv /\ Traced /\ Kept)'
  BY Steps, StepsTraced, StepsKept
<1> QED BY Initially, TracedInitially, KeptInitially, <1>1, <1>2, PTL DEF Spec

===============================================================================
