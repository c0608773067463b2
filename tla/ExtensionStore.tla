--------------------------- MODULE ExtensionStore ---------------------------
(***************************************************************************)
(* The extensions on disk and the process that manages them: installs,     *)
(* staged updates, the removal journal, the shadow copies of the content   *)
(* store and the seed of the bundled plugins (ExtensionManager,            *)
(* ExtensionCatalogService).                                               *)
(*                                                                         *)
(* The manager runs on the GUI thread, so what interleaves is the user,    *)
(* the one download in flight, and above all the crash, which may come     *)
(* between any two file operations of one handler.  Each rename is an      *)
(* action; `at' says which extension a handler is between two of them for. *)
(* A fault is a file operation, or a write of the settings, that fails; a  *)
(* crash in the midst of a recursive deletion leaves what a failed one     *)
(* leaves.  Left out: the session without the writer lease (it changes     *)
(* nothing), directories whose name is not their id, the markers of older  *)
(* builds, records that fail validation.                                   *)
(***************************************************************************)
EXTENDS Integers, FiniteSets

CONSTANTS
  Ids,          (* extensions                                              *)
  Builds,       (* payloads: two are equal when their bytes are            *)
  Version,      (* the version each build declares                         *)
  Broken,       (* builds that pass the check in the transaction directory *)
                (* and in which no plugin is found at their final place    *)
  Bundled,      (* per id: the build that ships with the application       *)
  NoBuild,      (* no payload                                              *)
  Torn,         (* a payload a failed deletion has left half of            *)
  NoId, NoOp,   (* nothing under way                                       *)
  MaxOps,       (* bound: requests of the user                             *)
  MaxCrashes,   (* bound: crashes                                          *)
  MaxFaults     (* bound: file operations that fail                        *)

ASSUME ExtensionAssumption ==
  /\ Version \in [Builds -> Nat]
  /\ Broken \subseteq Builds
  /\ Bundled \in [Ids -> (Builds \ Broken) \cup {NoBuild}]
  /\ NoBuild \notin Builds /\ Torn \notin Builds /\ Torn # NoBuild
  /\ NoId \notin Ids
  /\ {MaxOps, MaxCrashes, MaxFaults} \subseteq Nat

VARIABLES
  dir,          (* extensions/<id>, which the loader scans                 *)
  stage,        (* pending_dir_/<id>, an update that waits for a restart   *)
  backups,      (* the builds moved to the backup directory                *)
  journal,      (* extensions.state/<id>.json: the removal recorded        *)
  disabled,     (* the ids of the disabled list in the settings            *)
  profile,      (* the loaded profile on disk: the object backing each id  *)
  objects,      (* the objects of the content store, per id                *)
  phase,        (* where the process is; "off" when there is none          *)
  todo,         (* ids the running start-up pass has still to visit        *)
  at,           (* the handler between two file operations, and its id     *)
  backup,       (* what that handler moved aside (pending_backup_path_)    *)
  digests,      (* loaded_digests_                                         *)
  op,           (* the install in flight (pending_id_, pending_op_id_)     *)
  behind,       (* history: ids whose profile entry a crash or a failed    *)
                (* write has kept behind their directory                   *)
  removed,      (* history: ids the user had removed and not back since    *)
  cut,          (* history: ids a crash in their promotion left without    *)
  told,         (* history: ids a failure report left the user without: it *)
                (* names the backup, or says that the seed failed          *)
  ops, crashes, faults   (* how many so far                                *)

disk == <<dir, stage, backups, journal, disabled, profile, objects>>
excuses == <<cut, told>>
history == <<behind, removed, excuses>>
vars == <<disk, phase, todo, at, backup, digests, op, history, ops, crashes, faults>>

Payloads == Builds \cup {NoBuild}
Idle == [id |-> NoId, step |-> "none"]
At(id, step) == at = [id |-> id, step |-> step]

(* What refreshInstalledFromDisk lists: what it can read a plugin from and no *)
(* record claims.                                                             *)
Readable(id) == dir[id] \in Builds \ Broken
Installed(id) == IF Readable(id) /\ journal[id] = "none" THEN dir[id] ELSE NoBuild

(* managedPluginDirs, with the loader's disabled list: what a scan loads.  *)
Loads(id) ==
  IF dir[id] = NoBuild \/ id \in disabled THEN NoBuild
  ELSE IF digests[id] \in objects[id] THEN digests[id] ELSE dir[id]

Faults(n) == faults + n <= MaxFaults /\ faults' = faults + n
Fault == Faults(1)

(* persistLoadedProfile: a write that fails is only reported. *)
Persist(d) ==
  \/ profile' = d /\ faults' = faults
  \/ Fault /\ profile' = profile

(* writeDisabledState: one that fails leaves the list as it was, and is only *)
(* reported.                                                                 *)
WriteDisabled(d) ==
  \/ disabled' = d /\ faults' = faults
  \/ Fault /\ disabled # d /\ disabled' = disabled

(* A recursive deletion that fails leaves the payload, or part of it. *)
Tear(id) == Fault /\ \E left \in {dir[id], Torn} : dir' = [dir EXCEPT ![id] = left]

(* History: an id that reads again needs no excuse, and a failure whose       *)
(* report says where the previous version is, or that the seed failed, is one. *)
Account(id, reported) ==
  LET reads == dir'[id] \in Builds \ Broken IN
  /\ cut' = IF reads THEN cut \ {id} ELSE cut
  /\ told' = IF reads THEN told \ {id} ELSE IF reported THEN told \cup {id} ELSE told

(* The ids a profile write that did not happen leaves behind. *)
Missed(d) == {id \in Ids : profile' # d /\ d[id] # profile'[id]}

Init ==
  /\ dir = [id \in Ids |-> Bundled[id]]
  /\ stage = [id \in Ids |-> NoBuild]
  /\ backups = [id \in Ids |-> {}]
  /\ journal = [id \in Ids |-> "none"]
  /\ disabled = {}
  /\ profile = [id \in Ids |-> NoBuild]
  /\ objects = [id \in Ids |-> {}]
  /\ phase = "running" /\ todo = {} /\ at = Idle /\ backup = NoBuild
  /\ digests = profile
  /\ op = NoOp
  /\ behind = {} /\ removed = {} /\ cut = {} /\ told = {}
  /\ ops = 0 /\ crashes = 0 /\ faults = 0

-----------------------------------------------------------------------------
(* initComponents, first part: the profile is read and the drain begins. *)
Start ==
  /\ phase = "off"
  /\ phase' = "drain"
  /\ todo' = {id \in Ids : journal[id] # "none"}
  /\ digests' = profile
  /\ UNCHANGED <<disk, at, backup, op, history, ops, crashes, faults>>

(* applyPendingUninstalls deletes a payload, or part of it. *)
DeletePayload(id) ==
  /\ phase = "drain" /\ id \in todo /\ dir[id] # NoBuild
  /\ \/ dir' = [dir EXCEPT ![id] = NoBuild] /\ UNCHANGED <<todo, faults>>
     \/ Tear(id) /\ todo' = todo \ {id}
  /\ UNCHANGED <<stage, backups, journal, disabled, profile, objects, phase, at, backup,
                 digests, op, history, ops, crashes>>

(* Mutant: a directory that is gone counts as one that could not be removed. *)
RetireRecordNever(id) ==
  /\ phase = "drain" /\ id \in todo /\ dir[id] = NoBuild
  /\ todo' = todo \ {id}
  /\ UNCHANGED <<disk, phase, at, backup, digests, op, history, ops, crashes, faults>>

(* Its path gone, the record is retired, or cannot be removed and stays for  *)
(* the next start; the disabled entry stays.                                 *)
RetireRecord(id) ==
  /\ phase = "drain" /\ id \in todo /\ dir[id] = NoBuild
  /\ \/ journal' = [journal EXCEPT ![id] = "none"] /\ UNCHANGED faults
     \/ Fault /\ UNCHANGED journal
  /\ todo' = todo \ {id}
  /\ UNCHANGED <<dir, stage, backups, disabled, profile, objects, phase, at, backup,
                 digests, op, history, ops, crashes>>

BeginPromotions ==
  /\ phase = "drain" /\ todo = {}
  /\ phase' = "promote"
  /\ todo' = {id \in Ids : stage[id] # NoBuild}
  /\ UNCHANGED <<disk, at, backup, digests, op, history, ops, crashes, faults>>

-----------------------------------------------------------------------------
(* applyPendingInstalls, one staged directory: the installed one is moved to *)
(* the backup area; a move that fails leaves the stage for the next start.   *)
BackUp(id) ==
  /\ phase = "promote" /\ id \in todo /\ at = Idle
  /\ \/ /\ at' = [id |-> id, step |-> "backed"]
        /\ backup' = dir[id]
        /\ dir' = [dir EXCEPT ![id] = NoBuild]
        /\ backups' = [backups EXCEPT ![id] = @ \cup ({dir[id]} \ {NoBuild})]
        /\ UNCHANGED <<todo, faults>>
     \/ /\ Fault /\ dir[id] # NoBuild
        /\ todo' = todo \ {id}
        /\ UNCHANGED <<dir, backups, at, backup>>
  /\ UNCHANGED <<stage, journal, disabled, profile, objects, phase, digests, op, history,
                 ops, crashes>>

(* Mutant: the handler leaves what it moved aside where it is. *)
RestoreNothing(id) ==
  /\ dir' = [dir EXCEPT ![id] = NoBuild]
  /\ UNCHANGED backups

(* The rollback both failures below share: what was moved aside comes back. *)
Restore(id) ==
  /\ dir' = [dir EXCEPT ![id] = backup]
  /\ backups' = [backups EXCEPT ![id] = @ \ {backup}]

Done(id) == at' = Idle /\ backup' = NoBuild /\ todo' = todo \ {id}

(* The promoting rename; one that fails is to be undone. *)
Promote(id) ==
  /\ phase = "promote" /\ At(id, "backed")
  /\ \/ /\ dir' = [dir EXCEPT ![id] = stage[id]]
        /\ stage' = [stage EXCEPT ![id] = NoBuild]
        /\ at' = [id |-> id, step |-> "placed"]
        /\ Account(id, FALSE)
        /\ UNCHANGED faults
     \/ /\ Fault
        /\ at' = [id |-> id, step |-> "undone"]
        /\ UNCHANGED <<dir, stage, excuses>>
  /\ UNCHANGED <<backups, journal, disabled, profile, objects, phase, todo, backup, digests, op,
                 behind, removed, ops, crashes>>

(* The promoted payload fails its check and is dropped, or cannot be: then   *)
(* the backup has no place to come back to, and the report says where it is. *)
Reject(id) ==
  /\ phase = "promote" /\ At(id, "placed") /\ dir[id] \in Broken
  /\ \/ /\ dir' = [dir EXCEPT ![id] = NoBuild]
        /\ at' = [id |-> id, step |-> "undone"]
        /\ UNCHANGED <<todo, backup, excuses, faults>>
     \/ Tear(id) /\ Done(id) /\ Account(id, backup # NoBuild)
  /\ UNCHANGED <<stage, backups, journal, disabled, profile, objects, phase, digests, op,
                 behind, removed, ops, crashes>>

(* The restoring rename; one that fails leaves the previous version in the   *)
(* backup area, and the report says so.                                      *)
RollBack(id) ==
  /\ phase = "promote" /\ At(id, "undone")
  /\ \/ Restore(id) /\ Account(id, FALSE) /\ UNCHANGED faults
     \/ Fault /\ backup # NoBuild /\ UNCHANGED <<dir, backups>> /\ Account(id, TRUE)
  /\ Done(id)
  /\ UNCHANGED <<stage, journal, disabled, profile, objects, phase, digests, op, behind, removed,
                 ops, crashes>>

(* shadowAdoptIntoStore: the payload is adopted, or refused and its mapping *)
(* dropped, and the profile is written when the map changed.                *)
ShadowAdopt(id, refused) ==
  LET mapped == [digests EXCEPT ![id] = IF refused THEN NoBuild ELSE dir[id]] IN
  /\ digests' = mapped
  /\ objects' = [objects EXCEPT ![id] = IF refused THEN @ ELSE @ \cup {dir[id]}]
  /\ IF refused /\ digests[id] = NoBuild THEN UNCHANGED <<profile, faults>> ELSE Persist(mapped)
  /\ behind' = (behind \ {id}) \cup Missed(mapped)

(* registerInstalledExtension for a promoted update: the choice to disable *)
(* stands.                                                                 *)
Admit(id) ==
  /\ phase = "promote" /\ At(id, "placed") /\ dir[id] \notin Broken
  /\ \E refused \in BOOLEAN : ShadowAdopt(id, refused)
  /\ Done(id)
  /\ UNCHANGED <<dir, stage, backups, journal, disabled, phase, op, removed, excuses, ops, crashes>>

(* reconcileStore after the passes: mappings without a directory go, then   *)
(* the objects nothing maps, unless the profile is empty beside live ones.  *)
Settle ==
  /\ phase = "promote" /\ todo = {} /\ at = Idle
  /\ phase' = "seed"
  /\ todo' = {id \in Ids : Bundled[id] # NoBuild}
  /\ LET mapped == [id \in Ids |-> IF dir[id] = NoBuild THEN NoBuild ELSE digests[id]]
         unread == (\A id \in Ids : mapped[id] = NoBuild) /\ (\E id \in Ids : Installed(id) # NoBuild)
     IN /\ digests' = mapped
        /\ IF mapped = digests THEN UNCHANGED <<profile, faults>> ELSE Persist(mapped)
        /\ behind' = behind \cup Missed(mapped)
        /\ objects' = IF unread THEN objects ELSE [id \in Ids |-> objects[id] \cap {mapped[id]}]
  /\ UNCHANGED <<dir, stage, backups, journal, disabled, at, backup, op, removed, excuses, ops, crashes>>

-----------------------------------------------------------------------------
(* seedBundledPlugins: absent, unreadable, older and unloadable copies are   *)
(* refreshed.                                                                *)
Outdated(id) ==
  dir[id] \in Builds \ Broken => Version[dir[id]] < Version[Bundled[id]]

SkipSeed(id) ==
  /\ phase = "seed" /\ id \in todo /\ at = Idle /\ ~Outdated(id)
  /\ todo' = todo \ {id}
  /\ UNCHANGED <<disk, phase, at, backup, digests, op, history, ops, crashes, faults>>

(* promoteStaged, first rename: the old copy goes to the staging area, which *)
(* the next start clears.                                                    *)
SeedAside(id) ==
  /\ phase = "seed" /\ id \in todo /\ at = Idle /\ Outdated(id)
  /\ \/ /\ at' = [id |-> id, step |-> "aside"]
        /\ backup' = dir[id]
        /\ dir' = [dir EXCEPT ![id] = NoBuild]
        /\ UNCHANGED <<todo, excuses, faults>>
     \/ /\ Fault
        /\ todo' = todo \ {id}
        /\ UNCHANGED <<at, backup, dir>>
        /\ Account(id, TRUE)
  /\ UNCHANGED <<stage, backups, journal, disabled, profile, objects, phase, digests, op,
                 behind, removed, ops, crashes>>

(* Second rename; one that fails puts the old copy back, or fails at that too. *)
SeedPlace(id) ==
  /\ phase = "seed" /\ At(id, "aside")
  /\ \/ /\ dir' = [dir EXCEPT ![id] = Bundled[id]]
        /\ at' = [id |-> id, step |-> "seeded"]
        /\ UNCHANGED <<todo, backup, faults>>
     \/ Fault /\ dir' = [dir EXCEPT ![id] = backup] /\ Done(id)
     \/ Faults(2) /\ backup # NoBuild /\ UNCHANGED dir /\ Done(id)
  /\ Account(id, TRUE)
  /\ UNCHANGED <<stage, backups, journal, disabled, profile, objects, phase, digests, op,
                 behind, removed, ops, crashes>>

(* Mutant: the seed leaves the mapping. *)
SeedDropNothing(id) ==
  /\ phase = "seed" /\ At(id, "seeded")
  /\ Done(id)
  /\ UNCHANGED <<disk, phase, digests, op, history, ops, crashes, faults>>

(* dropStoreMapping, when there is one. *)
SeedDrop(id) ==
  LET mapped == [digests EXCEPT ![id] = NoBuild] IN
  /\ phase = "seed" /\ At(id, "seeded")
  /\ digests' = mapped
  /\ IF digests[id] = NoBuild THEN UNCHANGED <<profile, faults>> ELSE Persist(mapped)
  /\ behind' = IF digests[id] = NoBuild THEN behind ELSE (behind \ {id}) \cup Missed(mapped)
  /\ Done(id)
  /\ UNCHANGED <<dir, stage, backups, journal, disabled, objects, phase, op, removed, excuses,
                 ops, crashes>>

(* The plugins are scanned and the session begins. *)
Run ==
  /\ phase = "seed" /\ todo = {} /\ at = Idle
  /\ phase' = "running"
  /\ UNCHANGED <<disk, todo, at, backup, digests, op, history, ops, crashes, faults>>

-----------------------------------------------------------------------------
(* What the window calls "Needs Restart". *)
NeedsRestart(id) == stage[id] # NoBuild \/ journal[id] # "none"

(* The window offers nothing else for an id it is installing. *)
Installing(id) == op # NoOp /\ op.kind # "local" /\ op.id = id

Asked == phase = "running" /\ at = Idle /\ ops < MaxOps /\ ops' = ops + 1

Fetch(kind, id, build) ==
  /\ op = NoOp
  /\ op' = [kind |-> kind, id |-> id, build |-> build]
  /\ UNCHANGED <<disk, phase, todo, at, backup, digests, history, crashes, faults>>

(* install and update up to the download, with the window's own conditions. *)
StartInstall(id, build) ==
  /\ Asked
  /\ Installed(id) = NoBuild /\ ~NeedsRestart(id)
  /\ Fetch("fresh", id, build)

StartUpdate(id, build) ==
  /\ Asked
  /\ Installed(id) # NoBuild /\ ~NeedsRestart(id)
  /\ Version[Installed(id)] < Version[build]
  /\ Fetch("update", id, build)

(* installFromLocalZip: which id the archive holds is known at its end only. *)
StartLocal(id, build) == Asked /\ Fetch("local", id, build)

(* A download that fails, is cancelled, is refused by a check or by the     *)
(* user, or holds what is installed already.                                *)
GiveUp ==
  /\ phase = "running" /\ at = Idle /\ op # NoOp
  /\ op' = NoOp
  /\ UNCHANGED <<disk, phase, todo, at, backup, digests, history, ops, crashes, faults>>

(* The download of an update, or of an archive whose id is installed, ends: *)
(* it takes the place of what was staged.                                   *)
FinishStaged ==
  /\ phase = "running" /\ at = Idle /\ op # NoOp
  /\ \/ op.kind = "update"
     \/ op.kind = "local" /\ Installed(op.id) # NoBuild
                          /\ (stage[op.id] # NoBuild \/ Installed(op.id) # op.build)
  /\ stage' = [stage EXCEPT ![op.id] = op.build]
  /\ op' = NoOp
  /\ UNCHANGED <<dir, backups, journal, disabled, profile, objects, phase, todo, at, backup,
                 digests, history, ops, crashes, faults>>

(* The download of a fresh install ends.  An archive of an id with a staged  *)
(* removal is refused (GiveUp).                                              *)
EndsFresh ==
  /\ phase = "running" /\ op # NoOp
  /\ \/ op.kind = "fresh"
     \/ op.kind = "local" /\ Installed(op.id) = NoBuild /\ journal[op.id] = "none"

(* What lies at its place is removed, or the install fails. *)
ClearPlace ==
  /\ EndsFresh /\ at = Idle /\ dir[op.id] # NoBuild
  /\ \/ /\ dir' = [dir EXCEPT ![op.id] = NoBuild]
        /\ at' = [id |-> op.id, step |-> "cleared"]
        /\ UNCHANGED <<op, faults>>
     \/ Tear(op.id) /\ op' = NoOp /\ UNCHANGED at
  /\ UNCHANGED <<stage, backups, journal, disabled, profile, objects, phase, todo, backup,
                 digests, history, ops, crashes>>

(* The payload is renamed to its place, or the install fails. *)
FinishFresh ==
  /\ EndsFresh
  /\ (at = Idle /\ dir[op.id] = NoBuild) \/ At(op.id, "cleared")
  /\ \/ /\ dir' = [dir EXCEPT ![op.id] = op.build]
        /\ at' = [id |-> op.id, step |-> "fresh"]
        /\ Account(op.id, FALSE)
        /\ UNCHANGED <<op, faults>>
     \/ /\ Fault
        /\ at' = Idle /\ op' = NoOp
        /\ UNCHANGED <<dir, excuses>>
  /\ UNCHANGED <<stage, backups, journal, disabled, profile, objects, phase, todo, backup,
                 digests, behind, removed, ops, crashes>>

(* The check at its final place fails: it is removed, as far as that goes. *)
Discard(id) ==
  /\ phase = "running" /\ At(id, "fresh") /\ dir[id] \in Broken
  /\ \/ dir' = [dir EXCEPT ![id] = NoBuild] /\ UNCHANGED faults
     \/ Tear(id)
  /\ at' = Idle /\ op' = NoOp
  /\ UNCHANGED <<stage, backups, journal, disabled, profile, objects, phase, todo, backup,
                 digests, history, ops, crashes>>

(* registerInstalledExtension, for a fresh install: adopted, then enabled, *)
(* when the settings can be written.                                       *)
Register(id) ==
  /\ phase = "running" /\ At(id, "fresh") /\ dir[id] \notin Broken
  /\ \E refused \in BOOLEAN : ShadowAdopt(id, refused)
  /\ at' = [id |-> id, step |-> "adopted"]
  /\ UNCHANGED <<dir, stage, backups, journal, disabled, phase, todo, backup, op, removed, excuses,
                 ops, crashes>>

Enable(id) ==
  /\ phase = "running" /\ At(id, "adopted")
  /\ WriteDisabled(disabled \ {id})
  /\ removed' = removed \ ({id} \ disabled')
  /\ at' = Idle /\ op' = NoOp
  /\ UNCHANGED <<dir, stage, backups, journal, profile, objects, phase, todo, backup, digests,
                 behind, excuses, ops, crashes>>

-----------------------------------------------------------------------------
(* Mutant: the entry is left out; the record is to stand for it. *)
SilenceNot(id) ==
  /\ Asked
  /\ Installed(id) # NoBuild /\ Bundled[id] = NoBuild
  /\ ~NeedsRestart(id) /\ ~Installing(id)
  /\ at' = [id |-> id, step |-> "silent"]
  /\ UNCHANGED <<disk, phase, todo, backup, digests, op, history, crashes, faults>>

(* uninstall, first half: the disabled entry, written and synced; without it *)
(* nothing is scheduled.                                                     *)
Silence(id) ==
  /\ Asked
  /\ Installed(id) # NoBuild /\ Bundled[id] = NoBuild
  /\ ~NeedsRestart(id) /\ ~Installing(id)
  /\ WriteDisabled(disabled \cup {id})
  /\ at' = IF id \in disabled THEN [id |-> id, step |-> "silent"]
           ELSE IF id \in disabled' THEN [id |-> id, step |-> "silenced"] ELSE at
  /\ UNCHANGED <<dir, stage, backups, journal, profile, objects, phase, todo, backup,
                 digests, op, history, crashes>>

(* Second half: the record, or the user's own choice restored without it, *)
(* unless that write fails too.                                            *)
RecordRemoval(id) ==
  /\ phase = "running" /\ \E step \in {"silent", "silenced"} : At(id, step)
  /\ \/ /\ journal' = [journal EXCEPT ![id] = "uninstall"]
        /\ removed' = removed \cup {id}
        /\ UNCHANGED <<disabled, faults>>
     \/ /\ Fault
        /\ disabled' = IF at.step = "silenced" THEN disabled \ {id} ELSE disabled
        /\ UNCHANGED <<journal, removed>>
     \/ /\ Faults(2) /\ at.step = "silenced"
        /\ UNCHANGED <<disabled, journal, removed>>
  /\ at' = Idle
  /\ UNCHANGED <<dir, stage, backups, profile, objects, phase, todo, backup, digests, op,
                 behind, excuses, ops, crashes>>

(* downgradeToBundled: the record alone. *)
Downgrade(id) ==
  /\ Asked
  /\ Installed(id) # NoBuild /\ Bundled[id] # NoBuild
  /\ Version[Bundled[id]] < Version[Installed(id)]
  /\ ~NeedsRestart(id) /\ ~Installing(id)
  /\ journal' = [journal EXCEPT ![id] = "downgrade"]
  /\ UNCHANGED <<dir, stage, backups, disabled, profile, objects, phase, todo, at, backup,
                 digests, op, history, crashes, faults>>

(* The window's switch, shown for installed extensions. *)
SetEnabled(id) ==
  /\ Asked
  /\ Installed(id) # NoBuild
  /\ WriteDisabled(IF id \in disabled THEN disabled \ {id} ELSE disabled \cup {id})
  /\ removed' = removed \ ({id} \ disabled')
  /\ UNCHANGED <<dir, stage, backups, journal, profile, objects, phase, todo, at, backup,
                 digests, op, behind, excuses, crashes>>

-----------------------------------------------------------------------------
(* The process is gone with its memory and the download in flight. *)
Gone ==
  /\ phase' = "off" /\ todo' = {} /\ at' = Idle /\ backup' = NoBuild /\ op' = NoOp
  /\ digests' = [id \in Ids |-> NoBuild]
  /\ UNCHANGED <<disk, ops, faults>>

Quit ==
  /\ phase = "running" /\ at = Idle
  /\ Gone
  /\ UNCHANGED <<history, crashes>>

(* A crash, which forgets a backup that was made and leaves a directory that *)
(* was placed without its profile entry.                                     *)
Crash ==
  /\ phase # "off" /\ crashes < MaxCrashes
  /\ crashes' = crashes + 1
  /\ behind' = IF at.step \in {"placed", "fresh", "seeded"} /\ Readable(at.id)
               THEN behind \cup {at.id} ELSE behind
  /\ cut' = IF at.step \in {"backed", "placed", "undone"} /\ backup # NoBuild /\ ~Readable(at.id)
            THEN cut \cup {at.id} ELSE cut
  /\ Gone
  /\ UNCHANGED <<removed, told>>

StartUp ==
  \/ Start \/ BeginPromotions \/ Settle \/ Run
  \/ \E id \in Ids : DeletePayload(id) \/ RetireRecord(id)
  \/ \E id \in Ids : BackUp(id) \/ Promote(id) \/ Reject(id) \/ RollBack(id) \/ Admit(id)
  \/ \E id \in Ids : SkipSeed(id) \/ SeedAside(id) \/ SeedPlace(id) \/ SeedDrop(id)

UserStep ==
  \/ \E id \in Ids, build \in Builds :
       StartInstall(id, build) \/ StartUpdate(id, build) \/ StartLocal(id, build)
  \/ \E id \in Ids : Silence(id) \/ Downgrade(id) \/ SetEnabled(id)

FinishStep ==
  \/ GiveUp \/ FinishStaged \/ ClearPlace \/ FinishFresh
  \/ \E id \in Ids : Discard(id) \/ Register(id) \/ Enable(id) \/ RecordRemoval(id)

Next == StartUp \/ UserStep \/ FinishStep \/ Quit \/ Crash

Spec == Init /\ [][Next]_vars

(* Handlers and start-ups run to their end, downloads end one way or the    *)
(* other, and the application is closed and opened again.                   *)
FairSpec == Spec /\ WF_vars(StartUp) /\ WF_vars(FinishStep) /\ WF_vars(Quit)

-----------------------------------------------------------------------------
(* Maps hold whole payloads, the store's objects too; only an extension's own *)
(* directory, or what was moved aside from it, may be torn.                    *)
TypeOK ==
  /\ dir \in [Ids -> Payloads \cup {Torn}]
  /\ stage \in [Ids -> Payloads]
  /\ backups \in [Ids -> SUBSET (Builds \cup {Torn})]
  /\ journal \in [Ids -> {"none", "uninstall", "downgrade"}]
  /\ disabled \subseteq Ids
  /\ profile \in [Ids -> Payloads] /\ digests \in [Ids -> Payloads]
  /\ objects \in [Ids -> SUBSET Builds]
  /\ phase \in {"off", "drain", "promote", "seed", "running"}
  /\ todo \subseteq Ids
  /\ at \in {Idle} \cup
           [id : Ids, step : {"backed", "placed", "undone", "aside", "seeded", "cleared", "fresh",
                              "adopted", "silent", "silenced"}]
  /\ backup \in Payloads \cup {Torn}
  /\ op = NoOp \/ op \in [kind : {"fresh", "update", "local"}, id : Ids, build : Builds]
  /\ behind \subseteq Ids /\ removed \subseteq Ids /\ cut \subseteq Ids /\ told \subseteq Ids
  /\ {ops, crashes, faults} \subseteq Nat

(* What the session loads for an extension whose directory can be read is    *)
(* what lies there, through every update, refusal, seed and collection,      *)
(* unless a crash or a failed write has kept the profile behind.             *)
LoadsWhatIsThere ==
  \A id \in Ids :
    phase = "running" /\ at.id # id /\ Readable(id)
      => Loads(id) \in {NoBuild, dir[id]} \/ id \in behind

(* What the user had removed loads in no session until it is installed or    *)
(* enabled again, whenever crashes come, whether or not the deletion of its  *)
(* directory succeeds, and whichever writes of the settings fail.            *)
RemovalFailsClosed == \A id \in removed : Loads(id) = NoBuild

(* Nobody is left without an extension unawares: one that has a copy in the  *)
(* backup area, or ships with the application, has one that can be read in   *)
(* its directory in every session.  The exceptions: the user had it removed; *)
(* a crash cut its promotion, whose backup nothing puts back; or undoing the *)
(* promotion failed as well (the restoring rename, or the deletion that was  *)
(* to make room for it) and the report names the backup, or the seed failed  *)
(* and said so.                                                              *)
NeverLeftWithout ==
  \A id \in Ids :
    phase = "running" /\ ~Readable(id) /\ (backups[id] # {} \/ Bundled[id] # NoBuild)
      => id \in removed \cup cut \cup told

(* Staged work is applied by some later start, however often starts crash    *)
(* or a file operation fails.                                                *)
StagedWorkApplied ==
  \A id \in Ids : NeedsRestart(id) ~> ~NeedsRestart(id)

=============================================================================
