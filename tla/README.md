# PlotJuggler's engines and stores: TLA+ models, checks and proofs

TLA+ specifications of the parts of PlotJuggler where the order of events
decides the outcome: the engines that compute derived data, the ingest of
datasets by plugins, the recorder, the store of payloads with its readers, the
demand of topics, and the extensions on disk. Each module is translated from the
C++ source named beside it; `PROJECT.json` maps every definition to the lines it
stands for.

    tlc -workers 2 -config X.cfg M        # model-check, M an MC module
    tlapm XProofs.tla                     # check the proofs about module X

## 1. The system

PlotJuggler loads files and streams through plugins into two stores (scalar
columns and opaque objects), derives further data from them with scripts and
transforms, and shows it in plots and scenes that follow a playback cursor. One
process, one GUI thread with a Qt event loop; worker threads compute; plugins
bring threads of their own; extensions are files that installs and start-ups move.

| Component (source) | State | Operations | Talks to | What makes it hard |
|---|---|---|---|---|
| `InFlightBudget` (pj_runtime) | bytes reserved, one line of waiters, a posted-drain flag | tryReserve, whenRoom (back or front), grow, release, a ticket's end, drain | NodeScheduler, BatchEngine and GridRunner are its clients; drains come from the event loop | granted callbacks call back into it; a lost drain leaves a waiter that polls nothing |
| `EnginePool` (pj_runtime) | two thread lanes, finished runs, a posted-drain flag, a count outstanding | submit, cancel, drain, waitIdle, destruction | workers hand results to the GUI thread | a publish may open a dialog, wait or destroy the pool: drain passes nest |
| `NodeScheduler` with `OnDemandService`, `ResultHistory`, `InputStager`, `RecipeGraph` (pj_runtime) | per node a slot (request, status, wait, run, failure, readers), a ring of results with tombstones, a cache | requestAt, withdraw, install, remove, suspend and resume, run ends, grants | the pool, the budget, the object store | late results, re-entrant serving of readers, holds, results keyed by their inputs |
| `BatchEngine`, `SeriesRunner`, `GridRunner` (pj_runtime) | runs per output, staged copies | refresh, merge, cancel | the pool, the budget, the stores | resolvers re-enter the engine while it stages |
| `SessionManager` ingest registry, `IngestProgressController` | the live ingest of each dataset; one row for it | beginIngest, endIngest, requestCancel; row states and timers | producers, and every observer of its signals | synchronous signals: observers begin, end and stop ingests from inside them |
| `ToolboxRuntimeHost` (pj_runtime) | per dataset an ingest context, an atomic word, markers of imports | create, progress start and finish, release, discard, notify | plugin threads call; the shell's callbacks run on the GUI thread | thread-safe entry points whose effects are queued to another thread |
| `Recorder` (pj_runtime) | a queue with a byte budget, a summary, a state | start, onMessage, requestStop, stop | producers push, one writer drains into a sink | two condition variables, charges made before copies, racing stops |
| `RecordingService`, `SourceCaptureService`, `SourceCacheStore` | recorders per source, artifacts on disk | start, finalize, publish by rename, sweep | the recorder, data sources | detach racing pushes; crash between partial file and rename |
| `DataProcessorService`, `DerivedObjects`, `TransformService` | recipes and their outputs | add, edit, remove | the engines, the catalog | large but sequential |
| `TopicDemandTracker` (pj_runtime) | per dataset: display references, three tiers, the set last emitted; sets pending | references, tiers, forced topics, clear | streaming sources, the batch engine, the curve list | slots call the tracker from inside its signals |
| `PlaybackEngine` (pj_runtime) | a clamped cursor | tick, range | every view | loop modes at a boundary |
| pj_datastore: `ObjectStore`, `ResidentPayloadPool` | per topic the entries in stamp order, bytes, two revisions, a warm value; a byte pool of ingest-time payloads | push, bundle, seed, evict, clear, detach, reattach, latestAt, drainNewSince | producers on plugin threads, readers on any, the video decoder's index | two-level locks, lazy entries resolved outside them, slots that die on any thread |
| pj_datastore: scalar engine, incremental engine, plugin host | chunks, watermarks | push, evict, query, merge | writers on plugin threads, readers on workers | chunk sealing, late data |
| pj_tf: `TransformBuffer` | a forest of frames with histories | setTransform, lookup, snapshot | sources, scripts | copy-on-write snapshots |
| pj_marketplace: `ExtensionManager`, with `ExtensionCatalogService` | installed and staged extensions, removal records, the content store and its profile, all on disk | install, update, uninstall, downgrade; apply, reconcile and seed at start | the network, the file system, the plugin loader | recovery from a crash or a failed rename between any two steps |
| pj_scripting, pj_plotting, pj_scene2D/3D, pj_widgets, pj_dialog_host, pj_app | interpreters, views, the shell | | | user interface and data |

What makes them correct, in a line each: the budget is never overcommitted and
never idle while somebody who fits waits; a result that was computed is
published; what a view shows is what its request, the recipes and the data of
now call for, and it says so when there is none; every ingest has one beginning,
one end and at most one row; a recording holds every message that it does not
count as dropped, and its stop returns; who reads the object store without a
lock, or follows it by its revisions, never keeps what is gone nor misses what
is there; every slot ends up told the newest demand; what loads at a start is
what the user installed last, and what the user removed does not load. The hazards that threaten
these, each at its line, are under `hazards` in `PROJECT.json`.

## 2. The modules

    BudgetLine   <-- implemented by -- InFlightBudget   <-- InFlightBudgetProofs
                                       EnginePool       <-- EnginePoolProofs
                                       NodeScheduler    <-- NodeSchedulerProofs <-- NodeResultsProofs
                                       ToolboxIngest    \
                                       IngestRegistry    }- IngestProofs
                                       TopicDemand      /
                                       Recorder         <-- RecorderProofs
    ResidentPool <-- extended by ----- ObjectStore      <-- ObjectStoreProofs
                                       ExtensionStore   <-- ExtensionStoreProofs

Each `MC*.tla` only gives the constants of its module their values.
`IngestProofs` is about three modules that share no state, so the specifications of
two of them have names of their own: `ToolboxSpec`, `DemandSpec`.

**InFlightBudget** (`InFlightBudget.cpp/.h`, and `BatchEngine::stageAndStart`
for the step back). Everything runs on the GUI thread, so one operation is one
action. While `draining` holds the code that runs is a granted callback, so the
operations enabled then are its re-entrant calls. A client is a run: it holds
room, waits in the line, or neither. `GiveBackAndWaitInFront` is a marker run
whose staged copy did not fit. The capacity and the sizes are any naturals.
**BudgetLine** is what the clients may rely on: one line served in order, its
head admitted as soon as it fits. It knows neither drains nor a counter;
`InFlightBudget` implements it by `Promise == INSTANCE BudgetLine` with the
holdings, the line and the total mapped to themselves.

**EnginePool** (`EnginePool.cpp`). The GUI thread is a call stack of frames
(`drain`, `wait`, `dialog`, `destroy`): a publish may open a dialog, call
waitIdle or destroy the pool, and an event loop delivers posted drains on top of
it. A worker's finish and each section of `mutex_` are steps. A run that was
cancelled before its worker took it is handed over with the default outcome, as
the code does. `WaitReturns` speaks of a wait by its place on the stack: only a dialog
that was opened above it and stays open may hold it up.

**NodeScheduler** (`NodeScheduler.cpp` and its parts of `OnDemandService`,
`ResultHistory`, `InputStager`, `RecipeGraph`, `InFlightBudget`). The GUI
thread's calls are an `agenda`: each action is one call up to the calls it makes,
which it puts in front of what is left, in the code's order. `Idle` means
that the event is over. A result carries the key it was computed under (its
revision, epoch, clock and inputs), its stamp and whether an output is
available; a tombstone is an entry without inputs. The environment requests,
withdraws, installs, removes, suspends and resumes, and lets the raw topic's
samples arrive and retire. In this module the budget is counted in runs.

**ToolboxIngest** (`ToolboxRuntimeHost.cpp`, with the shell's callbacks of
`MainWindow.cpp`). One dataset. `word` is the atomic
progress word: a generation and idle, active or queued. A thread's call goes on
over several steps where the code leaves its lock or posts; `queue` is what waits
for the GUI thread. `shell` is the generation whose row the shell shows.
Assumed from the header's contract: one caller of the progress hooks at a time, and
the plugin's threads at rest when the host is destroyed.

**IngestRegistry** (`SessionManager.cpp` 1019-1199, `IngestProgressController.cpp`).
One dataset. Signals are synchronous, so `agenda` holds what the emits in
progress still have to do; an observer may begin, end or stop an ingest from
inside any signal in `ReentersFrom`. Two things nobody in the repository does are
excluded: an observer of a superseded ingest's end that finds the successor's
token and cancels it (its stopping signal would precede its began), and one that
begins again from inside a began (the observers behind it would bind a dead token).

**Recorder** (`Recorder.cpp`). Each step is one section of `mu_`, one call of
the sink, or one notification made after the lock is left. `asleep` holds who
is blocked on each condition variable; a thread it no longer holds looks at its
predicate again. The sink and the payload copy may fail (`SinkFails`). `blocks`
is the overflow policy: one run covers both.

**ResidentPool** (`resident_payload_pool.cpp`). The byte budget of the payloads
that ingest leaves for readers: two FIFOs of weak references, one per size class,
and an eviction that pops slots which may have died. A slot that its last owner drops gives its
payload up under its own mutex (`SlotDies`) and its charge back under the pool's
(`SlotSettles`); between the two it is `dying`, and whoever pops it then must
not credit it. A large payload may borrow what the small ones leave unused of
their reservation; a small one takes it back.

**ObjectStore** (`object_store.cpp`, `ordered_entries.cpp`, and
`streaming_video_decoder.cpp` for the index). It extends `ResidentPool`. An
action is one section of the store's locks. `pushLazyWithSeed` has three
(`SeedCheck`, `SeedAdmit`, `SeedInsert`), `latestAt` two with the resolution
between them under no lock (`LatestAt`, `Resolve`, `Memoize`), and the decoder's
index follows one call of the store per step (`IndexIdentity` to `IndexDrain`). A packet
whose extraction fails is skipped for good: the cursor and the identity move on, and only
a rewrite or an empty topic makes the index try it again. `index.skipped` remembers these
packets, which the code does not; `IndexMissesNothing` excepts them.
The rest are one action each: pushes, bundles with their `drop`, retention,
registering and removing topics, clearing, detaching for a refill, reattaching,
committing. An execution has either the readers that resolve or the decoder
(`Init`): they share only the series, and neither changes in it what the other reads.

**TopicDemand** (`TopicDemandTracker.cpp`, with the slots in `BatchEngine` and
`CurveListPanel`). `work` is the GUI thread's call stack, flattened, innermost
statement first. A slot of `activeTopicsChanged` may call any mutator from inside
the signal. The slots of the two other signals are those of the application, and
call none: the batch engine marks itself dirty, the panel repaints its marks.
(One that did call a mutator between `clearDataset`'s erase and its `deliver({})`
would break `LastDeliveryIsNewest`.)

**ExtensionStore** (`ExtensionManager.cpp`, `ExtensionCatalogService.cpp`,
`marketplace_window.cpp` for what the window lets the user ask). The state is what
lies on disk: directories, staged updates, backups, removal records, the disabled
list, the store's objects and its profile. Each rename is an action, and `at` says
which extension a handler is between two of them for, so that `Crash` falls between any two. A fault is
a file operation that fails: a rename, its rollback (`RollBack`), a deletion, which may
leave half of the payload (`Torn`) wherever the code deletes, or a write of the profile, of a record or of
the disabled list, which leaves what was there. A crash in the midst of a recursive
deletion leaves what a failed one leaves, and is not modelled apart. What cannot be read
(`Torn`, or `Broken` at its place) is not listed as installed, so the window offers to install it
again; it may still lie in the loader's way, and a session may load for it the object that the
profile names. A start-up drains the removals, promotes what is staged,
settles the store, seeds the bundled plugins and scans. `removed`, `cut`, `told` and `behind`
are histories the properties speak of: no guard reads them.

## 3. The runs

| Run | Instance | Asks |
|---|---|---|
| `budget` | 3 runs, capacity 3, requests of 1, 2, 4, copies of 1, 2 | `NoOvercommit`, `NoStalledLine`, `ServedInOrder`, and that the drains implement `BudgetLine` with its fairness |
| `pool` | 3 runs, one on the Python lane, passes of 1, stacks to depth 3 | `OutstandingExact`, `NoStrandedResult`, `NoHungWait`, `SkippedIsCancelled`, `EveryRunSettles`, `WaitReturns` |
| `scheduler_chain` | a raw node that reads the clock, a pinned finding over it, room for one run, 4 events | rooms, stalls, and what is shown (six properties) |
| `scheduler_fork` | 3 nodes, one reading two, room for one run, 3 events | `Settles` |
| `toolbox` | GUI and two plugin threads, 3 sequences | `NoWedgedRow`, `NoStolenFinish`, `ReleasedRowGoes` |
| `toolbox_discard` | GUI and one plugin thread, 2 sequences | finding 1 (violation expected) |
| `registry` | 5 ingests, 4 reactions of an observer | `RowsShowLive`, `EndsOnce` |
| `recorder` | both policies, 2 producers of a message of 1, 2 or 3, budget 2, 2 callers of stop, a sink and copies that fail | `WithinBudget`, `NothingLost`, `NoLostWakeUp`, `SinkInTurn`, `PushesReturn`, `StopReturns` |
| `extension` | a bundled and a downloaded extension, 4 builds of 3 versions, one broken; 3 requests, 2 crashes, 2 faults | `LoadsWhatIsThere`, `RemovalFailsClosed`, `NeverLeftWithout`, `StagedWorkApplied` |
| `objects` | 1 topic, 2 stamps, 3 entries, 2 slots of sizes 1 and 8 in a pool of 8, retention of 2 entries, 5 changes | `NoGhostCache`, `BytesAccounted`, `RevisionsTell`, `IndexMissesNothing` |
| `objects_evicted` | 1 topic, 2 stamps, 4 entries, retention of 3, no seeds | finding 2 (violation expected) |
| `demand` | 2 datasets, 2 topics, 2 slots, 4 calls | `LastDeliveryIsNewest`, `FlipsAreTold` |

What they show of the new parts: a warm value is never of an entry the topic no
longer holds, though the reader that writes it held no lock while it resolved;
the bytes both budgets compare are exact whoever empties a slot first; a cursor
that trusts an unmoved `rewrite` sees only losses at the front and newer entries
at the end; an index whose revisions match has every packet it could extract, whatever
happened between its five looks; once the GUI thread is idle every slot has heard the
newest set although calls nested; and after any two crashes and any two failing
operations a removal holds and staged work is applied by some later start. An extension
that has a copy in the backup area or ships with the application is there in every session,
with three exceptions that `NeverLeftWithout` names: the user removed it; a crash cut its promotion,
and nothing puts the backup back; or undoing the promotion failed as well (the restoring rename, or the
deletion that was to make room for it), or the seed did, and a report said so.

Why the bounds suffice. The budget's sizes give every relation two runs can
have: fitting together, filling the capacity, passing it alone; a third run is
the one that would be overtaken. A pass of one publish over three runs leaves
two over, and depth 3 is the least with a pass inside a dialog inside a pass.
In the scheduler two times give a request something
older and something newer, a capacity of one run makes every second serve wait,
and `MaxEvents` (four on the chain) lets a request, a change, its reversal and another
request happen around one run. Three sequences of an ingest let a finish queued
in the first meet the third. A recorder budget of 2 with messages of 1, 2 and 3 has two that
fit together, one that fills it and is evicted for a smaller newcomer, and one that never fits;
two callers of stop are the least that race. In that run each producer pushes once, so of
`PushesReturn` it shows that two pushes under way do not stop each other; what it says of
producers that go on pushing is in its comment. In the object store two stamps with three entries give an insert before, between and after
others; two slots of which one fills the pool make every second admission evict;
four changes suffice to detach, push, drop and reattach under a reader. An entry is charged nothing
(its closure reads the payload again) or one byte. Two
slots of a signal are the least with one behind another that re-enters, and four
calls nest three deep. Three requests are an install, an update and a removal of
one id; two crashes let the recovery from the first be cut by the second.
`MaxEvents`, `MaxIngests`, `MaxReactions`, `MaxSequences`, `MaxPushes`, `MaxDepth`,
`MaxUid`, `MaxChanges`, `MaxCalls`, `MaxOps`, `MaxCrashes` and `MaxFaults` bound only the
environment: how many events happen, never what a handler does with one. Deadlock is
checked for `ExtensionStore`, whose process is always started again; each of the other systems may come to rest
(the budget is destroyed, the events are used up, the recording is over).

What `NodeScheduler`'s properties mean in the repository's own terms:
`NothingShownForFailure` is requirement D6 of
`docs/derived_objects/REQUIREMENTS.md`, `ReadyShowsResult` and
`DisplayMovesForward` are D30.

### Fairness

Weak fairness of what the event loop and the lanes do: a posted drain is
delivered, a granted callback returns, a compute is bounded and ends, a thread
that can take a lock takes it. In `EnginePool` a publish gets strong fairness,
since dialogs interrupt its end again and again, and so does the exit of a wait: its loop
looks at its exit request each time it turns. `CloseDialog` gets none: the user
need not close a dialog. `ToolboxIngest` delivers posted calls with strong
fairness, since a plugin may keep the GUI thread in calls of its own. In
`Recorder` the fair specification says nothing of the sink: `SinkFairness`, that
its calls return, is a hypothesis of the two properties that need it. A single push is
promised nothing: one that waits for space has no priority, and an oversized one waits
for an empty queue, so other producers can overtake it for as long as they go on.
`PushesReturn` says that the pushes as a whole never come to a stop, and that all return when no
new ones come. In
`ExtensionStore` start-ups and handlers run to their end, a download ends one way
or the other, and the user closes the application and opens it again; crashes
and faults get no fairness, and are bounded.

## 4. Findings and observations

1. *Discard drops the report of an earlier release* (`toolbox_discard`).
   `ToolboxRuntimeHost.h` 58 says the next notify lists the datasets whose context
   was released since the previous one; `onDiscardParserIngest` erases the
   dataset's marker whoever set it. Release, create, discard of one dataset and
   then a notify does not report the released rows.
2. *An evicted packet stays in the decoder's index* (`objects_evicted`).
   `pj_scene2D/docs/ARCHITECTURE.md` 523 says evicted packets are pruned when the
   front (`timeRange().first`, `firstSequentialUID`) moves. Stamps 2 (UID 1), 1 (UID 2,
   out of order) and 1 (UID 3) are indexed, and retention then evicts UID 2: the first stamp
   is still 1 and the smallest UID still 1, so nothing is pruned.
   `OBJECT_STORE_DESIGN.md` 118 says itself that the smallest UID need not be the front.

Seen while modelling, within what the code intends or without a run of their own:

- A cancelled row does not linger: `IngestProgressController.h` 30 and 38 promise a
  second for cancelled ingests, `onIngestEnded` removes the row at once, on purpose.
- A node that reads the clock stores a late decode failure under a key without a
  clock, so the failure of an older request serves the current one and clears
  its result.
- A blocking recorder may hold one message that alone passes the budget; it can only
  be admitted when it is alone (`WithinBudget`).
- `resident_payload_pool.cpp` 133 calls the cap hard. The charge is, and so are the
  payloads served; but a dying slot that is popped is not credited until it settles, so
  the count may stand above what is really held (`HeldFits` says what holds).
- Reattaching a dataset brings entries back with their old UIDs: a reader that
  follows by UID alone would miss them, and only `rewrite` tells it.
- A crash between a promotion and the check after it leaves a payload that was
  never validated in place, with the old version only among the backups
  (`docs/REQUIREMENTS.md` 365 asks that a failed update keep the old one): `cut`. A
  rollback whose own rename fails, or whose deletion of the rejected payload does, leaves
  the old version there too, and the report names the backup: `told`. `NeverLeftWithout` excepts both.
- A profile write that failed, or that a crash kept from happening, leaves the profile behind the
  directory until it is written again: `behind`, which `LoadsWhatIsThere` excepts.
- A deletion outside the removal drain (of a rejected or an overwritten payload) that fails
  may leave a torn directory without a record: nothing retries it, but it is not listed as
  installed, and the next install of the id deletes it first.
- A packet that cannot be extracted when it is first scanned, say since its source fails to read it
  just then, is never indexed while the topic only grows.

## 5. The proofs

`InFlightBudgetProofs` proves, for every finite set of clients, every capacity
and every set of sizes (`BudgetAssumption`, nothing else):

| Theorem | Says |
|---|---|
| `TypeCorrect` | `Spec => []TypeOK`; the unsigned counter never wraps below zero |
| `Overcommit` | `Spec => []NoOvercommit` |
| `NoLostWakeUp` | `Spec => []NoStalledLine` |
| `Order` | `Spec => ServedInOrder` |
| `Refinement` | `Spec => Promise!Spec`: the budget implements the safety part of `BudgetLine` |

The inductive invariant is `IInv`: `TypeOK`, the accounting (`reserved` is the
sum of what the clients hold, stated as the size of the set of their bytes),
`AloneBeyond` (past the capacity there is one holder), `OnePlace` (a client is in
the line once, and holds nothing while it is) and `NoStalledLine`. `NoOvercommit`
is not inductive by itself: `fits` compares the counter, so without the
accounting it says nothing about what is held, and without `OnePlace` a grant
could overwrite what its client already holds. `NoStalledLine` needs the type
facts only. Each conjunct has a lemma with one step per action; the lemmas on
sums of holdings rest on the library's facts on finite sets. `Order` and
`Refinement` follow from the invariant step by step; the refinement maps the
line and the holdings to themselves, and the drain's own steps to stuttering.

`EnginePoolProofs` proves, for every finite set of runs, any assignment to the
two lanes, any number of threads and publishes of a pass, and call stacks as deep
as `MaxDepth` allows, for every `MaxDepth` (`PoolAssumption`, nothing else):

| Theorem | Says |
|---|---|
| `TypeCorrect` | `Spec => []TypeOK`; the count never passes below zero, no pass publishes more than it may |
| `Counted` | `Spec => []OutstandingExact` |
| `NothingStranded` | `Spec => []NoStrandedResult` |
| `NothingHung` | `Spec => []NoHungWait` |
| `SkipsAreCancels` | `Spec => []SkippedIsCancelled` |

They follow from `Invariance`, `Spec => []IInv`. None is inductive alone, since
each says something only of the frame on top while nested passes are still
below it. The invariant adds what every frame of the stack knows:
`IdlePassOnTop` (only the innermost frame is between two publishes, so a pass
below it is always in the middle of one), `PublishingOnce` (each pass on
the stack publishes a run of its own, and has room for it), `FinishedOnce`,
`Posted` (a finished run has a drain posted or a pass that has taken nothing yet),
`Asked` (with nothing outstanding, above every loop that was not asked to
exit there is a pass that will emit `drained`) and `SkippedWasCancelled`. The proofs
rest on lemmas on pushing, popping and replacing the top frame, and on counting
the pending runs by the library's facts on finite sets.

`IngestProofs` proves of `TopicDemand`, for any datasets, topics and number of slots and for
calls nested to any depth (`DemandAssumption`):

| Theorem | Says |
|---|---|
| `DemandTypeCorrect` | `DemandSpec => []DemandTypeOK` |
| `Newest` | `DemandSpec => []LastDeliveryIsNewest` |
| `FlipsTold` | `DemandSpec => []FlipsAreTold` |

Both properties speak of the idle thread, so the invariant says what the call stack still owes: while
what a slot, the gate or the marks heard differs from what is, there is a
statement in `work` that will tell it (`FlipsOwed`, `RecomputeOwed`, `NewestLast`),
an empty delivery has only the application's own slots before it (`EmptiesFirst`), and there is one
loop that drains the pending sets (`OneLoop`). Each is preserved by putting a
mutator's statements before the others and by taking the first.

`IngestProofs` proves of `IngestRegistry`, for any number of ingests and reactions,
`TypeCorrect`, `EndedOnce` (`Spec => []EndsOnce`) and `RowsTrue`
(`"began" \notin ReentersFrom /\ Spec => []RowsShowLive`; the hypothesis is the second
exclusion of section 2, of which `MCReenters` is one instance). For `EndsOnce` the invariant adds that an
ingest has ended once exactly when it began and is no longer live (`Ended`), that
its producer's handler waits at most once in the agenda (`OneOwed`), and never once
it was told (`Told`). `RowsShowLive` speaks of idle moments; `RInv` says what holds
inside the signals: a running row whose ingest is gone is about to hear its end, a
stop that is on its way reaches a row that runs (`Shown`, `Ran`), a live ingest without a
row is about to be announced (`There`), what is still to be said agrees with the
entry (`Coming`, `Stopped`), and began signals are heard before anything else (`BeganFirst`).

`ExtensionStoreProofs` proves, for any extensions, builds, versions, crashes and
faults (`ExtensionAssumption`):

| Theorem | Says |
|---|---|
| `TypeCorrect` | `Spec => []TypeOK` |
| `RemovalsFailClosed` | `Spec => []RemovalFailsClosed` |
| `SessionsLoadWhatIsThere` | `Spec => []LoadsWhatIsThere` |
| `NobodyLeftWithout` | `Spec => []NeverLeftWithout` |

For the removals the invariant adds that what the user had removed is disabled, and that
a record of a removal is of such an id (`Disabled`), that a fresh install under way, which will enable its
extension, has no record against it (`Installable`), that a removal under way is of an extension that is
on the disabled list and that no other install is for (`Silenced`), and that what a step is about to adopt
is whole (`Whole`). What loads is the payload the profile names: the profile on
disk is what the process maps (`Mirrored`), and that is what lies in the directory, or what a
handler has moved aside and may put back (`Lying`, `Mapped`), when that can be read.
That nobody is left without says of every extension at every step that it reads, needs no copy or has an
excuse, is in the hands of a promotion that has its backup (`AtHand`), or waits for the seed of this start
(`Safe`, `Awaited`). A handler that gives up reports, a crash cuts, and where what was moved aside did not
read either, the excuse is older than the handler (`HandExcused`). An install that clears a place does not
clear one that reads (`Handling`, `Fetching`), and the start-up deletes for good only what the seed
restores or the user removed (`Reseeded`).

`RecorderProofs` proves, for any finite set of producers, any callers of `stop()`,
any budget and costs and both overflow policies (`RecorderAssumption`):

| Theorem | Says |
|---|---|
| `SinkAlone` | `Spec => []SinkInTurn` |
| `WriterHears` | `Spec => []WriterWoken`: the writer is not left asleep on an item or on its call to leave |
| `PushesHear` | `Spec => []PushesReleased`: no push sleeps for space once the recording ended |
| `StoppersHear` | `Spec => []StoppersWoken`: no caller of `stop()` sleeps once the summary is out |
| `NoWakeUpLost` | `Spec => []NoLostWakeUp`: these three, and no push sleeps while there is space for it |
| `BudgetKept` | `Spec => []WithinBudget` |
| `LosesNothing` | `Spec => []NothingLost` |

`SinkInTurn` is not inductive: that
nobody else closes the sink rests on `summary.entered`, which lets one caller of
`stop()` go on to the join (`OneCloser`), and that the writer finds it open on how
it left its last call (`SinkLife`). `notify_one` could wake a later caller of
`stop()`, which waits on the writer's condition variable: it reaches the writer
because such a caller only sleeps once the recording has ended, and then nothing
is enqueued any more (`Ending`, `Sleepers`).

The last three rows rest on a second invariant, `Flow`, about the messages. The charge is
the queue's bytes and those being copied (`Exact`), above the budget only with one
message there is (`Within`); a push that sleeps while there is space is one whose
notification is on its way (`SpaceHeard`), since whatever lowers the charge leaves the
lock to notify. `NothingLost` says something at the end only: before it, what the callers
were told to continue with is written, dropped, queued or in the writer's hand
(`Accounted`) as long as the recording is `Clean`. It stays true because no message
reaches the writer before its channel (`Ordered`: a skipped message would be in none of the four),
and because a queue that is discarded by a writer that leaves a clean recording is empty
(`Phases`). `CostOf` and `MakeRoomFor` are recursive functions: what a queue costs with an item
appended or taken out (`CostAppend`, `CostDrops`), and that the evictions free what
they count and end with room or with nothing larger left (`MakesRoom`), are proved by a least
prefix on which they would fail (`Least`, `Climb`, from the library's well-founded order on
the naturals).

`ObjectStoreProofs` proves, for any topics, stamps, budgets, bundles and pool
(`PoolAssumption`, `StoreAssumption`):

| Theorem | Says |
|---|---|
| `NoGhost` | `Spec => []NoGhostCache` |
| `Told` | `Spec => RevisionsTell` |
| `NothingMissed` | `Spec => []IndexMissesNothing` |
| `BytesExact` | `Spec => []BytesAccounted` |

The invariant says of every series that its revisions are smaller than the
counter they are drawn from, so that an operation that moves one moves it to a
number that never was; that its UIDs, and those of the entries set aside, are
older than the next; and that its warm value is one of its entries (`Sound`,
`AsideGiven`). Each step is shown to keep it and to tell (`StepKeeps`). For an
insert that leaves `rewrite` alone this says what `Rewritten` is for: nothing was
removed and the entry went to the end, so all it may lose by retention is some of
the front (`EndGained`). `Places` gives the positions that a removal leaves
(`Survivors`), and `MinNat` the number of entries that retention expires
(`ExpiredBound`); both are proved from the library's well-founded order on the naturals.
`NothingMissed` rests on what is told: between two of its store calls the index has
every packet up to its cursor but those it skipped, unless the topic was rewritten since it took the
revisions it works from, and the floor it prunes by is below them (`Covers`).
For `BytesExact`, a series' bytes and a pool's charges are the sizes of sets of
units, so that an insert, which shifts the entries behind it, is a bijection. The pool's part is
`PoolInv`: a slot that holds a payload is in the FIFO of its class (`Filed`), and
one that is dying stays counted until it settles (`ChargedOnce`), whoever emptied it, so that an
admission which pops all it may has made the room it needs (`HeldFits`).

`IngestProofs` proves of `ToolboxIngest`, for any number of threads and of import sequences
(`ToolboxAssumption`):

| Theorem | Says |
|---|---|
| `NeverWedged` | `ToolboxSpec => []NoWedgedRow` |
| `NeverStolen` | `ToolboxSpec => NoStolenFinish` |

A finish that is delivered makes the word idle, and a begin delivered after it
would show a row that nothing finishes. The invariant therefore says that every
queued begin stands before the finish of the sequence the word is armed for
(`BeginsFirst`), and that no begin is queued or still to be posted once the word is
idle (`Quiescent`, `Beginning`); a claim is under way until it is delivered or the
word armed again, and an active sequence has none (`Claims`).

`NodeSchedulerProofs` and `NodeResultsProofs` prove, for any recipes without a cycle,
any pinned times, clock readers, capacity, number of events and times
(`SchedulerAssumption`: `RecipeGraph` refuses a definition that closes a cycle, and a
node's key is its own; `NoRunAssumption`: "no run" is not a run):

| Theorem | Says |
|---|---|
| `SlotsTyped` | `Spec => []Typed` |
| `RoomsAreExact` | `Spec => []RoomsExact` |
| `NothingStalls` | `Spec => []NoStalledRequest` |
| `NothingForeign` | `Spec => []NoForeignResult` |
| `FailureShowsNothing` | `Spec => []NothingShownForFailure` |
| `ReadyShows` | `Spec => []ReadyShowsResult` |
| `ForwardOnly` | `Spec => DisplayMovesForward` |
| `ReadyNow` | `Spec => ReadyIsCurrent` |

These properties speak of the moment between two events, or of one step; inside an
event the agenda holds calls to nodes that earlier calls may have withdrawn, removed or served
again. So each part of the invariant says what is still owed:

- `Counted`: the rooms reserved are the runs in flight, the orphans and the grants in
  the agenda, one each.
- `Lined`: a node waits for room exactly while it is in the line, once, and a
  line whose head fits has a drain posted or under way (`Moving`). With `Counted` this is why
  a line with nothing posted has a run that will give its room back.
- `Registered`: each upstream of a requested node lists it as a reader, or a
  `register`, `bind` or re-request in the agenda will see to it (`Bound`, `Paired`,
  `Asked`). Without it an upstream that settles might not know whom to serve.
- `Served`: a pending node has a run, a place in the line, a call that
  serves it (`Due`), an upstream that is pending and knows it, or, once that upstream
  has settled, its `reader` call in the agenda (`Attended`).
- `Stocked`: the entries of a ring, and the input of a run whose result will be taken,
  are of the revisions and the epoch of now, stamped by their newest input, and nothing
  is kept while the dataset is held. It is `NoForeignResult` at every step and
  for the runs too, since a run that ends late publishes what it was staged from.
- `Settling`: between a run's publication and the settlement of its node, the
  readers it serves are all later in the order of the recipes (`Minor`), so its result
  is still what its request asks for (`Fit`). This is where the absence of cycles is needed.
- `Anchored`: there is a set of results, all those shown and those to come
  among them, in which each rests on a sample that has arrived, on an upstream that was
  removed since, or on an entry of the same stamp in an upstream's ring that is in the set too. It
  bounds every stamp of a node by the stamp it is staged under now, hence no result is newer
  than the tombstone a failure leaves. That bound is not inductive by itself, since it holds of a
  node because it holds of those upstream at the same stamp.
- `Answered`: a node that was told `ready`, `missing` or `error` shows accordingly
  (`Told`), or is about to be served again.

`ForwardOnly` and `ReadyNow` are action properties: the proof goes through each call of
the agenda, and uses the invariant where a result is published under one that was there before
(`Anchored`, `Settling`). The order of the nodes is used through `Among`, which keeps the members
of a sequence that are in a set; what it keeps, and in which order, is proved by a
least counterexample. `Above` is defined by recursion on the recipes; what it holds is proved from
the rank that an acyclic graph has.

Only model-checked: all liveness (`EveryRunSettles`, `WaitReturns`, `Settles`,
`ReleasedRowGoes`, `PushesReturn`, `StopReturns`, `StagedWorkApplied`), and what uses
ENABLED, with the fair part of `ImplementsBudgetLine`: the prover does not handle them. The
invariants and the step properties of the runs that pass are all proved. The library's
induction theorems take an operator as a parameter, which the provers cannot instantiate; what is
said of sums and recursive functions over data of any length is therefore argued by a
least counterexample or by counting units.

## 6. Not modelled

`PROJECT.json` lists each component with its status and reason. The repository
has more than two hundred thousand lines; most of them draw, lay out, parse,
encode, convert between the plugin ABI and the stores, or compute on numbers, and
have no order of events to get wrong. The interpreters appear as outcomes of runs.
That is why the map covers a small share of the lines: it covers the code
whose control the properties are about.

Within the modelled components, left out: the transform tree and video content
of a node, several outputs and datasets, byte budgets and windows of
`ResultHistory`, edits of bindings, explicit evaluations and series; progress
values, source capture and stop requests of the toolbox host; the texts of causes
and the extra metadata of the recorder, and an allocation that fails while a lock
is held; of the object store flushTo, replaceDatasetFrom, mergeDatasets, clear(), at()
and the views, and bundles that append to more than one topic; of the decoder
everything but the index; of the extensions the session without the writer
lease, directories not named by their id, the markers of older builds, records that
fail validation, and the quarantine of broken stages.

## 7. Plan

Done: the budget with its abstract specification, the pool, the on-demand
scheduler, the two halves of ingest, the recorder, the object store with its pool and
index, the demand of topics, the extensions on disk.

1. `BatchEngine` (refresh, merge, replace while staging), then `GridRunner`, as
   clients of the budget.
2. `RecordingService` and `SourceCaptureService` over `Recorder`;
   `SourceCacheStore` with partial writers.
3. flushTo, replaceDatasetFrom and mergeDatasets of the object store.
4. `UpdateChecker` (superseded answers), `PlaybackEngine` over integer times, the
   forest of `TransformBuffer`.
5. Proofs: every invariant and step property of the passing runs has its theorem; each new
   module brings its own. `ResidentPool` would deserve a specification that `ObjectStore`
   is shown to use.
