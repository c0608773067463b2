---------------------------- MODULE ToolboxIngest ----------------------------
(***************************************************************************)
(* pj_runtime's ToolboxRuntimeHost: the life of a toolbox plugin's bulk     *)
(* import into one dataset, as the threads of the plugin, the GUI thread's  *)
(* event queue and the shell see it.                                        *)
(*                                                                          *)
(* The plugin creates a context, opens import sequences on it and releases  *)
(* or discards it, from any thread; the shell learns of begins and finishes *)
(* through queued calls.  Each step below is one atomic access: a locked    *)
(* section, a compare-and-swap of the progress word, or a post.             *)
(*                                                                          *)
(* Left out: the ticks of an open sequence, the source capture, stops.      *)
(***************************************************************************)
EXTENDS Integers, Sequences

CONSTANTS
  Threads,       (* the threads the plugin calls from                          *)
  Gui,           (* the one that constructed the host and runs its event loop  *)
  MayDiscard,    (* the plugin may discard contexts                            *)
  MaxSequences,  (* bound: the import sequences of a behaviour                 *)
  NoThread

ASSUME ToolboxAssumption ==
  /\ Gui \in Threads /\ NoThread \notin Threads
  /\ MayDiscard \in BOOLEAN /\ MaxSequences \in Nat \ {0}

VARIABLES
  word,        (* IngestProgress::state: an arm generation and a phase (idle, active, queued) *)
  user,        (* the thread that calls the context's hooks; NoThread: no context *)
  doing,       (* per thread: what it has still to do in the call it makes     *)
  queue,       (* the event queue: begins, finishes and notifies, oldest first *)
  marker,      (* the dataset is in pending_ingest_datasets_                   *)
  shell,       (* the sequence whose begin the shell saw last, 0 once finished *)
  unreported,  (* rows of a released context were sealed since the last notify *)
  up           (* the host exists                                              *)

toolboxVars == <<word, user, doing, queue, marker, shell, unreported, up>>

(* What a thread has still to do: nothing, a begin to post, a release to go on *)
(* with (its claim in gen, 0 for none), a finish to post.                      *)
NothingToDo == [step |-> "none", gen |-> 0]

Free(th) == up /\ doing[th] = NothingToDo
Does(th, step) == doing[th].step = step
Post(kind, gen) == queue' = Append(queue, [kind |-> kind, gen |-> gen])

(* What the thread does once its claim is made: it posts the finish. *)
PostsFinish(gen) == IF gen = 0 THEN NothingToDo ELSE [step |-> "finish", gen |-> gen]

-----------------------------------------------------------------------------
ToolboxInit ==
  /\ word = [gen |-> 0, phase |-> "idle"]
  /\ user = NoThread
  /\ doing = [th \in Threads |-> NothingToDo]
  /\ queue = <<>>
  /\ marker = FALSE /\ shell = 0 /\ unreported = FALSE /\ up = TRUE

(* create_parser_ingest: the dataset's progress entry is kept and reused. *)
Create(th) ==
  /\ Free(th) /\ user = NoThread
  /\ user' = th
  /\ marker' = TRUE
  /\ UNCHANGED <<word, doing, queue, shell, unreported, up>>

(* progress_start re-arms the word; on the GUI thread the shell is called at *)
(* once, elsewhere the begin is posted next.                                 *)
Start(th) ==
  /\ Free(th) /\ user = th /\ word.gen < MaxSequences
  /\ LET gen == word.gen + 1 IN
       /\ word' = [gen |-> gen, phase |-> "active"]
       /\ IF th = Gui THEN shell' = gen /\ UNCHANGED doing
          ELSE doing' = [doing EXCEPT ![th] = [step |-> "begin", gen |-> gen]] /\ UNCHANGED shell
  /\ UNCHANGED <<user, queue, marker, unreported, up>>

PostBegin(th) ==
  /\ Does(th, "begin")
  /\ Post("begin", doing[th].gen)
  /\ doing' = [doing EXCEPT ![th] = NothingToDo]
  /\ UNCHANGED <<word, user, marker, shell, unreported, up>>

(* claimIngestFinish: the terminal of an active sequence is claimed, once. *)
Claimed == IF word.phase = "active" THEN word.gen ELSE 0
Claim == word' = [word EXCEPT !.phase = IF @ = "active" THEN "queued" ELSE @]

(* progress_finish. *)
FinishHook(th) ==
  /\ Free(th) /\ user = th
  /\ Claim
  /\ doing' = [doing EXCEPT ![th] = PostsFinish(Claimed)]
  /\ UNCHANGED <<user, queue, marker, shell, unreported, up>>

(* Mutant of the post: on the GUI thread the finish is delivered at once. *)
PostFinishDirect(th) ==
  /\ Does(th, "finish")
  /\ doing' = [doing EXCEPT ![th] = NothingToDo]
  /\ IF th # Gui
       THEN Post("finish", doing[th].gen) /\ UNCHANGED <<word, shell>>
       ELSE /\ UNCHANGED queue
            /\ IF word = [gen |-> doing[th].gen, phase |-> "queued"]
                 THEN word' = [word EXCEPT !.phase = "idle"] /\ shell' = 0
                 ELSE UNCHANGED <<word, shell>>
  /\ UNCHANGED <<user, marker, unreported, up>>

(* The finish is posted, never called, on the GUI thread too. *)
PostFinish(th) ==
  /\ Does(th, "finish")
  /\ Post("finish", doing[th].gen)
  /\ doing' = [doing EXCEPT ![th] = NothingToDo]
  /\ UNCHANGED <<word, user, marker, shell, unreported, up>>

-----------------------------------------------------------------------------
(* release and discard are called while no hook of the context runs. *)
NoHookRuns == user # NoThread /\ doing[user] = NothingToDo

(* Mutant of release: the claim waits for the rows, outside the lock. *)
ReleaseUnclaimed(th) ==
  /\ Free(th) /\ NoHookRuns
  /\ user' = NoThread
  /\ doing' = [doing EXCEPT ![th] = [step |-> "seal", gen |-> 0]]
  /\ UNCHANGED <<word, queue, marker, shell, unreported, up>>

(* release_parser_ingest, under the lock: the context goes and its terminal *)
(* is claimed.                                                              *)
Release(th) ==
  /\ Free(th) /\ NoHookRuns
  /\ user' = NoThread
  /\ Claim
  /\ doing' = [doing EXCEPT ![th] = [step |-> "seal", gen |-> Claimed]]
  /\ UNCHANGED <<queue, marker, shell, unreported, up>>

(* Its rows are sealed; then, locked again, the import is marked. *)
Seal(th) ==
  /\ Does(th, "seal")
  /\ unreported' = TRUE
  /\ doing' = [doing EXCEPT ![th].step = "mark"]
  /\ UNCHANGED <<word, user, queue, marker, shell, up>>

Mark(th) ==
  /\ Does(th, "mark")
  /\ marker' = TRUE
  /\ doing' = [doing EXCEPT ![th] = PostsFinish(doing[th].gen)]
  /\ UNCHANGED <<word, user, queue, shell, unreported, up>>

(* discard_parser_ingest: no rows, no marker. *)
Discard(th) ==
  /\ MayDiscard /\ Free(th) /\ NoHookRuns
  /\ user' = NoThread
  /\ Claim
  /\ marker' = FALSE
  /\ doing' = [doing EXCEPT ![th] = PostsFinish(Claimed)]
  /\ UNCHANGED <<queue, shell, unreported, up>>

(* notify_data_changed, on the GUI thread: the marked import is reported, and *)
(* the one whose sequence is active.                                          *)
Report ==
  /\ unreported' = (unreported /\ ~marker /\ word.phase # "active")
  /\ marker' = FALSE

Notify(th) ==
  /\ Free(th)
  /\ IF th = Gui THEN Report /\ UNCHANGED queue
     ELSE /\ \A i \in 1 .. Len(queue) : queue[i].kind # "notify"   \* bound: one is queued at a time
          /\ Post("notify", 0) /\ UNCHANGED <<marker, unreported>>
  /\ UNCHANGED <<word, user, doing, shell, up>>

-----------------------------------------------------------------------------
(* The event loop delivers the oldest call, between calls of the GUI thread. *)
Delivers(kind) == Free(Gui) /\ queue # <<>> /\ Head(queue).kind = kind /\ queue' = Tail(queue)

(* on_ingest_started: the shell begins, superseding what it showed. *)
DeliverBegin ==
  /\ Delivers("begin")
  /\ shell' = Head(queue).gen
  /\ UNCHANGED <<word, user, doing, marker, unreported, up>>

(* Mutant of the delivery: the word is not looked at. *)
DeliverFinishAlways ==
  /\ Delivers("finish")
  /\ word' = [word EXCEPT !.phase = "idle"] /\ shell' = 0
  /\ UNCHANGED <<user, doing, marker, unreported, up>>

(* on_ingest_finished fires if the word is still the one claimed. *)
DeliverFinish ==
  /\ Delivers("finish")
  /\ IF word = [gen |-> Head(queue).gen, phase |-> "queued"]
       THEN word' = [word EXCEPT !.phase = "idle"] /\ shell' = 0
       ELSE UNCHANGED <<word, shell>>
  /\ UNCHANGED <<user, doing, marker, unreported, up>>

DeliverNotify ==
  /\ Delivers("notify")
  /\ Report
  /\ UNCHANGED <<word, user, doing, shell, up>>

(* The destructor, the plugin's threads quiesced: the sweep finishes what is  *)
(* active or claimed; the queue goes with the receiver of its calls.          *)
Destroy ==
  /\ Free(Gui) /\ \A th \in Threads : doing[th] = NothingToDo
  /\ up' = FALSE /\ user' = NoThread /\ queue' = <<>> /\ marker' = FALSE
  /\ word' = [gen |-> 0, phase |-> "idle"]
  /\ shell' = IF word.phase # "idle" THEN 0 ELSE shell
  /\ UNCHANGED <<doing, unreported>>

Continue(th) == PostBegin(th) \/ PostFinish(th) \/ Seal(th) \/ Mark(th)
PluginCall(th) == Create(th) \/ Start(th) \/ FinishHook(th) \/ Release(th) \/ Discard(th) \/ Notify(th)
DeliverNext == DeliverBegin \/ DeliverFinish \/ DeliverNotify

ToolboxNext == (\E th \in Threads : PluginCall(th) \/ Continue(th)) \/ DeliverNext \/ Destroy

ToolboxSpec == ToolboxInit /\ [][ToolboxNext]_toolboxVars

(* A call goes on to its end, and the event loop turns whatever the plugin *)
(* calls on the GUI thread in between.                                     *)
ToolboxFairness == (\A th \in Threads : WF_toolboxVars(Continue(th))) /\ SF_toolboxVars(DeliverNext)

ToolboxFairSpec == ToolboxSpec /\ ToolboxFairness

-----------------------------------------------------------------------------
Underway(gen) ==
  \/ \E i \in 1 .. Len(queue) : queue[i] = [kind |-> "finish", gen |-> gen]
  \/ \E th \in Threads : doing[th].gen = gen /\ doing[th].step \in {"seal", "mark", "finish"}

(* The shell's import row never wedges: while it shows one, a sequence is     *)
(* active or its claimed finish is under way, whatever thread released,       *)
(* re-created or re-armed the context; and the destructor leaves none.        *)
NoWedgedRow ==
  shell # 0 => word.phase = "active" \/ (word.phase = "queued" /\ Underway(word.gen))

(* A delivered finish never retires a sequence that is active: one queued    *)
(* for an earlier sequence is void once the word is armed again.             *)
NoStolenFinish ==
  [][up' /\ shell # 0 /\ shell' = 0 => word.phase # "active"]_toolboxVars

(* "Datasets whose context was released since the previous notify" are told: *)
(* rows that a release sealed and no notify reported are marked, or will be  *)
(* when that release goes on.                                                *)
ReleasedIsReported ==
  unreported /\ up => marker \/ word.phase = "active" \/ \E th \in Threads : Does(th, "mark")

(* Once a context is released, the shell's row goes away, or a new context   *)
(* is created.                                                               *)
ReleasedRowGoes == up /\ user = NoThread ~> shell = 0 \/ user # NoThread
=============================================================================
