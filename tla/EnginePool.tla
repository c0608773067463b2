----------------------------- MODULE EnginePool -----------------------------
(***************************************************************************)
(* pj_runtime's EnginePool: runs submitted on the GUI thread compute on    *)
(* the worker threads of two lanes and are published back on the GUI       *)
(* thread by bounded drain passes.                                         *)
(*                                                                         *)
(* The GUI thread is a call stack.  A publish may submit, cancel, wait     *)
(* (waitIdle), open a dialog (a nested event loop that delivers the posted *)
(* drains too) or destroy the pool, so drain passes nest in each other.    *)
(* A worker's finish and each mutex section of drain are single steps.     *)
(***************************************************************************)
EXTENDS Integers, Sequences, FiniteSets

CONSTANTS
  Tasks,          (* the runs a behaviour may submit, each at most once        *)
  PythonTasks,    (* those submitted to the Python lane                        *)
  SharedThreads,  (* threads of the shared lane; the Python lane has one       *)
  MaxPublishes,   (* kMaxPublishesPerDrain                                     *)
  MaxDepth,       (* bound: no dialog or waitIdle on a stack this deep, for TLC *)
  NoRun           (* no run: a drain between two publishes                     *)

ASSUME PoolAssumption ==
  /\ IsFiniteSet(Tasks) /\ PythonTasks \subseteq Tasks
  /\ SharedThreads \in Nat \ {0}
  /\ MaxPublishes \in Nat \ {0}
  /\ MaxDepth \in Nat
  /\ NoRun \notin Tasks

VARIABLES
  place,        (* per run: where it is in its life                          *)
  cancelled,    (* per run: its token's run_cancelled_ flag                  *)
  computed,     (* per run: its compute was called                           *)
  outcome,      (* per run: Outcome::status, final once it is published      *)
  finished,     (* finished_: the runs whose publication is due, in order    *)
  drainPosted,  (* drain_posted_                                             *)
  outstanding,  (* outstanding_                                              *)
  phase,        (* the pool is "up", "stopping" in its destructor, or "gone" *)
  stack         (* the GUI thread above its event loop, innermost last       *)

vars == <<place, cancelled, computed, outcome, finished, drainPosted, outstanding, phase, stack>>

Place == {"new", "queued", "computing", "finished", "publishing", "published", "dropped"}
Status == {"completed", "cancelled", "failed"}

(* A frame of the GUI thread: a drain pass with the run it publishes and how *)
(* many it published, a waitIdle with its loop's exit request, a dialog's    *)
(* event loop, or the destructor.                                            *)
Frame == [kind : {"drain", "wait", "dialog", "destroy"}, run : Tasks \cup {NoRun},
          published : 0 .. MaxPublishes, quit : BOOLEAN]

NewFrame(kind) == [kind |-> kind, run |-> NoRun, published |-> 0, quit |-> FALSE]

Push(frame) == stack' = Append(stack, frame)
Pop == SubSeq(stack, 1, Len(stack) - 1)
Top == stack[Len(stack)]
OnTop(kind) == stack # <<>> /\ Top.kind = kind

(* An event loop turns: the main one, a dialog's or waitIdle's. *)
EventLoop == stack # <<>> => Top.kind \in {"wait", "dialog"}
Publishing == OnTop("drain") /\ Top.run # NoRun
Draining == OnTop("drain") /\ Top.run = NoRun

(* The GUI thread runs a consumer's code: an event's handler or a publish. *)
ConsumerRuns == phase = "up" /\ (EventLoop \/ Publishing)
Deeper == Len(stack) < MaxDepth

In(set) == {t \in Tasks : place[t] \in set}
Pending == {"queued", "computing", "finished"}

Waiting == \E i \in 1 .. Len(stack) : stack[i].kind = "wait"

-----------------------------------------------------------------------------
Init ==
  /\ place = [t \in Tasks |-> "new"]
  /\ cancelled = [t \in Tasks |-> FALSE]
  /\ computed = [t \in Tasks |-> FALSE]
  /\ outcome = [t \in Tasks |-> "completed"]
  /\ finished = <<>>
  /\ drainPosted = FALSE
  /\ outstanding = 0
  /\ phase = "up"
  /\ stack = <<>>

(* Mutant of submit: the run is not counted. *)
SubmitUncounted(t) ==
  /\ ConsumerRuns /\ place[t] = "new"
  /\ place' = [place EXCEPT ![t] = "queued"]
  /\ UNCHANGED <<cancelled, computed, outcome, finished, drainPosted, outstanding, phase, stack>>

(* submit: the run is counted and handed to its lane. *)
Submit(t) ==
  /\ ConsumerRuns /\ place[t] = "new"
  /\ place' = [place EXCEPT ![t] = "queued"]
  /\ outstanding' = outstanding + 1
  /\ UNCHANGED <<cancelled, computed, outcome, finished, drainPosted, phase, stack>>

(* CancelToken::cancel; once the run is published it changes nothing. *)
Cancel(t) ==
  /\ ConsumerRuns /\ place[t] \in Pending
  /\ cancelled' = [cancelled EXCEPT ![t] = TRUE]
  /\ UNCHANGED <<place, computed, outcome, finished, drainPosted, outstanding, phase, stack>>

(* A lane's thread is free for t. *)
ThreadFree(t) ==
  IF t \in PythonTasks
    THEN In({"computing"}) \cap PythonTasks = {}
    ELSE Cardinality(In({"computing"}) \ PythonTasks) < SharedThreads

(* Mutant of Job::run: a run cancelled before its start is not handed over. *)
StartDropsCancelled(t) ==
  /\ place[t] = "queued" /\ ThreadFree(t)
  /\ place' = [place EXCEPT ![t] = IF cancelled[t] THEN "published" ELSE "computing"]
  /\ computed' = [computed EXCEPT ![t] = ~cancelled[t]]
  /\ outcome' = [outcome EXCEPT ![t] = IF cancelled[t] THEN "cancelled" ELSE @]
  /\ UNCHANGED <<cancelled, finished, drainPosted, outstanding, phase, stack>>

(* Job::run begins: the compute is skipped when the token is cancelled. *)
Start(t) ==
  /\ place[t] = "queued" /\ ThreadFree(t)
  /\ place' = [place EXCEPT ![t] = "computing"]
  /\ computed' = [computed EXCEPT ![t] = ~(cancelled[t] \/ phase # "up")]
  /\ UNCHANGED <<cancelled, outcome, finished, drainPosted, outstanding, phase, stack>>

(* Job::run ends, by a return or a throw, and finish hands the run over. *)
Finish(t) ==
  /\ place[t] = "computing"
  /\ place' = [place EXCEPT ![t] = "finished"]
  /\ \E status \in IF computed[t] THEN {"completed", "failed"} ELSE {"completed"} :
       outcome' = [outcome EXCEPT ![t] = status]
  /\ finished' = Append(finished, t)
  /\ drainPosted' = TRUE
  /\ UNCHANGED <<cancelled, computed, outstanding, phase, stack>>

-----------------------------------------------------------------------------
(* drain begins in an event loop: from here on a finish posts the next one. *)
DrainBegin ==
  /\ phase = "up" /\ drainPosted /\ EventLoop
  /\ drainPosted' = FALSE
  /\ Push(NewFrame("drain"))
  /\ UNCHANGED <<place, cancelled, computed, outcome, finished, outstanding, phase>>

(* Mutants of the take: no drain is posted for the results left over; the  *)
(* run is published with the outcome its worker wrote.                     *)
TakeLeavesNoDrain ==
  /\ Draining /\ Top.published < MaxPublishes /\ finished # <<>>
  /\ LET t == Head(finished) IN
       /\ place' = [place EXCEPT ![t] = "publishing"]
       /\ outcome' = [outcome EXCEPT ![t] = IF cancelled[t] THEN "cancelled" ELSE @]
       /\ stack' = Append(Pop, [Top EXCEPT !.run = t])
  /\ finished' = Tail(finished)
  /\ outstanding' = outstanding - 1
  /\ UNCHANGED <<cancelled, computed, drainPosted, phase>>

TakeKeepsOutcome ==
  /\ Draining /\ Top.published < MaxPublishes /\ finished # <<>>
  /\ LET t == Head(finished) IN
       /\ place' = [place EXCEPT ![t] = "publishing"]
       /\ stack' = Append(Pop, [Top EXCEPT !.run = t])
  /\ finished' = Tail(finished)
  /\ drainPosted' = (drainPosted \/ Tail(finished) # <<>>)
  /\ outstanding' = outstanding - 1
  /\ UNCHANGED <<cancelled, computed, outcome, phase>>

(* drain takes the oldest finished run, posts a drain for what is left over *)
(* and calls the publish; a cancelled run is published as cancelled.        *)
Take ==
  /\ Draining /\ Top.published < MaxPublishes /\ finished # <<>>
  /\ LET t == Head(finished) IN
       /\ place' = [place EXCEPT ![t] = "publishing"]
       /\ outcome' = [outcome EXCEPT ![t] = IF cancelled[t] THEN "cancelled" ELSE @]
       /\ stack' = Append(Pop, [Top EXCEPT !.run = t])
  /\ finished' = Tail(finished)
  /\ drainPosted' = (drainPosted \/ Tail(finished) # <<>>)
  /\ outstanding' = outstanding - 1
  /\ UNCHANGED <<cancelled, computed, phase>>

(* The publish returned: the pass goes on, unless the publish destroyed the *)
(* pool.                                                                   *)
PublishReturns ==
  /\ Publishing
  /\ place' = [place EXCEPT ![Top.run] = "published"]
  /\ stack' = IF phase = "up"
                THEN Append(Pop, [Top EXCEPT !.run = NoRun, !.published = @ + 1])
                ELSE Pop
  /\ UNCHANGED <<cancelled, computed, outcome, finished, drainPosted, outstanding, phase>>

(* The drained signal: every waitIdle whose work is done asks its loop to exit. *)
Drained(frames, published) ==
  [i \in 1 .. Len(frames) |->
     IF frames[i].kind = "wait" /\ published > 0 /\ outstanding = 0
       THEN [frames[i] EXCEPT !.quit = TRUE] ELSE frames[i]]

(* Mutants of the end of a pass: drain_posted_ is cleared here, at the end; *)
(* only the innermost loop is asked to exit.                                *)
DrainEndClearsPosted ==
  /\ Draining /\ (Top.published = MaxPublishes \/ finished = <<>>)
  /\ stack' = Drained(Pop, Top.published)
  /\ drainPosted' = FALSE
  /\ UNCHANGED <<place, cancelled, computed, outcome, finished, outstanding, phase>>

DrainEndTellsInnermost ==
  /\ Draining /\ (Top.published = MaxPublishes \/ finished = <<>>)
  /\ stack' = [i \in 1 .. Len(Pop) |-> IF i < Len(Pop) THEN Pop[i] ELSE Drained(Pop, Top.published)[i]]
  /\ UNCHANGED <<place, cancelled, computed, outcome, finished, drainPosted, outstanding, phase>>

DrainEnd ==
  /\ Draining /\ (Top.published = MaxPublishes \/ finished = <<>>)
  /\ stack' = Drained(Pop, Top.published)
  /\ UNCHANGED <<place, cancelled, computed, outcome, finished, drainPosted, outstanding, phase>>

-----------------------------------------------------------------------------
(* waitIdle with work outstanding runs a nested event loop. *)
WaitIdle ==
  /\ ConsumerRuns /\ Deeper /\ outstanding > 0
  /\ Push(NewFrame("wait"))
  /\ UNCHANGED <<place, cancelled, computed, outcome, finished, drainPosted, outstanding, phase>>

(* Its loop exits: waitIdle returns, or waits again for what was submitted. *)
WaitExits ==
  /\ OnTop("wait") /\ Top.quit
  /\ stack' = IF outstanding > 0 THEN Append(Pop, [Top EXCEPT !.quit = FALSE]) ELSE Pop
  /\ UNCHANGED <<place, cancelled, computed, outcome, finished, drainPosted, outstanding, phase>>

(* A handler or a publish opens a dialog; the user closes it. *)
OpenDialog ==
  /\ ConsumerRuns /\ Deeper
  /\ Push(NewFrame("dialog"))
  /\ UNCHANGED <<place, cancelled, computed, outcome, finished, drainPosted, outstanding, phase>>

CloseDialog ==
  /\ OnTop("dialog")
  /\ stack' = Pop
  /\ UNCHANGED <<place, cancelled, computed, outcome, finished, drainPosted, outstanding, phase>>

(* The destructor: every token reads cancelled, no finish posts a drain, and *)
(* the runs not started are deleted unrun.  Never while a waitIdle waits.    *)
DestroyBegin ==
  /\ ConsumerRuns /\ ~Waiting
  /\ phase' = "stopping"
  /\ drainPosted' = TRUE
  /\ place' = [t \in Tasks |-> IF place[t] = "queued" THEN "dropped" ELSE place[t]]
  /\ Push(NewFrame("destroy"))
  /\ UNCHANGED <<cancelled, computed, outcome, finished, outstanding>>

(* waitForDone returned on both lanes: the finished runs go unpublished. *)
DestroyEnd ==
  /\ OnTop("destroy") /\ In({"computing"}) = {}
  /\ phase' = "gone"
  /\ place' = [t \in Tasks |-> IF place[t] = "finished" THEN "dropped" ELSE place[t]]
  /\ finished' = <<>>
  /\ stack' = Pop
  /\ UNCHANGED <<cancelled, computed, outcome, drainPosted, outstanding>>

Worker == \E t \in Tasks : Start(t) \/ Finish(t)
Drain == DrainBegin \/ Take \/ PublishReturns \/ DrainEnd
Consumer ==
  \/ \E t \in Tasks : Submit(t) \/ Cancel(t)
  \/ WaitIdle \/ WaitExits \/ OpenDialog \/ CloseDialog
  \/ DestroyBegin \/ DestroyEnd

Next == Worker \/ Drain \/ Consumer

Spec == Init /\ [][Next]_vars

(* The lanes start and end what they are given (a compute is bounded), the   *)
(* event loop delivers a posted drain, a publish is finite code that opens   *)
(* finitely many dialogs, and the calls on top of the stack go on; an event  *)
(* loop asked to exit looks at that after every turn, so that a dialog a     *)
(* handler opens in one only delays it.  No dialog need ever be closed.      *)
Fairness ==
  /\ WF_vars(\E t \in Tasks : Start(t)) /\ WF_vars(\E t \in Tasks : Finish(t))
  /\ WF_vars(DrainBegin) /\ WF_vars(Take \/ DrainEnd \/ DestroyEnd)
  /\ SF_vars(PublishReturns) /\ SF_vars(WaitExits)

FairSpec == Spec /\ Fairness

-----------------------------------------------------------------------------
(* Every variable holds what its C++ member can hold. *)
TypeOK ==
  /\ place \in [Tasks -> Place]
  /\ cancelled \in [Tasks -> BOOLEAN] /\ computed \in [Tasks -> BOOLEAN]
  /\ outcome \in [Tasks -> Status]
  /\ finished \in Seq(Tasks)
  /\ drainPosted \in BOOLEAN
  /\ outstanding \in Nat
  /\ phase \in {"up", "stopping", "gone"}
  /\ stack \in Seq(Frame)

(* outstanding_ counts the runs submitted and not published, each once, on  *)
(* every path of workers, nested passes and dialogs: waitIdle trusts it.    *)
OutstandingExact == phase = "up" => outstanding = Cardinality(In(Pending))

(* No result is stranded: whenever an event loop turns, a finished run has a *)
(* drain posted for it, however the pass that ran before it ended, so a      *)
(* dialog opened by a publish does not hold back the results behind it.      *)
NoStrandedResult == phase = "up" /\ EventLoop /\ finished # <<>> => drainPosted

(* waitIdle never hangs: with nothing outstanding, the loop that turns for   *)
(* it has been asked to exit, whichever pass published its last run.         *)
NoHungWait == phase = "up" /\ OnTop("wait") /\ outstanding = 0 => Top.quit

(* A run whose compute never ran is never published as a completed one,      *)
(* although its worker hands it over with the outcome of a completed run.    *)
SkippedIsCancelled ==
  \A t \in Tasks : place[t] \in {"publishing", "published"} /\ ~computed[t] => outcome[t] = "cancelled"

(* Every submitted run is published, or dropped by the destructor: dialogs   *)
(* that never close, cancels, throws and full passes included.  The runs are *)
(* finitely many, so that from some point on none is pending any more.       *)
EveryRunSettles == <>[](In(Pending) = {})

(* Every waitIdle returns, called by an event, inside a dialog or inside a   *)
(* publish, unless one of the dialogs opened above it is never closed: one   *)
(* below it, or one that comes and goes, holds nothing up.                   *)
OpenAt(i, kind) == i <= Len(stack) /\ stack[i].kind = kind

WaitReturns ==
  \A depth \in 1 .. MaxDepth :
    OpenAt(depth, "wait") ~> \/ ~OpenAt(depth, "wait")
                             \/ \E above \in depth + 1 .. MaxDepth : []OpenAt(above, "dialog")
=============================================================================
