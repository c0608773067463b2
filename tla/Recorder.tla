------------------------------- MODULE Recorder -------------------------------
(***************************************************************************)
(* pj_runtime's Recorder: push threads hand messages to the one writer      *)
(* thread through a queue with a byte budget; threads stop the recording.   *)
(*                                                                          *)
(* Each step is one critical section of mu_, one call of the sink, or one   *)
(* notification made after mu_ is left.  `asleep` holds the threads blocked *)
(* on a condition variable: a thread it no longer holds was notified and    *)
(* looks at its predicate again.                                            *)
(*                                                                          *)
(* Left out: the extra metadata, the causes' texts, the running out of ids, *)
(* and an allocation failing while mu_ is held.                             *)
(***************************************************************************)
EXTENDS Integers, Sequences, FiniteSetsExt

CONSTANTS
  Producers,   (* the push threads                                             *)
  Stoppers,    (* the threads that call requestStop and stop                   *)
  Bindings,    (* the bindings the messages come on                            *)
  Costs,       (* what messages cost the budget (queuedCost)                   *)
  Budget,      (* queue_budget_bytes                                           *)
  SinkFails,   (* the sink may reject calls, and a payload's copy may throw    *)
  MaxPushes,   (* bound: the messages each producer pushes                     *)
  Writer, NoItem

ASSUME RecorderAssumption ==
  /\ IsFiniteSet(Producers)
  /\ Writer \notin Producers \cup Stoppers /\ Producers \cap Stoppers = {}
  /\ Costs \subseteq Nat \ {0} /\ Budget \in Nat
  /\ SinkFails \in BOOLEAN
  /\ MaxPushes \in Nat

VARIABLES
  blocks,     (* config_'s overflow policy: TRUE for kBlock, FALSE for kDropLargest *)
  state,      (* state_                                                       *)
  leave,      (* drain_and_exit_                                              *)
  queue,      (* queue_: channel adds and messages, oldest first              *)
  bytes,      (* queued_bytes_                                                *)
  channels,   (* the bindings of channels_                                    *)
  counts,     (* written_messages_, the writer's pending ones, dropped_messages_ *)
  summary,    (* the facts of summary_, and how far stop() got with it        *)
  sink,       (* the sink: its life, its channels, the messages it took       *)
  push,       (* per producer: its call of onMessage                          *)
  writer,     (* the writer thread                                            *)
  stop,       (* per stopper: its call                                        *)
  asleep      (* the threads waiting on items_cv_ and on space_cv_            *)

vars == <<blocks, state, leave, queue, bytes, channels, counts, summary, sink, push, writer, stop, asleep>>

IsMessage(item) == item.kind = "message"

(* Where the messages are in q, what size_index_ holds. *)
Messages(q) == {i \in 1 .. Len(q) : IsMessage(q[i])}

(* The bytes of the messages in q. *)
CostOf(q) ==
  LET sum[i \in 0 .. Len(q)] == IF i = 0 THEN 0 ELSE sum[i - 1] + (IF IsMessage(q[i]) THEN q[i].cost ELSE 0)
  IN  sum[Len(q)]

Sleep(thread, cv) == asleep' = [asleep EXCEPT ![cv] = @ \cup {thread}]
Awake(thread) == \A cv \in {"items", "space"} : thread \notin asleep[cv]
NotifyAll == asleep' = [items |-> {}, space |-> {}]
NotifyOneItem ==
  IF asleep.items = {} THEN UNCHANGED asleep
  ELSE \E thread \in asleep.items : asleep' = [asleep EXCEPT !.items = @ \ {thread}]

-----------------------------------------------------------------------------
Init ==
  /\ blocks \in BOOLEAN
  /\ state = "idle" /\ leave = FALSE
  /\ queue = <<>> /\ bytes = 0 /\ channels = {}
  /\ counts = [written |-> 0, pending |-> 0, dropped |-> 0]
  /\ summary = [entered |-> FALSE, frozen |-> FALSE, published |-> FALSE,
                truncated |-> FALSE, incomplete |-> FALSE, messages |-> 0, dropped |-> 0]
  /\ sink = [life |-> "unopened", channels |-> {}, file |-> <<>>]
  /\ push = [p \in Producers |-> [step |-> "idle", message |-> NoItem, calls |-> 0, kept |-> 0]]
  /\ writer = [step |-> "none", item |-> NoItem, then |-> "loop"]
  /\ stop = [s \in Stoppers |-> [step |-> "idle", only |-> FALSE]]
  /\ asleep = [items |-> {}, space |-> {}]

(* start: before a tap or the recorder is handed to anybody. *)
StartRuns ==
  /\ state = "idle" /\ sink.life = "unopened"
  /\ sink' = [sink EXCEPT !.life = "open"]
  /\ writer' = [writer EXCEPT !.step = "loop"]
  /\ state' = "running"
  /\ UNCHANGED <<blocks, leave, queue, bytes, channels, counts, summary, push, stop, asleep>>

(* The sink did not open: the recorder stays idle. *)
StartFails ==
  /\ SinkFails /\ state = "idle" /\ sink.life = "unopened"
  /\ sink' = [sink EXCEPT !.life = "refused"]
  /\ UNCHANGED <<blocks, state, leave, queue, bytes, channels, counts, summary, push, writer, stop, asleep>>

(* The writer did not start: finalizeWithoutWriter closes the file. *)
StartWithoutWriter ==
  /\ SinkFails /\ state = "idle" /\ sink.life = "unopened"
  /\ sink' = [sink EXCEPT !.life = "closed"]
  /\ \E incomplete \in BOOLEAN :
       summary' = [summary EXCEPT !.entered = TRUE, !.frozen = TRUE, !.published = TRUE,
                                  !.truncated = TRUE, !.incomplete = incomplete]
  /\ state' = "truncated"
  /\ UNCHANGED <<blocks, leave, queue, bytes, channels, counts, push, writer, stop, asleep>>

-----------------------------------------------------------------------------
(* The push threads. *)
Returned(p, m, verdict) ==
  [push EXCEPT ![p] = [step |-> IF verdict = "continue" THEN "idle" ELSE "detached", message |-> NoItem,
                       calls |-> m.n, kept |-> IF verdict = "continue" THEN @.kept + 1 ELSE @.kept]]

(* Mutant of the predicate: an oversized message waits for more than there is. *)
SpaceWithin(cost) == cost <= Budget /\ bytes <= Budget - cost

(* Mutant of the predicate: what fits the budget alone may enter. *)
SpaceAlone(cost) == bytes <= Budget

(* space_cv_'s predicate, while the recording runs. *)
Space(cost) == bytes = 0 \/ (cost <= Budget /\ bytes <= Budget - cost)

(* The last entry of size_index_: the biggest message, of equals the newest. *)
LargestOf(q) ==
  CHOOSE i \in Messages(q) :
    \A j \in Messages(q) : q[j].cost < q[i].cost \/ (q[j].cost = q[i].cost /\ j <= i)

RemoveIndex(q, i) == SubSeq(q, 1, i - 1) \o SubSeq(q, i + 1, Len(q))

Overflows(queued, cost) == queued + cost > Budget

(* evictLargest, on the queue left, the bytes freed and the messages evicted. *)
EvictLargest(r) ==
  LET large == LargestOf(r.queue)
  IN  [queue |-> RemoveIndex(r.queue, large), freed |-> r.freed + r.queue[large].cost, evicted |-> r.evicted + 1]

(* makeRoomFor's condition: the newcomer does not fit, and is not the largest. *)
MustEvict(r, cost) ==
  /\ Overflows(bytes - r.freed, cost)
  /\ Messages(r.queue) # {} /\ r.queue[LargestOf(r.queue)].cost > cost

MakeRoomFor(q, cost) ==
  LET loop[k \in 0 .. Len(q)] ==
        IF k = 0 THEN [queue |-> q, freed |-> 0, evicted |-> 0]
        ELSE IF MustEvict(loop[k - 1], cost) THEN EvictLargest(loop[k - 1]) ELSE loop[k - 1]
  IN  loop[Len(q)]

(* channelFor, then the admission: the message is charged before it is copied, *)
(* dropped as the largest, or its caller waits for space.                      *)
Admit(p, m) ==
  LET opens == m.binding \notin channels
      opened == IF opens THEN Append(queue, [kind |-> "add", binding |-> m.binding]) ELSE queue
      room == IF blocks THEN [queue |-> opened, freed |-> 0, evicted |-> 0] ELSE MakeRoomFor(opened, m.cost)
      fits == blocks \/ ~Overflows(bytes - room.freed, m.cost)
  IN  /\ queue' = room.queue
      /\ channels' = channels \cup {m.binding}
      /\ bytes' = bytes - room.freed + IF fits THEN m.cost ELSE 0
      /\ counts' = [counts EXCEPT !.dropped = @ + room.evicted + IF fits THEN 0 ELSE 1]
      /\ push' = IF fits THEN [push EXCEPT ![p].step = "copying", ![p].message = m] ELSE Returned(p, m, "continue")
      /\ IF opens THEN NotifyOneItem ELSE UNCHANGED asleep

(* The first section of enqueueMessage, for message m. *)
Enter(p, m) ==
  \/ /\ state # "running"
     /\ push' = Returned(p, m, "stop")
     /\ UNCHANGED <<blocks, queue, bytes, channels, counts, asleep>>
  \/ /\ state = "running" /\ blocks /\ ~Space(m.cost)
     /\ push' = [push EXCEPT ![p].step = "waiting", ![p].message = m]
     /\ Sleep(p, "space")
     /\ UNCHANGED <<blocks, queue, bytes, channels, counts>>
  \/ /\ state = "running" /\ (blocks => Space(m.cost))
     /\ Admit(p, m)

UnchangedByPush == UNCHANGED <<blocks, state, leave, summary, sink, writer, stop>>

(* onMessage is called, while the tap is installed. *)
Push(p) ==
  /\ push[p].step = "idle" /\ push[p].calls < MaxPushes /\ sink.life # "unopened"
  /\ \E binding \in Bindings, cost \in Costs :
       LET m == [kind |-> "message", binding |-> binding, cost |-> cost, from |-> p, n |-> push[p].calls + 1]
       IN  Enter(p, m)
  /\ UnchangedByPush

(* A caller waiting for space was notified. *)
Retry(p) ==
  /\ push[p].step = "waiting" /\ Awake(p)
  /\ Enter(p, push[p].message)
  /\ UnchangedByPush

(* Mutant of the second section: it does not look at the state again. *)
EnqueueUnchecked(p) ==
  /\ push[p].step = "copying"
  /\ push' = Returned(p, push[p].message, "continue")
  /\ queue' = Append(queue, push[p].message)
  /\ NotifyOneItem
  /\ UNCHANGED <<blocks, bytes, channels, counts>> /\ UnchangedByPush

(* The payload is copied: the message enters the queue while the recording *)
(* runs, and gives its charge back otherwise.                              *)
Enqueue(p) ==
  /\ push[p].step = "copying"
  /\ IF state = "running"
       THEN /\ push' = Returned(p, push[p].message, "continue")
            /\ queue' = Append(queue, push[p].message)
            /\ NotifyOneItem
       ELSE /\ push' = [push EXCEPT ![p].step = "refunding"]
            /\ UNCHANGED <<blocks, queue, asleep>>
  /\ UNCHANGED <<blocks, bytes, channels, counts>> /\ UnchangedByPush

CopyThrows(p) ==
  /\ SinkFails /\ push[p].step = "copying"
  /\ push' = [push EXCEPT ![p].step = "unwinding"]
  /\ UNCHANGED <<blocks, queue, bytes, channels, counts, asleep>> /\ UnchangedByPush

(* ~BudgetReservation, a section of its own. *)
Refund(p) ==
  /\ push[p].step \in {"refunding", "unwinding"}
  /\ bytes' = bytes - push[p].message.cost
  /\ asleep' = [asleep EXCEPT !.space = {}]
  /\ push' = IF push[p].step = "refunding" THEN Returned(p, push[p].message, "stop")
             ELSE [push EXCEPT ![p].step = "truncating"]
  /\ UNCHANGED <<blocks, queue, channels, counts>> /\ UnchangedByPush

(* truncate's first section: is the truncation accepted? *)
Truncates == ~summary.frozen /\ state \in {"running", "stopping"}

Truncated ==
  /\ state' = IF Truncates THEN "truncated" ELSE state
  /\ leave' = (leave \/ Truncates)

(* The tap's catch: a throwing push truncates. *)
PushTruncates(p) ==
  /\ push[p].step = "truncating"
  /\ Truncated
  /\ push' = IF Truncates THEN [push EXCEPT ![p].step = "notifying"] ELSE Returned(p, push[p].message, "stop")
  /\ UNCHANGED <<blocks, queue, bytes, channels, counts, summary, sink, writer, stop, asleep>>

PushNotifies(p) ==
  /\ push[p].step = "notifying"
  /\ NotifyAll
  /\ push' = Returned(p, push[p].message, "stop")
  /\ UNCHANGED <<blocks, queue, bytes, channels, counts>> /\ UnchangedByPush

-----------------------------------------------------------------------------
(* The writer thread. *)
WriterGoes(step) == writer' = [writer EXCEPT !.step = step]

(* The top of drainQueue's loop: the writer folds its count in and takes the *)
(* oldest item; told to leave, it leaves once the queue is drained.          *)
Dequeue ==
  /\ writer.step = "loop" \/ (writer.step = "waiting" /\ Awake(Writer))
  /\ counts' = [counts EXCEPT !.written = @ + counts.pending, !.pending = 0]
  /\ \/ /\ queue = <<>> /\ leave
        /\ WriterGoes("leaving") /\ UNCHANGED <<blocks, queue, bytes, asleep>>
     \/ /\ queue = <<>> /\ ~leave
        /\ WriterGoes("waiting") /\ Sleep(Writer, "items") /\ UNCHANGED <<blocks, queue, bytes>>
     \/ /\ queue # <<>>
        /\ writer' = [writer EXCEPT !.step = "taken", !.item = Head(queue)]
        /\ queue' = Tail(queue)
        /\ bytes' = bytes - CostOf(<<Head(queue)>>)
        /\ UNCHANGED asleep
  /\ UNCHANGED <<blocks, state, leave, channels, summary, sink, push, stop>>

(* Mutant of the refund's notification: nobody is told. *)
NotifySpaceNever ==
  /\ writer.step = "taken"
  /\ WriterGoes("calling")
  /\ UNCHANGED <<blocks, state, leave, queue, bytes, channels, counts, summary, sink, push, stop, asleep>>

NotifySpace ==
  /\ writer.step = "taken"
  /\ asleep' = [asleep EXCEPT !.space = {}]
  /\ WriterGoes("calling")
  /\ UNCHANGED <<blocks, state, leave, queue, bytes, channels, counts, summary, sink, push, stop>>

UnchangedBySink == UNCHANGED <<blocks, state, leave, queue, bytes, channels, summary, push, stop, asleep>>

(* The sink opens a channel, or rejects it: the recording truncates, and the *)
(* messages of the other channels are still written.                         *)
SinkAddsChannel ==
  /\ writer.step = "calling" /\ writer.item.kind = "add"
  /\ \/ sink' = [sink EXCEPT !.channels = @ \cup {writer.item.binding}] /\ WriterGoes("loop")
     \/ SinkFails /\ writer' = [writer EXCEPT !.step = "truncating", !.then = "loop"] /\ UNCHANGED sink
  /\ UNCHANGED counts /\ UnchangedBySink

SkipMessage ==
  /\ writer.step = "calling" /\ IsMessage(writer.item) /\ writer.item.binding \notin sink.channels
  /\ WriterGoes("loop")
  /\ UNCHANGED <<blocks, counts, sink>> /\ UnchangedBySink

SinkTakes ==
  /\ writer.step = "calling" /\ IsMessage(writer.item) /\ writer.item.binding \in sink.channels
  /\ sink' = [sink EXCEPT !.file = Append(@, [from |-> writer.item.from, n |-> writer.item.n])]
  /\ counts' = [counts EXCEPT !.pending = @ + 1]
  /\ WriterGoes("loop")
  /\ UnchangedBySink

(* Mutant of a rejected write: the loop goes on. *)
SinkThrowsGoesOn ==
  /\ SinkFails /\ writer.step = "calling"
  /\ sink' = [sink EXCEPT !.life = "failed"]
  /\ writer' = [writer EXCEPT !.step = "truncating", !.then = "loop"]
  /\ UNCHANGED counts /\ UnchangedBySink

(* The sink rejects a write, or throws: it is left alone from here on. *)
SinkThrows ==
  /\ SinkFails /\ writer.step = "calling"
  /\ IsMessage(writer.item) => writer.item.binding \in sink.channels
  /\ sink' = [sink EXCEPT !.life = "failed"]
  /\ writer' = [writer EXCEPT !.step = "truncating", !.then = "leaving"]
  /\ UNCHANGED counts /\ UnchangedBySink

WriterTruncates ==
  /\ writer.step = "truncating"
  /\ Truncated
  /\ WriterGoes(IF Truncates THEN "notifying" ELSE writer.then)
  /\ UNCHANGED <<blocks, queue, bytes, channels, counts, summary, sink, push, stop, asleep>>

WriterNotifies ==
  /\ writer.step = "notifying"
  /\ NotifyAll
  /\ WriterGoes(writer.then)
  /\ UNCHANGED <<blocks, state, leave, queue, bytes, channels, counts, summary, sink, push, stop>>

(* writerLoop's end: what is still queued is refunded and forgotten. *)
Discard ==
  /\ writer.step = "leaving"
  /\ bytes' = bytes - CostOf(queue)
  /\ queue' = <<>>
  /\ writer' = [writer EXCEPT !.step = "gone", !.item = NoItem]
  /\ UNCHANGED <<blocks, state, leave, channels, counts, summary, sink, push, stop, asleep>>

-----------------------------------------------------------------------------
(* The threads that stop. *)
StopGoes(s, step) == stop' = [stop EXCEPT ![s].step = step]
UnchangedByStop == UNCHANGED <<blocks, queue, bytes, channels, counts, push, writer>>

(* Mutant of requestStop: the writer is not told to leave. *)
RequestStopKeepsWriter(s) ==
  /\ stop[s].step = "idle"
  /\ \E only \in BOOLEAN :
       stop' = [stop EXCEPT ![s] = [step |-> IF state = "running" THEN "notifying" ELSE "entering", only |-> only]]
  /\ state' = IF state = "running" THEN "stopping" ELSE state
  /\ UNCHANGED <<blocks, leave, summary, sink, asleep>> /\ UnchangedByStop

(* requestStop, alone or at the head of stop(): admission ends. *)
RequestStop(s) ==
  /\ stop[s].step = "idle"
  /\ \E only \in BOOLEAN :
       stop' = [stop EXCEPT ![s] = [step |-> IF state = "running" THEN "notifying" ELSE "entering", only |-> only]]
  /\ state' = IF state = "running" THEN "stopping" ELSE state
  /\ leave' = (leave \/ state = "running")
  /\ UNCHANGED <<blocks, summary, sink, asleep>> /\ UnchangedByStop

NotifyStop(s) ==
  /\ stop[s].step = "notifying"
  /\ NotifyAll
  /\ StopGoes(s, "entering")
  /\ UNCHANGED <<blocks, state, leave, summary, sink>> /\ UnchangedByStop

ReturnFromRequest(s) ==
  /\ stop[s].step = "entering" /\ stop[s].only
  /\ StopGoes(s, "idle")
  /\ UNCHANGED <<blocks, state, leave, summary, sink, asleep>> /\ UnchangedByStop

(* The first caller of stop() goes on to the join; the others wait for its *)
(* summary.                                                                *)
EnterStop(s) ==
  /\ stop[s].step = "entering" /\ ~stop[s].only
  /\ IF state = "idle" \/ summary.published THEN StopGoes(s, "returned") /\ UNCHANGED <<blocks, summary, asleep>>
     ELSE IF summary.entered THEN StopGoes(s, "waiting") /\ Sleep(s, "items") /\ UNCHANGED summary
     ELSE StopGoes(s, "joining") /\ summary' = [summary EXCEPT !.entered = TRUE] /\ UNCHANGED asleep
  /\ UNCHANGED <<blocks, state, leave, sink>> /\ UnchangedByStop

AwaitSummary(s) ==
  /\ stop[s].step = "waiting" /\ Awake(s)
  /\ IF summary.published THEN StopGoes(s, "returned") /\ UNCHANGED asleep ELSE Sleep(s, "items") /\ UNCHANGED stop
  /\ UNCHANGED <<blocks, state, leave, summary, sink>> /\ UnchangedByStop

(* The writer has left: the facts of the summary are frozen and read. *)
Freeze(s) ==
  /\ stop[s].step = "joining" /\ writer.step = "gone"
  /\ summary' = [summary EXCEPT !.frozen = TRUE, !.truncated = (state = "truncated"),
                                !.messages = counts.written, !.dropped = counts.dropped]
  /\ StopGoes(s, "closing")
  /\ UNCHANGED <<blocks, state, leave, sink, asleep>> /\ UnchangedByStop

(* The sink closes the file, or fails to: the file is then incomplete. *)
CloseSink(s) ==
  /\ stop[s].step = "closing"
  /\ sink' = [sink EXCEPT !.life = "closed"]
  /\ \E failed \in IF SinkFails THEN BOOLEAN ELSE {FALSE} :
       summary' = [summary EXCEPT !.incomplete = failed, !.truncated = @ \/ failed]
  /\ StopGoes(s, "publishing")
  /\ UNCHANGED <<blocks, state, leave, asleep>> /\ UnchangedByStop

Publish(s) ==
  /\ stop[s].step = "publishing"
  /\ state' = IF summary.truncated THEN "truncated" ELSE "finished"
  /\ summary' = [summary EXCEPT !.published = TRUE]
  /\ StopGoes(s, "telling")
  /\ UNCHANGED <<blocks, leave, sink, asleep>> /\ UnchangedByStop

TellSummary(s) ==
  /\ stop[s].step = "telling"
  /\ asleep' = [asleep EXCEPT !.items = {}]
  /\ StopGoes(s, "returned")
  /\ UNCHANGED <<blocks, state, leave, summary, sink>> /\ UnchangedByStop

-----------------------------------------------------------------------------
Start == StartRuns \/ StartFails \/ StartWithoutWriter
PushStep(p) == Retry(p) \/ Enqueue(p) \/ Refund(p) \/ PushTruncates(p) \/ PushNotifies(p)
WriterStep == Dequeue \/ NotifySpace \/ SkipMessage \/ WriterTruncates \/ WriterNotifies \/ Discard
SinkStep == SinkAddsChannel \/ SinkTakes \/ SinkThrows
StopStep(s) ==
  \/ NotifyStop(s) \/ ReturnFromRequest(s) \/ EnterStop(s) \/ AwaitSummary(s)
  \/ Freeze(s) \/ Publish(s) \/ TellSummary(s)

Next ==
  \/ Start
  \/ \E p \in Producers : Push(p) \/ CopyThrows(p) \/ PushStep(p)
  \/ WriterStep \/ SinkStep
  \/ \E s \in Stoppers : sink.life # "unopened" /\ RequestStop(s)
  \/ \E s \in Stoppers : StopStep(s) \/ CloseSink(s)

Spec == Init /\ [][Next]_vars

(* Every thread gets the lock it waits for and goes on; the sink may hang. *)
ThreadFairness ==
  /\ \A p \in Producers : WF_vars(PushStep(p))
  /\ \A s \in Stoppers : WF_vars(StopStep(s))
  /\ WF_vars(WriterStep)

(* The sink's calls return: what only some properties need. *)
SinkFairness == WF_vars(SinkStep \/ \E s \in Stoppers : CloseSink(s))

FairSpec == Spec /\ ThreadFairness

-----------------------------------------------------------------------------
Charged == {p \in Producers : push[p].step \in {"copying", "refunding", "unwinding"}}

(* The budget is charged for exactly what is queued or being copied, whoever *)
(* evicts, refunds, throws or discards in between: queued_bytes_ can neither *)
(* leak until nothing fits, nor wrap below zero.                             *)
BytesExact == bytes = CostOf(queue) + MapThenSumSet(LAMBDA p : push[p].message.cost, Charged)

(* The budget holds although messages are charged before they are copied,    *)
(* but for one oversized message that blocking mode admits when it is alone, *)
(* and what is charged is exactly what it is charged for.                    *)
WithinBudget ==
  /\ BytesExact
  /\ \/ bytes <= Budget
     \/ blocks /\ Cardinality(Messages(queue)) + Cardinality(Charged) = 1

Returns == MapThenSumSet(LAMBDA p : push[p].kept, Producers)

(* A recording that ends clean lost nothing but what it counts: each message *)
(* whose push was told to continue is in the file or among the dropped.      *)
NothingLost ==
  /\ summary.published => summary.messages = Len(sink.file)
  /\ summary.published /\ ~summary.truncated => summary.messages + summary.dropped = Returns

Notifying ==
  \/ writer.step = "notifying" \/ \E p \in Producers : push[p].step = "notifying"
  \/ \E s \in Stoppers : stop[s].step = "notifying"

(* The writer never sleeps through an item or its call to leave, although the *)
(* later callers of stop() share its condition variable and one may be the   *)
(* thread that notify_one wakes.                                             *)
WriterWoken == writer.step = "waiting" /\ ~Awake(Writer) /\ (queue # <<>> \/ leave) => Notifying

(* No push sleeps through the end of the recording. *)
PushesReleased ==
  \A p \in Producers :
    push[p].step = "waiting" /\ ~Awake(p) /\ state # "running" => Notifying \/ writer.step = "taken"

(* No later caller of stop() sleeps through the summary. *)
StoppersWoken ==
  \A s \in Stoppers :
    stop[s].step = "waiting" /\ ~Awake(s) /\ summary.published => \E t \in Stoppers : stop[t].step = "telling"

(* No wake-up is lost, although two kinds of thread share a condition        *)
(* variable, and a notification may come after the unlock: who sleeps on a   *)
(* predicate that holds is about to be notified, the pushes that wait for    *)
(* space included.                                                           *)
NoLostWakeUp ==
  /\ WriterWoken /\ PushesReleased /\ StoppersWoken
  /\ \A p \in Producers :
       push[p].step = "waiting" /\ ~Awake(p) /\ Space(push[p].message.cost) => Notifying \/ writer.step = "taken"

(* The sink needs no locking: the writer calls it while it is open and never *)
(* after it failed, and the one close comes once the writer has left.        *)
SinkInTurn ==
  /\ writer.step = "calling" => sink.life = "open"
  /\ \A s \in Stoppers : stop[s].step = "closing" => writer.step = "gone" /\ sink.life \in {"open", "failed"}

Pushing(p) == push[p].step \notin {"idle", "detached"}

(* The pushes never come to a stop: while one is under way, and the sink's    *)
(* calls return, some push returns.  Nothing more is so of a single one: a    *)
(* push that waits for space has no priority, and an oversized one waits for  *)
(* an empty queue, so that it can be overtaken for as long as other threads   *)
(* go on pushing; when they pause, it returns too.                            *)
NoneReturns == <>[][\A p \in Producers : push'[p].calls = push[p].calls]_vars

PushesReturn == SinkFairness /\ NoneReturns => <>[](\A p \in Producers : ~Pushing(p))

(* Each call of stop() returns if the sink's calls do, the ones that race     *)
(* the first included: from some point on none is under way.                  *)
StopReturns ==
  SinkFairness => <>[](\A s \in Stoppers : stop[s].step \in {"idle", "returned"} \/ stop[s].only)
=============================================================================
